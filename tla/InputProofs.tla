---------------------------- MODULE InputProofs ----------------------------
(* Theorems about InputServer, for every set of controls a client may send. *)
EXTENDS InputServer, TLAPS

\* Until Clear has run, what is held has the instance whose Deinit runs then.
\* (Deinit of the keyboard does not release Tab and Enter for all that.)
HeldHasInstance ==
  /\ server \in {"running", "killed"} /\ keys # {} => keyboard
  /\ server # "exited" /\ buttons # {} => mouse

IInv == /\ TypeOK
        /\ HeldHasInstance
        /\ ExitReleasesPrinting

LEMMA ConversionIsKey ==
  \A k : WindowsDIConvert(k) \in Convertible \cup {NoKey}
BY DEF WindowsDIConvert

\* Keyboard::Deinit's loop reaches every key but Tab and Enter.
LEMMA DeinitReaches ==
  ASSUME NEW k \in Convertible, k \notin {9, 10}
  PROVE  k \in {WindowsDIConvert(j) : j \in DeinitKeys}
<1>1. k \in DeinitKeys
  BY DEF Convertible, DeinitKeys
<1>2. WindowsDIConvert(k) = k
  BY DEF WindowsDIConvert
<1> QED
  BY <1>1, <1>2

LEMMA InitIInv == Init => IInv
BY DEF Init, IInv, TypeOK, HeldHasInstance, ExitReleasesPrinting

LEMMA AcceptKeepsIInv ==
  ASSUME IInv, NEW i \in Instructions, Accept(i)
  PROVE  IInv'
<1> USE DEF IInv
<1>1. server = "running" /\ server' = "running"
  BY DEF Accept, MouseDown, MouseUp, MouseMove, KeyDown, KeyUp, Present,
         Ignore, serverVars
<1>2. CASE MouseDown(i)
  BY <1>1, <1>2 DEF MouseDown, TypeOK, HeldHasInstance, ExitReleasesPrinting
<1>3. CASE MouseUp(i)
  BY <1>1, <1>3 DEF MouseUp, TypeOK, HeldHasInstance, ExitReleasesPrinting
<1>4. CASE MouseMove(i)
  BY <1>1, <1>4 DEF MouseMove, TypeOK, HeldHasInstance, ExitReleasesPrinting
<1>5. CASE KeyDown(i)
  BY <1>1, <1>5, ConversionIsKey
     DEF KeyDown, TypeOK, HeldHasInstance, ExitReleasesPrinting
<1>6. CASE KeyUp(i)
  BY <1>1, <1>6 DEF KeyUp, TypeOK, HeldHasInstance, ExitReleasesPrinting
<1>7. CASE Present(i)
  <2>1. presenter' \in {"none", "idle", "active"}
    BY <1>7 DEF Present, TypeOK
  <2> QED
    BY <1>1, <1>7, <2>1
       DEF Present, TypeOK, HeldHasInstance, ExitReleasesPrinting
<1>8. CASE Ignore(i)
  BY <1>1, <1>8
     DEF Ignore, serverVars, TypeOK, HeldHasInstance, ExitReleasesPrinting
<1> QED
  BY <1>2, <1>3, <1>4, <1>5, <1>6, <1>7, <1>8 DEF Accept

LEMMA ExitKeepsIInv ==
  ASSUME IInv, Exit
  PROVE  IInv'
<1> USE DEF IInv
<1>1. CASE Kill
  BY <1>1 DEF Kill, TypeOK, HeldHasInstance, ExitReleasesPrinting
<1>2. CASE KeyboardClear
  <2>1. keys' \subseteq {9, 10}
    <3>1. CASE keyboard
      BY <1>2, <3>1, DeinitReaches DEF KeyboardClear, TypeOK
    <3>2. CASE ~keyboard
      BY <1>2, <3>2 DEF KeyboardClear, TypeOK, HeldHasInstance
    <3> QED
      BY <3>1, <3>2
  <2>2. keys' \subseteq Convertible /\ keyboard' = FALSE
    BY <1>2 DEF KeyboardClear, TypeOK
  <2>3. server' = "keyboardCleared" /\ UNCHANGED <<buttons, mouse, presenter>>
    BY <1>2 DEF KeyboardClear
  <2>4. buttons # {} => mouse
    BY <1>2 DEF KeyboardClear, HeldHasInstance
  <2> QED
    BY <2>1, <2>2, <2>3, <2>4 DEF TypeOK, HeldHasInstance, ExitReleasesPrinting
<1>3. CASE MouseClear
  <2>1. buttons' = {}
    BY <1>3 DEF MouseClear, TypeOK, HeldHasInstance, Buttons
  <2> QED
    BY <1>3, <2>1 DEF MouseClear, TypeOK, HeldHasInstance, ExitReleasesPrinting
<1> QED
  BY <1>1, <1>2, <1>3 DEF Exit

\* The three are inductive together: the exit's promise rests on every held key
\* having had a Keyboard instance, and that on the type of the keys.
THEOREM Invariance == Spec => []IInv
<1>1. IInv /\ [Next]_serverVars => IInv'
  <2> SUFFICES ASSUME IInv, [Next]_serverVars PROVE IInv'
    OBVIOUS
  <2>1. ASSUME NEW i \in Instructions, Accept(i) PROVE IInv'
    BY <2>1, AcceptKeepsIInv
  <2>2. CASE Exit
    BY <2>2, ExitKeepsIInv
  <2>3. CASE UNCHANGED serverVars
    BY <2>3 DEF serverVars, IInv, TypeOK, HeldHasInstance, ExitReleasesPrinting
  <2> QED
    BY <2>1, <2>2, <2>3 DEF Next
<1> QED
  BY <1>1, InitIInv, PTL DEF Spec

\* What the server holds down is a key or a button that Windows knows.
THEOREM TypeCorrect == Spec => []TypeOK
<1>1. IInv => TypeOK
  BY DEF IInv
<1> QED
  BY <1>1, Invariance, PTL

\* The exit releases every button and every key but Tab and Enter, whatever a
\* client pressed and whenever the receive thread died.
THEOREM ExitReleases == Spec => []ExitReleasesPrinting
<1>1. IInv => ExitReleasesPrinting
  BY DEF IInv
<1> QED
  BY <1>1, Invariance, PTL
=============================================================================
