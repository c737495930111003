----------------------------- MODULE StickProofs -----------------------------
(* Theorems about DualStick, for any ways to pull the stick and any number  *)
(* of datagrams under way.                                                  *)
EXTENDS DualStick, LinkProofs

\* The theorems of InputServer, for what this phone sends.
Injected == INSTANCE InputProofs WITH Controls <- Keys \cup {Touch1}, Metas <- {0}

\* What the phone sends.
Sendable == {Message(1, k, a) : k \in Keys, a \in {0, 1}}
              \cup {Message(0, Touch1, 2)}

\* The keys that are down as far as any activity told the server.
Held == keypress \cup orphans

Typed == /\ net \in Seq(Datagrams(Sendable))
         /\ settled \subseteq {<<1, k>> : k \in Keys}
         /\ keypress \in Pulls
         /\ orphans \subseteq Keys /\ orphans \cap keypress = {}
         /\ keys \subseteq Keys

\* The newest message about a key, if it is still on its way, says how the key is.
Agrees == \A i \in DOMAIN net :
  LET m == net[i].instruction IN
  net[i].newest /\ m.device = 1 => (m.action = 0 <=> m.control \in Held)

IInv == Typed /\ LinkInv /\ Agrees /\ ReplicaExact
-----------------------------------------------------------------------------
LEMMA JoinOf ==
  ASSUME NEW S, NEW s \in Seq(S), NEW t \in Seq(S)
  PROVE  s \o t \in Seq(S) /\ Range(s \o t) = Range(s) \cup Range(t)
BY ConcatProperties, RangeConcatenation
-----------------------------------------------------------------------------
(* What the phone sends and what the server makes of it *)

LEMMA SendableOf ==
  ASSUME NEW m \in Sendable
  PROVE  /\ m \in Server!Instructions
         /\ \/ /\ m.device = 1 /\ m.action \in {0, 1} /\ m.control \in Keys
               /\ Subject(m) = {<<1, m.control>>}
            \/ m.device = 0 /\ m.action = 2 /\ Subject(m) = {}
BY DEF Sendable, Message, Keys, Touch1, Server!Instructions, Subject

LEMMA KeyConverts ==
  ASSUME NEW k \in Keys
  PROVE  Server!WindowsDIConvert(k) = k /\ k # Server!NoKey
BY DEF Keys, Server!WindowsDIConvert, Server!Convertible, Server!NoKey

LEMMA AcceptOf ==
  ASSUME NEW m \in Sendable, Server!Accept(m)
  PROVE  /\ server = "running" /\ server' = "running"
         /\ m.device = 1 /\ m.action = 0 => keys' = keys \cup {m.control}
         /\ m.device = 1 /\ m.action = 1 => keys' = keys \ {m.control}
         /\ m.device = 0 => keys' = keys
<1>1. server = "running"
  BY DEF Server!Accept
<1>2. CASE m.device = 1 /\ m.action \in {0, 1} /\ m.control \in Keys
  <2>1. Server!KeyDown(m) \/ Server!KeyUp(m)
    BY <1>2 DEF Server!Accept, Server!MouseDown, Server!MouseUp,
       Server!MouseMove, Server!Present, Server!Ignore, Server!DeviceMouse,
       Server!DeviceKeyboard, Server!DeviceGamepad, Server!DevicePresenter,
       Server!Down, Server!Up, Server!Move
  <2>2. Server!WindowsDIConvert(m.control) = m.control /\ m.control # Server!NoKey
    BY <1>2, KeyConverts
  <2> QED
    BY <1>1, <1>2, <2>1, <2>2
       DEF Server!KeyDown, Server!KeyUp, Server!Down, Server!Up
<1>3. CASE m.device = 0 /\ m.action = 2
  <2>1. Server!MouseMove(m)
    BY <1>3 DEF Server!Accept, Server!MouseDown, Server!MouseUp,
       Server!KeyDown, Server!KeyUp, Server!Present, Server!Ignore,
       Server!DeviceMouse, Server!DeviceKeyboard, Server!DeviceGamepad,
       Server!DevicePresenter, Server!Down, Server!Up, Server!Move
  <2> QED
    BY <1>1, <1>3, <2>1 DEF Server!MouseMove
<1> QED
  BY <1>2, <1>3, SendableOf

\* The messages that handle_event may send when the stick is pulled.
Right(pull) == {m \in Sendable : /\ m.device = 1
                                 /\ (m.control \in pull) # (m.control \in keypress)
                                 /\ m.action = 0 <=> m.control \in pull}

LEMMA ChangeOf ==
  ASSUME NEW k \in Keys, NEW pull
  PROVE  /\ Change(k, pull) \in Seq(Right(pull))
         /\ (k \in pull) # (k \in keypress) =>
              \E m \in Range(Change(k, pull)) : m.device = 1 /\ m.control = k
<1>1. CASE (k \in pull) = (k \in keypress)
  BY <1>1 DEF Change
<1>2. CASE (k \in pull) # (k \in keypress)
  <2> DEFINE m == Message(1, k, IF k \in pull THEN 0 ELSE 1)
  <2>1. m \in Right(pull) /\ m.device = 1 /\ m.control = k
    BY <1>2 DEF Right, Sendable, Message
  <2>2. Change(k, pull) = <<m>>
    BY <1>2 DEF Change
  <2> HIDE DEF m
  <2>3. m \in Range(<<m>>)
    BY DEF Range
  <2> QED
    BY <2>1, <2>2, <2>3
<1> QED
  BY <1>1, <1>2

\* Every key that changes is told, and nothing else.
LEMMA ChangesOf ==
  ASSUME NEW pull
  PROVE  /\ Changes(pull) \in Seq(Right(pull))
         /\ \A k \in Keys : (k \in pull) # (k \in keypress) =>
              \E i \in DOMAIN Changes(pull) :
                Changes(pull)[i].device = 1 /\ Changes(pull)[i].control = k
<1> DEFINE w == Change(119, pull)
           a == Change(97, pull)
           s == Change(115, pull)
           d == Change(100, pull)
           all == w \o a \o s \o d
<1>1. /\ w \in Seq(Right(pull)) /\ a \in Seq(Right(pull))
      /\ s \in Seq(Right(pull)) /\ d \in Seq(Right(pull))
  BY ChangeOf DEF Keys
<1>2. \A k \in Keys : (k \in pull) # (k \in keypress) =>
        \E m \in Range(w) \cup Range(a) \cup Range(s) \cup Range(d) :
          m.device = 1 /\ m.control = k
  <2>1. ASSUME NEW k \in Keys, (k \in pull) # (k \in keypress)
        PROVE  \E m \in Range(w) \cup Range(a) \cup Range(s) \cup Range(d) :
                 m.device = 1 /\ m.control = k
    <3>1. PICK m \in Range(Change(k, pull)) : m.device = 1 /\ m.control = k
      BY <2>1, ChangeOf
    <3>2. k = 119 \/ k = 97 \/ k = 115 \/ k = 100
      BY DEF Keys
    <3>3. m \in Range(w) \cup Range(a) \cup Range(s) \cup Range(d)
      BY <3>1, <3>2
    <3> QED
      BY <3>1, <3>3
  <2> QED
    BY <2>1
<1>3. Changes(pull) = all
  BY DEF Changes
<1> HIDE DEF w, a, s, d
<1>4. /\ all \in Seq(Right(pull))
      /\ Range(all) = Range(w) \cup Range(a) \cup Range(s) \cup Range(d)
  <2> DEFINE wa == w \o a
             was == wa \o s
  <2>1. wa \in Seq(Right(pull)) /\ Range(wa) = Range(w) \cup Range(a)
    BY <1>1, JoinOf
  <2> HIDE DEF wa
  <2>2. was \in Seq(Right(pull)) /\ Range(was) = Range(wa) \cup Range(s)
    BY <1>1, <2>1, JoinOf
  <2>3. all = was \o d
    BY DEF wa
  <2> HIDE DEF was, all
  <2>4. all \in Seq(Right(pull)) /\ Range(all) = Range(was) \cup Range(d)
    BY <1>1, <2>2, <2>3, JoinOf
  <2> QED
    BY <2>1, <2>2, <2>4
<1> HIDE DEF all
<1>5. ASSUME NEW m \in Range(all) PROVE \E i \in DOMAIN all : all[i] = m
  BY <1>5 DEF Range
<1> QED
  BY <1>2, <1>3, <1>4, <1>5
-----------------------------------------------------------------------------
(* The steps *)

LEMMA InitIInv == Init => IInv
<1> SUFFICES ASSUME Init PROVE IInv
  OBVIOUS
<1>1. /\ net = <<>> /\ settled = {} /\ keypress = {} /\ orphans = {}
      /\ keys = {} /\ {} \in Pulls
  BY PullsAssumption DEF Init, LinkInit, Server!Init
<1>2. net \in Seq(Datagrams(Sendable)) /\ DOMAIN net = {}
  BY <1>1
<1> QED
  BY <1>1, <1>2 DEF IInv, Typed, LinkInv, OneNewest, NewestUnsettled, Agrees,
     ReplicaExact

\* A pull tells of every key that it changes, the newest message about each
\* is what was told last, and no other key is unsettled.
LEMMA HandleEventKeepsIInv ==
  ASSUME IInv, NEW pull \in Pulls, HandleEvent(pull)
  PROVE  IInv'
<1> DEFINE messages == Changes(pull)
           Changed(k) == (k \in pull) # (k \in keypress)
           Kept(i) ==
             /\ i \in DOMAIN net /\ net[i].newest
             /\ net'[i].instruction = net[i].instruction
             /\ \A k \in DOMAIN messages :
                  Subject(net[i].instruction) \cap Subject(messages[k]) = {}
           Sent(i, k) == net'[i].instruction = messages[k]
<1>1. /\ Send(messages) /\ keypress' = pull /\ orphans' = orphans \ pull
      /\ UNCHANGED <<server, keys>>
  BY DEF HandleEvent, serverVars
<1>2. /\ pull \subseteq Keys /\ keypress \subseteq Keys /\ orphans \subseteq Keys
      /\ orphans \cap keypress = {} /\ net \in Seq(Datagrams(Sendable))
  BY PullsAssumption DEF IInv, Typed
<1>3. /\ messages \in Seq(Right(pull))
      /\ \A k \in Keys : Changed(k) =>
           \E i \in DOMAIN messages :
             messages[i].device = 1 /\ messages[i].control = k
  BY ChangesOf
<1> HIDE DEF messages
<1>4. /\ messages \in Seq(Sendable)
      /\ \A i \in DOMAIN messages : messages[i] \in Right(pull)
  <2>1. Right(pull) \subseteq Sendable
    BY DEF Right
  <2> QED
    BY <1>3, <2>1, SeqMonotonic, ElementOfSeq, LenProperties
<1>5. /\ net' \in Seq(Datagrams(Sendable))
      /\ settled' = settled \ UNION {Subject(messages[k]) : k \in DOMAIN messages}
      /\ \A i \in DOMAIN net' : net'[i].newest =>
           Kept(i) \/ \E k \in DOMAIN messages : Sent(i, k)
  BY <1>1, <1>2, <1>4, SendOf
<1>6. LinkInv'
  BY <1>1, <1>2, <1>4, SendKeepsLinkInv DEF IInv
<1>7. ASSUME NEW k \in Keys, Changed(k)
      PROVE  \E i \in DOMAIN messages : Subject(messages[i]) = {<<1, k>>}
  <2>1. PICK i \in DOMAIN messages :
          messages[i].device = 1 /\ messages[i].control = k
    BY <1>3, <1>7
  <2> QED
    BY <1>4, <2>1, SendableOf DEF Right
<1>8. ASSUME NEW k \in Keys
      PROVE  /\ ~Changed(k) => (k \in Held' <=> k \in Held)
             /\ Changed(k) => (k \in Held' <=> k \in pull)
  BY <1>1, <1>2 DEF Held
<1>9. Typed'
  BY <1>1, <1>2, <1>5 DEF IInv, Typed
<1>10. Agrees'
  <2> SUFFICES ASSUME NEW i \in DOMAIN net', net'[i].newest,
                      net'[i].instruction.device = 1
               PROVE  net'[i].instruction.action = 0
                        <=> net'[i].instruction.control \in Held'
    BY DEF Agrees
  <2>1. CASE Kept(i)
    <3> DEFINE m == net[i].instruction
    <3>1. m \in Sendable /\ m.device = 1 /\ m = net'[i].instruction
      <4>1. net[i] \in Datagrams(Sendable)
        BY <1>2, <2>1
      <4> QED
        BY <2>1, <4>1 DEF Datagrams
    <3>2. m.action = 0 <=> m.control \in Held
      BY <2>1, <3>1 DEF IInv, Agrees
    <3>3. m.control \in Keys /\ Subject(m) = {<<1, m.control>>}
      BY <3>1, SendableOf
    <3>4. ~Changed(m.control)
      BY <1>7, <2>1, <3>3
    <3> QED
      BY <1>8, <3>1, <3>2, <3>3, <3>4
  <2>2. ASSUME NEW k \in DOMAIN messages, Sent(i, k)
        PROVE  net'[i].instruction.action = 0
                 <=> net'[i].instruction.control \in Held'
    <3> DEFINE m == messages[k]
    <3>1. m \in Sendable /\ m.device = 1 /\ m = net'[i].instruction
      BY <1>4, <2>2 DEF Right
    <3>2. Changed(m.control) /\ (m.action = 0 <=> m.control \in pull)
      BY <1>4 DEF Right
    <3>3. m.control \in Keys
      BY <3>1, SendableOf
    <3> QED
      BY <1>8, <3>1, <3>2, <3>3
  <2> QED
    BY <1>5, <2>1, <2>2
<1>11. ReplicaExact'
  <2> SUFFICES ASSUME server' = "running", NEW k \in Keys, <<1, k>> \in settled'
               PROVE  k \in keys' <=> k \in Held'
    BY DEF ReplicaExact, Held
  <2>1. <<1, k>> \in settled /\ ~Changed(k)
    BY <1>5, <1>7
  <2>2. k \in keys <=> k \in Held
    BY <1>1, <2>1 DEF IInv, ReplicaExact, Held
  <2> QED
    BY <1>1, <1>8, <2>1, <2>2
<1> QED
  BY <1>6, <1>9, <1>10, <1>11 DEF IInv

LEMMA MoveStickKeepsIInv ==
  ASSUME IInv, MoveStick
  PROVE  IInv'
<1> DEFINE m == Message(0, Touch1, 2)
           messages == <<m>>
<1>1. /\ Send(messages)
      /\ UNCHANGED <<keypress, orphans, server, keys>>
  BY DEF MoveStick, serverVars
<1>2. m \in Sendable /\ m.device = 0 /\ Subject(m) = {}
  BY DEF Sendable, Message, Subject
<1>3. /\ messages \in Seq(Sendable) /\ DOMAIN messages = {1} /\ messages[1] = m
  BY <1>2
<1>4. net \in Seq(Datagrams(Sendable))
  BY DEF IInv, Typed
<1> HIDE DEF m, messages
<1>5. /\ net' \in Seq(Datagrams(Sendable))
      /\ settled' = settled \ UNION {Subject(messages[k]) : k \in DOMAIN messages}
      /\ \A i \in DOMAIN net' : net'[i].newest =>
           \/ /\ i \in DOMAIN net /\ net[i].newest
              /\ net'[i].instruction = net[i].instruction
           \/ \E k \in DOMAIN messages : net'[i].instruction = messages[k]
  BY <1>1, <1>3, <1>4, SendOf
<1>6. LinkInv'
  BY <1>1, <1>3, <1>4, SendKeepsLinkInv DEF IInv
<1>7. settled' \subseteq settled
  BY <1>5
<1>8. Agrees'
  BY <1>1, <1>2, <1>3, <1>5 DEF IInv, Agrees, Held
<1> QED
  BY <1>1, <1>5, <1>6, <1>7, <1>8 DEF IInv, Typed, ReplicaExact

LEMMA RecreateKeepsIInv ==
  ASSUME IInv, Recreate
  PROVE  IInv'
<1>1. /\ keypress' = {} /\ orphans' = orphans \cup keypress
      /\ UNCHANGED <<net, settled, server, keys>>
  BY DEF Recreate, linkVars, serverVars
<1>2. Held' = Held
  BY <1>1 DEF Held
<1>3. Typed'
  BY <1>1, PullsAssumption DEF IInv, Typed
<1>4. LinkInv'
  BY <1>1 DEF IInv, LinkInv, OneNewest, NewestUnsettled, About
<1>5. Agrees' /\ ReplicaExact'
  BY <1>1, <1>2 DEF IInv, Agrees, ReplicaExact, Held
<1> QED
  BY <1>3, <1>4, <1>5 DEF IInv

LEMMA DeliverKeepsIInv ==
  ASSUME IInv, Deliver
  PROVE  IInv'
<1>1. PICK n \in DOMAIN net : /\ Take(n) /\ Server!Accept(net[n].instruction)
                             /\ UNCHANGED <<keypress, orphans>>
  BY DEF Deliver
<1>2. net \in Seq(Datagrams(Sendable)) /\ LinkInv
  BY DEF IInv, Typed
<1>3. PICK m \in Sendable : m = net[n].instruction
  <2>1. net[n] \in Datagrams(Sendable)
    BY <1>2
  <2> QED
    BY <2>1 DEF Datagrams
<1>4. Server!Accept(m)
  BY <1>1, <1>3
<1>5. /\ server = "running" /\ server' = "running"
      /\ m.device = 1 /\ m.action = 0 => keys' = keys \cup {m.control}
      /\ m.device = 1 /\ m.action = 1 => keys' = keys \ {m.control}
      /\ m.device = 0 => keys' = keys
  BY <1>4, AcceptOf
<1>6. /\ net' \in Seq(Datagrams(Sendable)) /\ LinkInv'
      /\ \A i \in DOMAIN net' : \E j \in DOMAIN net : j # n /\ net'[i] = net[j]
  BY <1>1, <1>2, TakeKeepsLinkInv
<1>7. /\ net[n].newest => settled' = settled \cup Subject(m)
      /\ ~net[n].newest => settled' = settled \ Subject(m)
  BY <1>1, <1>3 DEF Take
<1>8. \/ /\ m.device = 1 /\ m.action \in {0, 1} /\ m.control \in Keys
         /\ Subject(m) = {<<1, m.control>>}
      \/ m.device = 0 /\ Subject(m) = {}
  BY SendableOf
<1>9. Typed'
  BY <1>1, <1>5, <1>6, <1>7, <1>8 DEF IInv, Typed
<1>10. Agrees'
  BY <1>1, <1>6 DEF IInv, Agrees, Held
<1>11. ReplicaExact'
  <2> SUFFICES ASSUME NEW k \in Keys, <<1, k>> \in settled'
               PROVE  k \in keys' <=> k \in Held
    BY <1>1 DEF ReplicaExact, Held
  <2>1. <<1, k>> \in settled => (k \in keys <=> k \in Held)
    BY <1>5 DEF IInv, ReplicaExact, Held
  <2>2. CASE m.device = 1 /\ m.control = k
    <3>1. net[n].newest
      BY <1>7, <1>8, <2>2
    <3>2. m.action = 0 <=> k \in Held
      BY <1>3, <2>2, <3>1 DEF IInv, Agrees
    <3> QED
      BY <1>5, <1>8, <2>2, <3>2
  <2>3. CASE ~(m.device = 1 /\ m.control = k)
    <3>1. <<1, k>> \in settled /\ (k \in keys' <=> k \in keys)
      BY <1>5, <1>7, <1>8, <2>3
    <3> QED
      BY <2>1, <3>1
  <2> QED
    BY <2>2, <2>3
<1> QED
  BY <1>6, <1>9, <1>10, <1>11 DEF IInv

LEMMA LoseKeepsIInv ==
  ASSUME IInv, Lose
  PROVE  IInv'
<1>1. PICK n \in DOMAIN net : Drop(n) /\ UNCHANGED <<keypress, serverVars, orphans>>
  BY DEF Lose
<1>2. /\ settled' = settled
      /\ UNCHANGED <<keypress, orphans, server, keys>>
  BY <1>1 DEF Drop, serverVars
<1>3. net \in Seq(Datagrams(Sendable)) /\ LinkInv
  BY DEF IInv, Typed
<1>4. /\ net' \in Seq(Datagrams(Sendable)) /\ LinkInv'
      /\ \A i \in DOMAIN net' : \E j \in DOMAIN net : j # n /\ net'[i] = net[j]
  BY <1>1, <1>3, DropKeepsLinkInv
<1>5. Agrees'
  BY <1>2, <1>4 DEF IInv, Agrees, Held
<1> QED
  BY <1>2, <1>4, <1>5 DEF IInv, Typed, ReplicaExact

LEMMA ServerExitKeepsIInv ==
  ASSUME IInv, ServerExit
  PROVE  IInv'
<1>1. /\ server' # "running" /\ keys' \subseteq keys
      /\ UNCHANGED <<net, settled, keypress, orphans>>
  BY DEF ServerExit, linkVars, Server!Exit, Server!Kill, Server!KeyboardClear,
     Server!MouseClear
<1>2. LinkInv' /\ Agrees'
  BY <1>1 DEF IInv, LinkInv, OneNewest, NewestUnsettled, About, Agrees, Held
<1> QED
  BY <1>1, <1>2 DEF IInv, Typed, ReplicaExact

LEMMA NextKeepsIInv ==
  ASSUME IInv, [Next]_vars
  PROVE  IInv'
<1>1. CASE UNCHANGED vars
  <2>1. UNCHANGED <<net, settled, keypress, orphans, server, keys>>
    BY <1>1 DEF vars, linkVars, serverVars
  <2> QED
    BY <2>1 DEF IInv, Typed, LinkInv, OneNewest, NewestUnsettled, About,
       Agrees, Held, ReplicaExact
<1> QED
  BY <1>1, HandleEventKeepsIInv, MoveStickKeepsIInv, RecreateKeepsIInv,
     DeliverKeepsIInv, LoseKeepsIInv, ServerExitKeepsIInv DEF Next

\* ReplicaExact is inductive only beside what is still under way: that the
\* newest message about a key says how it is, and that there is at most one.
THEOREM IInvHolds == Spec => []IInv
<1>1. IInv /\ [Next]_vars => IInv'
  BY NextKeepsIInv
<1> QED
  BY <1>1, InitIInv, PTL DEF Spec

\* The composition does to the server only what InputServer does, so that the
\* theorems of InputProofs hold of it.
LEMMA ServerSteps == Spec => Server!Spec
<1>1. Init => Server!Init
  BY DEF Init
<1>2. ASSUME IInv, [Next]_vars
      PROVE  [Server!Next]_(Server!serverVars)
  <2>1. CASE Deliver
    <3>1. PICK n \in DOMAIN net : Server!Accept(net[n].instruction)
      BY <2>1 DEF Deliver
    <3>2. net[n] \in Datagrams(Sendable)
      BY <1>2 DEF IInv, Typed
    <3>3. net[n].instruction \in Server!Instructions
      BY <3>2, SendableOf DEF Datagrams
    <3> QED
      BY <3>1, <3>3 DEF Server!Next
  <2>2. CASE ServerExit
    BY <2>2 DEF ServerExit, Server!Next
  <2>3. CASE UNCHANGED serverVars
    BY <2>3 DEF serverVars, Server!serverVars
  <2>4. Deliver \/ ServerExit \/ UNCHANGED serverVars
    BY <1>2 DEF Next, vars, HandleEvent, MoveStick, Recreate, Lose
  <2> QED
    BY <2>1, <2>2, <2>3, <2>4
<1> QED
  BY <1>1, <1>2, IInvHolds, PTL DEF Spec, Server!Spec

\* Server and Injected are two instances of one module, alike when expanded.
LEMMA ServerInvariants ==
  Server!Spec => [](Server!TypeOK /\ Server!ExitReleasesPrinting)
<1>1. Keys \cup {Touch1} \subseteq Nat
  BY DEF Keys, Touch1
<1>2. Server!Init => Injected!Init
  BY DEF Server!Init, Injected!Init
<1>3. [Server!Next]_(Server!serverVars) => [Injected!Next]_(Injected!serverVars)
  BY DEF Server!Next, Server!serverVars, Server!Instructions, Server!Accept,
     Server!Exit, Server!Kill, Server!KeyboardClear, Server!MouseClear,
     Server!MouseDown, Server!MouseUp, Server!MouseMove, Server!KeyDown,
     Server!KeyUp, Server!Present, Server!Ignore, Server!DeviceMouse,
     Server!DeviceKeyboard, Server!DeviceGamepad, Server!DevicePresenter,
     Server!Down, Server!Up, Server!Move, Server!Buttons,
     Server!WindowsDIConvert, Server!Convertible, Server!NoKey,
     Server!DeinitKeys, Injected!Next, Injected!serverVars,
     Injected!Instructions, Injected!Accept, Injected!Exit, Injected!Kill,
     Injected!KeyboardClear, Injected!MouseClear, Injected!MouseDown,
     Injected!MouseUp, Injected!MouseMove, Injected!KeyDown, Injected!KeyUp,
     Injected!Present, Injected!Ignore, Injected!DeviceMouse,
     Injected!DeviceKeyboard, Injected!DeviceGamepad,
     Injected!DevicePresenter, Injected!Down, Injected!Up, Injected!Move,
     Injected!Buttons, Injected!WindowsDIConvert, Injected!Convertible,
     Injected!NoKey, Injected!DeinitKeys
<1>4. Injected!TypeOK => Server!TypeOK
  BY DEF Server!TypeOK, Injected!TypeOK, Server!Convertible,
     Injected!Convertible, Server!Buttons, Injected!Buttons
<1>5. Injected!ExitReleasesPrinting => Server!ExitReleasesPrinting
  BY DEF Server!ExitReleasesPrinting, Injected!ExitReleasesPrinting
<1> QED
  BY <1>1, <1>2, <1>3, <1>4, <1>5, Injected!TypeCorrect, Injected!ExitReleases, PTL
     DEF Server!Spec, Injected!Spec

\* Every variable of the stick, the link and the server keeps its type.
THEOREM TypeCorrect == Spec => []TypeOK
<1>1. IInv /\ Server!TypeOK => TypeOK
  <2> SUFFICES ASSUME IInv, Server!TypeOK PROVE TypeOK
    OBVIOUS
  <2>1. Datagrams(Sendable)
          \subseteq [instruction : Server!Instructions, newest : BOOLEAN]
    BY SendableOf DEF Datagrams
  <2>2. net \in Seq([instruction : Server!Instructions, newest : BOOLEAN])
    BY <2>1, SeqMonotonic DEF IInv, Typed
  <2> QED
    BY <2>2 DEF IInv, Typed, TypeOK
<1> QED
  BY <1>1, IInvHolds, ServerSteps, ServerInvariants, PTL

\* Whatever is lost, overtaken or forgotten, a settled key is down on the
\* server if and only if the phone has it down or forgot it there.
THEOREM ReplicaIsExact == Spec => []ReplicaExact
<1>1. IInv => ReplicaExact
  BY DEF IInv
<1> QED
  BY <1>1, IInvHolds, PTL

\* No key of the stick outlives the server: Keyboard::Deinit releases all but
\* Tab and Enter, and the stick presses neither.
THEOREM ExitReleasesTheStick == Spec => []ExitReleasesStick
<1>1. IInv /\ Server!ExitReleasesPrinting => ExitReleasesStick
  <2>1. Keys \cap {9, 10} = {}
    BY DEF Keys
  <2> QED
    BY <2>1 DEF IInv, Typed, Server!ExitReleasesPrinting, ExitReleasesStick
<1> QED
  BY <1>1, IInvHolds, ServerSteps, ServerInvariants, PTL
=============================================================================
