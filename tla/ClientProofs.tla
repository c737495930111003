---------------------------- MODULE ClientProofs ----------------------------
(* Theorems about ClientActivities, for any servers, codes and bounds.      *)
EXTENDS ClientActivities, SequenceTheorems, FiniteSetTheorems, TLAPS

Controls == {"menu", "pad"}
Activities == [screen : Screens, id : Nat]

\* Of a stack: it has a menu or a pad; above one there are only menus and pads.
HasControls(s) == \E i \in DOMAIN s : s[i].screen \in Controls
Layers(s) == \A i, j \in DOMAIN s :
  i < j /\ s[i].screen \in Controls => s[j].screen \in Controls

Typed == /\ stack \in Seq(Activities)
         /\ created \in Nat /\ kills \in Nat
         /\ handshakes \subseteq [server : Servers, code : Codes]
         /\ answers \subseteq Servers
         /\ remoteKeys \in Servers \cup {None, Rejected}

\* A server is asked only from a screen with no menu or pad below it.
Layered == Layers(stack)

\* A broadcast is queued only once a server has answered.
QueueKeyed == remoteKeys = None => queue = <<>>

\* A process with a menu or a pad was answered, or has no sender.
ControlsKeyed == remoteKeys = None /\ HasControls(stack) => mSender \notin Servers

\* A first process that has no sender, and no socket failed it, never asked any
\* server: nobody answered, and no menu was started.
Unasked == kills = 0 /\ ~failed /\ mSender \notin Servers =>
  /\ handshakes = {} /\ answers = {} /\ remoteKeys = None
  /\ ~HasControls(stack)

IInv == Typed /\ Layered /\ QueueKeyed /\ ControlsKeyed /\ Unasked
-----------------------------------------------------------------------------
(* What the sequence operators return, element by element *)

LEMMA LastOf ==
  ASSUME NEW S, NEW s \in Seq(S), s # <<>>
  PROVE  Last(s) = s[Len(s)] /\ Len(s) \in DOMAIN s /\ Len(s) \in Nat \ {0}
BY DEF Last

LEMMA FrontOf ==
  ASSUME NEW S, NEW s \in Seq(S), s # <<>>
  PROVE  /\ Front(s) \in Seq(S) /\ Len(Front(s)) = Len(s) - 1
         /\ \A i \in DOMAIN Front(s) : i \in DOMAIN s /\ Front(s)[i] = s[i]
<1>1. Len(s) \in Nat /\ Len(s) > 0 /\ DOMAIN s = 1..Len(s)
  OBVIOUS
<1>2. Front(s) = SubSeq(s, 1, Len(s) - 1)
  BY DEF Front
<1> QED
  BY <1>1, <1>2

LEMMA AppendOf ==
  ASSUME NEW S, NEW s \in Seq(S), NEW e \in S
  PROVE  /\ Append(s, e) \in Seq(S)
         /\ DOMAIN Append(s, e) = DOMAIN s \cup {Len(s) + 1}
         /\ \A i \in DOMAIN s : Append(s, e)[i] = s[i] /\ i < Len(s) + 1
         /\ Append(s, e)[Len(s) + 1] = e
         /\ Append(s, e) # <<>>
OBVIOUS

LEMMA OrdersOf ==
  ASSUME NEW S, IsFiniteSet(S), NEW order \in SetToSeqs(S)
  PROVE  order \in Seq(S) /\ Len(order) = Cardinality(S)
<1>1. Cardinality(S) \in Nat
  BY FS_CardinalityType
<1>2. order \in [1..Cardinality(S) -> S]
  BY DEF SetToSeqs
<1> QED
  BY <1>1, <1>2

LEMMA RemoveAtOf ==
  ASSUME NEW S, NEW s \in Seq(S), NEW k \in DOMAIN s
  PROVE  /\ RemoveAt(s, k) \in Seq(S) /\ Len(RemoveAt(s, k)) = Len(s) - 1
         /\ \A i \in DOMAIN RemoveAt(s, k) :
              /\ i < k => i \in DOMAIN s /\ RemoveAt(s, k)[i] = s[i]
              /\ i >= k => i + 1 \in DOMAIN s /\ RemoveAt(s, k)[i] = s[i + 1]
<1> DEFINE a == SubSeq(s, 1, k - 1)
           b == SubSeq(s, k + 1, Len(s))
<1>1. Len(s) \in Nat /\ k \in 1..Len(s) /\ DOMAIN s = 1..Len(s)
  OBVIOUS
<1>2. a \in Seq(S) /\ Len(a) = k - 1 /\ \A i \in 1..(k - 1) : a[i] = s[i]
  BY <1>1
<1>3. /\ b \in Seq(S) /\ Len(b) = Len(s) - k
      /\ \A i \in 1..(Len(s) - k) : b[i] = s[k + i]
  BY <1>1
<1> HIDE DEF a, b
<1>4. RemoveAt(s, k) = a \o b
  BY DEF RemoveAt, a, b
<1>5. /\ a \o b \in Seq(S) /\ Len(a \o b) = Len(a) + Len(b)
      /\ \A i \in 1..(Len(a) + Len(b)) :
           (a \o b)[i] = IF i <= Len(a) THEN a[i] ELSE b[i - Len(a)]
  BY <1>2, <1>3, ConcatProperties
<1>6. Len(a \o b) = Len(s) - 1 /\ DOMAIN (a \o b) = 1..(Len(s) - 1)
  <2>1. Len(a \o b) = Len(s) - 1
    BY <1>1, <1>2, <1>3, <1>5
  <2> QED
    BY <1>5, <2>1, LenProperties
<1>7. ASSUME NEW i \in 1..(Len(s) - 1), i < k
      PROVE  i \in DOMAIN s /\ (a \o b)[i] = s[i]
  BY <1>1, <1>2, <1>3, <1>5, <1>7
<1>8. ASSUME NEW i \in 1..(Len(s) - 1), i >= k
      PROVE  i + 1 \in DOMAIN s /\ (a \o b)[i] = s[i + 1]
  <2>1. i + 1 \in DOMAIN s /\ i - (k - 1) \in 1..(Len(s) - k)
    BY <1>1, <1>8
  <2>2. (a \o b)[i] = b[i - (k - 1)]
    <3>1. Len(a) = k - 1 /\ i \in 1..(Len(a) + Len(b)) /\ ~(i <= Len(a))
      BY <1>1, <1>2, <1>3, <1>8
    <3>2. (a \o b)[i] = IF i <= Len(a) THEN a[i] ELSE b[i - Len(a)]
      BY <1>5, <3>1
    <3> QED
      BY <3>1, <3>2
  <2>3. b[i - (k - 1)] = s[k + (i - (k - 1))]
    BY <1>3, <2>1
  <2>4. k + (i - (k - 1)) = i + 1
    BY <1>1, <1>8
  <2> QED
    BY <2>1, <2>2, <2>3, <2>4
<1> QED
  BY <1>4, <1>5, <1>6, <1>7, <1>8
-----------------------------------------------------------------------------
(* What a crash leaves of the stack, and where a code is read *)

Beginning(r, s) == /\ Len(r) <= Len(s)
                   /\ \A i \in DOMAIN r : i \in DOMAIN s /\ r[i] = s[i]

LEMMA FrontBegins ==
  ASSUME NEW S, NEW s \in Seq(S), s # <<>>
  PROVE  Front(s) \in Seq(S) /\ Beginning(Front(s), s)
BY FrontOf DEF Beginning

LEMMA CrashOf ==
  ASSUME NEW S, NEW shown \in Seq(S), shown # <<>>, Crash(shown)
  PROVE  \E rest \in Seq(S) : Beginning(rest, shown) /\ Ended(rest)
<1>1. PICK one \in Seq(S) : one = Front(shown) /\ Beginning(one, shown)
  BY FrontBegins
<1>2. CASE Ended(one)
  BY <1>1, <1>2
<1>3. CASE one # <<>> /\ Ended(Front(one))
  <2>1. PICK two \in Seq(S) : two = Front(one) /\ Beginning(two, one)
    BY <1>3, FrontBegins
  <2>2. Beginning(two, shown)
    <3>1. Len(two) \in Nat /\ Len(one) \in Nat /\ Len(shown) \in Nat
      BY LenProperties
    <3> QED
      BY <1>1, <2>1, <3>1 DEF Beginning
  <2> QED
    BY <1>3, <2>1, <2>2
<1> QED
  BY <1>1, <1>2, <1>3 DEF Crash

LEMMA ReaderOf ==
  ASSUME NEW S, stack \in Seq(S), NEW shown, Reader(shown)
  PROVE  /\ stack # <<>> /\ Last(stack).screen \in {"entry", "scan"}
         /\ shown \in Seq(S) /\ shown # <<>> /\ Beginning(shown, stack)
         /\ shown = stack \/ shown = Front(stack)
<1>1. stack # <<>> /\ Last(stack).screen \in {"entry", "scan"}
  BY DEF Reader, Visible
<1>2. CASE shown = stack
  BY <1>1, <1>2, LenProperties DEF Beginning
<1>3. CASE shown = Front(stack) /\ \E a \in Top(shown) : a.screen = "picker"
  <2>1. shown # <<>>
    BY <1>3 DEF Top
  <2> QED
    BY <1>1, <1>3, <2>1, FrontBegins
<1> QED
  BY <1>1, <1>2, <1>3 DEF Reader
-----------------------------------------------------------------------------
(* Stacks of activities *)

LEMMA FrontLayers ==
  ASSUME NEW s \in Seq(Activities), s # <<>>, Layers(s)
  PROVE  /\ Front(s) \in Seq(Activities) /\ Layers(Front(s))
         /\ HasControls(Front(s)) => HasControls(s)
BY FrontOf DEF Layers, HasControls

LEMMA BeginningLayers ==
  ASSUME NEW s, NEW r, Beginning(r, s), Layers(s)
  PROVE  Layers(r) /\ (HasControls(r) => HasControls(s))
BY DEF Beginning, Layers, HasControls

\* With another screen on top there is no menu or pad at all.
LEMMA PlainTop ==
  ASSUME NEW s \in Seq(Activities), s # <<>>, Layers(s),
         Last(s).screen \notin Controls
  PROVE  ~HasControls(s)
<1>1. /\ Last(s) = s[Len(s)] /\ Len(s) \in DOMAIN s /\ Len(s) \in Nat
      /\ DOMAIN s = 1..Len(s)
  BY LastOf, LenProperties
<1> QED
  BY <1>1 DEF Layers, HasControls

LEMMA AppendPlain ==
  ASSUME NEW s \in Seq(Activities), ~HasControls(s),
         NEW a \in Activities, a.screen \notin Controls
  PROVE  /\ Append(s, a) \in Seq(Activities) /\ Layers(Append(s, a))
         /\ ~HasControls(Append(s, a))
<1>1. ~HasControls(Append(s, a))
  BY AppendOf DEF HasControls
<1> QED
  BY <1>1, AppendOf DEF Layers, HasControls

LEMMA AppendControl ==
  ASSUME NEW s \in Seq(Activities), Layers(s),
         NEW a \in Activities, a.screen \in Controls
  PROVE  Append(s, a) \in Seq(Activities) /\ Layers(Append(s, a))
<1> DEFINE n == Len(s) + 1
<1>1. /\ Append(s, a) \in Seq(Activities) /\ DOMAIN Append(s, a) = DOMAIN s \cup {n}
      /\ \A i \in DOMAIN s : Append(s, a)[i] = s[i] /\ i < n
      /\ Append(s, a)[n] = a
  BY AppendOf
<1>2. n \in Nat /\ DOMAIN s \subseteq Nat
  BY LenProperties
<1> HIDE DEF n
<1>3. ASSUME NEW i \in DOMAIN Append(s, a), NEW j \in DOMAIN Append(s, a), i < j,
             Append(s, a)[i].screen \in Controls
      PROVE  Append(s, a)[j].screen \in Controls
  <2>1. CASE j = n
    BY <1>1, <2>1
  <2>2. CASE j # n
    <3>1. i # n
      BY <1>1, <1>2, <1>3, <2>2
    <3> QED
      BY <1>1, <1>3, <2>2, <3>1 DEF Layers
  <2> QED
    BY <2>1, <2>2
<1> QED
  BY <1>1, <1>3 DEF Layers

LEMMA RemoveLayers ==
  ASSUME NEW s \in Seq(Activities), Layers(s), NEW k \in DOMAIN s
  PROVE  RemoveAt(s, k) \in Seq(Activities) /\ Layers(RemoveAt(s, k))
<1> DEFINE r == RemoveAt(s, k)
<1>1. /\ r \in Seq(Activities)
      /\ \A i \in DOMAIN r : /\ i < k => i \in DOMAIN s /\ r[i] = s[i]
                             /\ i >= k => i + 1 \in DOMAIN s /\ r[i] = s[i + 1]
  BY RemoveAtOf
<1>2. DOMAIN r \subseteq Nat /\ k \in Nat
  BY <1>1, LenProperties
<1> HIDE DEF r
<1>3. ASSUME NEW i \in DOMAIN r, NEW j \in DOMAIN r, i < j, r[i].screen \in Controls
      PROVE  r[j].screen \in Controls
  <2>1. PICK m \in DOMAIN s : r[i] = s[m] /\ (i >= k => m = i + 1) /\ (i < k => m = i)
    BY <1>1, <1>2
  <2>2. PICK n \in DOMAIN s : r[j] = s[n] /\ (j >= k => n = j + 1) /\ (j < k => n = j)
    BY <1>1, <1>2
  <2>3. m < n
    BY <1>2, <1>3, <2>1, <2>2
  <2> QED
    BY <1>3, <2>1, <2>2, <2>3 DEF Layers
<1> QED
  BY <1>1, <1>3 DEF Layers, r

LEMMA FinishLayers ==
  ASSUME stack \in Seq(Activities), Layers(stack), NEW id
  PROVE  Finish(id) \in Seq(Activities) /\ Layers(Finish(id))
<1>1. CASE id \notin Numbers
  BY <1>1 DEF Finish
<1>2. CASE id \in Numbers
  <2> DEFINE k == CHOOSE i \in DOMAIN stack : stack[i].id = id
  <2>1. k \in DOMAIN stack
    BY <1>2 DEF Numbers
  <2>2. Finish(id) = RemoveAt(stack, k)
    BY <1>2 DEF Finish
  <2> HIDE DEF k
  <2> QED
    BY <2>1, <2>2, RemoveLayers
<1> QED
  BY <1>1, <1>2
-----------------------------------------------------------------------------
(* The invariant *)

LEMMA InitIInv == Init => IInv
<1>1. <<>> \in Seq(Activities) /\ DOMAIN <<>> = {}
  OBVIOUS
<1> QED
  BY <1>1 DEF Init, ConnectorInit, IInv, Typed, Layered, Layers, QueueKeyed,
              ControlsKeyed, Unasked, HasControls

\* A picker, an entry or a scan on a stack without menus and pads.
LEMMA PlainStep ==
  ASSUME IInv, ~HasControls(stack), NEW a \in Activities, a.screen \notin Controls,
         stack' = Append(stack, a), created' \in Nat,
         UNCHANGED <<queue, handshakes, answers, mSender, remoteKeys, kills, failed>>
  PROVE  IInv'
<1>1. /\ stack' \in Seq(Activities) /\ Layers(stack') /\ ~HasControls(stack')
  BY AppendPlain DEF IInv, Typed
<1> QED
  BY <1>1 DEF IInv, Typed, Layered, QueueKeyed, ControlsKeyed, Unasked

LEMMA CreateKeepsIInv ==
  ASSUME IInv, Launch \/ OpenEntry \/ Scan
  PROVE  IInv'
<1> USE DEF IInv
<1>1. CASE Launch
  <2>1. ~HasControls(stack)
    BY <1>1 DEF Launch, HasControls
  <2>2. /\ Activity("picker", created') \in Activities /\ created' \in Nat
        /\ Activity("picker", created').screen \notin Controls
    BY <1>1 DEF Launch, Create, Typed, Activity, Activities, Screens, Controls
  <2>3. stack' = Append(stack, Activity("picker", created'))
    BY <1>1 DEF Launch, Create
  <2>4. UNCHANGED <<queue, handshakes, answers, mSender, remoteKeys, kills, failed>>
    BY <1>1 DEF Launch, Unconnected, serverVars, phoneVars
  <2> HIDE DEF IInv
  <2> QED
    BY <2>1, <2>2, <2>3, <2>4, PlainStep
<1>2. ASSUME OpenEntry \/ Scan PROVE ~HasControls(stack)
  <2>1. stack # <<>> /\ Last(stack).screen = "picker"
    BY <1>2 DEF OpenEntry, Scan, Visible
  <2> QED
    BY <2>1, PlainTop DEF Typed, Layered, Controls
<1>3. CASE OpenEntry
  <2>1. /\ Activity("entry", created') \in Activities /\ created' \in Nat
        /\ Activity("entry", created').screen \notin Controls
    BY <1>3 DEF OpenEntry, Create, Typed, Activity, Activities, Screens, Controls
  <2>2. stack' = Append(stack, Activity("entry", created'))
    BY <1>3 DEF OpenEntry, Create
  <2>3. UNCHANGED <<queue, handshakes, answers, mSender, remoteKeys, kills, failed>>
    BY <1>3 DEF OpenEntry, Unconnected, serverVars, phoneVars
  <2> HIDE DEF IInv
  <2> QED
    BY <1>2, <1>3, <2>1, <2>2, <2>3, PlainStep
<1>4. CASE Scan
  <2>1. /\ Activity("scan", 0) \in Activities /\ created' \in Nat
        /\ Activity("scan", 0).screen \notin Controls
    BY <1>4 DEF Scan, Typed, Activity, Activities, Screens, Controls
  <2>2. stack' = Append(stack, Activity("scan", 0))
    BY <1>4 DEF Scan
  <2>3. UNCHANGED <<queue, handshakes, answers, mSender, remoteKeys, kills, failed>>
    BY <1>4 DEF Scan, Unconnected, serverVars, phoneVars
  <2> HIDE DEF IInv
  <2> QED
    BY <1>2, <1>4, <2>1, <2>2, <2>3, PlainStep
<1> QED
  BY <1>1, <1>3, <1>4

LEMMA OpenPadKeepsIInv ==
  ASSUME IInv, OpenPad
  PROVE  IInv'
<1>1. Activity("pad", 0) \in Activities /\ Activity("pad", 0).screen \in Controls
  BY DEF Activity, Activities, Screens, Controls
<1>2. stack' \in Seq(Activities) /\ Layers(stack')
  BY <1>1, AppendControl DEF OpenPad, IInv, Typed, Layered
<1>3. HasControls(stack)
  <2>1. stack # <<>> /\ Last(stack).screen = "menu"
    BY DEF OpenPad, Visible
  <2> QED
    BY <2>1, LastOf DEF HasControls, Controls, IInv, Typed
<1> QED
  BY <1>2, <1>3 DEF OpenPad, IInv, Typed, Layered, QueueKeyed, ControlsKeyed,
     Unasked, Unconnected, serverVars, phoneVars

LEMMA BackKeepsIInv ==
  ASSUME IInv, Back
  PROVE  IInv'
<1>1. /\ stack' \in Seq(Activities) /\ Layers(stack')
      /\ HasControls(stack') => HasControls(stack)
  BY FrontLayers DEF Back, IInv, Typed, Layered
<1> QED
  BY <1>1 DEF Back, IInv, Typed, Layered, QueueKeyed, ControlsKeyed, Unasked,
     Unconnected, serverVars, phoneVars

\* Of a process that has ended nothing is left that could be wrong.
LEMMA EndedKeepsIInv ==
  ASSUME IInv, NEW rest \in Seq(Activities), Layers(rest), Ended(rest)
  PROVE  IInv'
<1>1. /\ stack' = rest /\ queue' = <<>> /\ kills' = kills + 1
      /\ mSender' = None /\ remoteKeys' = None
      /\ UNCHANGED <<created, handshakes, answers, failed>>
  BY DEF Ended, Forget, serverVars
<1>2. kills' \in Nat /\ kills' # 0
  BY <1>1 DEF IInv, Typed
<1> QED
  BY <1>1, <1>2, NoneAssumption
     DEF IInv, Typed, Layered, QueueKeyed, ControlsKeyed, Unasked

LEMMA CrashKeepsIInv ==
  ASSUME IInv, NEW shown \in Seq(Activities), shown # <<>>, Layers(shown), Crash(shown)
  PROVE  IInv'
<1>1. PICK rest \in Seq(Activities) : Beginning(rest, shown) /\ Ended(rest)
  BY CrashOf
<1> QED
  BY <1>1, BeginningLayers, EndedKeepsIInv

LEMMA CreatePadKeepsIInv ==
  ASSUME IInv, CreatePad
  PROVE  IInv'
<1>1. CASE Crash(stack)
  <2>1. stack # <<>>
    BY DEF CreatePad, Visible
  <2> QED
    BY <1>1, <2>1, CrashKeepsIInv DEF IInv, Typed, Layered
<1>2. CASE UNCHANGED <<activityVars, kills, serverVars, handshakes, mSender, remoteKeys,
                       failed>>
  BY <1>2 DEF IInv, Typed, Layered, QueueKeyed, ControlsKeyed, Unasked,
     activityVars, serverVars
<1> QED
  BY <1>1, <1>2 DEF CreatePad

\* A server is asked from an entry or a scan, so there is no menu or pad.
LEMMA ConnectKeepsIInv ==
  ASSUME IInv, NEW s \in Servers, NEW c \in Codes, Connect(s, c)
  PROVE  IInv'
<1>1. PICK shown \in {stack, Front(stack)} :
        /\ Reader(shown)
        /\ \/ /\ stack' = shown /\ ConnectToServer(s, c)
              /\ UNCHANGED <<queue, created, kills, serverVars>>
           \/ Crash(shown)
  BY DEF Connect
<1>2. /\ stack # <<>> /\ Last(stack).screen \in {"entry", "scan"}
      /\ shown \in Seq(Activities) /\ shown # <<>> /\ Beginning(shown, stack)
  BY <1>1, ReaderOf DEF IInv, Typed
<1>3. ~HasControls(stack)
  BY <1>2, PlainTop DEF IInv, Typed, Layered, Controls
<1>4. Layers(shown) /\ ~HasControls(shown)
  BY <1>2, <1>3, BeginningLayers DEF IInv, Layered
<1>5. CASE /\ stack' = shown /\ ConnectToServer(s, c)
           /\ UNCHANGED <<queue, created, kills, serverVars>>
  <2>1. stack' \in Seq(Activities) /\ Layers(stack') /\ ~HasControls(stack')
    BY <1>2, <1>4, <1>5
  <2>2. handshakes' \subseteq [server : Servers, code : Codes]
    BY <1>5 DEF ConnectToServer, IInv, Typed
  <2>3. /\ UNCHANGED <<queue, created, answers, remoteKeys, kills>>
        /\ mSender' \in Servers \/ failed'
    BY <1>5 DEF ConnectToServer, serverVars
  <2> QED
    BY <2>1, <2>2, <2>3 DEF IInv, Typed, Layered, QueueKeyed, ControlsKeyed, Unasked
<1>6. CASE Crash(shown)
  BY <1>2, <1>4, <1>6, CrashKeepsIInv
<1> QED
  BY <1>1, <1>5, <1>6

LEMMA ReceiveKeepsIInv ==
  ASSUME IInv, NEW k \in answers, ReceiveHandshake(k)
  PROVE  IInv'
<1>1. remoteKeys' \in Servers \cup {Rejected} /\ remoteKeys' # None
  BY NoneAssumption DEF ReceiveHandshake, Authenticate, IInv, Typed
<1>2. UNCHANGED <<stack, created, handshakes, answers, mSender, kills, failed>>
  BY DEF ReceiveHandshake, Authenticate, serverVars
<1>3. answers # {}
  OBVIOUS
<1> QED
  BY <1>1, <1>2, <1>3 DEF IInv, Typed, Layered, QueueKeyed, ControlsKeyed, Unasked

\* What is queued was sent after an answer, and nothing undid that since.
LEMMA OnReceiveKeepsIInv ==
  ASSUME IInv, OnReceive
  PROVE  IInv'
<1>1. /\ remoteKeys # None
      /\ UNCHANGED <<created, handshakes, answers, mSender, remoteKeys, kills, failed>>
  BY DEF OnReceive, Unconnected, serverVars, phoneVars, IInv, QueueKeyed
<1>2. stack' \in Seq(Activities) /\ Layers(stack')
  <2>1. Activity("menu", 0) \in Activities /\ Activity("menu", 0).screen \in Controls
    BY DEF Activity, Activities, Screens, Controls
  <2>2. /\ Finish(Head(queue)) \in Seq(Activities)
        /\ Layers(Finish(Head(queue)))
    BY FinishLayers DEF IInv, Typed, Layered
  <2>3. \/ stack' = Append(Finish(Head(queue)), Activity("menu", 0))
        \/ stack' = stack
    BY DEF OnReceive
  <2> QED
    BY <2>1, <2>2, <2>3, AppendControl DEF IInv, Typed, Layered
<1> QED
  BY <1>1, <1>2 DEF IInv, Typed, Layered, QueueKeyed, ControlsKeyed, Unasked

LEMMA EndProcessKeepsIInv ==
  ASSUME IInv, EndProcess
  PROVE  IInv'
BY EndedKeepsIInv DEF EndProcess, IInv, Typed, Layered

LEMMA ServerKeepsIInv ==
  ASSUME IInv, ServerStep
  PROVE  IInv'
<1>1. answers' \subseteq Servers
  BY DEF ServerStep, OpenWindow, ShutWindow, AnswerHandshake, IInv, Typed
<1>2. UNCHANGED <<stack, queue, created, handshakes, mSender, remoteKeys, kills,
                  failed>>
  BY DEF ServerStep, phoneVars, activityVars
<1>3. handshakes = {} => answers' = answers
  BY DEF ServerStep, OpenWindow, ShutWindow
<1> QED
  BY <1>1, <1>2, <1>3 DEF IInv, Typed, Layered, QueueKeyed, ControlsKeyed, Unasked

LEMMA NextKeepsIInv == IInv /\ [Next]_vars => IInv'
<1> SUFFICES ASSUME IInv, [Next]_vars PROVE IInv'
  OBVIOUS
<1>1. CASE Launch \/ OpenEntry \/ Scan
  BY <1>1, CreateKeepsIInv
<1>2. ASSUME NEW id \in registered, Destroy(id) PROVE IInv'
  BY <1>2 DEF Destroy, Unconnected, serverVars, phoneVars, IInv, Typed, Layered,
              QueueKeyed, ControlsKeyed, Unasked
<1>3. CASE UNCHANGED vars
  BY <1>3 DEF vars, activityVars, serverVars, phoneVars, IInv, Typed, Layered,
              QueueKeyed, ControlsKeyed, Unasked
<1> QED
  BY <1>1, <1>2, <1>3, OpenPadKeepsIInv, CreatePadKeepsIInv, BackKeepsIInv, ConnectKeepsIInv,
     ReceiveKeepsIInv, OnReceiveKeepsIInv, EndProcessKeepsIInv, ServerKeepsIInv
     DEF Next

LEMMA IInvHolds == Spec => []IInv
BY InitIInv, NextKeepsIInv, PTL DEF Spec

(* A pad sends a control message without keys only when an answer had keys  *)
(* that could not be used, whatever servers there are, whatever the user    *)
(* presses, and whenever the process ends or a port is taken.               *)
THEOREM PadsHaveCiphers == Spec => []CipherUnlessRejected
<1>1. IInv => CipherUnlessRejected
  <2> SUFFICES ASSUME IInv, Visible = "pad", mSender \in Servers
               PROVE  remoteKeys # None
    BY DEF CipherUnlessRejected, ControlDatagrams
  <2>1. stack # <<>> /\ Last(stack).screen = "pad"
    BY DEF Visible
  <2>2. HasControls(stack)
    BY <2>1, LastOf DEF HasControls, Controls, IInv, Typed
  <2> QED
    BY <2>2 DEF IInv, ControlsKeyed
<1> QED
  BY <1>1, IInvHolds, PTL

(* While no process has ended and every socket could be opened, a menu or a *)
(* pad can send: no order of scans, answers, late broadcasts and keys back  *)
(* shows one to a process without a sender.                                 *)
THEOREM SilenceIsExplained == Spec => []SilentExplained
<1>1. IInv => SilentExplained
  <2> SUFFICES ASSUME IInv, Visible \in {"menu", "pad"}, mSender \notin Servers
               PROVE  kills > 0 \/ failed
    BY DEF SilentExplained
  <2>1. stack # <<>> /\ Last(stack).screen \in Controls
    BY DEF Visible, Controls
  <2>2. HasControls(stack)
    BY <2>1, LastOf DEF HasControls, IInv, Typed
  <2>3. kills # 0 \/ failed
    BY <2>2 DEF IInv, Unasked
  <2> QED
    BY <2>3 DEF IInv, Typed
<1> QED
  BY <1>1, IInvHolds, PTL
-----------------------------------------------------------------------------
(* The refinement: answered is remoteKeys # None, menu is Shows("menu") *)

LEMMA InitSession == Init => Session!Init
BY DEF Init, ConnectorInit, Session!Init, Shows

\* Only OnReceive brings a menu to a stack without one.
LEMMA ShowsShrinks ==
  ASSUME stack \in Seq(Activities), stack # <<>>, stack' = Front(stack)
  PROVE  Shows("menu")' => Shows("menu")
BY FrontOf DEF Shows

LEMMA ShowsBegins ==
  ASSUME NEW rest, Beginning(rest, stack), stack' = rest
  PROVE  Shows("menu")' => Shows("menu")
BY DEF Shows, Beginning

LEMMA ShowsKept ==
  ASSUME stack \in Seq(Activities), NEW a \in Activities, a.screen # "menu",
         stack' = Append(stack, a)
  PROVE  Shows("menu")' = Shows("menu")
<1>1. Shows("menu")' <=> Shows("menu")
  BY AppendOf DEF Shows
<1> QED
  BY <1>1 DEF Shows

LEMMA NextSession ==
  IInv /\ [Next]_vars => [Session!Next]_(Session!vars)
<1> SUFFICES ASSUME IInv, [Next]_vars PROVE [Session!Next]_(Session!vars)
  OBVIOUS
<1> USE DEF Session!Next, Session!vars, Session!Answer, Session!OpenMenu,
            Session!Leave, Session!EndProcess
<1>0. stack \in Seq(Activities)
  BY DEF IInv, Typed
<1>1. CASE Launch \/ OpenEntry \/ Scan \/ OpenPad
  <2>1. PICK a \in Activities : a.screen # "menu" /\ stack' = Append(stack, a)
    <3>1. /\ Activity("picker", created + 1) \in Activities
          /\ Activity("entry", created + 1) \in Activities
          /\ Activity("scan", 0) \in Activities /\ Activity("pad", 0) \in Activities
          /\ Activity("picker", created + 1).screen # "menu"
          /\ Activity("entry", created + 1).screen # "menu"
          /\ Activity("scan", 0).screen # "menu" /\ Activity("pad", 0).screen # "menu"
      BY DEF Activity, Activities, Screens, IInv, Typed
    <3>2. \/ stack' = Append(stack, Activity("picker", created + 1))
          \/ stack' = Append(stack, Activity("entry", created + 1))
          \/ stack' = Append(stack, Activity("scan", 0))
          \/ stack' = Append(stack, Activity("pad", 0))
      BY <1>1 DEF Launch, OpenEntry, Scan, OpenPad, Create
    <3> QED
      BY <3>1, <3>2
  <2>2. Shows("menu")' = Shows("menu")
    BY <1>0, <2>1, ShowsKept
  <2>3. remoteKeys' = remoteKeys
    BY <1>1 DEF Launch, OpenEntry, Scan, OpenPad, Unconnected, phoneVars
  <2> QED
    BY <2>2, <2>3
<1>2. ASSUME stack' = Front(stack), stack # <<>>, remoteKeys' = remoteKeys
      PROVE  [Session!Next]_(Session!vars)
  <2>1. Shows("menu")' => Shows("menu")
    BY <1>0, <1>2, ShowsShrinks
  <2>2. CASE Shows("menu")'
    BY <1>2, <2>1, <2>2 DEF Shows
  <2>3. CASE ~Shows("menu")'
    BY <1>2, <2>3 DEF Shows
  <2> QED
    BY <2>2, <2>3
<1>3. CASE Back
  BY <1>2, <1>3 DEF Back, Unconnected, phoneVars
<1>4. ASSUME NEW rest, Beginning(rest, stack), Ended(rest)
      PROVE  [Session!Next]_(Session!vars)
  <2>1. stack' = rest /\ remoteKeys' = None
    BY <1>4 DEF Ended, Forget
  <2>2. Shows("menu")' => Shows("menu")
    BY <1>4, <2>1, ShowsBegins
  <2>3. Shows("menu")' \in BOOLEAN
    BY DEF Shows
  <2> QED
    BY <2>1, <2>2, <2>3
<1>5. ASSUME NEW k \in answers, ReceiveHandshake(k)
      PROVE  [Session!Next]_(Session!vars)
  <2>1. remoteKeys' # None /\ stack' = stack
    BY <1>5, NoneAssumption DEF ReceiveHandshake, Authenticate, IInv, Typed
  <2> QED
    BY <2>1 DEF Shows
<1>6. CASE OnReceive
  <2>1. remoteKeys' = remoteKeys /\ remoteKeys # None
    BY <1>6 DEF OnReceive, Unconnected, phoneVars, IInv, QueueKeyed
  <2>2. CASE stack' = stack
    BY <2>1, <2>2 DEF Shows
  <2>3. CASE stack' = Append(Finish(Head(queue)), Activity("menu", 0))
    <3>1. /\ Finish(Head(queue)) \in Seq(Activities)
          /\ Activity("menu", 0) \in Activities /\ Activity("menu", 0).screen = "menu"
      BY FinishLayers DEF IInv, Typed, Layered, Activity, Activities, Screens
    <3>2. Shows("menu")'
      BY <2>3, <3>1, AppendOf DEF Shows
    <3> QED
      BY <2>1, <3>2 DEF Shows
  <2> QED
    BY <1>6, <2>2, <2>3 DEF OnReceive
<1>7. CASE EndProcess
  <2>1. Beginning(stack, stack)
    BY <1>0, LenProperties DEF Beginning
  <2> QED
    BY <1>4, <1>7, <2>1 DEF EndProcess
<1>8. ASSUME NEW id \in registered, Destroy(id)
      PROVE  [Session!Next]_(Session!vars)
  BY <1>8 DEF Destroy, Unconnected, phoneVars, Shows
<1>9. CASE ServerStep
  BY <1>9 DEF ServerStep, phoneVars, activityVars, Shows
<1>10. CASE UNCHANGED vars
  BY <1>10 DEF vars, phoneVars, activityVars, Shows
<1>11. CASE CreatePad
  <2>1. CASE Crash(stack)
    <3>1. stack # <<>>
      BY <1>11 DEF CreatePad, Visible
    <3>2. PICK rest \in Seq(Activities) : Beginning(rest, stack) /\ Ended(rest)
      BY <1>0, <2>1, <3>1, CrashOf
    <3> QED
      BY <1>4, <3>2
  <2>2. CASE UNCHANGED <<activityVars, remoteKeys>>
    BY <2>2 DEF activityVars, Shows
  <2> QED
    BY <1>11, <2>1, <2>2 DEF CreatePad
<1>12. ASSUME NEW s \in Servers, NEW c \in Codes, Connect(s, c)
       PROVE  [Session!Next]_(Session!vars)
  <2>1. PICK shown \in {stack, Front(stack)} :
          /\ Reader(shown)
          /\ \/ stack' = shown /\ remoteKeys' = remoteKeys
             \/ Crash(shown)
    BY <1>12 DEF Connect, ConnectToServer
  <2>2. /\ shown \in Seq(Activities) /\ shown # <<>> /\ Beginning(shown, stack)
        /\ stack # <<>>
    BY <1>0, <2>1, ReaderOf
  <2>3. CASE stack' = shown /\ remoteKeys' = remoteKeys
    <3>1. CASE stack' = stack
      BY <2>3, <3>1 DEF Shows
    <3> QED
      BY <1>2, <2>1, <2>2, <2>3, <3>1
  <2>4. CASE Crash(shown)
    <3>1. PICK rest \in Seq(Activities) : Beginning(rest, shown) /\ Ended(rest)
      BY <2>2, <2>4, CrashOf
    <3>2. Len(rest) \in Nat /\ Len(shown) \in Nat /\ Len(stack) \in Nat
      BY <1>0, <2>2, LenProperties
    <3>3. Beginning(rest, stack)
      BY <2>2, <3>1, <3>2 DEF Beginning
    <3> QED
      BY <1>4, <3>1, <3>3
  <2> QED
    BY <2>1, <2>3, <2>4
<1> QED
  BY <1>1, <1>3, <1>5, <1>6, <1>7, <1>8, <1>9, <1>10, <1>11, <1>12 DEF Next

(* The activities and the Connector implement ClientSession: a menu is      *)
(* opened only by a process that a server has answered.                     *)
THEOREM ImplementsSession == Spec => SessionSpec
BY InitSession, NextSession, IInvHolds, PTL DEF Spec, SessionSpec, Session!Spec
-----------------------------------------------------------------------------
(* Types and bounds *)

\* An activity of the first n, the ones with a receiver numbered from 1.
Known(n) == {a \in [screen : Screens, id : 0..n] : a.screen \in Connecting => a.id # 0}

SessionTyped ==
  /\ window \in [Servers -> Codes \cup {0}]
  /\ handshakes \subseteq [server : Servers, code : Codes] /\ answers \subseteq Servers
  /\ instance \in BOOLEAN /\ mSender \in Servers \cup {None, Closed}
  /\ remoteKeys \in Servers \cup {None, Rejected}
  /\ kills \in 0..MaxKills /\ failed \in BOOLEAN

\* The stack and what is queued for it fit the bound together, for what is
\* queued may grow the stack.
StackTyped ==
  /\ created \in 0..MaxActivities
  /\ stack \in Seq(Known(created))
  /\ registered \subseteq 1..created /\ queue \in Seq(1..created)
  /\ Len(stack) + Len(queue) <= MaxStack

LEMMA InitTypes == Init => SessionTyped /\ StackTyped
<1> SUFFICES ASSUME Init PROVE SessionTyped /\ StackTyped
  OBVIOUS
<1>1. SessionTyped
  <2>1. /\ window = [s \in Servers |-> 0] /\ handshakes = {} /\ answers = {}
        /\ instance = FALSE /\ mSender = None /\ remoteKeys = None
        /\ failed = FALSE /\ kills = 0
    BY DEF Init, ConnectorInit
  <2>2. window \in [Servers -> Codes \cup {0}]
    BY <2>1
  <2>3. kills \in 0..MaxKills
    BY <2>1, BoundsAssumption
  <2> QED
    BY <2>1, <2>2, <2>3 DEF SessionTyped
<1>2. /\ stack = <<>> /\ queue = <<>> /\ created = 0 /\ registered = {}
  BY DEF Init
<1>3. stack \in Seq(Known(created)) /\ queue \in Seq(1..created)
  BY <1>2
<1>4. Len(stack) + Len(queue) <= MaxStack
  BY <1>2, BoundsAssumption
<1>5. created \in 0..MaxActivities
  BY <1>2, BoundsAssumption
<1> QED
  BY <1>1, <1>2, <1>3, <1>4, <1>5 DEF StackTyped

LEMMA NextKeepsSessionTyped ==
  ASSUME SessionTyped, [Next]_vars
  PROVE  SessionTyped'
<1> USE DEF SessionTyped
<1>1. CASE ServerStep
  <2>1. UNCHANGED <<phoneVars, kills>>
    BY <1>1 DEF ServerStep
  <2>2. ASSUME NEW s \in Servers, NEW c \in Codes, OpenWindow(s, c)
        PROVE  window' \in [Servers -> Codes \cup {0}] /\ answers' \subseteq Servers
    BY <2>2 DEF OpenWindow
  <2>3. ASSUME NEW s \in Servers, ShutWindow(s)
        PROVE  window' \in [Servers -> Codes \cup {0}] /\ answers' \subseteq Servers
    BY <2>3 DEF ShutWindow
  <2>4. ASSUME NEW h \in handshakes, AnswerHandshake(h)
        PROVE  window' \in [Servers -> Codes \cup {0}] /\ answers' \subseteq Servers
    BY <2>4 DEF AnswerHandshake
  <2>5. window' \in [Servers -> Codes \cup {0}] /\ answers' \subseteq Servers
    BY <1>1, <2>2, <2>3, <2>4 DEF ServerStep
  <2> QED
    BY <2>1, <2>5 DEF phoneVars
<1>2. CASE \/ Launch \/ OpenEntry \/ Scan \/ OpenPad \/ Back \/ OnReceive
           \/ \E id \in registered : Destroy(id)
  BY <1>2 DEF Launch, OpenEntry, Scan, OpenPad, Back, OnReceive, Destroy, Unconnected,
     serverVars, phoneVars
<1>3. ASSUME NEW rest, Ended(rest) PROVE SessionTyped'
  <2>1. kills' = kills + 1 /\ kills < MaxKills
    BY <1>3 DEF Ended
  <2>2. kills' \in 0..MaxKills
    BY <2>1, BoundsAssumption
  <2>3. /\ mSender' = None /\ remoteKeys' = None /\ instance' = FALSE
        /\ UNCHANGED <<window, answers, handshakes, failed>>
    BY <1>3 DEF Ended, Forget, serverVars
  <2> QED
    BY <2>2, <2>3
<1>4. CASE EndProcess \/ CreatePad
  <2>1. CASE UNCHANGED <<kills, serverVars, handshakes, mSender, remoteKeys, failed>>
             /\ GetInstance
    BY <2>1 DEF GetInstance, serverVars
  <2> QED
    BY <1>3, <1>4, <2>1 DEF EndProcess, CreatePad, Crash
<1>5. ASSUME NEW s \in Servers, NEW c \in Codes, ConnectToServer(s, c),
             UNCHANGED <<kills, serverVars>>
      PROVE  SessionTyped'
  <2>1. ConnectToServer(s, c) /\ UNCHANGED <<window, answers, kills>>
    BY <1>5 DEF serverVars
  <2>2. handshakes' \subseteq [server : Servers, code : Codes]
    BY <2>1 DEF ConnectToServer
  <2>3. /\ mSender' \in Servers \cup {None, Closed}
        /\ failed' \in BOOLEAN /\ instance' = TRUE /\ remoteKeys' = remoteKeys
    BY <2>1 DEF ConnectToServer, GetInstance
  <2> QED
    BY <2>1, <2>2, <2>3
<1>6. ASSUME NEW k \in answers, ReceiveHandshake(k)
      PROVE  SessionTyped'
  BY <1>6 DEF ReceiveHandshake, Authenticate, serverVars
<1>7. CASE UNCHANGED vars
  BY <1>7 DEF vars, serverVars, phoneVars
<1>8. ASSUME NEW s \in Servers, NEW c \in Codes, Connect(s, c)
      PROVE  SessionTyped'
  BY <1>3, <1>5, <1>8 DEF Connect, Crash
<1> QED
  BY <1>1, <1>2, <1>4, <1>6, <1>7, <1>8 DEF Next

\* An activity with a receiver on top of a stack is one of those created.
LEMMA TopOf ==
  ASSUME NEW n \in Nat, NEW rest \in Seq(Known(n))
  PROVE  {a.id : a \in {b \in Top(rest) : b.screen \in Connecting}} \subseteq 1..n
<1> SUFFICES ASSUME NEW a \in Top(rest), a.screen \in Connecting
             PROVE  a.id \in 1..n
  OBVIOUS
<1>1. a \in Known(n)
  BY LastOf DEF Top
<1> QED
  BY <1>1 DEF Known

LEMMA KnownMore ==
  ASSUME NEW m \in Nat, NEW n \in Nat, m <= n
  PROVE  Known(m) \subseteq Known(n)
BY DEF Known

LEMMA CreateKeepsStackTyped ==
  ASSUME StackTyped, NEW screen \in Connecting, Create(screen, stack),
         UNCHANGED queue
  PROVE  StackTyped'
<1> DEFINE a == Activity(screen, created + 1)
<1>1. /\ created' = created + 1 /\ created' \in 0..MaxActivities
      /\ created \in Nat /\ created' \in Nat
      /\ registered' = registered \cup {created'} /\ stack' = Append(stack, a)
      /\ Len(stack) + Len(queue) + 1 <= MaxStack
  BY BoundsAssumption DEF Create, HasRoom, StackTyped
<1>2. a \in Known(created')
  BY <1>1 DEF Known, Activity, Screens, Connecting
<1>3. stack \in Seq(Known(created')) /\ queue \in Seq(1..created')
  <2>1. Known(created) \subseteq Known(created') /\ 1..created \subseteq 1..created'
    BY <1>1, KnownMore
  <2> QED
    BY <2>1, SeqMonotonic DEF StackTyped
<1> HIDE DEF a
<1>4. stack' \in Seq(Known(created')) /\ Len(stack') = Len(stack) + 1
  BY <1>1, <1>2, <1>3, AppendProperties
<1>5. registered' \subseteq 1..created'
  BY <1>1 DEF StackTyped
<1>6. Len(stack') + Len(queue') <= MaxStack
  BY <1>1, <1>3, <1>4, LenProperties, BoundsAssumption
<1> QED
  BY <1>1, <1>3, <1>4, <1>5, <1>6 DEF StackTyped

\* Whatever leaves the stack or joins it without a receiver.
LEMMA StackStep ==
  ASSUME StackTyped, stack' \in Seq(Known(created)), queue' \in Seq(1..created),
         registered' \subseteq 1..created, created' = created,
         Len(stack') + Len(queue') <= MaxStack
  PROVE  StackTyped'
BY DEF StackTyped

LEMMA OpenKeepsStackTyped ==
  ASSUME StackTyped, Scan \/ OpenPad
  PROVE  StackTyped'
<1>1. /\ created \in Nat /\ stack \in Seq(Known(created)) /\ queue \in Seq(1..created)
      /\ Len(stack) \in Nat /\ Len(queue) \in Nat
  BY BoundsAssumption, LenProperties DEF StackTyped
<1>2. PICK a \in Known(created) :
        stack' = Append(stack, a) /\ Len(stack) + Len(queue) + 1 <= MaxStack
  <2>1. Activity("scan", 0) \in Known(created) /\ Activity("pad", 0) \in Known(created)
    BY <1>1 DEF Known, Activity, Screens, Connecting
  <2> QED
    BY <2>1 DEF Scan, OpenPad, HasRoom
<1>3. stack' \in Seq(Known(created)) /\ Len(stack') = Len(stack) + 1
  BY <1>1, <1>2, AppendProperties
<1>4. UNCHANGED <<queue, registered, created>>
  BY DEF Scan, OpenPad
<1>5. Len(stack') + Len(queue') <= MaxStack
  BY <1>1, <1>2, <1>3, <1>4, BoundsAssumption
<1> QED
  BY <1>1, <1>3, <1>4, <1>5, StackStep DEF StackTyped

LEMMA LeaveKeepsStackTyped ==
  ASSUME StackTyped, NEW rest \in Seq(Known(created)), Beginning(rest, stack),
         stack' = rest, Resume(rest), UNCHANGED <<queue, created>>
  PROVE  StackTyped'
<1>1. /\ created \in Nat /\ stack \in Seq(Known(created)) /\ queue \in Seq(1..created)
      /\ Len(stack) \in Nat /\ Len(queue) \in Nat /\ registered \subseteq 1..created
      /\ Len(stack) + Len(queue) <= MaxStack
  BY BoundsAssumption, LenProperties DEF StackTyped
<1>2. Len(rest) \in Nat /\ Len(rest) <= Len(stack)
  BY LenProperties DEF Beginning
<1>3. registered' \subseteq 1..created
  BY <1>1, TopOf DEF Resume
<1>4. Len(stack') + Len(queue') <= MaxStack
  BY <1>1, <1>2, BoundsAssumption
<1> QED
  BY <1>1, <1>3, <1>4, StackStep

LEMMA ReceiveKeepsStackTyped ==
  ASSUME StackTyped, NEW k \in answers, ReceiveHandshake(k)
  PROVE  StackTyped'
<1>1. /\ created \in Nat /\ stack \in Seq(Known(created)) /\ queue \in Seq(1..created)
      /\ Len(stack) \in Nat /\ Len(queue) \in Nat /\ registered \in SUBSET (1..created)
  BY BoundsAssumption, LenProperties DEF StackTyped
<1>2. PICK receivers \in SetToSeqs(registered) : queue' = queue \o receivers
  BY DEF ReceiveHandshake
<1>3. receivers \in Seq(1..created) /\ Len(receivers) = Cardinality(registered)
  <2>1. IsFiniteSet(registered)
    <3>1. IsFiniteSet(1..created)
      <4>1. 1 \in Int /\ created \in Int
        BY <1>1
      <4> QED
        BY <4>1, FS_Interval
    <3> QED
      BY <1>1, <3>1, FS_Subset
  <2>2. receivers \in Seq(registered) /\ Len(receivers) = Cardinality(registered)
    BY <2>1, OrdersOf
  <2> QED
    BY <1>1, <2>2, SeqMonotonic
<1>4. /\ queue' \in Seq(1..created)
      /\ Len(queue') = Len(queue) + Cardinality(registered)
  BY <1>1, <1>2, <1>3, ConcatProperties
<1>5. /\ UNCHANGED <<stack, registered, created>>
      /\ Len(stack) + Len(queue) + Cardinality(registered) <= MaxStack
  BY DEF ReceiveHandshake, HasRoom
<1>6. Cardinality(registered) \in Nat
  BY <1>3, LenProperties
<1>7. Len(stack') + Len(queue') <= MaxStack
  BY <1>1, <1>4, <1>5, <1>6
<1> QED
  BY <1>1, <1>4, <1>5, <1>7, StackStep

\* A menu takes the place of what is queued for it.
LEMMA OnReceiveKeepsStackTyped ==
  ASSUME StackTyped, OnReceive
  PROVE  StackTyped'
<1>1. /\ created \in Nat /\ stack \in Seq(Known(created)) /\ queue \in Seq(1..created)
      /\ Len(stack) \in Nat /\ Len(queue) \in Nat /\ registered \subseteq 1..created
      /\ Len(stack) + Len(queue) <= MaxStack
  BY BoundsAssumption, LenProperties DEF StackTyped
<1>2. /\ queue # <<>> /\ queue' = Tail(queue) /\ UNCHANGED <<registered, created>>
      /\ \/ stack' = Append(Finish(Head(queue)), Activity("menu", 0))
         \/ stack' = stack
  BY DEF OnReceive
<1>3. queue' \in Seq(1..created) /\ Len(queue') = Len(queue) - 1
  BY <1>1, <1>2, HeadTailProperties
<1>4. ASSUME NEW id
      PROVE  Finish(id) \in Seq(Known(created)) /\ Len(Finish(id)) <= Len(stack)
  <2>1. CASE id \notin Numbers
    BY <1>1, <2>1 DEF Finish
  <2>2. CASE id \in Numbers
    <3> DEFINE k == CHOOSE i \in DOMAIN stack : stack[i].id = id
    <3>1. k \in DOMAIN stack
      BY <2>2 DEF Numbers
    <3>2. Finish(id) = RemoveAt(stack, k)
      BY <2>2 DEF Finish
    <3> HIDE DEF k
    <3>3. /\ RemoveAt(stack, k) \in Seq(Known(created))
          /\ Len(RemoveAt(stack, k)) = Len(stack) - 1
      BY <1>1, <3>1, RemoveAtOf
    <3> QED
      BY <1>1, <3>2, <3>3
  <2> QED
    BY <2>1, <2>2
<1>5. Activity("menu", 0) \in Known(created)
  BY <1>1 DEF Known, Activity, Screens, Connecting
<1>6. /\ stack' \in Seq(Known(created)) /\ Len(stack') \in Nat
      /\ Len(stack') <= Len(stack) + 1
  <2>1. CASE stack' = stack
    BY <1>1, <2>1
  <2>2. CASE stack' = Append(Finish(Head(queue)), Activity("menu", 0))
    <3> DEFINE rest == Finish(Head(queue))
               menu == Activity("menu", 0)
    <3>1. rest \in Seq(Known(created)) /\ Len(rest) <= Len(stack) /\ Len(rest) \in Nat
      BY <1>4, LenProperties
    <3>2. menu \in Known(created) /\ stack' = Append(rest, menu)
      BY <1>5, <2>2
    <3> HIDE DEF rest, menu
    <3>3. stack' \in Seq(Known(created)) /\ Len(stack') = Len(rest) + 1
      BY <3>1, <3>2, AppendProperties
    <3> QED
      BY <1>1, <3>1, <3>3
  <2> QED
    BY <1>2, <2>1, <2>2
<1>7. Len(stack') + Len(queue') <= MaxStack
  BY <1>1, <1>3, <1>6, BoundsAssumption
<1> QED
  BY <1>1, <1>2, <1>3, <1>6, <1>7, StackStep

LEMMA EndedKeepsStackTyped ==
  ASSUME StackTyped, NEW rest \in Seq(Known(created)), Beginning(rest, stack),
         Ended(rest)
  PROVE  StackTyped'
<1>1. /\ created \in Nat /\ stack \in Seq(Known(created)) /\ Len(stack) \in Nat
      /\ Len(queue) \in Nat /\ Len(stack) + Len(queue) <= MaxStack
  BY BoundsAssumption, LenProperties DEF StackTyped
<1>2. Len(rest) \in Nat /\ Len(rest) <= Len(stack)
  BY LenProperties DEF Beginning
<1>3. /\ stack' = rest /\ UNCHANGED created /\ queue' = <<>> /\ queue' \in Seq(1..created)
      /\ registered' = {a.id : a \in {b \in Top(rest) : b.screen \in Connecting}}
  BY DEF Ended
<1>4. registered' \subseteq 1..created
  BY <1>1, <1>3, TopOf
<1>5. Len(stack') + Len(queue') <= MaxStack
  BY <1>1, <1>2, <1>3, BoundsAssumption
<1> QED
  BY <1>3, <1>4, <1>5, StackStep

LEMMA CrashKeepsStackTyped ==
  ASSUME StackTyped, NEW shown \in Seq(Known(created)), shown # <<>>,
         Beginning(shown, stack), Crash(shown)
  PROVE  StackTyped'
<1>1. PICK rest \in Seq(Known(created)) : Beginning(rest, shown) /\ Ended(rest)
  BY CrashOf
<1>2. Len(rest) \in Nat /\ Len(shown) \in Nat /\ Len(stack) \in Nat
  BY LenProperties DEF StackTyped
<1>3. Beginning(rest, stack)
  BY <1>1, <1>2 DEF Beginning
<1> QED
  BY <1>1, <1>3, EndedKeepsStackTyped

LEMMA NextKeepsStackTyped ==
  ASSUME StackTyped, [Next]_vars
  PROVE  StackTyped'
<1>0. stack \in Seq(Known(created)) /\ Beginning(stack, stack)
  BY LenProperties DEF StackTyped, Beginning
<1>1. CASE Launch
  <2>1. Create("picker", stack) /\ UNCHANGED queue
    BY <1>1 DEF Launch
  <2> QED
    BY <2>1, CreateKeepsStackTyped DEF Connecting
<1>2. CASE OpenEntry
  <2>1. Create("entry", stack) /\ UNCHANGED queue
    BY <1>2 DEF OpenEntry
  <2> QED
    BY <2>1, CreateKeepsStackTyped DEF Connecting
<1>3. CASE Back
  <2>1. PICK rest \in Seq(Known(created)) : rest = Front(stack) /\ Beginning(rest, stack)
    BY <1>0, <1>3, FrontBegins DEF Back
  <2>2. stack' = rest /\ Resume(rest) /\ UNCHANGED <<queue, created>>
    BY <1>3, <2>1 DEF Back, Resume
  <2> QED
    BY <2>1, <2>2, LeaveKeepsStackTyped
<1>4. ASSUME NEW s \in Servers, NEW c \in Codes, Connect(s, c) PROVE StackTyped'
  <2>1. PICK shown \in {stack, Front(stack)} :
          /\ Reader(shown)
          /\ \/ stack' = shown /\ Resume(shown) /\ UNCHANGED <<queue, created>>
             \/ Crash(shown)
    BY <1>4 DEF Connect
  <2>2. shown \in Seq(Known(created)) /\ shown # <<>> /\ Beginning(shown, stack)
    BY <1>0, <2>1, ReaderOf
  <2> QED
    BY <2>1, <2>2, LeaveKeepsStackTyped, CrashKeepsStackTyped
<1>7. CASE EndProcess
  BY <1>0, <1>7, EndedKeepsStackTyped DEF EndProcess
<1>8. CASE CreatePad
  <2>1. stack # <<>>
    BY <1>8 DEF CreatePad, Visible
  <2>2. CASE UNCHANGED activityVars
    BY <2>2 DEF activityVars, StackTyped
  <2>3. CASE Crash(stack)
    BY <1>0, <2>1, <2>3, CrashKeepsStackTyped
  <2> QED
    BY <1>8, <2>2, <2>3 DEF CreatePad
<1>5. ASSUME NEW id \in registered, Destroy(id) PROVE StackTyped'
  BY <1>5 DEF Destroy, StackTyped
<1>6. CASE ServerStep \/ UNCHANGED vars
  BY <1>6 DEF ServerStep, vars, activityVars, StackTyped
<1> QED
  BY <1>1, <1>2, <1>3, <1>4, <1>5, <1>6, <1>7, <1>8, OpenKeepsStackTyped,
     ReceiveKeepsStackTyped, OnReceiveKeepsStackTyped DEF Next

(* The variables keep their types, and the stack its bound: with each menu  *)
(* still to be started a place on it is kept.                               *)
THEOREM TypeCorrect == Spec => []TypeOK
<1>1. SessionTyped /\ StackTyped => TypeOK
  <2> SUFFICES ASSUME SessionTyped, StackTyped PROVE TypeOK
    OBVIOUS
  <2>1. /\ created \in Nat /\ created <= MaxActivities
        /\ Len(stack) \in Nat /\ Len(queue) \in Nat
    BY BoundsAssumption, LenProperties DEF StackTyped
  <2>2. Known(created) \subseteq [screen : Screens, id : 0..MaxActivities]
    BY <2>1, BoundsAssumption DEF Known
  <2>3. stack \in Seq([screen : Screens, id : 0..MaxActivities])
    BY <2>2, SeqMonotonic DEF StackTyped
  <2>4. Len(stack) <= MaxStack
    BY <2>1, BoundsAssumption DEF StackTyped
  <2>5. kills <= MaxKills
    BY BoundsAssumption DEF SessionTyped
  <2> QED
    BY <2>1, <2>3, <2>4, <2>5 DEF SessionTyped, StackTyped, TypeOK
<1>2. SessionTyped /\ StackTyped /\ [Next]_vars => (SessionTyped /\ StackTyped)'
  BY NextKeepsSessionTyped, NextKeepsStackTyped
<1> QED
  BY <1>1, <1>2, InitTypes, PTL DEF Spec
=============================================================================
