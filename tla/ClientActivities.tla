-------------------------- MODULE ClientActivities --------------------------
(***************************************************************************)
(* The phone's activities: the picker, the entry of a code, the menu and   *)
(* the pads, on Android's back stack, over the Connector.  An activity is  *)
(* its screen and a number; the picker and the entry of a code register a  *)
(* receiver for AUTHENTICATED from onCreate to onDestroy, which Android    *)
(* calls some time after finish().  A broadcast is put on the main         *)
(* thread's queue once for each receiver.  A pad is PadActivity or         *)
(* dualstickActivity, and "scan" the barcode scanner's own activity.       *)
(***************************************************************************)
EXTENDS ClientConnector, Sequences, SequencesExt, FiniteSets

CONSTANTS MaxActivities,  \* bound: receivers registered in a run
          MaxStack,       \* bound: activities on the stack or about to be started
          MaxKills        \* bound: ends of the process

ASSUME BoundsAssumption ==
  MaxActivities \in Nat /\ MaxStack \in Nat /\ MaxKills \in Nat

VARIABLES
  stack,       \* the activities of the task, the visible one last
  registered,  \* numbers of the activities whose receiver is registered
  queue,       \* onReceive calls waiting for the main thread
  created,     \* how many activities with a receiver were created
  kills        \* history: how often the process ended

activityVars == <<stack, registered, queue, created>>
vars == <<serverVars, phoneVars, activityVars, kills>>

Screens == {"picker", "entry", "scan", "menu", "pad"}
Connecting == {"picker", "entry"}
Activity(screen, id) == [screen |-> screen, id |-> id]

Visible == IF stack = <<>> THEN "home" ELSE Last(stack).screen
Top(rest) == IF rest = <<>> THEN {} ELSE {Last(rest)}
Numbers == {stack[i].id : i \in DOMAIN stack}
Shows(screen) == \E i \in DOMAIN stack : stack[i].screen = screen

Init == /\ ConnectorInit
        /\ stack = <<>> /\ registered = {} /\ queue = <<>>
        /\ created = 0 /\ kills = 0
-----------------------------------------------------------------------------
(* The end of the process *)

\* Mutant of Ended: a broadcast outlives the process it was meant for.
EndedKeepingQueue(rest) ==
  /\ kills < MaxKills
  /\ kills' = kills + 1
  /\ Forget
  /\ stack' = rest
  /\ registered' = {a.id : a \in {b \in Top(rest) : b.screen \in Connecting}}
  /\ UNCHANGED <<queue, created, serverVars>>

\* Mutant of Ended: every activity made again registers a receiver.
EndedRegisteringAll(rest) ==
  /\ kills < MaxKills
  /\ kills' = kills + 1
  /\ Forget
  /\ stack' = rest
  /\ registered' = {a.id : a \in Top(rest)}
  /\ queue' = <<>>
  /\ UNCHANGED <<created, serverVars>>

\* The process has ended and Android restores rest of its stack: only what is
\* on top is created again.
Ended(rest) ==
  /\ kills < MaxKills
  /\ kills' = kills + 1
  /\ Forget
  /\ stack' = rest
  /\ registered' = {a.id : a \in {b \in Top(rest) : b.screen \in Connecting}}
  /\ queue' = <<>>
  /\ UNCHANGED <<created, serverVars>>

\* An exception nothing catches, under the activity on top of shown: Android
\* ends that activity, and the one below as well when it was not yet stopped.
Crash(shown) ==
  LET rest == Front(shown)
  IN  \/ Ended(rest)
      \/ rest # <<>> /\ Ended(Front(rest))
-----------------------------------------------------------------------------
Unconnected == UNCHANGED <<serverVars, phoneVars, kills>>

\* Within the bound on the stack, the menus still to be started included.
HasRoom(n) == Len(stack) + Len(queue) + n <= MaxStack

\* A new activity with a receiver is on top of rest.
Create(screen, rest) ==
  /\ HasRoom(1)
  /\ created < MaxActivities
  /\ created' = created + 1
  /\ stack' = Append(rest, Activity(screen, created'))
  /\ registered' = registered \cup {created'}

Launch ==
  /\ stack = <<>>
  /\ Create("picker", <<>>)
  /\ UNCHANGED queue /\ Unconnected

\* The button for the entry of a code.
OpenEntry ==
  /\ Visible = "picker"
  /\ Create("entry", stack)
  /\ UNCHANGED queue /\ Unconnected

Scan ==
  /\ Visible = "picker"
  /\ HasRoom(1)
  /\ stack' = Append(stack, Activity("scan", 0))
  /\ UNCHANGED <<registered, queue, created>> /\ Unconnected

\* The menu's buttons.
OpenPad ==
  /\ Visible = "menu"
  /\ HasRoom(1)
  /\ stack' = Append(stack, Activity("pad", 0))
  /\ UNCHANGED <<registered, queue, created>> /\ Unconnected

\* onCreate of a pad gets the Connector.  (In a process that has one already
\* this changes nothing.)
CreatePad ==
  /\ Visible = "pad" /\ ~instance
  /\ \/ /\ GetInstance
        /\ UNCHANGED <<activityVars, kills>>
        /\ UNCHANGED <<serverVars, handshakes, mSender, remoteKeys, failed>>
     \/ GetInstanceThrows /\ Crash(stack)

\* What comes to light when the process was new: an activity that is not alive
\* is created, and a picker or an entry registers again.
Resume(rest) ==
  registered' = registered \cup {a.id : a \in {b \in Top(rest) : b.screen \in Connecting}}

\* The back key, the entry's own back button, or a scan without a result.  A pad
\* is there for the user only once it is created.
Back ==
  /\ stack # <<>>
  /\ Visible = "pad" => instance
  /\ stack' = Front(stack)
  /\ Resume(stack')
  /\ UNCHANGED <<queue, created>> /\ Unconnected

\* onDestroy of an activity that has finished.
Destroy(id) ==
  /\ id \in registered \ Numbers
  /\ registered' = registered \ {id}
  /\ UNCHANGED <<stack, queue, created>> /\ Unconnected

\* Where a code has been read: the entry, or the picker a scan returns to.
Reader(shown) == \/ Visible = "entry" /\ shown = stack
                 \/ /\ Visible = "scan" /\ shown = Front(stack)
                    /\ \E a \in Top(shown) : a.screen = "picker"

\* The entry's connect button, or the scanner's result in the picker.
Connect(s, c) ==
  \E shown \in {stack, Front(stack)} :
    /\ Reader(shown)
    /\ \/ /\ stack' = shown /\ Resume(shown)
          /\ ConnectToServer(s, c)
          /\ UNCHANGED <<queue, created, kills, serverVars>>
       \/ GetInstanceThrows /\ Crash(shown)

\* A handshake from a server: the keys, then the broadcast, which reaches the
\* receivers in an order that Android leaves undefined.
ReceiveHandshake(k) ==
  /\ Authenticate(k)
  /\ HasRoom(Cardinality(registered))
  /\ \E receivers \in SetToSeqs(registered) : queue' = queue \o receivers
  /\ UNCHANGED <<stack, registered, created, kills, serverVars>>

\* finish(), of an activity that may have finished already.
Finish(id) ==
  IF id \notin Numbers THEN stack
  ELSE RemoveAt(stack, CHOOSE i \in DOMAIN stack : stack[i].id = id)

\* Mutant of OnReceive: finish() is forgotten.
OnReceiveStaying ==
  /\ queue # <<>>
  /\ queue' = Tail(queue)
  /\ \/ Head(queue) \in registered /\ stack' = Append(stack, Activity("menu", 0))
     \/ Head(queue) \notin registered /\ UNCHANGED stack
  /\ UNCHANGED <<registered, created>> /\ Unconnected

\* onReceive of a picker or an entry: the menu is started, and it finishes.  It
\* is not called when the receiver has been unregistered by now.
OnReceive ==
  /\ queue # <<>>
  /\ queue' = Tail(queue)
  /\ \/ /\ Head(queue) \in registered
        /\ stack' = Append(Finish(Head(queue)), Activity("menu", 0))
     \/ Head(queue) \notin registered /\ UNCHANGED stack
  /\ UNCHANGED <<registered, created>> /\ Unconnected

\* Android ends the process in the background.
EndProcess == Ended(stack)
-----------------------------------------------------------------------------
ServerStep ==
  /\ \/ \E s \in Servers : (\E c \in Codes : OpenWindow(s, c)) \/ ShutWindow(s)
     \/ \E h \in handshakes : AnswerHandshake(h)
  /\ UNCHANGED <<phoneVars, activityVars, kills>>

Next == \/ ServerStep
        \/ Launch \/ OpenEntry \/ Scan \/ OpenPad \/ CreatePad \/ Back \/ OnReceive
        \/ EndProcess
        \/ \E id \in registered : Destroy(id)
        \/ \E s \in Servers, c \in Codes : Connect(s, c)
        \/ \E k \in answers : ReceiveHandshake(k)

Spec == Init /\ [][Next]_vars

\* The main thread's looper runs what is queued.
FairSpec == Spec /\ WF_vars(OnReceive)
-----------------------------------------------------------------------------
TypeOK ==
  /\ window \in [Servers -> Codes \cup {0}]
  /\ handshakes \subseteq [server : Servers, code : Codes] /\ answers \subseteq Servers
  /\ instance \in BOOLEAN /\ mSender \in Servers \cup {None, Closed}
  /\ remoteKeys \in Servers \cup {None, Rejected}
  /\ stack \in Seq([screen : Screens, id : 0..MaxActivities]) /\ Len(stack) <= MaxStack
  /\ registered \subseteq 1..created /\ created <= MaxActivities
  /\ queue \in Seq(1..created) /\ kills <= MaxKills /\ failed \in BOOLEAN

\* A pad sends a control message without a cipher text and a signature only when
\* a server's answer had keys that could not be used.  Encrypt leaves both null
\* while there are no keys, and the guard of SendControlMessage, which compares
\* with the empty string, lets null pass; what keeps a pad from sending before
\* any answer is that it is opened from a menu, a menu after an answer, and that
\* a process that lost the keys lost its sender too.
CipherUnlessRejected ==
  Visible = "pad" => \A d \in ControlDatagrams : d.keys # None

\* When the menu or a pad is on the screen and nothing can be sent, the process
\* had ended or a socket could not be opened: no order of scans, late answers
\* and keys back gets there otherwise.
SilentExplained ==
  Visible \in {"menu", "pad"} /\ mSender \notin Servers => kills > 0 \/ failed

\* The activities keep what ClientSession promises, in every order of broadcasts,
\* failures and ends of the process.
Session == INSTANCE ClientSession
  WITH answered <- remoteKeys # None, menu <- Shows("menu")
SessionSpec == Session!Spec

\* An activity whose broadcast was queued leaves the screens, unless the process
\* ends first, wherever on the stack it is by then.
AnsweredLeaves ==
  \A id \in 1..MaxActivities, n \in 0..MaxKills :
    (kills = n /\ \E i \in DOMAIN queue : queue[i] = id)
      ~> (id \notin Numbers \/ kills > n)
=============================================================================
