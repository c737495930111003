------------------------------ MODULE Pairing ------------------------------
(***************************************************************************)
(* The pairing of a phone with the server: ConnectDialog (GUI thread),     *)
(* HandshakeListener on the OSC receive thread, and Connector, whose key,  *)
(* mutex and device map both threads share; ending with the destructor     *)
(* that kills the receive thread and drops the devices.                    *)
(*                                                                         *)
(* A GUI handler is one step.  Each takes mLock at most once (inside       *)
(* SetConnectKey) and everything else it touches belongs to the GUI        *)
(* thread, so it is placed at the moment it owns the mutex and waits       *)
(* while the listener owns it.  The listener runs in small steps, one per  *)
(* mutex operation, because terminate() may kill it after any of them.     *)
(***************************************************************************)
EXTENDS Naturals, Sequences

CONSTANTS Devices,      \* phones, named by their address
          Codes,        \* codes ConnectNewDevice can draw
          ClientCodes,  \* codes a phone can send: typed or scanned, any number
          Ports,        \* OSCPort objects that AddNewDevice can allocate
          NoPort,
          NoMessage,
          MaxReceived,  \* bound: datagrams the receive thread handles
          MaxOpened     \* bound: pairing windows the user opens

Messages == [dev : Devices, code : ClientCodes]

ASSUME CodesAreNonzero == Codes \subseteq Nat \ {0}
ASSUME ClientCodesAreNumbers == ClientCodes \subseteq Nat
ASSUME NoPortAssumption == NoPort \notin Ports
ASSUME NoMessageAssumption == NoMessage \notin Messages
ASSUME BoundsAssumption == MaxReceived \in Nat /\ MaxOpened \in Nat

VARIABLES
  \* ConnectDialog, GUI thread
  main,         \* "loop" in a.exec(), then the next call of ~Connector
  visible,      \* the dialog is on the screen
  mCheck,       \* the success pane is shown
  mCross,       \* the failure pane is shown
  mTimeout,     \* the 60 s single-shot timer is running
  hides,        \* pending 2 s singleShot hide() timers
  events,       \* HandshakeSuccessful signals queued for the GUI thread, each
                \* with the port it is about
  opened,       \* windows opened so far
  \* Connector, shared by both threads
  mLock,        \* "free", or the thread that owns the mutex
  mConnectKey,  \* 0, or the code of the open window
  mDeviceMap,   \* device -> its port, NoPort when the map has no entry
  ports,        \* OSCPort objects allocated and not yet closed
  \* the receive thread and its two listeners
  lpc,          \* where the thread is, or how it ended
  msg,          \* the handshake being handled
  readKey,      \* result of the latest GetConnectKey()
  newPort,      \* dev.port of AddNewDevice's local Device
  received,     \* datagrams received so far
  \* the network and the phones
  sent,         \* every /handshake_client sent, forever deliverable
  replied,      \* ports through which a /handshake_server was sent
  reported      \* ports whose success the dialog has turned to its check for

dialogVars == <<visible, mCheck, mCross, mTimeout, hides, events, opened>>
listenerVars == <<lpc, msg, readKey, newPort, received>>
netVars == <<sent, replied, reported>>
vars == <<main, dialogVars, mLock, mConnectKey, mDeviceMap, ports,
          listenerVars, netVars>>

Paired == {d \in Devices : mDeviceMap[d] # NoPort}

\* run() listens until stopListening() is called.
ibListening == main \in {"loop", "closing"}
Ended == {"killed", "torn", "finished"}

Init == /\ main = "loop"
        /\ visible = FALSE /\ mCheck = FALSE /\ mCross = FALSE
        /\ mTimeout = FALSE /\ hides = 0 /\ events = <<>> /\ opened = 0
        /\ mLock = "free"
        /\ mConnectKey = 0
        /\ mDeviceMap = [d \in Devices |-> NoPort]
        /\ ports = {}
        /\ lpc = "idle" /\ msg = NoMessage /\ readKey = 0
        /\ newPort = NoPort /\ received = 0
        /\ sent = {} /\ replied = {} /\ reported = {}
-----------------------------------------------------------------------------
(* The phones.  A message once sent may be received any number of times,   *)
(* in any order, late or never: UDP, and a user who presses Connect again. *)
SendHandshakeClient(m) ==
  /\ sent' = sent \cup {m}
  /\ UNCHANGED <<main, dialogVars, mLock, mConnectKey, mDeviceMap, ports,
                 listenerVars, replied, reported>>
-----------------------------------------------------------------------------
(* ConnectDialog *)
SetConnectKey(key) == /\ mLock = "free"
                      /\ mConnectKey' = key
                      /\ UNCHANGED mLock

GuiStep == /\ main = "loop"
           /\ UNCHANGED <<main, mDeviceMap, ports, listenerVars, sent, replied>>

\* Mutant: qrand() % 127 without the loop that redraws a zero.
ConnectNewDeviceDrawsZero ==
  /\ GuiStep
  /\ opened < MaxOpened
  /\ \E k \in Codes \cup {0} : SetConnectKey(k)
  /\ mCheck' = FALSE /\ mCross' = FALSE
  /\ visible' = TRUE
  /\ mTimeout' = TRUE
  /\ opened' = opened + 1
  /\ UNCHANGED <<hides, events, reported>>

\* Mutant: the timeout is never started.
ConnectNewDeviceNoTimer ==
  /\ GuiStep
  /\ opened < MaxOpened
  /\ \E k \in Codes : SetConnectKey(k)
  /\ mCheck' = FALSE /\ mCross' = FALSE
  /\ visible' = TRUE
  /\ opened' = opened + 1
  /\ UNCHANGED <<mTimeout, hides, events, reported>>

ConnectNewDevice ==
  /\ GuiStep
  /\ opened < MaxOpened
  /\ \E k \in Codes : SetConnectKey(k)
  /\ mCheck' = FALSE /\ mCross' = FALSE
  /\ visible' = TRUE
  /\ mTimeout' = TRUE
  /\ opened' = opened + 1
  /\ UNCHANGED <<hides, events, reported>>

ConnectionSuccess ==
  /\ GuiStep
  /\ events # <<>>
  /\ events' = Tail(events)
  /\ SetConnectKey(0)
  /\ mTimeout' = FALSE
  /\ mCheck' = TRUE
  /\ hides' = hides + 1
  /\ reported' = reported \cup {Head(events).port}
  /\ UNCHANGED <<visible, mCross, opened>>

\* Mutant: no singleShot hides the failure pane.
ConnectionTimeoutStays ==
  /\ GuiStep
  /\ mTimeout
  /\ mTimeout' = FALSE
  /\ SetConnectKey(0)
  /\ mCross' = TRUE
  /\ UNCHANGED <<visible, mCheck, hides, events, opened, reported>>

ConnectionTimeout ==
  /\ GuiStep
  /\ mTimeout
  /\ mTimeout' = FALSE
  /\ SetConnectKey(0)
  /\ mCross' = TRUE
  /\ hides' = hides + 1
  /\ UNCHANGED <<visible, mCheck, events, opened, reported>>

\* Mutant: hiding also cancels the next singleShot.
HideTimerTwice ==
  /\ GuiStep
  /\ hides > 0
  /\ hides' = hides - 2
  /\ visible' = FALSE
  /\ UNCHANGED <<mCheck, mCross, mTimeout, events, opened, mLock, mConnectKey,
                 reported>>

\* A singleShot fires: QWidget::hide(), which delivers no close event.
HideTimer ==
  /\ GuiStep
  /\ hides > 0
  /\ hides' = hides - 1
  /\ visible' = FALSE
  /\ UNCHANGED <<mCheck, mCross, mTimeout, events, opened, mLock, mConnectKey,
                 reported>>

\* Mutant: closing stops the timer and forgets the key.
CloseEventKeepsKey ==
  /\ GuiStep
  /\ visible
  /\ visible' = FALSE
  /\ mTimeout' = FALSE
  /\ UNCHANGED <<mCheck, mCross, hides, events, opened, mLock, mConnectKey,
                 reported>>

\* The user closes the window: mTimeout keeps running.
CloseEvent ==
  /\ GuiStep
  /\ visible
  /\ visible' = FALSE
  /\ SetConnectKey(0)
  /\ UNCHANGED <<mCheck, mCross, mTimeout, hides, events, opened, reported>>

\* The user presses Escape: QDialog::reject() hides without a close event.
Escape ==
  /\ GuiStep
  /\ visible
  /\ visible' = FALSE
  /\ UNCHANGED <<mCheck, mCross, mTimeout, hides, events, opened,
                 mLock, mConnectKey, reported>>
-----------------------------------------------------------------------------
(* OSCPort::run, the two acceptMessage and the Connector calls they make *)
ListenerStep == UNCHANGED <<main, visible, mCheck, mCross, mTimeout, hides,
                            opened, mConnectKey, sent, reported>>

Lock == mLock = "free" /\ mLock' = "listener"
Unlock == mLock' = "free"
Goto(from, to) == lpc = from /\ lpc' = to

\* Back in run(): the next turn of while( ibListening ), or its end.
Return == /\ lpc' = IF ibListening THEN "idle" ELSE "finished"
          /\ msg' = NoMessage /\ readKey' = 0

\* A handshake.  A thread that waits for a datagram takes it also after
\* stopListening().
Receive ==
  /\ ListenerStep
  /\ Goto("idle", "get1")
  /\ received < MaxReceived
  /\ received' = received + 1
  /\ msg' \in sent
  /\ UNCHANGED <<events, mLock, mDeviceMap, ports, readKey, newPort, replied>>

\* GetConnectKey() up to its unlock.
ReadKey(from, to) ==
  /\ ListenerStep
  /\ Goto(from, to)
  /\ Lock
  /\ readKey' = mConnectKey
  /\ UNCHANGED <<events, mDeviceMap, ports, msg, newPort, received, replied>>

\* Mutant: acceptMessage compares with the key it read first.
ReadSecondCached ==
  /\ ListenerStep
  /\ Goto("get2", "got2")
  /\ Lock
  /\ UNCHANGED <<events, mDeviceMap, ports, msg, readKey, newPort, received,
                 replied>>

ReadFirst == ReadKey("get1", "got1")
ReadSecond == ReadKey("get2", "got2")

\* if( connectKey ): otherwise the handshake is dropped.
CheckWaiting ==
  /\ ListenerStep
  /\ lpc = "got1"
  /\ Unlock
  /\ IF readKey # 0 THEN lpc' = "get2" /\ UNCHANGED <<msg, readKey>> ELSE Return
  /\ UNCHANGED <<events, mDeviceMap, ports, newPort, received, replied>>

\* randKey == GetConnectKey(): on a match AddNewDevice allocates its port.
CheckCode ==
  /\ ListenerStep
  /\ lpc = "got2"
  /\ Unlock
  /\ IF readKey = msg.code
     THEN /\ lpc' = "put" /\ UNCHANGED <<msg, readKey>>
          /\ \E p \in Ports \ ports : newPort' = p /\ ports' = ports \cup {p}
     ELSE Return /\ UNCHANGED <<newPort, ports>>
  /\ UNCHANGED <<events, mDeviceMap, received, replied>>

LockStep(from, to) ==
  /\ ListenerStep
  /\ Goto(from, to)
  /\ Lock
  /\ UNCHANGED <<events, mDeviceMap, ports, msg, readKey, newPort, received,
                 replied>>

UnlockStep(from, to) ==
  /\ ListenerStep
  /\ Goto(from, to)
  /\ Unlock
  /\ UNCHANGED <<events, mDeviceMap, ports, msg, readKey, newPort, received,
                 replied>>

\* Mutant: the insertion is not in a critical section.
PutLockForgotten ==
  /\ ListenerStep
  /\ Goto("put", "insert")
  /\ UNCHANGED <<events, mLock, mDeviceMap, ports, msg, readKey, newPort, received,
                 replied>>

PutLock == LockStep("put", "insert")

\* mDeviceMap[ dev.name ] = dev: the entry it replaces is only forgotten.
Insert ==
  /\ ListenerStep
  /\ Goto("insert", "inserted")
  /\ mDeviceMap' = [mDeviceMap EXCEPT ![msg.dev] = newPort]
  /\ newPort' = NoPort
  /\ UNCHANGED <<events, mLock, ports, msg, readKey, received, replied>>

\* Mutant: AddNewDevice emits before it has sent the keys.
PutUnlockNoReply == UnlockStep("inserted", "emit")

PutUnlock == UnlockStep("inserted", "send")
SendLock == LockStep("send", "reply")

\* mDeviceMap[ inDeviceName ].port->send( handshake )
SendHandshake ==
  /\ ListenerStep
  /\ Goto("reply", "replied")
  /\ replied' = replied \cup {mDeviceMap[msg.dev]}
  /\ UNCHANGED <<events, mLock, mDeviceMap, ports, msg, readKey, newPort,
                 received>>

SendUnlock == UnlockStep("replied", "emit")

\* Mutant: the signal is not connected.
EmitSuccessLost ==
  /\ ListenerStep
  /\ lpc = "emit"
  /\ Return
  /\ UNCHANGED <<events, mLock, mDeviceMap, ports, newPort, received, replied>>

\* emit HandshakeSuccessful: queued, the dialog lives in the GUI thread.
EmitSuccess ==
  /\ ListenerStep
  /\ lpc = "emit"
  /\ Return
  /\ events' = IF main = "loop"
               THEN Append(events, [dev |-> msg.dev, port |-> mDeviceMap[msg.dev]])
               ELSE events
  /\ UNCHANGED <<mLock, mDeviceMap, ports, newPort, received, replied>>

\* A control message of two arguments: GetClientSignKey looks its device up.
ReceiveControl ==
  /\ ListenerStep
  /\ Goto("idle", "find")
  /\ received < MaxReceived
  /\ received' = received + 1
  /\ UNCHANGED <<events, mLock, mDeviceMap, ports, msg, readKey, newPort, replied>>

FindLock == LockStep("find", "found")

\* The rest of the message is InputServer's and takes no mutex.
FindUnlock ==
  /\ ListenerStep
  /\ lpc = "found"
  /\ Unlock
  /\ Return
  /\ UNCHANGED <<events, mDeviceMap, ports, newPort, received, replied>>

\* waitForReadyRead times out after stopListening(), and run() returns.
Finish ==
  /\ ListenerStep
  /\ ~ibListening
  /\ Goto("idle", "finished")
  /\ UNCHANGED <<events, mLock, mDeviceMap, ports, msg, readKey, newPort, received,
                 replied>>

Listen == \/ ReadFirst \/ CheckWaiting \/ ReadSecond \/ CheckCode
          \/ PutLock \/ Insert \/ PutUnlock
          \/ SendLock \/ SendHandshake \/ SendUnlock \/ EmitSuccess
          \/ FindLock \/ FindUnlock \/ Finish
-----------------------------------------------------------------------------
(* Exit: a.exec() returns, ~MainWindow destroys the dialog, then ~Connector. *)
Quit ==
  /\ main = "loop"
  /\ main' = "closing"
  /\ visible' = FALSE /\ mCheck' = FALSE /\ mCross' = FALSE
  /\ mTimeout' = FALSE /\ hides' = 0 /\ events' = <<>>
  /\ UNCHANGED <<opened, mLock, mConnectKey, mDeviceMap,
                 ports, listenerVars, netVars>>

\* CloseOSCPort( mpIncomingPort ), call by call.
CloseStep(from, to) ==
  /\ main = from
  /\ main' = to
  /\ UNCHANGED <<dialogVars, mLock, mConnectKey, mDeviceMap, ports,
                 listenerVars, netVars>>

StopListening == CloseStep("closing", "terminating")
Terminate == CloseStep("terminating", "waiting")

\* The thread is terminated, at once or later, wherever it is and with whatever
\* it holds; what is on its stack is gone.  A map it was inserting into is left
\* torn.
Die ==
  /\ main = "waiting"
  /\ lpc \notin Ended
  /\ lpc' = IF lpc = "insert" THEN "torn" ELSE "killed"
  /\ msg' = NoMessage /\ readKey' = 0 /\ newPort' = NoPort
  /\ UNCHANGED <<main, dialogVars, mLock, mConnectKey, mDeviceMap, ports,
                 received, netVars>>

\* wait() returns when the thread has ended.
Wait == lpc \in Ended /\ CloseStep("waiting", "removing")

\* Mutant: "Disconnect All Devices" is back in the tray menu.
RemoveDeviceWhileRunning ==
  /\ main \in {"loop", "removing"}
  /\ mLock = "free"
  /\ \E d \in Paired : /\ ports' = ports \ {mDeviceMap[d]}
                       /\ mDeviceMap' = [mDeviceMap EXCEPT ![d] = NoPort]
  /\ UNCHANGED <<main, dialogVars, mLock, mConnectKey, listenerVars, netVars>>

\* Mutant: the port is deleted and its entry stays.
RemoveDeviceKeepsEntry ==
  /\ main = "removing"
  /\ mLock = "free"
  /\ \E d \in Paired : ports' = ports \ {mDeviceMap[d]}
  /\ UNCHANGED <<main, dialogVars, mLock, mConnectKey, mDeviceMap, listenerVars,
                 netVars>>

\* One turn of RemoveAllDevices: RemoveDevice waits for the mutex.
RemoveDevice ==
  /\ main = "removing"
  /\ mLock = "free"
  /\ \E d \in Paired : /\ ports' = ports \ {mDeviceMap[d]}
                       /\ mDeviceMap' = [mDeviceMap EXCEPT ![d] = NoPort]
  /\ UNCHANGED <<main, dialogVars, mLock, mConnectKey, listenerVars, netVars>>

\* The map is empty; ~Connector returns and the atexit handlers run.
Exit ==
  /\ main = "removing"
  /\ Paired = {}
  /\ main' = "exited"
  /\ UNCHANGED <<dialogVars, mLock, mConnectKey, mDeviceMap, ports,
                 listenerVars, netVars>>

Gui == \/ ConnectNewDevice \/ ConnectionSuccess \/ ConnectionTimeout
       \/ HideTimer \/ CloseEvent \/ Escape

Shutdown == Quit \/ StopListening \/ Terminate \/ Die \/ Wait \/ RemoveDevice \/ Exit

Next == \/ \E m \in Messages : SendHandshakeClient(m)
        \/ Gui
        \/ Receive \/ ReceiveControl \/ Listen
        \/ Shutdown

Spec == Init /\ [][Next]_vars

(***************************************************************************)
(* Fairness: Qt delivers expired timers and queued signals while its loop  *)
(* runs, the scheduler runs the listener while it can move, a terminated   *)
(* thread dies in the end, and a destructor that can move goes on.  Users, *)
(* phones and the network owe nothing.  Weak fairness is enough for the    *)
(* mutex because MaxReceived bounds how often the listener takes it.       *)
(***************************************************************************)
Fairness == /\ WF_vars(ConnectionSuccess)
            /\ WF_vars(ConnectionTimeout)
            /\ WF_vars(HideTimer)
            /\ WF_vars(Listen)
            /\ WF_vars(StopListening)
            /\ WF_vars(Terminate)
            /\ WF_vars(Die)
            /\ WF_vars(Wait)
            /\ WF_vars(RemoveDevice)
            /\ WF_vars(Exit)

FairSpec == Spec /\ Fairness
=============================================================================
