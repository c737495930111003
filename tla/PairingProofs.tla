--------------------------- MODULE PairingProofs ---------------------------
(***************************************************************************)
(* Pairing's invariants and its refinement of PairingWindow, for every     *)
(* number of phones, codes, ports, handshakes and windows.                 *)
(***************************************************************************)
EXTENDS PairingProperties, SequenceTheorems, TLAPS

\* The receive thread outlives stopListening() and ends before the removals.
EndedBetween == /\ lpc \in Ended => ~ibListening
                /\ main \in {"removing", "exited"} => lpc \in Ended

\* Between a lock() and its unlock() the thread owns the mutex, also dead.
Locking == lpc \in {"got1", "got2", "insert", "inserted", "reply", "replied",
                    "found", "torn"} => mLock = "listener"

\* The queue dies with the dialog.
QueueEmptied == main # "loop" => events = <<>>

\* What is being handled was sent by a phone.
MessageSent == msg # NoMessage => msg \in sent

\* The port about to be stored is open and not yet in the map.
PortFresh == lpc \in {"put", "insert"} =>
               /\ newPort \in ports
               /\ \A d \in Devices : mDeviceMap[d] # newPort

\* From Insert to the signal the device stays in the map.
DeviceStored == lpc \in {"inserted", "send", "reply", "replied", "emit"} =>
                  mDeviceMap[msg.dev] # NoPort

\* The signal follows the reply.
ReplySent == lpc \in {"replied", "emit"} => mDeviceMap[msg.dev] \in replied

-----------------------------------------------------------------------------
(* TypeOK is inductive by itself. *)
LEMMA TypeInit == Init => TypeOK
<1> SUFFICES ASSUME Init PROVE TypeOK
  OBVIOUS
<1>1. FlagsOK
  BY Zenon DEF Init, FlagsOK
<1>2. StateOK
  BY DEF Init, StateOK, ListenerPcs, NoHandshake, Ended
<1>3. QED
  BY <1>1, <1>2 DEF TypeOK

LEMMA StateStep == StateOK /\ [Next]_vars => StateOK'
<1> SUFFICES ASSUME StateOK, [Next]_vars PROVE StateOK'
  OBVIOUS
<1> USE DEF StateOK, ListenerPcs, NoHandshake, Ended
<1>1. ASSUME NEW m \in Messages, SendHandshakeClient(m)
     PROVE  StateOK'
  BY <1>1 DEF SendHandshakeClient, dialogVars, listenerVars, netVars
<1>2. CASE ConnectNewDevice
  BY <1>2 DEF ConnectNewDevice, GuiStep, SetConnectKey, dialogVars,
     listenerVars, netVars
<1>3. CASE ConnectionSuccess
  <2>1. Head(events) \in Successes /\ Tail(events) \in Seq(Successes)
    BY <1>3 DEF ConnectionSuccess
  <2>2. Head(events).port \in Ports \cup {NoPort}
    BY <2>1 DEF Successes
  <2>3. QED
    BY <1>3, <2>1, <2>2 DEF ConnectionSuccess, GuiStep, SetConnectKey,
       dialogVars, listenerVars, netVars
<1>4. CASE ConnectionTimeout
  BY <1>4 DEF ConnectionTimeout, GuiStep, SetConnectKey, dialogVars,
     listenerVars, netVars
<1>5. CASE HideTimer
  BY <1>5 DEF HideTimer, GuiStep, dialogVars, listenerVars, netVars
<1>6. CASE CloseEvent
  BY <1>6 DEF CloseEvent, GuiStep, SetConnectKey, dialogVars, listenerVars,
     netVars
<1>7. CASE Escape
  BY <1>7 DEF Escape, GuiStep, dialogVars, listenerVars, netVars
<1>8. CASE Receive
  BY <1>8, NoMessageAssumption DEF Receive, ListenerStep, Goto, dialogVars
<1>9. CASE ReadFirst
  BY <1>9 DEF ReadFirst, ReadKey, ListenerStep, Goto, Lock, dialogVars,
     listenerVars, netVars
<1>10. CASE CheckWaiting
  BY <1>10 DEF CheckWaiting, ListenerStep, Unlock, Return, dialogVars,
     listenerVars, netVars
<1>11. CASE ReadSecond
  BY <1>11 DEF ReadSecond, ReadKey, ListenerStep, Goto, Lock, dialogVars,
     listenerVars, netVars
<1>12. CASE CheckCode
  BY <1>12 DEF CheckCode, ListenerStep, Unlock, Return, dialogVars, listenerVars,
     netVars
<1>13. CASE PutLock
  BY <1>13 DEF PutLock, LockStep, ListenerStep, Goto, Lock, dialogVars,
     listenerVars, netVars
<1>14. CASE Insert
  BY <1>14 DEF Insert, ListenerStep, Goto, dialogVars, listenerVars, netVars
<1>15. CASE PutUnlock
  BY <1>15 DEF PutUnlock, UnlockStep, ListenerStep, Goto, Unlock,
     dialogVars, listenerVars, netVars
<1>16. CASE SendLock
  BY <1>16 DEF SendLock, LockStep, ListenerStep, Goto, Lock, dialogVars,
     listenerVars, netVars
<1>17. CASE SendHandshake
  <2>1. mDeviceMap[msg.dev] \in Ports \cup {NoPort}
    BY <1>17 DEF SendHandshake, Goto, Messages
  <2>2. QED
    BY <1>17, <2>1 DEF SendHandshake, ListenerStep, Goto, dialogVars
<1>18. CASE SendUnlock
  BY <1>18 DEF SendUnlock, UnlockStep, ListenerStep, Goto, Unlock,
     dialogVars, listenerVars, netVars
<1>19. CASE EmitSuccess
  <2>1. [dev |-> msg.dev, port |-> mDeviceMap[msg.dev]] \in Successes
    BY <1>19 DEF EmitSuccess, Messages, Successes
  <2>2. events' \in Seq(Successes)
    BY <1>19, <2>1 DEF EmitSuccess
  <2>3. QED
    BY <1>19, <2>2 DEF EmitSuccess, ListenerStep, Return, dialogVars
<1>20. CASE ReceiveControl
  BY <1>20 DEF ReceiveControl, ListenerStep, Goto, dialogVars, listenerVars, netVars
<1>21. CASE FindLock
  BY <1>21 DEF FindLock, LockStep, ListenerStep, Goto, Lock, dialogVars, listenerVars, netVars
<1>22. CASE FindUnlock
  BY <1>22 DEF FindUnlock, ListenerStep, Unlock, Return, dialogVars, listenerVars, netVars
<1>23. CASE Finish
  BY <1>23 DEF Finish, ListenerStep, Goto, dialogVars, listenerVars, netVars
<1>24. CASE Quit
  BY <1>24 DEF Quit, dialogVars, listenerVars, netVars
<1>25. CASE StopListening \/ Terminate \/ Wait
  BY <1>25 DEF StopListening, Terminate, Wait, CloseStep, dialogVars,
     listenerVars, netVars
<1>26. CASE Die
  BY <1>26 DEF Die, dialogVars, listenerVars, netVars
<1>27. CASE RemoveDevice
  BY <1>27 DEF RemoveDevice, Paired, dialogVars, listenerVars, netVars
<1>28. CASE Exit
  BY <1>28 DEF Exit, Paired, dialogVars, listenerVars, netVars
<1>29. CASE UNCHANGED vars
  BY <1>29 DEF vars, dialogVars, listenerVars, netVars
<1>30. QED
  BY <1>1, <1>2, <1>3, <1>4, <1>5, <1>6, <1>7, <1>8, <1>9, <1>10, <1>11,
     <1>12, <1>13, <1>14, <1>15, <1>16, <1>17, <1>18, <1>19, <1>20, <1>21,
     <1>22, <1>23, <1>24, <1>25, <1>26, <1>27, <1>28, <1>29
  DEF Next, Gui, Listen, Shutdown

LEMMA TypeStep == TypeOK /\ [Next]_vars => TypeOK'
<1>1. FlagsOK /\ [Next]_vars => FlagsOK'
  BY Zenon DEF FlagsOK, vars, CheckCode, CheckWaiting, CloseEvent, CloseStep,
     ConnectNewDevice, ConnectionSuccess, ConnectionTimeout, Die, EmitSuccess,
     Escape, Exit, FindLock, FindUnlock, Finish, GuiStep, HideTimer, Insert,
     ListenerStep, LockStep, PutLock, PutUnlock, Quit, ReadFirst, ReadKey,
     ReadSecond, Receive, ReceiveControl, RemoveDevice, SendHandshake,
     SendLock, SendUnlock, StopListening, Terminate, UnlockStep, Wait, Next,
     Gui, Listen, Shutdown, SendHandshakeClient, dialogVars
<1>2. QED
  BY <1>1, StateStep DEF TypeOK

(* The variables of Pairing keep their types: HandshakeListener, Connector, *)
(* ConnectDialog and the destructor, in every interleaving.                 *)
THEOREM TypeCorrect == Spec => []TypeOK
  BY TypeInit, TypeStep, PTL DEF Spec
-----------------------------------------------------------------------------
(* The inductive invariant.  Each of the parts above the safety properties  *)
(* is what one of those needs to be inductive.                              *)
Frame == /\ EndedBetween /\ Locking /\ QueueEmptied /\ MessageSent
         /\ WindowBounded /\ FeedbackPending
MapInv == PortFresh /\ DeviceStored /\ PortsLive
ReplyInv == ReplySent /\ SuccessIsPaired
IInv == TypeOK /\ Frame /\ MapInv /\ ReplyInv

LEMMA IInvInit == Init => IInv
<1> SUFFICES ASSUME Init PROVE IInv
  OBVIOUS
<1>1. TypeOK
  BY TypeInit
<1>2. Frame
  BY DEF Init, Frame, EndedBetween, Locking, QueueEmptied, MessageSent, WindowBounded,
         FeedbackPending, Ended, ibListening
<1>3. MapInv
  BY DEF Init, MapInv, PortFresh, DeviceStored, PortsLive, Paired
<1>4. ReplyInv
  BY DEF Init, ReplyInv, ReplySent, SuccessIsPaired
<1>5. QED
  BY <1>1, <1>2, <1>3, <1>4 DEF IInv

LEMMA FrameStep == TypeOK /\ Frame /\ [Next]_vars => Frame'
<1> SUFFICES ASSUME TypeOK, Frame, [Next]_vars PROVE Frame'
  OBVIOUS
<1> USE DEF Frame, EndedBetween, Locking, QueueEmptied, MessageSent, WindowBounded,
            FeedbackPending, TypeOK, StateOK, ListenerPcs, NoHandshake,
            Ended, ibListening
<1>1. ASSUME NEW m \in Messages, SendHandshakeClient(m)
     PROVE  Frame'
  BY <1>1 DEF SendHandshakeClient, dialogVars, listenerVars, netVars
<1>2. CASE ConnectNewDevice
  <2>1. mTimeout'
    BY <1>2, Zenon DEF ConnectNewDevice
  <2>2. QED
    BY <1>2, <2>1, CodesAreNonzero
    DEF ConnectNewDevice, GuiStep, SetConnectKey, dialogVars, listenerVars,
        netVars
<1>3. CASE ConnectionSuccess
  BY <1>3 DEF ConnectionSuccess, GuiStep, SetConnectKey, dialogVars,
     listenerVars, netVars
<1>4. CASE ConnectionTimeout
  BY <1>4 DEF ConnectionTimeout, GuiStep, SetConnectKey, dialogVars,
     listenerVars, netVars
<1>5. CASE HideTimer
  BY <1>5 DEF HideTimer, GuiStep, dialogVars, listenerVars, netVars
<1>6. CASE CloseEvent
  BY <1>6 DEF CloseEvent, GuiStep, SetConnectKey, dialogVars, listenerVars,
     netVars
<1>7. CASE Escape
  BY <1>7 DEF Escape, GuiStep, dialogVars, listenerVars, netVars
<1>8. CASE Receive
  BY <1>8 DEF Receive, ListenerStep, Goto, dialogVars, listenerVars, netVars
<1>9. CASE ReadFirst
  BY <1>9 DEF ReadFirst, ReadKey, ListenerStep, Goto, Lock, dialogVars,
     listenerVars, netVars
<1>10. CASE CheckWaiting
  BY <1>10 DEF CheckWaiting, ListenerStep, Unlock, Return, dialogVars,
     listenerVars, netVars
<1>11. CASE ReadSecond
  BY <1>11 DEF ReadSecond, ReadKey, ListenerStep, Goto, Lock, dialogVars,
     listenerVars, netVars
<1>12. CASE CheckCode
  BY <1>12 DEF CheckCode, ListenerStep, Unlock, Return, dialogVars, listenerVars,
     netVars
<1>13. CASE PutLock
  BY <1>13 DEF PutLock, LockStep, ListenerStep, Goto, Lock, dialogVars,
     listenerVars, netVars
<1>14. CASE Insert
  BY <1>14 DEF Insert, ListenerStep, Goto, dialogVars, listenerVars, netVars
<1>15. CASE PutUnlock
  BY <1>15 DEF PutUnlock, UnlockStep, ListenerStep, Goto, Unlock,
     dialogVars, listenerVars, netVars
<1>16. CASE SendLock
  BY <1>16 DEF SendLock, LockStep, ListenerStep, Goto, Lock, dialogVars,
     listenerVars, netVars
<1>17. CASE SendHandshake
  BY <1>17 DEF SendHandshake, ListenerStep, Goto, dialogVars, listenerVars,
     netVars
<1>18. CASE SendUnlock
  BY <1>18 DEF SendUnlock, UnlockStep, ListenerStep, Goto, Unlock,
     dialogVars, listenerVars, netVars
<1>19. CASE EmitSuccess
  BY <1>19 DEF EmitSuccess, ListenerStep, Return, dialogVars, listenerVars,
     netVars
<1>20. CASE ReceiveControl
  BY <1>20 DEF ReceiveControl, ListenerStep, Goto, dialogVars, listenerVars, netVars
<1>21. CASE FindLock
  BY <1>21 DEF FindLock, LockStep, ListenerStep, Goto, Lock, dialogVars, listenerVars, netVars
<1>22. CASE FindUnlock
  BY <1>22 DEF FindUnlock, ListenerStep, Unlock, Return, dialogVars, listenerVars, netVars
<1>23. CASE Finish
  BY <1>23 DEF Finish, ListenerStep, Goto, dialogVars, listenerVars, netVars
<1>24. CASE Quit
  BY <1>24 DEF Quit, dialogVars, listenerVars, netVars
<1>25. CASE StopListening \/ Terminate \/ Wait
  BY <1>25 DEF StopListening, Terminate, Wait, CloseStep, dialogVars,
     listenerVars, netVars
<1>26. CASE Die
  BY <1>26 DEF Die, dialogVars, listenerVars, netVars
<1>27. CASE RemoveDevice
  BY <1>27 DEF RemoveDevice, Paired, dialogVars, listenerVars, netVars
<1>28. CASE Exit
  BY <1>28 DEF Exit, Paired, dialogVars, listenerVars, netVars
<1>29. CASE UNCHANGED vars
  BY <1>29 DEF vars, dialogVars, listenerVars, netVars
<1>30. QED
  BY <1>1, <1>2, <1>3, <1>4, <1>5, <1>6, <1>7, <1>8, <1>9, <1>10, <1>11,
     <1>12, <1>13, <1>14, <1>15, <1>16, <1>17, <1>18, <1>19, <1>20, <1>21,
     <1>22, <1>23, <1>24, <1>25, <1>26, <1>27, <1>28, <1>29
  DEF Next, Gui, Listen, Shutdown

LEMMA MapStep == TypeOK /\ Frame /\ MapInv /\ [Next]_vars => MapInv'
<1> SUFFICES ASSUME TypeOK, Frame, MapInv, [Next]_vars PROVE MapInv'
  OBVIOUS
<1>0. /\ lpc \notin NoHandshake => msg.dev \in Devices
      /\ EndedBetween /\ StateOK
  BY DEF Frame, TypeOK, StateOK, Messages
<1> USE DEF MapInv, PortFresh, DeviceStored, PortsLive, Paired,
            StateOK, ListenerPcs, NoHandshake, Ended, EndedBetween
<1>1. ASSUME NEW m \in Messages, SendHandshakeClient(m)
     PROVE  MapInv'
  BY <1>1 DEF SendHandshakeClient, dialogVars, listenerVars, netVars
<1>2. CASE Gui
  BY <1>2, <1>0, NoPortAssumption DEF Gui, ConnectNewDevice, GuiStep,
     SetConnectKey, ConnectionSuccess, ConnectionTimeout, HideTimer,
     CloseEvent, Escape, dialogVars, listenerVars, netVars
<1>3. CASE Receive
  BY <1>3, <1>0, NoPortAssumption DEF Receive, ListenerStep, Goto,
     dialogVars, listenerVars, netVars
<1>4. CASE CheckCode
  BY <1>4, <1>0, NoPortAssumption DEF CheckCode, ListenerStep, Unlock,
     Return, dialogVars, listenerVars, netVars
<1>5. CASE Insert
  BY <1>5, <1>0, NoPortAssumption DEF Insert, ListenerStep, Goto,
     dialogVars, listenerVars, netVars
<1>6. CASE ReadFirst \/ ReadSecond \/ PutLock \/ PutUnlock \/ SendLock
          \/ SendHandshake \/ SendUnlock \/ FindLock
  BY <1>6, <1>0, NoPortAssumption DEF ReadFirst, ReadKey, ListenerStep,
     Goto, Lock, Unlock, ReadSecond, PutLock, LockStep, PutUnlock,
     UnlockStep, SendLock, SendHandshake, SendUnlock, FindLock, dialogVars,
     listenerVars, netVars
<1>7. CASE CheckWaiting \/ EmitSuccess \/ FindUnlock \/ ReceiveControl \/ Finish
  BY <1>7, <1>0, NoPortAssumption DEF CheckWaiting, EmitSuccess, FindUnlock,
     ReceiveControl, Finish, ListenerStep, Goto, Unlock, Return, dialogVars,
     listenerVars, netVars
<1>8. CASE Quit \/ StopListening \/ Terminate \/ Wait \/ Exit
  BY <1>8, <1>0, NoPortAssumption DEF Quit, StopListening, Terminate, Wait,
     CloseStep, Exit, Paired, dialogVars, listenerVars, netVars
<1>9. CASE Die
  BY <1>9, <1>0, NoPortAssumption DEF Die, dialogVars, listenerVars, netVars
<1>10. CASE RemoveDevice
  BY <1>10, <1>0, NoPortAssumption DEF RemoveDevice, Paired, dialogVars,
     listenerVars, netVars
<1>11. CASE UNCHANGED vars
  BY <1>11, <1>0, NoPortAssumption DEF dialogVars, listenerVars, netVars,
     vars
<1>12. QED
  BY <1>1, <1>2, <1>3, <1>4, <1>5, <1>6, <1>7, <1>8, <1>9, <1>10, <1>11
  DEF Next, Gui, Listen, Shutdown

LEMMA ReplyStep ==
  TypeOK /\ Frame /\ MapInv /\ ReplyInv /\ [Next]_vars => ReplyInv'
<1> SUFFICES ASSUME TypeOK, Frame, MapInv, ReplyInv, [Next]_vars
             PROVE  ReplyInv'
  OBVIOUS
<1>0. /\ lpc \notin NoHandshake => msg.dev \in Devices
      /\ QueueEmptied /\ EndedBetween /\ DeviceStored /\ StateOK
  BY DEF Frame, TypeOK, StateOK, Messages, MapInv
<1> USE DEF ReplyInv, ReplySent, SuccessIsPaired, Paired, DeviceStored,
            StateOK, ListenerPcs, NoHandshake, Ended, QueueEmptied, EndedBetween
<1>1. ASSUME NEW m \in Messages, SendHandshakeClient(m)
     PROVE  ReplyInv'
  BY <1>1 DEF SendHandshakeClient, dialogVars, listenerVars, netVars
<1>2. CASE ConnectionSuccess
  BY <1>2, <1>0 DEF ConnectionSuccess, GuiStep, SetConnectKey, dialogVars,
     listenerVars, netVars
<1>3. CASE ConnectNewDevice \/ ConnectionTimeout \/ HideTimer
          \/ CloseEvent \/ Escape
  BY <1>3, <1>0 DEF ConnectNewDevice, GuiStep, SetConnectKey,
     ConnectionTimeout, HideTimer, CloseEvent, Escape, dialogVars,
     listenerVars, netVars
<1>4. CASE Receive
  BY <1>4, <1>0 DEF Receive, ListenerStep, Goto, dialogVars, listenerVars,
     netVars
<1>5. CASE Insert
  <2>1. newPort # NoPort
    BY <1>5, <1>0, NoPortAssumption DEF Insert, Goto, MapInv, PortFresh
  <2>2. QED
    BY <1>5, <1>0, <2>1 DEF Insert, ListenerStep, Goto
<1>6. CASE SendHandshake
  BY <1>6, <1>0 DEF SendHandshake, ListenerStep, Goto, dialogVars,
     listenerVars, netVars
<1>7. CASE EmitSuccess
  BY <1>7, <1>0 DEF EmitSuccess, ListenerStep, Return, dialogVars,
     listenerVars, netVars
<1>8. CASE ReadFirst \/ ReadSecond \/ PutLock \/ PutUnlock \/ SendLock
          \/ SendUnlock \/ FindLock
  BY <1>8, <1>0 DEF ReadFirst, ReadKey, ListenerStep, Goto, Lock,
     Unlock, ReadSecond, PutLock, LockStep, PutUnlock, UnlockStep, SendLock,
     SendUnlock, FindLock, dialogVars, listenerVars, netVars
<1>9. CASE CheckWaiting \/ CheckCode \/ FindUnlock \/ ReceiveControl \/ Finish
  BY <1>9, <1>0 DEF CheckWaiting, CheckCode, FindUnlock, ReceiveControl,
     Finish, ListenerStep, Goto, Unlock, Return, dialogVars, listenerVars,
     netVars
<1>10. CASE Shutdown
  BY <1>10, <1>0 DEF Shutdown, Quit, StopListening, Terminate, Wait,
     CloseStep, Die, RemoveDevice, Paired, Exit, dialogVars, listenerVars,
     netVars
<1>11. CASE UNCHANGED vars
  BY <1>11, <1>0 DEF dialogVars, listenerVars, netVars, vars
<1>12. QED
  BY <1>1, <1>2, <1>3, <1>4, <1>5, <1>6, <1>7, <1>8, <1>9, <1>10, <1>11
  DEF Next, Gui, Listen, Shutdown

THEOREM Invariance == Spec => []IInv
<1>1. Init => IInv
  BY IInvInit
<1>2. IInv /\ [Next]_vars => IInv'
  BY TypeStep, FrameStep, MapStep, ReplyStep DEF IInv
<1>3. QED
  BY <1>1, <1>2, PTL DEF Spec

(* While the server runs every accepted code is under a running timeout.    *)
THEOREM WindowsAreBounded == Spec => []WindowBounded
  BY Invariance, PTL DEF IInv, Frame

(* A visible dialog that waits for no phone is about to be hidden.          *)
THEOREM FeedbackIsPending == Spec => []FeedbackPending
  BY Invariance, PTL DEF IInv, Frame

(* Every mapped device has an open port of its own.                         *)
THEOREM PortsAreLive == Spec => []PortsLive
  BY Invariance, PTL DEF IInv, MapInv

(* SendHandshake finds the device it was called for, and its port open,     *)
(* although the mutex was released since AddNewDevice stored it.            *)
THEOREM RepliesHaveTarget == Spec => []ReplyTarget
<1>1. IInv => ReplyTarget
  <2> SUFFICES ASSUME IInv, lpc \in {"send", "reply"}
               PROVE  mDeviceMap[msg.dev] \in ports
    BY DEF ReplyTarget
  <2>1. msg.dev \in Devices
    BY DEF IInv, TypeOK, StateOK, Messages, NoHandshake, Ended
  <2>2. msg.dev \in Paired
    BY <2>1 DEF IInv, MapInv, DeviceStored, Paired
  <2>3. QED
    BY <2>2 DEF IInv, MapInv, PortsLive
<1>2. QED
  BY Invariance, <1>1, PTL

(* The destructor's removals from mDeviceMap never overlap the receive      *)
(* thread's use of it, nor follow an insertion that was cut short, whether  *)
(* the thread was killed in the middle of a message or ran to its end.      *)
THEOREM MapIsRaceFree == Spec => []NoMapRace
<1>1. IInv => NoMapRace
  BY DEF IInv, Frame, EndedBetween, Locking, NoMapRace, Ended
<1>2. QED
  BY Invariance, <1>1, PTL

(* The check pane is shown only for a phone that is paired and answered.    *)
THEOREM SuccessIsSound == Spec => []SuccessIsPaired
  BY Invariance, PTL DEF IInv, ReplyInv
-----------------------------------------------------------------------------
(* The refinement.  Only the second reading of the key decides.  Every      *)
(* other step of the receive thread stutters or, when it is the thread's    *)
(* last, leaves; so do those of the destructor.                             *)
Joined == Paired \cup {d \in Devices : CodeAccepted /\ d = msg.dev}
Offered == {<<m.dev, m.code>> : m \in sent}
Stopped == lpc \in Ended

\* A step that keeps what the mapping reads is a stuttering step.
LEMMA Stutter ==
  ASSUME Joined' = Joined, Stopped' = Stopped, UNCHANGED <<mConnectKey, sent>>
  PROVE  UNCHANGED Window!vars
  BY DEF Window!vars, Joined, Stopped

\* A step that admits nobody stutters unless it ends the thread.
LEMMA NobodyJoins ==
  ASSUME Joined' = Joined, Stopped => Stopped', UNCHANGED <<mConnectKey, sent>>
  PROVE  Window!Next \/ UNCHANGED Window!vars
<1>1. CASE Stopped' = Stopped
  BY <1>1, Stutter
<1>2. CASE Stopped' # Stopped
  <2>1. Stopped'
    BY <1>2 DEF Stopped
  <2>2. Window!Leave
    BY <2>1 DEF Window!Leave, Joined, Stopped
  <2>3. QED
    BY <2>2 DEF Window!Next
<1>3. QED
  BY <1>1, <1>2

\* The steps of the receive thread but the second reading keep the set of
\* joined devices, also Insert, which moves the device from the message into
\* the map.
LEMMA ListenerKeeps ==
  ASSUME IInv, Receive \/ ReceiveControl \/ Listen, ~ReadSecond
  PROVE  Window!Next \/ UNCHANGED Window!vars
<1>0. /\ lpc \notin NoHandshake => msg.dev \in Devices
      /\ StateOK
  BY DEF IInv, TypeOK, StateOK, Messages
<1> USE DEF CodeAccepted, Paired
<1>1. CASE Insert
  <2>1. newPort # NoPort
    BY <1>0, <1>1, NoPortAssumption
    DEF Insert, Goto, IInv, MapInv, PortFresh, StateOK
  <2>2. CodeAccepted /\ ~CodeAccepted' /\ msg' = msg
    BY <1>1 DEF Insert, Goto
  <2>3. Paired' = Paired \cup {msg.dev}
    BY <1>0, <1>1, <2>1 DEF Insert, Goto, StateOK, NoHandshake, Ended
  <2>4. Joined' = Joined
    BY <1>0, <1>1, <2>2, <2>3 DEF Insert, Goto, Joined, NoHandshake, Ended
  <2>5. QED
    BY <1>1, <2>4, NobodyJoins DEF Insert, ListenerStep, Goto, Stopped, Ended
<1>2. CASE CheckCode
  <2>1. /\ Paired' = Paired /\ CodeAccepted' = CodeAccepted
        /\ CodeAccepted => msg' = msg
    BY <1>2 DEF CheckCode, Return
  <2>2. Joined' = Joined
    BY <2>1 DEF Joined
  <2>3. QED
    BY <1>2, <2>2, NobodyJoins DEF CheckCode, ListenerStep, Stopped, Ended
<1>3. CASE Receive \/ ReadFirst \/ CheckWaiting
  <2>1. ~CodeAccepted /\ ~CodeAccepted' /\ Paired' = Paired /\ ~Stopped
    BY <1>3 DEF Receive, ReadFirst, ReadKey, CheckWaiting, Return, Goto,
                Stopped, Ended
  <2>2. Joined' = Joined
    BY <2>1 DEF Joined
  <2>3. QED
    BY <1>3, <2>1, <2>2, NobodyJoins
    DEF Receive, ReadFirst, ReadKey, CheckWaiting, ListenerStep
<1>4. CASE PutLock
  <2>1. CodeAccepted' = CodeAccepted /\ Paired' = Paired /\ msg' = msg
    BY <1>4 DEF PutLock, LockStep, Goto
  <2>2. Joined' = Joined
    BY <2>1 DEF Joined
  <2>3. QED
    BY <1>4, <2>2, NobodyJoins DEF PutLock, LockStep, Goto, ListenerStep,
       Stopped, Ended
<1>5. CASE PutUnlock \/ SendLock \/ SendHandshake \/ SendUnlock \/ EmitSuccess
  <2>1. ~CodeAccepted' /\ ~CodeAccepted /\ Paired' = Paired /\ ~Stopped
    BY <1>5 DEF PutUnlock, SendLock, SendHandshake, SendUnlock, EmitSuccess,
                LockStep, UnlockStep, Goto, Return, Stopped, Ended
  <2>2. Joined' = Joined
    BY <2>1 DEF Joined
  <2>3. QED
    BY <1>5, <2>1, <2>2, NobodyJoins
    DEF PutUnlock, SendLock, SendHandshake, SendUnlock, EmitSuccess,
        LockStep, UnlockStep, ListenerStep
<1>6. CASE ReceiveControl \/ FindLock \/ FindUnlock \/ Finish
  <2>1. ~CodeAccepted' /\ ~CodeAccepted /\ Paired' = Paired /\ ~Stopped
    BY <1>6 DEF ReceiveControl, FindLock, FindUnlock, Finish, LockStep, Goto,
                Return, Stopped, Ended
  <2>2. Joined' = Joined
    BY <2>1 DEF Joined
  <2>3. QED
    BY <1>6, <2>1, <2>2, NobodyJoins
    DEF ReceiveControl, FindLock, FindUnlock, Finish, LockStep, ListenerStep
<1>7. QED
  BY <1>1, <1>2, <1>3, <1>4, <1>5, <1>6 DEF Listen

\* The linearization point.
LEMMA ReadSecondAdmits ==
  ASSUME 0 \notin ClientCodes, IInv, ReadSecond
  PROVE  Window!Next \/ UNCHANGED Window!vars
<1>1. /\ msg \in sent /\ msg \in Messages /\ ~Stopped
      /\ msg.dev \in Devices /\ msg.code # 0
  BY DEF IInv, Frame, MessageSent, TypeOK, StateOK, Messages, NoHandshake,
         Ended, ReadSecond, ReadKey, Goto, Stopped
<1>2. /\ Paired' = Paired /\ ~CodeAccepted /\ ~Stopped'
      /\ UNCHANGED <<mConnectKey, sent, msg>>
  BY <1>1 DEF ReadSecond, ReadKey, ListenerStep, Goto, Paired, CodeAccepted,
              Stopped, Ended
<1>3. CASE mConnectKey = msg.code
  <2>1. PICK d \in Devices : d = msg.dev
    BY <1>1
  <2>2. CodeAccepted'
    BY <1>3 DEF ReadSecond, ReadKey, Goto, ListenerStep, CodeAccepted
  <2>3. Joined' = Joined \cup {d}
    BY <1>1, <1>2, <2>1, <2>2 DEF Joined
  <2>4. <<d, mConnectKey>> \in Offered
    BY <1>1, <1>3, <2>1 DEF Offered
  <2>5. Window!Admit(d)
    BY <1>1, <1>2, <1>3, <2>3, <2>4
    DEF Window!Admit, Joined, Offered, Stopped
  <2>6. QED
    BY <2>5 DEF Window!Next
<1>4. CASE mConnectKey # msg.code
  <2>1. ~CodeAccepted'
    BY <1>2, <1>4 DEF ReadSecond, ReadKey, Goto, CodeAccepted
  <2>2. Joined' = Joined
    BY <1>2, <2>1 DEF Joined
  <2>3. QED
    BY <1>1, <1>2, <2>2, Stutter DEF Stopped
<1>5. QED
  BY <1>3, <1>4

LEMMA GuiRefines ==
  ASSUME IInv, Gui
  PROVE  Window!Next \/ UNCHANGED Window!vars
<1>1. ~Stopped /\ ~Stopped' /\ Joined' = Joined /\ sent' = sent
  <2>1. lpc' = lpc /\ ~Stopped
    BY DEF Gui, ConnectNewDevice, ConnectionSuccess, ConnectionTimeout,
           HideTimer, CloseEvent, Escape, GuiStep, listenerVars, IInv, Frame,
           EndedBetween, ibListening, Stopped
  <2>2. QED
    BY <2>1
    DEF Gui, ConnectNewDevice, ConnectionSuccess, ConnectionTimeout,
        HideTimer, CloseEvent, Escape, GuiStep, SetConnectKey, Joined,
        Stopped, Paired, CodeAccepted, listenerVars
<1>2. CASE ConnectNewDevice
  <2>1. PICK k \in Codes : mConnectKey' = k
    BY <1>2 DEF ConnectNewDevice, SetConnectKey
  <2>2. Window!Open(k)
    BY <1>1, <2>1 DEF Window!Open, Joined, Stopped
  <2>3. QED
    BY <2>2 DEF Window!Next
<1>3. CASE ConnectionSuccess \/ ConnectionTimeout \/ CloseEvent
  <2>1. Window!Shut
    BY <1>1, <1>3 DEF ConnectionSuccess, ConnectionTimeout, CloseEvent,
                      SetConnectKey, Window!Shut, Joined, Stopped
  <2>2. QED
    BY <2>1 DEF Window!Next
<1>4. CASE HideTimer \/ Escape
  BY <1>1, <1>4, Stutter DEF HideTimer, Escape, Stopped
<1>5. QED
  BY <1>2, <1>3, <1>4 DEF Gui

LEMMA ShutdownRefines ==
  ASSUME IInv, Shutdown
  PROVE  Window!Next \/ UNCHANGED Window!vars
<1>1. CASE Quit
  <2>1. Joined' = Joined /\ Stopped' = Stopped
    BY <1>1 DEF Quit, Joined, Stopped, Paired, CodeAccepted, listenerVars
  <2>2. QED
    BY <1>1, <2>1, Stutter DEF Quit, netVars
<1>2. CASE StopListening \/ Terminate \/ Wait
  <2>1. Joined' = Joined /\ Stopped' = Stopped
    BY <1>2 DEF StopListening, Terminate, Wait, CloseStep, Joined, Stopped,
                Paired, CodeAccepted, listenerVars
  <2>2. QED
    BY <1>2, <2>1, Stutter DEF StopListening, Terminate, Wait, CloseStep, netVars
<1>3. CASE Die
  <2>1. Joined' \subseteq Joined
    BY <1>3 DEF Die, Joined, Paired, CodeAccepted
  <2>2. Window!Leave
    BY <1>3, <2>1 DEF Die, Window!Leave, Joined, netVars, Ended
  <2>3. QED
    BY <2>2 DEF Window!Next
<1>4. CASE RemoveDevice
  <2>1. ~CodeAccepted /\ ~CodeAccepted' /\ Stopped'
    BY <1>4 DEF RemoveDevice, IInv, Frame, EndedBetween, CodeAccepted,
                listenerVars, Stopped, Ended
  <2>2. Paired' \subseteq Paired
    BY <1>4 DEF RemoveDevice, Paired, IInv, TypeOK, StateOK
  <2>3. Joined' \subseteq Joined
    BY <2>1, <2>2 DEF Joined
  <2>4. Window!Leave
    BY <1>4, <2>1, <2>3 DEF RemoveDevice, Window!Leave, Joined, Stopped, netVars
  <2>5. QED
    BY <2>4 DEF Window!Next
<1>5. CASE Exit
  <2>1. Joined' = Joined /\ Stopped' = Stopped
    BY <1>5 DEF Exit, Joined, Stopped, Paired, CodeAccepted, listenerVars
  <2>2. QED
    BY <1>5, <2>1, Stutter DEF Exit, netVars
<1>6. QED
  BY <1>1, <1>2, <1>3, <1>4, <1>5 DEF Shutdown

LEMMA NextRefines ==
  ASSUME 0 \notin ClientCodes
  PROVE  IInv /\ [Next]_vars => [Window!Next]_Window!vars
<1> SUFFICES ASSUME IInv, [Next]_vars
             PROVE  Window!Next \/ UNCHANGED Window!vars
  OBVIOUS
<1>1. ASSUME NEW m \in Messages, SendHandshakeClient(m)
      PROVE  Window!Next
  <2>1. Joined' = Joined /\ Stopped' = Stopped /\ mConnectKey' = mConnectKey
    BY <1>1 DEF SendHandshakeClient, Joined, Stopped, Paired, CodeAccepted,
                listenerVars
  <2>2. Offered' = Offered \cup {<<m.dev, m.code>>}
    BY <1>1 DEF SendHandshakeClient, Offered
  <2>3. Window!Offer(m.dev, m.code)
    BY <2>1, <2>2 DEF Window!Offer, Joined, Offered, Stopped
  <2>4. m.dev \in Devices /\ m.code \in ClientCodes
    BY DEF Messages
  <2>5. QED
    BY <2>3, <2>4 DEF Window!Next
<1>2. CASE Gui
  BY <1>2, GuiRefines
<1>3. CASE Receive \/ ReceiveControl \/ Listen
  BY <1>3, ListenerKeeps, ReadSecondAdmits
<1>4. CASE Shutdown
  BY <1>4, ShutdownRefines
<1>5. CASE UNCHANGED vars
  <2>1. Joined' = Joined /\ Stopped' = Stopped
    BY <1>5 DEF vars, Joined, Stopped, Paired, CodeAccepted, listenerVars
  <2>2. QED
    BY <1>5, <2>1, Stutter DEF vars, netVars
<1>6. QED
  BY <1>1, <1>2, <1>3, <1>4, <1>5 DEF Next

(* Pairing implements PairingWindow as long as no phone sends the code 0,   *)
(* the value that means "no window": HandshakeListener's two readings of    *)
(* the key, with the mutex released between them, admit a device exactly    *)
(* while the window that shows its code is open.                            *)
THEOREM ImplementsWindow ==
  ASSUME 0 \notin ClientCodes
  PROVE  Spec => WindowSpec
<1>1. Init => Window!Init
  BY DEF Init, Window!Init, Paired, CodeAccepted, Ended
<1>2. IInv /\ [Next]_vars => [Window!Next]_Window!vars
  BY NextRefines
<1>3. QED
  BY <1>1, <1>2, Invariance, PTL DEF Spec, WindowSpec, Window!Spec
=============================================================================
