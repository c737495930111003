------------------------ MODULE PairingProperties ------------------------
(* What must hold of Pairing, and the mapping to PairingWindow. *)
EXTENDS Pairing

\* The places outside acceptMessage of a handshake.
NoHandshake == {"idle", "find", "found"} \cup Ended

ListenerPcs == {"get1", "got1", "get2", "got2", "put", "insert", "inserted",
                "send", "reply", "replied", "emit"} \cup NoHandshake

\* A queued HandshakeSuccessful.
Successes == [dev : Devices, port : Ports \cup {NoPort}]

FlagsOK == /\ visible \in BOOLEAN
           /\ mCheck \in BOOLEAN
           /\ mCross \in BOOLEAN
           /\ mTimeout \in BOOLEAN

StateOK ==
  /\ main \in {"loop", "closing", "terminating", "waiting", "removing", "exited"}
  /\ hides \in Nat
  /\ events \in Seq(Successes) /\ opened \in Nat
  /\ mLock \in {"free", "listener"}
  /\ mConnectKey \in Codes \cup {0}
  /\ mDeviceMap \in [Devices -> Ports \cup {NoPort}]
  /\ ports \in SUBSET Ports
  /\ lpc \in ListenerPcs
  /\ msg \in Messages \cup {NoMessage}
  /\ msg = NoMessage => lpc \in NoHandshake
  /\ readKey \in Codes \cup {0}
  /\ newPort \in Ports \cup {NoPort}
  /\ received \in Nat
  /\ sent \in SUBSET Messages
  /\ replied \in SUBSET (Ports \cup {NoPort})
  /\ reported \in SUBSET (Ports \cup {NoPort})

\* Every variable of the two threads and the network ranges over its type,
\* and acceptMessage never runs without a message.
TypeOK == FlagsOK /\ StateOK
-----------------------------------------------------------------------------
(* While the server runs, a code is accepted only under a running timeout:  *)
(* no order of opening, closing, success and expiry leaves a window open    *)
(* that nothing will shut (ConnectDialog's handlers).                       *)
WindowBounded == main = "loop" /\ mConnectKey # 0 => mTimeout

(* A dialog on the screen with no code behind it, one that shows the check  *)
(* or the cross, always has a hide() pending.                               *)
FeedbackPending == main = "loop" /\ visible /\ mConnectKey = 0 => hides > 0

(* When SendHandshake looks its device up again, having released the mutex  *)
(* since AddNewDevice stored it, the entry is still there and its port      *)
(* open: the pointer it sends through is never NULL nor deleted.            *)
ReplyTarget == lpc \in {"send", "reply"} => mDeviceMap[msg.dev] \in ports

(* No entry is removed from the map while the receive thread may still use  *)
(* it (AddNewDevice's size() takes no mutex), nor from one that the thread  *)
(* left torn: when it was killed in the middle of an insertion, the mutex   *)
(* it then still owns keeps RemoveDevice from going on for ever.            *)
NoMapRace == main = "removing" /\ mLock = "free" => lpc \in Ended \ {"torn"}

(* Every device in the map has an open port and no two devices share one.   *)
PortsLive == /\ \A d \in Paired : mDeviceMap[d] \in ports
             /\ \A d, e \in Paired : mDeviceMap[d] = mDeviceMap[e] => d = e

(* A queued HandshakeSuccessful names a device that is in the map, and the  *)
(* server's keys were sent through the port opened for this very handshake: *)
(* the check pane is never shown for less.                                  *)
SuccessIsPaired == \A i \in DOMAIN events : /\ events[i].dev \in Paired
                                            /\ events[i].port \in replied

(* Pairing implements PairingWindow: a device joins at the second reading   *)
(* of the key, while the window that shows its code is open.                *)
CodeAccepted == \/ lpc = "got2" /\ readKey = msg.code
                \/ lpc \in {"put", "insert"}

Window == INSTANCE PairingWindow WITH
            Offers <- ClientCodes,
            window <- mConnectKey,
            offered <- {<<m.dev, m.code>> : m \in sent},
            admitted <- Paired \cup {d \in Devices : CodeAccepted /\ d = msg.dev},
            stopped <- lpc \in Ended

(* The abstract specification as a property of the detailed one.            *)
WindowSpec == Window!Spec
-----------------------------------------------------------------------------
(* A window the user opened is shut again, by success, expiry or closing,   *)
(* also when the dialog was dismissed with Escape or hidden by a stale timer *)
WindowCloses == (main = "loop" /\ mConnectKey # 0)
                  ~> (main # "loop" \/ mConnectKey = 0)

(* The feedback pane does not stay on the screen.                           *)
FeedbackHides == (visible /\ mConnectKey = 0)
                   ~> (~visible \/ mConnectKey # 0)

(* Once a handshake's code matched, its phone is sent the server's keys     *)
(* through the port opened for it, and the dialog turns to its check for    *)
(* it, in each of several attempts.  Whether anybody sees the check is      *)
(* another matter: a dialog that was dismissed shows it to nobody.          *)
PairingReported == \A p \in Ports :
  (lpc = "put" /\ newPort = p) ~> (main # "loop" \/ p \in replied \cap reported)

(* Exit ends with every device dropped, unless terminate() caught the       *)
(* listener inside a critical section.                                      *)
ExitUnlessKilledInLock ==
  main = "closing" ~> \/ main = "exited" /\ Paired = {}
                      \/ lpc \in Ended \ {"finished"} /\ mLock = "listener"
-----------------------------------------------------------------------------
(* What the repository's comments say, and the code does not do.            *)

(* "Make sure all buttons and keys are released before closing": exit       *)
(* reaches the atexit handlers.                                             *)
ExitReleases == main = "closing" ~> main = "exited"

(* A handshake is accepted only while waiting for one.                      *)
AcceptedWhileWaiting == [][CodeAccepted' /\ ~CodeAccepted => mConnectKey # 0]_vars
=============================================================================
