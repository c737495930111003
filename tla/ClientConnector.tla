-------------------------- MODULE ClientConnector --------------------------
(***************************************************************************)
(* The phone's Connector and Crypto, with the servers they talk to.        *)
(*                                                                         *)
(* A server is the code its window waits for, and its name stands for its  *)
(* public keys; what it promises is PairingWindow.  The phone's handshakes *)
(* and the servers' answers are UDP datagrams: each may arrive late, again, *)
(* in any order or never, so both sets only grow.                          *)
(***************************************************************************)
EXTENDS Naturals

CONSTANTS Servers,
          Codes,        \* codes of windows
          None,         \* no server, no keys
          Rejected,     \* keys that could not be made of what a server sent
          Closed        \* a sender whose socket is closed

ASSUME NoneAssumption == /\ None \notin Servers /\ Closed \notin Servers /\ None # Closed
                         /\ Rejected \notin Servers /\ Rejected # None
ASSUME CodesAssumption == Codes \subseteq Nat \ {0}

VARIABLES
  window,      \* the code a server waits for, 0 when its window is shut
  handshakes,  \* handshakes sent to servers
  answers,     \* servers that sent the phone a handshake
  instance,    \* the process has made its Connector, which listens
  mSender,     \* the server messages go to, None or Closed
  remoteKeys,  \* the server whose keys mCrypto has; without (mRemoteKeysSet is
               \* false), None before any answer, Rejected after a bad one
  failed       \* history: a socket could not be opened

serverVars == <<window, answers>>
phoneVars == <<handshakes, instance, mSender, remoteKeys, failed>>

ConnectorInit ==
  /\ window = [s \in Servers |-> 0]
  /\ handshakes = {} /\ answers = {}
  /\ instance = FALSE /\ mSender = None /\ remoteKeys = None /\ failed = FALSE
-----------------------------------------------------------------------------
(* The servers *)

OpenWindow(s, c) == /\ window' = [window EXCEPT ![s] = c]
                    /\ UNCHANGED answers

ShutWindow(s) == /\ window[s] # 0
                 /\ window' = [window EXCEPT ![s] = 0]
                 /\ UNCHANGED answers

\* A handshake with the window's code is answered, and the window shuts.
AnswerHandshake(h) ==
  /\ h.code = window[h.server]
  /\ answers' = answers \cup {h.server}
  /\ window' = [window EXCEPT ![h.server] = 0]
-----------------------------------------------------------------------------
(* The phone *)

\* getInstance: a Connector without keys, listening.  A new one whose port is
\* taken has no receiver: its constructor throws, and nothing catches that.
GetInstance == instance' = TRUE
GetInstanceThrows == ~instance

\* Mutant of ConnectToServer: the socket of the last server is closed and no
\* other opened.
ConnectToServerOnce(s, c) ==
  /\ GetInstance
  /\ mSender' = IF mSender = None THEN s ELSE Closed
  /\ handshakes' = handshakes \cup {[server |-> s, code |-> c]}
  /\ UNCHANGED <<remoteKeys, failed>>

\* ConnectToServer: the socket of the last server is closed, and one for this
\* server opened; when that throws, the closed one stays, or null.
ConnectToServer(s, c) ==
  /\ GetInstance
  /\ \/ /\ mSender' = s
        /\ handshakes' = handshakes \cup {[server |-> s, code |-> c]}
        /\ UNCHANGED failed
     \/ /\ mSender' = IF mSender = None THEN None ELSE Closed
        /\ failed' = TRUE /\ UNCHANGED handshakes
  /\ UNCHANGED remoteKeys

\* HandshakeListener.acceptMessage and Authenticate, before the broadcast: the
\* keys are whoever's the handshake brought, and when SetRemoteKeys cannot make
\* them there are none, those of an earlier answer included.
Authenticate(k) ==
  /\ instance
  /\ remoteKeys' \in {k, Rejected}
  /\ UNCHANGED <<handshakes, instance, mSender, failed>>

\* The datagram SendControlMessage would send: the keys it is encrypted with
\* and where it goes.  Without keys it is sent all the same, with null strings;
\* without an open socket nothing is.
ControlDatagrams ==
  IF mSender \in Servers THEN {[to |-> mSender, keys |-> remoteKeys]} ELSE {}

\* Mutant of Forget: the server is kept in the preferences, its keys are not.
ForgetKeys ==
  /\ remoteKeys' = None /\ instance' = FALSE
  /\ UNCHANGED <<handshakes, mSender, failed>>

\* The process dies: everything of it is gone.
Forget ==
  /\ mSender' = None /\ remoteKeys' = None /\ instance' = FALSE
  /\ UNCHANGED <<handshakes, failed>>
=============================================================================
