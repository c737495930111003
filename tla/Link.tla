-------------------------------- MODULE Link --------------------------------
(***************************************************************************)
(* The datagrams between SendControlMessage on the phone and the receive   *)
(* thread of the server.  UDP loses them and lets one overtake another.    *)
(*                                                                         *)
(* A press and a release are not repeated and carry no number, so that the *)
(* server cannot tell an old one from a new one.  newest and settled say   *)
(* what it cannot know, for the properties; no guard reads them.           *)
(***************************************************************************)
EXTENDS Naturals, Sequences, SequencesExt

CONSTANT MaxNet  \* bound: datagrams under way

ASSUME MaxNetAssumption == MaxNet \in Nat

VARIABLES
  net,     \* under way: the instruction, and whether it is the newest message
           \* about its key or button
  settled  \* the keys and buttons whose newest message was accepted, and no
           \* other about them since

linkVars == <<net, settled>>

\* The key or button that a press or a release is about.
Subject(m) == IF m.device \in {0, 1} /\ m.action \in {0, 1}
              THEN {<<m.device, m.control>>} ELSE {}

LinkInit == net = <<>> /\ settled = {}

\* SendControlMessage for each of messages: OSCPortOut.send, a datagram each.
Send(messages) ==
  LET joined == net \o [i \in DOMAIN messages |->
                          [instruction |-> messages[i], newest |-> TRUE]]
      subject(i) == Subject(joined[i].instruction)
      outdated(i) == \E j \in DOMAIN joined :
                       j > i /\ j > Len(net) /\ subject(i) \cap subject(j) # {}
  IN /\ Len(joined) <= MaxNet
     /\ net' = [i \in DOMAIN joined |->
                  [joined[i] EXCEPT !.newest = @ /\ ~outdated(i)]]
     /\ settled' = settled \ UNION {Subject(messages[i]) : i \in DOMAIN messages}

\* OSCPort::run receives the i-th datagram.
Take(i) ==
  LET subject == Subject(net[i].instruction) IN
  /\ net' = RemoveAt(net, i)
  /\ settled' = IF net[i].newest THEN settled \cup subject ELSE settled \ subject

\* The i-th is lost, or arrives when no server runs.
Drop(i) == net' = RemoveAt(net, i) /\ UNCHANGED settled
=============================================================================
