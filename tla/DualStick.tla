----------------------------- MODULE DualStick -----------------------------
(***************************************************************************)
(* The dual-stick controller of the phone, the datagrams it sends and the  *)
(* server that injects them.  The left stick is the keys w, a, s, d: the   *)
(* activity remembers in keypress which are down and sends only changes,   *)
(* so the server's keyboard is a replica that nothing ever refreshes.  The *)
(* right stick moves the mouse.                                            *)
(***************************************************************************)
EXTENDS Link

CONSTANT Pulls  \* where the left stick goes: sets of the keys it pulls

\* w, a, s, d.
Keys == {119, 97, 115, 100}
Touch1 == 5

\* The stick is never pulled in opposite directions.
ASSUME PullsAssumption ==
  /\ {} \in Pulls
  /\ \A p \in Pulls : /\ p \subseteq Keys
                      /\ ~({119, 115} \subseteq p) /\ ~({97, 100} \subseteq p)

VARIABLES
  keypress,   \* dualstickActivity.keypress, as the set of keys that are down
  server, keys, buttons, mouse, keyboard, presenter,  \* of InputServer
  orphans     \* history: keys a destroyed activity left down, not pressed since

serverVars == <<server, keys, buttons, mouse, keyboard, presenter>>
vars == <<linkVars, keypress, serverVars, orphans>>

Server == INSTANCE InputServer WITH Controls <- Keys \cup {Touch1}, Metas <- {0}

Message(device, control, action) ==
  [device |-> device, control |-> control, action |-> action, meta |-> 0]

Init == LinkInit /\ Server!Init /\ keypress = {} /\ orphans = {}
-----------------------------------------------------------------------------
(* The phone *)

\* handle_event's four tests, in its order: a message for each key that changes.
Change(k, pull) ==
  IF (k \in pull) = (k \in keypress) THEN <<>>
  ELSE <<Message(1, k, IF k \in pull THEN 0 ELSE 1)>>

Changes(pull) == Change(119, pull) \o Change(97, pull)
                   \o Change(115, pull) \o Change(100, pull)

\* Mutant: a key that is no longer pulled is forgotten without a message.
HandleEventNoUp(pull) ==
  /\ Send(SelectSeq(Changes(pull), LAMBDA m : m.action = 0))
  /\ keypress' = pull
  /\ orphans' = orphans \ pull
  /\ UNCHANGED serverVars

\* Mutant: the else branches do not reset keypress.
HandleEventNoReset(pull) ==
  /\ Send(Changes(pull))
  /\ keypress' = keypress \cup pull
  /\ orphans' = orphans \ pull
  /\ UNCHANGED serverVars

\* handle_event for a finger in the left zone.  Lifting it, and every event
\* that is neither down nor move, pulls nothing; a finger that slides out of
\* the zone, or lifts outside it, makes no call at all.
HandleEvent(pull) ==
  /\ Send(Changes(pull))
  /\ keypress' = pull
  /\ orphans' = orphans \ pull
  /\ UNCHANGED serverVars

\* handle_event for a finger in the right zone.
MoveStick ==
  /\ Send(<<Message(0, Touch1, 2)>>)
  /\ UNCHANGED <<keypress, serverVars, orphans>>

\* The activity is destroyed, and a new one starts with no key pressed.
Recreate ==
  /\ keypress' = {}
  /\ orphans' = orphans \cup keypress
  /\ UNCHANGED <<linkVars, serverVars>>
-----------------------------------------------------------------------------
(* The network and the server *)

Deliver ==
  \E i \in DOMAIN net : /\ Take(i)
                        /\ Server!Accept(net[i].instruction)
                        /\ UNCHANGED <<keypress, orphans>>

Lose == \E i \in DOMAIN net : /\ Drop(i)
                              /\ UNCHANGED <<keypress, serverVars, orphans>>

ServerExit == Server!Exit /\ UNCHANGED <<linkVars, keypress, orphans>>

Next == \/ \E pull \in Pulls : HandleEvent(pull)
        \/ MoveStick
        \/ Recreate
        \/ Deliver
        \/ Lose
        \/ ServerExit

Spec == Init /\ [][Next]_vars
-----------------------------------------------------------------------------
(* Every variable ranges over its type.                                     *)
TypeOK == /\ keypress \in Pulls
          /\ Server!TypeOK
          /\ orphans \in SUBSET Keys
          /\ net \in Seq([instruction : Server!Instructions, newest : BOOLEAN])
          /\ settled \subseteq {<<1, k>> : k \in Keys}

(* The replica is exact for every settled key: held on the server if and    *)
(* only if it is down on the phone, or was left down by an activity that    *)
(* was destroyed.  So a key sticks only by a lost or overtaken release, or  *)
(* by losing keypress.                                                      *)
ReplicaExact ==
  server = "running" =>
    \A k \in Keys : <<1, k>> \in settled =>
      (k \in keys <=> k \in keypress \cup orphans)

(* Whatever was lost, overtaken or forgotten, the server's exit releases it *)
(* all: the stick's keys are among those Keyboard::Deinit walks through.    *)
ExitReleasesStick == server = "exited" => keys = {} /\ buttons = {}
=============================================================================
