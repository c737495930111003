----------------------------- MODULE PadServer -----------------------------
(***************************************************************************)
(* The touch pad, the datagrams it sends, and the server that injects      *)
(* them: TouchPad and InputServer composed over Link.                      *)
(***************************************************************************)
EXTENDS TouchPad, Link

VARIABLES server, keys, buttons, mouse, keyboard, presenter  \* of InputServer

serverVars == <<server, keys, buttons, mouse, keyboard, presenter>>
allVars == <<vars, linkVars, serverVars>>

Server == INSTANCE InputServer WITH Controls <- 0..5

AllInit == Init /\ Server!Init /\ LinkInit
-----------------------------------------------------------------------------
\* Mutant: the two messages of a click are sent the wrong way round.
TouchReversed == /\ Next /\ ~Elapse
                 /\ Send(Reverse(sent'))
                 /\ UNCHANGED serverVars

\* A MotionEvent, and SendControlMessage for each instruction it makes.
Touch == /\ Next /\ ~Elapse
         /\ Send(sent')
         /\ UNCHANGED serverVars

Wait == Elapse /\ UNCHANGED <<linkVars, serverVars>>

Deliver ==
  \E i \in DOMAIN net : /\ Take(i)
                        /\ Server!Accept(net[i].instruction)
                        /\ UNCHANGED vars

Lose == \E i \in DOMAIN net : Drop(i) /\ UNCHANGED <<vars, serverVars>>

ServerExit == Server!Exit /\ UNCHANGED <<vars, linkVars>>

AllNext == Touch \/ Wait \/ Deliver \/ Lose \/ ServerExit

AllSpec == AllInit /\ [][AllNext]_allVars
-----------------------------------------------------------------------------
(* A button whose newest message was accepted last is up: no gesture,      *)
(* however it ends and whatever was clicked before it, leaves a button down *)
(* unless a release is lost or overtaken.                                   *)
SettledButtonsUp ==
  server = "running" => \A b \in 0..5 : <<0, b>> \in settled => b \notin buttons
-----------------------------------------------------------------------------
(* "Multitouch Messages: Device: 3": such a message is not for the          *)
(* presenter, and the pad sends no other message with that device.          *)
PresenterUntouched == presenter = "none"
=============================================================================
