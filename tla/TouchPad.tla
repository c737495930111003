------------------------------ MODULE TouchPad ------------------------------
(***************************************************************************)
(* PadActivity's mouse zone: onMouseMove, fed the MotionEvents of one      *)
(* gesture after another, and the instructions it sends for each event.    *)
(*                                                                         *)
(* Android delivers a gesture as DOWN for the first finger, POINTER_DOWN   *)
(* and POINTER_UP for the others, MOVE at any time and UP for the last one *)
(* (or CANCEL instead); an event lists its fingers, the one that is lifting *)
(* included, and a finger that comes may be listed before the others.      *)
(* Coordinates are abstracted to which finger they were read from, and     *)
(* elapsed time to "more than 200 ms".                                     *)
(***************************************************************************)
EXTENDS Naturals, Sequences, SequencesExt

CONSTANTS Fingers,      \* touches that can be on the pad
          NoFinger,
          MultiEnabled, \* the device reports more than one finger
          Commands      \* multitouch commands: 0..5, pinches and scrolls

ASSUME NoFingerAssumption == NoFinger \notin Fingers
ASSUME MultiAssumption == MultiEnabled \in BOOLEAN
ASSUME CommandsAssumption == Commands \subseteq 0..5

VARIABLES
  touches,           \* the environment: fingers on the pad, as events list them
  pad,               \* "running", or "crashed" by an event
  tapstate,          \* "no_tap", "first_tap" or "double_tap"
  slow,              \* more than 200 ms have passed since last_tap
  lastPointerCount,
  history,           \* the finger xHistory, yHistory were read from
  multiHistory,      \* x1History or x2History is not 0
  sent,              \* what the latest event sent
  \* history of the gesture, read by no guard
  before,            \* how the gesture before it ended, if there was one
  clicks,            \* clicks sent in this gesture
  most               \* most fingers it had on the pad at a time

padVars == <<pad, tapstate, slow, lastPointerCount, history, multiHistory, sent>>
vars == <<touches, padVars, before, clicks, most>>

Message(device, control, action, meta) ==
  [device |-> device, control |-> control, action |-> action, meta |-> meta]

\* The metas of a message: the finger a move was measured from and the one it
\* was measured to, the same when it moves the mouse by nothing.
Still == <<NoFinger, NoFinger>>
Metas == {Still} \cup (Fingers \X Fingers)

Click(button) == <<Message(0, button, 0, Still), Message(0, button, 1, Still)>>
LeftClick == Click(0)
RightClick == Click(1)
MoveBy(meta) == <<Message(0, 5, 2, meta)>>
Multitouch == {<<Message(3, type, 0, Still)>> : type \in Commands}

\* What ACTION_UP sends: the click of a tap, if it is one.
TapClick == IF tapstate # "first_tap" \/ slow THEN <<>>
            ELSE CASE lastPointerCount = 1 -> LeftClick
                   [] lastPointerCount = 2 -> RightClick
                   [] OTHER -> <<>>

CountClicks(so_far) ==
  clicks' = IF sent' \in {LeftClick, RightClick} THEN so_far + 1 ELSE so_far

Init == /\ touches = <<>> /\ pad = "running"
        /\ tapstate = "no_tap" /\ slow = TRUE
        /\ lastPointerCount = 0
        /\ history = NoFinger /\ multiHistory = FALSE
        /\ sent = <<>>
        /\ before = "none" /\ clicks = 0 /\ most = 0

Event == pad = "running"

PointerCount(list) == IF MultiEnabled THEN Len(list) ELSE 1
-----------------------------------------------------------------------------
\* Mutant: the histories are not taken at the DOWN.
DownKeepsHistory(f) ==
  /\ Event
  /\ touches = <<>>
  /\ touches' = <<f>>
  /\ IF tapstate = "no_tap"
     THEN /\ tapstate' = "first_tap" /\ slow' = FALSE
          /\ sent' = <<>>
          /\ UNCHANGED lastPointerCount
     ELSE /\ sent' = LeftClick
          /\ lastPointerCount' = 1
          /\ UNCHANGED <<tapstate, slow>>
  /\ CountClicks(0)
  /\ most' = 1
  /\ UNCHANGED <<pad, history, multiHistory, before>>

\* ACTION_DOWN: the first event of a gesture.  It is the start of a tap, and
\* returns before lastPointerCount is set, unless the last gesture left its
\* tap unfinished: then it sends a left click.
Down(f) ==
  /\ Event
  /\ touches = <<>>
  /\ touches' = <<f>>
  /\ history' = f
  /\ IF tapstate = "no_tap"
     THEN /\ tapstate' = "first_tap" /\ slow' = FALSE
          /\ sent' = <<>>
          /\ UNCHANGED lastPointerCount
     ELSE /\ sent' = LeftClick
          /\ lastPointerCount' = 1
          /\ UNCHANGED <<tapstate, slow>>
  /\ CountClicks(0)
  /\ most' = 1
  /\ UNCHANGED <<pad, multiHistory, before>>

\* Mutant: a slow touch clicks too, and its tap is never finished.
UpUnfinished ==
  /\ Event
  /\ Len(touches) = 1
  /\ touches' = <<>>
  /\ multiHistory' = FALSE
  /\ tapstate' = IF slow THEN tapstate ELSE "no_tap"
  /\ sent' = TapClick
  /\ lastPointerCount' = 1
  /\ CountClicks(clicks)
  /\ before' = "lifted"
  /\ UNCHANGED <<pad, slow, history, most>>

\* Mutant: lastPointerCount is reset with the rest.
UpResetsCount ==
  /\ Event
  /\ Len(touches) = 1
  /\ touches' = <<>>
  /\ multiHistory' = FALSE
  /\ sent' = TapClick
  /\ tapstate' = IF tapstate = "first_tap" THEN "no_tap" ELSE tapstate
  /\ lastPointerCount' = 0
  /\ CountClicks(clicks)
  /\ before' = "lifted"
  /\ UNCHANGED <<pad, slow, history, most>>

\* ACTION_UP: the last finger lifts.
Up ==
  /\ Event
  /\ Len(touches) = 1
  /\ touches' = <<>>
  /\ multiHistory' = FALSE
  /\ sent' = TapClick
  /\ tapstate' = IF tapstate = "first_tap" THEN "no_tap" ELSE tapstate
  /\ lastPointerCount' = 1
  /\ CountClicks(clicks)
  /\ before' = "lifted"
  /\ UNCHANGED <<pad, slow, history, most>>

\* Mutant: the move is computed whatever the last event's pointer count was.
MoveOneAlways ==
  /\ Event
  /\ touches # <<>> /\ PointerCount(touches) = 1
  /\ sent' = MoveBy(<<history, Head(touches)>>)
  /\ history' = Head(touches)
  /\ lastPointerCount' = 1
  /\ UNCHANGED <<touches, pad, tapstate, slow, multiHistory, before, clicks,
                 most>>

\* ACTION_MOVE of one finger.
MoveOne ==
  /\ Event
  /\ touches # <<>> /\ PointerCount(touches) = 1
  /\ sent' = IF lastPointerCount = 1 THEN MoveBy(<<history, Head(touches)>>)
                                     ELSE MoveBy(Still)
  /\ history' = Head(touches)
  /\ lastPointerCount' = 1
  /\ UNCHANGED <<touches, pad, tapstate, slow, multiHistory, before, clicks,
                 most>>

\* ACTION_MOVE of two fingers.  The positions are read from the indices 1 and
\* 2, and there is no index 2: the read gives any value, or throws out of the
\* listener and the activity dies.  The first event only sets the histories
\* (to 0, when it read zeros); a later one sends a multitouch command, or
\* nothing when no direction was told.
MoveTwo ==
  /\ Event
  /\ PointerCount(touches) = 2
  /\ \/ /\ pad' = "crashed"
        /\ sent' = <<>>
        /\ UNCHANGED <<multiHistory, lastPointerCount>>
     \/ /\ IF multiHistory
           THEN sent' \in {<<>>} \cup Multitouch /\ UNCHANGED multiHistory
           ELSE sent' = <<>> /\ multiHistory' \in BOOLEAN
        /\ lastPointerCount' = 2
        /\ UNCHANGED pad
  /\ UNCHANGED <<touches, tapstate, slow, history, before, clicks, most>>

\* Every event the switch has no case for (and a MOVE of three fingers): only
\* lastPointerCount is set.  list is what the event reports.
Other(list) ==
  /\ lastPointerCount' = PointerCount(list)
  /\ sent' = <<>>
  /\ UNCHANGED <<pad, tapstate, slow, history, multiHistory, clicks>>

PointerDown(f) ==
  /\ Event
  /\ MultiEnabled
  /\ touches # <<>> /\ f \notin ToSet(touches)
  /\ \E i \in 1..(Len(touches) + 1) : touches' = InsertAt(touches, i, f)
  /\ Other(touches')
  /\ most' = IF Len(touches') > most THEN Len(touches') ELSE most
  /\ UNCHANGED before

PointerUp(f) ==
  /\ Event
  /\ Len(touches) > 1
  /\ \E i \in DOMAIN touches : touches[i] = f /\ touches' = RemoveAt(touches, i)
  /\ Other(touches)
  /\ UNCHANGED <<before, most>>

MoveMany ==
  /\ Event
  /\ PointerCount(touches) > 2
  /\ Other(touches)
  /\ UNCHANGED <<touches, before, most>>

\* Mutant: a cancelled tap is forgotten, and the pointer count is not.
CancelForgetsTap ==
  /\ Event
  /\ touches # <<>>
  /\ touches' = <<>>
  /\ tapstate' = "no_tap"
  /\ lastPointerCount' = PointerCount(touches)
  /\ sent' = <<>>
  /\ before' = "cancelled"
  /\ UNCHANGED <<pad, slow, history, multiHistory, clicks, most>>

\* ACTION_CANCEL: the gesture ends without an UP.
Cancel ==
  /\ Event
  /\ touches # <<>>
  /\ touches' = <<>>
  /\ Other(touches)
  /\ before' = "cancelled"
  /\ UNCHANGED most

\* 200 ms have passed since the touch that may become a tap.
Elapse == /\ Event
          /\ ~slow
          /\ slow' = TRUE
          /\ UNCHANGED <<touches, pad, tapstate, lastPointerCount, history,
                         multiHistory, sent, before, clicks, most>>

Next == \/ \E f \in Fingers : Down(f) \/ PointerDown(f) \/ PointerUp(f)
        \/ Up \/ MoveOne \/ MoveTwo \/ MoveMany \/ Cancel \/ Elapse

Spec == Init /\ [][Next]_vars
-----------------------------------------------------------------------------
(* Every variable ranges over its type; "double_tap" is never reached,      *)
(* because ACTION_DOWN always reports one finger.                           *)
TypeOK == /\ touches \in Seq(Fingers) /\ IsInjective(touches)
          /\ pad \in {"running", "crashed"}
          /\ tapstate \in {"no_tap", "first_tap"}
          /\ slow \in BOOLEAN
          /\ lastPointerCount \in Nat
          /\ history \in Fingers \cup {NoFinger}
          /\ multiHistory \in BOOLEAN
          /\ sent \in {<<>>, LeftClick, RightClick} \cup Multitouch
                       \cup {MoveBy(meta) : meta \in Metas}
          /\ before \in {"none", "lifted", "cancelled"} /\ clicks \in Nat /\ most \in Nat

(* The mouse never jumps: a move is the way one finger went, never the gap  *)
(* between two, whatever fingers came and went before it.                   *)
NoJump == \A f, g \in Fingers : sent = MoveBy(<<f, g>>) => f = g

(* Nothing is clicked under a finger that is still down, except the tap     *)
(* that a cancelled gesture left to the next one.                           *)
ClickOnLift == touches # <<>> /\ before # "cancelled" => clicks = 0

(* A right click is a tap of two fingers, never of one: lastPointerCount is *)
(* not what an earlier gesture left in it.                                  *)
RightClickIsTwo == sent = RightClick => most >= 2

(* A quick touch of one finger is a left click, when a gesture that was     *)
(* lifted came before it.  The first touch of all sends nothing: its        *)
(* ACTION_DOWN returns before lastPointerCount is set.                      *)
LaterTapClicks ==
  [][Up /\ most = 1 /\ ~slow /\ before = "lifted" => sent' = LeftClick]_vars
=============================================================================
