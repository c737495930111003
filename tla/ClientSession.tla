--------------------------- MODULE ClientSession ---------------------------
(***************************************************************************)
(* What the phone's screens promise: a menu, from which every control is   *)
(* reached, is opened only by a process that a server has answered.        *)
(***************************************************************************)
VARIABLES answered,  \* a server's handshake has reached this process
          menu       \* a main menu can be seen, or come back to

vars == <<answered, menu>>

Init == ~answered /\ ~menu

Answer == answered' = TRUE /\ UNCHANGED menu
OpenMenu == answered /\ menu' = TRUE /\ UNCHANGED answered
Leave == menu' = FALSE /\ UNCHANGED answered

\* The process ends, and a new one gets its screens, or what a crash leaves.
EndProcess == answered' = FALSE /\ menu' \in BOOLEAN /\ (menu' => menu)

Next == Answer \/ OpenMenu \/ Leave \/ EndProcess

Spec == Init /\ [][Next]_vars
=============================================================================
