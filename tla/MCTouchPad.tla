----------------------------- MODULE MCTouchPad -----------------------------
(* Three fingers: an event of one, of two and of more pointers.              *)
EXTENDS TouchPad

CONSTANTS f1, f2, f3
=============================================================================
