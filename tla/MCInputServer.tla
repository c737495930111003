---------------------------- MODULE MCInputServer ----------------------------
(* Tab, Enter, space, "a", "A" (which converts to no key) and "~", beside    *)
(* the first and the last button and one that does not exist.                *)
EXTENDS InputServer

MCControls == {0, 4, 5, 9, 10, 32, 65, 97, 126}
=============================================================================
