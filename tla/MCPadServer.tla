---------------------------- MODULE MCPadServer ----------------------------
(* Two fingers, so that both clicks and the two-finger commands are sent.    *)
EXTENDS PadServer, TLC

CONSTANTS f1, f2

Symmetry == Permutations(Fingers)
=============================================================================
