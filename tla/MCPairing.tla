------------------------------ MODULE MCPairing ------------------------------
(* Instances of Pairing for TLC: phones and ports are model values.         *)
EXTENDS PairingProperties

CONSTANTS d1, d2, p1, p2, p3
=============================================================================
