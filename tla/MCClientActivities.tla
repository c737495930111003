------------------------- MODULE MCClientActivities -------------------------
(* Two servers with one code each, so that an answer of the one may come    *)
(* after the other was asked.                                               *)
EXTENDS ClientActivities

MCCodes == {1}
=============================================================================
