----------------------------- MODULE MCOscPort -----------------------------
(* Strings of two and of four digits end in two zeros and in four; the      *)
(* random numbers are the boundaries of % 127 and of a signed char.         *)
EXTENDS OscPort

MCAddresses == {<<10, 0, 0, 2>>, <<192, 168, 1, 255>>}
MCRandoms == {0, 200, 253}
MCTexts == {<<65, 48>>, <<70, 49, 70, 50>>}
=============================================================================
