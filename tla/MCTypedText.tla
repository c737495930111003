---------------------------- MODULE MCTypedText ----------------------------
(* One text of each kind the conversions tell apart: plain, a word, a mark   *)
(* the server knows and one it does not, a capital, Enter, Tab, a space      *)
(* alone and within a text, and the guard.                                   *)
EXTENDS TypedText

MCTexts == {<<98>>, <<98, 49>>, <<43>>, <<33>>, <<65>>, <<10>>, <<9>>, <<32>>,
            <<32, 98>>, <<97, 32>>}
=============================================================================
