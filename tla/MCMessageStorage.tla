-------------------------- MODULE MCMessageStorage --------------------------
(* Two users, three messages: enough for two messages of one user around   *)
(* one of the other.  The texts are one word, or also a word, a '|' and a  *)
(* word.                                                                   *)
EXTENDS MessageStorage

MCUsers == {1, 2}
PlainTexts == {<<-1>>}
PipedTexts == {<<-1>>, <<-1, -2>>}
=============================================================================
