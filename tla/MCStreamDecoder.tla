-------------------------- MODULE MCStreamDecoder --------------------------
(* A magic of two bytes and bodies of up to four.   One body is empty, one *)
(* is the magic, one starts like it and one is a whole packet; one packet  *)
(* is too long.  The garbage byte is not part of the magic.                *)
EXTENDS StreamDecoder

MCMagic   == <<7, 8>>
MCPackets == {[type |-> 1, body |-> b] : b \in {<<>>, <<7, 8>>, <<7>>, <<7, 8, 1, 0>>}}
                \cup {[type |-> 2, body |-> <<9, 9, 9, 9, 9>>]}
MCGarbage == {0}
=============================================================================
