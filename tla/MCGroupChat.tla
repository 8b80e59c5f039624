----------------------------- MODULE MCGroupChat -----------------------------
(* Two users.  The users are model values and may be permuted.             *)
EXTENDS GroupChat, TLC

CONSTANTS alice, bob

MCFds == {4, 5}
MCUsers == {alice, bob}
UserSymmetry == Permutations(MCUsers)
=============================================================================
