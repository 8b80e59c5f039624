------------------------------ MODULE MCImServer ------------------------------
(* Two users and two or three connections.  The users are model values: no *)
(* definition orders them, so the states may be taken up to a permutation. *)
EXTENDS ImServer, TLC

CONSTANTS alice, bob

MCFds2 == {4, 5}
MCFds3 == {4, 5, 6}
MCUsers == {alice, bob}
UserSymmetry == Permutations(MCUsers)
=============================================================================
