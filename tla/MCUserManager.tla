---------------------------- MODULE MCUserManager ----------------------------
(* One test user, a user who registers, and one whose name is the first     *)
(* user's with a second word after it.                                      *)
EXTENDS UserManager

MCNames == {"alice", "dave", "alice x"}
MCFirstWord == [n \in MCNames |-> IF n = "alice x" THEN "alice" ELSE n]
MCSeeds == <<"alice">>
=============================================================================
