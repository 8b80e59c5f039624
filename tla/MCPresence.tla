------------------------------ MODULE MCPresence ------------------------------
(* A user of the Qt client and one of the command line client.              *)
EXTENDS Presence

MCFds     == {4, 5}
MCUsers   == {1, 2}
MCQtUsers == {1}
=============================================================================
