---------------------------- MODULE PacketOrder ----------------------------
(***************************************************************************)
(* What a receiver of the wire protocol promises: the packets of the       *)
(* sender, each once and in order, and nothing that was not sent.          *)
(***************************************************************************)
EXTENDS Naturals, Sequences

CONSTANT Packets

VARIABLES put, got

Init == put = <<>> /\ got = <<>>

Put == \E p \in Packets : put' = Append(put, p) /\ UNCHANGED got

Get ==
    /\ Len(got) < Len(put)
    /\ got' = Append(got, put[Len(got) + 1])
    /\ UNCHANGED put

Spec == Init /\ [][Put \/ Get]_<<put, got>>
=============================================================================
