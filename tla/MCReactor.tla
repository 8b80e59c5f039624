------------------------------ MODULE MCReactor ------------------------------
(* Two connections; packets of two units and sockets that take one, so that *)
(* every packet is written in pieces.                                       *)
EXTENDS Reactor

MCConns2 == {5, 6}
=============================================================================
