------------------------------- MODULE MCCbuf -------------------------------
(* Two consumers and a producer on one cbuf; the bounds are in the cfg. *)
EXTENDS Cbuf, TLC

CONSTANTS c1, c2, p1

MCConsumers == {c1, c2}
MCProducers == {p1}

Symmetry == Permutations(MCConsumers)
=============================================================================
