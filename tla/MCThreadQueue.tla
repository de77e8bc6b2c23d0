---------------------------- MODULE MCThreadQueue ----------------------------
(* ThreadQueue of size two between two producers and two consumers. *)
EXTENDS ThreadQueue

CONSTANTS p1, p2, c1, c2

MCProducers == {p1, p2}
MCConsumers == {c1, c2}
=============================================================================
