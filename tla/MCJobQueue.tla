----------------------------- MODULE MCJobQueue -----------------------------
(* JobQueue with two producers of two jobs each. *)
EXTENDS JobQueue

CONSTANTS network, accept

MCProducers == {network, accept}
=============================================================================
