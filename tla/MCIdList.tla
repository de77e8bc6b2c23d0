------------------------------ MODULE MCIdList ------------------------------
(* IdList with a few indices: gaps at both bounds and in the middle. *)
EXTENDS IdList

CONSTANTS h1, h2

MCValues == {h1, h2}
=============================================================================
