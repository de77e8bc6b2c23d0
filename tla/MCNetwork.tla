------------------------------ MODULE MCNetwork ------------------------------
(* Network with few connections that share fewer sockets. *)
EXTENDS Network, TLC

CONSTANTS s1, s2

MCSocks == {s1, s2}

\* The code compares sockets for equality only.
Symmetric == Permutations(MCSocks)
=============================================================================
