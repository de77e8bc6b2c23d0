------------------------------- MODULE MCLog -------------------------------
(* Log with files of one or two lines, in both modes. *)
EXTENDS Log
=============================================================================
