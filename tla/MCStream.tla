------------------------------ MODULE MCStream ------------------------------
(* Stream with buffers of a few bytes, so that frames are cut everywhere. *)
EXTENDS Stream
=============================================================================
