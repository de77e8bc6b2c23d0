------------------------------- MODULE MCClock -------------------------------
(* Clock with wheels of two slots: all of them come round every eight ticks. *)
EXTENDS Clock
=============================================================================
