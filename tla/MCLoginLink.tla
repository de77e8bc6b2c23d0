---------------------------- MODULE MCLoginLink ----------------------------
(* LoginLink with queues of one request, so that they are full now and then. *)
EXTENDS LoginLink
=============================================================================
