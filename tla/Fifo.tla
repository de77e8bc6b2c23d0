-------------------------------- MODULE Fifo --------------------------------
(***************************************************************************)
(* What every queue between two threads of the server promises: elements   *)
(* leave in the order in which they entered, each of them once.  put holds *)
(* all that ever entered and taken all that ever left, so the queue itself *)
(* is what put has beyond taken.  JobQueue and ThreadQueue implement it.   *)
(***************************************************************************)
EXTENDS Naturals, Sequences

CONSTANT Elements

VARIABLES put, taken

vars == <<put, taken>>

Init == put = <<>> /\ taken = <<>>

\* One element enters the queue.
Put(e) == put' = Append(put, e) /\ UNCHANGED taken

\* The oldest element still in the queue leaves it.
Take == /\ Len(taken) < Len(put)
        /\ taken' = Append(taken, put[Len(taken) + 1])
        /\ UNCHANGED put

Next == (\E e \in Elements : Put(e)) \/ Take

Spec == Init /\ [][Next]_vars
=============================================================================
