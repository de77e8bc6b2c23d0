----------------------------- MODULE MCLifecycle -----------------------------
(* Lifecycle with three modules and the acyclic relations between them.  The     *)
(* modules may have been added in any order, so it is no loss to let each name   *)
(* those with smaller numbers only.                                              *)
EXTENDS Lifecycle

MCModules == 1 .. 3
MCQueues == {q \in [1 .. 3 -> 1 .. 3] : ToSet(q) = 1 .. 3}

None == [m \in MCModules |-> {}]
Chain == <<{}, {1}, {2}>>
Acyclic == {<<{}, a, b>> : a \in SUBSET {1}, b \in SUBSET {1, 2}}

MCExpectations == {[init |-> i, start |-> s] : i \in {None, Chain}, s \in Acyclic}

\* The first module may name one that is not there.
MCDependencies ==
  {[init |-> None, start |-> [s EXCEPT ![1] = a]] : a \in SUBSET {0}, s \in Acyclic}

MCAnswers ==
  [init |-> {"Succeed", "Failed"}, start |-> {"Succeed", "Failed"},
   update |-> {"Succeed", "Failed", "Pending"}, stop |-> {"Succeed", "Failed"},
   release |-> {"Succeed", "Pending"}]
=============================================================================
