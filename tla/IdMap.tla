-------------------------------- MODULE IdMap --------------------------------
(***************************************************************************)
(* What a list with random access promises: a value that is inserted gets  *)
(* an identifier nobody has, keeps it until it is erased, and is found by  *)
(* it; a walk over the list meets every value exactly once, in the order   *)
(* of the identifiers.  IdList implements it.                              *)
(***************************************************************************)
EXTENDS FiniteSets

CONSTANTS Ids, Values

VARIABLE
  bound      \* the value of every identifier in use

Nothing == [i \in {} |-> i]

Init == bound = Nothing

Insert(v) ==
  \E id \in Ids \ DOMAIN bound :
     bound' = [i \in DOMAIN bound \cup {id} |-> IF i = id THEN v ELSE bound[i]]

Erase(id) ==
  /\ id \in DOMAIN bound
  /\ bound' = [i \in DOMAIN bound \ {id} |-> bound[i]]

Clear == bound' = Nothing

Next == (\E v \in Values : Insert(v)) \/ (\E id \in Ids : Erase(id)) \/ Clear

Spec == Init /\ [][Next]_bound
=============================================================================
