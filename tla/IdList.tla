------------------------------- MODULE IdList -------------------------------
(***************************************************************************)
(* The list with random access (common/src/raobjlist.h), from which the    *)
(* network takes its netids: m_registerTable is one, found by netid in     *)
(* Network::send and walked from beg() to end() in Network::dispatch.      *)
(*                                                                         *)
(* Indices that were erased wait in a queue to be used again; m_beg and    *)
(* m_end are kept at the bounds of the indices in use, so that a walk is   *)
(* short.  Every call is made under Network::m_rwlock and is one step here.*)
(***************************************************************************)
EXTENDS Naturals, Sequences, FiniteSets

CONSTANTS
  Values,    \* what is put into the list
  MaxIds     \* bound: how many indices the vectors may ever have

ASSUME IdListAssumption == MaxIds \in Nat

VARIABLES
  grown,     \* m_obj.size() and m_obj_use.size()
  obj,       \* m_obj; an erased object leaves its bytes behind
  used,      \* m_obj_use: the indices in use
  recovery,  \* m_recovery_id: the indices to be used again
  beg,       \* m_beg.m_index
  end,       \* m_end.m_index
  size,      \* m_size
  cleared    \* bound: whether clear() was called

bounds == <<beg, end>>
idListVars == <<grown, obj, used, recovery, bounds, size, cleared>>

Ids == 0 .. MaxIds - 1

Nothing == [i \in {} |-> i]

IdListInit ==
  /\ grown = 0
  /\ obj = Nothing
  /\ used = {}
  /\ recovery = <<>>
  /\ beg = 0
  /\ end = 0
  /\ size = 0
  /\ cleared = FALSE
-----------------------------------------------------------------------------
(* insert *)

\* Mutant: the first element after the list was empty moves only the end.
WidenKeepsBeg(index) ==
  /\ beg' = IF beg > index THEN index ELSE beg
  /\ end' = IF end <= index THEN index + 1 ELSE end

\* The bounds take in index.  Bounds that meet are those of an empty list.
Widen(index) ==
  IF beg = end
    THEN beg' = index /\ end' = index + 1
    ELSE /\ beg' = IF beg > index THEN index ELSE beg
         /\ end' = IF end <= index THEN index + 1 ELSE end

\* No index waits to be used again: the vectors grow.
InsertNew(v) ==
  /\ recovery = <<>>
  /\ grown < MaxIds
  /\ grown' = grown + 1
  /\ obj' = [i \in 0 .. grown |-> IF i = grown THEN v ELSE obj[i]]
  /\ used' = used \cup {grown}
  /\ Widen(grown)
  /\ size' = size + 1
  /\ UNCHANGED <<recovery, cleared>>

\* Mutant: the index is looked at and left in the queue.
InsertAgainPeeks(v) ==
  /\ recovery # <<>>
  /\ obj' = [obj EXCEPT ![Head(recovery)] = v]
  /\ used' = used \cup {Head(recovery)}
  /\ Widen(Head(recovery))
  /\ size' = size + 1
  /\ UNCHANGED <<grown, recovery, cleared>>

\* The index that has been free for longest is used again.
InsertAgain(v) ==
  /\ recovery # <<>>
  /\ obj' = [obj EXCEPT ![Head(recovery)] = v]
  /\ used' = used \cup {Head(recovery)}
  /\ recovery' = Tail(recovery)
  /\ Widen(Head(recovery))
  /\ size' = size + 1
  /\ UNCHANGED <<grown, cleared>>
-----------------------------------------------------------------------------
(* erase *)

\* Where a search that goes up from the erased index stops: the next index in
\* use, or m_end, or the end of the vectors; and where one that goes down stops.
Upwards(index) ==
  {i \in index .. grown :
     /\ i \in used \ {index} \/ i = end \/ i = grown
     /\ \A j \in index .. i - 1 : j \notin used \ {index} /\ j # end}
Downwards(index, first) ==
  {i \in 0 .. index :
     /\ i \in used \ {index} \/ i = first
     /\ \A j \in i + 1 .. index : j \notin used \ {index} /\ j # first}

\* Mutant: the lower bound only moves up to the next index.
NarrowByOne(index) ==
  /\ beg' = IF beg = index THEN index + 1 ELSE beg
  /\ IF end = index + 1 /\ beg' # end
       THEN \E i \in Downwards(index, beg') : end' = i + 1
       ELSE end' = end

\* The bounds give way if index was at one of them.
Narrow(index) ==
  /\ IF beg = index
       THEN \E i \in Upwards(index) : beg' = i
       ELSE beg' = beg
  /\ IF end = index + 1 /\ beg' # end
       THEN \E i \in Downwards(index, beg') : end' = i + 1
       ELSE end' = end

\* An index that is not in use is left alone.
Erase(index) ==
  /\ index < grown /\ index \in used
  /\ used' = used \ {index}
  /\ recovery' = Append(recovery, index)
  /\ Narrow(index)
  /\ size' = size - 1
  /\ UNCHANGED <<grown, obj, cleared>>

\* clear() leaves m_size as it is.  Nobody calls it; once is enough here.
Clear ==
  /\ ~cleared
  /\ cleared' = TRUE
  /\ grown' = 0
  /\ obj' = Nothing
  /\ used' = {}
  /\ recovery' = <<>>
  /\ beg' = 0
  /\ end' = 0
  /\ UNCHANGED size
-----------------------------------------------------------------------------
IdListNext ==
  \/ \E v \in Values : InsertNew(v) \/ InsertAgain(v)
  \/ \E index \in Ids : Erase(index)
  \/ Clear

IdListSpec == IdListInit /\ [][IdListNext]_idListVars
-----------------------------------------------------------------------------
(* find and the walk *)

\* The iterator find() returns; it is m_end for an index that is not in use.
Find(index) == IF index < grown /\ index \in used THEN index ELSE end

\* operator++ from index: on to the next index in use, or to m_end.
After(index) ==
  {i \in index + 1 .. end :
     (i = end \/ i \in used) /\ \A j \in index + 1 .. i - 1 : j \notin used}
-----------------------------------------------------------------------------
IdListTypeOK ==
  /\ grown \in 0 .. MaxIds
  /\ obj \in [0 .. grown - 1 -> Values]
  /\ used \subseteq 0 .. grown - 1
  /\ recovery \in Seq(0 .. grown - 1)
  /\ beg \in 0 .. MaxIds
  /\ end \in 0 .. MaxIds
  /\ size \in Nat
  /\ cleared \in BOOLEAN

\* The bounds are exact after any insertions and erasures: the first is in use,
\* so is the one before the last, and none in use is outside; they meet when the
\* list is empty (insert, erase).
BoundsExact ==
  /\ used \subseteq beg .. end - 1
  /\ used # {} => beg \in used /\ end - 1 \in used
  /\ used = {} => beg = end

\* An index is in use, or waits once to be used again: none leaks, and none is
\* ever given to two handlers at a time (insert, erase).
FreeWaitsOnce ==
  /\ \A k, l \in DOMAIN recovery : recovery[k] = recovery[l] => k = l
  /\ {recovery[k] : k \in DOMAIN recovery} = (0 .. grown - 1) \ used

\* A walk from m_beg by operator++ meets the indices in use and no other, in their
\* order, and comes to m_end: dispatch() passes over no handler.
Walk ==
  LET from[i \in beg .. end] ==
        IF i = end THEN <<>> ELSE <<i>> \o from[CHOOSE j \in After(i) : TRUE]
  IN from[beg]
WalkMeetsAll ==
  /\ {Walk[k] : k \in DOMAIN Walk} = used
  /\ \A k \in 1 .. Len(Walk) - 1 : Walk[k] < Walk[k + 1]

\* What send() finds by a netid is the value last inserted under it; find() answers
\* m_end for everything else, and m_end is never an index in use.
Contents == [i \in {j \in Ids : Find(j) # end} |-> obj[i]]
Map == INSTANCE IdMap WITH bound <- Contents
ImplementsIdMap == Map!Spec

IdListInv == IdListTypeOK /\ BoundsExact /\ FreeWaitsOnce
=============================================================================
