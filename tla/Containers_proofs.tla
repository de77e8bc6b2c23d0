-------------------------- MODULE Containers_proofs --------------------------
(***************************************************************************)
(* Proofs about the two containers of the common library.                  *)
(*                                                                         *)
(* ThreadQueue, for any finite set of threads and any size: no element is  *)
(* read before it is complete or written over, and the ring implements     *)
(* Fifo.                                                                   *)
(*                                                                         *)
(* IdList, for any values and any number of indices: the bounds are exact, *)
(* no index leaks or is given out twice, a walk meets every index in use,  *)
(* and the list implements IdMap.                                          *)
(***************************************************************************)
EXTENDS ThreadQueue, IdList, TLAPS, FiniteSetTheorems, SequenceTheorems,
        WellFoundedInduction
-----------------------------------------------------------------------------
(* ThreadQueue *)

(* Counting threads *)

LEMMA Enters ==
  ASSUME NEW S, IsFiniteSet(S), NEW x, x \notin S
  PROVE  Cardinality(S \cup {x}) = Cardinality(S) + 1
BY FS_AddElement

LEMMA Leaves ==
  ASSUME NEW S, IsFiniteSet(S), NEW x \in S
  PROVE  /\ Cardinality(S \ {x}) = Cardinality(S) - 1
         /\ Cardinality(S) > 0
<1>1. Cardinality(S) \in Nat /\ Cardinality(S) # 0
  BY FS_CardinalityType, FS_EmptySet
<1> QED
  BY <1>1, FS_RemoveElement

\* The four sets of threads in the middle of a call are finite.
LEMMA Finite ==
  /\ IsFiniteSet(admitted) /\ Cardinality(admitted) \in Nat
  /\ IsFiniteSet(announcing) /\ Cardinality(announcing) \in Nat
  /\ IsFiniteSet(taking) /\ Cardinality(taking) \in Nat
  /\ IsFiniteSet(returning) /\ Cardinality(returning) \in Nat
  /\ Size \in Nat \ {0} /\ SemMax \in Nat /\ Size <= SemMax
<1>1. /\ admitted \in SUBSET Producers /\ announcing \in SUBSET Producers
      /\ taking \in SUBSET Consumers /\ returning \in SUBSET Consumers
  BY DEF admitted, announcing, taking, returning
<1>2. /\ IsFiniteSet(Producers) /\ IsFiniteSet(Consumers)
      /\ Size \in Nat \ {0} /\ SemMax \in Nat /\ Size <= SemMax
  BY ThreadQueueAssumption
<1>3. IsFiniteSet(admitted) /\ IsFiniteSet(announcing)
  BY <1>1, <1>2, FS_Subset
<1>4. IsFiniteSet(taking) /\ IsFiniteSet(returning)
  BY <1>1, <1>2, FS_Subset
<1> QED
  BY <1>2, <1>3, <1>4, FS_CardinalityType
-----------------------------------------------------------------------------
(* Going round the ring *)

\* An index less than one round ahead stays in the ring.
LEMMA WrapInRing ==
  \A h \in Slots, k \in Slots : Wrap(h + k) \in Slots
BY ThreadQueueAssumption DEF Slots, Wrap, m_size

\* Within one round no slot is met twice.
LEMMA WrapInjective ==
  \A h \in Slots, j \in Slots, k \in Slots : Wrap(h + j) = Wrap(h + k) => j = k
BY ThreadQueueAssumption DEF Slots, Wrap, m_size

\* One step further from the head is one step nearer from the next head.
LEMMA WrapNext ==
  \A h \in Slots :
     /\ Wrap(h + 1) \in Slots
     /\ Wrap(h + 0) = h
     /\ Wrap(Wrap(h + 1) + Size) = h
     /\ \A k \in 0 .. Size - 1 : Wrap(Wrap(h + 1) + k) = Wrap(h + (k + 1))
     /\ \A k \in 0 .. Size - 1 : Wrap(Wrap(h + k) + 1) = Wrap(h + (k + 1))
BY ThreadQueueAssumption DEF Slots, Wrap, m_size

\* The numbers the invariant speaks of.
LEMMA Numbers ==
  ASSUME IInv
  PROVE  /\ Len(put) \in Nat /\ Len(taken) \in Nat
         /\ Held \in 0 .. Size /\ Size \in Nat
         /\ head \in Slots /\ tail \in Slots
         /\ tail = Wrap(head + Held)
         /\ wsem \in Nat /\ rsem \in Nat
BY LenProperties, Finite DEF IInv, TypeOK, TailAhead
-----------------------------------------------------------------------------
(* The initial state *)

LEMMA InitInv == Init => IInv
<1> SUFFICES ASSUME Init PROVE IInv
  OBVIOUS
<1> USE ThreadQueueAssumption DEF Init
<1>1. TypeOK
  BY DEF TypeOK, Slots, SlotValues
<1>2. Held = 0
  BY DEF Held
<1>3. /\ admitted = {} /\ announcing = {} /\ taking = {} /\ returning = {}
  BY DEF admitted, announcing, taking, returning
<1>4. Cardinality({}) = 0
  BY FS_EmptySet
<1>5. FreeSlotsCounted /\ FilledSlotsCounted
  BY <1>2, <1>3, <1>4 DEF FreeSlotsCounted, FilledSlotsCounted
<1>6. TailAhead /\ SlotsFilled
  BY <1>2 DEF TailAhead, SlotsFilled, Wrap, m_size
<1>7. SlotsRaw
  BY <1>2 DEF SlotsRaw, Wrap, m_size, wlockFree, Slots
<1> QED
  BY <1>1, <1>5, <1>6, <1>7 DEF IInv, Exclusive, ElementMade
-----------------------------------------------------------------------------
(* Push *)

LEMMA PushWaitInv ==
  ASSUME IInv, NEW p \in Producers, PushWait(p)
  PROVE  IInv'
<1> USE DEF PushWait
<1>1. TypeOK'
  BY ThreadQueueAssumption DEF IInv, TypeOK
<1>2. /\ admitted' = admitted \cup {p} /\ p \notin admitted
      /\ announcing' = announcing /\ taking' = taking /\ returning' = returning
      /\ Held' = Held
  BY DEF IInv, TypeOK, admitted, announcing, taking, returning, Held
<1>3. Cardinality(admitted') = Cardinality(admitted) + 1
  BY <1>2, Finite, Enters
<1>4. (FreeSlotsCounted /\ FilledSlotsCounted)'
  BY <1>2, <1>3, Finite, Numbers DEF IInv, FreeSlotsCounted, FilledSlotsCounted
<1>5. wlockFree' = wlockFree
  BY DEF IInv, TypeOK, wlockFree
<1>6. (Exclusive /\ TailAhead /\ SlotsFilled /\ SlotsRaw)'
  BY <1>2, <1>5 DEF IInv, TypeOK, Exclusive, TailAhead, SlotsFilled, SlotsRaw
<1>7. ElementMade'
  BY ThreadQueueAssumption DEF IInv, TypeOK, ElementMade
<1> QED
  BY <1>1, <1>4, <1>6, <1>7 DEF IInv

LEMMA TryPushFailsInv ==
  ASSUME IInv, NEW p \in Producers, TryPushFails(p)
  PROVE  IInv'
<1> USE DEF TryPushFails
<1>1. TypeOK' /\ ElementMade'
  BY ThreadQueueAssumption DEF IInv, TypeOK, ElementMade
<1>2. (FreeSlotsCounted /\ FilledSlotsCounted)'
  BY DEF IInv, FreeSlotsCounted, FilledSlotsCounted, Held,
         admitted, announcing, taking, returning
<1>3. (Exclusive /\ TailAhead /\ SlotsFilled /\ SlotsRaw)'
  BY DEF IInv, Exclusive, TailAhead, SlotsFilled, SlotsRaw, wlockFree, Held
<1> QED
  BY <1>1, <1>2, <1>3 DEF IInv

\* A producer that was let in finds room: the element it adds fits the ring.
LEMMA RoomForAdmitted ==
  ASSUME IInv, NEW p \in Producers, ppc[p] \in {"lock", "write"}
  PROVE  Held < Size
<1>1. Cardinality(admitted) > 0
  BY Finite, Leaves DEF admitted
<1> QED
  BY <1>1, Finite, Numbers DEF IInv, FreeSlotsCounted

LEMMA PushLockInv ==
  ASSUME IInv, NEW p \in Producers, PushLock(p)
  PROVE  IInv'
<1> USE DEF PushLock
<1>1. Held' = Held /\ Held < Size /\ Held \in Slots
  BY RoomForAdmitted, Numbers, ThreadQueueAssumption DEF Held, Slots
<1>2. TypeOK'
  BY Numbers DEF IInv, TypeOK, SlotValues
<1>3. /\ admitted' = admitted /\ announcing' = announcing
      /\ taking' = taking /\ returning' = returning
  BY DEF IInv, TypeOK, admitted, announcing, taking, returning
<1>4. (FreeSlotsCounted /\ FilledSlotsCounted)'
  BY <1>1, <1>3 DEF IInv, FreeSlotsCounted, FilledSlotsCounted
<1>5. (Exclusive /\ TailAhead /\ ElementMade)'
  BY <1>1 DEF IInv, TypeOK, Exclusive, TailAhead, ElementMade, wlockFree
<1>6. \A k \in Slots : k # Held => slot'[Wrap(head + k)] = slot[Wrap(head + k)]
  BY <1>1, Numbers, WrapInRing, WrapInjective DEF IInv, TypeOK
<1>7. slot'[Wrap(head + Held)] = Torn
  BY <1>1, Numbers DEF IInv, TypeOK
<1>8. SlotsFilled'
  <2>1. \A k \in 0 .. Held - 1 : k \in Slots /\ k # Held
    BY <1>1, Numbers DEF Slots
  <2> QED
    BY <1>1, <1>6, <2>1 DEF IInv, SlotsFilled
<1>9. SlotsRaw'
  <2>1. wlockFree /\ ~wlockFree'
    BY DEF wlockFree, IInv, TypeOK
  <2> QED
    BY <1>1, <1>6, <1>7, <2>1, Numbers DEF IInv, SlotsRaw, Slots
<1> QED
  BY <1>2, <1>4, <1>5, <1>8, <1>9 DEF IInv

LEMMA PushWriteInv ==
  ASSUME IInv, NEW p \in Producers, PushWrite(p)
  PROVE  IInv'
<1> USE DEF PushWrite
<1>1. Offered(p) \in Elements
  <2>1. made[p] \in 0 .. MaxPuts /\ made[p] > 0
    BY DEF IInv, TypeOK, ElementMade
  <2> QED
    BY <2>1, ThreadQueueAssumption DEF Offered, Elements
<1>2. /\ Len(put') = Len(put) + 1
      /\ put'[Len(put) + 1] = Offered(p)
      /\ \A k \in 1 .. Len(put) : put'[k] = put[k]
  BY <1>1, AppendProperties DEF IInv, TypeOK
<1>3. Held' = Held + 1 /\ Held < Size /\ Held \in Slots
  BY <1>2, RoomForAdmitted, Numbers, ThreadQueueAssumption DEF Held, Slots
<1>4. TypeOK'
  BY <1>1, Numbers, WrapNext DEF IInv, TypeOK, SlotValues
<1>5. /\ admitted' = admitted \ {p} /\ p \in admitted
      /\ announcing' = announcing \cup {p} /\ p \notin announcing
      /\ taking' = taking /\ returning' = returning
  BY DEF IInv, TypeOK, admitted, announcing, taking, returning
<1>6. /\ Cardinality(admitted') = Cardinality(admitted) - 1
      /\ Cardinality(announcing') = Cardinality(announcing) + 1
  BY <1>5, Finite, Enters, Leaves
<1>7. (FreeSlotsCounted /\ FilledSlotsCounted)'
  <2>1. FreeSlotsCounted'
    BY <1>3, <1>5, <1>6, Finite, Numbers, SMTT(20) DEF IInv, FreeSlotsCounted
  <2>2. FilledSlotsCounted'
    BY <1>3, <1>5, <1>6, Finite, Numbers, SMTT(20) DEF IInv, FilledSlotsCounted
  <2> QED
    BY <2>1, <2>2
<1>8. TailAhead'
  <2>1. Held \in 0 .. Size - 1 /\ Held + 1 \in 0 .. Size
    BY <1>3, Numbers
  <2>2. tail' = Wrap(Wrap(head + Held) + 1)
    BY Numbers
  <2>3. @ = Wrap(head + (Held + 1))
    BY <2>1, Numbers, WrapNext
  <2> QED
    BY <1>3, <2>1, <2>2, <2>3 DEF TailAhead
<1>9. (Exclusive /\ ElementMade)' /\ wlockFree'
  BY DEF IInv, TypeOK, Exclusive, ElementMade, wlockFree
<1>10. \A k \in Slots : k # Held => slot'[Wrap(head + k)] = slot[Wrap(head + k)]
  BY <1>3, Numbers, WrapInRing, WrapInjective DEF IInv, TypeOK
<1>11. slot'[Wrap(head + Held)] = Offered(p)
  BY <1>3, Numbers DEF IInv, TypeOK
<1>12. SlotsFilled'
  <2> SUFFICES ASSUME NEW k \in 0 .. Held
               PROVE  slot'[Wrap(head + k)] = put'[Len(taken) + 1 + k]
    <3>1. Held' - 1 = Held
      BY <1>3, Numbers
    <3> QED
      BY <3>1 DEF SlotsFilled
  <2>1. CASE k = Held
    <3>1. Len(taken) + 1 + k = Len(put) + 1
      BY <2>1, Numbers DEF Held
    <3> QED
      BY <3>1, <2>1, <1>2, <1>11, Zenon
  <2>2. CASE k < Held
    <3>1. /\ k \in Slots /\ k # Held /\ k \in 0 .. Held - 1
          /\ Len(taken) + 1 + k \in 1 .. Len(put)
      BY <2>2, Numbers DEF Held, Slots
    <3>2. slot[Wrap(head + k)] = put[Len(taken) + 1 + k]
      BY <3>1 DEF IInv, SlotsFilled
    <3>3. put'[Len(taken) + 1 + k] = put[Len(taken) + 1 + k]
      BY <3>1, <1>2, Zenon
    <3>4. slot'[Wrap(head + k)] = slot[Wrap(head + k)]
      BY <3>1, <1>10
    <3> QED
      BY <3>2, <3>3, <3>4, Zenon
  <2>3. k = Held \/ k < Held
    BY Numbers
  <2> QED
    BY <2>1, <2>2, <2>3, Zenon
<1>13. SlotsRaw'
  <2> SUFFICES ASSUME NEW k \in Held + 1 .. Size
               PROVE  slot'[Wrap(head + k)] = Raw
    BY <1>3, <1>9 DEF SlotsRaw
  <2>1. k \in Slots /\ k # Held /\ k \in Held .. Size
    BY <1>3, Numbers DEF Slots
  <2> QED
    BY <2>1, <1>10 DEF IInv, SlotsRaw
<1> QED
  BY <1>4, <1>7, <1>8, <1>9, <1>12, <1>13 DEF IInv

LEMMA PushPostInv ==
  ASSUME IInv, NEW p \in Producers, PushPost(p)
  PROVE  IInv'
<1> USE DEF PushPost
<1>1. /\ announcing' = announcing \ {p} /\ p \in announcing
      /\ admitted' = admitted /\ taking' = taking /\ returning' = returning
      /\ Held' = Held
  BY DEF IInv, TypeOK, admitted, announcing, taking, returning, Held
<1>2. /\ Cardinality(announcing') = Cardinality(announcing) - 1
      /\ Cardinality(announcing) > 0
  BY <1>1, Finite, Leaves
<1>3. rsem < Size /\ rsem' = rsem + 1
  \* The element to announce is one of those held, so the count has room.
  BY <1>2, Finite, Numbers, SMTT(20) DEF IInv, FilledSlotsCounted, Posted
<1>4. TypeOK'
  BY <1>3, Finite, Numbers DEF IInv, TypeOK
<1>5. (FreeSlotsCounted /\ FilledSlotsCounted)'
  BY <1>1, <1>2, <1>3, Finite, Numbers, SMTT(20) DEF IInv, FreeSlotsCounted, FilledSlotsCounted
<1>6. wlockFree' = wlockFree
  BY DEF IInv, TypeOK, wlockFree
<1>7. (Exclusive /\ TailAhead /\ SlotsFilled /\ SlotsRaw /\ ElementMade)'
  BY <1>1, <1>6 DEF IInv, TypeOK, Exclusive, TailAhead, SlotsFilled, SlotsRaw, ElementMade
<1> QED
  BY <1>4, <1>5, <1>7 DEF IInv
-----------------------------------------------------------------------------
(* Pop *)

LEMMA PopWaitInv ==
  ASSUME IInv, NEW c \in Consumers, PopWait(c)
  PROVE  IInv'
<1> USE DEF PopWait
<1>1. TypeOK'
  BY ThreadQueueAssumption DEF IInv, TypeOK
<1>2. /\ taking' = taking \cup {c} /\ c \notin taking
      /\ admitted' = admitted /\ announcing' = announcing /\ returning' = returning
      /\ Held' = Held
  BY DEF IInv, TypeOK, admitted, announcing, taking, returning, Held
<1>3. Cardinality(taking') = Cardinality(taking) + 1
  BY <1>2, Finite, Enters
<1>4. (FreeSlotsCounted /\ FilledSlotsCounted)'
  BY <1>2, <1>3, Finite, Numbers DEF IInv, FreeSlotsCounted, FilledSlotsCounted
<1>5. (Exclusive /\ TailAhead /\ SlotsFilled /\ SlotsRaw /\ ElementMade)'
  BY <1>2 DEF IInv, TypeOK, Exclusive, TailAhead, SlotsFilled, SlotsRaw, ElementMade,
              wlockFree
<1> QED
  BY <1>1, <1>4, <1>5 DEF IInv

LEMMA PopLockInv ==
  ASSUME IInv, NEW c \in Consumers, PopLock(c)
  PROVE  IInv'
<1> USE DEF PopLock
<1>1. TypeOK'
  BY DEF IInv, TypeOK
<1>2. /\ admitted' = admitted /\ announcing' = announcing
      /\ taking' = taking /\ returning' = returning /\ Held' = Held
  BY DEF IInv, TypeOK, admitted, announcing, taking, returning, Held
<1>3. (FreeSlotsCounted /\ FilledSlotsCounted)'
  BY <1>2 DEF IInv, FreeSlotsCounted, FilledSlotsCounted
<1>4. (Exclusive /\ TailAhead /\ SlotsFilled /\ SlotsRaw /\ ElementMade)'
  BY <1>2 DEF IInv, TypeOK, Exclusive, TailAhead, SlotsFilled, SlotsRaw, ElementMade,
              wlockFree, rlockFree
<1> QED
  BY <1>1, <1>3, <1>4 DEF IInv

\* A consumer that was let in finds an element, and it is the oldest one.
LEMMA ElementForTaker ==
  ASSUME IInv, NEW c \in Consumers, cpc[c] \in {"lock", "read"}
  PROVE  /\ Held > 0
         /\ Len(taken) + 1 \in 1 .. Len(put)
         /\ slot[head] = put[Len(taken) + 1]
         /\ slot[head] \in Elements
<1>1. Cardinality(taking) > 0
  BY Finite, Leaves DEF taking
<1>2. Held > 0
  BY <1>1, Finite, Numbers DEF IInv, FilledSlotsCounted
<1>3. Len(taken) + 1 \in 1 .. Len(put) /\ 0 \in 0 .. Held - 1
  BY <1>2, Numbers DEF Held
<1>4. slot[Wrap(head + 0)] = put[Len(taken) + 1 + 0]
  BY <1>3 DEF IInv, SlotsFilled
<1>5. slot[head] = put[Len(taken) + 1]
  BY <1>4, WrapNext, Numbers
<1>6. put[Len(taken) + 1] \in Elements
  BY <1>3, ElementOfSeq DEF IInv, TypeOK
<1> QED
  BY <1>2, <1>3, <1>5, <1>6

LEMMA PopReadInv ==
  ASSUME IInv, NEW c \in Consumers, PopRead(c)
  PROVE  IInv'
<1> USE DEF PopRead
<1>1. slot[head] \in Elements /\ Held > 0
  BY ElementForTaker
<1>2. Len(taken') = Len(taken) + 1 /\ taken' \in Seq(SlotValues)
  BY <1>1, AppendProperties DEF IInv, TypeOK, SlotValues
<1>3. Held' = Held - 1
  BY <1>2, Numbers DEF Held
<1>4. TypeOK'
  BY <1>2, Numbers, WrapNext DEF IInv, TypeOK, SlotValues
<1>5. /\ taking' = taking \ {c} /\ c \in taking
      /\ returning' = returning \cup {c} /\ c \notin returning
      /\ admitted' = admitted /\ announcing' = announcing
  BY DEF IInv, TypeOK, admitted, announcing, taking, returning
<1>6. /\ Cardinality(taking') = Cardinality(taking) - 1
      /\ Cardinality(returning') = Cardinality(returning) + 1
  BY <1>5, Finite, Enters, Leaves
<1>7. (FreeSlotsCounted /\ FilledSlotsCounted)'
  <2>1. FreeSlotsCounted'
    BY <1>3, <1>5, <1>6, Finite, Numbers, SMTT(20) DEF IInv, FreeSlotsCounted
  <2>2. FilledSlotsCounted'
    BY <1>3, <1>5, <1>6, Finite, Numbers, SMTT(20) DEF IInv, FilledSlotsCounted
  <2> QED
    BY <2>1, <2>2
<1>8. Held \in 1 .. Size /\ Size \in Nat
  BY <1>1, Numbers, Finite
<1>9. \A k \in 0 .. Size - 1 : Wrap(head' + k) = Wrap(head + (k + 1))
  BY Numbers, WrapNext
<1>10. TailAhead'
  <2>1. Held - 1 \in 0 .. Size - 1 /\ Held' = Held - 1
    BY <1>3, <1>8
  <2>2. Wrap(head' + (Held - 1)) = Wrap(head + Held)
    BY <1>8, <1>9, <2>1
  <2> QED
    BY <2>1, <2>2, <1>8, Numbers DEF TailAhead
<1>11. (Exclusive /\ ElementMade)' /\ wlockFree' = wlockFree
  BY DEF IInv, TypeOK, Exclusive, ElementMade, wlockFree
<1>12. \A k \in 0 .. Size - 1 : slot'[Wrap(head + (k + 1))] = slot[Wrap(head + (k + 1))]
  <2> TAKE k \in 0 .. Size - 1
  <2>1. k + 1 \in Slots /\ 0 \in Slots /\ k + 1 # 0
    BY <1>8 DEF Slots
  <2>2. Wrap(head + (k + 1)) # head
    BY <2>1, Numbers, WrapInjective, WrapNext
  <2> QED
    BY <2>1, <2>2, Numbers, WrapInRing DEF IInv, TypeOK
<1>13. SlotsFilled'
  <2> SUFFICES ASSUME NEW k \in 0 .. Held - 2
               PROVE  slot'[Wrap(head' + k)] = put[Len(taken') + 1 + k]
    BY <1>3, Numbers DEF SlotsFilled
  <2>1. k \in 0 .. Size - 1 /\ k + 1 \in 0 .. Held - 1
    BY <1>8
  <2>2. slot'[Wrap(head' + k)] = slot[Wrap(head + (k + 1))]
    BY <2>1, <1>9, <1>12
  <2>3. slot[Wrap(head + (k + 1))] = put[Len(taken) + 1 + (k + 1)]
    BY <2>1 DEF IInv, SlotsFilled
  <2>4. Len(taken') + 1 + k = Len(taken) + 1 + (k + 1)
    BY <1>2, Numbers
  <2> QED
    BY <2>2, <2>3, <2>4
<1>14. SlotsRaw'
  <2> SUFFICES ASSUME NEW k \in Held - 1 .. Size
               PROVE  slot'[Wrap(head' + k)]
                        = IF k = Held - 1 /\ ~wlockFree THEN Torn ELSE Raw
    BY <1>3, <1>11 DEF SlotsRaw
  <2>1. CASE k = Size
    <3>1. Wrap(head' + k) = head
      BY <2>1, Numbers, WrapNext
    <3>2. k # Held - 1
      BY <2>1, <1>8
    <3> QED
      BY <3>1, <3>2, Numbers DEF IInv, TypeOK
  <2>2. CASE k < Size
    <3>1. k \in 0 .. Size - 1 /\ k + 1 \in Held .. Size /\ (k = Held - 1 <=> k + 1 = Held)
      BY <2>2, <1>8
    <3>2. slot'[Wrap(head' + k)] = slot[Wrap(head + (k + 1))]
      BY <3>1, <1>9, <1>12
    <3> QED
      BY <3>1, <3>2 DEF IInv, SlotsRaw
  <2> QED
    BY <2>1, <2>2, <1>8
<1> QED
  BY <1>4, <1>7, <1>10, <1>11, <1>13, <1>14 DEF IInv

LEMMA PopPostInv ==
  ASSUME IInv, NEW c \in Consumers, PopPost(c)
  PROVE  IInv'
<1> USE DEF PopPost
<1>1. /\ returning' = returning \ {c} /\ c \in returning
      /\ admitted' = admitted /\ announcing' = announcing /\ taking' = taking
      /\ Held' = Held
  BY DEF IInv, TypeOK, admitted, announcing, taking, returning, Held
<1>2. /\ Cardinality(returning') = Cardinality(returning) - 1
      /\ Cardinality(returning) > 0
  BY <1>1, Finite, Leaves
<1>3. wsem < Size /\ wsem' = wsem + 1
  BY <1>2, Finite, Numbers, SMTT(20) DEF IInv, FreeSlotsCounted, Posted
<1>4. TypeOK'
  BY <1>3, Finite, Numbers DEF IInv, TypeOK
<1>5. (FreeSlotsCounted /\ FilledSlotsCounted)'
  <2>1. wsem + Cardinality(admitted) + Held + Cardinality(returning) = Size
    BY DEF IInv, FreeSlotsCounted
  <2>2. (wsem + 1) + Cardinality(admitted) + Held + (Cardinality(returning) - 1) = Size
    BY <2>1, Finite, Numbers, SMTT(20)
  <2>3. FreeSlotsCounted'
    BY <1>1, <1>2, <1>3, <2>2 DEF FreeSlotsCounted
  <2>4. FilledSlotsCounted'
    BY <1>1 DEF IInv, FilledSlotsCounted
  <2> QED
    BY <2>3, <2>4
<1>6. (Exclusive /\ TailAhead /\ SlotsFilled /\ SlotsRaw /\ ElementMade)'
  BY <1>1 DEF IInv, TypeOK, Exclusive, TailAhead, SlotsFilled, SlotsRaw, ElementMade,
              wlockFree
<1> QED
  BY <1>4, <1>5, <1>6 DEF IInv
-----------------------------------------------------------------------------
(* The theorems *)

LEMMA StutterInv ==
  ASSUME IInv, UNCHANGED vars
  PROVE  IInv'
BY DEF IInv, vars, TypeOK, Exclusive, FreeSlotsCounted, FilledSlotsCounted, TailAhead,
       SlotsFilled, SlotsRaw, ElementMade, Held, admitted, announcing, taking, returning,
       wlockFree

\* The inductive invariant holds in every state of every execution.
THEOREM Invariant == Spec => []IInv
<1>1. IInv /\ [Next]_vars => IInv'
  BY PushWaitInv, TryPushFailsInv, PushLockInv, PushWriteInv, PushPostInv, PopWaitInv,
     PopLockInv, PopReadInv, PopPostInv, StutterInv DEF Next, Push, Pop
<1> QED
  BY InitInv, <1>1, PTL DEF Spec

\* The indices stay in the ring and the semaphores within its size, so that no
\* post is ever refused.
THEOREM TypeCorrect == Spec => []TypeOK
<1>1. IInv => TypeOK
  BY DEF IInv
<1> QED
  BY Invariant, <1>1, PTL

\* A pop never reads a slot that a push is still filling, though the two ends of
\* the ring have a lock each.
THEOREM ReadsComplete == Spec => []NoTornRead
<1>1. IInv => NoTornRead
  BY ElementForTaker DEF NoTornRead
<1> QED
  BY Invariant, <1>1, PTL

\* A push never constructs over an element that has not been popped.
THEOREM WritesToRaw == Spec => []NoOverwrite
<1>1. ASSUME IInv PROVE NoOverwrite
  <2> SUFFICES ASSUME wlockFree, NEW p \in Producers, ppc[p] = "lock"
               PROVE  slot[tail] = Raw
    BY DEF NoOverwrite
  <2>1. Held \in Held .. Size
    BY <1>1, Numbers, Finite
  <2> QED
    BY <1>1, <2>1, Numbers DEF IInv, SlotsRaw
<1> QED
  BY Invariant, <1>1, PTL

\* The ring implements a first-in first-out queue of any number of producers
\* and consumers: every element pushed is popped at most once and in its turn.
THEOREM Refinement == Spec => ImplementsFifo
<1>1. Init => Queue!Init
  BY DEF Init, Queue!Init
<1>2. ASSUME IInv, [Next]_vars
      PROVE  [Queue!Next]_Queue!vars
  <2>1. ASSUME NEW p \in Producers, PushWrite(p)
        PROVE  Queue!Next
    <3>1. made[p] \in 0 .. MaxPuts /\ made[p] > 0 /\ MaxPuts \in Nat
      BY <1>2, <2>1, ThreadQueueAssumption DEF IInv, TypeOK, ElementMade, PushWrite
    <3>2. Offered(p) \in Elements
      BY <3>1 DEF Elements, Offered
    <3> QED
      BY <2>1, <3>2 DEF PushWrite, Queue!Put, Queue!Next
  <2>2. ASSUME NEW c \in Consumers, PopRead(c)
        PROVE  Queue!Next
    <3>1. /\ Len(taken) + 1 \in 1 .. Len(put)
          /\ slot[head] = put[Len(taken) + 1]
      BY <1>2, <2>2, ElementForTaker DEF PopRead
    <3>2. Len(taken) < Len(put)
      BY <1>2, <3>1, Numbers
    <3> QED
      BY <2>2, <3>1, <3>2 DEF PopRead, Queue!Take, Queue!Next
  <2>3. CASE UNCHANGED <<put, taken>>
    BY <2>3 DEF Queue!vars
  <2> QED
    BY <1>2, <2>1, <2>2, <2>3 DEF Next, Push, Pop, vars, PushWait, TryPushFails, PushLock,
       PushPost, PopWait, PopLock, PopPost
<1> QED
  BY Invariant, <1>1, <1>2, PTL DEF Spec, ImplementsFifo, Queue!Spec

-----------------------------------------------------------------------------
(* IdList *)

Counted == IsFiniteSet(used) /\ Cardinality(used) <= size

IdListInductive == IdListInv /\ Counted

\* Widening the bounds by an index keeps them exact.
LEMMA WidenExact ==
  ASSUME IdListTypeOK, BoundsExact,
         NEW index \in Nat, index \notin used, Widen(index), used' = used \cup {index}
  PROVE  BoundsExact' /\ beg' \in {beg, index} /\ end' \in {end, index + 1}
<1> USE DEF IdListTypeOK, BoundsExact, Widen
<1>1. CASE beg = end
  <2>1. used = {}
    BY <1>1
  <2> QED BY <1>1, <2>1
<1>2. CASE beg # end
  <2>1. used # {} /\ beg \in used /\ end - 1 \in used /\ used \subseteq beg .. end - 1
    BY <1>2
  <2>2. /\ beg' = IF beg > index THEN index ELSE beg
        /\ end' = IF end <= index THEN index + 1 ELSE end
    BY <1>2
  <2> QED BY <2>1, <2>2
<1> QED BY <1>1, <1>2

\* Narrowing the bounds by an erased index keeps them exact.
LEMMA NarrowExact ==
  ASSUME IdListTypeOK, BoundsExact,
         NEW index \in used, Narrow(index), used' = used \ {index}
  PROVE  BoundsExact' /\ beg' \in 0 .. grown /\ end' \in 0 .. grown
<1> DEFINE rest == used \ {index}
<1>1. /\ beg \in used /\ end - 1 \in used /\ used \subseteq beg .. end - 1
      /\ grown \in Nat /\ beg \in Nat /\ end \in Nat /\ used \subseteq 0 .. grown - 1
      /\ index \in Nat /\ end <= grown
  BY DEF IdListTypeOK, BoundsExact
<1>2. CASE beg = index
  <2>1. PICK i \in Upwards(index) : beg' = i
    BY <1>2 DEF Narrow
  <2>2. /\ beg' \in index .. grown
        /\ beg' \in rest \/ beg' = end \/ beg' = grown
        /\ \A j \in index .. beg' - 1 : j \notin rest /\ j # end
    BY <2>1 DEF Upwards
  <2> DEFINE first == beg'
  <2>0. first \in Nat /\ index <= first /\ first <= grown
    BY <1>1, <2>2
  <2>3. end > index
    BY <1>1
  <2>4. beg' <= end
    <3>1. SUFFICES ASSUME first > end PROVE FALSE
      BY <1>1, <2>0
    <3> HIDE DEF first
    <3>2. end \in index .. first - 1
      BY <1>1, <2>0, <2>3, <3>1
    <3> QED BY <2>2, <3>2 DEF first
  <2>5. beg' \in rest \/ beg' = end
    BY <1>1, <2>2, <2>4
  <2>6. CASE rest = {}
    <3>1. beg' = end
      BY <2>5, <2>6
    <3>2. end' = end
      BY <3>1 DEF Narrow
    <3>3. used' = {}
      BY <2>6
    <3>4. BoundsExact'
      BY <3>1, <3>2, <3>3 DEF BoundsExact
    <3> QED BY <1>1, <3>1, <3>2, <3>4
  <2>7. CASE rest # {}
    <3>1. PICK u \in rest : TRUE
      BY <2>7
    <3>2. u > index /\ u < end /\ u \in Nat
      BY <1>1, <1>2
    <3> HIDE DEF first
    <3>a. ASSUME NEW w \in rest PROVE first <= w
      <4>1. w \in Nat /\ index <= w
        BY <1>1, <1>2
      <4>2. w \notin index .. first - 1
        BY <2>2 DEF first
      <4> QED BY <2>0, <4>1, <4>2
    <3>3. beg' # end
      BY <2>0, <3>1, <3>2, <3>a DEF first
    <3>4. beg' \in rest
      BY <2>5, <3>3
    <3>5. end # index + 1
      BY <1>1, <3>2
    <3>6. end' = end
      BY <3>5 DEF Narrow
    <3>7. end - 1 \in rest
      BY <1>1, <3>5
    <3>8. rest \subseteq beg' .. end - 1
      BY <1>1, <2>0, <3>a DEF first
    <3> QED BY <1>1, <2>0, <2>2, <3>4, <3>6, <3>7, <3>8 DEF BoundsExact
  <2> QED BY <2>6, <2>7
<1>3. CASE beg # index
  <2>1. beg' = beg /\ beg \in rest /\ beg < index
    BY <1>1, <1>3 DEF Narrow
  <2>2. CASE end = index + 1
    <3>1. beg' # end
      BY <1>1, <2>1, <2>2
    <3>2. PICK i \in Downwards(index, beg') : end' = i + 1
      BY <2>2, <3>1 DEF Narrow
    <3>3. /\ i \in 0 .. index /\ i \in rest
          /\ \A j \in i + 1 .. index : j \notin rest
      BY <2>1, <3>2 DEF Downwards
    <3>4. rest \subseteq beg .. i
      BY <1>1, <2>2, <3>3
    <3> QED BY <1>1, <2>1, <3>2, <3>3, <3>4 DEF BoundsExact
  <2>3. CASE end # index + 1
    <3>1. end' = end
      BY <2>3 DEF Narrow
    <3>2. end - 1 \in rest
      BY <1>1, <2>3
    <3> QED BY <1>1, <2>1, <3>1, <3>2 DEF BoundsExact
  <2> QED BY <2>2, <2>3
<1> QED BY <1>2, <1>3

\* One index more, or one less, is counted as such.
LEMMA CountedStep ==
  ASSUME IsFiniteSet(used), NEW index
  PROVE  /\ IsFiniteSet(used \cup {index}) /\ IsFiniteSet(used \ {index})
         /\ index \notin used => Cardinality(used \cup {index}) = Cardinality(used) + 1
         /\ index \in used => Cardinality(used \ {index}) = Cardinality(used) - 1
         /\ index \in used => Cardinality(used) > 0
         /\ Cardinality(used) \in Nat
<1>1. Cardinality(used) \in Nat
  BY FS_CardinalityType
<1>2. index \in used => Cardinality(used) # 0
  BY FS_EmptySet
<1> QED BY <1>1, <1>2, FS_AddElement, FS_RemoveElement

LEMMA IdListInitInv == IdListInit => IdListInductive
<1> SUFFICES ASSUME IdListInit PROVE IdListInductive
  OBVIOUS
<1>1. IdListTypeOK
  <2>1. obj \in [0 .. grown - 1 -> Values]
    <3>1. 0 .. grown - 1 = {}
      BY DEF IdListInit
    <3> QED BY <3>1 DEF IdListInit, Nothing
  <2>2. recovery \in Seq(0 .. grown - 1)
    BY DEF IdListInit
  <2>3. /\ grown \in 0 .. MaxIds /\ used \subseteq 0 .. grown - 1
        /\ beg \in 0 .. MaxIds /\ end \in 0 .. MaxIds /\ size \in Nat
    BY IdListAssumption DEF IdListAssumption, IdListInit
  <2>4. cleared \in BOOLEAN
    BY DEF IdListInit
  <2> QED BY <2>1, <2>2, <2>3, <2>4, Zenon DEF IdListTypeOK
<1>2. BoundsExact /\ FreeWaitsOnce
  BY DEF IdListInit, BoundsExact, FreeWaitsOnce
<1>3. Counted
  BY FS_EmptySet DEF IdListInit, Counted
<1> QED
  BY <1>1, <1>2, <1>3 DEF IdListInductive, IdListInv

\* A new index is the next one, which is neither in use nor waiting.
LEMMA InsertNewInv ==
  ASSUME IdListInductive, NEW v \in Values, InsertNew(v)
  PROVE  IdListInductive'
<1> USE IdListAssumption DEF IdListAssumption, IdListInductive, IdListInv
<1>1. /\ grown \in Nat /\ grown \notin used /\ used' = used \cup {grown} /\ Widen(grown)
      /\ grown' = grown + 1 /\ recovery' = recovery /\ recovery = <<>>
  BY DEF InsertNew, IdListTypeOK
<1>2. BoundsExact' /\ beg' \in {beg, grown} /\ end' \in {end, grown + 1}
  BY <1>1, WidenExact
<1>3. IdListTypeOK'
  <2>1. obj' \in [0 .. grown' - 1 -> Values]
    BY <1>1 DEF InsertNew, IdListTypeOK
  <2>2. recovery' \in Seq(0 .. grown' - 1)
    BY <1>1
  <2> QED BY <1>1, <1>2, <2>1, <2>2 DEF InsertNew, IdListTypeOK
<1>4. FreeWaitsOnce'
  BY <1>1 DEF FreeWaitsOnce, IdListTypeOK
<1>5. Counted'
  <2>1. IsFiniteSet(used') /\ Cardinality(used') = Cardinality(used) + 1
    BY <1>1, CountedStep DEF Counted
  <2>2. Cardinality(used) \in Nat /\ size \in Nat /\ size' = size + 1
    BY CountedStep DEF Counted, InsertNew, IdListTypeOK
  <2> QED BY <2>1, <2>2 DEF Counted
<1> QED
  BY <1>2, <1>3, <1>4, <1>5

\* What waits behind the head of a queue without repetitions is not the head.
LEMMA TailWaits ==
  ASSUME NEW S, NEW q \in Seq(S), q # <<>>,
         \A k, l \in DOMAIN q : q[k] = q[l] => k = l
  PROVE  /\ Head(q) \in S /\ Tail(q) \in Seq(S)
         /\ \A k, l \in DOMAIN Tail(q) : Tail(q)[k] = Tail(q)[l] => k = l
         /\ {Tail(q)[k] : k \in DOMAIN Tail(q)} = {q[k] : k \in DOMAIN q} \ {Head(q)}
         /\ Head(q) \in {q[k] : k \in DOMAIN q}
<1>1. /\ Len(q) \in Nat \ {0} /\ DOMAIN q = 1 .. Len(q)
      /\ Head(q) = q[1] /\ q[1] \in S
  OBVIOUS
<1>2. /\ Tail(q) \in Seq(S) /\ DOMAIN Tail(q) = 1 .. Len(q) - 1
      /\ \A k \in 1 .. Len(q) - 1 : Tail(q)[k] = q[k + 1]
  BY <1>1
<1>3. ASSUME NEW k \in DOMAIN Tail(q)
      PROVE  Tail(q)[k] = q[k + 1] /\ k + 1 \in DOMAIN q /\ k + 1 # 1
  BY <1>1, <1>2
<1>4. \A k, l \in DOMAIN Tail(q) : Tail(q)[k] = Tail(q)[l] => k = l
  <2> SUFFICES ASSUME NEW k \in DOMAIN Tail(q), NEW l \in DOMAIN Tail(q),
                      Tail(q)[k] = Tail(q)[l]
               PROVE  k = l
    OBVIOUS
  <2>1. q[k + 1] = q[l + 1] /\ k + 1 \in DOMAIN q /\ l + 1 \in DOMAIN q
    BY <1>3
  <2>2. k + 1 = l + 1
    BY <2>1
  <2> QED BY <1>1, <1>2, <2>2
<1>5. ASSUME NEW k \in DOMAIN q, q[k] # Head(q)
      PROVE  k - 1 \in DOMAIN Tail(q) /\ Tail(q)[k - 1] = q[k]
  <2>1. k # 1 /\ k \in 1 .. Len(q)
    BY <1>1, <1>5
  <2>2. k - 1 \in 1 .. Len(q) - 1 /\ (k - 1) + 1 = k
    BY <1>1, <2>1
  <2> QED BY <1>2, <2>2
<1>6. ASSUME NEW k \in DOMAIN Tail(q) PROVE Tail(q)[k] # Head(q)
  <2>1. Tail(q)[k] = q[k + 1] /\ k + 1 \in DOMAIN q /\ k + 1 # 1
    BY <1>3
  <2> QED BY <1>1, <2>1
<1>7. {Tail(q)[k] : k \in DOMAIN Tail(q)} \subseteq {q[k] : k \in DOMAIN q} \ {Head(q)}
  BY <1>3, <1>6
<1>8. {q[k] : k \in DOMAIN q} \ {Head(q)} \subseteq {Tail(q)[k] : k \in DOMAIN Tail(q)}
  BY <1>5
<1> QED
  BY <1>1, <1>2, <1>4, <1>7, <1>8, SMTT(20)

LEMMA InsertAgainInv ==
  ASSUME IdListInductive, NEW v \in Values, InsertAgain(v)
  PROVE  IdListInductive'
<1> USE IdListAssumption DEF IdListAssumption, IdListInductive, IdListInv
<1> DEFINE index == Head(recovery)
<1>1. /\ grown \in Nat /\ used' = used \cup {index} /\ Widen(index) /\ grown' = grown
      /\ recovery # <<>> /\ recovery' = Tail(recovery)
      /\ recovery \in Seq(0 .. grown - 1)
  BY DEF InsertAgain, IdListTypeOK
<1>2. /\ index \in 0 .. grown - 1 /\ recovery' \in Seq(0 .. grown - 1)
      /\ \A k, l \in DOMAIN recovery' : recovery'[k] = recovery'[l] => k = l
      /\ {recovery'[k] : k \in DOMAIN recovery'} = {recovery[k] : k \in DOMAIN recovery} \ {index}
      /\ index \in {recovery[k] : k \in DOMAIN recovery}
  <2>1. \A k, l \in DOMAIN recovery : recovery[k] = recovery[l] => k = l
    BY DEF FreeWaitsOnce
  <2> DEFINE S == 0 .. grown - 1
  <2>2. recovery \in Seq(S) /\ recovery # <<>>
    BY <1>1
  <2> HIDE DEF IdListInductive, IdListInv, S, index
  <2>3. /\ Head(recovery) \in S /\ Tail(recovery) \in Seq(S)
        /\ \A k, l \in DOMAIN Tail(recovery) : Tail(recovery)[k] = Tail(recovery)[l] => k = l
        /\ {Tail(recovery)[k] : k \in DOMAIN Tail(recovery)}
             = {recovery[k] : k \in DOMAIN recovery} \ {Head(recovery)}
        /\ Head(recovery) \in {recovery[k] : k \in DOMAIN recovery}
    BY <2>1, <2>2, TailWaits
  <2> QED BY <1>1, <2>3, Zenon DEF S, index
<1>3. index \notin used
  BY <1>2 DEF FreeWaitsOnce
<1> HIDE DEF index
<1>4. BoundsExact' /\ beg' \in {beg, index} /\ end' \in {end, index + 1}
  BY <1>1, <1>2, <1>3, WidenExact
<1>5. IdListTypeOK'
  <2>1. /\ grown \in 0 .. MaxIds /\ obj \in [0 .. grown - 1 -> Values]
        /\ used \subseteq 0 .. grown - 1 /\ beg \in 0 .. MaxIds /\ end \in 0 .. MaxIds
        /\ size \in Nat /\ cleared \in BOOLEAN /\ MaxIds \in Nat
    BY DEF IdListTypeOK
  <2>2. /\ obj' = [obj EXCEPT ![index] = v] /\ size' = size + 1 /\ cleared' = cleared
    BY DEF InsertAgain, index
  <2> HIDE DEF IdListInductive, IdListInv
  <2>3. obj' \in [0 .. grown' - 1 -> Values]
    BY <1>1, <1>2, <2>1, <2>2
  <2>4. beg' \in 0 .. MaxIds /\ end' \in 0 .. MaxIds
    BY <1>1, <1>2, <1>4, <2>1
  <2>5. used' \subseteq 0 .. grown' - 1
    BY <1>1, <1>2, <2>1
  <2> QED BY <1>1, <1>2, <2>1, <2>2, <2>3, <2>4, <2>5 DEF IdListTypeOK
<1>6. FreeWaitsOnce'
  BY <1>1, <1>2 DEF FreeWaitsOnce
<1>7. Counted'
  <2>1. IsFiniteSet(used') /\ Cardinality(used') = Cardinality(used) + 1
    BY <1>1, <1>3, CountedStep DEF Counted
  <2>2. Cardinality(used) \in Nat /\ size \in Nat /\ size' = size + 1
    BY CountedStep DEF Counted, InsertAgain, IdListTypeOK
  <2> QED BY <2>1, <2>2 DEF Counted
<1> QED
  BY <1>4, <1>5, <1>6, <1>7

\* A new last element of a queue without repetitions waits there alone.
LEMMA AppendWaits ==
  ASSUME NEW S, NEW q \in Seq(S), NEW e \in S,
         e \notin {q[k] : k \in DOMAIN q},
         \A k, l \in DOMAIN q : q[k] = q[l] => k = l
  PROVE  /\ Append(q, e) \in Seq(S)
         /\ \A k, l \in DOMAIN Append(q, e) : Append(q, e)[k] = Append(q, e)[l] => k = l
         /\ {Append(q, e)[k] : k \in DOMAIN Append(q, e)} = {q[k] : k \in DOMAIN q} \cup {e}
<1> DEFINE r == Append(q, e)
<1>1. /\ r \in Seq(S) /\ Len(q) \in Nat /\ DOMAIN q = 1 .. Len(q)
      /\ DOMAIN r = DOMAIN q \cup {Len(q) + 1} /\ Len(q) + 1 \notin DOMAIN q
      /\ r[Len(q) + 1] = e
      /\ \A k \in DOMAIN q : r[k] = q[k]
  OBVIOUS
<1> HIDE DEF r
<1>2. \A k, l \in DOMAIN r : r[k] = r[l] => k = l
  BY <1>1
<1>3. {r[k] : k \in DOMAIN r} = {q[k] : k \in DOMAIN q} \cup {e}
  BY <1>1
<1> QED
  BY <1>1, <1>2, <1>3 DEF r

LEMMA EraseInv ==
  ASSUME IdListInductive, NEW index \in Ids, Erase(index)
  PROVE  IdListInductive'
<1> USE IdListAssumption DEF IdListAssumption, IdListInductive, IdListInv
<1>1. /\ grown \in Nat /\ index \in used /\ used' = used \ {index} /\ Narrow(index)
      /\ grown' = grown /\ obj' = obj /\ recovery' = Append(recovery, index)
      /\ recovery \in Seq(0 .. grown - 1) /\ used \subseteq 0 .. grown - 1
  BY DEF Erase, IdListTypeOK
<1>2. BoundsExact' /\ beg' \in 0 .. grown /\ end' \in 0 .. grown
  BY <1>1, NarrowExact
<1>3. /\ recovery' \in Seq(0 .. grown - 1)
      /\ \A k, l \in DOMAIN recovery' : recovery'[k] = recovery'[l] => k = l
      /\ {recovery'[k] : k \in DOMAIN recovery'} = {recovery[k] : k \in DOMAIN recovery} \cup {index}
  <2>1. index \in 0 .. grown - 1 /\ index \notin {recovery[k] : k \in DOMAIN recovery}
    BY <1>1 DEF FreeWaitsOnce
  <2>2. \A k, l \in DOMAIN recovery : recovery[k] = recovery[l] => k = l
    BY DEF FreeWaitsOnce
  <2> HIDE DEF IdListInductive, IdListInv
  <2> QED BY <1>1, <2>1, <2>2, AppendWaits, SMTT(20)
<1>4. Counted' /\ size' \in Nat
  <2>1. IsFiniteSet(used') /\ Cardinality(used') = Cardinality(used) - 1
    BY <1>1, CountedStep DEF Counted
  <2>2. Cardinality(used) \in Nat /\ Cardinality(used) > 0
    BY <1>1, CountedStep DEF Counted
  <2>3. size \in Nat /\ size' = size - 1
    BY DEF Erase, IdListTypeOK
  <2> QED BY <2>1, <2>2, <2>3 DEF Counted
<1>5. IdListTypeOK'
  <2>1. size' \in Nat
    BY <1>4
  <2> QED BY <1>1, <1>2, <1>3, <2>1 DEF Erase, IdListTypeOK
<1>6. FreeWaitsOnce'
  BY <1>1, <1>3, SMTT(20) DEF FreeWaitsOnce
<1> QED
  BY <1>2, <1>4, <1>5, <1>6

LEMMA ClearInv ==
  ASSUME IdListInductive, Clear
  PROVE  IdListInductive'
<1>1. IdListInv'
  BY IdListAssumption DEF IdListAssumption, IdListInductive, IdListInv, Clear, Nothing, IdListTypeOK, BoundsExact,
                          FreeWaitsOnce
<1>2. Counted'
  BY FS_EmptySet DEF IdListInductive, IdListInv, IdListTypeOK, Clear, Counted
<1> QED
  BY <1>1, <1>2 DEF IdListInductive

LEMMA IdListNextInv == IdListInductive /\ [IdListNext]_idListVars => IdListInductive'
<1> SUFFICES ASSUME IdListInductive, [IdListNext]_idListVars PROVE IdListInductive'
  OBVIOUS
<1>1. CASE UNCHANGED idListVars
  BY <1>1 DEF IdListInductive, IdListInv, IdListTypeOK, BoundsExact, FreeWaitsOnce, Counted, idListVars, bounds
<1>2. CASE IdListNext
  BY <1>2, InsertNewInv, InsertAgainInv, EraseInv, ClearInv DEF IdListNext
<1> QED
  BY <1>1, <1>2

\* Exact bounds, the types and the count of the indices in use form one inductive
\* invariant of insert, erase and clear.
THEOREM IdListInvariance == IdListSpec => []IdListInductive
<1> QED
  BY IdListInitInv, IdListNextInv, PTL DEF IdListSpec

\* Whatever is inserted and erased, indices and counters stay in their ranges, and
\* m_size never goes below zero.
THEOREM IdListTypeCorrect == IdListSpec => []IdListTypeOK
<1>1. IdListInductive => IdListTypeOK
  BY DEF IdListInductive, IdListInv
<1> QED
  BY IdListInvariance, <1>1, PTL

\* m_beg and m_end are always the exact bounds of the indices in use.
THEOREM Bounds == IdListSpec => []BoundsExact
<1>1. IdListInductive => BoundsExact
  BY DEF IdListInductive, IdListInv
<1> QED
  BY IdListInvariance, <1>1, PTL

\* No index is ever lost, and none is given to two elements at a time.
THEOREM NoLeak == IdListSpec => []FreeWaitsOnce
<1>1. IdListInductive => FreeWaitsOnce
  BY DEF IdListInductive, IdListInv
<1> QED
  BY IdListInvariance, <1>1, PTL
-----------------------------------------------------------------------------
(* IdList implements IdMap *)

\* find() answers m_end for what is not in use, and for nothing else.
LEMMA ContentsOfUsed ==
  IdListTypeOK /\ BoundsExact => Contents = [i \in used |-> obj[i]] /\ used \subseteq Ids
<1> SUFFICES ASSUME IdListTypeOK, BoundsExact
             PROVE  Contents = [i \in used |-> obj[i]] /\ used \subseteq Ids
  OBVIOUS
<1>1. used \subseteq Ids
  BY IdListAssumption DEF IdListAssumption, IdListTypeOK, Ids
<1>2. \A j \in Ids : Find(j) # end <=> j \in used
  BY <1>1 DEF IdListTypeOK, BoundsExact, Find
<1>3. {j \in Ids : Find(j) # end} = used
  BY <1>1, <1>2
<1> QED
  BY <1>1, <1>3 DEF Contents

LEMMA ContentsOfUsedNext ==
  (IdListTypeOK /\ BoundsExact)' => Contents' = [i \in used' |-> obj'[i]] /\ used' \subseteq Ids
<1>1. (IdListTypeOK /\ BoundsExact)' => (Contents = [i \in used |-> obj[i]] /\ used \subseteq Ids)'
  BY ContentsOfUsed, PTL
<1> QED
  BY <1>1 DEF Ids

\* An element that enters under an index that was not in use is an Insert of IdMap.
LEMMA InsertMaps ==
  ASSUME IdListInductive, IdListInductive', NEW v \in Values, NEW index, index \notin used,
         used' = used \cup {index}, obj'[index] = v,
         \A i \in used : obj'[i] = obj[i]
  PROVE  Map!Insert(v)
<1>1. Contents = [i \in used |-> obj[i]] /\ used \subseteq Ids
  BY ContentsOfUsed DEF IdListInductive, IdListInv
<1>2. Contents' = [i \in used' |-> obj'[i]] /\ used' \subseteq Ids
  BY ContentsOfUsedNext DEF IdListInductive, IdListInv
<1>3. Contents' = [i \in used \cup {index} |-> IF i = index THEN v ELSE Contents[i]]
  BY <1>1, <1>2
<1>4. DOMAIN Contents = used /\ index \in Ids
  BY <1>1, <1>2 DEF Ids
<1> QED
  BY <1>3, <1>4 DEF Map!Insert

\* RAObjList implements a map: insert() gives an id that is not in use and keeps all
\* other values, erase() removes one, and find() sees just that map.
THEOREM IdListRefinement == IdListSpec => ImplementsIdMap
<1>1. IdListInit => Map!Init
  <2> SUFFICES ASSUME IdListInit PROVE Contents = Map!Nothing
    BY DEF Map!Init
  <2>1. IdListInductive
    BY IdListInitInv
  <2>2. Contents = [i \in {} |-> obj[i]]
    BY <2>1, ContentsOfUsed DEF IdListInductive, IdListInv, IdListInit
  <2> QED BY <2>2 DEF Map!Nothing
<1>2. ASSUME IdListInductive, IdListInductive', [IdListNext]_idListVars
      PROVE  [Map!Next]_Contents
  <2>1. Contents = [i \in used |-> obj[i]] /\ used \subseteq Ids
    BY <1>2, ContentsOfUsed DEF IdListInductive, IdListInv
  <2>2. Contents' = [i \in used' |-> obj'[i]]
    BY <1>2, ContentsOfUsedNext DEF IdListInductive, IdListInv
  <2>3. ASSUME NEW v \in Values, InsertNew(v) PROVE Map!Next
    <3>1. /\ grown \notin used /\ used' = used \cup {grown} /\ obj'[grown] = v
          /\ \A i \in used : obj'[i] = obj[i]
      BY <1>2, <2>3 DEF InsertNew, IdListInductive, IdListInv, IdListTypeOK
    <3>2. Map!Insert(v)
      BY <1>2, <3>1, InsertMaps
    <3> QED BY <3>2 DEF Map!Next
  <2>4. ASSUME NEW v \in Values, InsertAgain(v) PROVE Map!Next
    <3>1. Head(recovery) \in 0 .. grown - 1 /\ Head(recovery) \notin used
      BY <1>2, <2>4, TailWaits DEF InsertAgain, IdListInductive, IdListInv, IdListTypeOK, FreeWaitsOnce
    <3>2. /\ used' = used \cup {Head(recovery)} /\ obj'[Head(recovery)] = v
          /\ \A i \in used : obj'[i] = obj[i]
      BY <1>2, <2>4, <3>1 DEF InsertAgain, IdListInductive, IdListInv, IdListTypeOK
    <3>3. Map!Insert(v)
      BY <1>2, <3>1, <3>2, InsertMaps
    <3> QED BY <3>3 DEF Map!Next
  <2>5. ASSUME NEW index \in Ids, Erase(index) PROVE Map!Next
    <3>1. index \in used /\ used' = used \ {index} /\ obj' = obj
      BY <2>5 DEF Erase
    <3>2. DOMAIN Contents = used
      BY <2>1
    <3>3. Contents' = [i \in DOMAIN Contents \ {index} |-> Contents[i]]
      BY <2>1, <2>2, <3>1
    <3>4. Map!Erase(index)
      BY <3>1, <3>2, <3>3 DEF Map!Erase
    <3> QED BY <2>5, <3>4 DEF Map!Next
  <2>6. ASSUME Clear PROVE Map!Next
    BY <2>2, <2>6 DEF Clear, Map!Next, Map!Clear, Map!Nothing
  <2>7. ASSUME UNCHANGED idListVars PROVE UNCHANGED Contents
    BY <2>1, <2>2, <2>7 DEF idListVars
  <2> QED
    BY <1>2, <2>3, <2>4, <2>5, <2>6, <2>7 DEF IdListNext
<1> QED
  BY <1>1, <1>2, IdListInvariance, PTL DEF IdListSpec, ImplementsIdMap, Map!Spec
-----------------------------------------------------------------------------
(* The walk *)

\* Of some numbers there is a smallest.
LEMMA Smallest ==
  ASSUME NEW T \in SUBSET Nat, T # {}
  PROVE  \E x \in T : \A y \in T : x <= y
<1> DEFINE R == {ss \in Nat \X Nat : ss[1] < ss[2]}
<1>1. IsWellFoundedOn(R, Nat)
  BY NatLessThanWellFounded, Zenon DEF OpToRel
<1> HIDE DEF R
<1>2. \E x \in T : \A y \in T : ~(<<y, x>> \in R)
  BY <1>1, WFMin
<1>3. PICK x \in T : \A y \in T : ~(<<y, x>> \in R)
  BY <1>2
<1>4. ASSUME NEW y \in T PROVE x <= y
  <2>1. x \in Nat /\ y \in Nat
    OBVIOUS
  <2>2. ~(y < x)
    <3>1. <<y, x>> \in Nat \X Nat /\ <<y, x>>[1] = y /\ <<y, x>>[2] = x
      BY <2>1
    <3> QED BY <1>3, <3>1, Zenon DEF R
  <2> QED BY <2>1, <2>2
<1> QED BY <1>4

\* Induction, over a set of numbers.
LEMMA Induction ==
  ASSUME NEW T, 0 \in T, \A n \in Nat : n \in T => n + 1 \in T
  PROVE  Nat \subseteq T
<1> SUFFICES ASSUME Nat \ T # {} PROVE FALSE
  OBVIOUS
<1>1. PICK x \in Nat \ T : \A y \in Nat \ T : x <= y
  BY Smallest
<1>2. x # 0 /\ x - 1 \in Nat
  BY <1>1
<1>3. x - 1 \in T
  BY <1>1, <1>2
<1> QED BY <1>1, <1>2, <1>3

\* Where operator++ goes from an index before the end.
Step(i) == CHOOSE j \in After(i) : TRUE

\* That f has the walks from each index that is not below low.
IsWalk(f, low) ==
  f = [i \in low .. end |-> IF i = end THEN <<>> ELSE <<i>> \o f[Step(i)]]

\* What the walk from i is to be: i, then the indices in use behind it, in their order.
Meets(s, i) ==
  /\ s \in Seq(Nat)
  /\ {s[k] : k \in DOMAIN s} = {j \in i .. end - 1 : j = i \/ j \in used}
  /\ \A k \in 1 .. Len(s) - 1 : s[k] < s[k + 1]
  /\ i < end => s # <<>> /\ s[1] = i

\* operator++ always finds where to go, and passes over no index in use.
LEMMA StepAhead ==
  ASSUME IdListInductive, NEW i \in beg .. end, i # end
  PROVE  /\ Step(i) \in i + 1 .. end
         /\ Step(i) # end => Step(i) \in used
         /\ \A j \in used : i < j => Step(i) <= j
<1>1. /\ beg \in Nat /\ end \in Nat /\ used \subseteq Nat /\ i \in Nat
      /\ \A j \in used : j < end
  BY DEF IdListInductive, IdListInv, IdListTypeOK, BoundsExact
<1> DEFINE T == {j \in i + 1 .. end : j = end \/ j \in used}
<1>2. T \in SUBSET Nat /\ end \in T
  BY <1>1
<1>3. PICK x \in T : \A y \in T : x <= y
  BY <1>2, Smallest
<1>4. x \in After(i)
  <2>1. ASSUME NEW j \in i + 1 .. x - 1 PROVE j \notin used
    BY <1>1, <1>3, <2>1
  <2> QED BY <1>3, <2>1 DEF After
<1>5. Step(i) \in After(i)
  BY <1>4 DEF Step
<1>6. /\ Step(i) \in i + 1 .. end /\ (Step(i) = end \/ Step(i) \in used)
      /\ \A j \in i + 1 .. Step(i) - 1 : j \notin used
  BY <1>5 DEF After
<1>7. ASSUME NEW j \in used, i < j PROVE Step(i) <= j
  BY <1>1, <1>6, <1>7
<1> QED BY <1>6, <1>7

\* The walks that Walk defines by recursion are there.
LEMMA WalkExists ==
  ASSUME IdListInductive
  PROVE  \E f : IsWalk(f, beg)
<1>1. beg \in Nat /\ end \in Nat /\ beg <= end
  BY DEF IdListInductive, IdListInv, IdListTypeOK, BoundsExact
<1> DEFINE T == {n \in Nat : n <= end - beg => \E f : IsWalk(f, end - n)}
<1>2. 0 \in T
  <2>1. IsWalk([i \in end .. end |-> <<>>], end)
    BY <1>1 DEF IsWalk
  <2> QED BY <1>1, <2>1
<1>3. ASSUME NEW n \in Nat, n \in T PROVE n + 1 \in T
  <2> SUFFICES ASSUME n + 1 <= end - beg PROVE \E f : IsWalk(f, end - (n + 1))
    OBVIOUS
  <2>1. PICK f : IsWalk(f, end - n)
    BY <1>1, <1>3
  <2> DEFINE low == end - (n + 1)
             g == [i \in low .. end |-> IF i = low THEN <<low>> \o f[Step(low)] ELSE f[i]]
  <2>2. /\ low \in beg .. end /\ low # end /\ end - n = low + 1
        /\ low + 1 .. end \subseteq beg .. end /\ low .. end = {low} \cup (low + 1 .. end)
        /\ low \notin low + 1 .. end /\ end \in low + 1 .. end
    BY <1>1
  <2> HIDE DEF low
  <2>3. \A i \in low .. end : i # end => Step(i) \in i + 1 .. end /\ Step(i) \in low + 1 .. end
    <3>1. \A i \in low .. end : i # end => Step(i) \in i + 1 .. end
      BY <2>2, StepAhead
    <3> QED BY <1>1, <2>2, <3>1
  <2>4. f = [i \in low + 1 .. end |-> IF i = end THEN <<>> ELSE <<i>> \o f[Step(i)]]
    BY <2>1, <2>2 DEF IsWalk
  <2>5. \A i \in low + 1 .. end : g[i] = f[i]
    BY <2>2
  <2>6. g = [i \in low .. end |-> IF i = end THEN <<>> ELSE <<i>> \o g[Step(i)]]
    <3>1. ASSUME NEW i \in low .. end
          PROVE  g[i] = IF i = end THEN <<>> ELSE <<i>> \o g[Step(i)]
      <4>1. CASE i = end
        BY <2>2, <2>4, <2>5, <4>1
      <4>2. CASE i # end
        <5>1. g[Step(i)] = f[Step(i)]
          BY <2>3, <2>5, <4>2
        <5>2. CASE i = low
          BY <5>1, <5>2, <4>2
        <5>3. CASE i # low
          <6>1. i \in low + 1 .. end
            BY <2>2, <5>3
          <6> HIDE DEF g
          <6> QED BY <2>4, <2>5, <4>2, <5>1, <6>1
        <5> QED BY <5>2, <5>3
      <4> QED BY <4>1, <4>2
    <3> QED BY <3>1
  <2> QED BY <2>6 DEF IsWalk, low
<1> HIDE DEF T
<1>4. end - beg \in T
  BY <1>1, <1>2, <1>3, Induction
<1> QED BY <1>1, <1>4 DEF T

\* One more index in front of a walk.
LEMMA MeetsStep ==
  ASSUME IdListInductive, NEW i \in beg .. end, i # end, NEW t, Meets(t, Step(i))
  PROVE  Meets(<<i>> \o t, i)
<1> DEFINE n == Step(i)  s == <<i>> \o t  N == Len(t)
<1>1. /\ beg \in Nat /\ end \in Nat /\ used \subseteq Nat /\ i \in Nat /\ i < end
      /\ \A j \in used : j < end
  BY DEF IdListInductive, IdListInv, IdListTypeOK, BoundsExact
<1>2. /\ n \in i + 1 .. end
      /\ n # end => n \in used
      /\ \A j \in used : i < j => n <= j
  BY StepAhead
<1>3. /\ t \in Seq(Nat)
      /\ {t[k] : k \in DOMAIN t} = {j \in n .. end - 1 : j = n \/ j \in used}
      /\ \A k \in 1 .. N - 1 : t[k] < t[k + 1]
      /\ n < end => t # <<>> /\ t[1] = n
  BY DEF Meets
<1>4. N \in Nat /\ DOMAIN t = 1 .. N /\ (t # <<>> <=> N # 0)
  BY <1>3, LenProperties, EmptySeq
<1>5. /\ s \in Seq(Nat) /\ Len(s) = N + 1 /\ s[1] = i
      /\ \A k \in 2 .. N + 1 : s[k] = t[k - 1]
  <2>1. <<i>> \in Seq(Nat) /\ Len(<<i>>) = 1 /\ <<i>>[1] = i
    BY <1>1
  <2>2. s \in Seq(Nat) /\ Len(s) = 1 + N
        /\ \A k \in 1 .. 1 + N : s[k] = IF k <= 1 THEN <<i>>[k] ELSE t[k - 1]
    BY <1>3, <2>1, ConcatProperties
  <2> HIDE DEF s, N
  <2> QED BY <1>4, <2>1, <2>2
<1>6. DOMAIN s = 1 .. N + 1 /\ s # <<>>
  BY <1>4, <1>5, LenProperties, EmptySeq
<1> HIDE DEF n, s, N
<1>7. {s[k] : k \in DOMAIN s} = {i} \cup {t[k] : k \in DOMAIN t}
  <2>1. ASSUME NEW k \in 1 .. N + 1 PROVE s[k] \in {i} \cup {t[l] : l \in 1 .. N}
    <3>1. CASE k = 1
      BY <1>5, <3>1
    <3>2. CASE k # 1
      <4>1. k \in 2 .. N + 1 /\ k - 1 \in 1 .. N
        BY <1>4, <3>2
      <4> QED BY <1>5, <4>1
    <3> QED BY <3>1, <3>2
  <2>2. ASSUME NEW l \in 1 .. N PROVE t[l] \in {s[k] : k \in 1 .. N + 1}
    <3>1. l + 1 \in 2 .. N + 1 /\ l + 1 \in 1 .. N + 1 /\ (l + 1) - 1 = l
      BY <1>4
    <3>2. s[l + 1] = t[l]
      BY <1>5, <3>1
    <3> QED BY <3>1, <3>2
  <2>3. i \in {s[k] : k \in 1 .. N + 1}
    <3>1. 1 \in 1 .. N + 1
      BY <1>4
    <3> QED BY <1>5, <3>1
  <2>4. {s[k] : k \in 1 .. N + 1} = {i} \cup {t[l] : l \in 1 .. N}
    BY <2>1, <2>2, <2>3
  <2>5. DOMAIN s = 1 .. N + 1 /\ DOMAIN t = 1 .. N
    BY <1>4, <1>6
  <2> HIDE DEF N
  <2> QED BY <2>4, <2>5, Zenon
<1>8. {i} \cup {j \in n .. end - 1 : j = n \/ j \in used}
        = {j \in i .. end - 1 : j = i \/ j \in used}
  <2>1. ASSUME NEW j \in n .. end - 1, j = n \/ j \in used
        PROVE  j \in i .. end - 1 /\ j \in used
    BY <1>1, <1>2, <2>1
  <2>2. ASSUME NEW j \in i .. end - 1, j \in used, j # i
        PROVE  j \in n .. end - 1
    BY <1>1, <1>2, <2>2
  <2>3. i \in i .. end - 1
    BY <1>1
  <2> QED BY <2>1, <2>2, <2>3
<1>9. ASSUME NEW k \in 1 .. Len(s) - 1 PROVE s[k] < s[k + 1]
  <2>0. k \in 1 .. N
    BY <1>4, <1>5
  <2>1. CASE k = 1
    <3>1. N # 0
      BY <1>4, <2>0, <2>1
    <3>2. t[1] \in {j \in n .. end - 1 : j = n \/ j \in used}
      <4>1. 1 \in DOMAIN t
        BY <1>4, <3>1
      <4> QED BY <1>3, <4>1
    <3>3. s[2] = t[1]
      <4>1. 2 \in 2 .. N + 1 /\ 2 - 1 = 1
        BY <1>4, <3>1
      <4> QED BY <1>5, <4>1
    <3>4. i < t[1]
      BY <1>1, <1>2, <3>2
    <3> QED BY <1>5, <2>1, <3>3, <3>4
  <2>2. CASE k # 1
    <3>1. k \in 2 .. N + 1 /\ k + 1 \in 2 .. N + 1 /\ (k + 1) - 1 = (k - 1) + 1
          /\ k - 1 \in 1 .. N - 1
      BY <1>4, <2>0, <2>2
    <3>2. s[k] = t[k - 1] /\ s[k + 1] = t[(k - 1) + 1]
      BY <1>5, <3>1
    <3> QED BY <1>3, <3>1, <3>2 DEF N
  <2> QED BY <2>1, <2>2
<1>10. Meets(s, i)
  BY <1>3, <1>5, <1>6, <1>7, <1>8, <1>9 DEF Meets
<1> QED BY <1>10 DEF s

\* By induction downwards from the end, every walk meets what it is to meet.
LEMMA WalkMeets ==
  ASSUME IdListInductive, NEW f, IsWalk(f, beg)
  PROVE  Meets(f[beg], beg)
<1>1. beg \in Nat /\ end \in Nat /\ beg <= end
  BY DEF IdListInductive, IdListInv, IdListTypeOK, BoundsExact
<1>2. \A i \in beg .. end : f[i] = IF i = end THEN <<>> ELSE <<i>> \o f[Step(i)]
  BY DEF IsWalk
<1> DEFINE T == {n \in Nat : \A i \in beg .. end : end - i <= n => Meets(f[i], i)}
<1>3. 0 \in T
  <2> SUFFICES ASSUME NEW i \in beg .. end, end - i <= 0 PROVE Meets(f[i], i)
    OBVIOUS
  <2>1. i = end
    BY <1>1
  <2>2. f[i] = <<>>
    BY <1>2, <2>1
  <2>3. <<>> \in Seq(Nat) /\ Len(<<>>) = 0 /\ {<<>>[k] : k \in DOMAIN <<>>} = {}
    BY EmptySeq
  <2>4. end .. end - 1 = {} /\ 1 .. 0 - 1 = {} /\ ~(end < end)
    BY <1>1
  <2> QED BY <2>1, <2>2, <2>3, <2>4 DEF Meets
<1>4. ASSUME NEW n \in Nat, n \in T PROVE n + 1 \in T
  <2> SUFFICES ASSUME NEW i \in beg .. end, end - i <= n + 1 PROVE Meets(f[i], i)
    OBVIOUS
  <2>1. CASE i = end
    BY <1>1, <1>4, <2>1
  <2>2. CASE i # end
    <3>1. Step(i) \in i + 1 .. end
      BY <2>2, StepAhead
    <3>2. Step(i) \in beg .. end /\ end - Step(i) <= n
      BY <1>1, <3>1
    <3>3. Meets(f[Step(i)], Step(i))
      BY <1>4, <3>2
    <3> QED BY <1>2, <2>2, <3>3, MeetsStep
  <2> QED BY <2>1, <2>2
<1> HIDE DEF T
<1>5. end - beg \in Nat /\ end - beg \in T
  BY <1>1, <1>3, <1>4, Induction
<1> QED BY <1>1, <1>5 DEF T

\* A walk from m_beg by operator++ meets every index in use, once and in order, and no
\* other, whatever was inserted and erased.
THEOREM WalkRight == IdListSpec => []WalkMeetsAll
<1>1. ASSUME IdListInductive PROVE WalkMeetsAll
  <2> DEFINE f == CHOOSE g : IsWalk(g, beg)
  <2>1. IsWalk(f, beg)
    BY <1>1, WalkExists
  <2>2. Walk = f[beg]
    BY DEF Walk, IsWalk, Step
  <2> HIDE DEF f
  <2>3. Meets(Walk, beg)
    BY <1>1, <2>1, <2>2, WalkMeets
  <2>4. {j \in beg .. end - 1 : j = beg \/ j \in used} = used
    <3>1. used \subseteq beg .. end - 1 /\ (beg \in used \/ beg = end) /\ beg \in Nat
      BY <1>1 DEF IdListInductive, IdListInv, IdListTypeOK, BoundsExact
    <3>2. \A j \in beg .. end - 1 : j = beg => j \in used
      BY <3>1
    <3> QED BY <3>1, <3>2
  <2> QED BY <2>3, <2>4 DEF Meets, WalkMeetsAll
<1> QED BY IdListInvariance, <1>1, PTL
=============================================================================
