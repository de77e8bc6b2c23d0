----------------------------- MODULE ThreadQueue -----------------------------
(***************************************************************************)
(* The bounded queue between two threads (common/src/threadqueue.h), over  *)
(* which the network module hands connect requests to its connect thread   *)
(* and gets their results back.                                            *)
(*                                                                         *)
(* A ring of m_size = size + 1 slots, a semaphore m_wsem that counts free  *)
(* slots, a semaphore m_rsem that counts filled ones, and one lock for each *)
(* end of the ring: a push and a pop do work on the ring at the same time. *)
(***************************************************************************)
EXTENDS Naturals, Sequences, FiniteSets

CONSTANTS
  Producers,  \* the threads that call push or trypush
  Consumers,  \* the threads that call pop or trypop
  MaxPuts,    \* bound: how many elements one producer offers
  Size,       \* the size given to the constructor
  SemMax,     \* the maximum count of a semaphore (999999 in synclock.cpp)
  Raw,        \* what a slot without an object holds
  Torn        \* what a slot holds while an object is being built in it

\* An element is named by the producer that offers it and its number there.
Elements == Producers \X (1 .. MaxPuts)

ASSUME ThreadQueueAssumption ==
  /\ Raw \notin Elements \cup {Torn}
  /\ Torn \notin Elements
  /\ IsFiniteSet(Producers)
  /\ IsFiniteSet(Consumers)
  /\ MaxPuts \in Nat
  /\ Size \in Nat \ {0}
  /\ SemMax \in Nat
  /\ Size <= SemMax

VARIABLES
  slot,     \* m_queue: the slots of the ring
  head,     \* m_head
  tail,     \* m_tail
  wsem,     \* the count of m_wsem
  rsem,     \* the count of m_rsem
  ppc,      \* where each producer stands in push()
  made,     \* how many elements each producer has offered
  cpc,      \* where each consumer stands in pop()
  put,      \* history: every element that was pushed, in that order
  taken     \* history: every element that was popped, in that order

vars == <<slot, head, tail, wsem, rsem, ppc, made, cpc, put, taken>>

m_size == Size + 1
Slots == 0 .. Size

SlotValues == Elements \cup {Raw, Torn}

Init ==
  /\ slot = [s \in Slots |-> Raw]
  /\ head = 0
  /\ tail = 0
  /\ wsem = Size
  /\ rsem = 0
  /\ ppc = [p \in Producers |-> "idle"]
  /\ made = [p \in Producers |-> 0]
  /\ cpc = [c \in Consumers |-> "idle"]
  /\ put = <<>>
  /\ taken = <<>>

\* An index of the ring that has grown to m_size or beyond goes round.
Wrap(index) == IF index >= m_size THEN index - m_size ELSE index

\* Mutant: a count stops one short of its maximum.
PostedShort(count) == IF count + 1 < SemMax THEN count + 1 ELSE count

\* Semaphore::post fails, and nobody looks, once the count is at its maximum.
Posted(count) == IF count < SemMax THEN count + 1 ELSE count
-----------------------------------------------------------------------------
(* push and trypush *)

Offered(p) == <<p, made[p]>>

\* m_wsem.wait() lets the producer in.
PushWait(p) ==
  /\ ppc[p] = "idle"
  /\ made[p] < MaxPuts
  /\ wsem > 0
  /\ wsem' = wsem - 1
  /\ made' = [made EXCEPT ![p] = @ + 1]
  /\ ppc' = [ppc EXCEPT ![p] = "lock"]
  /\ UNCHANGED <<slot, head, tail, rsem, cpc, put, taken>>

\* trypush finds m_wsem at zero and returns false: the element goes nowhere.
TryPushFails(p) ==
  /\ ppc[p] = "idle"
  /\ made[p] < MaxPuts
  /\ wsem = 0
  /\ made' = [made EXCEPT ![p] = @ + 1]
  /\ UNCHANGED <<slot, head, tail, wsem, rsem, ppc, cpc, put, taken>>

wlockFree == \A q \in Producers : ppc[q] # "write"

\* Mutant: the element is announced before it is written.
PushLockPostsEarly(p) ==
  /\ ppc[p] = "lock"
  /\ wlockFree
  /\ slot' = [slot EXCEPT ![tail] = Torn]
  /\ rsem' = Posted(rsem)
  /\ ppc' = [ppc EXCEPT ![p] = "write"]
  /\ UNCHANGED <<head, tail, wsem, made, cpc, put, taken>>

\* lockPush takes m_wlock and starts to construct the element in its slot.
PushLock(p) ==
  /\ ppc[p] = "lock"
  /\ wlockFree
  /\ slot' = [slot EXCEPT ![tail] = Torn]
  /\ ppc' = [ppc EXCEPT ![p] = "write"]
  /\ UNCHANGED <<head, tail, wsem, rsem, made, cpc, put, taken>>

\* The element is complete, m_tail goes on, m_wlock is free again.
PushWrite(p) ==
  /\ ppc[p] = "write"
  /\ slot' = [slot EXCEPT ![tail] = Offered(p)]
  /\ tail' = Wrap(tail + 1)
  /\ put' = Append(put, Offered(p))
  /\ ppc' = [ppc EXCEPT ![p] = "post"]
  /\ UNCHANGED <<head, wsem, rsem, made, cpc, taken>>

PushPost(p) ==
  /\ ppc[p] = "post"
  /\ rsem' = Posted(rsem)
  /\ ppc' = [ppc EXCEPT ![p] = "idle"]
  /\ UNCHANGED <<slot, head, tail, wsem, made, cpc, put, taken>>
-----------------------------------------------------------------------------
(* pop and trypop; a trypop that finds m_rsem at zero changes nothing *)

\* Mutant: the slot is given back before it is emptied.
PopWaitPostsEarly(c) ==
  /\ cpc[c] = "idle"
  /\ rsem > 0
  /\ rsem' = rsem - 1
  /\ wsem' = Posted(wsem)
  /\ cpc' = [cpc EXCEPT ![c] = "lock"]
  /\ UNCHANGED <<slot, head, tail, ppc, made, put, taken>>

PopWait(c) ==
  /\ cpc[c] = "idle"
  /\ rsem > 0
  /\ rsem' = rsem - 1
  /\ cpc' = [cpc EXCEPT ![c] = "lock"]
  /\ UNCHANGED <<slot, head, tail, wsem, ppc, made, put, taken>>

rlockFree == \A d \in Consumers : cpc[d] # "read"

\* lockPop takes m_rlock and starts to copy the element out of its slot.
PopLock(c) ==
  /\ cpc[c] = "lock"
  /\ rlockFree
  /\ cpc' = [cpc EXCEPT ![c] = "read"]
  /\ UNCHANGED <<slot, head, tail, wsem, rsem, ppc, made, put, taken>>

\* Mutant: the index is advanced before the element is copied.
PopReadNext(c) ==
  /\ cpc[c] = "read"
  /\ taken' = Append(taken, slot[Wrap(head + 1)])
  /\ slot' = [slot EXCEPT ![Wrap(head + 1)] = Raw]
  /\ head' = Wrap(head + 1)
  /\ cpc' = [cpc EXCEPT ![c] = "post"]
  /\ UNCHANGED <<tail, wsem, rsem, ppc, made, put>>

\* The copy is made, the element destroyed, m_head goes on, m_rlock is free.
PopRead(c) ==
  /\ cpc[c] = "read"
  /\ taken' = Append(taken, slot[head])
  /\ slot' = [slot EXCEPT ![head] = Raw]
  /\ head' = Wrap(head + 1)
  /\ cpc' = [cpc EXCEPT ![c] = "post"]
  /\ UNCHANGED <<tail, wsem, rsem, ppc, made, put>>

PopPost(c) ==
  /\ cpc[c] = "post"
  /\ wsem' = Posted(wsem)
  /\ cpc' = [cpc EXCEPT ![c] = "idle"]
  /\ UNCHANGED <<slot, head, tail, rsem, ppc, made, put, taken>>
-----------------------------------------------------------------------------
Push(p) == PushWait(p) \/ TryPushFails(p) \/ PushLock(p) \/ PushWrite(p) \/ PushPost(p)

Pop(c) == PopWait(c) \/ PopLock(c) \/ PopRead(c) \/ PopPost(c)

Next == (\E p \in Producers : Push(p)) \/ (\E c \in Consumers : Pop(c))

Spec == Init /\ [][Next]_vars

(***************************************************************************)
(* A producer inside push() goes on.  A consumer that calls pop() or polls *)
(* with trypop() gets in if it keeps being possible; which of several      *)
(* waiting consumers is let in is the semaphore's choice.                  *)
(***************************************************************************)
Fairness ==
  /\ \A p \in Producers : WF_vars(PushLock(p) \/ PushWrite(p) \/ PushPost(p))
  /\ WF_vars(\E c \in Consumers : Pop(c))

FairSpec == Spec /\ Fairness
-----------------------------------------------------------------------------
TypeOK ==
  /\ slot \in [Slots -> SlotValues]
  /\ head \in Slots
  /\ tail \in Slots
  /\ wsem \in 0 .. Size
  /\ rsem \in 0 .. Size
  /\ ppc \in [Producers -> {"idle", "lock", "write", "post"}]
  /\ made \in [Producers -> 0 .. MaxPuts]
  /\ cpc \in [Consumers -> {"idle", "lock", "read", "post"}]
  /\ put \in Seq(Elements)
  /\ taken \in Seq(SlotValues)

\* A consumer only ever copies a slot that holds a complete element, even while
\* a producer is building one in another slot with the other lock held.
NoTornRead == (\E c \in Consumers : cpc[c] = "read") => slot[head] \in Elements

\* A producer only ever constructs in a slot that holds no object: m_wsem never
\* lets in one producer more than there are slots without an element.
NoOverwrite ==
  (wlockFree /\ \E p \in Producers : ppc[p] = "lock") => slot[tail] = Raw

\* An element that was pushed is popped, once and in the order of the pushes.
Queue == INSTANCE Fifo
ImplementsFifo == Queue!Spec

\* An element that was pushed is popped: its post is never lost to a full
\* semaphore, and never spent on a consumer that then finds nothing.
EveryElementPopped ==
  \A e \in Elements :
     (\E k \in 1 .. Len(put) : put[k] = e) ~> (\E k \in 1 .. Len(taken) : taken[k] = e)
-----------------------------------------------------------------------------
(* The inductive invariant of the proofs. *)

\* How many elements the ring holds.
Held == Len(put) - Len(taken)

\* The producers that m_wsem let in and that have not written yet, those that
\* have not announced what they wrote, the consumers that m_rsem let in and that
\* have not read yet, and those that have not given back the slot they emptied.
admitted == {p \in Producers : ppc[p] \in {"lock", "write"}}
announcing == {p \in Producers : ppc[p] = "post"}
taking == {c \in Consumers : cpc[c] \in {"lock", "read"}}
returning == {c \in Consumers : cpc[c] = "post"}

\* Every slot but the spare one is free, promised to a producer, filled, or
\* still to be given back by the consumer that emptied it.
FreeSlotsCounted == wsem + Cardinality(admitted) + Held + Cardinality(returning) = Size

\* Every element in the ring is free to take, promised to a consumer, or still
\* to be announced by the producer that wrote it.
FilledSlotsCounted == rsem + Cardinality(taking) + Cardinality(announcing) = Held

\* One producer at most writes, one consumer at most reads.
Exclusive ==
  /\ \A p, q \in Producers : ppc[p] = "write" /\ ppc[q] = "write" => p = q
  /\ \A c, d \in Consumers : cpc[c] = "read" /\ cpc[d] = "read" => c = d

\* The tail is ahead of the head by the number of elements, once round the ring.
TailAhead == Held \in 0 .. Size /\ tail = Wrap(head + Held)

\* From the head on, the slots hold what was put and not yet taken, in order.
SlotsFilled == \A k \in 0 .. Held - 1 : slot[Wrap(head + k)] = put[Len(taken) + 1 + k]

\* The other slots hold no object, except the one that is being built.
SlotsRaw ==
  \A k \in Held .. Size :
     slot[Wrap(head + k)] = IF k = Held /\ ~wlockFree THEN Torn ELSE Raw

\* What a producer inside push() offers has been made.
ElementMade == \A p \in Producers : ppc[p] # "idle" => made[p] > 0

IInv ==
  /\ TypeOK
  /\ Exclusive
  /\ FreeSlotsCounted
  /\ FilledSlotsCounted
  /\ TailAhead
  /\ SlotsFilled
  /\ SlotsRaw
  /\ ElementMade
=============================================================================
