-------------------------- MODULE Lifecycle_proofs --------------------------
(***************************************************************************)
(* Proofs about Lifecycle, for any set of modules, any order in which they *)
(* were added and any relations between them, cyclic ones included.        *)
(***************************************************************************)
EXTENDS Lifecycle, SequenceTheorems, TLAPS

\* The names of the phases.
LEMMA PhaseNames ==
  /\ Len(Phases) = 5
  /\ ToSet(Phases) = {"init", "start", "update", "stop", "release"}
  /\ phase = 1 => Name = "init" /\ ~Done
  /\ phase = 2 => Name = "start" /\ ~Done
  /\ phase = 3 => Name = "update" /\ ~Done
  /\ phase = 4 => Name = "stop" /\ ~Done
  /\ phase = 5 => Name = "release" /\ ~Done
<1>1. Len(Phases) = 5
  BY DEF Phases
<1>2. ToSet(Phases) = {"init", "start", "update", "stop", "release"}
  BY DEF Phases, ToSet
<1> QED
  BY <1>1, <1>2 DEF Phases, Name, Done

\* The states of a module are told apart by their phase and by how far it is.
LEMMA StatesDiffer ==
  /\ \A p, q : Did(p) = Did(q) <=> p = q
  /\ \A p, q : Did(p) # Doing(q)
  /\ \A p : Did(p) # Failed /\ Doing(p) # Failed
<1>1. \A p, q : Did(p) = Did(q) <=> p = q
  BY DEF Did
<1>2. \A p, q : Did(p) # Doing(q)
  BY DEF Did, Doing
<1>3. \A p : Len(Did(p)) = 2 /\ Len(Doing(p)) = 2
  BY DEF Did, Doing
<1>4. Len(Failed) = 1
  BY DEF Failed
<1> QED
  BY <1>1, <1>2, <1>3, <1>4

\* What is left of a queue from which one element is erased.
LEMMA Removal ==
  ASSUME NEW s \in Seq(Modules), NEW i \in 1 .. Len(s)
  PROVE  /\ RemoveAt(s, i) \in Seq(Modules)
         /\ Len(RemoveAt(s, i)) = Len(s) - 1
         /\ \A j \in 1 .. Len(s) - 1 :
              RemoveAt(s, i)[j] = IF j < i THEN s[j] ELSE s[j + 1]
<1> DEFINE front == SubSeq(s, 1, i - 1)
           rear == SubSeq(s, i + 1, Len(s))
<1>1. Len(s) \in Nat /\ \A j \in 1 .. Len(s) : s[j] \in Modules
  BY ElementOfSeq, LenProperties
<1>2. /\ front \in Seq(Modules)
      /\ Len(front) = i - 1
      /\ \A j \in 1 .. i - 1 : front[j] = s[j]
  BY <1>1, SubSeqProperties
<1>3. /\ rear \in Seq(Modules)
      /\ Len(rear) = Len(s) - i
      /\ \A j \in 1 .. Len(s) - i : rear[j] = s[i + j]
  BY <1>1, SubSeqProperties
<1>4. RemoveAt(s, i) = front \o rear
  BY DEF RemoveAt
<1> HIDE DEF front, rear
<1>5. /\ front \o rear \in Seq(Modules)
      /\ Len(front \o rear) = Len(s) - 1
      /\ \A j \in 1 .. Len(s) - 1 :
           (front \o rear)[j] = IF j <= i - 1 THEN front[j] ELSE rear[j - (i - 1)]
  <2>1. Len(front) + Len(rear) = Len(s) - 1
    BY <1>1, <1>2, <1>3
  <2>2. /\ front \o rear \in Seq(Modules)
        /\ Len(front \o rear) = Len(front) + Len(rear)
        /\ \A j \in 1 .. Len(front) + Len(rear) :
             (front \o rear)[j] = IF j <= Len(front) THEN front[j] ELSE rear[j - Len(front)]
    BY <1>2, <1>3, ConcatProperties
  <2> QED
    BY <2>1, <2>2, <1>2
<1>6. ASSUME NEW j \in 1 .. Len(s) - 1
      PROVE  (front \o rear)[j] = IF j < i THEN s[j] ELSE s[j + 1]
  <2>1. CASE j < i
    BY <2>1, <1>1, <1>2, <1>5
  <2>2. CASE j >= i
    <3>1. j - (i - 1) \in 1 .. Len(s) - i /\ i + (j - (i - 1)) = j + 1
      BY <2>2, <1>1
    <3> QED
      BY <3>1, <2>2, <1>1, <1>3, <1>5
  <2>3. j < i \/ j >= i
    BY <1>1
  <2> QED
    BY <2>1, <2>2, <2>3
<1> QED
  BY <1>4, <1>5, <1>6

\* An element that is erased from a queue without doubles is no more in there.
LEMMA RemovalOfOne ==
  ASSUME NEW s \in Seq(Modules), NEW i \in 1 .. Len(s), IsInjective(s)
  PROVE  /\ IsInjective(RemoveAt(s, i))
         /\ ToSet(RemoveAt(s, i)) \subseteq ToSet(s) \ {s[i]}
<1> DEFINE t == RemoveAt(s, i)
           From(j) == IF j < i THEN j ELSE j + 1
<1>1. /\ t \in Seq(Modules)
      /\ Len(t) = Len(s) - 1
      /\ \A j \in 1 .. Len(s) - 1 : t[j] = IF j < i THEN s[j] ELSE s[j + 1]
  BY Removal
<1>2. Len(s) \in Nat /\ DOMAIN s = 1 .. Len(s) /\ DOMAIN t = 1 .. Len(s) - 1
  BY <1>1, LenProperties
<1> HIDE DEF t
<1>3. \A j \in DOMAIN t : From(j) \in DOMAIN s /\ From(j) # i /\ t[j] = s[From(j)]
  BY <1>1, <1>2
<1>4. \A j, k \in DOMAIN t : From(j) = From(k) => j = k
  BY <1>2
<1>5. IsInjective(t)
  BY <1>3, <1>4 DEF IsInjective
<1>6. ToSet(t) \subseteq ToSet(s) \ {s[i]}
  BY <1>2, <1>3 DEF ToSet, IsInjective
<1> QED
  BY <1>5, <1>6 DEF t

\* What a queue is to which a module was appended.
LEMMA Appended ==
  ASSUME NEW s \in Seq(Modules), NEW m \in Modules
  PROVE  /\ Append(s, m) \in Seq(Modules)
         /\ DOMAIN Append(s, m) = DOMAIN s \cup {Len(s) + 1}
         /\ \A k \in DOMAIN s : Append(s, m)[k] = s[k] /\ k <= Len(s)
         /\ Append(s, m)[Len(s) + 1] = m
         /\ ToSet(Append(s, m)) = ToSet(s) \cup {m}
         /\ \A k \in DOMAIN s : Before(Append(s, m), k) = Before(s, k)
         /\ Before(Append(s, m), Len(s) + 1) = ToSet(s)
<1> DEFINE a == Append(s, m)
<1>1. /\ a \in Seq(Modules)
      /\ Len(a) = Len(s) + 1
      /\ \A k \in 1 .. Len(s) : a[k] = s[k]
      /\ a[Len(s) + 1] = m
  BY AppendProperties
<1>2. Len(s) \in Nat /\ DOMAIN s = 1 .. Len(s) /\ DOMAIN a = 1 .. Len(s) + 1
  BY <1>1, LenProperties
<1> HIDE DEF a
<1>3. ToSet(a) = ToSet(s) \cup {m}
  BY <1>1, <1>2 DEF ToSet
<1>4. \A k \in DOMAIN s : Before(a, k) = Before(s, k)
  BY <1>1, <1>2 DEF Before
<1>5. Before(a, Len(s) + 1) = ToSet(s)
  BY <1>1, <1>2 DEF Before, ToSet
<1>6. DOMAIN a = DOMAIN s \cup {Len(s) + 1} /\ \A k \in DOMAIN s : a[k] = s[k] /\ k <= Len(s)
  BY <1>1, <1>2
<1> QED
  BY <1>1, <1>3, <1>4, <1>5, <1>6 DEF a
-----------------------------------------------------------------------------
\* A queue that is reversed stays a queue of modules.
LEMMA Reversed == \A s \in Seq(Modules) : Reverse(s) \in Seq(Modules)
<1> SUFFICES ASSUME NEW s \in Seq(Modules) PROVE Reverse(s) \in Seq(Modules)
  OBVIOUS
<1>1. Len(s) \in Nat /\ \A j \in 1 .. Len(s) : s[j] \in Modules
  BY ElementOfSeq, LenProperties
<1>2. \A j \in 1 .. Len(s) : s[(Len(s) - j) + 1] \in Modules
  BY <1>1
<1>3. [j \in 1 .. Len(s) |-> s[(Len(s) - j) + 1]] \in Seq(Modules)
  BY <1>1, <1>2, IsASeq
<1> QED
  BY <1>3 DEF Reverse

\* Where the loop stands in a round.
LEMMA RoundTypes ==
  ASSUME TypeOK, InRound
  PROVE  /\ phase \in 1 .. 5
         /\ iter \in 1 .. Len(loopQueue)
         /\ loopQueue[iter] \in Modules
         /\ loopQueue[iter] \in ToSet(loopQueue)
         /\ Name \in ToSet(Phases)
<1>1. Len(loopQueue) \in Nat /\ DOMAIN loopQueue = 1 .. Len(loopQueue)
  BY LenProperties DEF TypeOK
<1>2. iter \in 1 .. Len(loopQueue)
  BY <1>1 DEF TypeOK, InRound
<1>3. phase \in 1 .. 5
  BY PhaseNames DEF TypeOK, InRound, Done
<1>4. loopQueue[iter] \in Modules
  BY <1>2, ElementOfSeq DEF TypeOK
<1>5. Name \in ToSet(Phases)
  BY <1>3, PhaseNames
<1> QED
  BY <1>1, <1>2, <1>3, <1>4, <1>5 DEF ToSet

\* Who was waited for and is in the queue came first: the failed ones are not in it.
LEMMA FilledExpected ==
  ASSUME TypeOK, FilledByState, FilledInOrder
  PROVE  ExpectedFirst(Name, Filled)
<1> SUFFICES ASSUME NEW k \in DOMAIN Filled,
                    NEW n \in expectOn[Name][Filled[k]] \cap ToSet(Filled)
             PROVE  n \in Before(Filled, k)
  BY DEF ExpectedFirst
<1>1. Filled \in Seq(Modules)
  BY DEF TypeOK, Filled
<1>2. n \in Modules
  BY <1>1, ElementOfSeq, LenProperties DEF ToSet
<1>3. state[n] = Did(Name)
  BY <1>2 DEF FilledByState
<1> QED
  BY <1>2, <1>3, StatesDiffer DEF FilledInOrder

LEMMA InitInv == Init => IInv
<1> SUFFICES ASSUME Init PROVE IInv
  OBVIOUS
<1>1. Name = "init" /\ Filled = <<>>
  BY PhaseNames DEF Init, Filled
<1>2. /\ loopQueue \in Seq(Modules)
      /\ IsInjective(loopQueue)
      /\ Len(loopQueue) \in Nat
  BY LifecycleAssumption, LenProperties DEF Init, LifecycleAssumption
<1>3. <<>> \in Seq(Modules) /\ DOMAIN <<>> = {} /\ ToSet(<<>>) = {}
  BY EmptySeq DEF ToSet
<1>4. TypeOK
  <2>1. state \in [Modules -> {Did(p) : p \in ToSet(Phases)}]
    BY PhaseNames DEF Init
  <2>2. /\ expectOn \in [Waiting -> [Modules -> SUBSET (Modules \cup {Absent})]]
        /\ dependOn \in [Waiting -> [Modules -> SUBSET (Modules \cup {Absent})]]
    BY LifecycleAssumption DEF Init, LifecycleAssumption
  <2>3. state \in [Modules -> {Failed} \cup {Doing(p) : p \in ToSet(Phases)}
                                         \cup {Did(p) : p \in ToSet(Phases)}]
    BY <2>1
  <2>4. phase \in 1 .. Len(Phases) + 1 /\ iter \in 1 .. Len(loopQueue) + 1
    BY <1>2, PhaseNames DEF Init
  <2> QED
    BY <2>2, <2>3, <2>4, <1>2, <1>3 DEF Init, TypeOK
<1>5. FilledByState
  <2>1. \A m \in Modules : state[m] # Did(Name) /\ state[m] # Failed
    BY <1>1, StatesDiffer DEF Init
  <2>2. ToSet(loopQueue) \subseteq Modules
    BY <1>2, ElementOfSeq, LenProperties DEF ToSet
  <2> QED
    BY <2>1, <2>2, <1>1, <1>2, <1>3 DEF FilledByState, IsInjective
<1>6. FilledInOrder
  BY <1>1, <1>3 DEF FilledInOrder
<1>7. startQueue = <<>> /\ \A m \in Modules : state[m] # Did("start")
  BY StatesDiffer DEF Init
<1> QED
  BY <1>4, <1>5, <1>6, <1>7 DEF IInv, Init
-----------------------------------------------------------------------------
\* The part of TypeOK that a call of a module's function can disturb.
LEMMA CallTypes ==
  ASSUME TypeOK, InRound,
         NEW new \in {Failed} \cup {Doing(p) : p \in ToSet(Phases)} \cup {Did(p) : p \in ToSet(Phases)},
         state' = [state EXCEPT ![loopQueue[iter]] = new],
         \/ loopQueue' = Erased /\ iter' = iter
         \/ loopQueue' = loopQueue /\ iter' = iter + 1,
         initQueue' \in Seq(Modules), startQueue' \in Seq(Modules),
         UNCHANGED <<expectOn, dependOn, phase, quit>>
  PROVE  TypeOK'
<1>1. loopQueue \in Seq(Modules) /\ Len(loopQueue) \in Nat /\ iter \in 1 .. Len(loopQueue)
  BY RoundTypes, LenProperties DEF TypeOK
<1>2. loopQueue' \in Seq(Modules) /\ iter' \in 1 .. Len(loopQueue') + 1
  <2>1. CASE loopQueue' = Erased /\ iter' = iter
    <3>1. Erased \in Seq(Modules) /\ Len(Erased) = Len(loopQueue) - 1
      BY <1>1, Removal DEF Erased
    <3> QED
      BY <2>1, <3>1, <1>1
  <2>2. CASE loopQueue' = loopQueue /\ iter' = iter + 1
    BY <2>2, <1>1
  <2> QED
    BY <2>1, <2>2
<1>3. state' \in [Modules -> {Failed} \cup {Doing(p) : p \in ToSet(Phases)}
                                       \cup {Did(p) : p \in ToSet(Phases)}]
  BY DEF TypeOK
<1> QED
  BY <1>2, <1>3 DEF TypeOK

\* A call in init or start after which the module is not in Filled.
LEMMA NotFilledInv ==
  ASSUME TypeOK, InRound, phase <= 2, FilledByState, FilledInOrder,
         NEW new, \A p : new # Did(p),
         state' = [state EXCEPT ![loopQueue[iter]] = new],
         \/ loopQueue' = Erased
         \/ loopQueue' = loopQueue /\ new # Failed,
         UNCHANGED <<expectOn, dependOn, phase, initQueue, startQueue>>
  PROVE  FilledByState' /\ FilledInOrder'
<1> DEFINE m == loopQueue[iter]
<1>1. /\ m \in Modules /\ m \in ToSet(loopQueue)
      /\ iter \in 1 .. Len(loopQueue)
      /\ loopQueue \in Seq(Modules)
      /\ state \in [Modules -> {Failed} \cup {Doing(p) : p \in ToSet(Phases)}
                                         \cup {Did(p) : p \in ToSet(Phases)}]
  BY RoundTypes DEF TypeOK
<1>2. Name' = Name /\ Filled' = Filled
  BY DEF Name, Filled
<1>3. state[m] \notin {Did(Name), Failed} /\ m \notin ToSet(Filled)
  BY <1>1 DEF FilledByState
<1>4. state'[m] = new /\ \A n \in Modules \ {m} : state'[n] = state[n]
  BY <1>1
<1>5. /\ IsInjective(loopQueue')
      /\ ToSet(loopQueue') \subseteq ToSet(loopQueue)
      /\ new # Failed \/ m \notin ToSet(loopQueue')
  <2>1. IsInjective(loopQueue)
    BY DEF FilledByState
  <2>2. /\ IsInjective(Erased)
        /\ ToSet(Erased) \subseteq ToSet(loopQueue) \ {m}
    BY <1>1, <2>1, RemovalOfOne DEF Erased
  <2> QED
    BY <2>1, <2>2
<1> HIDE DEF m
<1>6. ToSet(loopQueue) \subseteq Modules
  BY <1>1, ElementOfSeq, LenProperties DEF ToSet
<1>7. FilledByState'
  <2>1. \A n \in Modules : n \in ToSet(Filled) <=> state'[n] = Did(Name)
    BY <1>3, <1>4 DEF FilledByState
  <2>2. \A n \in ToSet(loopQueue') : state'[n] \notin {Did(Name), Failed}
    BY <1>4, <1>5, <1>6 DEF FilledByState
  <2> QED
    BY <2>1, <2>2, <1>2, <1>5 DEF FilledByState
<1>8. FilledInOrder'
  <2>1. \A n \in Modules : state[n] = Failed => state'[n] = Failed
    BY <1>3, <1>4
  <2>2. SUFFICES ASSUME NEW k \in DOMAIN Filled
                 PROVE  /\ dependOn[Name][Filled[k]] \subseteq Before(Filled, k)
                        /\ \A n \in expectOn[Name][Filled[k]] \cap Modules :
                              state'[n] = Failed \/ n \in Before(Filled, k)
    BY <1>2 DEF FilledInOrder, Before
  <2> QED
    BY <2>1 DEF FilledInOrder
<1> QED
  BY <1>7, <1>8

\* What IInv says of the phases after start rests on what no call changes.
LEMMA LaterInv ==
  ASSUME IInv, phase > 2, TypeOK',
         UNCHANGED <<expectOn, dependOn, phase, initQueue, startQueue>>
  PROVE  IInv'
<1>1. phase \in Nat
  BY PhaseNames DEF IInv, TypeOK
<1>2. ExpectedFirst("init", initQueue)'
  BY <1>1 DEF IInv, ExpectedFirst, Before, ToSet
<1>3. phase' = 3 => StartedAfterDependencies' /\ AfterExpected'
  BY DEF IInv, StartedAfterDependencies, AfterExpected, ExpectedFirst, Before, ToSet, Name, Done
<1> QED
  BY <1>1, <1>2, <1>3 DEF IInv

LEMMA CallPendingInv == IInv /\ CallPending => IInv'
<1> SUFFICES ASSUME IInv, CallPending PROVE IInv'
  OBVIOUS
<1>1. TypeOK /\ InRound /\ Name \in ToSet(Phases) /\ phase \in 1 .. 5
  BY RoundTypes DEF IInv, CallPending
<1>2. TypeOK'
  <2>1. /\ Doing(Name) \in {Doing(p) : p \in ToSet(Phases)}
        /\ initQueue' \in Seq(Modules) /\ startQueue' \in Seq(Modules)
    BY <1>1 DEF CallPending, TypeOK
  <2> QED
    BY <1>1, <2>1, CallTypes DEF CallPending
<1>3. CASE phase > 2
  BY <1>2, <1>3, LaterInv DEF CallPending
<1>4. CASE phase <= 2
  <2>1. FilledByState' /\ FilledInOrder'
    <3>1. /\ state' = [state EXCEPT ![loopQueue[iter]] = Doing(Name)]
          /\ \A p : Doing(Name) # Did(p)
          /\ loopQueue' = loopQueue /\ Doing(Name) # Failed
          /\ UNCHANGED <<expectOn, dependOn, phase, initQueue, startQueue>>
      BY StatesDiffer DEF CallPending
    <3>2. FilledByState /\ FilledInOrder
      BY <1>4 DEF IInv
    <3> QED
      BY <1>1, <1>4, <3>1, <3>2, NotFilledInv
  <2>2. ExpectedFirst("init", initQueue)' <=> ExpectedFirst("init", initQueue)
    BY DEF CallPending, ExpectedFirst, Before, ToSet
  <2>3. (\A m \in Modules : state[m] # Did("start")) => \A m \in Modules : state'[m] # Did("start")
    BY <1>1, StatesDiffer DEF CallPending, TypeOK
  <2> QED
    BY <1>1, <1>2, <1>4, <2>1, <2>2, <2>3 DEF IInv, CallPending
<1> QED
  BY <1>1, <1>3, <1>4

LEMMA CallFailsInv == IInv /\ CallFails => IInv'
<1> SUFFICES ASSUME IInv, CallFails PROVE IInv'
  OBVIOUS
<1>1. TypeOK /\ InRound /\ Name \in ToSet(Phases) /\ phase \in 1 .. 5
  BY RoundTypes DEF IInv, CallFails
<1>2. TypeOK'
  <2>1. initQueue' \in Seq(Modules) /\ startQueue' \in Seq(Modules)
    BY <1>1 DEF CallFails, TypeOK
  <2> QED
    BY <1>1, <2>1, CallTypes DEF CallFails
<1>3. CASE phase > 2
  BY <1>2, <1>3, LaterInv DEF CallFails
<1>4. CASE phase <= 2
  <2>1. FilledByState' /\ FilledInOrder'
    BY <1>1, <1>4, StatesDiffer, NotFilledInv, ZenonT(30) DEF IInv, CallFails
  <2>2. ExpectedFirst("init", initQueue)' <=> ExpectedFirst("init", initQueue)
    BY DEF CallFails, ExpectedFirst, Before, ToSet
  <2>3. (\A m \in Modules : state[m] # Did("start")) => \A m \in Modules : state'[m] # Did("start")
    BY <1>1, StatesDiffer DEF CallFails, TypeOK
  <2> QED
    BY <1>1, <1>2, <1>4, <2>1, <2>2, <2>3 DEF IInv, CallFails
<1> QED
  BY <1>1, <1>3, <1>4

\* A module that succeeds in init or start enters the queue behind all it waited for.
LEMMA CallSucceedsFilled ==
  ASSUME IInv, phase <= 2, CallSucceeds
  PROVE  FilledByState' /\ FilledInOrder'
<1> DEFINE m == loopQueue[iter]
<1>1. /\ TypeOK /\ InRound /\ FilledByState /\ FilledInOrder
      /\ phase = 1 \/ phase = 2
      /\ m \in Modules /\ m \in ToSet(loopQueue)
      /\ iter \in 1 .. Len(loopQueue)
      /\ loopQueue \in Seq(Modules)
      /\ Filled \in Seq(Modules)
  <2>1. TypeOK /\ InRound /\ FilledByState /\ FilledInOrder
    BY DEF IInv, CallSucceeds
  <2>2. loopQueue \in Seq(Modules) /\ Filled \in Seq(Modules)
    BY <2>1 DEF TypeOK, Filled
  <2> QED
    BY <2>1, <2>2, RoundTypes
<1>2. Name \in Waiting /\ Name' = Name
  BY <1>1, PhaseNames DEF Waiting, CallSucceeds, Name
<1>3. Filled' = Append(Filled, m)
  BY <1>1, <1>2, PhaseNames DEF CallSucceeds, Filled, Name
<1>4. state[m] \notin {Did(Name), Failed} /\ m \notin ToSet(Filled)
  BY <1>1 DEF FilledByState
<1>5. state'[m] = Did(Name) /\ \A n \in Modules \ {m} : state'[n] = state[n]
  BY <1>1 DEF CallSucceeds, TypeOK
<1>6. ~Expects(m) /\ ~Depends(m) /\ ~DependsOnFailed(m)
  BY DEF CallSucceeds, Answer
<1>7. /\ IsInjective(loopQueue')
      /\ ToSet(loopQueue') \subseteq ToSet(loopQueue) \ {m}
  BY <1>1, RemovalOfOne DEF CallSucceeds, Erased, FilledByState
<1>8. UNCHANGED <<expectOn, dependOn>>
  BY DEF CallSucceeds
<1> HIDE DEF m
<1>9. /\ DOMAIN Filled' = DOMAIN Filled \cup {Len(Filled) + 1}
      /\ \A k \in DOMAIN Filled : Filled'[k] = Filled[k] /\ k <= Len(Filled)
      /\ Filled'[Len(Filled) + 1] = m
      /\ ToSet(Filled') = ToSet(Filled) \cup {m}
      /\ \A k \in DOMAIN Filled : Before(Filled', k) = Before(Filled, k)
      /\ Before(Filled', Len(Filled) + 1) = ToSet(Filled)
  BY <1>1, <1>3, Appended
<1>10. FilledByState'
  <2>1. \A n \in Modules : n \in ToSet(Filled') <=> state'[n] = Did(Name)
    BY <1>4, <1>5, <1>9, <1>1 DEF FilledByState
  <2>2. ToSet(loopQueue) \subseteq Modules
    BY <1>1, ElementOfSeq, LenProperties DEF ToSet
  <2>3. \A n \in ToSet(loopQueue') : state'[n] \notin {Did(Name), Failed}
    BY <2>2, <1>5, <1>7, <1>1 DEF FilledByState
  <2>4. \A k \in DOMAIN Filled : Filled[k] # m
    BY <1>4 DEF ToSet
  <2>5. IsInjective(Filled')
    BY <2>4, <1>9, <1>1 DEF FilledByState, IsInjective
  <2> QED
    BY <2>1, <2>3, <2>5, <1>2, <1>7 DEF FilledByState
<1>11. FilledInOrder'
  <2>1. SUFFICES ASSUME NEW k \in DOMAIN Filled'
                 PROVE  /\ dependOn[Name][Filled'[k]] \subseteq Before(Filled', k)
                        /\ \A n \in expectOn[Name][Filled'[k]] \cap Modules :
                              state'[n] = Failed \/ n \in Before(Filled', k)
    BY <1>2, <1>8 DEF FilledInOrder, Before
  <2>2. CASE k \in DOMAIN Filled
    <3>1. \A n \in Modules : state[n] = Failed => state'[n] = Failed
      BY <1>4, <1>5
    <3> QED
      BY <2>2, <3>1, <1>9, <1>1 DEF FilledInOrder
  <2>3. CASE k = Len(Filled) + 1
    <3>1. dependOn[Name][m] \subseteq Modules \cup {Absent}
      BY <1>1, <1>2 DEF TypeOK
    <3>2. \A n \in dependOn[Name][m] : n \in Modules /\ state[n] = Did(Name)
      BY <3>1, <1>2, <1>6 DEF Depends, DependsOnFailed
    <3>3. dependOn[Name][m] \subseteq ToSet(Filled)
      BY <3>2, <1>1 DEF FilledByState
    <3>4. \A n \in expectOn[Name][m] \cap Modules : state[n] \in {Did(Name), Failed}
      BY <1>2, <1>6 DEF Expects
    <3>5. \A n \in expectOn[Name][m] \cap Modules : state'[n] = Failed \/ n \in ToSet(Filled)
      BY <3>4, <1>4, <1>5, <1>1 DEF FilledByState
    <3> QED
      BY <2>3, <3>3, <3>5, <1>9
  <2> QED
    BY <2>1, <2>2, <2>3, <1>9
<1> QED
  BY <1>10, <1>11

LEMMA CallSucceedsInv == IInv /\ CallSucceeds => IInv'
<1> SUFFICES ASSUME IInv, CallSucceeds PROVE IInv'
  OBVIOUS
<1>1. /\ TypeOK /\ InRound /\ Name \in ToSet(Phases) /\ phase \in 1 .. 5
      /\ loopQueue[iter] \in Modules
  BY RoundTypes DEF IInv, CallSucceeds
<1>2. TypeOK'
  <2>1. /\ Did(Name) \in {Did(p) : p \in ToSet(Phases)}
        /\ initQueue' \in Seq(Modules) /\ startQueue' \in Seq(Modules)
    BY <1>1, AppendProperties DEF CallSucceeds, TypeOK
  <2> QED
    BY <1>1, <2>1, CallTypes DEF CallSucceeds
<1>3. CASE phase > 2
  <2>1. UNCHANGED <<initQueue, startQueue>>
    BY <1>1, <1>3, PhaseNames DEF CallSucceeds
  <2> QED
    BY <2>1, <1>2, <1>3, LaterInv DEF CallSucceeds
<1>4. CASE phase = 1
  <2>1. FilledByState' /\ FilledInOrder'
    BY <1>4, CallSucceedsFilled
  <2>2. startQueue' = <<>>
    BY <1>4, PhaseNames DEF CallSucceeds, IInv
  <2>3. \A m \in Modules : state'[m] # Did("start")
    BY <1>1, <1>4, StatesDiffer, PhaseNames DEF CallSucceeds, IInv, TypeOK
  <2> QED
    BY <1>2, <1>4, <2>1, <2>2, <2>3 DEF IInv, CallSucceeds
<1>5. CASE phase = 2
  <2>1. FilledByState' /\ FilledInOrder'
    BY <1>5, CallSucceedsFilled
  <2>2. initQueue' = initQueue
    BY <1>5, PhaseNames DEF CallSucceeds
  <2>3. ExpectedFirst("init", initQueue)'
    BY <2>2, <1>5 DEF IInv, CallSucceeds, ExpectedFirst, Before, ToSet
  <2> QED
    BY <1>2, <1>5, <2>1, <2>3 DEF IInv, CallSucceeds
<1> QED
  BY <1>1, <1>3, <1>4, <1>5

\* The iterator and m_quit are not spoken of outside TypeOK.
LEMMA Unmoved ==
  ASSUME IInv, TypeOK',
         UNCHANGED <<expectOn, dependOn, phase, loopQueue, initQueue, startQueue, state>>
  PROVE  IInv'
<1>1. Name' = Name /\ Done' = Done /\ Filled' = Filled
  BY DEF Name, Done, Filled
<1>2. FilledByState' <=> FilledByState
  BY <1>1 DEF FilledByState, ToSet, IsInjective
<1>3. FilledInOrder' <=> FilledInOrder
  BY <1>1 DEF FilledInOrder, Before
<1>4. \A p : ExpectedFirst(p, initQueue)' <=> ExpectedFirst(p, initQueue)
  BY DEF ExpectedFirst, Before, ToSet
<1>5. \A p : ExpectedFirst(p, startQueue)' <=> ExpectedFirst(p, startQueue)
  BY DEF ExpectedFirst, Before, ToSet
<1>6. StartedAfterDependencies' <=> StartedAfterDependencies
  BY <1>1 DEF StartedAfterDependencies, Before
<1>7. AfterExpected' <=> AfterExpected
  BY <1>1, <1>4, <1>5 DEF AfterExpected
<1> QED
  BY <1>2, <1>3, <1>4, <1>6, <1>7 DEF IInv

LEMMA NextRoundInv == IInv /\ NextRound => IInv'
<1> SUFFICES ASSUME IInv, NextRound PROVE IInv'
  OBVIOUS
<1>1. Len(loopQueue) \in Nat
  BY LenProperties DEF IInv, TypeOK
<1>2. TypeOK'
  BY <1>1 DEF IInv, TypeOK, NextRound
<1> QED
  BY <1>2, Unmoved DEF NextRound

LEMMA StopInv == IInv /\ Stop => IInv'
<1> SUFFICES ASSUME IInv, Stop PROVE IInv'
  OBVIOUS
<1>1. TypeOK'
  BY DEF IInv, TypeOK, Stop
<1> QED
  BY <1>1, Unmoved DEF Stop

LEMMA StutterInv == IInv /\ UNCHANGED vars => IInv'
<1> SUFFICES ASSUME IInv, UNCHANGED vars PROVE IInv'
  OBVIOUS
<1>1. TypeOK'
  BY DEF IInv, TypeOK, vars
<1> QED
  BY <1>1, Unmoved DEF vars

LEMMA NextPhaseInv == IInv /\ NextPhase => IInv'
<1> SUFFICES ASSUME IInv, NextPhase PROVE IInv'
  OBVIOUS
<1>1. /\ TypeOK /\ phase \in 1 .. 5
      /\ initQueue \in Seq(Modules) /\ startQueue \in Seq(Modules)
      /\ state \in [Modules -> {Failed} \cup {Doing(p) : p \in ToSet(Phases)}
                                         \cup {Did(p) : p \in ToSet(Phases)}]
  BY PhaseNames DEF IInv, TypeOK, NextPhase, BetweenRounds, Done
<1>2. TypeOK'
  <2>1. startQueue' \in Seq(Modules)
    BY <1>1, Reversed DEF NextPhase
  <2>2. loopQueue' \in Seq(Modules)
    <3>1. <<>> \in Seq(Modules)
      BY EmptySeq
    <3> QED
      BY <1>1, <2>1, <3>1 DEF NextPhase
  <2>3. iter' \in 1 .. Len(loopQueue') + 1
    BY <2>2, LenProperties DEF NextPhase
  <2>4. phase' \in 1 .. Len(Phases) + 1
    BY <1>1, PhaseNames DEF NextPhase
  <2> QED
    BY <1>1, <2>1, <2>2, <2>3, <2>4 DEF TypeOK, NextPhase
<1>3. CASE phase = 1
  <2>1. /\ FilledByState /\ FilledInOrder /\ startQueue = <<>>
        /\ \A m \in Modules : state[m] # Did("start")
        /\ Name = "init" /\ Filled = initQueue
    BY <1>3, PhaseNames DEF IInv, Filled
  <2>2. phase' = 2 /\ Name' = "start" /\ startQueue' = <<>> /\ loopQueue' = initQueue
    BY <1>3, <2>1 DEF NextPhase, Name, Phases
  <2>3. Filled' = <<>>
    BY <2>2 DEF Filled
  <2>4. DOMAIN <<>> = {} /\ ToSet(<<>>) = {}
    BY DEF ToSet
  <2>5. FilledByState'
    <3>1. ToSet(initQueue) \subseteq Modules
      BY <1>1, ElementOfSeq, LenProperties DEF ToSet
    <3>2. \A m \in ToSet(initQueue) : state[m] \notin {Did("start"), Failed}
      BY <2>1, <3>1, StatesDiffer DEF FilledByState
    <3>3. IsInjective(initQueue) /\ IsInjective(<<>>)
      BY <2>1, <2>4 DEF FilledByState, IsInjective
    <3> QED
      BY <2>1, <2>2, <2>3, <2>4, <3>2, <3>3 DEF FilledByState, NextPhase
  <2>6. FilledInOrder'
    BY <2>3, <2>4 DEF FilledInOrder
  <2>7. ExpectedFirst("init", initQueue)
    BY <1>1, <2>1, FilledExpected
  <2>8. ExpectedFirst("init", initQueue)'
    BY <2>7 DEF NextPhase, ExpectedFirst, Before, ToSet
  <2> QED
    BY <1>2, <2>2, <2>5, <2>6, <2>8 DEF IInv
<1>4. CASE phase = 2
  <2>1. /\ FilledByState /\ FilledInOrder
        /\ ExpectedFirst("init", initQueue)
        /\ Name = "start" /\ Filled = startQueue
    BY <1>4, PhaseNames DEF IInv, Filled
  <2>2. phase' = 3 /\ startQueue' = startQueue
    BY <1>4, <2>1 DEF NextPhase
  <2>3. ExpectedFirst("start", startQueue)
    BY <1>1, <2>1, FilledExpected
  <2>4. ExpectedFirst("init", initQueue)' /\ ExpectedFirst("start", startQueue)'
    BY <2>1, <2>2, <2>3 DEF NextPhase, ExpectedFirst, Before, ToSet
  <2>5. StartedAfterDependencies'
    BY <2>1, <2>2 DEF NextPhase, StartedAfterDependencies, FilledInOrder, Before
  <2> QED
    BY <1>2, <2>2, <2>4, <2>5 DEF IInv, AfterExpected
<1>5. CASE phase > 2
  <2>1. phase' > 3
    BY <1>1, <1>5 DEF NextPhase
  <2>2. ExpectedFirst("init", initQueue)'
    BY <1>1, <1>5, SMTT(20) DEF IInv, NextPhase, ExpectedFirst, Before, ToSet
  <2> QED
    BY <1>1, <1>2, <2>1, <2>2 DEF IInv, NextPhase
<1> QED
  BY <1>1, <1>3, <1>4, <1>5

LEMMA NextInv == IInv /\ [Next]_vars => IInv'
  BY CallSucceedsInv, CallPendingInv, CallFailsInv, NextRoundInv, NextPhaseInv, StopInv, StutterInv
     DEF Next, Loop
-----------------------------------------------------------------------------
\* The inductive invariant holds in every state of every execution.
LEMMA Invariance == Spec => []IInv
  BY InitInv, NextInv, PTL DEF Spec

\* The type invariant: the iterator never leaves the queue it walks and shortens.
THEOREM TypeCorrect == Spec => []TypeOK
<1>1. IInv => TypeOK
  BY DEF IInv
<1> QED
  BY <1>1, Invariance, PTL

\* Server::loop with DEPEND_ON: a module is started only after all it depends on, for
\* any modules, relations, order of addModel and failures, and also if they are cyclic.
THEOREM DependenciesFirst == Spec => []StartedAfterDependencies
<1>1. ASSUME IInv PROVE StartedAfterDependencies
  <2>1. SUFFICES ASSUME ~Done, Name \in {"start", "update"}
                 PROVE  StartedAfterDependencies
    BY DEF StartedAfterDependencies
  <2>2. phase = 2 \/ phase = 3
    BY <1>1, <2>1, PhaseNames DEF IInv, TypeOK, Done
  <2>3. CASE phase = 2
    BY <1>1, <2>3, PhaseNames DEF IInv, FilledInOrder, Filled, StartedAfterDependencies
  <2> QED
    BY <1>1, <2>2, <2>3 DEF IInv
<1> QED
  BY <1>1, Invariance, PTL

\* Server::loop with EXPECT_ON: in init and in start a module comes after those it
\* expects, except for those that fail.
THEOREM ExpectedBefore == Spec => []AfterExpected
<1>1. ASSUME IInv PROVE AfterExpected
  <2>1. TypeOK /\ phase \in 1 .. 6
    BY <1>1, PhaseNames DEF IInv, TypeOK
  <2>2. ExpectedFirst("init", initQueue)
    <3>1. CASE phase = 1
      <4>1. Name = "init" /\ Filled = initQueue /\ FilledByState /\ FilledInOrder
        BY <1>1, <3>1, PhaseNames DEF IInv, Filled
      <4> QED
        BY <2>1, <4>1, FilledExpected
    <3> QED
      BY <1>1, <2>1, <3>1 DEF IInv
  <2>3. ASSUME ~Done, Name \in {"start", "update"}
        PROVE  ExpectedFirst("start", startQueue)
    <3>1. phase = 2 \/ phase = 3
      BY <2>1, <2>3, PhaseNames DEF Done
    <3>2. CASE phase = 2
      <4>1. Name = "start" /\ Filled = startQueue /\ FilledByState /\ FilledInOrder
        BY <1>1, <3>2, PhaseNames DEF IInv, Filled
      <4> QED
        BY <2>1, <4>1, FilledExpected
    <3>3. CASE phase = 3
      BY <1>1, <2>3, <3>3 DEF IInv, AfterExpected
    <3> QED
      BY <3>1, <3>2, <3>3
  <2> QED
    BY <2>2, <2>3 DEF AfterExpected
<1> QED
  BY <1>1, Invariance, PTL
-----------------------------------------------------------------------------
\* Nothing but the one element leaves a queue from which it is erased.
LEMMA RemovalKeeps ==
  ASSUME NEW s \in Seq(Modules), NEW i \in 1 .. Len(s)
  PROVE  ToSet(s) \ {s[i]} \subseteq ToSet(RemoveAt(s, i))
<1> DEFINE t == RemoveAt(s, i)
<1>1. /\ t \in Seq(Modules)
      /\ Len(t) = Len(s) - 1
      /\ \A j \in 1 .. Len(s) - 1 : t[j] = IF j < i THEN s[j] ELSE s[j + 1]
  BY Removal
<1>2. Len(s) \in Nat /\ DOMAIN s = 1 .. Len(s) /\ DOMAIN t = 1 .. Len(s) - 1
  BY <1>1, LenProperties
<1> HIDE DEF t
<1>3. ASSUME NEW k \in 1 .. Len(s), k # i
      PROVE  \E j \in 1 .. Len(s) - 1 : t[j] = s[k]
  <2>1. CASE k < i
    <3>1. k \in 1 .. Len(s) - 1 /\ t[k] = s[k]
      BY <1>1, <1>2, <2>1
    <3> QED
      BY <3>1
  <2>2. CASE k > i
    <3>1. k - 1 \in 1 .. Len(s) - 1 /\ ~(k - 1 < i) /\ (k - 1) + 1 = k
      BY <1>2, <2>2
    <3>2. t[k - 1] = s[k]
      BY <1>1, <3>1
    <3> QED
      BY <3>1, <3>2
  <2> QED
    BY <1>2, <1>3, <2>1, <2>2
<1>4. ToSet(s) \ {s[i]} \subseteq ToSet(t)
  BY <1>2, <1>3 DEF ToSet
<1> QED
  BY <1>4 DEF t

\* A phase of Server::run in which every call that ends takes its module out of the
\* loop: whoever is not left in there has ended with one of the two results.
LEMMA ReleasedInv ==
  ASSUME IInv, ReleasedOrLeft, EndsReleased, [Next]_vars
  PROVE  ReleasedOrLeft' /\ EndsReleased'
<1> DEFINE End == {Did("release"), Failed}
           m == loopQueue[iter]
<1>1. TypeOK /\ phase \in 1 .. 6
  BY PhaseNames DEF IInv, TypeOK
<1>2. startQueue \in Seq(Modules) /\ loopQueue \in Seq(Modules) /\ ToSet(startQueue) \subseteq Modules
  BY <1>1, ElementOfSeq, LenProperties DEF TypeOK, ToSet
<1>3. DOMAIN startQueue = 1 .. Len(startQueue)
  BY <1>2, LenProperties
<1>4. Done <=> phase = 6
  BY <1>1, PhaseNames DEF Done
<1>5. EndsReleased <=> (phase = 6 => \A n \in ToSet(startQueue) : state[n] \in End)
  BY <1>4 DEF EndsReleased, ToSet
<1>6. Done' <=> phase' = 6
  BY <1>1, PhaseNames, NextInv, SMTT(20) DEF Done, IInv, TypeOK
<1>7. EndsReleased' <=> (phase' = 6 => \A n \in ToSet(startQueue') : state'[n] \in End)
  BY <1>6 DEF EndsReleased, ToSet
<1>8. ASSUME InRound, phase' = phase,
             phase = 5 => startQueue' = startQueue,
             NEW new, state' = [state EXCEPT ![m] = new],
             \/ loopQueue' = loopQueue
             \/ loopQueue' = Erased /\ (phase = 5 => new \in End)
      PROVE  ReleasedOrLeft' /\ EndsReleased'
  <2>1. phase \in 1 .. 5 /\ iter \in 1 .. Len(loopQueue) /\ m \in Modules /\ m \in ToSet(loopQueue)
    BY <1>1, <1>8, RoundTypes
  <2>2. ASSUME phase = 5, NEW n \in ToSet(startQueue)
        PROVE  n \in ToSet(loopQueue') \/ state'[n] \in End
    <3>1. state'[m] = new /\ (n # m => state'[n] = state[n])
      BY <1>1, <1>2, <1>8, <2>1 DEF TypeOK
    <3>2. n \in ToSet(loopQueue) \/ state[n] \in End
      BY <2>2 DEF ReleasedOrLeft
    <3>3. CASE loopQueue' = loopQueue
      BY <3>1, <3>2, <3>3, <2>1
    <3>4. CASE loopQueue' = Erased /\ (phase = 5 => new \in End)
      <4>1. ToSet(loopQueue) \ {m} \subseteq ToSet(Erased)
        BY <1>2, <2>1, RemovalKeeps DEF Erased
      <4> QED
        BY <3>1, <3>2, <3>4, <4>1, <2>2
    <3> QED
      BY <3>3, <3>4, <1>8
  <2> HIDE DEF m, End
  <2> QED
    BY <2>1, <2>2, <1>7, <1>8 DEF ReleasedOrLeft, ToSet, End
<1>9. CASE CallSucceeds
  <2>1. phase = 5 => Name = "release" /\ startQueue' = startQueue
    BY <1>9, PhaseNames DEF CallSucceeds
  <2> QED
    BY <2>1, <1>8, <1>9 DEF CallSucceeds
<1>10. CASE CallPending
  BY <1>8, <1>10 DEF CallPending
<1>11. CASE CallFails
  BY <1>8, <1>11 DEF CallFails
<1>12. CASE NextPhase
  <2>1. phase' = phase + 1 /\ state' = state /\ phase \in 1 .. 5
    BY <1>1, <1>4, <1>12 DEF NextPhase, BetweenRounds
  <2>2. phase = 4 => loopQueue' = startQueue'
    BY <1>12, PhaseNames DEF NextPhase
  <2>3. phase = 5 => loopQueue = <<>> /\ startQueue' = startQueue
    BY <1>12, PhaseNames DEF NextPhase, PhaseEnds
  <2>4. ToSet(<<>>) = {}
    BY DEF ToSet
  <2>5. ReleasedOrLeft'
    BY <2>1, <2>2 DEF ReleasedOrLeft, ToSet
  <2>6. phase = 5 => \A n \in ToSet(startQueue) : state[n] \in End
    BY <2>3, <2>4 DEF ReleasedOrLeft
  <2> QED
    BY <2>1, <2>3, <2>5, <2>6, <1>7
<1>13. CASE NextRound \/ Stop \/ UNCHANGED vars
  <2>1. UNCHANGED <<phase, startQueue, loopQueue, state>>
    BY <1>13 DEF NextRound, Stop, vars
  <2> QED
    BY <2>1, <1>5, <1>7 DEF ReleasedOrLeft, ToSet
<1> QED
  BY <1>9, <1>10, <1>11, <1>12, <1>13 DEF Next, Loop

\* Server::run: whatever failed and whenever it was told to stop, at its end every
\* module that was started has been released, or has failed.
THEOREM AllReleased == Spec => []EndsReleased
<1>1. Init => ReleasedOrLeft /\ EndsReleased
  BY PhaseNames DEF Init, ReleasedOrLeft, EndsReleased, Done
<1>2. IInv /\ (ReleasedOrLeft /\ EndsReleased) /\ [Next]_vars => (ReleasedOrLeft /\ EndsReleased)'
  BY ReleasedInv
<1> QED
  BY <1>1, <1>2, Invariance, PTL DEF Spec
-----------------------------------------------------------------------------
\* The queue of stop, as the reversal of a queue in which the modules come after their
\* dependencies.
LEMMA ReversedOrder ==
  ASSUME NEW s \in Seq(Modules), NEW depends,
         \A k \in DOMAIN s : depends[s[k]] \subseteq Before(s, k)
  PROVE  LET r == Reverse(s)
         IN \A k \in DOMAIN r : depends[r[k]] \subseteq {r[j] : j \in k + 1 .. Len(r)}
<1> DEFINE r == Reverse(s)
<1>1. Len(s) \in Nat /\ DOMAIN s = 1 .. Len(s)
  BY LenProperties
<1>2. r \in Seq(Modules)
  BY Reversed
<1>3. Len(r) = Len(s) /\ DOMAIN r = 1 .. Len(s)
  <2>1. DOMAIN r = 1 .. Len(s)
    BY DEF Reverse
  <2> QED
    BY <1>1, <1>2, <2>1, LenProperties
<1>4. \A k \in 1 .. Len(s) : r[k] = s[(Len(s) - k) + 1]
  BY DEF Reverse
<1> HIDE DEF r
<1>5. ASSUME NEW k \in DOMAIN r, NEW n \in depends[r[k]]
      PROVE  \E j \in k + 1 .. Len(r) : n = r[j]
  <2> DEFINE i == (Len(s) - k) + 1
  <2>1. k \in 1 .. Len(s) /\ i \in 1 .. Len(s) /\ r[k] = s[i]
    BY <1>1, <1>3, <1>4
  <2>2. PICK h \in 1 .. i - 1 : n = s[h]
    BY <1>1, <1>5, <2>1 DEF Before
  <2>3. /\ (Len(s) - h) + 1 \in k + 1 .. Len(s)
        /\ (Len(s) - ((Len(s) - h) + 1)) + 1 = h
    BY <1>1, <2>1
  <2>4. r[(Len(s) - h) + 1] = s[h]
    BY <1>1, <1>4, <2>1, <2>3
  <2> QED
    BY <1>3, <2>2, <2>3, <2>4
<1> QED
  BY <1>5 DEF r

\* A queue without its first element.
LEMMA RemovalOfFirst ==
  ASSUME NEW s \in Seq(Modules), NEW c \in 0 .. Len(s), c < Len(s)
  PROVE  RemoveAt([j \in 1 .. Len(s) - c |-> s[j + c]], 1)
           = [j \in 1 .. Len(s) - (c + 1) |-> s[j + (c + 1)]]
<1> DEFINE q == [j \in 1 .. Len(s) - c |-> s[j + c]]
           rest == [j \in 1 .. Len(s) - (c + 1) |-> s[j + (c + 1)]]
<1>1. Len(s) \in Nat /\ \A j \in 1 .. Len(s) : s[j] \in Modules
  BY ElementOfSeq, LenProperties
<1>2. Len(s) - c \in Nat /\ \A j \in 1 .. Len(s) - c : s[j + c] \in Modules
  BY <1>1
<1>3. [j \in 1 .. Len(s) - c |-> s[j + c]] \in Seq(Modules)
  BY <1>2, IsASeq
<1>4. q \in Seq(Modules) /\ Len(q) = Len(s) - c
  <2>1. DOMAIN q = 1 .. Len(s) - c
    OBVIOUS
  <2> QED
    BY <1>2, <1>3, <2>1, LenProperties
<1>5. /\ RemoveAt(q, 1) \in Seq(Modules)
      /\ Len(RemoveAt(q, 1)) = Len(s) - (c + 1)
      /\ \A j \in 1 .. Len(q) - 1 : RemoveAt(q, 1)[j] = IF j < 1 THEN q[j] ELSE q[j + 1]
  <2>1. 1 \in 1 .. Len(q)
    BY <1>1, <1>4
  <2>2. /\ RemoveAt(q, 1) \in Seq(Modules)
        /\ Len(RemoveAt(q, 1)) = Len(q) - 1
        /\ \A j \in 1 .. Len(q) - 1 : RemoveAt(q, 1)[j] = IF j < 1 THEN q[j] ELSE q[j + 1]
    BY <1>4, <2>1, Removal
  <2>3. Len(q) - 1 = Len(s) - (c + 1)
    BY <1>1, <1>4
  <2> QED
    BY <2>2, <2>3
<1>6. \A j \in 1 .. Len(s) - (c + 1) : RemoveAt(q, 1)[j] = s[j + (c + 1)]
  <2>1. ASSUME NEW j \in 1 .. Len(s) - (c + 1) PROVE RemoveAt(q, 1)[j] = s[j + (c + 1)]
    <3>1. /\ j \in 1 .. Len(q) - 1 /\ ~(j < 1)
          /\ j + 1 \in 1 .. Len(s) - c /\ (j + 1) + c = j + (c + 1)
      BY <1>1, <1>4
    <3>2. q[j + 1] = s[(j + 1) + c]
      BY <3>1
    <3> QED
      BY <1>5, <3>1, <3>2
  <2> QED
    BY <2>1
<1>7. rest \in Seq(Modules) /\ Len(rest) = Len(s) - (c + 1)
  <2>1. Len(s) - (c + 1) \in Nat /\ \A j \in 1 .. Len(s) - (c + 1) : s[j + (c + 1)] \in Modules
    BY <1>1
  <2>2. rest \in Seq(Modules)
    BY <2>1, IsASeq
  <2>3. DOMAIN rest = 1 .. Len(s) - (c + 1)
    OBVIOUS
  <2> QED
    BY <2>1, <2>2, <2>3, LenProperties
<1> QED
  BY <1>5, <1>6, <1>7, SeqEqual

LEMMA StopsInOrderInv ==
  ASSUME "Pending" \notin Answers["stop"],
         IInv, StopsInOrder, [Next]_vars
  PROVE  StopsInOrder'
<1>1. TypeOK /\ phase \in 1 .. 6 /\ startQueue \in Seq(Modules) /\ loopQueue \in Seq(Modules)
  BY PhaseNames DEF IInv, TypeOK
<1>2. Len(startQueue) \in Nat /\ Len(loopQueue) \in Nat
  BY <1>1, LenProperties
<1>3. ASSUME phase = 4, InRound,
             loopQueue' = Erased, UNCHANGED <<dependOn, phase, iter, startQueue>>
      PROVE  StopsInOrder'
  <2>1. iter = 1 /\ Len(loopQueue) > 0
    BY <1>2, <1>3 DEF StopsInOrder, InRound
  <2>2. PICK c \in 0 .. Len(startQueue) :
          loopQueue = [j \in 1 .. Len(startQueue) - c |-> startQueue[j + c]]
    BY <1>3 DEF StopsInOrder
  <2>3. c < Len(startQueue)
    <3>1. DOMAIN loopQueue = 1 .. Len(startQueue) - c /\ DOMAIN loopQueue = 1 .. Len(loopQueue)
      BY <1>1, <2>2, LenProperties
    <3>2. 1 \in DOMAIN loopQueue
      BY <1>2, <2>1, <3>1
    <3> QED
      BY <1>2, <3>1, <3>2
  <2>4. loopQueue' = [j \in 1 .. Len(startQueue) - (c + 1) |-> startQueue[j + (c + 1)]]
    <3>1. loopQueue' = RemoveAt(loopQueue, 1)
      BY <1>3, <2>1 DEF Erased
    <3>2. RemoveAt(loopQueue, 1)
            = [j \in 1 .. Len(startQueue) - (c + 1) |-> startQueue[j + (c + 1)]]
      <4> DEFINE Rest(c0) == [j \in 1 .. Len(startQueue) - c0 |-> startQueue[j + c0]]
      <4>1. \A d \in 0 .. Len(startQueue) :
               d < Len(startQueue) => RemoveAt(Rest(d), 1) = Rest(d + 1)
        BY <1>1, RemovalOfFirst
      <4>2. loopQueue = Rest(c)
        BY <2>2
      <4>3. RemoveAt(Rest(c), 1) = Rest(c + 1)
        BY <4>1, <2>3
      <4> HIDE DEF Rest
      <4>4. RemoveAt(loopQueue, 1) = Rest(c + 1)
        BY <4>2, <4>3
      <4> QED
        BY <4>4 DEF Rest
    <3> QED
      BY <3>1, <3>2
  <2>5. c + 1 \in 0 .. Len(startQueue)
    BY <1>2, <2>3
  <2>6. \E d \in 0 .. Len(startQueue') :
          loopQueue' = [j \in 1 .. Len(startQueue') - d |-> startQueue'[j + d]]
    <3>1. startQueue' = startQueue
      BY <1>3
    <3> QED
      BY <2>4, <2>5, <3>1, Zenon
  <2>7. iter' = 1 /\ dependOn' = dependOn /\ startQueue' = startQueue
    BY <1>3, <2>1
  <2>8. \A k \in DOMAIN startQueue :
          dependOn["start"][startQueue[k]] \subseteq
            {startQueue[j] : j \in k + 1 .. Len(startQueue)}
    BY <1>3 DEF StopsInOrder
  <2> QED
    BY <2>6, <2>7, <2>8 DEF StopsInOrder
<1>4. ASSUME phase # 4, UNCHANGED phase PROVE StopsInOrder'
  BY <1>4 DEF StopsInOrder
<1>5. CASE CallSucceeds
  <2>1. phase = 4 => startQueue' = startQueue
    BY <1>5, PhaseNames DEF CallSucceeds
  <2> QED
    BY <2>1, <1>3, <1>4, <1>5 DEF CallSucceeds
<1>6. CASE CallPending
  <2>1. phase # 4
    BY <1>6, PhaseNames DEF CallPending, Answer, Expects, Depends, DependsOnFailed, Waiting
  <2> QED
    BY <2>1, <1>4, <1>6 DEF CallPending
<1>7. CASE CallFails
  BY <1>3, <1>4, <1>7 DEF CallFails
<1>8. CASE NextPhase
  <2>1. CASE phase = 3
    <3>1. Name = "update" /\ StartedAfterDependencies /\ ~Done
      BY <2>1, PhaseNames DEF IInv
    <3>2. startQueue' = Reverse(startQueue) /\ loopQueue' = startQueue' /\ iter' = Len(loopQueue') + 1
      BY <1>8, <3>1 DEF NextPhase
    <3>3. \A k \in DOMAIN startQueue :
             dependOn["start"][startQueue[k]] \subseteq Before(startQueue, k)
      BY <3>1 DEF StartedAfterDependencies
    <3>4. startQueue' \in Seq(Modules)
      BY <1>1, <3>2, Reversed
    <3>5. \A k \in DOMAIN startQueue' :
             dependOn["start"][startQueue'[k]] \subseteq
               {startQueue'[j] : j \in k + 1 .. Len(startQueue')}
      BY <1>1, <3>2, <3>3, ReversedOrder
    <3>6. loopQueue' = [j \in 1 .. Len(startQueue') - 0 |-> startQueue'[j + 0]]
      <4>1. /\ Len(startQueue') \in Nat
            /\ startQueue' = [j \in 1 .. Len(startQueue') |-> startQueue'[j]]
        BY <3>4, LenProperties
      <4>2. 1 .. Len(startQueue') - 0 = 1 .. Len(startQueue')
        BY <4>1
      <4>3. \A j \in 1 .. Len(startQueue') : j + 0 = j
        OBVIOUS
      <4> QED
        BY <3>2, <4>1, <4>2, <4>3
    <3>7. 0 \in 0 .. Len(startQueue')
      BY <3>4, LenProperties
    <3>8. dependOn' = dependOn
      BY <1>8 DEF NextPhase
    <3> QED
      BY <3>2, <3>5, <3>6, <3>7, <3>8 DEF StopsInOrder
  <2>2. CASE phase # 3
    <3>1. phase' # 4
      BY <1>1, <1>8, <2>2 DEF NextPhase
    <3> QED
      BY <3>1 DEF StopsInOrder
  <2> QED
    BY <2>1, <2>2
<1>9. CASE NextRound
  BY <1>9 DEF NextRound, StopsInOrder
<1>10. CASE Stop \/ UNCHANGED vars
  BY <1>10, SMTT(20) DEF Stop, vars, StopsInOrder
<1> QED
  BY <1>5, <1>6, <1>7, <1>8, <1>9, <1>10 DEF Next, Loop

\* Server::run: if no stop function answers Pending, modules are stopped before those
\* they depend on.
THEOREM DependentsStopFirst ==
  ASSUME "Pending" \notin Answers["stop"]
  PROVE  Spec => []StoppedBeforeDependencies
<1>1. Init => StopsInOrder
  BY DEF Init, StopsInOrder
<1>2. IInv /\ StopsInOrder /\ [Next]_vars => StopsInOrder'
  BY StopsInOrderInv
<1>3. ASSUME IInv, StopsInOrder PROVE StoppedBeforeDependencies
  <2>1. SUFFICES ASSUME phase = 4,
                        NEW m \in ToSet(loopQueue),
                        NEW n \in dependOn["start"][m]
                 PROVE  n \in ToSet(loopQueue)
    BY <1>3, PhaseNames DEF StoppedBeforeDependencies, IInv, TypeOK, Done
  <2>2. PICK c \in 0 .. Len(startQueue) :
          loopQueue = [j \in 1 .. Len(startQueue) - c |-> startQueue[j + c]]
    BY <1>3, <2>1 DEF StopsInOrder
  <2>3. Len(startQueue) \in Nat /\ DOMAIN startQueue = 1 .. Len(startQueue)
    BY <1>3, LenProperties DEF IInv, TypeOK
  <2>4. PICK i \in 1 .. Len(startQueue) - c : m = startQueue[i + c]
    BY <2>2 DEF ToSet
  <2>5. PICK j \in (i + c) + 1 .. Len(startQueue) : n = startQueue[j]
    <3>1. i + c \in DOMAIN startQueue
      BY <2>3
    <3> QED
      BY <1>3, <2>1, <2>4, <3>1 DEF StopsInOrder
  <2>6. j - c \in 1 .. Len(startQueue) - c /\ (j - c) + c = j
    BY <2>3
  <2>7. loopQueue[j - c] = n /\ j - c \in DOMAIN loopQueue
    BY <2>2, <2>5, <2>6
  <2> QED
    BY <2>7 DEF ToSet
<1> QED
  BY <1>1, <1>2, <1>3, Invariance, PTL DEF Spec
=============================================================================
