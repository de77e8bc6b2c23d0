--------------------------- MODULE JobQueue_proofs ---------------------------
(***************************************************************************)
(* Proofs about JobQueue, for any set of producers, any number of jobs and *)
(* any maximum of the semaphore.                                           *)
(***************************************************************************)
EXTENDS JobQueue, SequenceTheorems, TLAPS

LEMMA Associative ==
  ASSUME NEW s \in Seq(Jobs), NEW t \in Seq(Jobs), NEW u \in Seq(Jobs)
  PROVE  s \o (t \o u) = (s \o t) \o u
BY ConcatAssociative, SMTT(20)

\* Appending to the last of three parts appends to the whole.
LEMMA AppendToLastPart ==
  \A s, t, u \in Seq(Jobs), e \in Jobs :
     Append(s \o t \o u, e) = s \o t \o Append(u, e)
<1> SUFFICES ASSUME NEW s \in Seq(Jobs), NEW t \in Seq(Jobs), NEW u \in Seq(Jobs),
                    NEW e \in Jobs
             PROVE  Append(s \o t \o u, e) = s \o t \o Append(u, e)
  OBVIOUS
<1>1. /\ s \o t \in Seq(Jobs)
      /\ s \o t \o u \in Seq(Jobs)
      /\ <<e>> \in Seq(Jobs)
  BY ConcatProperties
<1>2. \A x \in Seq(Jobs) : x \o (u \o <<e>>) = (x \o u) \o <<e>>
  BY <1>1, Associative
<1>3. (s \o t) \o (u \o <<e>>) = ((s \o t) \o u) \o <<e>>
  BY <1>1, <1>2
<1> QED
  BY <1>1, <1>3, AppendIsConcat

\* The sequences the invariant speaks of are sequences of jobs.
LEMMA Sequences ==
  ASSUME IInv
  PROVE  /\ pushJobs \in Seq(Jobs)
         /\ workJobs \in Seq(Jobs)
         /\ Remaining \in Seq(Jobs)
         /\ invoked \in Seq(Jobs)
         /\ i \in 0 .. Len(workJobs)
<1>1. /\ pushJobs \in Seq(Jobs)
      /\ workJobs \in Seq(Jobs)
      /\ invoked \in Seq(Jobs)
      /\ i \in 0 .. Len(workJobs)
  BY DEF IInv, TypeOK, pushJobs, workJobs, work, Vectors
<1>2. \A k \in i + 1 .. Len(workJobs) : workJobs[k] \in Jobs
  BY <1>1, ElementOfSeq, LenProperties
<1>3. Remaining \in Seq(Jobs)
  BY <1>1, <1>2, SubSeqProperties DEF Remaining
<1> QED
  BY <1>1, <1>3

LEMMA InitInv == Init => IInv
<1> SUFFICES ASSUME Init PROVE IInv
  OBVIOUS
<1> USE JobQueueAssumption DEF JobQueueAssumption, Init, Vectors, Free,
                               pushJobs, work, workJobs
<1>1. TypeOK
  BY DEF TypeOK
<1>2. NothingLostOrReordered
  <2>1. Remaining = <<>>
    BY SubSeqEmpty DEF Remaining
  <2> QED
    BY <2>1 DEF NothingLostOrReordered
<1> QED
  BY <1>1, <1>2 DEF IInv, LockHeld, TargetIsPush, JobMade, WorkCleared, WakeupPending

LEMMA PushLockInv ==
  ASSUME IInv, NEW p \in Producers, PushLock(p)
  PROVE  IInv'
<1> USE JobQueueAssumption DEF JobQueueAssumption, PushLock, mainVars,
                               Vectors, Free, pushJobs, work, workJobs, Remaining
<1>1. TypeOK'
  BY DEF IInv, TypeOK
<1>2. (LockHeld /\ TargetIsPush /\ JobMade)'
  BY DEF IInv, TypeOK, LockHeld, TargetIsPush, JobMade
<1>3. (WorkCleared /\ WakeupPending /\ NothingLostOrReordered)'
  BY DEF IInv, TypeOK, LockHeld, WorkCleared, WakeupPending, NothingLostOrReordered
<1> QED
  BY <1>1, <1>2, <1>3 DEF IInv

LEMMA PushAppendInv ==
  ASSUME IInv, NEW p \in Producers, PushAppend(p)
  PROVE  IInv'
<1> DEFINE job == <<p, made[p]>>
<1> USE JobQueueAssumption DEF JobQueueAssumption, Vectors, Free
<1>1. job \in Jobs
  <2>1. made[p] \in 0 .. MaxJobs /\ made[p] > 0
    BY DEF IInv, TypeOK, JobMade, PushAppend
  <2> QED
    BY <2>1 DEF Jobs
<1>2. target[p] = push
  BY DEF IInv, TargetIsPush, PushAppend
<1>3. /\ pushJobs' = Append(pushJobs, job)
      /\ workJobs' = workJobs
      /\ Remaining' = Remaining
  BY <1>2, SMTT(20) DEF PushAppend, pushJobs, workJobs, work, Remaining, IInv, TypeOK, mainVars
<1>4. TypeOK'
  BY <1>1, <1>2, <1>3, SMTT(20) DEF PushAppend, IInv, TypeOK, mainVars
<1>5. NothingLostOrReordered'
  <2>1. pushed' = Append(invoked \o Remaining \o pushJobs, job)
    BY DEF IInv, NothingLostOrReordered, PushAppend
  <2>2. @ = invoked \o Remaining \o Append(pushJobs, job)
    <3>1. invoked \in Seq(Jobs) /\ Remaining \in Seq(Jobs) /\ pushJobs \in Seq(Jobs)
      BY Sequences
    <3> HIDE DEF job
    <3> QED
      BY <1>1, <3>1, AppendToLastPart, ZenonT(30)
  <2> QED
    BY <2>1, <2>2, <1>3 DEF NothingLostOrReordered, PushAppend, mainVars
<1>6. (LockHeld /\ TargetIsPush /\ JobMade)'
  BY DEF PushAppend, IInv, TypeOK, LockHeld, TargetIsPush, JobMade, mainVars
<1>7. WorkCleared' /\ WakeupPending'
  BY <1>3 DEF PushAppend, IInv, TypeOK, WorkCleared, WakeupPending, mainVars
<1> QED
  BY <1>4, <1>5, <1>6, <1>7 DEF IInv

LEMMA PushPostInv ==
  ASSUME IInv, NEW p \in Producers, PushPost(p)
  PROVE  IInv'
<1> USE JobQueueAssumption DEF JobQueueAssumption, PushPost, PostedSem, mainVars,
                               Vectors, Free, pushJobs, work, workJobs, Remaining
<1>1. TypeOK'
  BY DEF IInv, TypeOK
<1>2. (LockHeld /\ TargetIsPush /\ JobMade)'
  BY DEF IInv, TypeOK, LockHeld, TargetIsPush, JobMade
<1>3. loopsem' > 0
  BY DEF IInv, TypeOK
<1>4. (WorkCleared /\ WakeupPending /\ NothingLostOrReordered)'
  BY <1>3 DEF IInv, WorkCleared, WakeupPending, NothingLostOrReordered
<1> QED
  BY <1>1, <1>2, <1>4 DEF IInv

LEMMA PushUnlockInv ==
  ASSUME IInv, NEW p \in Producers, PushUnlock(p)
  PROVE  IInv'
<1> USE JobQueueAssumption DEF JobQueueAssumption, PushUnlock, mainVars,
                               Vectors, Free, pushJobs, work, workJobs, Remaining
<1>1. TypeOK'
  BY DEF IInv, TypeOK
<1>2. (LockHeld /\ TargetIsPush /\ JobMade)'
  BY DEF IInv, TypeOK, LockHeld, TargetIsPush, JobMade
<1>3. (WorkCleared /\ WakeupPending /\ NothingLostOrReordered)'
  BY DEF IInv, TypeOK, WorkCleared, WakeupPending, NothingLostOrReordered
<1> QED
  BY <1>1, <1>2, <1>3 DEF IInv

LEMMA CheckEmptyInv ==
  ASSUME IInv, CheckEmpty
  PROVE  IInv'
<1> USE DEF CheckEmpty, producerVars, Vectors, pushJobs, work, workJobs, Remaining
<1>1. TypeOK'
  BY DEF IInv, TypeOK
<1>2. (LockHeld /\ TargetIsPush /\ JobMade /\ WorkCleared /\ NothingLostOrReordered)'
  BY DEF IInv, LockHeld, TargetIsPush, JobMade, WorkCleared, NothingLostOrReordered
<1>3. WakeupPending'
  \* The answer "empty" is given only when the vector is.
  BY DEF IInv, WakeupPending, MayReadEmpty
<1> QED
  BY <1>1, <1>2, <1>3 DEF IInv

LEMMA SwapInv ==
  ASSUME IInv, Swap
  PROVE  IInv'
<1> USE DEF Swap, producerVars, Vectors
<1>1. /\ workJobs = <<>>
      /\ i = 0
      /\ push \in {0, 1}
  BY DEF IInv, TypeOK, WorkCleared
<1>2. /\ workJobs' = pushJobs
      /\ pushJobs' = <<>>
      /\ i' = 0
  BY <1>1 DEF pushJobs, work, workJobs
<1>3. TypeOK'
  BY <1>1, <1>2, Sequences, LenProperties DEF IInv, TypeOK, work, workJobs
<1>4. NothingLostOrReordered'
  <2>1. Remaining = <<>>
    BY <1>1, SubSeqEmpty DEF Remaining
  <2>2. Remaining' = pushJobs
    BY <1>2, Sequences, SubSeqFull DEF Remaining
  <2>3. invoked \o Remaining = invoked
    BY <2>1, Sequences, ConcatEmptySeq
  <2>4. invoked \o pushJobs \in Seq(Jobs)
    BY Sequences, ConcatProperties
  <2>5. (invoked \o pushJobs) \o <<>> = invoked \o pushJobs
    BY <2>4, ConcatEmptySeq
  <2> QED
    BY <2>2, <2>3, <2>5, <1>2 DEF IInv, NothingLostOrReordered
<1>5. (LockHeld /\ JobMade)'
  BY DEF IInv, LockHeld, JobMade
<1>6. TargetIsPush'
  \* With the lock free no producer is between its read and its append.
  BY JobQueueAssumption DEF JobQueueAssumption, IInv, LockHeld, TargetIsPush, Free
<1>7. (WorkCleared /\ WakeupPending)'
  BY <1>2 DEF WorkCleared, WakeupPending
<1> QED
  BY <1>3, <1>4, <1>5, <1>6, <1>7 DEF IInv

LEMMA RunJobInv ==
  ASSUME IInv, RunJob
  PROVE  IInv'
<1> DEFINE job == workJobs[i + 1]
<1> USE DEF RunJob, producerVars
<1>1. /\ i + 1 \in 1 .. Len(workJobs)
      /\ Len(workJobs) \in i + 1 .. Len(workJobs)
      /\ i \in Nat
  BY Sequences, LenProperties
<1>2. job \in Jobs
  BY <1>1, Sequences, ElementOfSeq
<1>3. workJobs' = workJobs /\ pushJobs' = pushJobs
  BY DEF workJobs, work, pushJobs
<1>4. Remaining = <<job>> \o Remaining'
  BY <1>1, <1>3, Sequences, SubSeqRecursiveFirst DEF Remaining
<1>5. TypeOK'
  BY <1>1, <1>2, <1>3, Sequences, AppendProperties DEF IInv, TypeOK
<1>6. Remaining' \in Seq(Jobs)
  <2>1. \A k \in i + 2 .. Len(workJobs) : workJobs[k] \in Jobs
    BY <1>1, Sequences, ElementOfSeq, LenProperties
  <2>2. i + 2 \in Int /\ Len(workJobs) \in Int
    BY <1>1, Sequences, LenProperties
  <2>3. SubSeq(workJobs, i + 2, Len(workJobs)) \in Seq(Jobs)
    BY <2>1, <2>2, SubSeqProperties
  <2>4. i' + 1 = i + 2
    BY <1>1
  <2> QED
    BY <2>3, <2>4, <1>3 DEF Remaining
<1>7. NothingLostOrReordered'
  <2>1. <<job>> \in Seq(Jobs) /\ invoked \in Seq(Jobs)
    BY <1>2, Sequences
  <2>2. invoked \o (<<job>> \o Remaining') = (invoked \o <<job>>) \o Remaining'
    <3> DEFINE single == <<job>>
               rest == Remaining'
    <3>1. invoked \in Seq(Jobs) /\ single \in Seq(Jobs) /\ rest \in Seq(Jobs)
      BY <2>1, <1>6
    <3> HIDE DEF single, rest
    <3>2. invoked \o (single \o rest) = (invoked \o single) \o rest
      BY <3>1, Associative
    <3> QED
      BY <3>2 DEF single, rest
  <2>3. invoked' = invoked \o <<job>>
    BY <2>1, <1>2, AppendIsConcat
  <2> QED
    BY <2>2, <2>3, <1>3, <1>4 DEF IInv, NothingLostOrReordered
<1>8. (LockHeld /\ TargetIsPush /\ JobMade)'
  BY DEF IInv, LockHeld, TargetIsPush, JobMade
<1>9. (WorkCleared /\ WakeupPending)'
  BY <1>3 DEF IInv, WorkCleared, WakeupPending
<1> QED
  BY <1>5, <1>7, <1>8, <1>9 DEF IInv

LEMMA ClearWorkInv ==
  ASSUME IInv, ClearWork
  PROVE  IInv'
<1> USE DEF ClearWork, producerVars, Vectors
<1>1. pushJobs' = pushJobs /\ workJobs' = <<>> /\ work' = work
  BY DEF IInv, TypeOK, pushJobs, work, workJobs
<1>2. TypeOK'
  BY <1>1 DEF IInv, TypeOK, work
<1>3. NothingLostOrReordered'
  <2>1. Remaining = <<>>
    BY Sequences, LenProperties, SubSeqEmpty DEF Remaining
  <2>2. Remaining' = <<>>
    BY <1>1, SubSeqEmpty DEF Remaining
  <2> QED
    BY <1>1, <2>1, <2>2 DEF IInv, NothingLostOrReordered
<1>4. (LockHeld /\ TargetIsPush /\ JobMade)'
  BY DEF IInv, LockHeld, TargetIsPush, JobMade
<1>5. (WorkCleared /\ WakeupPending)'
  BY <1>1 DEF IInv, WorkCleared, WakeupPending
<1> QED
  BY <1>2, <1>3, <1>4, <1>5 DEF IInv

LEMMA WaitInv ==
  ASSUME IInv, WaitSignalled \/ WaitTimedOut
  PROVE  IInv'
<1> USE DEF WaitSignalled, WaitTimedOut, producerVars,
            pushJobs, work, workJobs, Remaining
<1>1. TypeOK'
  BY JobQueueAssumption DEF JobQueueAssumption, IInv, TypeOK
<1>2. (LockHeld /\ TargetIsPush /\ JobMade)'
  BY DEF IInv, LockHeld, TargetIsPush, JobMade
<1>3. (WorkCleared /\ WakeupPending /\ NothingLostOrReordered)'
  BY DEF IInv, WorkCleared, WakeupPending, NothingLostOrReordered
<1> QED
  BY <1>1, <1>2, <1>3 DEF IInv

LEMMA StutterInv ==
  ASSUME IInv, UNCHANGED vars
  PROVE  IInv'
BY DEF IInv, vars, mainVars, producerVars, TypeOK, LockHeld, TargetIsPush, JobMade,
       WorkCleared, WakeupPending, NothingLostOrReordered, Remaining,
       pushJobs, work, workJobs

\* The inductive invariant holds in every state of every execution.
THEOREM Invariant == Spec => []IInv
<1>1. IInv /\ [Next]_vars => IInv'
  BY PushLockInv, PushAppendInv, PushPostInv, PushUnlockInv, CheckEmptyInv, SwapInv,
     RunJobInv, ClearWorkInv, WaitInv, StutterInv DEF Next, Push, Main
<1> QED
  BY InitInv, <1>1, PTL DEF Spec

\* Every variable of the queue keeps its type; in particular the index of the
\* loop in invoke() stays within the vector it runs over.
THEOREM TypeCorrect == Spec => []TypeOK
<1>1. IInv => TypeOK
  BY DEF IInv
<1> QED
  BY Invariant, <1>1, PTL

\* No job is lost, run twice or run out of order, however the pushes of any
\* number of threads meet the unlocked test and the swap of invoke().
THEOREM NoJobLost == Spec => []NothingLostOrReordered
<1>1. IInv => NothingLostOrReordered
  BY DEF IInv
<1> QED
  BY Invariant, <1>1, PTL

\* The main thread never sleeps beside a waiting job with no wakeup on its way,
\* even when the count of the semaphore saturates.
THEOREM NoWakeupLost == Spec => []NoLostWakeup
<1>1. IInv => NoLostWakeup
  BY DEF IInv, WakeupPending, NoLostWakeup
<1> QED
  BY Invariant, <1>1, PTL

\* The job that invoke() runs next is the oldest one still in the queue.
LEMMA RunJobTakes ==
  ASSUME IInv, RunJob
  PROVE  Queue!Take
<1> DEFINE job == workJobs[i + 1]
<1>1. /\ i + 1 \in 1 .. Len(workJobs)
      /\ Len(workJobs) \in Nat
      /\ i \in Nat
  BY Sequences, LenProperties DEF RunJob
<1>2. /\ Len(Remaining) > 0
      /\ Remaining[1] = job
  <2>1. \A k \in i + 1 .. Len(workJobs) : workJobs[k] \in Jobs
    BY <1>1, Sequences, ElementOfSeq
  <2>2. /\ Len(Remaining) = Len(workJobs) - (i + 1) + 1
        /\ \A k \in 1 .. Len(workJobs) - (i + 1) + 1 :
              Remaining[k] = workJobs[i + 1 + k - 1]
    BY <1>1, <2>1, SubSeqProperties DEF Remaining
  <2> QED
    BY <1>1, <2>2
<1>3. /\ Len(invoked) \in Nat /\ Len(Remaining) \in Nat /\ Len(pushJobs) \in Nat
      /\ invoked \o Remaining \in Seq(Jobs)
      /\ Len(invoked \o Remaining) = Len(invoked) + Len(Remaining)
      /\ (invoked \o Remaining)[Len(invoked) + 1] = job
  BY <1>2, Sequences, ConcatProperties, LenProperties
<1>4. /\ Len(pushed) = Len(invoked) + Len(Remaining) + Len(pushJobs)
      /\ pushed[Len(invoked) + 1] = job
  <2> DEFINE taken == invoked \o Remaining
  <2>1. /\ taken \in Seq(Jobs)
        /\ Len(taken) = Len(invoked) + Len(Remaining)
        /\ taken[Len(invoked) + 1] = job
        /\ pushed = taken \o pushJobs
    BY <1>3 DEF IInv, NothingLostOrReordered
  <2>2. \A a \in Seq(Jobs) :
           /\ Len(a \o pushJobs) = Len(a) + Len(pushJobs)
           /\ \A k \in 1 .. Len(a) : (a \o pushJobs)[k] = a[k]
    BY Sequences, ConcatProperties, LenProperties
  <2>3. Len(invoked) + 1 \in 1 .. Len(taken)
    BY <1>2, <1>3, <2>1
  <2> HIDE DEF taken
  <2> QED
    BY <2>1, <2>2, <2>3
<1> QED
  BY <1>2, <1>3, <1>4 DEF Queue!Take, RunJob

\* The double buffer and its lock implement a first-in first-out queue: a push
\* puts a job, a round of the loop in invoke() takes the oldest, and every other
\* step of the two sides is invisible.
THEOREM Refinement == Spec => ImplementsFifo
<1>1. Init => Queue!Init
  BY DEF Init, Queue!Init
<1>2. ASSUME IInv, [Next]_vars
      PROVE  [Queue!Next]_Queue!vars
  <2>1. ASSUME NEW p \in Producers, PushAppend(p)
        PROVE  Queue!Next
    <3>1. made[p] \in 0 .. MaxJobs /\ made[p] > 0 /\ MaxJobs \in Nat
      BY <1>2, <2>1, JobQueueAssumption DEF IInv, TypeOK, JobMade, PushAppend,
                                            JobQueueAssumption
    <3>2. <<p, made[p]>> \in Jobs
      BY <3>1 DEF Jobs
    <3>3. Queue!Put(<<p, made[p]>>)
      BY <2>1 DEF PushAppend, mainVars, Queue!Put
    <3> QED
      BY <3>2, <3>3 DEF Queue!Next
  <2>2. CASE RunJob
    BY <1>2, <2>2, RunJobTakes DEF Queue!Next
  <2>3. CASE UNCHANGED <<pushed, invoked>>
    BY <2>3 DEF Queue!vars
  <2> QED
    BY <1>2, <2>1, <2>2, <2>3 DEF Next, Push, Main, vars, mainVars, PushLock, PushPost,
       PushUnlock, CheckEmpty, Swap, ClearWork, WaitSignalled, WaitTimedOut
<1> QED
  BY Invariant, <1>1, <1>2, PTL DEF Spec, ImplementsFifo, Queue!Spec
=============================================================================
