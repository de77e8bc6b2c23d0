------------------------------ MODULE JobQueue ------------------------------
(***************************************************************************)
(* The queue of network events (network/src/job.h) and the main loop that  *)
(* drains it (common/src/server.cpp, network/src/netmodule.cpp).           *)
(*                                                                         *)
(* The network threads and the accept thread push jobs under m_lock and    *)
(* post the semaphore of the main loop.  The main thread looks at          *)
(* m_pushJobs without the lock, swaps the two vectors under the lock, runs *)
(* the jobs of the swapped vector with no lock held, and then sleeps in    *)
(* m_loopsem->wait(10).                                                    *)
(***************************************************************************)
EXTENDS Naturals, Sequences

CONSTANTS
  Producers,  \* the threads that push jobs
  MaxJobs,    \* bound: how many jobs one producer pushes
  SemMax      \* the maximum count of a semaphore (999999 in synclock.cpp)

ASSUME JobQueueAssumption ==
  /\ MaxJobs \in Nat
  /\ SemMax \in Nat \ {0}
  /\ "free" \notin Producers

VARIABLES
  lock,      \* m_lock: the producer that holds it, or Free
  vec,       \* the two vectors of jobs
  push,      \* which of them m_pushJobs points to; m_workJobs has the other
  i,         \* the index of the loop in invoke()
  loopsem,   \* the count of m_loopsem
  ppc,       \* where each producer stands in push()
  target,    \* the vector each producer found in m_pushJobs
  made,      \* how many jobs each producer has made
  mpc,       \* where the main thread stands in its loop
  pushed,    \* history: every job that was pushed, in that order
  invoked    \* history: every job that was run, in that order

mainVars == <<i, mpc, invoked>>
producerVars == <<ppc, target, made>>
vars == <<lock, vec, push, loopsem, pushed, mainVars, producerVars>>

Free == "free"
Vectors == {0, 1}

\* A job is named by the producer that made it and its number there.
Jobs == Producers \X (1 .. MaxJobs)

pushJobs == vec[push]
work == 1 - push
workJobs == vec[work]

Init ==
  /\ lock = Free
  /\ vec = [v \in Vectors |-> <<>>]
  /\ push = 0
  /\ i = 0
  /\ loopsem = 0
  /\ ppc = [p \in Producers |-> "idle"]
  /\ target = [p \in Producers |-> 0]
  /\ made = [p \in Producers |-> 0]
  /\ mpc = "check"
  /\ pushed = <<>>
  /\ invoked = <<>>
-----------------------------------------------------------------------------
(* JobQueue::push *)

\* The producer has made a job, takes the lock and reads m_pushJobs.
PushLock(p) ==
  /\ ppc[p] = "idle"
  /\ made[p] < MaxJobs
  /\ lock = Free
  /\ lock' = p
  /\ made' = [made EXCEPT ![p] = @ + 1]
  /\ target' = [target EXCEPT ![p] = push]
  /\ ppc' = [ppc EXCEPT ![p] = "append"]
  /\ UNCHANGED <<vec, push, loopsem, pushed, mainVars>>

PushAppend(p) ==
  /\ ppc[p] = "append"
  /\ vec' = [vec EXCEPT ![target[p]] = Append(@, <<p, made[p]>>)]
  /\ pushed' = Append(pushed, <<p, made[p]>>)
  /\ ppc' = [ppc EXCEPT ![p] = "post"]
  /\ UNCHANGED <<lock, push, loopsem, target, made, mainVars>>

\* Semaphore::post fails, and nobody looks, once the count is at its maximum.
PostedSem == IF loopsem < SemMax THEN loopsem + 1 ELSE loopsem

\* Mutant: the producer forgets the post.
PushPostMissing(p) ==
  /\ ppc[p] = "post"
  /\ ppc' = [ppc EXCEPT ![p] = "unlock"]
  /\ UNCHANGED <<lock, vec, push, loopsem, pushed, target, made, mainVars>>

PushPost(p) ==
  /\ ppc[p] = "post"
  /\ loopsem' = PostedSem
  /\ ppc' = [ppc EXCEPT ![p] = "unlock"]
  /\ UNCHANGED <<lock, vec, push, pushed, target, made, mainVars>>

\* Mutant: push() returns with the lock held.
PushReturns(p) ==
  /\ ppc[p] = "unlock"
  /\ ppc' = [ppc EXCEPT ![p] = "idle"]
  /\ UNCHANGED <<lock, vec, push, loopsem, pushed, target, made, mainVars>>

PushUnlock(p) ==
  /\ ppc[p] = "unlock"
  /\ lock' = Free
  /\ ppc' = [ppc EXCEPT ![p] = "idle"]
  /\ UNCHANGED <<vec, push, loopsem, pushed, target, made, mainVars>>
-----------------------------------------------------------------------------
(* JobQueue::invoke and the wait of Server::loop *)

\* What the unlocked m_pushJobs->empty() may answer.  It compares two pointers
\* that a push_back may be moving: an empty vector may already look filled, but
\* while it holds a job the two pointers never meet, so it never looks empty.
MayReadEmpty(answer) ==
  \/ answer = (pushJobs = <<>>)
  \/ ~answer /\ \E p \in Producers : ppc[p] = "append"

CheckEmpty ==
  /\ mpc = "check"
  /\ \E answer \in BOOLEAN :
        /\ MayReadEmpty(answer)
        /\ mpc' = IF answer THEN "wait" ELSE "swap"
  /\ UNCHANGED <<lock, vec, push, i, loopsem, pushed, invoked, producerVars>>

\* The two pointers change places under the lock.  Whoever else uses them
\* holds the lock, so taking it, swapping and letting go is one step.
Swap ==
  /\ mpc = "swap"
  /\ lock = Free
  /\ push' = work
  /\ i' = 0
  /\ mpc' = "run"
  /\ UNCHANGED <<lock, vec, loopsem, pushed, invoked, producerVars>>

\* Mutant: the loop starts with the last job.
RunJobBackwards ==
  /\ mpc = "run"
  /\ i < Len(workJobs)
  /\ invoked' = Append(invoked, workJobs[Len(workJobs) - i])
  /\ i' = i + 1
  /\ UNCHANGED <<lock, vec, push, loopsem, mpc, pushed, producerVars>>

RunJob ==
  /\ mpc = "run"
  /\ i < Len(workJobs)
  /\ invoked' = Append(invoked, workJobs[i + 1])
  /\ i' = i + 1
  /\ UNCHANGED <<lock, vec, push, loopsem, mpc, pushed, producerVars>>

ClearWork ==
  /\ mpc = "run"
  /\ i = Len(workJobs)
  /\ vec' = [vec EXCEPT ![work] = <<>>]
  /\ i' = 0
  /\ mpc' = "wait"
  /\ UNCHANGED <<lock, push, loopsem, pushed, invoked, producerVars>>

WaitSignalled ==
  /\ mpc = "wait"
  /\ loopsem > 0
  /\ loopsem' = loopsem - 1
  /\ mpc' = "check"
  /\ UNCHANGED <<lock, vec, push, i, pushed, invoked, producerVars>>

WaitTimedOut ==
  /\ mpc = "wait"
  /\ loopsem = 0
  /\ mpc' = "check"
  /\ UNCHANGED <<lock, vec, push, i, loopsem, pushed, invoked, producerVars>>
-----------------------------------------------------------------------------
Push(p) == PushLock(p) \/ PushAppend(p) \/ PushPost(p) \/ PushUnlock(p)

Main == CheckEmpty \/ Swap \/ RunJob \/ ClearWork \/ WaitSignalled

Next == (\E p \in Producers : Push(p)) \/ Main \/ WaitTimedOut

Spec == Init /\ [][Next]_vars

(***************************************************************************)
(* A producer inside push() goes on to its end, and the main thread keeps  *)
(* running.  Nothing is assumed of the 10 ms timeout of the wait: the jobs *)
(* must get through on the strength of the semaphore alone.                *)
(***************************************************************************)
Fairness ==
  /\ \A p \in Producers :
        WF_vars(PushAppend(p) \/ PushPost(p) \/ PushUnlock(p))
  /\ WF_vars(Main)

FairSpec == Spec /\ Fairness
-----------------------------------------------------------------------------
TypeOK ==
  /\ lock \in Producers \cup {Free}
  /\ vec \in [Vectors -> Seq(Jobs)]
  /\ push \in Vectors
  /\ i \in 0 .. Len(workJobs)
  /\ loopsem \in 0 .. SemMax
  /\ ppc \in [Producers -> {"idle", "append", "post", "unlock"}]
  /\ target \in [Producers -> Vectors]
  /\ made \in [Producers -> 0 .. MaxJobs]
  /\ mpc \in {"check", "swap", "run", "wait"}
  /\ pushed \in Seq(Jobs)
  /\ invoked \in Seq(Jobs)

\* What the main thread still has to run of the vector it swapped out.
Remaining == SubSeq(workJobs, i + 1, Len(workJobs))

\* A job that was pushed is run once, in the order of the pushes: at any
\* moment what was pushed is what was run, then the rest of *m_workJobs, then
\* *m_pushJobs (job.h: invoke() swaps, runs and clears; push() appends).
NothingLostOrReordered == pushed = invoked \o Remaining \o pushJobs

\* The main thread is never asleep with the semaphore at zero while a job
\* waits in *m_pushJobs, except for the moment in which its producer is about
\* to post (job.h: push_back and post under one lock; invoke() comes before
\* the wait in each round of Server::loop).
NoLostWakeup ==
  (mpc = "wait" /\ pushJobs # <<>>) =>
     loopsem > 0 \/ \E p \in Producers : ppc[p] = "post"

\* A pushed job gets its callback, even if the wait never times out.
EveryJobRuns ==
  \A job \in Jobs :
     (\E k \in 1 .. Len(pushed) : pushed[k] = job)
        ~> (\E k \in 1 .. Len(invoked) : invoked[k] = job)

\* The double buffer is a first-in first-out queue.
Queue == INSTANCE Fifo WITH Elements <- Jobs, put <- pushed, taken <- invoked

ImplementsFifo == Queue!Spec
-----------------------------------------------------------------------------
(* The inductive invariant of the proofs. *)

\* The lock is held exactly by the producer that is inside push().
LockHeld == \A p \in Producers : ppc[p] # "idle" <=> lock = p

\* m_pushJobs does not move between a producer's read of it and its append.
TargetIsPush == \A p \in Producers : ppc[p] = "append" => target[p] = push

\* A producer inside push() has made the job it pushes.
JobMade == \A p \in Producers : ppc[p] # "idle" => made[p] > 0

\* Outside the loop of invoke() the work vector is empty.
WorkCleared == mpc # "run" => workJobs = <<>> /\ i = 0

\* NoLostWakeup, already true while the swapped jobs are being run.
WakeupPending ==
  (mpc \in {"run", "wait"} /\ pushJobs # <<>>) =>
     loopsem > 0 \/ \E p \in Producers : ppc[p] = "post"

IInv ==
  /\ TypeOK
  /\ LockHeld
  /\ TargetIsPush
  /\ JobMade
  /\ WorkCleared
  /\ WakeupPending
  /\ NothingLostOrReordered
=============================================================================
