------------------------------ MODULE Lifecycle ------------------------------
(***************************************************************************)
(* The life of a server's modules (common/src/server.cpp, module.h).       *)
(* Server::run takes all modules through init, start, update, stop and     *)
(* release.  In each phase it calls every module in turn, round after      *)
(* round, until none answers Pending.  In init and start a module may first *)
(* wait for others: EXPECT_ON lets it wait until they are as far or have   *)
(* failed, DEPEND_ON makes it fail if they have failed or do not exist.    *)
(***************************************************************************)
EXTENDS Naturals, Sequences, SequencesExt

CONSTANTS
  Modules,       \* the modules of the server
  Absent,        \* the name of a module that the server does not have
  Queues,        \* in what orders the modules may have been added
  Expectations,  \* which modules may be named by EXPECT_ON, phase by phase
  Dependencies,  \* which modules may be named by DEPEND_ON, phase by phase
  Answers        \* what a module of its own answers in each phase

Waiting == {"init", "start"}
Phases == <<"init", "start", "update", "stop", "release">>

ASSUME LifecycleAssumption ==
  /\ Absent \notin Modules
  /\ Queues \subseteq {q \in Seq(Modules) : ToSet(q) = Modules /\ IsInjective(q)}
  /\ Expectations \cup Dependencies \subseteq
       [Waiting -> [Modules -> SUBSET (Modules \cup {Absent})]]
  /\ Answers \in [ToSet(Phases) -> SUBSET {"Succeed", "Failed", "Pending"}]

VARIABLES
  expectOn,   \* the modules each module names in EXPECT_ON, for each phase
  dependOn,   \* the modules each module names in DEPEND_ON, for each phase
  phase,      \* the call of Server::loop that is under way, from 1 on
  loopQueue,  \* its copy of the queue: the modules that are not done yet
  iter,       \* where it stands in that queue: between two rounds, behind its end
  initQueue,  \* m_initModuleQueue
  startQueue, \* m_startModuleQueue
  state,      \* Module::m_state
  quit        \* m_quit

vars == <<expectOn, dependOn, phase, loopQueue, iter, initQueue, startQueue, state, quit>>

Name == Phases[phase]
Done == phase > Len(Phases)

\* ST_Initing, ... and ST_Inited, ... are named by their phases.
Doing(p) == <<"doing", p>>
Did(p) == <<"did", p>>
Failed == <<"failed">>

Init ==
  /\ expectOn \in Expectations
  /\ dependOn \in Dependencies
  /\ phase = 1
  /\ loopQueue \in Queues
  /\ iter = Len(loopQueue) + 1
  /\ initQueue = <<>>
  /\ startQueue = <<>>
  /\ state = [m \in Modules |-> Did("release")]
  /\ quit = FALSE
-----------------------------------------------------------------------------
(* The macros of module.h *)

\* Mutant: a failed module is waited for like any other.
ExpectsForever(m) ==
  Name \in Waiting /\ \E n \in expectOn[Name][m] \cap Modules : state[n] # Did(Name)

\* Mutant: EXPECT_ON_START takes an initialised module for a started one.
ExpectsInited(m) ==
  Name \in Waiting /\ \E n \in expectOn[Name][m] \cap Modules : state[n] \notin {Did("init"), Did(Name), Failed}

\* EXPECT_ON: wait for a module that exists, has not failed and is not as far.
Expects(m) ==
  Name \in Waiting /\ \E n \in expectOn[Name][m] \cap Modules : state[n] \notin {Did(Name), Failed}

\* DEPEND_ON: fail with a module that does not exist or has failed.
DependsOnFailed(m) ==
  Name \in Waiting /\ \E n \in dependOn[Name][m] : n = Absent \/ state[n] = Failed

\* DEPEND_ON: wait for one that is not as far.
Depends(m) ==
  Name \in Waiting /\ \E n \in dependOn[Name][m] \cap Modules : state[n] \notin {Did(Name), Failed}

\* Mutant: a module that has failed its DEPEND_ON goes on all the same.
AnswerUndeterred(m) ==
  IF Expects(m) \/ Depends(m) THEN {"Pending"} ELSE Answers[Name]

\* The first macro that has something to answer returns; they may stand in any
\* order.  If none has, the module does its work.
Answer(m) ==
  LET macros == (IF Expects(m) \/ Depends(m) THEN {"Pending"} ELSE {})
                  \cup (IF DependsOnFailed(m) THEN {"Failed"} ELSE {})
  IN IF macros = {} THEN Answers[Name] ELSE macros
-----------------------------------------------------------------------------
(* Server::loop *)

InRound == ~Done /\ iter <= Len(loopQueue)

Erased == RemoveAt(loopQueue, iter)

CallSucceeds ==
  /\ InRound
  /\ LET m == loopQueue[iter]
     IN /\ "Succeed" \in Answer(m)
        /\ state' = [state EXCEPT ![m] = Did(Name)]
        /\ initQueue' = IF Name = "init" THEN Append(initQueue, m) ELSE initQueue
        /\ startQueue' = IF Name = "start" THEN Append(startQueue, m) ELSE startQueue
  /\ loopQueue' = Erased
  /\ UNCHANGED <<expectOn, dependOn, phase, iter, quit>>

\* Mutant: a module that answers Pending loses its turn for good.
CallPendingErases ==
  /\ InRound
  /\ "Pending" \in Answer(loopQueue[iter])
  /\ state' = [state EXCEPT ![loopQueue[iter]] = Doing(Name)]
  /\ loopQueue' = Erased
  /\ UNCHANGED <<expectOn, dependOn, phase, iter, initQueue, startQueue, quit>>

CallPending ==
  /\ InRound
  /\ "Pending" \in Answer(loopQueue[iter])
  /\ state' = [state EXCEPT ![loopQueue[iter]] = Doing(Name)]
  /\ iter' = iter + 1
  /\ UNCHANGED <<expectOn, dependOn, phase, loopQueue, initQueue, startQueue, quit>>

CallFails ==
  /\ InRound
  /\ "Failed" \in Answer(loopQueue[iter])
  /\ state' = [state EXCEPT ![loopQueue[iter]] = Failed]
  /\ loopQueue' = Erased
  /\ UNCHANGED <<expectOn, dependOn, phase, iter, initQueue, startQueue, quit>>

\* Before each round, the first of a phase too: if no module is left or the server is
\* to stop, the next phase follows, otherwise the round, after a wait of at most 10 ms
\* where there was one before.  Stop and release do not ask whether it is to stop.
BetweenRounds == ~Done /\ iter > Len(loopQueue)
PhaseEnds == loopQueue = <<>> \/ (quit /\ Name \notin {"stop", "release"})

NextRound ==
  /\ BetweenRounds
  /\ ~PhaseEnds
  /\ iter' = 1
  /\ UNCHANGED <<expectOn, dependOn, phase, loopQueue, initQueue, startQueue, state, quit>>

\* Mutant: the modules are stopped in the order in which they were started.
NextPhaseForwards ==
  /\ BetweenRounds
  /\ PhaseEnds
  /\ loopQueue' = CASE Name = "init" -> initQueue
                    [] Name = "release" -> <<>>
                    [] OTHER -> startQueue
  /\ phase' = phase + 1
  /\ iter' = Len(loopQueue') + 1
  /\ UNCHANGED <<expectOn, dependOn, initQueue, startQueue, state, quit>>

\* The queue of the next phase: before stop and before release, m_startModuleQueue
\* is reversed.
NextPhase ==
  /\ BetweenRounds
  /\ PhaseEnds
  /\ startQueue' = IF Name \in {"update", "stop"} THEN Reverse(startQueue) ELSE startQueue
  /\ loopQueue' = CASE Name = "init" -> initQueue
                    [] Name = "release" -> <<>>
                    [] OTHER -> startQueue'
  /\ phase' = phase + 1
  /\ iter' = Len(loopQueue') + 1
  /\ UNCHANGED <<expectOn, dependOn, initQueue, state, quit>>

\* Server::stop, from any thread.
Stop ==
  /\ ~quit
  /\ quit' = TRUE
  /\ UNCHANGED <<expectOn, dependOn, phase, loopQueue, iter, initQueue, startQueue, state>>
-----------------------------------------------------------------------------
Loop == CallSucceeds \/ CallPending \/ CallFails \/ NextRound \/ NextPhase

Next == Loop \/ Stop

Spec == Init /\ [][Next]_vars

\* The main thread keeps running.
FairSpec == Spec /\ WF_vars(Loop)
-----------------------------------------------------------------------------
TypeOK ==
  /\ expectOn \in [Waiting -> [Modules -> SUBSET (Modules \cup {Absent})]]
  /\ dependOn \in [Waiting -> [Modules -> SUBSET (Modules \cup {Absent})]]
  /\ phase \in 1 .. Len(Phases) + 1
  /\ loopQueue \in Seq(Modules)
  /\ iter \in 1 .. Len(loopQueue) + 1
  /\ initQueue \in Seq(Modules)
  /\ startQueue \in Seq(Modules)
  /\ state \in [Modules -> {Failed} \cup {Doing(p) : p \in ToSet(Phases)}
                                    \cup {Did(p) : p \in ToSet(Phases)}]
  /\ quit \in BOOLEAN

Before(queue, k) == {queue[j] : j \in 1 .. k - 1}

\* A module is started only after all that it DEPENDs on, directly or through others,
\* whatever the order they were added in and whichever of them fail.
StartedAfterDependencies ==
  ~Done /\ Name \in {"start", "update"} =>
    \A k \in DOMAIN startQueue : dependOn["start"][startQueue[k]] \subseteq Before(startQueue, k)

\* Those that a module EXPECTs and that are in the queue come before it.
ExpectedFirst(p, queue) ==
  \A k \in DOMAIN queue : expectOn[p][queue[k]] \cap ToSet(queue) \subseteq Before(queue, k)

\* A module is initialised and started after those it EXPECTs, unless they fail.
AfterExpected ==
  /\ ExpectedFirst("init", initQueue)
  /\ ~Done /\ Name \in {"start", "update"} => ExpectedFirst("start", startQueue)

\* No module is stopped while one that DEPENDs on it still runs, whatever has failed or
\* was interrupted before (the reversed queue of Server::run; the stop functions of this
\* code do not answer Pending).
StoppedBeforeDependencies ==
  ~Done /\ Name = "stop" =>
    \A m \in ToSet(loopQueue) :
       dependOn["start"][m] \cap ToSet(startQueue) \subseteq ToSet(loopQueue)

\* At the end every module that was started has been through stop and release.
EndsReleased ==
  Done => \A k \in DOMAIN startQueue : state[startQueue[k]] \in {Did("release"), Failed}

\* Starting up comes to an end: nobody waits for ever, for a failed module neither.
StartupEnds == <>(phase > 2)
-----------------------------------------------------------------------------
(* The inductive invariant behind StartedAfterDependencies and AfterExpected. *)

\* The queue that the present phase, init or start, fills.
Filled == IF Name = "init" THEN initQueue ELSE startQueue

\* It has the modules whose state says so; those still in the loop have neither come
\* that far nor failed, so that none of them is in there already.
FilledByState ==
  /\ \A m \in Modules : m \in ToSet(Filled) <=> state[m] = Did(Name)
  /\ \A m \in ToSet(loopQueue) : state[m] \notin {Did(Name), Failed}
  /\ IsInjective(loopQueue)
  /\ IsInjective(Filled)

\* What a module in there waited for is in there before it, or has failed for good.
FilledInOrder ==
  \A k \in DOMAIN Filled :
    /\ dependOn[Name][Filled[k]] \subseteq Before(Filled, k)
    /\ \A n \in expectOn[Name][Filled[k]] \cap Modules :
         state[n] = Failed \/ n \in Before(Filled, k)

IInv ==
  /\ TypeOK
  /\ phase <= 2 => FilledByState /\ FilledInOrder
  /\ phase = 1 => startQueue = <<>> /\ \A m \in Modules : state[m] # Did("start")
  /\ phase > 1 => ExpectedFirst("init", initQueue)
  /\ phase = 3 => StartedAfterDependencies /\ AfterExpected

\* Behind StoppedBeforeDependencies, where no stop function answers Pending: the queue
\* of stop loses its modules from the front, each behind all that depend on it.
StopsInOrder ==
  phase = 4 =>
    /\ \A k \in DOMAIN startQueue :
         dependOn["start"][startQueue[k]] \subseteq
           {startQueue[j] : j \in k + 1 .. Len(startQueue)}
    /\ iter \in {1, Len(loopQueue) + 1}
    /\ \E c \in 0 .. Len(startQueue) :
         loopQueue = [j \in 1 .. Len(startQueue) - c |-> startQueue[j + c]]

\* Behind EndsReleased.
ReleasedOrLeft ==
  phase = 5 => \A m \in ToSet(startQueue) :
                 m \in ToSet(loopQueue) \/ state[m] \in {Did("release"), Failed}
=============================================================================
