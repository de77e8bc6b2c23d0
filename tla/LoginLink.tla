----------------------------- MODULE LoginLink -----------------------------
(***************************************************************************)
(* How the login server keeps its link to the gate server: NetModule's     *)
(* connectAsyn(), its connect thread and its update()                      *)
(* (network/src/netmodule.cpp), with InnerNetCallback                      *)
(* (loginserver/src/loginmodule.cpp) as the application.                   *)
(*                                                                         *)
(* The main thread hands requests to the connect thread over one bounded   *)
(* queue and takes the results from another; the end of a connection comes *)
(* by a third way, the job queue, which update() looks at first.  Nothing  *)
(* orders the three.  Connections that clients open to the login server    *)
(* report to the same InnerNetCallback and use the same netids.            *)
(*                                                                         *)
(* All requests are for the same address, and InnerNetCallback does not    *)
(* look at their handles: they need no names here.                         *)
(*                                                                         *)
(* The two bounded queues are those that ThreadQueue is proved to be, the  *)
(* job queue the one of JobQueue, and the giving out of netids that of     *)
(* IdList.  The net threads are one action, by which a connection ends.    *)
(***************************************************************************)
EXTENDS Integers, Sequences, FiniteSets

CONSTANTS
  QueueLen,   \* the size of m_connectAsynQueue and of m_connectRetQueue
  MaxAccepts, \* bound: how many clients connect
  MaxBreaks,  \* bound: how many connections end
  MaxFails,   \* bound: how often connect() fails
  NoNetId,    \* a value of m_gateid that is no netid
  None        \* nothing

MaxConns == MaxAccepts + MaxBreaks + 1
NetIds == 0 .. MaxConns - 1

ASSUME LinkAssumption ==
  /\ QueueLen \in Nat \ {0}
  /\ MaxAccepts \in Nat /\ MaxBreaks \in Nat /\ MaxFails \in Nat
  /\ NoNetId \notin Nat
  /\ None \notin Nat

VARIABLES
  \* the connections and their netids
  conns,     \* every connection there was, oldest first: kind, netid, up
  grown, recovery,
  \* NetModule
  requests,  \* how many requests are in m_connectAsynQueue
  cpc,       \* where the connect thread stands
  made,      \* the connection it made, None if connect() failed
  rets,      \* m_connectRetQueue, of each result the connection, None if there is none
  jobs,      \* m_jobQueue, the disconnect jobs in it
  batch,     \* the jobs that invoke() has taken and not yet run
  mpc,       \* where the main thread stands in update()
  cs,        \* the result it works on
  \* InnerNetCallback
  m_gateid,
  \* history
  fails,     \* how often connect() failed
  gate,      \* the connection the last onConnect(true) was about
  told,      \* the connections whose onDisconnect() was called
  lapse,     \* what has made InnerNetCallback give up, if anything
  mistaken   \* whether the end of another connection was taken for the gate's

netids == <<grown, recovery>>
thread == <<cpc, made>>
main == <<mpc, cs>>
history == <<fails, gate, told, lapse, mistaken>>
vars == <<conns, netids, requests, thread, rets, jobs, batch, main, m_gateid, history>>

Conns == DOMAIN conns

\* The code does not initialise m_gateid: it is anything.
Init ==
  /\ conns = <<>>
  /\ grown = 0 /\ recovery = <<>>
  /\ requests = 0
  /\ cpc = "pop" /\ made = None
  /\ rets = <<>>
  /\ jobs = <<>> /\ batch = <<>>
  /\ mpc = "start" /\ cs = None
  /\ m_gateid \in NetIds \cup {NoNetId}
  /\ fails = 0
  /\ gate = None
  /\ told = {}
  /\ lapse = "none"
  /\ mistaken = FALSE
-----------------------------------------------------------------------------
(* Connections come and go *)

\* RAObjList::insert, and a handler that is at work at once.
Add(kind) ==
  /\ conns' = Append(conns, [kind |-> kind, up |-> TRUE,
                             netid |-> IF recovery = <<>> THEN grown ELSE Head(recovery)])
  /\ IF recovery = <<>>
       THEN grown' = grown + 1 /\ UNCHANGED recovery
       ELSE recovery' = Tail(recovery) /\ UNCHANGED grown

Clients == {c \in Conns : conns[c].kind = "client"}

\* ListenHandler::onCanRead; onAccept() changes nothing.
Accept ==
  /\ Cardinality(Clients) < MaxAccepts
  /\ Add("client")
  /\ UNCHANGED <<requests, thread, rets, jobs, batch, main, m_gateid, history>>

Ended == {c \in Conns : ~conns[c].up}

\* Network::delHandler: the JobDisconnect is pushed, then the netid is free.
End(c) ==
  /\ Cardinality(Ended) < MaxBreaks
  /\ conns[c].up
  /\ conns' = [conns EXCEPT ![c].up = FALSE]
  /\ jobs' = Append(jobs, c)
  /\ recovery' = Append(recovery, conns[c].netid)
  /\ UNCHANGED <<grown, requests, thread, rets, batch, main, m_gateid, history>>
-----------------------------------------------------------------------------
(* NetModule::connectAsynWork on the connect thread *)

PopRequest ==
  /\ cpc = "pop"
  /\ requests > 0
  /\ requests' = requests - 1
  /\ cpc' = "connect"
  /\ UNCHANGED <<conns, netids, made, rets, jobs, batch, main, m_gateid, history>>

\* connect() succeeds, and addHandler() with it.
Connect ==
  /\ cpc = "connect"
  /\ Add("gate")
  /\ made' = Len(conns')
  /\ cpc' = "push"
  /\ UNCHANGED <<requests, rets, jobs, batch, main, m_gateid, history>>

\* connect() fails; the netid of the result is never set, and never looked at.
ConnectFails ==
  /\ cpc = "connect"
  /\ fails < MaxFails
  /\ fails' = fails + 1
  /\ made' = None
  /\ cpc' = "push"
  /\ UNCHANGED <<conns, netids, requests, rets, jobs, batch, main, m_gateid, gate, told,
                 lapse, mistaken>>

\* push() waits until there is room.
PushResult ==
  /\ cpc = "push"
  /\ Len(rets) < QueueLen
  /\ rets' = Append(rets, made)
  /\ cpc' = "pop"
  /\ made' = None
  /\ UNCHANGED <<conns, netids, requests, jobs, batch, main, m_gateid, history>>
-----------------------------------------------------------------------------
(* connectAsyn() on the main thread *)

\* trypush() may find the queue full.  InnerNetCallback does not look at the result:
\* from then on it has given up.
ConnectAsyn ==
  IF requests < QueueLen
    THEN requests' = requests + 1 /\ lapse' = "none"
    ELSE lapse' = "refused" /\ UNCHANGED requests

NoConnectAsyn == UNCHANGED <<requests, lapse>>

\* LoginModule::start() asks for the first connection.
Start ==
  /\ mpc = "start"
  /\ ConnectAsyn
  /\ mpc' = "wait"
  /\ UNCHANGED <<cs, conns, netids, thread, rets, jobs, batch, m_gateid, fails, gate, told,
                 mistaken>>
-----------------------------------------------------------------------------
(* NetModule::update on the main thread *)

\* JobQueue::invoke takes all jobs there are.
Update ==
  /\ mpc = "wait"
  /\ batch' = jobs
  /\ jobs' = <<>>
  /\ mpc' = "jobs"
  /\ UNCHANGED <<cs, conns, netids, requests, thread, rets, m_gateid, history>>

\* Mutant: whichever connection has ended, a new one is asked for.
OnDisconnectAny ==
  /\ mpc = "jobs"
  /\ batch # <<>>
  /\ LET c == Head(batch)
         hit == conns[c].netid = m_gateid
     IN /\ ConnectAsyn
        /\ told' = told \cup {c}
        /\ mistaken' = (mistaken \/ (hit /\ c # gate))
  /\ batch' = Tail(batch)
  /\ UNCHANGED <<conns, netids, thread, rets, jobs, main, m_gateid, fails, gate>>

\* InnerNetCallback::onDisconnect.
OnDisconnect ==
  /\ mpc = "jobs"
  /\ batch # <<>>
  /\ LET c == Head(batch)
         hit == conns[c].netid = m_gateid
     IN /\ IF hit THEN ConnectAsyn ELSE NoConnectAsyn
        /\ told' = told \cup {c}
        /\ mistaken' = (mistaken \/ (hit /\ c # gate))
  /\ batch' = Tail(batch)
  /\ UNCHANGED <<conns, netids, thread, rets, jobs, main, m_gateid, fails, gate>>

JobsDone ==
  /\ mpc = "jobs"
  /\ batch = <<>>
  /\ mpc' = "results"
  /\ UNCHANGED <<cs, conns, netids, requests, thread, rets, jobs, batch, m_gateid, history>>

\* trypop() takes the next result.
TakeResult ==
  /\ mpc = "results"
  /\ rets # <<>>
  /\ cs' = Head(rets)
  /\ rets' = Tail(rets)
  /\ mpc' = "onConnect"
  /\ UNCHANGED <<conns, netids, requests, thread, jobs, batch, m_gateid, fails, gate,
                 told, lapse, mistaken>>

\* InnerNetCallback::onConnect with true.  The greeting it sends is left out.
OnConnected ==
  /\ mpc = "onConnect"
  /\ cs # None
  /\ m_gateid' = conns[cs].netid
  /\ gate' = cs
  /\ lapse' = IF cs \in told THEN "overtaken" ELSE "none"
  /\ cs' = None
  /\ mpc' = "results"
  /\ UNCHANGED <<conns, netids, requests, thread, rets, jobs, batch, fails, told, mistaken>>

\* Mutant: a connection that could not be made is not asked for again.
OnFailedGivesUp ==
  /\ mpc = "onConnect"
  /\ cs = None
  /\ NoConnectAsyn
  /\ cs' = None
  /\ mpc' = "results"
  /\ UNCHANGED <<conns, netids, thread, rets, jobs, batch, m_gateid, fails, gate, told,
                 mistaken>>

\* InnerNetCallback::onConnect with false: the connection is asked for again.
OnFailed ==
  /\ mpc = "onConnect"
  /\ cs = None
  /\ ConnectAsyn
  /\ cs' = None
  /\ mpc' = "results"
  /\ UNCHANGED <<conns, netids, thread, rets, jobs, batch, m_gateid, fails, gate, told,
                 mistaken>>

\* trypop() finds nothing more: the main loop waits, 10 ms at most.
ResultsDone ==
  /\ mpc = "results"
  /\ rets = <<>>
  /\ mpc' = "wait"
  /\ UNCHANGED <<cs, conns, netids, requests, thread, rets, jobs, batch, m_gateid, history>>
-----------------------------------------------------------------------------
Network == Accept \/ \E c \in Conns : End(c)

ConnectThread == PopRequest \/ Connect \/ ConnectFails \/ PushResult

MainThread ==
  \/ Start \/ Update \/ OnDisconnect \/ JobsDone
  \/ TakeResult \/ OnConnected \/ OnFailed \/ ResultsDone

Next == Network \/ ConnectThread \/ MainThread

Spec == Init /\ [][Next]_vars

\* Both threads keep running, and connect() comes to an end within its timeout.
FairSpec == Spec /\ WF_vars(ConnectThread) /\ WF_vars(MainThread)
-----------------------------------------------------------------------------
TypeOK ==
  /\ conns \in Seq([kind : {"gate", "client"}, netid : Nat, up : BOOLEAN])
  /\ grown \in Nat /\ recovery \in Seq(Nat)
  /\ requests \in 0 .. QueueLen
  /\ cpc \in {"pop", "connect", "push"}
  /\ made \in Conns \cup {None} /\ (cpc # "push" => made = None)
  /\ rets \in Seq(Conns \cup {None}) /\ Len(rets) <= QueueLen
  /\ jobs \in Seq(Conns) /\ batch \in Seq(Conns)
  /\ mpc \in {"start", "wait", "jobs", "results", "onConnect"}
  /\ cs \in Conns \cup {None} /\ (cs # None => mpc = "onConnect")
  /\ (batch # <<>> => mpc = "jobs")
  /\ m_gateid \in Nat \cup {NoNetId}
  /\ fails \in 0 .. MaxFails
  /\ gate \in Conns \cup {None} /\ told \subseteq Conns
  /\ lapse \in {"none", "refused", "overtaken"} /\ mistaken \in BOOLEAN

\* A request or its answer is under way.
Asking == requests > 0 \/ cpc # "pop" \/ rets # <<>> \/ mpc = "onConnect"

\* The connections whose onDisconnect() is to come.
Untold == {jobs[k] : k \in DOMAIN jobs} \cup {batch[k] : k \in DOMAIN batch}

\* The link stands, or its end will be recognised when onDisconnect() comes.
Linked ==
  /\ gate # None
  /\ m_gateid = conns[gate].netid
  /\ gate \notin told
  /\ conns[gate].up \/ gate \in Untold

\* The login server never sits without a link and does nothing about it, except that
\* InnerNetCallback gives up in two cases: the queue refused its request, or the end of
\* the connection was told before the connection itself.
LinkKept == mpc # "start" => Linked \/ Asking \/ lapse # "none"

\* There is never more than one link to the gate server, made or in the making, unless
\* the end of another connection, which had the netid that m_gateid held or would hold,
\* was taken for the end of the link.
Pending == requests + Cardinality({c \in Conns : conns[c].kind = "gate" /\ conns[c].up})
             + (IF cpc = "connect" \/ (cpc = "push" /\ made = None) THEN 1 ELSE 0)
             + Cardinality({k \in DOMAIN rets : rets[k] = None})
             + (IF mpc = "onConnect" /\ cs = None THEN 1 ELSE 0)
OneLink == ~mistaken => Pending <= 1

\* When connections no longer break the login server ends up with a link that stands,
\* unless it has given up.
LinkComesBack == <>[](lapse # "none" \/ (Linked /\ conns[gate].up))
=============================================================================
