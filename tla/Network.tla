------------------------------- MODULE Network -------------------------------
(***************************************************************************)
(* The network layer (network/src/network.cpp, tcphandler.cpp,             *)
(* listenhandler.cpp, netmodule.cpp): two net threads that each run        *)
(* Network::dispatch over a poll of their own, the accept thread and the   *)
(* connect thread that add handlers to the register table, and the main    *)
(* thread that runs the callbacks and sends.                               *)
(*                                                                         *)
(* A connection is one incarnation: netids and sockets are used again by   *)
(* later connections.  The fields named conn in jobs and close requests    *)
(* are not in the code: they say for which incarnation the netid was meant.*)
(* The job queue is the FIFO that JobQueue is proved to implement, and the *)
(* queue of connect results the one of ThreadQueue.  A message is a unit:  *)
(* how bytes are cut into messages and buffered for sending is left out.   *)
(***************************************************************************)
EXTENDS Naturals, Sequences, FiniteSets

CONSTANTS
  Openers,   \* the threads that open connections: "accept", "connect" or both
  MaxConns,  \* bound: how many connections are ever opened
  Socks,     \* the socket numbers of the operating system
  Leaves,    \* how peers go away: "fin" closes, "rst" resets, or both
  MaxData,   \* bound: how many messages the peers send in all
  MaxSends,  \* bound: how often the callbacks call send()
  FdMax,     \* FD_SETSIZE
  RetSize,   \* the size of m_connectRetQueue
  NoSock,    \* the socket of a connection that has none
  Main,      \* the main thread
  None       \* nobody, nothing

ASSUME NetworkAssumption ==
  /\ Openers \subseteq {"accept", "connect"}
  /\ MaxConns \in Nat \ {0}
  /\ Leaves \subseteq {"fin", "rst"}
  /\ MaxData \in Nat
  /\ MaxSends \in Nat
  /\ FdMax \in Nat \ {0}
  /\ RetSize \in Nat \ {0}
  /\ NoSock \notin Socks
  /\ Main \notin Nat /\ None \notin Nat \cup {Main}

VARIABLES
  \* the world outside
  peer,      \* what the far end of each connection did last
  rx,        \* the messages that wait in each socket to be received
  said,      \* how many messages the peers have sent
  \* connections and their handlers
  stage,     \* the life of each connection's TcpHandler
  sockOf,    \* BaseHandler::m_sock
  netidOf,   \* BaseHandler::m_netid
  hlock,     \* TcpHandler::m_lock: the net thread that keeps it, or None
  \* class Network
  table,     \* m_registerTable: the handler at each netid in use
  grown,     \* how many netids m_registerTable has handed out so far
  recovery,  \* its m_recovery_id: the netids that are free again
  readers,   \* who holds m_rwlock for reading
  writer,    \* who holds m_rwlock for writing
  \* the two polls and their threads
  rfdset, wfdset, offids,
  tpc,       \* where each net thread stands in dispatch()
  rset,      \* its local rfdset: the readable sockets not served yet
  wset,      \* its local wfdset: the writable sockets not served yet
  dels,      \* the local offids of delHandler()
  blockErr,  \* whether its last socket error is WSAEWOULDBLOCK
  \* the accept thread and the connect thread
  opc, opened,
  \* the main thread
  jobs,      \* JobQueue, the part not yet swapped out
  batch,     \* JobQueue::m_workJobs, the part not yet run
  rets,      \* m_connectRetQueue
  mpc, sendTo, sends,
  gone,      \* history: the connections whose onDisconnect was called
  speaker    \* history: the connection onRecv last had at each netid, until
             \* onDisconnect

world == <<peer, rx, said>>
handlers == <<stage, sockOf, netidOf, hlock>>
register == <<table, grown, recovery>>
rwlock == <<readers, writer>>
polls == <<rfdset, wfdset, offids>>
threads == <<tpc, rset, wset, dels, blockErr>>
openers == <<opc, opened>>
main == <<batch, mpc, sendTo, sends, gone, speaker>>
vars == <<world, handlers, register, rwlock, polls, threads, openers, jobs, rets, main>>

m_count == 2
Polls == 0 .. m_count - 1
Conns == 1 .. MaxConns
NetIds == 0 .. MaxConns - 1

PollOf(netid) == netid % m_count

Event(kind, netid, conn) == [kind |-> kind, netid |-> netid, conn |-> conn]

Alive == {c \in Conns : stage[c] \in {"made", "added"}}
FreeSocks == Socks \ {sockOf[c] : c \in Alive}

Init ==
  /\ peer = [c \in Conns |-> "open"]
  /\ rx = [c \in Conns |-> 0]
  /\ said = 0
  /\ stage = [c \in Conns |-> "new"]
  /\ sockOf = [c \in Conns |-> NoSock]
  /\ netidOf = [c \in Conns |-> 0]
  /\ hlock = [c \in Conns |-> None]
  /\ table = [n \in NetIds |-> None]
  /\ grown = 0
  /\ recovery = <<>>
  /\ readers = {}
  /\ writer = None
  /\ rfdset = [t \in Polls |-> {}]
  /\ wfdset = [t \in Polls |-> {}]
  /\ offids = [t \in Polls |-> <<>>]
  /\ tpc = [t \in Polls |-> "loop"]
  /\ rset = [t \in Polls |-> {}]
  /\ wset = [t \in Polls |-> {}]
  /\ dels = [t \in Polls |-> <<>>]
  /\ blockErr = [t \in Polls |-> FALSE]
  /\ opc = [o \in Openers |-> "idle"]
  /\ opened = [o \in Openers |-> None]
  /\ jobs = <<>>
  /\ batch = <<>>
  /\ rets = <<>>
  /\ mpc = "run"
  /\ sendTo = None
  /\ sends = 0
  /\ gone = {}
  /\ speaker = [n \in NetIds |-> None]
-----------------------------------------------------------------------------
(* The peers *)

PeerSends(c) ==
  /\ c \in Alive
  /\ peer[c] = "open"
  /\ said < MaxData
  /\ said' = said + 1
  /\ rx' = [rx EXCEPT ![c] = @ + 1]
  /\ UNCHANGED <<peer, handlers, register, rwlock, polls, threads, openers, jobs, rets,
                 main>>

\* The peer closes its end ("fin"), or the connection breaks ("rst").
PeerLeaves(c) ==
  /\ c \in Alive
  /\ \E leave \in Leaves :
        /\ peer[c] = "open" \/ (peer[c] = "fin" /\ leave = "rst")
        /\ peer' = [peer EXCEPT ![c] = leave]
  /\ UNCHANGED <<rx, said, handlers, register, rwlock, polls, threads, openers, jobs,
                 rets, main>>
-----------------------------------------------------------------------------
(* ListenHandler::onCanRead and NetModule::connect *)

\* accept() or connect() succeeds: there is a socket and a TcpHandler for it.
Open(o, c) ==
  /\ opc[o] = "idle"
  /\ stage[c] = "new"
  /\ \A d \in Conns : stage[d] = "new" => c <= d
  /\ \E s \in FreeSocks : sockOf' = [sockOf EXCEPT ![c] = s]
  /\ stage' = [stage EXCEPT ![c] = "made"]
  /\ opened' = [opened EXCEPT ![o] = c]
  /\ opc' = [opc EXCEPT ![o] = "add"]
  /\ UNCHANGED <<world, netidOf, hlock, register, rwlock, polls, threads, jobs, rets,
                 main>>

\* connect() fails: the socket is closed again and no handler is made.
OpenFails(c) ==
  /\ "connect" \in Openers
  /\ opc["connect"] = "idle"
  /\ stage[c] = "new"
  /\ \A d \in Conns : stage[d] = "new" => c <= d
  /\ stage' = [stage EXCEPT ![c] = "refused"]
  /\ opened' = [opened EXCEPT !["connect"] = c]
  /\ opc' = [opc EXCEPT !["connect"] = "announce"]
  /\ UNCHANGED <<world, sockOf, netidOf, hlock, register, rwlock, polls, threads, jobs,
                 rets, main>>

\* Mutants: a new netid is counted before it is given out; a new netid is the
\* number of free ones.
NextNetIdCounted == IF recovery = <<>> THEN grown + 1 ELSE Head(recovery)
NextNetIdFree == IF recovery = <<>> THEN Len(recovery) ELSE Head(recovery)

\* RAObjList::insert takes the netid that has been free for longest, or a new one.
NextNetId == IF recovery = <<>> THEN grown ELSE Head(recovery)

\* FD_SET leaves a set alone that is full.
WithFd(set, sock) == IF Cardinality(set) < FdMax THEN set \cup {sock} ELSE set

LockFree == readers = {} /\ writer = None

\* Network::addHandler, all of it under wlock().
AddHandler(o) ==
  /\ opc[o] = "add"
  /\ LockFree
  /\ LET c == opened[o]
         t == PollOf(NextNetId)
     IN /\ table' = [table EXCEPT ![NextNetId] = c]
        /\ netidOf' = [netidOf EXCEPT ![c] = NextNetId]
        /\ stage' = [stage EXCEPT ![c] = "added"]
        /\ rfdset' = [rfdset EXCEPT ![t] = WithFd(@, sockOf[c])]
  /\ IF recovery = <<>>
       THEN grown' = grown + 1 /\ UNCHANGED recovery
       ELSE recovery' = Tail(recovery) /\ UNCHANGED grown
  /\ opc' = [opc EXCEPT ![o] = "announce"]
  /\ UNCHANGED <<world, sockOf, hlock, rwlock, wfdset, offids, threads, opened, jobs, rets,
                 main>>

\* Only now, with the handler long at work, is the new connection announced.
AnnounceAccept ==
  /\ "accept" \in Openers
  /\ opc["accept"] = "announce"
  /\ jobs' = Append(jobs, Event("accept", netidOf[opened["accept"]], opened["accept"]))
  /\ opc' = [opc EXCEPT !["accept"] = "idle"]
  /\ opened' = [opened EXCEPT !["accept"] = None]
  /\ UNCHANGED <<world, handlers, register, rwlock, polls, threads, rets, main>>

\* m_connectRetQueue.push blocks while the queue is full.
AnnounceConnect ==
  /\ "connect" \in Openers
  /\ opc["connect"] = "announce"
  /\ Len(rets) < RetSize
  /\ LET c == opened["connect"]
         kind == IF stage[c] = "refused" THEN "failed" ELSE "connect"
     IN rets' = Append(rets, Event(kind, netidOf[c], c))
  /\ opc' = [opc EXCEPT !["connect"] = "idle"]
  /\ opened' = [opened EXCEPT !["connect"] = None]
  /\ UNCHANGED <<world, handlers, register, rwlock, polls, threads, jobs, main>>
-----------------------------------------------------------------------------
(* Network::delHandler *)

\* Mutants: the close requests are copied, not swapped; m_rwlock keeps out other
\* writers only.
DelBeginCopies(t) ==
  /\ tpc[t] = "loop"
  /\ offids[t] # <<>>
  /\ LockFree
  /\ writer' = t
  /\ dels' = [dels EXCEPT ![t] = offids[t]]
  /\ tpc' = [tpc EXCEPT ![t] = "delete"]
  /\ UNCHANGED <<world, handlers, register, readers, polls, rset, wset, blockErr, openers,
                 jobs, rets, main>>
DelBeginBesideReaders(t) ==
  /\ tpc[t] = "loop"
  /\ offids[t] # <<>>
  /\ writer = None
  /\ writer' = t
  /\ dels' = [dels EXCEPT ![t] = offids[t]]
  /\ offids' = [offids EXCEPT ![t] = <<>>]
  /\ tpc' = [tpc EXCEPT ![t] = "delete"]
  /\ UNCHANGED <<world, handlers, register, readers, rfdset, wfdset, rset, wset, blockErr,
                 openers, jobs, rets, main>>

\* There are close requests: they are swapped out and wlock() is taken.
DelBegin(t) ==
  /\ tpc[t] = "loop"
  /\ offids[t] # <<>>
  /\ LockFree
  /\ writer' = t
  /\ dels' = [dels EXCEPT ![t] = offids[t]]
  /\ offids' = [offids EXCEPT ![t] = <<>>]
  /\ tpc' = [tpc EXCEPT ![t] = "delete"]
  /\ UNCHANGED <<world, handlers, register, readers, rfdset, wfdset, rset, wset, blockErr,
                 openers, jobs, rets, main>>

\* Mutant: a disconnect is told though the handler is already gone.
DelAgainTells(t) ==
  /\ tpc[t] = "delete"
  /\ dels[t] # <<>>
  /\ table[Head(dels[t]).netid] = None
  /\ LET r == Head(dels[t])
     IN jobs' = Append(jobs, Event("disconnect", r.netid, r.conn))
  /\ dels' = [dels EXCEPT ![t] = Tail(@)]
  /\ UNCHANGED <<world, handlers, register, rwlock, polls, tpc, rset, wset, blockErr,
                 openers, rets, main>>

\* The netid is no longer there: it was asked for twice.
DelAgain(t) ==
  /\ tpc[t] = "delete"
  /\ dels[t] # <<>>
  /\ table[Head(dels[t]).netid] = None
  /\ dels' = [dels EXCEPT ![t] = Tail(@)]
  /\ UNCHANGED <<world, handlers, register, rwlock, polls, tpc, rset, wset, blockErr,
                 openers, jobs, rets, main>>

\* Mutant: the socket stays in the sets of the poll.
DelOneKeepsFd(t) ==
  /\ tpc[t] = "delete"
  /\ dels[t] # <<>>
  /\ LET netid == Head(dels[t]).netid
         c == table[netid]
     IN /\ c # None
        /\ jobs' = Append(jobs, Event("disconnect", netidOf[c], c))
        /\ stage' = [stage EXCEPT ![c] = "deleted"]
        /\ sockOf' = [sockOf EXCEPT ![c] = NoSock]
        /\ hlock' = [hlock EXCEPT ![c] = None]
        /\ rx' = [rx EXCEPT ![c] = 0]
        /\ table' = [table EXCEPT ![netid] = None]
        /\ recovery' = Append(recovery, netid)
  /\ dels' = [dels EXCEPT ![t] = Tail(@)]
  /\ UNCHANGED <<peer, said, netidOf, grown, rwlock, polls, tpc, rset, wset,
                 blockErr, openers, rets, main>>

\* TcpHandler::onClose, which closes the socket and deletes the handler, NetPoll::del
\* and RAObjList::erase.
DelOne(t) ==
  /\ tpc[t] = "delete"
  /\ dels[t] # <<>>
  /\ LET netid == Head(dels[t]).netid
         c == table[netid]
     IN /\ c # None
        /\ jobs' = Append(jobs, Event("disconnect", netidOf[c], c))
        /\ stage' = [stage EXCEPT ![c] = "deleted"]
        /\ sockOf' = [sockOf EXCEPT ![c] = NoSock]
        /\ hlock' = [hlock EXCEPT ![c] = None]
        /\ rx' = [rx EXCEPT ![c] = 0]
        /\ rfdset' = [rfdset EXCEPT ![t] = @ \ {sockOf[c]}]
        /\ wfdset' = [wfdset EXCEPT ![t] = @ \ {sockOf[c]}]
        /\ table' = [table EXCEPT ![netid] = None]
        /\ recovery' = Append(recovery, netid)
  /\ dels' = [dels EXCEPT ![t] = Tail(@)]
  /\ UNCHANGED <<peer, said, netidOf, grown, rwlock, offids, tpc, rset, wset,
                 blockErr, openers, rets, main>>

DelEnd(t) ==
  /\ tpc[t] = "delete"
  /\ dels[t] = <<>>
  /\ writer' = None
  /\ tpc' = [tpc EXCEPT ![t] = "loop"]
  /\ UNCHANGED <<world, handlers, register, readers, polls, rset, wset, dels, blockErr,
                 openers, jobs, rets, main>>
-----------------------------------------------------------------------------
(* Network::dispatch *)

\* The operating system answers for whoever has the socket now.
Readable(sock) == \E c \in Alive : sockOf[c] = sock /\ (rx[c] > 0 \/ peer[c] # "open")

\* select() finds sockets of the poll ready.  Sockets the poll gets after the
\* two sets were copied wait for the next round; a round in which none is
\* ready, or that finds the sets empty and sleeps, changes nothing.
Select(t) ==
  /\ tpc[t] = "loop"
  /\ offids[t] = <<>>
  /\ rset' = [rset EXCEPT ![t] = {s \in rfdset[t] : Readable(s)}]
  /\ \E writable \in SUBSET wfdset[t] : wset' = [wset EXCEPT ![t] = writable]
  /\ rset'[t] \cup wset'[t] # {}
  /\ tpc' = [tpc EXCEPT ![t] = "rlock"]
  /\ UNCHANGED <<world, handlers, register, rwlock, polls, dels, blockErr, openers, jobs,
                 rets, main>>

ScanBegin(t) ==
  /\ tpc[t] = "rlock"
  /\ writer = None
  /\ readers' = readers \cup {t}
  /\ tpc' = [tpc EXCEPT ![t] = "scan"]
  /\ UNCHANGED <<world, handlers, register, writer, polls, rset, wset, dels, blockErr,
                 openers, jobs, rets, main>>

\* The netids the scan still has something to do for, of any poll.
Todo(t) == {n \in NetIds : table[n] # None /\ sockOf[table[n]] \in rset[t] \cup wset[t]}

\* The thread is at handler c of the scan, in onCanRead or in onCanWrite.
AtHandler(t, c) ==
  /\ tpc[t] = "scan"
  /\ \E n \in Todo(t) : table[n] = c /\ \A m \in Todo(t) : n <= m
Reads(t, c) == AtHandler(t, c) /\ sockOf[c] \in rset[t]
Writes(t, c) == AtHandler(t, c) /\ sockOf[c] \notin rset[t]

\* Network::closeByNetid, called by a handler for itself.
OffIds(c) ==
  [offids EXCEPT ![PollOf(netidOf[c])] =
     Append(@, [netid |-> netidOf[c], conn |-> c])]

\* recv() returns a message: it becomes a job, and recv() is called again.
RecvMessage(t, c) ==
  /\ Reads(t, c)
  /\ rx[c] > 0
  /\ rx' = [rx EXCEPT ![c] = @ - 1]
  /\ jobs' = Append(jobs, Event("recv", netidOf[c], c))
  /\ UNCHANGED <<peer, said, handlers, register, rwlock, polls, threads, openers, rets,
                 main>>

ReadDone(t, c) == rset' = [rset EXCEPT ![t] = @ \ {sockOf[c]}]

\* recv() fails with WSAEWOULDBLOCK: there is nothing more for now.
RecvWouldBlock(t, c) ==
  /\ Reads(t, c)
  /\ rx[c] = 0
  /\ peer[c] = "open"
  /\ blockErr' = [blockErr EXCEPT ![t] = TRUE]
  /\ ReadDone(t, c)
  /\ UNCHANGED <<world, handlers, register, rwlock, polls, tpc, wset, dels, openers, jobs,
                 rets, main>>

\* recv() returns 0.  That is no error, so getErrno() may still answer with the last
\* error this thread had: if that was WSAEWOULDBLOCK, the close goes unnoticed.
RecvClosed(t, c) ==
  /\ Reads(t, c)
  /\ rx[c] = 0
  /\ peer[c] = "fin"
  /\ \/ offids' = OffIds(c)
     \/ blockErr[t] /\ UNCHANGED offids
  /\ ReadDone(t, c)
  /\ UNCHANGED <<world, handlers, register, rwlock, rfdset, wfdset, tpc, wset, dels,
                 blockErr, openers, jobs, rets, main>>

\* Mutant: the failed recv() asks for no close.
RecvResetIgnored(t, c) ==
  /\ Reads(t, c)
  /\ peer[c] = "rst"
  /\ blockErr' = [blockErr EXCEPT ![t] = FALSE]
  /\ ReadDone(t, c)
  /\ UNCHANGED <<world, handlers, register, rwlock, polls, tpc, wset, dels, openers, jobs,
                 rets, main>>

\* recv() fails because the connection is reset; what was not received is lost.
RecvReset(t, c) ==
  /\ Reads(t, c)
  /\ peer[c] = "rst"
  /\ offids' = OffIds(c)
  /\ blockErr' = [blockErr EXCEPT ![t] = FALSE]
  /\ ReadDone(t, c)
  /\ UNCHANGED <<world, handlers, register, rwlock, rfdset, wfdset, tpc, wset, dels,
                 openers, jobs, rets, main>>

\* TcpHandler::onCanWrite.  Each of its returns leaves m_lock taken: the unlock()
\* behind the endless loop is never reached.
CanWrite(t, c) ==
  /\ Writes(t, c)
  /\ hlock[c] \in {None, t}
  /\ hlock' = [hlock EXCEPT ![c] = t]
  /\ wset' = [wset EXCEPT ![t] = @ \ {sockOf[c]}]
  /\ \/ \* everything is sent: the handler no longer waits to write
        /\ peer[c] # "rst"
        /\ wfdset' = [wfdset EXCEPT ![PollOf(netidOf[c])] = @ \ {sockOf[c]}]
        /\ UNCHANGED <<offids, blockErr>>
     \/ \* send() fails with WSAEWOULDBLOCK
        /\ peer[c] # "rst"
        /\ blockErr' = [blockErr EXCEPT ![t] = TRUE]
        /\ UNCHANGED <<offids, wfdset>>
     \/ \* send() fails: the connection is to be closed
        /\ peer[c] = "rst"
        /\ offids' = OffIds(c)
        /\ blockErr' = [blockErr EXCEPT ![t] = FALSE]
        /\ UNCHANGED wfdset
  /\ UNCHANGED <<world, stage, sockOf, netidOf, register, rwlock, rfdset, tpc, rset, dels,
                 openers, jobs, rets, main>>

ScanEnd(t) ==
  /\ tpc[t] = "scan"
  /\ Todo(t) = {}
  /\ readers' = readers \ {t}
  /\ rset' = [rset EXCEPT ![t] = {}]
  /\ wset' = [wset EXCEPT ![t] = {}]
  /\ tpc' = [tpc EXCEPT ![t] = "loop"]
  /\ UNCHANGED <<world, handlers, register, writer, polls, dels, blockErr, openers, jobs,
                 rets, main>>
-----------------------------------------------------------------------------
(* NetModule::update on the main thread, with the callbacks it makes *)

\* Any callback that is given a netid may call send() for it.
MaySend(netid) ==
  \/ mpc' = "run" /\ UNCHANGED <<sendTo, sends>>
  \/ /\ sends < MaxSends
     /\ sends' = sends + 1
     /\ sendTo' = netid
     /\ mpc' = "send"

\* JobQueue::invoke swaps its two vectors.  update() has found m_connectRetQueue
\* empty before; a round in which there is no job either changes nothing.
TakeBatch ==
  /\ mpc = "run"
  /\ batch = <<>>
  /\ rets = <<>>
  /\ jobs # <<>>
  /\ batch' = jobs
  /\ jobs' = <<>>
  /\ UNCHANGED <<world, handlers, register, rwlock, polls, threads, openers, rets, mpc,
                 sendTo, sends, gone, speaker>>

RunAccept ==
  /\ mpc = "run"
  /\ batch # <<>>
  /\ Head(batch).kind = "accept"
  /\ batch' = Tail(batch)
  /\ MaySend(Head(batch).netid)
  /\ UNCHANGED <<world, handlers, register, rwlock, polls, threads, openers, jobs, rets,
                 gone, speaker>>

RunRecv ==
  /\ mpc = "run"
  /\ batch # <<>>
  /\ LET e == Head(batch)
     IN /\ e.kind = "recv"
        /\ speaker' = [speaker EXCEPT ![e.netid] = e.conn]
        /\ MaySend(e.netid)
  /\ batch' = Tail(batch)
  /\ UNCHANGED <<world, handlers, register, rwlock, polls, threads, openers, jobs, rets,
                 gone>>

RunDisconnect ==
  /\ mpc = "run"
  /\ batch # <<>>
  /\ LET e == Head(batch)
     IN /\ e.kind = "disconnect"
        /\ gone' = gone \cup {e.conn}
        /\ speaker' = [speaker EXCEPT ![e.netid] = None]
  /\ batch' = Tail(batch)
  /\ UNCHANGED <<world, handlers, register, rwlock, polls, threads, openers, jobs, rets,
                 mpc, sendTo, sends>>

\* The jobs of the batch are done: the results of connects are next.
RunConnect ==
  /\ mpc = "run"
  /\ batch = <<>>
  /\ rets # <<>>
  /\ rets' = Tail(rets)
  /\ IF Head(rets).kind = "connect"
       THEN MaySend(Head(rets).netid)
       ELSE UNCHANGED <<mpc, sendTo, sends>>
  /\ UNCHANGED <<world, handlers, register, rwlock, polls, threads, openers, jobs, batch,
                 gone, speaker>>

\* Network::send finds no handler at the netid and returns false.
SendNobody ==
  /\ mpc = "send"
  /\ writer = None
  /\ table[sendTo] = None
  /\ sendTo' = None
  /\ mpc' = "run"
  /\ UNCHANGED <<world, handlers, register, rwlock, polls, threads, openers, jobs, rets,
                 batch, sends, gone, speaker>>

\* Network::send takes rlock() and finds the handler it will send with.
SendFind ==
  /\ mpc = "send"
  /\ writer = None
  /\ table[sendTo] # None
  /\ readers' = readers \cup {Main}
  /\ sendTo' = table[sendTo]
  /\ mpc' = "append"
  /\ UNCHANGED <<world, handlers, register, writer, polls, threads, openers, jobs, rets,
                 batch, sends, gone, speaker>>

\* TcpHandler::send under m_lock, which makes the handler wait to write, and the
\* return from Network::send.
SendAppend ==
  /\ mpc = "append"
  /\ hlock[sendTo] = None
  /\ LET t == PollOf(netidOf[sendTo])
     IN wfdset' = [wfdset EXCEPT ![t] = WithFd(@, sockOf[sendTo])]
  /\ readers' = readers \ {Main}
  /\ sendTo' = None
  /\ mpc' = "run"
  /\ UNCHANGED <<world, handlers, register, writer, rfdset, offids, threads, openers, jobs,
                 rets, batch, sends, gone, speaker>>
-----------------------------------------------------------------------------
Peers == \E c \in Conns : PeerSends(c) \/ PeerLeaves(c)

Opener ==
  \/ \E o \in Openers, c \in Conns : Open(o, c)
  \/ \E c \in Conns : OpenFails(c)
  \/ \E o \in Openers : AddHandler(o)
  \/ AnnounceAccept
  \/ AnnounceConnect

Handle(t, c) ==
  \/ RecvMessage(t, c) \/ RecvWouldBlock(t, c) \/ RecvClosed(t, c) \/ RecvReset(t, c)
  \/ CanWrite(t, c)

Dispatch(t) ==
  \/ DelBegin(t) \/ DelAgain(t) \/ DelOne(t) \/ DelEnd(t)
  \/ Select(t) \/ ScanBegin(t) \/ ScanEnd(t)
  \/ \E c \in Conns : Handle(t, c)

Update ==
  \/ TakeBatch \/ RunAccept \/ RunRecv \/ RunDisconnect \/ RunConnect
  \/ SendNobody \/ SendFind \/ SendAppend

Next == Peers \/ Opener \/ (\E t \in Polls : Dispatch(t)) \/ Update

Spec == Init /\ [][Next]_vars

(***************************************************************************)
(* Every thread keeps running, and a thread that wants m_rwlock gets it if *)
(* it is free again and again.  Peers and new connections are not obliged  *)
(* to anything.                                                            *)
(***************************************************************************)
Fairness ==
  /\ \A t \in Polls : WF_vars(Dispatch(t)) /\ SF_vars(DelBegin(t)) /\ SF_vars(ScanBegin(t))
  /\ \A o \in Openers : SF_vars(AddHandler(o))
  /\ WF_vars(AnnounceAccept) /\ WF_vars(AnnounceConnect)
  /\ WF_vars(Update) /\ SF_vars(SendFind \/ SendNobody)

FairSpec == Spec /\ Fairness
-----------------------------------------------------------------------------
Events == [kind : {"accept", "recv", "disconnect", "connect", "failed"},
           netid : NetIds, conn : Conns]
Requests == [netid : NetIds, conn : Conns]

TypeOK ==
  /\ peer \in [Conns -> {"open", "fin", "rst"}]
  /\ rx \in [Conns -> 0 .. MaxData]
  /\ said \in 0 .. MaxData
  /\ stage \in [Conns -> {"new", "refused", "made", "added", "deleted"}]
  /\ sockOf \in [Conns -> Socks \cup {NoSock}]
  /\ netidOf \in [Conns -> NetIds]
  /\ hlock \in [Conns -> Polls \cup {None}]
  /\ table \in [NetIds -> Conns \cup {None}]
  /\ grown \in 0 .. MaxConns
  /\ recovery \in Seq(0 .. grown - 1)
  /\ readers \subseteq Polls \cup {Main}
  /\ writer \in Polls \cup {None}
  /\ rfdset \in [Polls -> SUBSET Socks]
  /\ wfdset \in [Polls -> SUBSET Socks]
  /\ offids \in [Polls -> Seq(Requests)]
  /\ tpc \in [Polls -> {"loop", "delete", "rlock", "scan"}]
  /\ rset \in [Polls -> SUBSET Socks]
  /\ wset \in [Polls -> SUBSET Socks]
  /\ dels \in [Polls -> Seq(Requests)]
  /\ blockErr \in [Polls -> BOOLEAN]
  /\ opc \in [Openers -> {"idle", "add", "announce"}]
  /\ opened \in [Openers -> Conns \cup {None}]
  /\ jobs \in Seq(Events)
  /\ batch \in Seq(Events)
  /\ rets \in Seq(Events)
  /\ mpc \in {"run", "send", "append"}
  /\ sendTo \in NetIds \cup Conns \cup {None}
  /\ sends \in 0 .. MaxSends
  /\ gone \subseteq Conns
  /\ speaker \in [NetIds -> Conns \cup {None}]

\* No thread ever calls a handler that another one has deleted: not a net thread
\* in its scan, not the main thread between find and send (network.cpp: send,
\* dispatch and delHandler under m_rwlock; onClose deletes the handler).
HandlerAlive ==
  /\ \A t \in Polls : tpc[t] = "scan" => \A n \in Todo(t) : stage[table[n]] = "added"
  /\ mpc = "append" => stage[sendTo] = "added"

\* A handler is only ever read and written by the thread of its own poll, though
\* each thread scans the whole table and sockets are used again: m_message and
\* m_recvBuffer have no lock (network.cpp: dispatch; tcphandler.cpp: onCanRead).
OwnThreadOnly ==
  \A t \in Polls : tpc[t] = "scan" => \A n \in Todo(t) : PollOf(n) = t

\* A close request never outlives the connection it was made for and then closes
\* the one that got its netid (network.cpp: off, delHandler).
CloseHitsItsConn ==
  \A t \in Polls : \A k \in DOMAIN (offids[t] \o dels[t]) :
     LET r == (offids[t] \o dels[t])[k]
     IN table[r.netid] \in {r.conn, None} /\ PollOf(r.netid) = t

\* What the main thread has still to tell the application.
pending == batch \o jobs

\* The events of a connection come in order: no message is told after its
\* disconnect, no disconnect twice, and every deleted handler has its disconnect.
EventsInOrder ==
  \A c \in Conns :
     LET Of == {k \in DOMAIN pending : pending[k].conn = c /\ pending[k].kind # "accept"}
     IN /\ c \in gone => Of = {}
        /\ \A j \in Of, k \in Of : j < k => pending[j].kind = "recv"
        /\ stage[c] = "deleted" <=>
             c \in gone \/ \E k \in Of : pending[k].kind = "disconnect"

\* A netid is one connection at a time for the application: between the messages
\* of two connections that had the same netid there is the disconnect of the
\* first (network.cpp: onClose pushes its job before erase frees the netid).
NoCrossTalk ==
  \A n \in NetIds :
     LET Of == {k \in DOMAIN pending : pending[k].netid = n /\ pending[k].kind # "accept"}
         Parted(j, k) == \E i \in Of : j <= i /\ i < k /\ pending[i].kind = "disconnect"
     IN /\ \A k \in Of : speaker[n] \in {pending[k].conn, None} \/ Parted(1, k)
        /\ \A j \in Of, k \in Of :
             j < k => pending[j].conn = pending[k].conn \/ Parted(j, k)

\* A connection that breaks is told to the application, whatever the other
\* threads do, as long as nobody waits for a handler's lock.
ResetReported ==
  \A c \in Conns : (stage[c] = "added" /\ peer[c] = "rst") ~> c \in gone

\* What a peer does is told to the application, its messages by onRecv and its
\* going away by onDisconnect (netcallback.h: "called when a network message is
\* received", "called when a network connection is disconnected").
Unheard(c) ==
  \/ stage[c] = "added" /\ (rx[c] > 0 \/ peer[c] # "open")
  \/ \E k \in DOMAIN pending : pending[k].conn = c
PeerIsHeard == \A c \in Conns : Unheard(c) ~> ~Unheard(c)
=============================================================================
