--------------------------- MODULE Network_proofs ---------------------------
(***************************************************************************)
(* Proofs about Network, for any sockets and any number of connections,    *)
(* messages and sends: no thread calls a deleted handler, each net thread  *)
(* keeps to the handlers of its own poll, a close request closes the       *)
(* connection it was made for, and the application hears of each           *)
(* connection in order and never takes one for another.                    *)
(***************************************************************************)
EXTENDS Network, TLAPS, FiniteSetTheorems, SequenceTheorems

In(s) == {s[k] : k \in DOMAIN s}

-----------------------------------------------------------------------------
(* The inductive invariant *)

\* m_rwlock: the scans and the sending main thread hold it for reading, the thread
\* that deletes handlers for writing, and a writer is alone.
Locks ==
  /\ writer # None => readers = {}
  /\ \A t \in Polls : t \in readers <=> tpc[t] = "scan"
  /\ \A t \in Polls : writer = t <=> tpc[t] = "delete"
  /\ Main \in readers <=> mpc = "append"

Added == {c \in Conns : stage[c] = "added"}

\* The register table is a one-to-one relation between netids and handlers.
Registered ==
  /\ \A n \in NetIds : table[n] # None =>
        table[n] \in Added /\ netidOf[table[n]] = n /\ n < grown
  /\ \A c \in Added : table[netidOf[c]] = c

\* A netid that was given out is in use or waits, once, to be used again.
Recycled ==
  /\ \A n \in NetIds : n < grown => (table[n] = None <=> n \in In(recovery))
  /\ \A j \in DOMAIN recovery, k \in DOMAIN recovery : recovery[j] = recovery[k] => j = k

\* Each opener has a connection of its own.
Opening ==
  /\ \A o \in Openers : opc[o] # "idle" => opened[o] \in Conns
  /\ \A o \in Openers : opc[o] = "add" => stage[opened[o]] = "made"
  /\ \A o \in Openers, p \in Openers :
        opc[o] = "add" /\ opc[p] = "add" /\ opened[o] = opened[p] => o = p

\* Connections that are alive have different sockets.
OwnSocks ==
  /\ \A c \in Alive : sockOf[c] \in Socks
  /\ \A c \in Alive, d \in Alive : sockOf[c] = sockOf[d] => c = d

\* The sockets of the handlers of poll t.
Mine(t) == {sockOf[c] : c \in {d \in Added : PollOf(netidOf[d]) = t}}

\* A poll watches the sockets of its own handlers only, and so does its scan.
Watched ==
  \A t \in Polls :
    /\ rfdset[t] \subseteq Mine(t) /\ wfdset[t] \subseteq Mine(t)
    /\ rset[t] \subseteq Mine(t) /\ wset[t] \subseteq Mine(t)
    /\ tpc[t] \in {"loop", "delete"} => rset[t] = {} /\ wset[t] = {}

\* Close requests are for handlers of the poll, of which those that wait are still
\* there; new ones come only while the others are not being carried out.
Closing ==
  \A t \in Polls :
    /\ \A r \in In(offids[t]) : table[r.netid] = r.conn /\ PollOf(r.netid) = t
    /\ \A r \in In(dels[t]) : table[r.netid] \in {r.conn, None} /\ PollOf(r.netid) = t
    /\ tpc[t] = "delete" => offids[t] = <<>>
    /\ tpc[t] # "delete" => dels[t] = <<>>

\* The main thread has a netid, and then a handler that stays.
Sending ==
  /\ mpc = "send" => sendTo \in NetIds
  /\ mpc = "append" => sendTo \in Added

Received == \A c \in Conns : rx[c] <= said

IInv ==
  /\ TypeOK /\ Locks /\ Registered /\ Recycled /\ Opening /\ OwnSocks /\ Watched
  /\ Closing /\ Sending /\ Received
-----------------------------------------------------------------------------
(* Helpers *)

USE DEF world, handlers, register, rwlock, polls, threads, openers, main

\* What the assumptions on the constants say that the provers have to be told.
LEMMA Basics ==
  /\ Main \notin Polls /\ None \notin Polls /\ None \notin Conns /\ NoSock \notin Socks
  /\ Conns \subseteq Nat /\ NetIds \subseteq Nat /\ MaxConns \in Nat \ {0}
  /\ MaxData \in Nat /\ MaxSends \in Nat
  /\ \A n \in NetIds : PollOf(n) \in Polls
BY NetworkAssumption DEF Polls, m_count, Conns, NetIds, PollOf

\* Appending adds one element, ...
LEMMA InAppend ==
  ASSUME NEW S, NEW s \in Seq(S), NEW e \in S
  PROVE  Append(s, e) \in Seq(S) /\ In(Append(s, e)) = In(s) \cup {e}
<1>1. /\ Append(s, e) \in Seq(S)
      /\ Len(Append(s, e)) = Len(s) + 1 /\ Len(s) \in Nat
      /\ DOMAIN Append(s, e) = 1 .. Len(s) + 1 /\ DOMAIN s = 1 .. Len(s)
      /\ \A k \in 1 .. Len(s) : Append(s, e)[k] = s[k]
      /\ Append(s, e)[Len(s) + 1] = e
  OBVIOUS
<1>2. 1 .. Len(s) + 1 = (1 .. Len(s)) \cup {Len(s) + 1}
  BY <1>1
<1> QED BY <1>1, <1>2 DEF In

\* ... the tail has no others, and ...
LEMMA InTail ==
  ASSUME NEW S, NEW s \in Seq(S), s # <<>>
  PROVE  /\ Head(s) \in S /\ Tail(s) \in Seq(S)
         /\ In(s) = {Head(s)} \cup In(Tail(s))
         /\ \A k \in DOMAIN Tail(s) : k + 1 \in DOMAIN s /\ Tail(s)[k] = s[k + 1]
         /\ 1 \in DOMAIN s /\ Head(s) = s[1] /\ DOMAIN Tail(s) \subseteq Nat \ {0}
<1>1. /\ Head(s) \in S /\ Tail(s) \in Seq(S) /\ Len(Tail(s)) = Len(s) - 1
      /\ \A k \in 1 .. Len(Tail(s)) : Tail(s)[k] = s[k + 1]
  BY HeadTailProperties
<1>2. Len(s) \in Nat \ {0} /\ DOMAIN s = 1 .. Len(s) /\ DOMAIN Tail(s) = 1 .. Len(s) - 1
  BY <1>1, EmptySeq, LenProperties
<1>3. Head(s) = s[1] /\ 1 \in DOMAIN s
  BY <1>2
<1>4. ASSUME NEW k \in DOMAIN s, k # 1
      PROVE  s[k] \in In(Tail(s))
  <2>1. k - 1 \in DOMAIN Tail(s) /\ Tail(s)[k - 1] = s[k]
    BY <1>1, <1>2, <1>4
  <2> QED BY <2>1 DEF In
<1>5. In(Tail(s)) \subseteq In(s)
  BY <1>1, <1>2 DEF In
<1> QED BY <1>1, <1>2, <1>3, <1>4, <1>5 DEF In

\* ... nothing is in the empty queue.
LEMMA InEmpty == In(<<>>) = {}
BY DEF In

\* The elements of a typed queue have its type.
LEMMA InType ==
  ASSUME NEW S, NEW s \in Seq(S)
  PROVE  In(s) \subseteq S
BY LenProperties, ElementOfSeq DEF In

\* A part of the invariant stays as long as what it is about does.
LEMMA Stays ==
  ASSUME IInv
  PROVE  /\ UNCHANGED <<writer, readers, tpc, mpc>> => Locks'
         /\ UNCHANGED <<table, grown, stage, netidOf>> => Registered'
         /\ UNCHANGED <<table, grown, recovery>> => Recycled'
         /\ UNCHANGED <<opc, opened, stage>> => Opening'
         /\ UNCHANGED <<stage, sockOf>> => OwnSocks'
         /\ UNCHANGED <<rfdset, wfdset, rset, wset, tpc, stage, sockOf, netidOf>> => Watched'
         /\ UNCHANGED <<table, offids, dels, tpc>> => Closing'
         /\ UNCHANGED <<mpc, sendTo, stage>> => Sending'
         /\ UNCHANGED <<rx, said>> => Received'
<1>1. UNCHANGED <<writer, readers, tpc, mpc>> => Locks'
  BY DEF IInv, Locks
<1>2. UNCHANGED <<table, grown, stage, netidOf>> => Registered'
  BY DEF IInv, Registered, Added
<1>3. UNCHANGED <<table, grown, recovery>> => Recycled'
  BY DEF IInv, Recycled
<1>4. UNCHANGED <<opc, opened, stage>> => Opening'
  BY DEF IInv, Opening
<1>5. UNCHANGED <<stage, sockOf>> => OwnSocks'
  BY DEF IInv, OwnSocks, Alive
<1>6. UNCHANGED <<rfdset, wfdset, rset, wset, tpc, stage, sockOf, netidOf>> => Watched'
  BY DEF IInv, Watched, Mine, Added
<1>7. UNCHANGED <<table, offids, dels, tpc>> => Closing'
  BY DEF IInv, Closing
<1>8. UNCHANGED <<mpc, sendTo, stage>> => Sending'
  BY DEF IInv, Sending, Added
<1>9. UNCHANGED <<rx, said>> => Received'
  BY DEF IInv, Received
<1> QED BY <1>1, <1>2, <1>3, <1>4, <1>5, <1>6, <1>7, <1>8, <1>9

\* What a scan finds to do is at handlers of its own poll.
LEMMA TodoOwn ==
  ASSUME IInv, NEW t \in Polls, NEW n \in Todo(t)
  PROVE  n \in NetIds /\ table[n] \in Added /\ netidOf[table[n]] = n /\ PollOf(n) = t
<1>1. n \in NetIds /\ table[n] # None /\ sockOf[table[n]] \in rset[t] \cup wset[t]
  BY DEF Todo
<1>2. table[n] \in Added /\ netidOf[table[n]] = n
  BY <1>1 DEF IInv, Registered
<1>3. sockOf[table[n]] \in Mine(t)
  BY <1>1 DEF IInv, Watched
<1>4. PICK d \in Added : PollOf(netidOf[d]) = t /\ sockOf[d] = sockOf[table[n]]
  BY <1>3 DEF Mine
<1>5. d = table[n]
  BY <1>2, <1>4 DEF IInv, OwnSocks, Alive, Added
<1> QED BY <1>1, <1>2, <1>4, <1>5

\* A handler that a scan has come to belongs to the thread that scans.
LEMMA AtOwn ==
  ASSUME IInv, NEW t \in Polls, NEW c, AtHandler(t, c)
  PROVE  /\ c \in Added /\ c \in Conns /\ netidOf[c] \in NetIds /\ PollOf(netidOf[c]) = t
         /\ table[netidOf[c]] = c /\ tpc[t] = "scan"
<1>1. PICK n \in Todo(t) : table[n] = c
  BY DEF AtHandler
<1>2. n \in NetIds /\ c \in Added /\ netidOf[c] = n /\ PollOf(n) = t
  BY <1>1, TodoOwn
<1> QED BY <1>1, <1>2 DEF AtHandler, Added

\* The netid that is given out next is in use by nobody and within its range: when none
\* waits to be used again, all that were given out are in use, by as many connections.
LEMMA NextFree ==
  ASSUME IInv, NEW o \in Openers, opc[o] = "add"
  PROVE  /\ NextNetId \in NetIds /\ table[NextNetId] = None
         /\ recovery = <<>> => NextNetId = grown /\ grown < MaxConns
         /\ recovery # <<>> => NextNetId = Head(recovery) /\ NextNetId < grown
<1> DEFINE c == opened[o]
<1>1. c \in Conns /\ stage[c] = "made"
  BY DEF IInv, Opening
<1>2. grown \in 0 .. MaxConns /\ recovery \in Seq(0 .. grown - 1)
      /\ table \in [NetIds -> Conns \cup {None}]
  BY DEF IInv, TypeOK
<1>3. CASE recovery = <<>>
  <2>1. \A n \in NetIds : n < grown => table[n] # None
    BY <1>3, InEmpty DEF IInv, Recycled
  <2>2. ASSUME grown = MaxConns PROVE FALSE
    <3>1. \A n \in NetIds : table[n] \in Added /\ netidOf[table[n]] = n
      BY <2>1, <2>2, Basics DEF IInv, Registered, NetIds
    <3>2. table \in [NetIds -> Conns \ {c}]
      BY <1>1, <1>2, <3>1 DEF Added
    <3>3. IsFiniteSet(NetIds) /\ Cardinality(NetIds) = MaxConns
      BY Basics, FS_Interval DEF NetIds
    <3>4. IsFiniteSet(Conns) /\ Cardinality(Conns) = MaxConns
      BY Basics, FS_Interval DEF Conns
    <3>5. IsFiniteSet(Conns \ {c}) /\ Cardinality(Conns \ {c}) = MaxConns - 1
      BY <1>1, <3>4, FS_RemoveElement
    <3>6. Cardinality(Conns \ {c}) < Cardinality(NetIds)
      BY <3>3, <3>5, Basics
    <3>7. PICK x \in NetIds, y \in NetIds : x # y /\ table[x] = table[y]
      BY <3>2, <3>3, <3>5, <3>6, FS_PigeonHole
    <3> QED BY <3>1, <3>7
  <2>3. grown < MaxConns /\ grown \in NetIds
    BY <1>2, <2>2, Basics DEF NetIds
  <2>4. table[grown] = None
    BY <1>2, <2>3 DEF IInv, Registered
  <2> QED BY <1>3, <2>3, <2>4 DEF NextNetId
<1>4. CASE recovery # <<>>
  <2>1. Head(recovery) \in 0 .. grown - 1 /\ Head(recovery) \in In(recovery)
    BY <1>2, <1>4, InTail
  <2>2. Head(recovery) \in NetIds /\ Head(recovery) < grown
    BY <1>2, <2>1, Basics DEF NetIds
  <2> QED BY <1>4, <2>1, <2>2 DEF NextNetId, IInv, Recycled
<1> QED BY <1>3, <1>4
-----------------------------------------------------------------------------
(* The initial states, and the peers *)

\* Nothing is open yet.
LEMMA InitInv == Init => IInv
<1> SUFFICES ASSUME Init PROVE IInv
  OBVIOUS
<1>0. \A S : <<>> \in Seq(S)
  BY EmptySeq
<1>1. TypeOK
  <2>1. said \in 0 .. MaxData /\ rx \in [Conns -> 0 .. MaxData] /\ sends \in 0 .. MaxSends
        /\ grown \in 0 .. MaxConns /\ netidOf \in [Conns -> NetIds]
    BY Basics DEF Init, NetIds
  <2>2. /\ offids \in [Polls -> Seq(Requests)] /\ dels \in [Polls -> Seq(Requests)]
        /\ recovery \in Seq(0 .. grown - 1)
        /\ jobs \in Seq(Events) /\ batch \in Seq(Events) /\ rets \in Seq(Events)
    BY <1>0 DEF Init
  <2> QED BY <2>1, <2>2 DEF Init, TypeOK
<1>2. Added = {} /\ Alive = {}
  BY DEF Init, Added, Alive
<1>3. Locks /\ Opening /\ Sending
  BY Basics DEF Init, Locks, Opening, Sending
<1>4. Registered /\ Recycled
  BY <1>2, Basics, InEmpty DEF Init, Registered, Recycled
<1>5. OwnSocks /\ Watched
  BY <1>2 DEF Init, OwnSocks, Watched
<1>6. Closing
  BY InEmpty DEF Init, Closing
<1>7. Received
  BY DEF Init, Received
<1> QED BY <1>1, <1>3, <1>4, <1>5, <1>6, <1>7 DEF IInv

\* What peers do touches nothing of the server's.
LEMMA PeerSendsInv ==
  ASSUME IInv, NEW c \in Conns, PeerSends(c)
  PROVE  IInv'
<1>1. rx[c] \in Nat /\ rx[c] <= said /\ said \in Nat /\ said' <= MaxData /\ said' = said + 1
      /\ rx' = [rx EXCEPT ![c] = rx[c] + 1] /\ rx \in [Conns -> 0 .. MaxData]
  BY Basics DEF PeerSends, IInv, TypeOK, Received
<1>2. TypeOK'
  <2>1. rx' \in [Conns -> 0 .. MaxData] /\ said' \in 0 .. MaxData
    BY <1>1, Basics
  <2> QED BY <2>1 DEF PeerSends, IInv, TypeOK
<1>3. Received'
  BY <1>1 DEF IInv, Received
<1> QED BY <1>2, <1>3, Stays DEF PeerSends, IInv

\* The same of a peer that leaves.
LEMMA PeerLeavesInv ==
  ASSUME IInv, NEW c \in Conns, PeerLeaves(c)
  PROVE  IInv'
<1>1. TypeOK'
  BY NetworkAssumption DEF PeerLeaves, IInv, TypeOK
<1> QED BY <1>1, Stays DEF PeerLeaves, IInv
-----------------------------------------------------------------------------
(* Connections are opened *)

\* A socket that accept() or connect() returns is nobody else's.
LEMMA OpenInv ==
  ASSUME IInv, NEW o \in Openers, NEW c \in Conns, Open(o, c)
  PROVE  IInv'
<1>1. PICK s \in FreeSocks : sockOf' = [sockOf EXCEPT ![c] = s]
  BY DEF Open
<1>2. /\ stage[c] = "new" /\ stage' = [stage EXCEPT ![c] = "made"]
      /\ opened' = [opened EXCEPT ![o] = c] /\ opc' = [opc EXCEPT ![o] = "add"]
  BY DEF Open
<1>3. /\ sockOf \in [Conns -> Socks \cup {NoSock}]
      /\ stage \in [Conns -> {"new", "refused", "made", "added", "deleted"}]
      /\ opened \in [Openers -> Conns \cup {None}]
      /\ opc \in [Openers -> {"idle", "add", "announce"}]
  BY DEF IInv, TypeOK
<1>4. s \in Socks /\ \A d \in Alive : sockOf[d] # s
  BY DEF FreeSocks
<1>5. Added' = Added /\ Alive' = Alive \cup {c} /\ c \notin Alive /\ Added \subseteq Alive
  BY <1>2, <1>3 DEF Added, Alive
<1>6. TypeOK'
  BY <1>1, <1>2, <1>3, <1>4 DEF Open, IInv, TypeOK
<1>7. Registered' /\ Sending'
  BY <1>5 DEF Open, IInv, Registered, Sending
<1>8. Opening'
  BY <1>2, <1>3 DEF IInv, Opening
<1>9. OwnSocks'
  BY <1>1, <1>3, <1>4, <1>5 DEF IInv, OwnSocks, Alive
<1>10. Watched'
  <2>1. \A d \in Added : sockOf'[d] = sockOf[d]
    BY <1>1, <1>3, <1>5 DEF Alive
  <2>2. \A t \in Polls : Mine(t)' = Mine(t)
    BY <1>5, <2>1 DEF Mine, Open
  <2> QED BY <2>2 DEF Open, IInv, Watched
<1> QED BY <1>6, <1>7, <1>8, <1>9, <1>10, Stays DEF Open, IInv

\* A connection that is refused is announced without a handler.
LEMMA OpenFailsInv ==
  ASSUME IInv, NEW c \in Conns, OpenFails(c)
  PROVE  IInv'
<1>1. /\ stage[c] = "new" /\ stage' = [stage EXCEPT ![c] = "refused"]
      /\ "connect" \in Openers
      /\ opened' = [opened EXCEPT !["connect"] = c]
      /\ opc' = [opc EXCEPT !["connect"] = "announce"]
  BY DEF OpenFails
<1>2. /\ stage \in [Conns -> {"new", "refused", "made", "added", "deleted"}]
      /\ opened \in [Openers -> Conns \cup {None}]
      /\ opc \in [Openers -> {"idle", "add", "announce"}]
  BY DEF IInv, TypeOK
<1>3. Added' = Added /\ Alive' = Alive
  BY <1>1, <1>2 DEF Added, Alive
<1>4. TypeOK'
  BY <1>1, <1>2 DEF OpenFails, IInv, TypeOK
<1>5. Registered' /\ Sending'
  BY <1>3 DEF OpenFails, IInv, Registered, Sending
<1>6. Opening'
  BY <1>1, <1>2 DEF IInv, Opening
<1>7. OwnSocks'
  BY <1>3 DEF OpenFails, IInv, OwnSocks
<1>8. Watched'
  <2>1. \A t \in Polls : Mine(t)' = Mine(t)
    BY <1>3 DEF Mine, OpenFails
  <2> QED BY <2>1 DEF OpenFails, IInv, Watched
<1> QED BY <1>4, <1>5, <1>6, <1>7, <1>8, Stays DEF OpenFails, IInv

\* The new netid is free, its socket is in no set of another connection, and
\* the writer finds no reader inside.
LEMMA AddHandlerInv ==
  ASSUME IInv, NEW o \in Openers, AddHandler(o)
  PROVE  IInv'
<1> DEFINE c == opened[o]
           n == NextNetId
           t == PollOf(n)
<1>1. /\ c \in Conns /\ stage[c] = "made" /\ c \in Alive /\ c \notin Added
      /\ n \in NetIds /\ table[n] = None /\ t \in Polls
      /\ recovery = <<>> => n = grown /\ grown < MaxConns
      /\ recovery # <<>> => n = Head(recovery) /\ n < grown
  <2>1. opc[o] = "add"
    BY DEF AddHandler
  <2>2. c \in Conns /\ stage[c] = "made"
    BY <2>1 DEF IInv, Opening
  <2> QED BY <2>1, <2>2, NextFree, Basics DEF Alive, Added
<1>2. /\ table' = [table EXCEPT ![n] = c] /\ netidOf' = [netidOf EXCEPT ![c] = n]
      /\ stage' = [stage EXCEPT ![c] = "added"]
      /\ rfdset' = [rfdset EXCEPT ![t] = WithFd(rfdset[t], sockOf[c])]
      /\ opc' = [opc EXCEPT ![o] = "announce"]
      /\ IF recovery = <<>>
           THEN grown' = grown + 1 /\ recovery' = recovery
           ELSE grown' = grown /\ recovery' = Tail(recovery)
      /\ opc[o] = "add" /\ writer = None
      /\ UNCHANGED <<sockOf, wfdset, rset, wset, tpc, offids, dels, opened, mpc, sendTo>>
  BY DEF AddHandler, LockFree
<1> HIDE DEF n, c, t
<1>3. /\ table \in [NetIds -> Conns \cup {None}] /\ netidOf \in [Conns -> NetIds]
      /\ stage \in [Conns -> {"new", "refused", "made", "added", "deleted"}]
      /\ rfdset \in [Polls -> SUBSET Socks] /\ sockOf \in [Conns -> Socks \cup {NoSock}]
      /\ opc \in [Openers -> {"idle", "add", "announce"}]
      /\ grown \in 0 .. MaxConns /\ recovery \in Seq(0 .. grown - 1)
      /\ offids \in [Polls -> Seq(Requests)]
  BY DEF IInv, TypeOK
<1>4. Added' = Added \cup {c} /\ Alive' = Alive
  BY <1>1, <1>2, <1>3 DEF Added, Alive
<1>5. sockOf[c] \in Socks
  BY <1>1 DEF IInv, OwnSocks
<1>6. WithFd(rfdset[t], sockOf[c]) \subseteq rfdset[t] \cup {sockOf[c]}
  BY DEF WithFd
<1>7. grown' \in 0 .. MaxConns /\ recovery' \in Seq(0 .. grown' - 1) /\ grown' >= grown
      /\ n < grown'
  <2>1. CASE recovery = <<>>
    <3>1. grown' = grown + 1 /\ recovery' = <<>>
      BY <1>2, <2>1
    <3> QED BY <1>1, <1>3, <2>1, <3>1, EmptySeq, Basics
  <2>2. CASE recovery # <<>>
    <3>1. grown' = grown /\ recovery' = Tail(recovery)
      BY <1>2, <2>2
    <3> QED BY <1>1, <1>3, <2>2, <3>1, InTail
  <2> QED BY <2>1, <2>2
<1>8. TypeOK'
  <2>1. rfdset' \in [Polls -> SUBSET Socks]
    BY <1>1, <1>2, <1>3, <1>5, <1>6
  <2>2. table' \in [NetIds -> Conns \cup {None}] /\ netidOf' \in [Conns -> NetIds]
        /\ stage' \in [Conns -> {"new", "refused", "made", "added", "deleted"}]
        /\ opc' \in [Openers -> {"idle", "add", "announce"}]
    BY <1>1, <1>2, <1>3
  <2> QED BY <1>7, <2>1, <2>2 DEF AddHandler, IInv, TypeOK
<1>9. Registered'
  <2>1. ASSUME NEW m \in NetIds, table'[m] # None
        PROVE  table'[m] \in Added' /\ netidOf'[table'[m]] = m /\ m < grown'
    <3>1. CASE m = n
      BY <1>1, <1>2, <1>3, <1>4, <1>7, <3>1
    <3>2. CASE m # n
      <4>1. table'[m] = table[m]
        BY <1>2, <1>3, <3>2
      <4>2. table[m] \in Added /\ netidOf[table[m]] = m /\ m < grown
        BY <2>1, <4>1 DEF IInv, Registered
      <4>3. table[m] # c /\ table[m] \in Conns
        BY <1>1, <4>2 DEF Added
      <4>4. netidOf'[table[m]] = m
        BY <1>2, <1>3, <4>2, <4>3
      <4>5. m < grown'
        BY <1>3, <1>7, <4>2, Basics
      <4> QED BY <1>4, <4>1, <4>2, <4>4, <4>5
    <3> QED BY <3>1, <3>2
  <2>2. ASSUME NEW d \in Added'
        PROVE  table'[netidOf'[d]] = d
    <3>1. CASE d = c
      BY <1>1, <1>2, <1>3, <3>1
    <3>2. CASE d # c
      <4>1. d \in Added /\ d \in Conns
        BY <1>4, <3>2 DEF Added
      <4>2. table[netidOf[d]] = d /\ netidOf[d] \in NetIds /\ netidOf'[d] = netidOf[d]
        BY <1>2, <1>3, <3>2, <4>1 DEF IInv, Registered
      <4>3. netidOf[d] # n
        BY <1>1, <4>1, <4>2, Basics
      <4> QED BY <1>2, <1>3, <4>2, <4>3
    <3> QED BY <3>1, <3>2
  <2> QED BY <2>1, <2>2 DEF Registered
<1>10. Recycled'
  <2>1. CASE recovery = <<>>
    <3>1. grown' = grown + 1 /\ recovery' = <<>> /\ n = grown /\ In(recovery') = {}
      BY <1>1, <1>2, <2>1, InEmpty
    <3>2. ASSUME NEW m \in NetIds, m < grown'
          PROVE  table'[m] # None
      <4>1. CASE m = n
        BY <1>1, <1>2, <1>3, <4>1, Basics
      <4>2. CASE m # n
        <5>1. m < grown
          BY <1>3, <3>1, <3>2, <4>2, Basics
        <5>2. table[m] # None
          BY <2>1, <5>1, InEmpty DEF IInv, Recycled
        <5> QED BY <1>2, <1>3, <4>2, <5>2
      <4> QED BY <4>1, <4>2
    <3> QED BY <3>1, <3>2 DEF Recycled
  <2>2. CASE recovery # <<>>
    <3>1. grown' = grown /\ recovery' = Tail(recovery) /\ n = Head(recovery)
      BY <1>1, <1>2, <2>2
    <3>2. /\ In(recovery) = {n} \cup In(recovery')
          /\ \A k \in DOMAIN recovery' : k + 1 \in DOMAIN recovery
                                         /\ recovery'[k] = recovery[k + 1]
          /\ 1 \in DOMAIN recovery /\ n = recovery[1] /\ DOMAIN recovery' \subseteq Nat \ {0}
      BY <1>3, <2>2, <3>1, InTail
    <3>3. \A j \in DOMAIN recovery, k \in DOMAIN recovery : recovery[j] = recovery[k] => j = k
      BY DEF IInv, Recycled
    <3>4. n \notin In(recovery')
      <4>1. ASSUME NEW k \in DOMAIN recovery', recovery'[k] = n
            PROVE  FALSE
        <5>1. recovery[k + 1] = recovery[1] /\ k + 1 \in DOMAIN recovery
          BY <3>2, <4>1
        <5>2. k + 1 = 1
          BY <3>2, <3>3, <5>1
        <5> QED BY <3>2, <5>2
      <4> QED BY <4>1 DEF In
    <3>5. \A j \in DOMAIN recovery', k \in DOMAIN recovery' :
             recovery'[j] = recovery'[k] => j = k
      <4>1. SUFFICES ASSUME NEW j \in DOMAIN recovery', NEW k \in DOMAIN recovery',
                            recovery'[j] = recovery'[k]
                     PROVE  j = k
        OBVIOUS
      <4>2. j + 1 = k + 1 /\ j \in Nat /\ k \in Nat
        BY <3>2, <3>3, <4>1
      <4> QED BY <4>2
    <3>6. ASSUME NEW m \in NetIds, m < grown'
          PROVE  table'[m] = None <=> m \in In(recovery')
      <4>1. table[m] = None <=> m \in In(recovery)
        BY <3>1, <3>6 DEF IInv, Recycled
      <4>2. CASE m = n
        BY <1>1, <1>2, <1>3, <3>4, <4>2, Basics
      <4>3. CASE m # n
        BY <1>2, <1>3, <3>2, <4>1, <4>3
      <4> QED BY <4>2, <4>3
    <3> QED BY <3>5, <3>6 DEF Recycled
  <2> QED BY <2>1, <2>2
<1>11. Opening'
  <2>1. ASSUME NEW p \in Openers, opc'[p] = "add"
        PROVE  p # o /\ opc[p] = "add" /\ stage'[opened[p]] = "made"
    <3>1. p # o /\ opc[p] = "add"
      BY <1>2, <1>3, <2>1
    <3>2. opened[p] \in Conns /\ stage[opened[p]] = "made" /\ opened[p] # c
      BY <1>2, <3>1 DEF IInv, Opening, c
    <3> QED BY <1>2, <1>3, <3>1, <3>2
  <2>2. ASSUME NEW p \in Openers, opc'[p] # "idle"
        PROVE  opened'[p] \in Conns
    <3>1. opc[p] # "idle"
      BY <1>2, <1>3, <2>2
    <3> QED BY <1>2, <3>1 DEF IInv, Opening
  <2> QED BY <1>2, <2>1, <2>2 DEF IInv, Opening
<1>12. OwnSocks'
  BY <1>2, <1>4 DEF IInv, OwnSocks
<1>13. Watched'
  <2>1. ASSUME NEW u \in Polls PROVE Mine(u) \subseteq Mine(u)'
    <3>1. ASSUME NEW d \in Added, PollOf(netidOf[d]) = u PROVE sockOf[d] \in Mine(u)'
      <4>1. d # c /\ d \in Conns
        BY <1>1 DEF Added
      <4>2. netidOf'[d] = netidOf[d] /\ sockOf'[d] = sockOf[d] /\ d \in Added'
        BY <1>2, <1>3, <1>4, <4>1
      <4>3. (PollOf(netidOf[d]) = u)'
        BY <3>1, <4>2 DEF PollOf
      <4> QED BY <4>2, <4>3 DEF Mine
    <3> QED BY <3>1 DEF Mine
  <2>2. ASSUME NEW u \in Polls, u = t PROVE sockOf[c] \in Mine(u)'
    <3>1. netidOf'[c] = n /\ sockOf'[c] = sockOf[c] /\ c \in Added'
      BY <1>1, <1>2, <1>3, <1>4
    <3>2. u = PollOf(n)
      BY <2>2 DEF t
    <3>3. ASSUME NEW d \in Added', d = c PROVE sockOf'[d] \in Mine(u)'
      <4>1. (PollOf(netidOf[d]) = u)'
        BY <3>1, <3>2, <3>3 DEF PollOf
      <4> QED BY <4>1 DEF Mine
    <3> QED BY <3>1, <3>3
  <2>3. ASSUME NEW u \in Polls PROVE rfdset'[u] \subseteq Mine(u)'
    <3>1. rfdset[u] \subseteq Mine(u)
      BY DEF IInv, Watched
    <3>2. CASE u = t
      BY <1>1, <1>2, <1>3, <1>6, <2>1, <2>2, <3>1, <3>2
    <3>3. CASE u # t
      BY <1>2, <1>3, <2>1, <3>1, <3>3
    <3> QED BY <3>2, <3>3
  <2> QED BY <1>2, <2>1, <2>3 DEF IInv, Watched
<1>14. Closing'
  <2>1. ASSUME NEW u \in Polls, NEW r \in In(offids[u])
        PROVE  table'[r.netid] = r.conn /\ PollOf(r.netid) = u
    <3>1. r \in Requests /\ table[r.netid] = r.conn /\ PollOf(r.netid) = u
      BY <1>3, InType DEF IInv, Closing
    <3>2. r.netid \in NetIds /\ r.conn \in Conns
      BY <3>1 DEF Requests
    <3>3. r.netid # n
      BY <1>1, <3>1, <3>2, Basics
    <3> QED BY <1>2, <1>3, <3>1, <3>2, <3>3
  <2>2. ASSUME NEW u \in Polls PROVE tpc[u] # "delete" /\ dels[u] = <<>>
    <3>1. tpc[u] # "delete"
      BY <1>2, Basics DEF IInv, Locks
    <3> QED BY <3>1 DEF IInv, Closing
  <2> QED BY <1>2, <2>1, <2>2, InEmpty DEF Closing
<1>15. Sending'
  BY <1>2, <1>4 DEF IInv, Sending
<1> QED BY <1>8, <1>9, <1>10, <1>11, <1>12, <1>13, <1>14, <1>15, Stays DEF AddHandler, IInv

\* Events carry a netid the list has given out.
LEMMA EventType ==
  ASSUME NEW kind \in {"accept", "recv", "disconnect", "connect", "failed"},
         NEW netid \in NetIds, NEW conn \in Conns
  PROVE  Event(kind, netid, conn) \in Events
BY DEF Event, Events

\* An opener that has announced its connection is idle.
LEMMA AnnouncedInv ==
  ASSUME IInv, NEW o \in Openers, opc[o] = "announce",
         opc' = [opc EXCEPT ![o] = "idle"], opened' = [opened EXCEPT ![o] = None],
         stage' = stage
  PROVE  Opening'
<1>1. /\ opened \in [Openers -> Conns \cup {None}]
      /\ opc \in [Openers -> {"idle", "add", "announce"}]
  BY DEF IInv, TypeOK
<1> QED BY <1>1 DEF IInv, Opening

\* Announcing changes no handler.
LEMMA AnnounceAcceptInv ==
  ASSUME IInv, AnnounceAccept
  PROVE  IInv'
<1>1. "accept" \in Openers /\ opc["accept"] = "announce"
  BY DEF AnnounceAccept
<1>2. Opening'
  BY <1>1, AnnouncedInv DEF AnnounceAccept
<1>3. TypeOK'
  <2>1. opened["accept"] \in Conns /\ netidOf[opened["accept"]] \in NetIds
    BY <1>1 DEF IInv, Opening, TypeOK
  <2>2. jobs' \in Seq(Events)
    BY <2>1, EventType, InAppend DEF AnnounceAccept, IInv, TypeOK
  <2> QED BY <1>1, <2>2 DEF AnnounceAccept, IInv, TypeOK
<1> QED BY <1>2, <1>3, Stays DEF AnnounceAccept, IInv

\* The same by the queue of results.
LEMMA AnnounceConnectInv ==
  ASSUME IInv, AnnounceConnect
  PROVE  IInv'
<1>1. "connect" \in Openers /\ opc["connect"] = "announce"
  BY DEF AnnounceConnect
<1>2. Opening'
  BY <1>1, AnnouncedInv DEF AnnounceConnect
<1>3. TypeOK'
  <2> DEFINE c == opened["connect"]
             kind == IF stage[c] = "refused" THEN "failed" ELSE "connect"
  <2>1. c \in Conns /\ netidOf[c] \in NetIds
    BY <1>1 DEF IInv, Opening, TypeOK
  <2>2. Event(kind, netidOf[c], c) \in Events
    BY <2>1, EventType
  <2>3. rets' = Append(rets, Event(kind, netidOf[c], c))
    BY DEF AnnounceConnect
  <2>4. rets' \in Seq(Events)
    BY <2>2, <2>3, InAppend DEF IInv, TypeOK
  <2> QED BY <1>1, <2>4 DEF AnnounceConnect, IInv, TypeOK
<1> QED BY <1>2, <1>3, Stays DEF AnnounceConnect, IInv
-----------------------------------------------------------------------------
(* Handlers are deleted *)

\* While a thread deletes handlers nobody else reads the register or changes it.
LEMMA Alone ==
  ASSUME IInv, NEW t \in Polls, tpc[t] = "delete"
  PROVE  /\ writer = t /\ readers = {} /\ mpc # "append" /\ offids[t] = <<>>
         /\ \A u \in Polls \ {t} : tpc[u] # "delete" /\ dels[u] = <<>>
         /\ rset[t] = {} /\ wset[t] = {}
BY Basics DEF IInv, Locks, Closing, Watched

\* The thread that takes the requests is the only one inside m_rwlock.
LEMMA DelBeginInv ==
  ASSUME IInv, NEW t \in Polls, DelBegin(t)
  PROVE  IInv'
<1>1. /\ tpc[t] = "loop" /\ readers = {} /\ writer = None /\ writer' = t
      /\ dels' = [dels EXCEPT ![t] = offids[t]] /\ offids' = [offids EXCEPT ![t] = <<>>]
      /\ tpc' = [tpc EXCEPT ![t] = "delete"]
      /\ UNCHANGED <<readers, mpc, table, rfdset, wfdset, rset, wset, stage, sockOf, netidOf>>
  BY DEF DelBegin, LockFree
<1>2. /\ tpc \in [Polls -> {"loop", "delete", "rlock", "scan"}]
      /\ offids \in [Polls -> Seq(Requests)] /\ dels \in [Polls -> Seq(Requests)]
  BY DEF IInv, TypeOK
<1>3. TypeOK'
  <2>1. /\ dels' \in [Polls -> Seq(Requests)] /\ offids' \in [Polls -> Seq(Requests)]
        /\ tpc' \in [Polls -> {"loop", "delete", "rlock", "scan"}]
    BY <1>1, <1>2, EmptySeq
  <2> QED BY <2>1 DEF DelBegin, IInv, TypeOK
<1>4. Locks'
  BY <1>1, <1>2, Basics DEF IInv, Locks
<1>5. Watched'
  <2>1. \A u \in Polls : Mine(u)' = Mine(u)
    BY <1>1 DEF Mine, Added
  <2> QED BY <1>1, <1>2, <2>1 DEF IInv, Watched
<1>6. Closing'
  <2>1. ASSUME NEW u \in Polls, u # t
        PROVE  offids'[u] = offids[u] /\ dels'[u] = dels[u] /\ tpc'[u] = tpc[u]
    BY <1>1, <1>2, <2>1
  <2>2. offids'[t] = <<>> /\ dels'[t] = offids[t] /\ tpc'[t] = "delete"
    BY <1>1, <1>2
  <2> QED BY <1>1, <2>1, <2>2, InEmpty DEF IInv, Closing
<1> QED BY <1>3, <1>4, <1>5, <1>6, Stays DEF DelBegin, IInv

\* The second request for a netid finds nobody and drops out.
LEMMA DelAgainInv ==
  ASSUME IInv, NEW t \in Polls, DelAgain(t)
  PROVE  IInv'
<1>1. /\ tpc[t] = "delete" /\ dels[t] # <<>> /\ dels' = [dels EXCEPT ![t] = Tail(dels[t])]
      /\ UNCHANGED <<table, offids, tpc>>
  BY DEF DelAgain
<1>2. dels \in [Polls -> Seq(Requests)]
  BY DEF IInv, TypeOK
<1>3. Tail(dels[t]) \in Seq(Requests) /\ In(Tail(dels[t])) \subseteq In(dels[t])
  BY <1>1, <1>2, InTail
<1>4. TypeOK'
  <2>1. dels' \in [Polls -> Seq(Requests)]
    BY <1>1, <1>2, <1>3
  <2> QED BY <2>1 DEF DelAgain, IInv, TypeOK
<1>5. Closing'
  <2>1. \A u \in Polls : In(dels'[u]) \subseteq In(dels[u])
    BY <1>1, <1>2, <1>3
  <2>2. \A u \in Polls : u # t => dels'[u] = dels[u]
    BY <1>1, <1>2
  <2> QED BY <1>1, <2>1, <2>2 DEF IInv, Closing
<1> QED BY <1>4, <1>5, Stays DEF DelAgain, IInv

\* The deleted handler is in no set, no request and no scan any more.
LEMMA DelOneInv ==
  ASSUME IInv, NEW t \in Polls, DelOne(t)
  PROVE  IInv'
<1> DEFINE r == Head(dels[t])
           n == r.netid
           c == table[n]
<1>1. /\ tpc[t] = "delete" /\ dels[t] # <<>> /\ c # None
      /\ jobs' = Append(jobs, Event("disconnect", netidOf[c], c))
      /\ stage' = [stage EXCEPT ![c] = "deleted"]
      /\ sockOf' = [sockOf EXCEPT ![c] = NoSock]
      /\ hlock' = [hlock EXCEPT ![c] = None]
      /\ rx' = [rx EXCEPT ![c] = 0]
      /\ rfdset' = [rfdset EXCEPT ![t] = rfdset[t] \ {sockOf[c]}]
      /\ wfdset' = [wfdset EXCEPT ![t] = wfdset[t] \ {sockOf[c]}]
      /\ table' = [table EXCEPT ![n] = None]
      /\ recovery' = Append(recovery, n)
      /\ dels' = [dels EXCEPT ![t] = Tail(dels[t])]
      /\ UNCHANGED <<said, netidOf, grown, offids, tpc, rset, wset, opc, opened, mpc, sendTo>>
  BY DEF DelOne
<1>2. /\ dels \in [Polls -> Seq(Requests)] /\ offids \in [Polls -> Seq(Requests)]
      /\ table \in [NetIds -> Conns \cup {None}] /\ netidOf \in [Conns -> NetIds]
      /\ stage \in [Conns -> {"new", "refused", "made", "added", "deleted"}]
      /\ sockOf \in [Conns -> Socks \cup {NoSock}] /\ rx \in [Conns -> 0 .. MaxData]
      /\ rfdset \in [Polls -> SUBSET Socks] /\ wfdset \in [Polls -> SUBSET Socks]
      /\ grown \in 0 .. MaxConns /\ recovery \in Seq(0 .. grown - 1)
      /\ jobs \in Seq(Events) /\ hlock \in [Conns -> Polls \cup {None}]
  BY DEF IInv, TypeOK
<1>3. r \in Requests /\ r \in In(dels[t]) /\ Tail(dels[t]) \in Seq(Requests)
      /\ In(Tail(dels[t])) \subseteq In(dels[t])
  BY <1>1, <1>2, InTail, SMTT(20)
<1>4. /\ n \in NetIds /\ PollOf(n) = t /\ c \in Added /\ c \in Conns /\ c \in Alive
      /\ netidOf[c] = n /\ n < grown
  <2>1. n \in NetIds
    BY <1>3 DEF Requests
  <2>2. PollOf(n) = t
    BY <1>3 DEF IInv, Closing
  <2> QED BY <1>1, <2>1, <2>2 DEF IInv, Registered, Added, Alive
<1>a. /\ offids[t] = <<>> /\ mpc # "append"
      /\ \A u \in Polls \ {t} : tpc[u] # "delete" /\ dels[u] = <<>>
      /\ rset[t] = {} /\ wset[t] = {}
  BY <1>1, Alone
<1> HIDE DEF r, n, c
<1>5. Added' = Added \ {c} /\ Alive' = Alive \ {c}
  BY <1>1, <1>2, <1>4 DEF Added, Alive
<1>6. \A d \in Added : netidOf[d] = n => d = c
  BY DEF IInv, Registered, c
<1>7. recovery' \in Seq(0 .. grown - 1) /\ In(recovery') = In(recovery) \cup {n}
      /\ n \notin In(recovery)
  <2> DEFINE G == 0 .. grown - 1
  <2>1. n \in G /\ recovery \in Seq(G)
    BY <1>2, <1>4, Basics
  <2>2. n \notin In(recovery)
    BY <1>1, <1>4 DEF IInv, Recycled, c
  <2> HIDE DEF G
  <2>3. Append(recovery, n) \in Seq(G) /\ In(Append(recovery, n)) = In(recovery) \cup {n}
    BY <2>1, InAppend
  <2> QED BY <1>1, <2>2, <2>3 DEF G
<1>8. TypeOK'
  <2>1. jobs' \in Seq(Events)
    BY <1>1, <1>2, <1>4, EventType, InAppend
  <2>2. /\ stage' \in [Conns -> {"new", "refused", "made", "added", "deleted"}]
        /\ sockOf' \in [Conns -> Socks \cup {NoSock}] /\ rx' \in [Conns -> 0 .. MaxData]
        /\ hlock' \in [Conns -> Polls \cup {None}]
        /\ table' \in [NetIds -> Conns \cup {None}]
    BY <1>1, <1>2, <1>4, Basics, SMTT(20)
  <2>3. /\ rfdset' \in [Polls -> SUBSET Socks] /\ wfdset' \in [Polls -> SUBSET Socks]
        /\ dels' \in [Polls -> Seq(Requests)]
    BY <1>1, <1>2, <1>3
  <2> QED BY <1>7, <2>1, <2>2, <2>3 DEF DelOne, IInv, TypeOK
<1>9. Registered'
  <2>1. ASSUME NEW m \in NetIds, table'[m] # None
        PROVE  table'[m] \in Added' /\ netidOf'[table'[m]] = m /\ m < grown'
    <3>1. m # n /\ table'[m] = table[m]
      BY <1>1, <1>2, <2>1
    <3>2. table[m] \in Added /\ netidOf[table[m]] = m /\ m < grown
      BY <2>1, <3>1 DEF IInv, Registered
    <3>3. table[m] # c
      BY <1>4, <3>1, <3>2
    <3> QED BY <1>1, <1>5, <3>1, <3>2, <3>3
  <2>2. ASSUME NEW d \in Added'
        PROVE  table'[netidOf'[d]] = d
    <3>1. d \in Added /\ d # c /\ d \in Conns
      BY <1>5 DEF Added
    <3>2. table[netidOf[d]] = d /\ netidOf[d] \in NetIds /\ netidOf[d] # n
      BY <1>2, <1>6, <3>1 DEF IInv, Registered
    <3> QED BY <1>1, <1>2, <3>2
  <2> QED BY <2>1, <2>2 DEF Registered
<1>10. Recycled'
  <2>1. ASSUME NEW m \in NetIds, m < grown'
        PROVE  table'[m] = None <=> m \in In(recovery')
    <3>1. table[m] = None <=> m \in In(recovery)
      BY <1>1, <2>1 DEF IInv, Recycled
    <3>2. CASE m = n
      BY <1>1, <1>2, <1>4, <1>7, <3>2
    <3>3. CASE m # n
      BY <1>1, <1>2, <1>7, <3>1, <3>3
    <3> QED BY <3>2, <3>3
  <2>2. /\ DOMAIN recovery' = 1 .. Len(recovery) + 1 /\ DOMAIN recovery = 1 .. Len(recovery)
        /\ Len(recovery) \in Nat /\ recovery'[Len(recovery) + 1] = n
        /\ \A k \in DOMAIN recovery : recovery'[k] = recovery[k]
    BY <1>1, <1>2
  <2>3. \A k \in DOMAIN recovery : recovery[k] # n
    BY <1>7 DEF In
  <2>4. ASSUME NEW j \in DOMAIN recovery', NEW k \in DOMAIN recovery',
               recovery'[j] = recovery'[k]
        PROVE  j = k
    <3>1. \A i \in DOMAIN recovery' : i \in DOMAIN recovery \/ i = Len(recovery) + 1
      BY <2>2
    <3>2. CASE j \in DOMAIN recovery /\ k \in DOMAIN recovery
      BY <2>2, <2>4, <3>2 DEF IInv, Recycled
    <3>3. CASE ~(j \in DOMAIN recovery /\ k \in DOMAIN recovery)
      BY <2>2, <2>3, <2>4, <3>1, <3>3
    <3> QED BY <3>2, <3>3
  <2> QED BY <2>1, <2>4 DEF Recycled
<1>11. Opening'
  <2>1. ASSUME NEW p \in Openers, opc[p] = "add"
        PROVE  stage'[opened[p]] = "made"
    <3>1. opened[p] \in Conns /\ stage[opened[p]] = "made"
      BY <2>1 DEF IInv, Opening
    <3>2. opened[p] # c
      BY <1>4, <3>1 DEF Added
    <3> QED BY <1>1, <1>2, <3>1, <3>2
  <2> QED BY <1>1, <2>1 DEF IInv, Opening
<1>12. OwnSocks'
  <2>1. \A d \in Alive' : d \in Alive /\ sockOf'[d] = sockOf[d]
    BY <1>1, <1>2, <1>5 DEF Alive
  <2> QED BY <2>1 DEF IInv, OwnSocks
<1>13. Watched'
  <2>1. ASSUME NEW u \in Polls, NEW s \in Mine(u), u # t \/ s # sockOf[c]
        PROVE  s \in Mine(u)'
    <3>1. PICK d \in Added : PollOf(netidOf[d]) = u /\ sockOf[d] = s
      BY DEF Mine
    <3>2. d # c
      BY <1>4, <2>1, <3>1
    <3>3. d \in Added' /\ netidOf'[d] = netidOf[d] /\ sockOf'[d] = s
      BY <1>1, <1>2, <1>5, <3>1, <3>2 DEF Added
    <3>4. (PollOf(netidOf[d]) = u)'
      BY <3>1, <3>3 DEF PollOf
    <3> QED BY <3>3, <3>4 DEF Mine
  <2>2. ASSUME NEW u \in Polls
        PROVE  rfdset'[u] \subseteq Mine(u)' /\ wfdset'[u] \subseteq Mine(u)'
    <3>1. rfdset[u] \subseteq Mine(u) /\ wfdset[u] \subseteq Mine(u)
      BY DEF IInv, Watched
    <3>2. CASE u = t
      BY <1>1, <1>2, <2>1, <3>1, <3>2
    <3>3. CASE u # t
      BY <1>1, <1>2, <2>1, <3>1, <3>3
    <3> QED BY <3>2, <3>3
  <2>3. ASSUME NEW u \in Polls
        PROVE  rset[u] \subseteq Mine(u)' /\ wset[u] \subseteq Mine(u)'
    <3>1. CASE u = t
      BY <1>a, <3>1
    <3>2. CASE u # t
      BY <2>1, <3>2 DEF IInv, Watched
    <3> QED BY <3>1, <3>2
  <2> QED BY <1>1, <2>2, <2>3 DEF IInv, Watched
<1>14. Closing'
  <2>1. ASSUME NEW u \in Polls, u # t
        PROVE  /\ \A q \in In(offids[u]) : table'[q.netid] = q.conn /\ PollOf(q.netid) = u
               /\ dels'[u] = <<>> /\ tpc[u] # "delete"
    <3>1. ASSUME NEW q \in In(offids[u])
          PROVE  table'[q.netid] = q.conn /\ PollOf(q.netid) = u
      <4>1. table[q.netid] = q.conn /\ PollOf(q.netid) = u
        BY DEF IInv, Closing
      <4>2. q \in Requests
        BY <1>2, InType
      <4>3. q.netid \in NetIds
        BY <4>2 DEF Requests
      <4> QED BY <1>1, <1>2, <1>4, <2>1, <4>1, <4>3
    <3> QED BY <1>1, <1>2, <1>a, <2>1, <3>1
  <2>2. ASSUME NEW q \in In(dels'[t])
        PROVE  table'[q.netid] \in {q.conn, None} /\ PollOf(q.netid) = t
    <3>1. q \in In(dels[t])
      BY <1>1, <1>2, <1>3
    <3>2. table[q.netid] \in {q.conn, None} /\ PollOf(q.netid) = t
      BY <3>1 DEF IInv, Closing
    <3>3. q \in Requests
      BY <1>2, <3>1, InType
    <3>4. q.netid \in NetIds
      BY <3>3 DEF Requests
    <3> QED BY <1>1, <1>2, <3>2, <3>4
  <2> QED BY <1>1, <1>a, <2>1, <2>2, InEmpty DEF Closing
<1>15. Sending'
  BY <1>1, <1>a DEF IInv, Sending
<1>16. Received'
  <2>1. said \in Nat /\ rx'[c] = 0
    BY <1>1, <1>2, <1>4, Basics DEF IInv, TypeOK
  <2> QED BY <1>1, <1>2, <2>1 DEF IInv, Received
<1>17. Locks'
  BY Stays DEF DelOne
<1> QED BY <1>8, <1>9, <1>10, <1>11, <1>12, <1>13, <1>14, <1>15, <1>16, <1>17 DEF IInv

\* The lock is given back with no request left.
LEMMA DelEndInv ==
  ASSUME IInv, NEW t \in Polls, DelEnd(t)
  PROVE  IInv'
<1>1. /\ tpc[t] = "delete" /\ dels[t] = <<>> /\ writer' = None
      /\ tpc' = [tpc EXCEPT ![t] = "loop"]
      /\ UNCHANGED <<readers, mpc, table, offids, dels, rfdset, wfdset, rset, wset, stage,
                     sockOf, netidOf>>
  BY DEF DelEnd
<1>2. tpc \in [Polls -> {"loop", "delete", "rlock", "scan"}]
  BY DEF IInv, TypeOK
<1>3. TypeOK'
  BY <1>1, <1>2 DEF DelEnd, IInv, TypeOK
<1>4. Locks'
  <2>1. readers = {} /\ mpc # "append" /\ \A u \in Polls \ {t} : tpc[u] # "delete"
    BY <1>1, Alone
  <2>2. \A u \in Polls : tpc[u] # "scan"
    BY <2>1 DEF IInv, Locks
  <2> QED BY <1>1, <1>2, <2>1, <2>2, Basics DEF Locks
<1>5. Watched'
  <2>1. \A u \in Polls : Mine(u)' = Mine(u)
    BY <1>1 DEF Mine, Added
  <2> QED BY <1>1, <1>2, <2>1 DEF IInv, Watched
<1>6. Closing'
  BY <1>1, <1>2 DEF IInv, Closing
<1> QED BY <1>3, <1>4, <1>5, <1>6, Stays DEF DelEnd, IInv
-----------------------------------------------------------------------------
(* The scan *)

\* Which sockets a thread watches depends only on who has them.
LEMMA MineStays ==
  ASSUME UNCHANGED <<stage, sockOf, netidOf>>, NEW t \in Polls
  PROVE  Mine(t)' = Mine(t)
BY DEF Mine, Added

\* The sockets that select() finds ready are among those of the poll.
LEMMA SelectInv ==
  ASSUME IInv, NEW t \in Polls, Select(t)
  PROVE  IInv'
<1>1. /\ tpc[t] = "loop" /\ tpc' = [tpc EXCEPT ![t] = "rlock"]
      /\ rset' = [rset EXCEPT ![t] = {s \in rfdset[t] : Readable(s)}]
      /\ UNCHANGED <<writer, readers, mpc, table, offids, dels, rfdset, wfdset, stage,
                     sockOf, netidOf>>
  BY DEF Select
<1>2. PICK writable \in SUBSET wfdset[t] : wset' = [wset EXCEPT ![t] = writable]
  BY DEF Select
<1>3. /\ tpc \in [Polls -> {"loop", "delete", "rlock", "scan"}]
      /\ rset \in [Polls -> SUBSET Socks] /\ wset \in [Polls -> SUBSET Socks]
      /\ rfdset \in [Polls -> SUBSET Socks] /\ wfdset \in [Polls -> SUBSET Socks]
  BY DEF IInv, TypeOK
<1>4. rset'[t] \subseteq rfdset[t] /\ wset'[t] \subseteq wfdset[t]
  BY <1>1, <1>2, <1>3
<1>5. TypeOK'
  <2>1. rset' \in [Polls -> SUBSET Socks] /\ wset' \in [Polls -> SUBSET Socks]
        /\ tpc' \in [Polls -> {"loop", "delete", "rlock", "scan"}]
    BY <1>1, <1>2, <1>3
  <2> QED BY <2>1 DEF Select, IInv, TypeOK
<1>6. Locks'
  BY <1>1, <1>3 DEF IInv, Locks
<1>7. Watched'
  <2>1. \A u \in Polls \ {t} : rset'[u] = rset[u] /\ wset'[u] = wset[u] /\ tpc'[u] = tpc[u]
    BY <1>1, <1>2, <1>3
  <2>2. tpc'[t] = "rlock"
    BY <1>1, <1>3
  <2>3. \A u \in Polls : Mine(u)' = Mine(u)
    BY <1>1, MineStays
  <2> QED BY <1>1, <1>4, <2>1, <2>2, <2>3 DEF IInv, Watched
<1>8. Closing'
  BY <1>1, <1>3 DEF IInv, Closing
<1> QED BY <1>5, <1>6, <1>7, <1>8, Stays DEF Select, IInv

\* A reader enters only when there is no writer.
LEMMA ScanBeginInv ==
  ASSUME IInv, NEW t \in Polls, ScanBegin(t)
  PROVE  IInv'
<1>1. /\ tpc[t] = "rlock" /\ writer = None /\ readers' = readers \cup {t}
      /\ tpc' = [tpc EXCEPT ![t] = "scan"]
      /\ UNCHANGED <<writer, mpc, table, offids, dels, rfdset, wfdset, rset, wset, stage,
                     sockOf, netidOf>>
  BY DEF ScanBegin
<1>2. tpc \in [Polls -> {"loop", "delete", "rlock", "scan"}]
  BY DEF IInv, TypeOK
<1>3. TypeOK'
  BY <1>1, <1>2 DEF ScanBegin, IInv, TypeOK
<1>4. Locks'
  <2>1. Main \in readers' <=> Main \in readers
    BY <1>1, Basics
  <2>2. \A u \in Polls : u \in readers' <=> tpc'[u] = "scan"
    BY <1>1, <1>2 DEF IInv, Locks
  <2>3. \A u \in Polls : writer' = u <=> tpc'[u] = "delete"
    BY <1>1, <1>2 DEF IInv, Locks
  <2> QED BY <1>1, <2>1, <2>2, <2>3 DEF IInv, Locks
<1>5. Watched'
  <2>1. \A u \in Polls : Mine(u)' = Mine(u)
    BY <1>1, MineStays
  <2> QED BY <1>1, <1>2, <2>1 DEF IInv, Watched
<1>6. Closing'
  BY <1>1, <1>2 DEF IInv, Closing
<1> QED BY <1>3, <1>4, <1>5, <1>6, Stays DEF ScanBegin, IInv

\* A reader leaves with nothing left to scan.
LEMMA ScanEndInv ==
  ASSUME IInv, NEW t \in Polls, ScanEnd(t)
  PROVE  IInv'
<1>1. /\ tpc[t] = "scan" /\ readers' = readers \ {t}
      /\ rset' = [rset EXCEPT ![t] = {}] /\ wset' = [wset EXCEPT ![t] = {}]
      /\ tpc' = [tpc EXCEPT ![t] = "loop"]
      /\ UNCHANGED <<writer, mpc, table, offids, dels, rfdset, wfdset, stage, sockOf, netidOf>>
  BY DEF ScanEnd
<1>2. /\ tpc \in [Polls -> {"loop", "delete", "rlock", "scan"}]
      /\ rset \in [Polls -> SUBSET Socks] /\ wset \in [Polls -> SUBSET Socks]
  BY DEF IInv, TypeOK
<1>3. TypeOK'
  BY <1>1, <1>2, SMTT(20) DEF ScanEnd, IInv, TypeOK
<1>4. Locks'
  <2>1. Main \in readers' <=> Main \in readers
    BY <1>1, Basics
  <2>2. \A u \in Polls : u \in readers' <=> tpc'[u] = "scan"
    BY <1>1, <1>2 DEF IInv, Locks
  <2>3. \A u \in Polls : writer' = u <=> tpc'[u] = "delete"
    BY <1>1, <1>2 DEF IInv, Locks
  <2>4. writer' # None => readers' = {}
    BY <1>1 DEF IInv, Locks
  <2> QED BY <1>1, <2>1, <2>2, <2>3, <2>4 DEF IInv, Locks
<1>5. Watched'
  <2>1. \A u \in Polls : Mine(u)' = Mine(u)
    BY <1>1, MineStays
  <2>2. \A u \in Polls \ {t} : rset'[u] = rset[u] /\ wset'[u] = wset[u] /\ tpc'[u] = tpc[u]
    BY <1>1, <1>2
  <2>3. rset'[t] = {} /\ wset'[t] = {}
    BY <1>1, <1>2
  <2> QED BY <1>1, <2>1, <2>2, <2>3 DEF IInv, Watched
<1>6. Closing'
  BY <1>1, <1>2 DEF IInv, Closing
<1> QED BY <1>3, <1>4, <1>5, <1>6, Stays DEF ScanEnd, IInv

\* A scan that is done with a handler watches less, and asks for its end or does not.
LEMMA ServedInv ==
  ASSUME IInv, NEW t \in Polls, NEW c, AtHandler(t, c),
         offids' = OffIds(c) \/ offids' = offids,
         \A u \in Polls : rset'[u] \subseteq rset[u] /\ wset'[u] \subseteq wset[u]
                          /\ wfdset'[u] \subseteq wfdset[u],
         UNCHANGED <<table, dels, tpc, rfdset, stage, sockOf, netidOf>>
  PROVE  Watched' /\ Closing' /\ offids' \in [Polls -> Seq(Requests)]
<1>1. /\ c \in Conns /\ netidOf[c] \in NetIds /\ PollOf(netidOf[c]) = t
      /\ table[netidOf[c]] = c /\ tpc[t] = "scan"
  BY AtOwn
<1>2. offids \in [Polls -> Seq(Requests)]
  BY DEF IInv, TypeOK
<1>3. Watched'
  <2>1. \A u \in Polls : Mine(u)' = Mine(u)
    BY MineStays
  <2> QED BY <2>1 DEF IInv, Watched
<1>4. CASE offids' = offids
  BY <1>2, <1>3, <1>4, Stays
<1>5. CASE offids' = OffIds(c)
  <2> DEFINE r == [netid |-> netidOf[c], conn |-> c]
  <2>1. offids' = [offids EXCEPT ![t] = Append(offids[t], r)]
    BY <1>1, <1>5 DEF OffIds
  <2>2. r \in Requests /\ r.netid = netidOf[c] /\ r.conn = c
    BY <1>1 DEF Requests
  <2> HIDE DEF r
  <2>3. /\ Append(offids[t], r) \in Seq(Requests)
        /\ In(Append(offids[t], r)) = In(offids[t]) \cup {r}
    BY <1>2, <2>2, InAppend
  <2>4. offids' \in [Polls -> Seq(Requests)]
    BY <1>2, <2>1, <2>3
  <2>5. Closing'
    <3>1. In(offids'[t]) = In(offids[t]) \cup {r}
      BY <1>2, <2>1, <2>3
    <3>2. \A u \in Polls \ {t} : offids'[u] = offids[u]
      BY <1>2, <2>1
    <3>3. table[r.netid] = r.conn /\ PollOf(r.netid) = t
      BY <1>1, <2>2
    <3> QED BY <1>1, <3>1, <3>2, <3>3 DEF IInv, Closing
  <2> QED BY <1>3, <2>4, <2>5
<1> QED BY <1>4, <1>5

\* A handler that is called may ask to be closed: the request names its
\* connection, which stays in the table until the request is carried out.
LEMMA HandleInv ==
  ASSUME IInv, NEW t \in Polls, NEW c \in Conns, Handle(t, c)
  PROVE  IInv'
<1>0. /\ rset \in [Polls -> SUBSET Socks] /\ wset \in [Polls -> SUBSET Socks]
      /\ wfdset \in [Polls -> SUBSET Socks] /\ rx \in [Conns -> 0 .. MaxData]
      /\ blockErr \in [Polls -> BOOLEAN] /\ hlock \in [Conns -> Polls \cup {None}]
      /\ jobs \in Seq(Events)
  BY DEF IInv, TypeOK
<1>a. netidOf[c] \in NetIds /\ PollOf(netidOf[c]) \in Polls
  BY Basics DEF IInv, TypeOK
<1>1. CASE RecvMessage(t, c)
  <2>1. rx' = [rx EXCEPT ![c] = rx[c] - 1] /\ rx[c] > 0 /\ rx[c] \in 0 .. MaxData
        /\ jobs' = Append(jobs, Event("recv", netidOf[c], c)) /\ said' = said
    BY <1>0, <1>1 DEF RecvMessage
  <2>2. jobs' \in Seq(Events)
    BY <1>0, <1>a, <2>1, EventType, InAppend
  <2>3. rx[c] - 1 \in 0 .. MaxData /\ rx[c] - 1 <= rx[c]
    BY <2>1, Basics
  <2>4. TypeOK'
    <3>1. rx' \in [Conns -> 0 .. MaxData]
      BY <1>0, <2>1, <2>3
    <3> QED BY <1>1, <2>2, <3>1 DEF RecvMessage, IInv, TypeOK
  <2>5. Received'
    <3>1. rx[c] <= said /\ said \in Nat
      BY Basics DEF IInv, Received, TypeOK
    <3>2. rx[c] - 1 <= said
      BY <2>1, <3>1, Basics
    <3> QED BY <1>0, <2>1, <3>2 DEF IInv, Received
  <2> QED BY <1>1, <2>4, <2>5, Stays DEF RecvMessage, IInv
<1>2. CASE RecvWouldBlock(t, c)
  <2>1. \A u \in Polls : rset'[u] \subseteq rset[u]
    BY <1>0, <1>2 DEF RecvWouldBlock, ReadDone
  <2>2. Watched' /\ Closing'
    BY <1>2, <2>1, ServedInv DEF RecvWouldBlock, Reads
  <2>3. TypeOK'
    BY <1>0, <1>2 DEF RecvWouldBlock, ReadDone, IInv, TypeOK
  <2> QED BY <1>2, <2>2, <2>3, Stays DEF RecvWouldBlock, IInv
<1>3. CASE RecvClosed(t, c)
  <2>1. \A u \in Polls : rset'[u] \subseteq rset[u]
    BY <1>0, <1>3 DEF RecvClosed, ReadDone
  <2>2. Watched' /\ Closing' /\ offids' \in [Polls -> Seq(Requests)]
    BY <1>3, <2>1, ServedInv DEF RecvClosed, Reads
  <2>3. TypeOK'
    BY <1>0, <1>3, <2>2 DEF RecvClosed, ReadDone, IInv, TypeOK
  <2> QED BY <1>3, <2>2, <2>3, Stays DEF RecvClosed, IInv
<1>4. CASE RecvReset(t, c)
  <2>1. \A u \in Polls : rset'[u] \subseteq rset[u]
    BY <1>0, <1>4 DEF RecvReset, ReadDone
  <2>2. Watched' /\ Closing' /\ offids' \in [Polls -> Seq(Requests)]
    BY <1>4, <2>1, ServedInv DEF RecvReset, Reads
  <2>3. TypeOK'
    BY <1>0, <1>4, <2>2 DEF RecvReset, ReadDone, IInv, TypeOK
  <2> QED BY <1>4, <2>2, <2>3, Stays DEF RecvReset, IInv
<1>5. CASE CanWrite(t, c)
  <2>1. \/ wfdset' = wfdset
        \/ wfdset' = [wfdset EXCEPT ![PollOf(netidOf[c])] =
                        wfdset[PollOf(netidOf[c])] \ {sockOf[c]}]
    BY <1>5 DEF CanWrite
  <2>2. wset' = [wset EXCEPT ![t] = wset[t] \ {sockOf[c]}]
        /\ hlock' = [hlock EXCEPT ![c] = t]
    BY <1>5 DEF CanWrite
  <2>3. offids' = offids \/ offids' = OffIds(c)
    BY <1>5 DEF CanWrite
  <2>4. blockErr' \in [Polls -> BOOLEAN]
    BY <1>0, <1>5 DEF CanWrite
  <2>5. \A u \in Polls : wset'[u] \subseteq wset[u] /\ wfdset'[u] \subseteq wfdset[u]
    BY <1>0, <1>a, <2>1, <2>2
  <2>6. Watched' /\ Closing' /\ offids' \in [Polls -> Seq(Requests)]
    BY <1>5, <2>3, <2>5, ServedInv DEF CanWrite, Writes
  <2>7. /\ wfdset' \in [Polls -> SUBSET Socks] /\ wset' \in [Polls -> SUBSET Socks]
        /\ hlock' \in [Conns -> Polls \cup {None}]
    BY <1>0, <1>a, <2>1, <2>2
  <2>8. TypeOK'
    BY <1>5, <2>4, <2>6, <2>7 DEF CanWrite, IInv, TypeOK
  <2> QED BY <1>5, <2>6, <2>8, Stays DEF CanWrite, IInv
<1> QED BY <1>1, <1>2, <1>3, <1>4, <1>5 DEF Handle
-----------------------------------------------------------------------------
(* The main thread *)

\* A callback that ends, with or without a send() to come.
LEMMA CallbackInv ==
  ASSUME IInv, mpc = "run", NEW netid \in NetIds,
         MaySend(netid) \/ UNCHANGED <<mpc, sendTo, sends>>,
         UNCHANGED <<writer, readers, tpc, stage>>
  PROVE  /\ Locks' /\ Sending' /\ sends' \in 0 .. MaxSends /\ mpc' \in {"run", "send"}
         /\ sendTo' \in NetIds \cup Conns \cup {None}
<1>1. sends \in 0 .. MaxSends /\ sendTo \in NetIds \cup Conns \cup {None}
  BY DEF IInv, TypeOK
<1>2. sends' \in 0 .. MaxSends
  BY <1>1, Basics DEF MaySend
<1>3. mpc' = "run" \/ (mpc' = "send" /\ sendTo' = netid)
  BY DEF MaySend
<1>4. sendTo' \in NetIds \cup Conns \cup {None}
  BY <1>1 DEF MaySend
<1>5. Locks'
  BY <1>3 DEF IInv, Locks
<1>6. Sending'
  BY <1>3 DEF Sending
<1> QED BY <1>2, <1>3, <1>4, <1>5, <1>6

\* The next event is taken out of the results or of the jobs.
LEMMA NextEvent ==
  ASSUME NEW s \in Seq(Events), s # <<>>
  PROVE  Head(s).netid \in NetIds /\ Head(s).conn \in Conns /\ Tail(s) \in Seq(Events)
<1>1. Head(s) \in Events /\ Tail(s) \in Seq(Events)
  BY InTail
<1> QED BY <1>1 DEF Events

\* Whatever the main thread does: it takes jobs and results and sends.
LEMMA UpdateInv ==
  ASSUME IInv, Update
  PROVE  IInv'
<1>0. /\ jobs \in Seq(Events) /\ batch \in Seq(Events) /\ rets \in Seq(Events)
      /\ wfdset \in [Polls -> SUBSET Socks] /\ readers \subseteq Polls \cup {Main}
      /\ speaker \in [NetIds -> Conns \cup {None}] /\ gone \subseteq Conns
      /\ table \in [NetIds -> Conns \cup {None}] /\ netidOf \in [Conns -> NetIds]
  BY DEF IInv, TypeOK
<1>1. CASE TakeBatch
  <2>1. TypeOK'
    BY <1>1, EmptySeq DEF TakeBatch, IInv, TypeOK
  <2> QED BY <1>1, <2>1, Stays DEF TakeBatch, IInv
<1>2. CASE RunAccept
  <2>1. Head(batch).netid \in NetIds /\ batch' = Tail(batch) /\ batch' \in Seq(Events)
    BY <1>0, <1>2, NextEvent DEF RunAccept
  <2>2. /\ Locks' /\ Sending' /\ sends' \in 0 .. MaxSends /\ mpc' \in {"run", "send"}
        /\ sendTo' \in NetIds \cup Conns \cup {None}
    BY <1>2, <2>1, CallbackInv DEF RunAccept
  <2>3. TypeOK'
    BY <1>2, <2>1, <2>2 DEF RunAccept, IInv, TypeOK
  <2> QED BY <1>2, <2>2, <2>3, Stays DEF RunAccept, IInv
<1>3. CASE RunRecv
  <2> DEFINE e == Head(batch)
  <2>1. e.netid \in NetIds /\ e.conn \in Conns /\ batch' \in Seq(Events)
    BY <1>0, <1>3, NextEvent DEF RunRecv
  <2>2. /\ Locks' /\ Sending' /\ sends' \in 0 .. MaxSends /\ mpc' \in {"run", "send"}
        /\ sendTo' \in NetIds \cup Conns \cup {None}
    BY <1>3, <2>1, CallbackInv DEF RunRecv
  <2>3. speaker' \in [NetIds -> Conns \cup {None}]
    BY <1>0, <1>3, <2>1 DEF RunRecv
  <2>4. TypeOK'
    BY <1>3, <2>1, <2>2, <2>3 DEF RunRecv, IInv, TypeOK
  <2> QED BY <1>3, <2>2, <2>4, Stays DEF RunRecv, IInv
<1>4. CASE RunDisconnect
  <2> DEFINE e == Head(batch)
  <2>1. e.netid \in NetIds /\ e.conn \in Conns /\ batch' \in Seq(Events)
    BY <1>0, <1>4, NextEvent DEF RunDisconnect
  <2>2. speaker' \in [NetIds -> Conns \cup {None}] /\ gone' \subseteq Conns
    BY <1>0, <1>4, <2>1 DEF RunDisconnect
  <2>3. TypeOK'
    BY <1>4, <2>1, <2>2 DEF RunDisconnect, IInv, TypeOK
  <2> QED BY <1>4, <2>3, Stays DEF RunDisconnect, IInv
<1>5. CASE RunConnect
  <2>1. Head(rets).netid \in NetIds /\ rets' \in Seq(Events)
    BY <1>0, <1>5, NextEvent DEF RunConnect
  <2>2. /\ Locks' /\ Sending' /\ sends' \in 0 .. MaxSends /\ mpc' \in {"run", "send"}
        /\ sendTo' \in NetIds \cup Conns \cup {None}
    BY <1>5, <2>1, CallbackInv DEF RunConnect
  <2>3. TypeOK'
    BY <1>5, <2>1, <2>2 DEF RunConnect, IInv, TypeOK
  <2> QED BY <1>5, <2>2, <2>3, Stays DEF RunConnect, IInv
<1>6. CASE SendNobody
  <2>1. TypeOK'
    BY <1>6 DEF SendNobody, IInv, TypeOK
  <2>2. Locks' /\ Sending'
    BY <1>6 DEF SendNobody, IInv, Locks, Sending
  <2> QED BY <1>6, <2>1, <2>2, Stays DEF SendNobody, IInv
<1>7. CASE SendFind
  <2>1. sendTo \in NetIds /\ table[sendTo] \in Added /\ table[sendTo] \in Conns
    BY <1>7 DEF SendFind, IInv, Sending, Registered, Added
  <2>2. TypeOK'
    BY <1>0, <1>7, <2>1 DEF SendFind, IInv, TypeOK
  <2>3. Locks'
    <3>1. \A u \in Polls : u \in readers' <=> u \in readers
      BY <1>7, Basics DEF SendFind
    <3> QED BY <1>7, <3>1 DEF SendFind, IInv, Locks
  <2>4. Sending'
    BY <1>7, <2>1 DEF SendFind, Sending, Added
  <2> QED BY <1>7, <2>2, <2>3, <2>4, Stays DEF SendFind, IInv
<1>8. CASE SendAppend
  <2> DEFINE t == PollOf(netidOf[sendTo])
             more == WithFd(wfdset[t], sockOf[sendTo])
  <2>1. sendTo \in Added /\ sendTo \in Conns /\ sendTo \in Alive
    BY <1>8 DEF SendAppend, IInv, Sending, Added, Alive
  <2>2. t \in Polls /\ sockOf[sendTo] \in Socks
    BY <1>0, <2>1, Basics DEF IInv, OwnSocks
  <2>3. sockOf[sendTo] \in Mine(t)
    BY <2>1 DEF Mine
  <2>4. more \subseteq wfdset[t] \cup {sockOf[sendTo]}
    BY DEF WithFd
  <2>5. wfdset' = [wfdset EXCEPT ![t] = more]
    BY <1>8 DEF SendAppend
  <2> HIDE DEF more, t
  <2>6. wfdset' \in [Polls -> SUBSET Socks]
    BY <1>0, <2>2, <2>4, <2>5
  <2>7. TypeOK'
    BY <1>8, <2>6 DEF SendAppend, IInv, TypeOK
  <2>8. Locks'
    <3>1. \A u \in Polls : u \in readers' <=> u \in readers
      BY <1>8, Basics DEF SendAppend
    <3> QED BY <1>8, <3>1 DEF SendAppend, IInv, Locks
  <2>9. Watched'
    <3>1. \A u \in Polls : Mine(u)' = Mine(u)
      BY <1>8, MineStays DEF SendAppend
    <3>2. \A u \in Polls : wfdset'[u] \subseteq Mine(u)
      BY <1>0, <2>2, <2>3, <2>4, <2>5 DEF IInv, Watched
    <3> QED BY <1>8, <3>1, <3>2 DEF SendAppend, IInv, Watched
  <2>10. Sending'
    BY <1>8 DEF SendAppend, Sending
  <2> QED BY <1>8, <2>7, <2>8, <2>9, <2>10, Stays DEF SendAppend, IInv
<1> QED BY <1>1, <1>2, <1>3, <1>4, <1>5, <1>6, <1>7, <1>8 DEF Update
-----------------------------------------------------------------------------
(* The theorems *)

\* The register, the polls, the close requests and m_rwlock agree, whatever the threads
\* and the peers do: the inductive invariant behind the theorems below.
THEOREM Invariance == Spec => []IInv
<1>1. IInv /\ [Next]_vars => IInv'
  <2> SUFFICES ASSUME IInv, [Next]_vars PROVE IInv'
    OBVIOUS
  <2>1. ASSUME Peers PROVE IInv'
    BY <2>1, PeerSendsInv, PeerLeavesInv DEF Peers
  <2>2. ASSUME Opener PROVE IInv'
    BY <2>2, OpenInv, OpenFailsInv, AddHandlerInv, AnnounceAcceptInv, AnnounceConnectInv
       DEF Opener
  <2>3. ASSUME NEW t \in Polls, Dispatch(t) PROVE IInv'
    BY <2>3, DelBeginInv, DelAgainInv, DelOneInv, DelEndInv, SelectInv, ScanBeginInv,
       ScanEndInv, HandleInv DEF Dispatch
  <2>4. ASSUME Update PROVE IInv'
    BY <2>4, UpdateInv
  <2>5. ASSUME UNCHANGED vars PROVE IInv'
    <3>1. TypeOK'
      BY <2>5 DEF vars, IInv, TypeOK
    <3> QED BY <2>5, <3>1, Stays DEF vars, IInv
  <2> QED BY <2>1, <2>2, <2>3, <2>4, <2>5 DEF Next
<1> QED BY <1>1, InitInv, PTL DEF Spec

\* The type invariant of the network; that the netids stay within the number of
\* connections needs the count of those in use.
THEOREM TypeCorrect == Spec => []TypeOK
<1>1. IInv => TypeOK
  BY DEF IInv
<1> QED BY <1>1, Invariance, PTL

\* No thread calls a handler that another one has deleted, neither the scans nor the
\* main thread between find and send.
THEOREM Alived == Spec => []HandlerAlive
<1>1. IInv => HandlerAlive
  <2> SUFFICES ASSUME IInv PROVE HandlerAlive
    OBVIOUS
  <2>1. \A t \in Polls : \A n \in Todo(t) : stage[table[n]] = "added"
    BY TodoOwn DEF Added
  <2>2. mpc = "append" => stage[sendTo] = "added"
    BY DEF IInv, Sending, Added
  <2> QED BY <2>1, <2>2 DEF HandlerAlive
<1> QED BY <1>1, Invariance, PTL

\* Each net thread reads and writes the handlers of its own poll only, though sockets
\* are used again while it scans.
THEOREM OwnHandlers == Spec => []OwnThreadOnly
<1>1. IInv => OwnThreadOnly
  BY TodoOwn DEF OwnThreadOnly
<1> QED BY <1>1, Invariance, PTL

\* What stands in two sequences, one after the other, stands in one of them.
LEMMA ElementOfConcat ==
  ASSUME NEW S, NEW s1 \in Seq(S), NEW s2 \in Seq(S)
  PROVE  \A k \in 1 .. Len(s1 \o s2) : \/ \E i \in DOMAIN s1 : (s1 \o s2)[k] = s1[i]
                                     \/ \E i \in DOMAIN s2 : (s1 \o s2)[k] = s2[i]
<1> TAKE k \in 1 .. Len(s1 \o s2)
<1>1. /\ Len(s1) \in Nat /\ Len(s2) \in Nat
      /\ DOMAIN s1 = 1 .. Len(s1) /\ DOMAIN s2 = 1 .. Len(s2)
  BY LenProperties
<1>2. s1 \o s2 \in Seq(S) /\ Len(s1 \o s2) = Len(s1) + Len(s2)
  BY ConcatProperties
<1>4. (s1 \o s2)[k] = IF k <= Len(s1) THEN s1[k] ELSE s2[k - Len(s1)]
  BY <1>2, ConcatProperties
<1>5. k \in Nat /\ k >= 1 /\ k <= Len(s1) + Len(s2)
  BY <1>1, <1>2
<1>6. CASE k <= Len(s1)
  <2>1. k \in DOMAIN s1
    BY <1>1, <1>5, <1>6
  <2> QED BY <2>1, <1>4, <1>6
<1>7. CASE ~(k <= Len(s1))
  <2>1. k - Len(s1) \in 1 .. Len(s2)
    BY <1>1, <1>5, <1>7
  <2> QED BY <2>1, <1>1, <1>4, <1>7
<1> QED BY <1>6, <1>7

\* A close request closes the connection it was made for or none.
THEOREM ClosesRight == Spec => []CloseHitsItsConn
<1>1. IInv => CloseHitsItsConn
  <2> SUFFICES ASSUME IInv, NEW t \in Polls, NEW k \in DOMAIN (offids[t] \o dels[t])
               PROVE  LET r == (offids[t] \o dels[t])[k]
                      IN table[r.netid] \in {r.conn, None} /\ PollOf(r.netid) = t
    BY DEF CloseHitsItsConn
  <2>1. offids[t] \in Seq(Requests) /\ dels[t] \in Seq(Requests)
    BY DEF IInv, TypeOK
  <2>2. (offids[t] \o dels[t])[k] \in In(offids[t]) \cup In(dels[t])
    <3> DEFINE o == offids[t]  d == dels[t]
    <3>1. o \in Seq(Requests) /\ d \in Seq(Requests) /\ k \in DOMAIN (o \o d)
      BY <2>1
    <3> SUFFICES (o \o d)[k] \in In(o) \cup In(d)
      OBVIOUS
    <3> HIDE DEF o, d
    <3>2. \/ \E i \in DOMAIN o : (o \o d)[k] = o[i]
          \/ \E i \in DOMAIN d : (o \o d)[k] = d[i]
      <4>1. o \o d \in Seq(Requests)
        BY <3>1, ConcatProperties
      <4>2. DOMAIN (o \o d) = 1 .. Len(o \o d)
        BY <4>1, LenProperties
      <4> QED BY <3>1, <4>2, ElementOfConcat, SMTT(20)
    <3> QED BY <3>2, Zenon DEF In
  <2> QED BY <2>2 DEF IInv, Closing
<1> QED BY <1>1, Invariance, PTL
-----------------------------------------------------------------------------
(* What the application is told: a second invariant, on top of the first *)

\* The places of the events that tell something of a connection other than its accept.
Told == {k \in DOMAIN pending : pending[k].kind # "accept"}

Kinds == \A k \in DOMAIN pending : pending[k].kind \in {"accept", "recv", "disconnect"}

\* An event has the netid of its connection, which is or was in the table.
Named ==
  \A k \in Told :
    /\ netidOf[pending[k].conn] = pending[k].netid
    /\ stage[pending[k].conn] \in {"added", "deleted"}

\* Who spoke last at a netid, and was not told to be gone, had that netid.
Spoken ==
  \A n \in NetIds : speaker[n] # None =>
    /\ netidOf[speaker[n]] = n
    /\ stage[speaker[n]] \in {"added", "deleted"}
    /\ speaker[n] \notin gone

\* EventsInOrder, one part at a time.
Silent == \A k \in Told : pending[k].conn \notin gone
DisconnectLast ==
  \A j \in Told, k \in Told :
    pending[j].conn = pending[k].conn /\ j < k => pending[j].kind = "recv"
DeletedTold ==
  \A c \in Conns : stage[c] = "deleted" <=>
    c \in gone \/ \E k \in Told : pending[k].conn = c /\ pending[k].kind = "disconnect"

\* NoCrossTalk likewise.
Parted(j, k) ==
  \E i \in Told : /\ j <= i /\ i < k
                  /\ pending[i].netid = pending[k].netid /\ pending[i].kind = "disconnect"
SpeakersApart ==
  \A k \in Told : speaker[pending[k].netid] \in {pending[k].conn, None} \/ Parted(1, k)
EventsApart ==
  \A j \in Told, k \in Told :
    j < k /\ pending[j].netid = pending[k].netid =>
      pending[j].conn = pending[k].conn \/ Parted(j, k)

TInv ==
  /\ Kinds /\ Named /\ Spoken /\ Silent /\ DisconnectLast /\ DeletedTold
  /\ SpeakersApart /\ EventsApart

\* What the main thread has to tell, event by event.
LEMMA PendingType ==
  ASSUME IInv
  PROVE  /\ pending \in Seq(Events) /\ Len(pending) \in Nat
         /\ DOMAIN pending = 1 .. Len(pending)
         /\ \A k \in DOMAIN pending : pending[k].netid \in NetIds /\ pending[k].conn \in Conns
         /\ Told \subseteq 1 .. Len(pending)
<1>1. pending \in Seq(Events)
  BY ConcatProperties DEF pending, IInv, TypeOK
<1>2. Len(pending) \in Nat /\ DOMAIN pending = 1 .. Len(pending)
  BY <1>1, LenProperties
<1>3. \A k \in DOMAIN pending : pending[k] \in Events
  BY <1>1, <1>2, ElementOfSeq
<1> QED BY <1>1, <1>2, <1>3 DEF Events, Told

\* A new job is the last to be told.
LEMMA PutLast ==
  ASSUME NEW b \in Seq(Events), NEW j \in Seq(Events), NEW e \in Events
  PROVE  b \o Append(j, e) = Append(b \o j, e)
<1>1. /\ Append(j, e) = j \o <<e>> /\ b \o j \in Seq(Events) /\ <<e>> \in Seq(Events)
      /\ Append(b \o j, e) = (b \o j) \o <<e>>
  BY AppendIsConcat, ConcatProperties
<1>2. (b \o j) \o <<e>> = b \o (j \o <<e>>)
  BY <1>1, ConcatAssociative
<1> QED BY <1>1, <1>2

\* The job that is run is the first.
LEMMA TakenFirst ==
  ASSUME NEW b \in Seq(Events), NEW j \in Seq(Events), b # <<>>
  PROVE  /\ b \o j # <<>> /\ Head(b \o j) = Head(b)
         /\ Tail(b) \o j = Tail(b \o j)
<1>1. /\ Len(b) \in Nat \ {0} /\ Len(j) \in Nat
      /\ Tail(b) \in Seq(Events) /\ Len(Tail(b)) = Len(b) - 1
      /\ \A k \in 1 .. Len(Tail(b)) : Tail(b)[k] = b[k + 1]
  BY HeadTailProperties, EmptySeq, LenProperties
<1>2. /\ b \o j \in Seq(Events) /\ Len(b \o j) = Len(b) + Len(j)
      /\ \A k \in 1 .. Len(b) + Len(j) :
           (b \o j)[k] = IF k <= Len(b) THEN b[k] ELSE j[k - Len(b)]
  BY ConcatProperties
<1>3. b \o j # <<>>
  BY <1>1, <1>2, EmptySeq
<1>4. Head(b \o j) = Head(b)
  <2>1. Head(b \o j) = (b \o j)[1] /\ Head(b) = b[1]
    BY <1>2, <1>3
  <2> QED BY <1>1, <1>2, <2>1
<1>5. /\ Tail(b \o j) \in Seq(Events) /\ Len(Tail(b \o j)) = Len(b) + Len(j) - 1
      /\ \A k \in 1 .. Len(Tail(b \o j)) : Tail(b \o j)[k] = (b \o j)[k + 1]
  BY <1>2, <1>3, HeadTailProperties
<1>6. /\ Tail(b) \o j \in Seq(Events) /\ Len(Tail(b) \o j) = Len(b) - 1 + Len(j)
      /\ \A k \in 1 .. Len(b) - 1 + Len(j) :
           (Tail(b) \o j)[k] = IF k <= Len(b) - 1 THEN Tail(b)[k] ELSE j[k - (Len(b) - 1)]
  BY <1>1, ConcatProperties
<1>7. ASSUME NEW k \in 1 .. Len(Tail(b) \o j)
      PROVE  (Tail(b) \o j)[k] = Tail(b \o j)[k]
  <2>1. /\ k \in 1 .. Len(b) + Len(j) - 1 /\ k + 1 \in 1 .. Len(b) + Len(j)
        /\ k \in 1 .. Len(b) - 1 + Len(j)
    BY <1>1, <1>6
  <2>2. Tail(b \o j)[k] = (b \o j)[k + 1]
    BY <2>1, <1>5
  <2>3. CASE k <= Len(b) - 1
    <3>1. k + 1 <= Len(b) /\ k \in 1 .. Len(Tail(b))
      BY <1>1, <2>1, <2>3
    <3> QED BY <1>1, <1>2, <1>6, <2>1, <2>2, <2>3, <3>1
  <2>4. CASE ~(k <= Len(b) - 1)
    <3>1. ~(k + 1 <= Len(b)) /\ (k + 1) - Len(b) = k - (Len(b) - 1)
      BY <1>1, <2>1, <2>4
    <3> QED BY <1>2, <1>6, <2>1, <2>2, <2>4, <3>1
  <2> QED BY <2>3, <2>4
<1>8. Len(Tail(b) \o j) = Len(Tail(b \o j))
  BY <1>1, <1>5, <1>6
<1>9. Tail(b) \o j = Tail(b \o j)
  BY <1>5, <1>6, <1>7, <1>8, SeqEqual
<1> QED BY <1>3, <1>4, <1>9

\* What appending an event changes.
LEMMA Grows ==
  ASSUME IInv, NEW e \in Events, pending' = Append(pending, e)
  PROVE  LET N == Len(pending)
         IN /\ N \in Nat /\ DOMAIN pending = 1 .. N /\ DOMAIN pending' = 1 .. N + 1
            /\ \A k \in 1 .. N : pending'[k] = pending[k]
            /\ pending'[N + 1] = e
            /\ Told' = Told \cup (IF e.kind = "accept" THEN {} ELSE {N + 1})
<1> DEFINE N == Len(pending)
<1>1. pending \in Seq(Events) /\ N \in Nat /\ DOMAIN pending = 1 .. N
  BY PendingType
<1>2. /\ pending' \in Seq(Events) /\ Len(pending') = N + 1
      /\ \A k \in 1 .. N : pending'[k] = pending[k]
      /\ pending'[N + 1] = e
  BY <1>1, AppendProperties
<1>3. DOMAIN pending' = 1 .. N + 1
  BY <1>2, LenProperties
<1>4. 1 .. N + 1 = (1 .. N) \cup {N + 1} /\ N + 1 \notin 1 .. N
  BY <1>1
<1> HIDE DEF N
<1>5. Told' = Told \cup (IF e.kind = "accept" THEN {} ELSE {N + 1})
  BY <1>1, <1>2, <1>3, <1>4 DEF Told
<1> QED BY <1>1, <1>2, <1>3, <1>5 DEF N

\* What running a job changes.
LEMMA Shrinks ==
  ASSUME IInv, pending # <<>>, pending' = Tail(pending)
  PROVE  LET N == Len(pending)
         IN /\ N \in Nat \ {0} /\ DOMAIN pending = 1 .. N /\ DOMAIN pending' = 1 .. N - 1
            /\ \A k \in 1 .. N - 1 : pending'[k] = pending[k + 1]
            /\ pending[1] = Head(pending)
            /\ \A k \in Told' : k \in 1 .. N - 1 /\ k + 1 \in Told
            /\ \A k \in Told : k = 1 \/ k - 1 \in Told'
<1> DEFINE N == Len(pending)
<1>1. pending \in Seq(Events) /\ N \in Nat \ {0} /\ DOMAIN pending = 1 .. N
  BY PendingType, EmptySeq
<1>2. /\ pending' \in Seq(Events) /\ Len(pending') = N - 1
      /\ \A k \in 1 .. Len(pending') : pending'[k] = pending[k + 1]
  BY <1>1, HeadTailProperties
<1>3. DOMAIN pending' = 1 .. N - 1
  BY <1>2, LenProperties
<1>4. pending[1] = Head(pending)
  BY <1>1
<1> HIDE DEF N
<1>5. ASSUME NEW k \in Told' PROVE k \in 1 .. N - 1 /\ k + 1 \in Told
  <2>1. k \in DOMAIN pending' /\ pending'[k].kind # "accept"
    BY <1>5 DEF Told
  <2>2. k + 1 \in 1 .. N
    BY <1>1, <1>3, <2>1
  <2> QED BY <1>1, <1>2, <1>3, <2>1, <2>2 DEF Told
<1>6. ASSUME NEW k \in Told, k # 1 PROVE k - 1 \in Told'
  <2>1. k \in 1 .. N /\ pending[k].kind # "accept"
    BY <1>1 DEF Told
  <2>2. k - 1 \in 1 .. N - 1 /\ (k - 1) + 1 = k
    BY <1>1, <1>6, <2>1
  <2>3. pending'[k - 1] = pending[k]
    BY <1>2, <1>3, <2>2
  <2> QED BY <1>3, <2>1, <2>2, <2>3 DEF Told
<1> QED BY <1>1, <1>2, <1>3, <1>4, <1>5, <1>6 DEF N

\* Steps that tell nothing may do what they like with connections that are not in the
\* table yet.
LEMMA NothingTold ==
  ASSUME IInv, TInv, pending' = pending, UNCHANGED <<gone, speaker>>,
         \A c \in Conns :
           \/ stage'[c] = stage[c] /\ netidOf'[c] = netidOf[c]
           \/ stage[c] \notin {"added", "deleted"} /\ stage'[c] # "deleted"
  PROVE  TInv'
<1>1. /\ \A k \in Told : pending[k].conn \in Conns
      /\ Told' = Told
      /\ speaker \in [NetIds -> Conns \cup {None}]
  BY PendingType DEF Told, IInv, TypeOK
<1>2. Kinds' /\ Silent' /\ DisconnectLast'
  BY <1>1 DEF TInv, Kinds, Silent, DisconnectLast
<1>3. Named'
  BY <1>1 DEF TInv, Named
<1>4. Spoken'
  BY <1>1 DEF TInv, Spoken
<1>5. DeletedTold'
  BY <1>1 DEF TInv, DeletedTold
<1>6. SpeakersApart' /\ EventsApart'
  <2>1. \A j, k : Parted(j, k)' <=> Parted(j, k)
    BY <1>1 DEF Parted
  <2> QED BY <1>1, <2>1 DEF TInv, SpeakersApart, EventsApart
<1> QED BY <1>2, <1>3, <1>4, <1>5, <1>6 DEF TInv

\* onAccept may come at any time.
LEMMA AcceptTold ==
  ASSUME IInv, TInv, NEW e \in Events, e.kind = "accept", pending' = Append(pending, e),
         UNCHANGED <<gone, speaker, stage, netidOf>>
  PROVE  TInv'
<1> DEFINE N == Len(pending)
<1>1. /\ N \in Nat /\ DOMAIN pending = 1 .. N /\ DOMAIN pending' = 1 .. N + 1
      /\ \A k \in 1 .. N : pending'[k] = pending[k]
      /\ pending'[N + 1] = e /\ Told' = Told
  BY Grows
<1>2. \A k \in Told : k \in 1 .. N /\ pending'[k] = pending[k]
  BY <1>1 DEF Told
<1> HIDE DEF N
<1>3. Kinds'
  <2>1. \A k \in 1 .. N + 1 : k \in 1 .. N \/ k = N + 1
    BY <1>1
  <2> QED BY <1>1, <2>1 DEF TInv, Kinds
<1>4. Named' /\ Spoken' /\ Silent' /\ DisconnectLast' /\ DeletedTold'
  BY <1>1, <1>2 DEF TInv, Named, Spoken, Silent, DisconnectLast, DeletedTold
<1>5. SpeakersApart' /\ EventsApart'
  <2>1. \A j, k \in Told : Parted(j, k)' <=> Parted(j, k)
    BY <1>1, <1>2 DEF Parted
  <2>2. \A k \in Told : Parted(1, k)' <=> Parted(1, k)
    BY <1>1, <1>2 DEF Parted
  <2> QED BY <1>1, <1>2, <2>1, <2>2 DEF TInv, SpeakersApart, EventsApart
<1> QED BY <1>3, <1>4, <1>5 DEF TInv

\* When a handler has something to tell, whoever had its netid before has been told to be
\* gone, or will be: its disconnect is pending, behind all else that it told.
LEMMA Before ==
  ASSUME IInv, TInv, NEW c \in Added
  PROVE  /\ \A k \in Told : pending[k].netid = netidOf[c] /\ pending[k].conn # c =>
              \E i \in Told : /\ k <= i /\ pending[i].netid = netidOf[c]
                              /\ pending[i].kind = "disconnect"
         /\ speaker[netidOf[c]] \notin {c, None} =>
              \E i \in Told : /\ pending[i].netid = netidOf[c]
                              /\ pending[i].kind = "disconnect"
<1> DEFINE n == netidOf[c]
<1>1. /\ c \in Conns /\ n \in NetIds /\ table[n] = c
      /\ speaker \in [NetIds -> Conns \cup {None}]
      /\ Told \subseteq Nat /\ \A k \in Told : pending[k].conn \in Conns
  BY PendingType, SMTT(20) DEF IInv, TypeOK, Registered, Added, Told
<1>2. ASSUME NEW d \in Conns, d # c, netidOf[d] = n, stage[d] \in {"added", "deleted"},
             d \notin gone
      PROVE  \E i \in Told : /\ pending[i].conn = d /\ pending[i].kind = "disconnect"
                             /\ pending[i].netid = n
  <2>1. stage[d] = "deleted"
    BY <1>1, <1>2 DEF IInv, Registered, Added
  <2>2. PICK i \in Told : pending[i].conn = d /\ pending[i].kind = "disconnect"
    BY <1>2, <2>1 DEF TInv, DeletedTold
  <2> QED BY <1>2, <2>2 DEF TInv, Named
<1>3. ASSUME NEW k \in Told, pending[k].netid = n, pending[k].conn # c
      PROVE  \E i \in Told : /\ k <= i /\ pending[i].netid = n
                             /\ pending[i].kind = "disconnect"
  <2>1. /\ netidOf[pending[k].conn] = n /\ stage[pending[k].conn] \in {"added", "deleted"}
        /\ pending[k].conn \notin gone
    BY <1>3 DEF TInv, Named, Silent
  <2>2. PICK i \in Told : /\ pending[i].conn = pending[k].conn
                          /\ pending[i].kind = "disconnect" /\ pending[i].netid = n
    BY <1>1, <1>2, <1>3, <2>1
  <2>3. ~(i < k)
    BY <2>2 DEF TInv, DisconnectLast
  <2> QED BY <1>1, <2>2, <2>3
<1>4. ASSUME speaker[n] \notin {c, None}
      PROVE  \E i \in Told : pending[i].netid = n /\ pending[i].kind = "disconnect"
  <2>1. /\ speaker[n] \in Conns /\ netidOf[speaker[n]] = n
        /\ stage[speaker[n]] \in {"added", "deleted"} /\ speaker[n] \notin gone
    BY <1>1, <1>4 DEF TInv, Spoken
  <2> QED BY <1>2, <1>4, <2>1
<1> QED BY <1>3, <1>4

\* What a handler tells comes apart from what others with its netid told.
LEMMA ToldApart ==
  ASSUME IInv, TInv, NEW c \in Added, NEW e \in Events, e.kind # "accept",
         e.netid = netidOf[c], e.conn = c,
         pending' = Append(pending, e), UNCHANGED speaker
  PROVE  SpeakersApart' /\ EventsApart'
<1> DEFINE N == Len(pending)
<1>1. /\ N \in Nat /\ DOMAIN pending = 1 .. N /\ DOMAIN pending' = 1 .. N + 1
      /\ \A k \in 1 .. N : pending'[k] = pending[k]
      /\ pending'[N + 1] = e /\ Told' = Told \cup {N + 1}
  BY Grows
<1>2. /\ Told \subseteq 1 .. N /\ \A k \in Told : pending'[k] = pending[k]
      /\ \A k \in Told : k \in Nat /\ 1 <= k /\ k < N + 1
  BY <1>1 DEF Told
<1> HIDE DEF N
<1>3. ASSUME NEW j \in Nat, NEW k \in Told, Parted(j, k) PROVE Parted(j, k)'
  BY <1>2, <1>1, <1>3 DEF Parted
<1>4. ASSUME NEW j \in Nat, NEW i \in Told, j <= i, pending[i].netid = e.netid,
             pending[i].kind = "disconnect", NEW k \in Nat, k = N + 1
      PROVE  Parted(j, k)'
  BY <1>1, <1>2, <1>4 DEF Parted
<1>5. SpeakersApart'
  <2> SUFFICES ASSUME NEW k \in Told', speaker[pending'[k].netid] \notin {pending'[k].conn, None}
               PROVE  Parted(1, k)'
    BY DEF SpeakersApart
  <2>1. CASE k \in Told
    BY <1>2, <1>3, <2>1 DEF TInv, SpeakersApart
  <2>2. CASE k = N + 1
    <3>1. PICK i \in Told : pending[i].netid = e.netid /\ pending[i].kind = "disconnect"
      BY <1>1, <2>2, Before
    <3> QED BY <1>1, <1>2, <1>4, <2>2, <3>1
  <2> QED BY <1>1, <2>1, <2>2
<1>6. EventsApart'
  <2> SUFFICES ASSUME NEW j \in Told', NEW k \in Told', j < k,
                      pending'[j].netid = pending'[k].netid,
                      pending'[j].conn # pending'[k].conn
               PROVE  Parted(j, k)'
    BY DEF EventsApart
  <2>1. j \in Told
    BY <1>1, <1>2
  <2>2. CASE k \in Told
    <3>1. Parted(j, k)
      BY <1>2, <2>1, <2>2 DEF TInv, EventsApart
    <3> QED BY <1>2, <1>3, <2>1, <2>2, <3>1
  <2>3. CASE k = N + 1
    <3>1. pending[j].netid = e.netid /\ pending[j].conn # c
      BY <1>1, <1>2, <2>1, <2>3
    <3>2. PICK i \in Told : /\ j <= i /\ pending[i].netid = e.netid
                            /\ pending[i].kind = "disconnect"
      BY <2>1, <3>1, Before
    <3> QED BY <1>1, <1>2, <1>4, <2>1, <2>3, <3>2
  <2> QED BY <1>1, <2>2, <2>3
<1> QED BY <1>5, <1>6

\* A message of a handler that is there.
LEMMA RecvTold ==
  ASSUME IInv, TInv, NEW c \in Added, NEW e \in Events, e.kind = "recv",
         e.netid = netidOf[c], e.conn = c,
         pending' = Append(pending, e), UNCHANGED <<gone, speaker, stage, netidOf>>
  PROVE  TInv'
<1> DEFINE N == Len(pending)
<1>1. /\ N \in Nat /\ DOMAIN pending = 1 .. N /\ DOMAIN pending' = 1 .. N + 1
      /\ \A k \in 1 .. N : pending'[k] = pending[k]
      /\ pending'[N + 1] = e /\ Told' = Told \cup {N + 1}
  BY Grows
<1>2. /\ Told \subseteq 1 .. N /\ \A k \in Told : pending'[k] = pending[k]
      /\ \A k \in Told : k \in Nat /\ k < N + 1
      /\ \A k \in 1 .. N + 1 : k \in 1 .. N \/ k = N + 1
  BY <1>1 DEF Told
<1>3. c \in Conns /\ stage[c] = "added"
  BY DEF Added
<1>4. c \notin gone /\ \A k \in Told : pending[k].conn = c => pending[k].kind = "recv"
  <2>1. \A k \in Told : pending[k].kind \in {"recv", "disconnect"}
    BY DEF TInv, Kinds, Told
  <2> QED BY <1>3, <2>1 DEF TInv, DeletedTold
<1> HIDE DEF N
<1>5. Kinds' /\ Named' /\ Spoken' /\ Silent'
  BY <1>1, <1>2, <1>3, <1>4 DEF TInv, Kinds, Named, Spoken, Silent
<1>6. DisconnectLast'
  <2> SUFFICES ASSUME NEW j \in Told', NEW k \in Told', pending'[j].conn = pending'[k].conn,
                      j < k
               PROVE  pending'[j].kind = "recv"
    BY DEF DisconnectLast
  <2>1. j \in Told
    BY <1>1, <1>2
  <2>2. CASE k \in Told
    BY <1>2, <2>1, <2>2 DEF TInv, DisconnectLast
  <2>3. CASE k = N + 1
    BY <1>1, <1>2, <1>4, <2>1, <2>3
  <2> QED BY <1>1, <2>2, <2>3
<1>7. DeletedTold'
  BY <1>1, <1>2 DEF TInv, DeletedTold
<1> QED BY <1>5, <1>6, <1>7, ToldApart DEF TInv

\* The disconnect of a handler that is deleted.
LEMMA DisconnectTold ==
  ASSUME IInv, TInv, NEW c \in Added, NEW e \in Events, e.kind = "disconnect",
         e.netid = netidOf[c], e.conn = c,
         pending' = Append(pending, e), stage' = [stage EXCEPT ![c] = "deleted"],
         UNCHANGED <<gone, speaker, netidOf>>
  PROVE  TInv'
<1> DEFINE N == Len(pending)
<1>1. /\ N \in Nat /\ DOMAIN pending = 1 .. N /\ DOMAIN pending' = 1 .. N + 1
      /\ \A k \in 1 .. N : pending'[k] = pending[k]
      /\ pending'[N + 1] = e /\ Told' = Told \cup {N + 1}
  BY Grows
<1>2. /\ Told \subseteq 1 .. N /\ \A k \in Told : pending'[k] = pending[k]
      /\ \A k \in Told : k \in Nat /\ k < N + 1
      /\ \A k \in 1 .. N + 1 : k \in 1 .. N \/ k = N + 1
      /\ \A k \in Told : pending[k].conn \in Conns
  BY <1>1, PendingType DEF Told
<1>3. /\ c \in Conns /\ stage[c] = "added"
      /\ \A d \in Conns : stage'[d] = IF d = c THEN "deleted" ELSE stage[d]
      /\ speaker \in [NetIds -> Conns \cup {None}]
  BY DEF Added, IInv, TypeOK
<1>4. c \notin gone /\ \A k \in Told : pending[k].conn = c => pending[k].kind = "recv"
  <2>1. \A k \in Told : pending[k].kind \in {"recv", "disconnect"}
    BY DEF TInv, Kinds, Told
  <2> QED BY <1>3, <2>1 DEF TInv, DeletedTold
<1> HIDE DEF N
<1>5. Kinds' /\ Silent'
  BY <1>1, <1>2, <1>4 DEF TInv, Kinds, Silent
<1>6. Named' /\ Spoken'
  BY <1>1, <1>2, <1>3 DEF TInv, Named, Spoken
<1>7. DisconnectLast'
  <2> SUFFICES ASSUME NEW j \in Told', NEW k \in Told', pending'[j].conn = pending'[k].conn,
                      j < k
               PROVE  pending'[j].kind = "recv"
    BY DEF DisconnectLast
  <2>1. j \in Told
    BY <1>1, <1>2
  <2>2. CASE k \in Told
    BY <1>2, <2>1, <2>2 DEF TInv, DisconnectLast
  <2>3. CASE k = N + 1
    BY <1>1, <1>2, <1>4, <2>1, <2>3
  <2> QED BY <1>1, <2>2, <2>3
<1>8. DeletedTold'
  <2> SUFFICES ASSUME NEW d \in Conns
               PROVE  stage'[d] = "deleted" <=>
                        d \in gone \/ \E k \in Told' : /\ pending'[k].conn = d
                                                       /\ pending'[k].kind = "disconnect"
    BY DEF DeletedTold
  <2>1. CASE d = c
    BY <1>1, <1>3, <2>1
  <2>2. CASE d # c
    BY <1>1, <1>2, <1>3, <2>2 DEF TInv, DeletedTold
  <2> QED BY <2>1, <2>2
<1> QED BY <1>5, <1>6, <1>7, <1>8, ToldApart DEF TInv

\* The first event is run: the others move up by one, and the disconnects that parted them
\* still do, unless it was the first that did.
LEMMA Moved ==
  ASSUME IInv, TInv, pending # <<>>, pending' = Tail(pending)
  PROVE  /\ Kinds'
         /\ \A k \in Told' : /\ k \in Nat /\ k >= 1 /\ k + 1 \in Told
                             /\ pending'[k] = pending[k + 1]
                             /\ pending'[k].conn \in Conns
         /\ \A k \in Told : k = 1 \/ (k - 1 \in Told' /\ pending'[k - 1] = pending[k])
         /\ DisconnectLast' /\ EventsApart'
         /\ \A k \in Told' : Parted(1, k + 1) =>
              \/ Parted(1, k)'
              \/ /\ Head(pending).kind = "disconnect"
                 /\ Head(pending).netid = pending'[k].netid
         /\ Head(pending).kind # "accept" => 1 \in Told
         /\ Head(pending) = pending[1]
<1> DEFINE N == Len(pending)
<1>1. /\ N \in Nat \ {0} /\ DOMAIN pending = 1 .. N /\ DOMAIN pending' = 1 .. N - 1
      /\ \A k \in 1 .. N - 1 : pending'[k] = pending[k + 1]
      /\ pending[1] = Head(pending)
      /\ \A k \in Told' : k \in 1 .. N - 1 /\ k + 1 \in Told
      /\ \A k \in Told : k = 1 \/ k - 1 \in Told'
  BY Shrinks
<1>2. \A k \in DOMAIN pending : pending[k].conn \in Conns
  BY PendingType
<1>3. ASSUME NEW k \in Told'
      PROVE  /\ k \in Nat /\ k >= 1 /\ k + 1 \in Told /\ pending'[k] = pending[k + 1]
             /\ pending'[k].conn \in Conns
  BY <1>1, <1>2 DEF Told
<1>4. ASSUME NEW k \in Told, k # 1
      PROVE  k \in Nat /\ k - 1 \in Told' /\ pending'[k - 1] = pending[k]
  BY <1>1, <1>4 DEF Told
<1>5. Kinds'
  <2>1. ASSUME NEW k \in 1 .. N - 1
        PROVE  k + 1 \in 1 .. N /\ pending'[k] = pending[k + 1]
    BY <1>1
  <2> HIDE DEF N
  <2> QED BY <1>1, <2>1 DEF TInv, Kinds
<1>6. 1 \in 1 .. N
  BY <1>1
<1> HIDE DEF N
<1>7. DisconnectLast'
  <2> SUFFICES ASSUME NEW j \in Told', NEW k \in Told', pending'[j].conn = pending'[k].conn,
                      j < k
               PROVE  pending'[j].kind = "recv"
    BY DEF DisconnectLast
  <2>1. j + 1 < k + 1
    BY <1>3
  <2> QED BY <1>3, <2>1 DEF TInv, DisconnectLast
<1>8. ASSUME NEW j \in Nat, NEW k \in Told', Parted(j + 1, k + 1), j >= 1
      PROVE  Parted(j, k)'
  <2>1. PICK i \in Told : /\ j + 1 <= i /\ i < k + 1
                          /\ pending[i].netid = pending[k + 1].netid
                          /\ pending[i].kind = "disconnect"
    BY <1>8 DEF Parted
  <2>2. i \in Nat /\ i # 1
    BY <1>1, <1>8, <2>1 DEF Told
  <2>3. i - 1 \in Told' /\ pending'[i - 1] = pending[i]
    BY <1>4, <2>2
  <2>4. k \in Nat /\ pending'[k] = pending[k + 1]
    BY <1>3
  <2>5. j <= i - 1 /\ i - 1 < k
    BY <1>8, <2>1, <2>2, <2>4
  <2> QED BY <2>1, <2>3, <2>4, <2>5 DEF Parted
<1>9. EventsApart'
  <2> SUFFICES ASSUME NEW j \in Told', NEW k \in Told', j < k,
                      pending'[j].netid = pending'[k].netid,
                      pending'[j].conn # pending'[k].conn
               PROVE  Parted(j, k)'
    BY DEF EventsApart
  <2>1. j + 1 < k + 1 /\ j \in Nat /\ j >= 1
    BY <1>3
  <2>2. Parted(j + 1, k + 1)
    BY <1>3, <2>1 DEF TInv, EventsApart
  <2> QED BY <1>8, <2>1, <2>2
<1>10. ASSUME NEW k \in Told', Parted(1, k + 1)
       PROVE  \/ Parted(1, k)'
              \/ /\ Head(pending).kind = "disconnect"
                 /\ Head(pending).netid = pending'[k].netid
  <2>1. PICK i \in Told : /\ i < k + 1 /\ pending[i].netid = pending[k + 1].netid
                          /\ pending[i].kind = "disconnect"
    BY <1>10 DEF Parted
  <2>2. CASE i = 1
    BY <1>1, <1>3, <2>1, <2>2
  <2>3. CASE i # 1
    <3>1. i - 1 \in Told' /\ pending'[i - 1] = pending[i] /\ i \in Nat
      BY <1>4, <2>3
    <3>2. 1 <= i - 1 /\ i - 1 < k
      BY <1>3, <2>1, <3>1
    <3> QED BY <1>3, <2>1, <3>1, <3>2 DEF Parted
  <2> QED BY <2>2, <2>3
<1>11. Head(pending).kind # "accept" => 1 \in Told
  BY <1>1, <1>6 DEF Told
<1> QED BY <1>1, <1>3, <1>4, <1>5, <1>7, <1>9, <1>10, <1>11

\* onAccept says nothing that is looked at here.
LEMMA AcceptTaken ==
  ASSUME IInv, TInv, pending # <<>>, pending' = Tail(pending), Head(pending).kind = "accept",
         UNCHANGED <<gone, speaker, stage, netidOf>>
  PROVE  TInv'
<1>1. /\ \A k \in Told' : /\ k \in Nat /\ k >= 1 /\ k + 1 \in Told
                          /\ pending'[k] = pending[k + 1]
      /\ \A k \in Told : k - 1 \in Told' /\ pending'[k - 1] = pending[k]
      /\ \A k \in Told' : Parted(1, k + 1) => Parted(1, k)'
  BY Moved DEF Told
<1>2. Named' /\ Spoken' /\ Silent'
  <2>1. Named'
    <3> SUFFICES ASSUME NEW k \in Told'
                 PROVE  /\ netidOf[pending'[k].conn] = pending'[k].netid
                        /\ stage[pending'[k].conn] \in {"added", "deleted"}
      BY DEF Named
    <3>1. k + 1 \in Told /\ pending'[k] = pending[k + 1]
      BY <1>1
    <3> QED BY <3>1 DEF TInv, Named
  <2>2. Spoken'
    BY DEF TInv, Spoken
  <2>3. Silent'
    BY <1>1 DEF TInv, Silent
  <2> QED BY <2>1, <2>2, <2>3
<1>3. DeletedTold'
  <2> SUFFICES ASSUME NEW d \in Conns
               PROVE  stage[d] = "deleted" <=>
                        d \in gone \/ \E k \in Told' : /\ pending'[k].conn = d
                                                       /\ pending'[k].kind = "disconnect"
    BY DEF DeletedTold
  <2>1. ASSUME NEW k \in Told, pending[k].conn = d, pending[k].kind = "disconnect"
        PROVE  \E i \in Told' : pending'[i].conn = d /\ pending'[i].kind = "disconnect"
    <3>1. k - 1 \in Told' /\ pending'[k - 1] = pending[k]
      BY <1>1, <2>1
    <3> QED BY <2>1, <3>1
  <2>2. ASSUME NEW k \in Told', pending'[k].conn = d, pending'[k].kind = "disconnect"
        PROVE  \E i \in Told : pending[i].conn = d /\ pending[i].kind = "disconnect"
    <3>1. k + 1 \in Told /\ pending'[k] = pending[k + 1]
      BY <1>1
    <3> QED BY <2>2, <3>1
  <2> QED BY <2>1, <2>2 DEF TInv, DeletedTold
<1>4. SpeakersApart'
  BY <1>1 DEF TInv, SpeakersApart
<1> QED BY <1>2, <1>3, <1>4, Moved DEF TInv

\* The application gets a message: its connection is the one that speaks at the netid, and
\* the next of another one comes behind a disconnect.
LEMMA RecvTaken ==
  ASSUME IInv, TInv, pending # <<>>, pending' = Tail(pending), Head(pending).kind = "recv",
         speaker' = [speaker EXCEPT ![Head(pending).netid] = Head(pending).conn],
         UNCHANGED <<gone, stage, netidOf>>
  PROVE  TInv'
<1> DEFINE e == Head(pending)
<1>1. /\ \A k \in Told' : /\ k \in Nat /\ k >= 1 /\ k + 1 \in Told
                          /\ pending'[k] = pending[k + 1]
      /\ \A k \in Told' : Parted(1, k + 1) => Parted(1, k)'
      /\ 1 \in Told /\ e = pending[1]
  BY Moved
<1>2. \A k \in Told : pending[k].kind = "disconnect" =>
        k - 1 \in Told' /\ pending'[k - 1] = pending[k]
  BY <1>1, Moved
<1>3. /\ e.netid \in NetIds /\ e.conn \in Conns
      /\ speaker \in [NetIds -> Conns \cup {None}]
      /\ \A k \in DOMAIN pending : pending[k].netid \in NetIds
  BY <1>1, PendingType DEF Told, IInv, TypeOK
<1>4. \A n \in NetIds : speaker'[n] = IF n = e.netid THEN e.conn ELSE speaker[n]
  BY <1>3
<1> HIDE DEF e
<1>5. Named' /\ Silent'
  BY <1>1 DEF TInv, Named, Silent
<1>6. Spoken'
  BY <1>1, <1>3, <1>4 DEF TInv, Named, Silent, Spoken
<1>7. DeletedTold'
  <2> SUFFICES ASSUME NEW d \in Conns
               PROVE  stage[d] = "deleted" <=>
                        d \in gone \/ \E k \in Told' : /\ pending'[k].conn = d
                                                       /\ pending'[k].kind = "disconnect"
    BY DEF DeletedTold
  <2>1. ASSUME NEW k \in Told, pending[k].conn = d, pending[k].kind = "disconnect"
        PROVE  \E i \in Told' : pending'[i].conn = d /\ pending'[i].kind = "disconnect"
    <3>1. k - 1 \in Told' /\ pending'[k - 1] = pending[k]
      BY <1>2, <2>1
    <3> QED BY <2>1, <3>1
  <2>2. ASSUME NEW k \in Told', pending'[k].conn = d, pending'[k].kind = "disconnect"
        PROVE  \E i \in Told : pending[i].conn = d /\ pending[i].kind = "disconnect"
    <3>1. k + 1 \in Told /\ pending'[k] = pending[k + 1]
      BY <1>1
    <3> QED BY <2>2, <3>1
  <2> QED BY <2>1, <2>2 DEF TInv, DeletedTold
<1>8. SpeakersApart'
  <2> SUFFICES ASSUME NEW k \in Told', speaker'[pending'[k].netid] \notin {pending'[k].conn, None}
               PROVE  Parted(1, k)'
    BY DEF SpeakersApart
  <2>1. k + 1 \in Told /\ pending'[k] = pending[k + 1] /\ 1 < k + 1
        /\ pending'[k].netid \in NetIds
    BY <1>1, <1>3 DEF Told
  <2>2. Parted(1, k + 1)
    <3>1. CASE pending'[k].netid = e.netid
      <4>1. pending[1].netid = pending[k + 1].netid /\ pending[1].conn # pending[k + 1].conn
        BY <1>1, <1>4, <2>1, <3>1
      <4> QED BY <1>1, <2>1, <4>1 DEF TInv, EventsApart
    <3>2. CASE pending'[k].netid # e.netid
      BY <1>4, <2>1, <3>2 DEF TInv, SpeakersApart
    <3> QED BY <3>1, <3>2
  <2> QED BY <1>1, <2>2
<1> QED BY <1>5, <1>6, <1>7, <1>8, Moved DEF TInv

\* The application is told that a connection is gone, and nothing more of it.
LEMMA DisconnectTaken ==
  ASSUME IInv, TInv, pending # <<>>, pending' = Tail(pending),
         Head(pending).kind = "disconnect", gone' = gone \cup {Head(pending).conn},
         speaker' = [speaker EXCEPT ![Head(pending).netid] = None],
         UNCHANGED <<stage, netidOf>>
  PROVE  TInv'
<1> DEFINE e == Head(pending)
<1>1. /\ \A k \in Told' : /\ k \in Nat /\ k >= 1 /\ k + 1 \in Told
                          /\ pending'[k] = pending[k + 1]
      /\ \A k \in Told : k = 1 \/ (k - 1 \in Told' /\ pending'[k - 1] = pending[k])
      /\ \A k \in Told' : Parted(1, k + 1) => Parted(1, k)' \/ e.netid = pending'[k].netid
      /\ 1 \in Told /\ e = pending[1]
  BY Moved
<1>2. /\ e.netid \in NetIds /\ e.conn \in Conns /\ None \notin Conns
      /\ speaker \in [NetIds -> Conns \cup {None}]
      /\ \A k \in DOMAIN pending : pending[k].netid \in NetIds
  BY <1>1, PendingType, Basics DEF Told, IInv, TypeOK
<1>3. \A n \in NetIds : speaker'[n] = IF n = e.netid THEN None ELSE speaker[n]
  BY <1>2
<1>4. /\ gone' = gone \cup {e.conn} /\ e.kind = "disconnect"
      /\ netidOf[e.conn] = e.netid
  BY <1>1 DEF TInv, Named
<1> HIDE DEF e
<1>5. \A k \in Told' : pending'[k].conn # e.conn
  <2> SUFFICES ASSUME NEW k \in Told', pending'[k].conn = e.conn PROVE FALSE
    OBVIOUS
  <2>1. k \in Nat /\ k >= 1 /\ k + 1 \in Told /\ pending[k + 1].conn = e.conn
    BY <1>1
  <2>2. 1 < k + 1
    BY <2>1
  <2> QED BY <1>1, <1>4, <2>1, <2>2 DEF TInv, DisconnectLast
<1>6. Named' /\ Silent'
  <2>1. ASSUME NEW k \in Told'
        PROVE  /\ netidOf[pending'[k].conn] = pending'[k].netid
               /\ stage[pending'[k].conn] \in {"added", "deleted"}
               /\ pending'[k].conn \notin gone
    <3>1. k + 1 \in Told /\ pending'[k] = pending[k + 1]
      BY <1>1
    <3> QED BY <3>1 DEF TInv, Named, Silent
  <2>2. Named'
    BY <2>1 DEF Named
  <2>3. Silent'
    BY <1>4, <1>5, <2>1 DEF Silent
  <2> QED BY <2>2, <2>3
<1>7. Spoken'
  BY <1>2, <1>3, <1>4 DEF TInv, Spoken
<1>8. DeletedTold'
  <2> SUFFICES ASSUME NEW d \in Conns
               PROVE  stage[d] = "deleted" <=>
                        d \in gone' \/ \E k \in Told' : /\ pending'[k].conn = d
                                                        /\ pending'[k].kind = "disconnect"
    BY DEF DeletedTold
  <2>1. CASE d = e.conn
    BY <1>1, <1>4, <2>1 DEF TInv, DeletedTold
  <2>2. CASE d # e.conn
    <3>1. ASSUME NEW k \in Told, pending[k].conn = d, pending[k].kind = "disconnect"
          PROVE  \E i \in Told' : pending'[i].conn = d /\ pending'[i].kind = "disconnect"
      <4>1. k - 1 \in Told' /\ pending'[k - 1] = pending[k]
        BY <1>1, <2>2, <3>1
      <4> QED BY <3>1, <4>1
    <3>2. ASSUME NEW k \in Told', pending'[k].conn = d, pending'[k].kind = "disconnect"
          PROVE  \E i \in Told : pending[i].conn = d /\ pending[i].kind = "disconnect"
      <4>1. k + 1 \in Told /\ pending'[k] = pending[k + 1]
        BY <1>1
      <4> QED BY <3>2, <4>1
    <3> QED BY <1>4, <2>2, <3>1, <3>2 DEF TInv, DeletedTold
  <2> QED BY <2>1, <2>2
<1>9. SpeakersApart'
  <2> SUFFICES ASSUME NEW k \in Told', speaker'[pending'[k].netid] \notin {pending'[k].conn, None}
               PROVE  Parted(1, k)'
    BY DEF SpeakersApart
  <2>1. k + 1 \in Told /\ pending'[k] = pending[k + 1] /\ pending'[k].netid \in NetIds
    BY <1>1, <1>2 DEF Told
  <2>2. pending'[k].netid # e.netid
    BY <1>3, <2>1
  <2>3. Parted(1, k + 1)
    BY <1>3, <2>1, <2>2 DEF TInv, SpeakersApart
  <2> QED BY <1>1, <2>2, <2>3
<1> QED BY <1>6, <1>7, <1>8, <1>9, Moved DEF TInv

\* Nothing is to be told at first.
LEMMA InitTold == Init => TInv
<1> SUFFICES ASSUME Init PROVE TInv
  OBVIOUS
<1>1. pending = <<>>
  <2>1. <<>> \in Seq(Events)
    BY EmptySeq
  <2> QED BY <2>1, ConcatEmptySeq DEF Init, pending
<1>2. DOMAIN pending = {} /\ Told = {}
  BY <1>1 DEF Told
<1> QED BY <1>2 DEF Init, TInv, Kinds, Named, Spoken, Silent, DisconnectLast, DeletedTold,
                    SpeakersApart, EventsApart

\* The steps that tell nothing and open nothing.
LEMMA Untold ==
  ASSUME IInv, TInv, UNCHANGED <<jobs, batch, gone, speaker, stage, netidOf>>
  PROVE  TInv'
BY NothingTold DEF pending

\* The peers and the openers: only the accept thread has something to tell.
LEMMA OpenerTold ==
  ASSUME IInv, TInv, Opener
  PROVE  TInv'
<1>1. ASSUME NEW o \in Openers, NEW c \in Conns, Open(o, c) PROVE TInv'
  <2>1. stage[c] = "new" /\ stage' = [stage EXCEPT ![c] = "made"]
    BY <1>1 DEF Open
  <2>2. \A d \in Conns : stage'[d] = IF d = c THEN "made" ELSE stage[d]
    BY <2>1 DEF IInv, TypeOK
  <2>3. pending' = pending /\ UNCHANGED <<gone, speaker, netidOf>>
    BY <1>1 DEF Open, pending
  <2> QED BY <2>1, <2>2, <2>3, NothingTold
<1>2. ASSUME NEW c \in Conns, OpenFails(c) PROVE TInv'
  <2>1. stage[c] = "new" /\ stage' = [stage EXCEPT ![c] = "refused"]
    BY <1>2 DEF OpenFails
  <2>2. \A d \in Conns : stage'[d] = IF d = c THEN "refused" ELSE stage[d]
    BY <2>1 DEF IInv, TypeOK
  <2>3. pending' = pending /\ UNCHANGED <<gone, speaker, netidOf>>
    BY <1>2 DEF OpenFails, pending
  <2> QED BY <2>1, <2>2, <2>3, NothingTold
<1>3. ASSUME NEW o \in Openers, AddHandler(o) PROVE TInv'
  <2> DEFINE c == opened[o]
  <2>1. c \in Conns /\ stage[c] = "made"
    BY <1>3 DEF AddHandler, IInv, Opening
  <2>2. /\ stage' = [stage EXCEPT ![c] = "added"]
        /\ netidOf' = [netidOf EXCEPT ![c] = NextNetId]
    BY <1>3 DEF AddHandler
  <2> HIDE DEF c
  <2>3. \A d \in Conns : d # c => stage'[d] = stage[d] /\ netidOf'[d] = netidOf[d]
    BY <2>2 DEF IInv, TypeOK
  <2>4. stage'[c] = "added"
    BY <2>1, <2>2 DEF IInv, TypeOK
  <2>5. pending' = pending /\ UNCHANGED <<gone, speaker>>
    BY <1>3 DEF AddHandler, pending
  <2> QED BY <2>1, <2>3, <2>4, <2>5, NothingTold
<1>4. ASSUME AnnounceAccept PROVE TInv'
  <2> DEFINE e == Event("accept", netidOf[opened["accept"]], opened["accept"])
  <2>1. "accept" \in Openers /\ opc["accept"] = "announce"
    BY <1>4 DEF AnnounceAccept
  <2>2. opened["accept"] \in Conns /\ netidOf[opened["accept"]] \in NetIds
    BY <2>1 DEF IInv, Opening, TypeOK
  <2>3. e \in Events /\ e.kind = "accept"
    BY <2>2, EventType DEF Event
  <2>4. pending' = Append(pending, e)
    BY <1>4, <2>3, PutLast DEF AnnounceAccept, pending, IInv, TypeOK
  <2> HIDE DEF e
  <2> QED BY <1>4, <2>3, <2>4, AcceptTold DEF AnnounceAccept
<1>5. ASSUME AnnounceConnect PROVE TInv'
  BY <1>5, Untold DEF AnnounceConnect
<1> QED BY <1>1, <1>2, <1>3, <1>4, <1>5 DEF Opener

\* The net threads tell what they receive and whom they delete.
LEMMA DispatchTold ==
  ASSUME IInv, TInv, NEW t \in Polls, Dispatch(t)
  PROVE  TInv'
<1>1. CASE DelBegin(t)
  BY <1>1, Untold DEF DelBegin
<1>2. CASE DelAgain(t)
  BY <1>2, Untold DEF DelAgain
<1>3. CASE DelOne(t)
  <2> DEFINE n == Head(dels[t]).netid
             c == table[n]
             e == Event("disconnect", netidOf[c], c)
  <2>1. /\ dels[t] # <<>> /\ c # None /\ jobs' = Append(jobs, e)
        /\ stage' = [stage EXCEPT ![c] = "deleted"]
        /\ UNCHANGED <<batch, gone, speaker, netidOf>>
    BY <1>3 DEF DelOne
  <2>2. n \in NetIds
    <3>1. dels[t] \in Seq(Requests)
      BY DEF IInv, TypeOK
    <3>2. Head(dels[t]) \in Requests
      BY <2>1, <3>1, InTail
    <3> QED BY <3>2 DEF Requests
  <2>3. c \in Added /\ c \in Conns /\ netidOf[c] \in NetIds
    BY <2>1, <2>2 DEF IInv, Registered, Added, TypeOK
  <2> HIDE DEF c
  <2>4. e \in Events /\ e.kind = "disconnect" /\ e.netid = netidOf[c] /\ e.conn = c
    BY <2>3, EventType DEF Event
  <2> HIDE DEF e
  <2>5. pending' = Append(pending, e)
    BY <2>1, <2>4, PutLast DEF pending, IInv, TypeOK
  <2> QED BY <2>1, <2>3, <2>4, <2>5, DisconnectTold
<1>4. CASE DelEnd(t)
  BY <1>4, Untold DEF DelEnd
<1>5. CASE Select(t)
  BY <1>5, Untold DEF Select
<1>6. CASE ScanBegin(t)
  BY <1>6, Untold DEF ScanBegin
<1>7. CASE ScanEnd(t)
  BY <1>7, Untold DEF ScanEnd
<1>8. ASSUME NEW c \in Conns, RecvMessage(t, c) PROVE TInv'
  <2> DEFINE e == Event("recv", netidOf[c], c)
  <2>1. /\ jobs' = Append(jobs, e)
        /\ UNCHANGED <<batch, gone, speaker, stage, netidOf>>
    BY <1>8 DEF RecvMessage
  <2>2. c \in Added /\ netidOf[c] \in NetIds
    BY <1>8, AtOwn DEF RecvMessage, Reads
  <2>3. e \in Events /\ e.kind = "recv" /\ e.netid = netidOf[c] /\ e.conn = c
    BY <2>2, EventType DEF Event
  <2> HIDE DEF e
  <2>4. pending' = Append(pending, e)
    BY <2>1, <2>3, PutLast DEF pending, IInv, TypeOK
  <2> QED BY <2>1, <2>2, <2>3, <2>4, RecvTold
<1>9. ASSUME NEW c \in Conns, RecvWouldBlock(t, c) PROVE TInv'
  BY <1>9, Untold DEF RecvWouldBlock
<1>10. ASSUME NEW c \in Conns, RecvClosed(t, c) PROVE TInv'
  BY <1>10, Untold DEF RecvClosed
<1>11. ASSUME NEW c \in Conns, RecvReset(t, c) PROVE TInv'
  BY <1>11, Untold DEF RecvReset
<1>12. ASSUME NEW c \in Conns, CanWrite(t, c) PROVE TInv'
  BY <1>12, Untold DEF CanWrite
<1> QED BY <1>1, <1>2, <1>3, <1>4, <1>5, <1>6, <1>7, <1>8, <1>9, <1>10, <1>11, <1>12
        DEF Dispatch, Handle

\* The main thread takes the jobs over, which tells nothing, and runs them one by one.
LEMMA UpdateTold ==
  ASSUME IInv, TInv, Update
  PROVE  TInv'
<1>1. CASE TakeBatch
  <2>1. pending' = pending
    <3>1. /\ batch = <<>> /\ batch' = jobs /\ jobs' = <<>> /\ jobs \in Seq(Events)
      BY <1>1 DEF TakeBatch, IInv, TypeOK
    <3>2. <<>> \o jobs = jobs /\ jobs \o <<>> = jobs
      BY <3>1, ConcatEmptySeq
    <3> QED BY <3>1, <3>2 DEF pending
  <2> QED BY <1>1, <2>1, NothingTold DEF TakeBatch
<1>2. ASSUME batch # <<>>, batch' = Tail(batch), jobs' = jobs
      PROVE  pending # <<>> /\ Head(pending) = Head(batch) /\ pending' = Tail(pending)
  <2>1. batch \in Seq(Events) /\ jobs \in Seq(Events)
    BY DEF IInv, TypeOK
  <2> QED BY <1>2, <2>1, TakenFirst DEF pending
<1>3. CASE RunAccept
  BY <1>2, <1>3, AcceptTaken DEF RunAccept
<1>4. CASE RunRecv
  BY <1>2, <1>4, RecvTaken DEF RunRecv
<1>5. CASE RunDisconnect
  BY <1>2, <1>5, DisconnectTaken DEF RunDisconnect
<1>6. CASE RunConnect
  BY <1>6, Untold DEF RunConnect
<1>7. CASE SendNobody
  BY <1>7, Untold DEF SendNobody
<1>8. CASE SendFind
  BY <1>8, Untold DEF SendFind
<1>9. CASE SendAppend
  BY <1>9, Untold DEF SendAppend
<1> QED BY <1>1, <1>3, <1>4, <1>5, <1>6, <1>7, <1>8, <1>9 DEF Update

\* What is pending, what was told and what became of the handlers agree at all times.
THEOREM ToldRight == Spec => []TInv
<1>1. IInv /\ TInv /\ [Next]_vars => TInv'
  <2> SUFFICES ASSUME IInv, TInv, [Next]_vars PROVE TInv'
    OBVIOUS
  <2>1. ASSUME Peers PROVE TInv'
    BY <2>1, Untold DEF Peers, PeerSends, PeerLeaves
  <2>2. ASSUME UNCHANGED vars PROVE TInv'
    BY <2>2, Untold DEF vars
  <2> QED BY <2>1, <2>2, OpenerTold, DispatchTold, UpdateTold DEF Next
<1> QED BY <1>1, InitTold, Invariance, PTL DEF Spec

\* The application hears of a connection in order: no message behind its disconnect, no
\* second disconnect, and no handler goes without one.
THEOREM InOrder == Spec => []EventsInOrder
<1>1. IInv /\ TInv => EventsInOrder
  <2> SUFFICES ASSUME IInv, TInv, NEW c \in Conns
               PROVE  LET Of == {k \in DOMAIN pending : /\ pending[k].conn = c
                                                        /\ pending[k].kind # "accept"}
                      IN /\ c \in gone => Of = {}
                         /\ \A j \in Of, k \in Of : j < k => pending[j].kind = "recv"
                         /\ stage[c] = "deleted" <=>
                              c \in gone \/ \E k \in Of : pending[k].kind = "disconnect"
    BY DEF EventsInOrder
  <2> DEFINE Of == {k \in DOMAIN pending : /\ pending[k].conn = c
                                           /\ pending[k].kind # "accept"}
  <2>1. \A k : k \in Of <=> k \in Told /\ pending[k].conn = c
    BY DEF Told
  <2> HIDE DEF Of
  <2>2. c \in gone => Of = {}
    BY <2>1 DEF TInv, Silent
  <2>3. \A j \in Of, k \in Of : j < k => pending[j].kind = "recv"
    BY <2>1 DEF TInv, DisconnectLast
  <2>4. stage[c] = "deleted" <=>
          c \in gone \/ \E k \in Of : pending[k].kind = "disconnect"
    BY <2>1 DEF TInv, DeletedTold
  <2> QED BY <2>2, <2>3, <2>4 DEF Of
<1> QED BY <1>1, Invariance, ToldRight, PTL

\* The application never takes one connection for another that had its netid before.
THEOREM NoMixUp == Spec => []NoCrossTalk
<1>1. IInv /\ TInv => NoCrossTalk
  <2> SUFFICES ASSUME IInv, TInv, NEW n \in NetIds
               PROVE  LET Of == {k \in DOMAIN pending : /\ pending[k].netid = n
                                                        /\ pending[k].kind # "accept"}
                      IN /\ \A k \in Of :
                              \/ speaker[n] \in {pending[k].conn, None}
                              \/ \E i \in Of : /\ 1 <= i /\ i < k
                                              /\ pending[i].kind = "disconnect"
                         /\ \A j \in Of, k \in Of : j < k =>
                              \/ pending[j].conn = pending[k].conn
                              \/ \E i \in Of : /\ j <= i /\ i < k
                                              /\ pending[i].kind = "disconnect"
    BY DEF NoCrossTalk
  <2> DEFINE Of == {k \in DOMAIN pending : /\ pending[k].netid = n
                                           /\ pending[k].kind # "accept"}
  <2>1. \A k : k \in Of <=> k \in Told /\ pending[k].netid = n
    BY DEF Told
  <2> HIDE DEF Of
  <2>2. ASSUME NEW j \in Nat, NEW k \in Of, Parted(j, k)
        PROVE  \E i \in Of : j <= i /\ i < k /\ pending[i].kind = "disconnect"
    BY <2>1, <2>2 DEF Parted
  <2>3. ASSUME NEW k \in Of
        PROVE  \/ speaker[n] \in {pending[k].conn, None}
               \/ \E i \in Of : 1 <= i /\ i < k /\ pending[i].kind = "disconnect"
    BY <2>1, <2>2, <2>3 DEF TInv, SpeakersApart
  <2>4. ASSUME NEW j \in Of, NEW k \in Of, j < k, pending[j].conn # pending[k].conn
        PROVE  \E i \in Of : j <= i /\ i < k /\ pending[i].kind = "disconnect"
    <3>1. Parted(j, k)
      BY <2>1, <2>4 DEF TInv, EventsApart
    <3>2. j \in Nat
      BY <2>1, PendingType
    <3> QED BY <2>2, <3>1, <3>2
  <2> QED BY <2>3, <2>4 DEF Of
<1> QED BY <1>1, Invariance, ToldRight, PTL
=============================================================================
