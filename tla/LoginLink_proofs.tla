-------------------------- MODULE LoginLink_proofs --------------------------
(***************************************************************************)
(* Proofs about LoginLink, for queues of any size and any number of        *)
(* connections, breaks and failures: the login server never sits without   *)
(* a link to the gate and does nothing about it, unless it has given up;   *)
(* and it never has or makes a second one, unless it took the end of       *)
(* another connection for the end of the link.                             *)
(***************************************************************************)
EXTENDS LoginLink, TLAPS, SequenceTheorems, FiniteSetTheorems

Conn == [kind : {"gate", "client"}, netid : Nat, up : BOOLEAN]

\* The end of every connection is told, or will be.
EndsAreTold == \A c \in Conns : conns[c].up \/ c \in Untold \/ c \in told

Inv == TypeOK /\ EndsAreTold /\ LinkKept

-----------------------------------------------------------------------------
(* What the queues hold *)

In(s) == {s[k] : k \in DOMAIN s}

LEMMA InAppend ==
  ASSUME NEW S, NEW s \in Seq(S), NEW e \in S
  PROVE  In(Append(s, e)) = In(s) \cup {e}
<1>1. /\ Len(Append(s, e)) = Len(s) + 1 /\ Len(s) \in Nat
      /\ DOMAIN Append(s, e) = 1 .. Len(s) + 1 /\ DOMAIN s = 1 .. Len(s)
      /\ \A k \in 1 .. Len(s) : Append(s, e)[k] = s[k]
      /\ Append(s, e)[Len(s) + 1] = e
  OBVIOUS
<1>2. 1 .. Len(s) + 1 = (1 .. Len(s)) \cup {Len(s) + 1}
  BY <1>1
<1> QED BY <1>1, <1>2 DEF In

LEMMA InTail ==
  ASSUME NEW S, NEW s \in Seq(S), s # <<>>
  PROVE  Head(s) \in S /\ Tail(s) \in Seq(S) /\ In(s) \subseteq {Head(s)} \cup In(Tail(s))
<1>1. /\ Head(s) \in S /\ Tail(s) \in Seq(S) /\ Len(Tail(s)) = Len(s) - 1
      /\ \A k \in 1 .. Len(Tail(s)) : Tail(s)[k] = s[k + 1]
  BY HeadTailProperties
<1>2. Len(s) \in Nat \ {0} /\ DOMAIN s = 1 .. Len(s) /\ DOMAIN Tail(s) = 1 .. Len(s) - 1
  BY <1>1, EmptySeq, LenProperties
<1>3. Head(s) = s[1]
  BY <1>2
<1>4. ASSUME NEW k \in DOMAIN s, k # 1
      PROVE  s[k] \in In(Tail(s))
  <2>1. k - 1 \in DOMAIN Tail(s) /\ Tail(s)[k - 1] = s[k]
    BY <1>1, <1>2, <1>4
  <2> QED BY <2>1 DEF In
<1> QED BY <1>1, <1>3, <1>4 DEF In

LEMMA InWhole ==
  ASSUME NEW S, NEW s \in Seq(S), s # <<>>
  PROVE  Head(s) \in In(s) /\ In(Tail(s)) \subseteq In(s)
<1>1. /\ Len(s) \in Nat \ {0} /\ DOMAIN s = 1 .. Len(s) /\ Tail(s) \in Seq(S)
      /\ Len(Tail(s)) = Len(s) - 1 /\ \A k \in 1 .. Len(Tail(s)) : Tail(s)[k] = s[k + 1]
  BY HeadTailProperties, EmptySeq, LenProperties
<1>2. DOMAIN Tail(s) = 1 .. Len(s) - 1
  BY <1>1, LenProperties
<1>3. Head(s) = s[1] /\ 1 \in DOMAIN s
  BY <1>1
<1>4. \A k \in DOMAIN Tail(s) : k + 1 \in DOMAIN s /\ Tail(s)[k] = s[k + 1]
  BY <1>1, <1>2
<1> QED BY <1>3, <1>4 DEF In

LEMMA InEmpty == In(<<>>) = {}
BY DEF In

LEMMA UntoldIn == Untold = In(jobs) \cup In(batch)
BY DEF Untold, In

LEMMA UntoldInNext == Untold' = In(jobs') \cup In(batch')
BY DEF Untold, In

-----------------------------------------------------------------------------
(* Connections *)

\* A new connection is one more, and those before it stay as they are.
LEMMA AddedLast ==
  ASSUME TypeOK, NEW kind \in {"gate", "client"}, Add(kind)
  PROVE  /\ conns' \in Seq(Conn) /\ grown' \in Nat /\ recovery' \in Seq(Nat)
         /\ Len(conns') \in Conns' /\ conns'[Len(conns')].up
         /\ Conns \subseteq Conns' /\ Conns' \subseteq Conns \cup {Len(conns')}
         /\ \A c \in Conns : conns'[c] = conns[c]
<1> DEFINE netid == IF recovery = <<>> THEN grown ELSE Head(recovery)
           new == [kind |-> kind, up |-> TRUE, netid |-> netid]
<1>1. conns \in Seq(Conn) /\ grown \in Nat /\ recovery \in Seq(Nat)
  BY DEF TypeOK, Conn
<1>2. netid \in Nat
  BY <1>1, HeadTailProperties
<1>3. new \in Conn /\ new.up
  BY <1>2 DEF Conn
<1>4. conns' = Append(conns, new)
  BY DEF Add
<1> HIDE DEF new
<1>5. /\ conns' \in Seq(Conn) /\ Len(conns') = Len(conns) + 1 /\ Len(conns) \in Nat
      /\ DOMAIN conns = 1 .. Len(conns) /\ DOMAIN conns' = 1 .. Len(conns) + 1
      /\ \A c \in 1 .. Len(conns) : conns'[c] = conns[c]
      /\ conns'[Len(conns')] = new
  BY <1>1, <1>3, <1>4
<1>6. grown' \in Nat /\ recovery' \in Seq(Nat)
  <2>1. CASE recovery = <<>>
    BY <1>1, <2>1 DEF Add
  <2>2. CASE recovery # <<>>
    BY <1>1, <2>2, HeadTailProperties DEF Add
  <2> QED BY <2>1, <2>2
<1> QED BY <1>3, <1>5, <1>6 DEF Conns

\* The end of a connection leaves its netid where it was, and the others alone.
LEMMA EndedOnly ==
  ASSUME TypeOK, NEW c \in Conns, End(c)
  PROVE  /\ conns' \in Seq(Conn) /\ recovery' \in Seq(Nat)
         /\ Conns' = Conns
         /\ \A d \in Conns : conns'[d].netid = conns[d].netid
         /\ \A d \in Conns \ {c} : conns'[d].up = conns[d].up
<1>1. conns \in Seq(Conn) /\ recovery \in Seq(Nat) /\ Conns = 1 .. Len(conns)
      /\ conns \in [1 .. Len(conns) -> Conn]
  BY LenProperties DEF TypeOK, Conn, Conns
<1>2. conns' = [conns EXCEPT ![c].up = FALSE]
  BY DEF End
<1>3. conns[c] \in Conn
  BY <1>1
<1>4. [conns[c] EXCEPT !.up = FALSE] \in Conn /\ conns[c].netid \in Nat
  BY <1>3 DEF Conn
<1>5. conns' = [conns EXCEPT ![c] = [conns[c] EXCEPT !.up = FALSE]]
  BY <1>2
<1>6. conns' \in Seq(Conn) /\ Len(conns') = Len(conns)
  BY <1>1, <1>4, <1>5, ExceptSeq
<1>7. recovery' \in Seq(Nat)
  BY <1>1, <1>4 DEF End
<1>8. Conns' = Conns
  BY <1>1, <1>6, LenProperties DEF Conns
<1>9. conns'[c].netid = conns[c].netid
  BY <1>1, <1>3, <1>5 DEF Conn
<1>10. \A d \in Conns \ {c} : conns'[d] = conns[d]
  BY <1>1, <1>5
<1> QED BY <1>6, <1>7, <1>8, <1>9, <1>10

\* What names connections still does when there is one more.
LEMMA StillConns ==
  ASSUME TypeOK, Conns \subseteq Conns'
  PROVE  /\ rets \in Seq(Conns' \cup {None}) /\ jobs \in Seq(Conns') /\ batch \in Seq(Conns')
         /\ made \in Conns' \cup {None} /\ cs \in Conns' \cup {None}
         /\ gate \in Conns' \cup {None} /\ told \subseteq Conns'
<1>1. /\ rets \in Seq(Conns \cup {None}) /\ jobs \in Seq(Conns) /\ batch \in Seq(Conns)
      /\ made \in Conns \cup {None} /\ cs \in Conns \cup {None}
      /\ gate \in Conns \cup {None} /\ told \subseteq Conns
  BY DEF TypeOK
<1>2. Conns \cup {None} \subseteq Conns' \cup {None}
  OBVIOUS
<1> QED BY <1>1, <1>2, SeqMonotonic
-----------------------------------------------------------------------------
(* The type invariant *)

LEMMA InitType == Init => TypeOK
<1> SUFFICES ASSUME Init PROVE TypeOK
  OBVIOUS
<1>1. NoNetId \notin Nat /\ NetIds \subseteq Nat /\ MaxFails \in Nat /\ QueueLen \in Nat
  BY LinkAssumption DEF NetIds
<1>2. conns = <<>> /\ Conns = {}
  BY DEF Init, Conns
<1>3. \A S : <<>> \in Seq(S) /\ Len(<<>>) = 0
  BY EmptySeq
<1>4. /\ requests \in 0 .. QueueLen /\ fails \in 0 .. MaxFails /\ grown \in Nat
      /\ m_gateid \in Nat \cup {NoNetId}
  BY <1>1 DEF Init
<1>5. Len(rets) <= QueueLen
  BY <1>1, <1>3 DEF Init
<1>6. mistaken \in BOOLEAN /\ lapse \in {"none", "refused", "overtaken"}
  BY DEF Init
<1> QED BY <1>2, <1>3, <1>4, <1>5, <1>6 DEF Init, TypeOK

\* What ConnectAsyn does to the queue of requests.
LEMMA Asked ==
  ASSUME TypeOK, ConnectAsyn
  PROVE  /\ requests' \in 0 .. QueueLen
         /\ lapse' \in {"none", "refused", "overtaken"}
         /\ requests' > 0 \/ lapse' # "none"
<1>1. requests \in 0 .. QueueLen /\ QueueLen \in Nat
  BY LinkAssumption DEF TypeOK
<1> QED BY <1>1 DEF ConnectAsyn

LEMMA TypeStep == TypeOK /\ [Next]_vars => TypeOK'
<1> SUFFICES ASSUME TypeOK, [Next]_vars PROVE TypeOK'
  OBVIOUS
<1> USE DEF thread, main, history, netids
<1>0. QueueLen \in Nat \ {0} /\ MaxFails \in Nat /\ None \notin Nat
  BY LinkAssumption
<1>c. ASSUME UNCHANGED conns PROVE Conns' = Conns
  BY <1>c DEF Conns
<1>1. CASE Accept
  <2>1. Add("client")
    BY <1>1 DEF Accept
  <2>2. /\ conns' \in Seq(Conn) /\ grown' \in Nat /\ recovery' \in Seq(Nat)
        /\ Conns \subseteq Conns'
    BY <2>1, AddedLast
  <2>3. /\ rets \in Seq(Conns' \cup {None}) /\ jobs \in Seq(Conns') /\ batch \in Seq(Conns')
        /\ made \in Conns' \cup {None} /\ cs \in Conns' \cup {None}
        /\ gate \in Conns' \cup {None} /\ told \subseteq Conns'
    BY <2>2, StillConns
  <2> QED BY <1>1, <2>2, <2>3 DEF Accept, TypeOK, Conn
<1>2. ASSUME NEW c \in Conns, End(c) PROVE TypeOK'
  <2>1. conns' \in Seq(Conn) /\ recovery' \in Seq(Nat) /\ Conns' = Conns
    BY <1>2, EndedOnly
  <2>2. jobs' \in Seq(Conns')
    BY <1>2, <2>1 DEF End, TypeOK
  <2> QED BY <1>2, <2>1, <2>2 DEF End, TypeOK, Conn
<1>3. CASE PopRequest
  BY <1>0, <1>3, <1>c DEF PopRequest, TypeOK
<1>4. CASE Connect
  <2>1. Add("gate")
    BY <1>4 DEF Connect
  <2>2. /\ conns' \in Seq(Conn) /\ grown' \in Nat /\ recovery' \in Seq(Nat)
        /\ Conns \subseteq Conns' /\ Len(conns') \in Conns'
    BY <2>1, AddedLast
  <2>3. /\ rets \in Seq(Conns' \cup {None}) /\ jobs \in Seq(Conns') /\ batch \in Seq(Conns')
        /\ cs \in Conns' \cup {None}
        /\ gate \in Conns' \cup {None} /\ told \subseteq Conns'
    BY <2>2, StillConns
  <2> QED BY <1>4, <2>2, <2>3 DEF Connect, TypeOK, Conn
<1>5. CASE ConnectFails
  BY <1>0, <1>5, <1>c DEF ConnectFails, TypeOK
<1>6. CASE PushResult
  <2>1. rets' \in Seq(Conns \cup {None}) /\ Len(rets') <= QueueLen
    BY <1>0, <1>6 DEF PushResult, TypeOK
  <2> QED BY <1>6, <1>c, <2>1 DEF PushResult, TypeOK
<1>7. CASE Start
  <2>1. requests' \in 0 .. QueueLen /\ lapse' \in {"none", "refused", "overtaken"}
    BY <1>7, Asked DEF Start
  <2> QED BY <1>7, <1>c, <2>1 DEF Start, TypeOK
<1>8. CASE Update
  BY <1>8, <1>c DEF Update, TypeOK
<1>9. CASE OnDisconnect
  <2>1. /\ Head(batch) \in Conns /\ Tail(batch) \in Seq(Conns)
        /\ batch' = Tail(batch) /\ told' = told \cup {Head(batch)} /\ mpc = "jobs"
    BY <1>9, InTail DEF OnDisconnect, TypeOK
  <2>2. requests' \in 0 .. QueueLen /\ lapse' \in {"none", "refused", "overtaken"}
    <3>1. CASE ConnectAsyn
      BY <3>1, Asked
    <3>2. CASE NoConnectAsyn
      BY <3>2 DEF NoConnectAsyn, TypeOK
    <3> QED BY <1>9, <3>1, <3>2 DEF OnDisconnect
  <2>3. mistaken' \in BOOLEAN
    BY <1>9 DEF OnDisconnect
  <2> QED BY <1>9, <1>c, <2>1, <2>2, <2>3 DEF OnDisconnect, TypeOK
<1>10. CASE JobsDone
  BY <1>10, <1>c DEF JobsDone, TypeOK
<1>11. CASE TakeResult
  <2>1. /\ Head(rets) \in Conns \cup {None} /\ Tail(rets) \in Seq(Conns \cup {None})
        /\ Len(Tail(rets)) <= QueueLen
    <3>1. rets \in Seq(Conns \cup {None}) /\ Len(rets) <= QueueLen /\ rets # <<>>
      BY <1>11 DEF TakeResult, TypeOK
    <3>2. Len(rets) \in Nat
      BY <3>1
    <3> QED BY <1>0, <3>1, <3>2, HeadTailProperties
  <2> QED BY <1>11, <1>c, <2>1 DEF TakeResult, TypeOK
<1>12. CASE OnConnected
  <2>1. cs \in Conns /\ conns[cs] \in Conn
    <3>1. cs \in Conns /\ conns \in Seq(Conn)
      BY <1>12 DEF OnConnected, TypeOK, Conn
    <3> QED BY <3>1, LenProperties, ElementOfSeq DEF Conns
  <2>2. m_gateid' \in Nat
    BY <1>12, <2>1 DEF OnConnected, Conn
  <2> QED BY <1>12, <1>c, <2>1, <2>2 DEF OnConnected, TypeOK
<1>13. CASE OnFailed
  <2>1. requests' \in 0 .. QueueLen /\ lapse' \in {"none", "refused", "overtaken"}
    BY <1>13, Asked DEF OnFailed
  <2> QED BY <1>13, <1>c, <2>1 DEF OnFailed, TypeOK
<1>14. CASE ResultsDone
  BY <1>14, <1>c DEF ResultsDone, TypeOK
<1>15. CASE UNCHANGED vars
  BY <1>15, <1>c DEF vars, TypeOK
<1> QED BY <1>1, <1>2, <1>3, <1>4, <1>5, <1>6, <1>7, <1>8, <1>9, <1>10, <1>11, <1>12, <1>13,
           <1>14, <1>15 DEF Next, Network, ConnectThread, MainThread
-----------------------------------------------------------------------------
(* The end of every connection is told *)

\* A step leaves what is to be told, or tells it, and adds the connection that ends.
LEMMA EndsStep == TypeOK /\ EndsAreTold /\ [Next]_vars => EndsAreTold'
<1> SUFFICES ASSUME TypeOK, EndsAreTold, [Next]_vars PROVE EndsAreTold'
  OBVIOUS
<1> USE DEF thread, main, history, netids
<1>0. jobs \in Seq(Conns) /\ batch \in Seq(Conns)
  BY DEF TypeOK
<1>a. ASSUME NEW kind \in {"gate", "client"}, Add(kind), UNCHANGED <<jobs, batch, told>>
      PROVE  EndsAreTold'
  <2>1. /\ conns'[Len(conns')].up /\ Conns' \subseteq Conns \cup {Len(conns')}
        /\ \A c \in Conns : conns'[c] = conns[c]
    BY <1>a, AddedLast
  <2>2. Untold' = Untold
    BY <1>a DEF Untold
  <2> QED BY <1>a, <2>1, <2>2 DEF EndsAreTold
<1>b. ASSUME UNCHANGED <<conns, jobs, batch, told>> PROVE EndsAreTold'
  BY <1>b DEF EndsAreTold, Untold, Conns
<1>1. CASE Accept
  BY <1>1, <1>a DEF Accept
<1>2. ASSUME NEW c \in Conns, End(c) PROVE EndsAreTold'
  <2>1. Conns' = Conns /\ \A d \in Conns \ {c} : conns'[d].up = conns[d].up
    BY <1>2, EndedOnly
  <2>2. Untold' = Untold \cup {c}
    <3>1. In(jobs') = In(jobs) \cup {c} /\ batch' = batch
      BY <1>0, <1>2, InAppend DEF End
    <3> QED BY <3>1, UntoldIn, UntoldInNext
  <2>3. told' = told
    BY <1>2 DEF End
  <2> QED BY <2>1, <2>2, <2>3 DEF EndsAreTold
<1>3. CASE PopRequest
  BY <1>3, <1>b DEF PopRequest
<1>4. CASE Connect
  BY <1>4, <1>a DEF Connect
<1>5. CASE ConnectFails
  BY <1>5, <1>b DEF ConnectFails
<1>6. CASE PushResult
  BY <1>6, <1>b DEF PushResult
<1>7. CASE Start
  BY <1>7, <1>b DEF Start
<1>8. CASE Update
  <2>1. batch' = jobs /\ jobs' = <<>> /\ batch = <<>> /\ UNCHANGED <<conns, told>>
    BY <1>8 DEF Update, TypeOK
  <2>2. Untold' = Untold
    BY <2>1, UntoldIn, UntoldInNext, InEmpty
  <2> QED BY <2>1, <2>2 DEF EndsAreTold, Conns
<1>9. CASE OnDisconnect
  <2>1. /\ batch # <<>> /\ batch' = Tail(batch) /\ told' = told \cup {Head(batch)}
        /\ UNCHANGED <<conns, jobs>>
    BY <1>9 DEF OnDisconnect
  <2>2. Untold \subseteq Untold' \cup {Head(batch)}
    BY <1>0, <2>1, UntoldIn, UntoldInNext, InTail
  <2> QED BY <2>1, <2>2 DEF EndsAreTold, Conns
<1>10. CASE JobsDone
  BY <1>10, <1>b DEF JobsDone
<1>11. CASE TakeResult
  BY <1>11, <1>b DEF TakeResult
<1>12. CASE OnConnected
  BY <1>12, <1>b DEF OnConnected
<1>13. CASE OnFailed
  BY <1>13, <1>b DEF OnFailed
<1>14. CASE ResultsDone
  BY <1>14, <1>b DEF ResultsDone
<1>15. CASE UNCHANGED vars
  BY <1>15, <1>b DEF vars
<1> QED BY <1>1, <1>2, <1>3, <1>4, <1>5, <1>6, <1>7, <1>8, <1>9, <1>10, <1>11, <1>12, <1>13,
           <1>14, <1>15 DEF Next, Network, ConnectThread, MainThread
-----------------------------------------------------------------------------
(* The link *)

\* A link that stands, or whose end is to be told, is still one if the callback has
\* learnt nothing new and the connection has not been told to be gone.
LEMMA LinkStays ==
  ASSUME Linked, UNCHANGED <<gate, m_gateid>>, gate \notin told',
         conns'[gate].netid = conns[gate].netid,
         conns'[gate].up = conns[gate].up \/ gate \in Untold',
         Untold \ told' \subseteq Untold'
  PROVE  Linked'
<1>1. gate' = gate /\ m_gateid' = m_gateid /\ gate # None /\ m_gateid = conns[gate].netid
  BY DEF Linked
<1>2. conns'[gate].up \/ gate \in Untold'
  BY DEF Linked
<1> QED BY <1>1, <1>2 DEF Linked

\* connectAsyn() either makes a request or gives up.
LEMMA AskedOrGivenUp ==
  ASSUME TypeOK, ConnectAsyn
  PROVE  LinkKept'
BY Asked DEF LinkKept, Asking

LEMMA LinkStep == TypeOK /\ EndsAreTold /\ LinkKept /\ [Next]_vars => LinkKept'
<1> SUFFICES ASSUME TypeOK, EndsAreTold, LinkKept, [Next]_vars PROVE LinkKept'
  OBVIOUS
<1> USE DEF thread, main, history, netids
<1>0. /\ jobs \in Seq(Conns) /\ batch \in Seq(Conns) /\ requests \in 0 .. QueueLen
      /\ QueueLen \in Nat /\ gate \in Conns \cup {None}
  BY LinkAssumption DEF TypeOK
<1>a. ASSUME NEW kind \in {"gate", "client"}, Add(kind), Linked,
             UNCHANGED <<jobs, batch, told, gate, m_gateid>>
      PROVE  Linked'
  <2>1. gate \in Conns
    BY <1>0, <1>a DEF Linked
  <2>2. conns'[gate] = conns[gate]
    BY <1>a, <2>1, AddedLast
  <2>3. Untold' = Untold
    BY <1>a DEF Untold
  <2> QED BY <1>a, <2>2, <2>3, LinkStays DEF Linked
<1>b. ASSUME UNCHANGED <<conns, jobs, batch, told, gate, m_gateid>>, Linked PROVE Linked'
  BY <1>b DEF Linked, Untold
<1>1. CASE Accept
  <2>1. Linked => Linked'
    BY <1>1, <1>a DEF Accept
  <2>2. Asking' = Asking /\ lapse' = lapse /\ mpc' = mpc
    BY <1>1 DEF Accept, Asking
  <2> QED BY <2>1, <2>2 DEF LinkKept
<1>2. ASSUME NEW c \in Conns, End(c) PROVE LinkKept'
  <2>1. /\ \A d \in Conns : conns'[d].netid = conns[d].netid
        /\ \A d \in Conns \ {c} : conns'[d].up = conns[d].up
    BY <1>2, EndedOnly
  <2>2. Untold' = Untold \cup {c}
    <3>1. In(jobs') = In(jobs) \cup {c} /\ batch' = batch
      BY <1>0, <1>2, InAppend DEF End
    <3> QED BY <3>1, UntoldIn, UntoldInNext
  <2>3. ASSUME Linked PROVE Linked'
    <3>1. gate \in Conns /\ gate \notin told
      BY <1>0, <2>3 DEF Linked
    <3>2. UNCHANGED <<gate, m_gateid>>
      BY <1>2 DEF End
    <3>3. conns'[gate].up = conns[gate].up \/ gate \in Untold'
      BY <2>1, <2>2, <3>1
    <3> QED BY <2>1, <2>2, <2>3, <3>1, <3>2, <3>3, <1>2, LinkStays DEF End
  <2>4. Asking' = Asking /\ lapse' = lapse /\ mpc' = mpc
    BY <1>2 DEF End, Asking
  <2> QED BY <2>3, <2>4 DEF LinkKept
<1>3. CASE PopRequest
  <2>1. Asking' /\ mpc' = mpc
    BY <1>3 DEF PopRequest, Asking
  <2> QED BY <2>1 DEF LinkKept
<1>4. CASE Connect
  <2>1. Asking' /\ mpc' = mpc
    BY <1>4 DEF Connect, Asking
  <2> QED BY <2>1 DEF LinkKept
<1>5. CASE ConnectFails
  <2>1. Asking' /\ mpc' = mpc
    BY <1>5 DEF ConnectFails, Asking
  <2> QED BY <2>1 DEF LinkKept
<1>6. CASE PushResult
  <2>1. rets' = Append(rets, made) /\ rets \in Seq(Conns \cup {None})
        /\ made \in Conns \cup {None}
    BY <1>6 DEF PushResult, TypeOK
  <2>2. rets' # <<>>
    BY <2>1
  <2> QED BY <2>2 DEF LinkKept, Asking
<1>7. CASE Start
  BY <1>7, AskedOrGivenUp DEF Start
<1>8. CASE Update
  <2>1. batch' = jobs /\ jobs' = <<>> /\ batch = <<>> /\ mpc = "wait"
    BY <1>8 DEF Update, TypeOK
  <2>2. Untold' = Untold
    BY <2>1, UntoldIn, UntoldInNext, InEmpty
  <2>3. Linked => Linked'
    BY <1>8, <2>2 DEF Update, Linked
  <2>4. Asking => Asking'
    BY <1>8 DEF Update, Asking
  <2>5. lapse' = lapse
    BY <1>8 DEF Update
  <2> QED BY <2>1, <2>3, <2>4, <2>5 DEF LinkKept
<1>9. CASE OnDisconnect
  <2> DEFINE c == Head(batch)
             hit == conns[c].netid = m_gateid
  <2>1. /\ batch # <<>> /\ batch' = Tail(batch) /\ told' = told \cup {c} /\ mpc = "jobs"
        /\ UNCHANGED <<conns, jobs, gate, m_gateid, rets, cpc, mpc>>
        /\ IF hit THEN ConnectAsyn ELSE NoConnectAsyn
    BY <1>9 DEF OnDisconnect
  <2>2. CASE hit
    BY <2>1, <2>2, AskedOrGivenUp
  <2>3. CASE ~hit
    <3>1. UNCHANGED <<requests, lapse>>
      BY <2>1, <2>3 DEF NoConnectAsyn
    <3>2. Untold \subseteq Untold' \cup {c}
      BY <1>0, <2>1, UntoldIn, UntoldInNext, InTail
    <3>3. ASSUME Linked PROVE Linked'
      <4>1. c # gate
        BY <2>3, <3>3 DEF Linked
      <4>2. gate \notin told'
        BY <2>1, <3>3, <4>1 DEF Linked
      <4>3. Untold \ told' \subseteq Untold'
        BY <2>1, <3>2
      <4> QED BY <2>1, <3>3, <4>2, <4>3, LinkStays
    <3>4. Asking' = Asking
      BY <2>1, <3>1 DEF Asking
    <3> QED BY <2>1, <3>1, <3>3, <3>4 DEF LinkKept
  <2> QED BY <2>2, <2>3
<1>10. CASE JobsDone
  <2>1. Linked => Linked'
    BY <1>10, <1>b DEF JobsDone
  <2>2. Asking => Asking'
    BY <1>10 DEF JobsDone, Asking
  <2> QED BY <1>10, <2>1, <2>2 DEF LinkKept, JobsDone
<1>11. CASE TakeResult
  BY <1>11 DEF TakeResult, LinkKept, Asking
<1>12. CASE OnConnected
  <2>1. cs \in Conns
    BY <1>12 DEF OnConnected, TypeOK
  <2>2. CASE cs \in told
    BY <1>12, <2>2 DEF OnConnected, LinkKept
  <2>3. CASE cs \notin told
    <3>1. conns[cs].up \/ cs \in Untold
      BY <2>1, <2>3 DEF EndsAreTold
    <3>2. gate' = cs /\ m_gateid' = conns[cs].netid /\ UNCHANGED <<conns, jobs, batch, told>>
      BY <1>12 DEF OnConnected
    <3>3. Untold' = Untold
      BY <3>2 DEF Untold
    <3>4. cs # None
      BY <1>12 DEF OnConnected
    <3>5. Linked'
      BY <2>3, <3>1, <3>2, <3>3, <3>4 DEF Linked
    <3> QED BY <3>5 DEF LinkKept
  <2> QED BY <2>2, <2>3
<1>13. CASE OnFailed
  BY <1>13, AskedOrGivenUp DEF OnFailed
<1>14. CASE ResultsDone
  <2>1. Linked => Linked'
    BY <1>14, <1>b DEF ResultsDone
  <2>2. Asking => Asking'
    BY <1>14 DEF ResultsDone, Asking
  <2> QED BY <1>14, <2>1, <2>2 DEF LinkKept, ResultsDone
<1>15. CASE UNCHANGED vars
  <2>1. Linked => Linked'
    BY <1>15, <1>b DEF vars
  <2>2. Asking' = Asking /\ lapse' = lapse /\ mpc' = mpc
    BY <1>15 DEF vars, Asking
  <2> QED BY <2>1, <2>2 DEF LinkKept
<1> QED BY <1>1, <1>2, <1>3, <1>4, <1>5, <1>6, <1>7, <1>8, <1>9, <1>10, <1>11, <1>12, <1>13,
           <1>14, <1>15 DEF Next, Network, ConnectThread, MainThread
-----------------------------------------------------------------------------
(* The theorems *)

\* The type invariant, that every end is told, and that the link is kept are one
\* inductive invariant: onConnect() may rely on the end of the new link to be told.
THEOREM Invariance == Spec => []Inv
<1>1. Init => Inv
  <2> SUFFICES ASSUME Init PROVE Inv
    OBVIOUS
  <2>1. EndsAreTold /\ LinkKept
    BY DEF Init, EndsAreTold, Conns, LinkKept
  <2> QED BY <2>1, InitType DEF Inv
<1>2. Inv /\ [Next]_vars => Inv'
  BY TypeStep, EndsStep, LinkStep DEF Inv
<1> QED BY <1>1, <1>2, PTL DEF Spec

\* The type invariant of the link and its queues.
THEOREM TypeCorrect == Spec => []TypeOK
<1>1. Inv => TypeOK
  BY DEF Inv
<1> QED BY <1>1, Invariance, PTL

\* Whatever breaks, fails or is used again in whatever order: the link stands, or its
\* end will be told and recognised, or it is asked for, or the callback has given up in
\* one of the two ways that InnerNetCallback leaves open.
THEOREM Kept == Spec => []LinkKept
<1>1. Inv => LinkKept
  BY DEF Inv
<1> QED BY <1>1, Invariance, PTL
-----------------------------------------------------------------------------
(* One link at a time *)

\* What is handed on as a connection to the gate server is one.
GateKinds ==
  \A c \in (In(rets) \cup {made, cs, gate}) \ {None} : conns[c].kind = "gate"

\* The links that are not known to be gone.
Links == {c \in Conns : conns[c].kind = "gate" /\ c \notin told}

\* Before start() nothing has been asked for.
Unstarted == mpc = "start" => requests = 0 /\ cpc = "pop" /\ rets = <<>> /\ Links = {}

\* A connection ends once, and its end is told once.
Once(s) == \A j \in DOMAIN s, k \in DOMAIN s : s[j] = s[k] => j = k
EndsOnce ==
  /\ \A c \in told \cup Untold : ~conns[c].up
  /\ told \cap Untold = {}
  /\ In(jobs) \cap In(batch) = {}
  /\ Once(jobs) /\ Once(batch)

\* The connect thread tries, or has failed and not said so yet; the results that say so;
\* and the main thread about to learn it.
Trying == IF cpc = "connect" \/ (cpc = "push" /\ made = None) THEN 1 ELSE 0
Failed(s) == {k \in DOMAIN s : s[k] = None}
Learning == IF mpc = "onConnect" /\ cs = None THEN 1 ELSE 0

Gates == Cardinality(Links)
Failures == Cardinality(Failed(rets))

\* Of all that is or will be a link or a failure to make one there is at most one: a
\* request leads to a link or a failure, a failure to a request, and the end of a link,
\* when it is told, to a request.
AtMostOne(r, l, t, f, e) ==
  \/ r \in {0, 1} /\ l = 0 /\ t = 0 /\ f = 0 /\ e = 0
  \/ r = 0 /\ l \in {0, 1} /\ t = 0 /\ f = 0 /\ e = 0
  \/ r = 0 /\ l = 0 /\ t \in {0, 1} /\ f = 0 /\ e = 0
  \/ r = 0 /\ l = 0 /\ t = 0 /\ f \in {0, 1} /\ e = 0
  \/ r = 0 /\ l = 0 /\ t = 0 /\ f = 0 /\ e \in {0, 1}
Efforts == AtMostOne(requests, Gates, Trying, Failures, Learning)
OneEffort == ~mistaken => Efforts

EInv == TypeOK /\ GateKinds /\ Unstarted /\ EndsOnce /\ OneEffort

\* What a new connection is.
LEMMA AddedKind ==
  ASSUME TypeOK, NEW kind \in {"gate", "client"}, Add(kind)
  PROVE  /\ Len(conns') \in Conns' /\ Len(conns') \notin Conns
         /\ Conns' = Conns \cup {Len(conns')}
         /\ conns'[Len(conns')].kind = kind
         /\ \A c \in Conns : conns'[c] = conns[c]
<1> DEFINE netid == IF recovery = <<>> THEN grown ELSE Head(recovery)
           new == [kind |-> kind, up |-> TRUE, netid |-> netid]
<1>1. conns \in Seq(Conn) /\ grown \in Nat /\ recovery \in Seq(Nat)
  BY DEF TypeOK, Conn
<1>2. netid \in Nat
  BY <1>1, HeadTailProperties
<1>3. new \in Conn /\ new.kind = kind
  BY <1>2 DEF Conn
<1>4. conns' = Append(conns, new)
  BY DEF Add
<1> HIDE DEF new
<1>5. /\ conns' \in Seq(Conn) /\ Len(conns') = Len(conns) + 1 /\ Len(conns) \in Nat
      /\ DOMAIN conns = 1 .. Len(conns) /\ DOMAIN conns' = 1 .. Len(conns) + 1
      /\ \A c \in 1 .. Len(conns) : conns'[c] = conns[c]
      /\ conns'[Len(conns')] = new
  BY <1>1, <1>3, <1>4
<1>6. 1 .. Len(conns) + 1 = (1 .. Len(conns)) \cup {Len(conns) + 1}
  BY <1>5
<1> QED BY <1>3, <1>5, <1>6 DEF Conns

\* What the end of a connection leaves.
LEMMA EndedKind ==
  ASSUME TypeOK, NEW c \in Conns, End(c)
  PROVE  /\ Conns' = Conns /\ ~conns'[c].up
         /\ \A d \in Conns : conns'[d].kind = conns[d].kind
<1>1. conns \in [1 .. Len(conns) -> Conn] /\ Conns = 1 .. Len(conns)
  BY LenProperties DEF TypeOK, Conn, Conns
<1>2. conns' = [conns EXCEPT ![c] = [conns[c] EXCEPT !.up = FALSE]]
  BY DEF End
<1>3. conns[c] \in Conn
  BY <1>1
<1>4. /\ [conns[c] EXCEPT !.up = FALSE].up = FALSE
      /\ [conns[c] EXCEPT !.up = FALSE].kind = conns[c].kind
  BY <1>3 DEF Conn
<1>5. Conns' = Conns
  BY EndedOnly
<1>6. /\ conns'[c] = [conns[c] EXCEPT !.up = FALSE]
      /\ \A d \in Conns \ {c} : conns'[d] = conns[d]
  BY <1>1, <1>2
<1> QED BY <1>4, <1>5, <1>6

\* What has been handed on is a connection or nothing.
LEMMA HandedOn ==
  ASSUME TypeOK
  PROVE  (In(rets) \cup {made, cs, gate}) \ {None} \subseteq Conns
<1>1. rets \in Seq(Conns \cup {None})
  BY DEF TypeOK
<1>2. In(rets) \subseteq Conns \cup {None}
  BY <1>1, LenProperties, ElementOfSeq DEF In
<1> QED BY <1>2 DEF TypeOK

\* Nobody hands on another connection than before.
LEMMA KindsStay ==
  ASSUME TypeOK, GateKinds, \A c \in Conns : conns'[c].kind = conns[c].kind,
         In(rets') \cup {made', cs', gate'} \subseteq In(rets) \cup {made, cs, gate, None}
  PROVE  GateKinds'
<1>1. In(rets)' = In(rets')
  BY DEF In
<1> QED BY <1>1, HandedOn DEF GateKinds

LEMMA KindsStep == TypeOK /\ GateKinds /\ [Next]_vars => GateKinds'
<1> SUFFICES ASSUME TypeOK, GateKinds, [Next]_vars PROVE GateKinds'
  OBVIOUS
<1> USE DEF thread, main, history, netids
<1>0. rets \in Seq(Conns \cup {None}) /\ made \in Conns \cup {None} /\ In(rets)' = In(rets')
  BY DEF TypeOK, In
<1>1. CASE Accept
  <2>1. \A c \in Conns : conns'[c] = conns[c]
    BY <1>1, AddedKind DEF Accept
  <2> QED BY <1>1, <2>1, KindsStay DEF Accept
<1>2. ASSUME NEW c \in Conns, End(c) PROVE GateKinds'
  <2>1. \A d \in Conns : conns'[d].kind = conns[d].kind
    BY <1>2, EndedKind
  <2> QED BY <1>2, <2>1, KindsStay DEF End
<1>3. CASE PopRequest
  BY <1>3, KindsStay DEF PopRequest
<1>4. CASE Connect
  <2>1. /\ \A c \in Conns : conns'[c] = conns[c]
        /\ conns'[Len(conns')].kind = "gate"
    BY <1>4, AddedKind DEF Connect
  <2>2. made' = Len(conns') /\ UNCHANGED <<rets, cs, gate>>
    BY <1>4 DEF Connect
  <2> QED BY <1>0, <2>1, <2>2, HandedOn DEF GateKinds
<1>5. CASE ConnectFails
  BY <1>5, KindsStay DEF ConnectFails
<1>6. CASE PushResult
  <2>1. In(rets') = In(rets) \cup {made}
    BY <1>0, <1>6, InAppend DEF PushResult
  <2> QED BY <1>6, <2>1, KindsStay DEF PushResult
<1>7. CASE Start
  BY <1>7, KindsStay DEF Start
<1>8. CASE Update
  BY <1>8, KindsStay DEF Update
<1>9. CASE OnDisconnect
  BY <1>9, KindsStay DEF OnDisconnect
<1>10. CASE JobsDone
  BY <1>10, KindsStay DEF JobsDone
<1>11. CASE TakeResult
  <2>1. rets # <<>> /\ rets' = Tail(rets) /\ cs' = Head(rets)
        /\ UNCHANGED <<conns, made, gate>>
    BY <1>11 DEF TakeResult
  <2>2. Head(rets) \in In(rets) /\ In(Tail(rets)) \subseteq In(rets)
    BY <1>0, <2>1, InWhole
  <2> QED BY <2>1, <2>2, KindsStay
<1>12. CASE OnConnected
  BY <1>12, KindsStay DEF OnConnected
<1>13. CASE OnFailed
  BY <1>13, KindsStay DEF OnFailed
<1>14. CASE ResultsDone
  BY <1>14, KindsStay DEF ResultsDone
<1>15. CASE UNCHANGED vars
  BY <1>15, KindsStay DEF vars
<1> QED BY <1>1, <1>2, <1>3, <1>4, <1>5, <1>6, <1>7, <1>8, <1>9, <1>10, <1>11, <1>12, <1>13,
           <1>14, <1>15 DEF Next, Network, ConnectThread, MainThread
-----------------------------------------------------------------------------
(* No end is told twice *)

\* Another entry leaves a queue without doubles, ...
LEMMA OnceAppend ==
  ASSUME NEW S, NEW s \in Seq(S), NEW e \in S, e \notin In(s), Once(s)
  PROVE  Once(Append(s, e))
<1>1. /\ Len(s) \in Nat
      /\ DOMAIN Append(s, e) = 1 .. Len(s) + 1 /\ DOMAIN s = 1 .. Len(s)
      /\ \A k \in 1 .. Len(s) : Append(s, e)[k] = s[k]
      /\ Append(s, e)[Len(s) + 1] = e
  OBVIOUS
<1>2. 1 .. Len(s) + 1 = (1 .. Len(s)) \cup {Len(s) + 1}
  BY <1>1
<1> QED BY <1>1, <1>2 DEF In, Once

\* ... and so does taking one, which is then no longer there.
LEMMA OnceTail ==
  ASSUME NEW S, NEW s \in Seq(S), s # <<>>, Once(s)
  PROVE  Once(Tail(s)) /\ Head(s) \notin In(Tail(s))
<1>1. Tail(s) \in Seq(S) /\ Len(Tail(s)) = Len(s) - 1
      /\ \A k \in 1 .. Len(Tail(s)) : Tail(s)[k] = s[k + 1]
  BY HeadTailProperties
<1>2. Len(s) \in Nat \ {0} /\ DOMAIN s = 1 .. Len(s) /\ DOMAIN Tail(s) = 1 .. Len(s) - 1
  BY <1>1, EmptySeq, LenProperties
<1>3. Head(s) = s[1] /\ 1 \in DOMAIN s
  BY <1>2
<1>4. ASSUME NEW k \in DOMAIN Tail(s)
      PROVE  k \in Nat /\ k + 1 \in DOMAIN s /\ k + 1 # 1 /\ Tail(s)[k] = s[k + 1]
  BY <1>1, <1>2
<1>5. Once(Tail(s))
  <2> SUFFICES ASSUME NEW j \in DOMAIN Tail(s), NEW k \in DOMAIN Tail(s),
                      Tail(s)[j] = Tail(s)[k]
               PROVE  j = k
    BY DEF Once
  <2>1. j + 1 = k + 1
    BY <1>4 DEF Once
  <2> QED BY <1>4, <2>1
<1>6. Head(s) \notin In(Tail(s))
  BY <1>3, <1>4 DEF Once, In
<1> QED BY <1>5, <1>6

LEMMA EndsOnceStep == TypeOK /\ EndsOnce /\ [Next]_vars => EndsOnce'
<1> SUFFICES ASSUME TypeOK, EndsOnce, [Next]_vars PROVE EndsOnce'
  OBVIOUS
<1> USE DEF thread, main, history, netids
<1>0. /\ jobs \in Seq(Conns) /\ batch \in Seq(Conns) /\ told \subseteq Conns
      /\ In(jobs) \subseteq Conns /\ In(batch) \subseteq Conns
      /\ In(jobs)' = In(jobs') /\ In(batch)' = In(batch')
      /\ Once(jobs)' = Once(jobs') /\ Once(batch)' = Once(batch')
  BY LenProperties, ElementOfSeq DEF TypeOK, In, Once
<1>a. ASSUME NEW kind \in {"gate", "client"}, Add(kind), UNCHANGED <<jobs, batch, told>>
      PROVE  EndsOnce'
  <2>1. \A c \in Conns : conns'[c] = conns[c]
    BY <1>a, AddedKind
  <2>2. Untold' = Untold /\ Untold \subseteq Conns
    BY <1>0, <1>a, UntoldIn, UntoldInNext
  <2> QED BY <1>0, <1>a, <2>1, <2>2 DEF EndsOnce
<1>b. ASSUME UNCHANGED <<conns, jobs, batch, told>> PROVE EndsOnce'
  BY <1>b DEF EndsOnce, Untold, In, Once
<1>1. CASE Accept
  BY <1>1, <1>a DEF Accept
<1>2. ASSUME NEW c \in Conns, End(c) PROVE EndsOnce'
  <2>1. /\ conns[c].up /\ jobs' = Append(jobs, c) /\ UNCHANGED <<batch, told>>
    BY <1>2 DEF End
  <2>2. /\ ~conns'[c].up /\ \A d \in Conns \ {c} : conns'[d].up = conns[d].up
    BY <1>2, EndedOnly, EndedKind
  <2>3. In(jobs') = In(jobs) \cup {c}
    BY <1>0, <2>1, InAppend
  <2>4. c \notin told /\ c \notin In(jobs) /\ c \notin In(batch)
    BY <2>1, UntoldIn DEF EndsOnce
  <2>5. Once(jobs')
    BY <1>0, <2>1, <2>4, OnceAppend DEF EndsOnce
  <2>6. Untold' = Untold \cup {c} /\ Untold \subseteq Conns
    BY <1>0, <2>1, <2>3, UntoldIn, UntoldInNext
  <2>7. \A d \in told \cup Untold' : ~conns'[d].up
    BY <1>0, <2>2, <2>6 DEF EndsOnce
  <2>8. told \cap Untold' = {} /\ In(jobs') \cap In(batch) = {}
    BY <2>3, <2>4, <2>6 DEF EndsOnce
  <2> QED BY <1>0, <2>1, <2>5, <2>7, <2>8 DEF EndsOnce
<1>3. CASE PopRequest
  BY <1>3, <1>b DEF PopRequest
<1>4. CASE Connect
  BY <1>4, <1>a DEF Connect
<1>5. CASE ConnectFails
  BY <1>5, <1>b DEF ConnectFails
<1>6. CASE PushResult
  BY <1>6, <1>b DEF PushResult
<1>7. CASE Start
  BY <1>7, <1>b DEF Start
<1>8. CASE Update
  <2>1. batch' = jobs /\ jobs' = <<>> /\ batch = <<>> /\ UNCHANGED <<conns, told>>
    BY <1>8 DEF Update, TypeOK
  <2>2. Untold' = Untold
    BY <2>1, UntoldIn, UntoldInNext, InEmpty
  <2>3. Once(jobs')
    BY <2>1 DEF Once
  <2> QED BY <1>0, <2>1, <2>2, <2>3, InEmpty DEF EndsOnce
<1>9. CASE OnDisconnect
  <2> DEFINE c == Head(batch)
  <2>1. /\ batch # <<>> /\ batch' = Tail(batch) /\ told' = told \cup {c}
        /\ UNCHANGED <<conns, jobs>>
    BY <1>9 DEF OnDisconnect
  <2>2. c \in In(batch) /\ In(batch') \subseteq In(batch)
    BY <1>0, <2>1, InWhole
  <2>3. Once(batch') /\ c \notin In(batch')
    BY <1>0, <2>1, OnceTail DEF EndsOnce
  <2>4. Untold' \subseteq Untold \ {c} /\ c \in Untold
    BY <2>1, <2>2, <2>3, UntoldIn, UntoldInNext DEF EndsOnce
  <2> HIDE DEF c
  <2> QED BY <1>0, <2>1, <2>2, <2>3, <2>4 DEF EndsOnce
<1>10. CASE JobsDone
  BY <1>10, <1>b DEF JobsDone
<1>11. CASE TakeResult
  BY <1>11, <1>b DEF TakeResult
<1>12. CASE OnConnected
  BY <1>12, <1>b DEF OnConnected
<1>13. CASE OnFailed
  BY <1>13, <1>b DEF OnFailed
<1>14. CASE ResultsDone
  BY <1>14, <1>b DEF ResultsDone
<1>15. CASE UNCHANGED vars
  BY <1>15, <1>b DEF vars
<1> QED BY <1>1, <1>2, <1>3, <1>4, <1>5, <1>6, <1>7, <1>8, <1>9, <1>10, <1>11, <1>12, <1>13,
           <1>14, <1>15 DEF Next, Network, ConnectThread, MainThread
-----------------------------------------------------------------------------
(* At most one effort *)

\* The finite sets that are counted, ...
LEMMA FiniteSets ==
  ASSUME NEW S, NEW s \in Seq(S), NEW T, NEW t \in Seq(T), NEW P, P \subseteq DOMAIN s
  PROVE  /\ IsFiniteSet(P) /\ Cardinality(P) \in Nat
         /\ IsFiniteSet(Failed(t)) /\ Cardinality(Failed(t)) \in Nat
<1>1. DOMAIN s = 1 .. Len(s) /\ DOMAIN t = 1 .. Len(t) /\ Len(s) \in Nat /\ Len(t) \in Nat
  BY LenProperties
<1>2. IsFiniteSet(1 .. Len(s)) /\ IsFiniteSet(1 .. Len(t))
  BY <1>1, FS_Interval
<1>3. Failed(t) \subseteq DOMAIN t
  BY DEF Failed
<1>4. IsFiniteSet(P) /\ IsFiniteSet(Failed(t))
  BY <1>1, <1>2, <1>3, FS_Subset
<1> QED BY <1>4, FS_CardinalityType

\* ... and what the parts of the count are, before a step and after it.
LEMMA Counts ==
  ASSUME TypeOK
  PROVE  /\ requests \in Nat /\ Trying \in {0, 1} /\ Learning \in {0, 1}
         /\ IsFiniteSet(Links) /\ Cardinality(Links) \in Nat
         /\ IsFiniteSet(Failed(rets)) /\ Cardinality(Failed(rets)) \in Nat
<1>1. requests \in Nat
  BY LinkAssumption DEF TypeOK
<1>2. conns \in Seq(Conn) /\ rets \in Seq(Conns \cup {None}) /\ Links \subseteq DOMAIN conns
  BY DEF TypeOK, Conn, Links, Conns
<1> QED BY <1>1, <1>2, FiniteSets DEF Trying, Learning

LEMMA CountsNext ==
  ASSUME TypeOK'
  PROVE  /\ requests' \in Nat /\ Trying' \in Nat /\ Learning' \in Nat
         /\ Cardinality(Links') \in Nat /\ Cardinality(Failed(rets')) \in Nat
<1>1. requests' \in Nat
  BY LinkAssumption DEF TypeOK
<1>2. /\ conns' \in Seq(Conn) /\ rets' \in Seq(Conns' \cup {None})
      /\ Links' \subseteq DOMAIN conns'
  BY DEF TypeOK, Conn, Links, Conns
<1> QED BY <1>1, <1>2, FiniteSets DEF Trying, Learning

\* One element more is at most one more to count.
LEMMA OneMore ==
  ASSUME NEW S, IsFiniteSet(S), NEW k, NEW T, T \subseteq S \cup {k}
  PROVE  Cardinality(T) <= Cardinality(S) + 1
<1>1. /\ IsFiniteSet(S \cup {k})
      /\ Cardinality(S \cup {k}) = IF k \in S THEN Cardinality(S) ELSE Cardinality(S) + 1
  BY FS_AddElement
<1>2. Cardinality(S) \in Nat /\ Cardinality(S \cup {k}) \in Nat
  BY <1>1, FS_CardinalityType
<1>3. Cardinality(T) <= Cardinality(S \cup {k}) /\ Cardinality(T) \in Nat
  BY <1>1, FS_Subset, FS_CardinalityType
<1>4. \A a, b, c \in Nat : a <= b /\ b <= c + 1 => a <= c + 1
  OBVIOUS
<1>5. Cardinality(S \cup {k}) <= Cardinality(S) + 1
  BY <1>1, <1>2
<1> QED BY <1>2, <1>3, <1>4, <1>5

\* No result is no failure, ...
LEMMA FailedNone == Failed(<<>>) = {} /\ Cardinality(Failed(<<>>)) = 0
BY FS_EmptySet DEF Failed

\* ... a result more is at most one failure more, ...
LEMMA FailedAppend ==
  ASSUME NEW S, NEW s \in Seq(S), NEW e \in S, IsFiniteSet(Failed(s)), None \in S
  PROVE  /\ e # None => Failed(Append(s, e)) = Failed(s)
         /\ Cardinality(Failed(Append(s, e))) <= Cardinality(Failed(s)) + 1
<1>1. /\ Len(s) \in Nat
      /\ DOMAIN Append(s, e) = 1 .. Len(s) + 1 /\ DOMAIN s = 1 .. Len(s)
      /\ \A k \in 1 .. Len(s) : Append(s, e)[k] = s[k]
      /\ Append(s, e)[Len(s) + 1] = e
  OBVIOUS
<1>2. 1 .. Len(s) + 1 = (1 .. Len(s)) \cup {Len(s) + 1}
  BY <1>1
<1>3. Failed(Append(s, e)) = IF e = None THEN Failed(s) \cup {Len(s) + 1} ELSE Failed(s)
  BY <1>1, <1>2 DEF Failed
<1>4. Cardinality(Failed(s)) \in Nat
  BY FS_CardinalityType
<1>5. Cardinality(Failed(s) \cup {Len(s) + 1}) <= Cardinality(Failed(s)) + 1
  BY OneMore
<1>6. CASE e = None
  BY <1>3, <1>5, <1>6
<1>7. CASE e # None
  BY <1>3, <1>4, <1>7
<1> QED BY <1>6, <1>7

\* ... and a failure taken is one less.
LEMMA FailedTail ==
  ASSUME NEW S, NEW s \in Seq(S), s # <<>>, IsFiniteSet(Failed(s))
  PROVE  Cardinality(Failed(Tail(s)))
           <= Cardinality(Failed(s)) - (IF Head(s) = None THEN 1 ELSE 0)
<1>1. /\ Len(s) \in Nat \ {0} /\ DOMAIN s = 1 .. Len(s) /\ Tail(s) \in Seq(S)
      /\ Len(Tail(s)) = Len(s) - 1 /\ \A k \in 1 .. Len(Tail(s)) : Tail(s)[k] = s[k + 1]
      /\ DOMAIN Tail(s) = 1 .. Len(Tail(s))
  BY HeadTailProperties, EmptySeq, LenProperties
<1>2. Head(s) = s[1] /\ 1 \in DOMAIN s
  BY <1>1
<1>3. \A k \in DOMAIN Tail(s) :
        k \in Nat /\ k >= 1 /\ k + 1 \in DOMAIN s /\ Tail(s)[k] = s[k + 1]
  BY <1>1
<1> DEFINE f == [k \in Failed(Tail(s)) |-> k + 1]
<1>4. f \in Injection(Failed(Tail(s)), Failed(s) \ {1})
  <2>1. \A k \in Failed(Tail(s)) : k \in Nat /\ k + 1 \in Failed(s) \ {1}
    BY <1>3 DEF Failed
  <2>2. f \in [Failed(Tail(s)) -> Failed(s) \ {1}]
    BY <2>1
  <2>3. \A j \in Failed(Tail(s)), k \in Failed(Tail(s)) : f[j] = f[k] => j = k
    BY <2>1
  <2> QED BY <2>2, <2>3 DEF Injection, IsInjective
<1> HIDE DEF f
<1>5. /\ IsFiniteSet(Failed(s) \ {1})
      /\ Cardinality(Failed(s) \ {1})
           = IF 1 \in Failed(s) THEN Cardinality(Failed(s)) - 1 ELSE Cardinality(Failed(s))
  BY FS_RemoveElement
<1>6. Cardinality(Failed(Tail(s))) <= Cardinality(Failed(s) \ {1})
  BY <1>4, <1>5, FS_Injection
<1>7. 1 \in Failed(s) <=> Head(s) = None
  BY <1>2 DEF Failed
<1> QED
  <2>1. CASE Head(s) = None
    BY <1>5, <1>6, <1>7, <2>1
  <2>2. CASE Head(s) # None
    <3>1. Cardinality(Failed(s)) \in Nat
      BY FS_CardinalityType
    <3> QED BY <1>5, <1>6, <1>7, <2>2, <3>1
  <2> QED BY <2>1, <2>2

\* The links stay the same while no connection is made and none told to be gone.
LEMMA LinksStay ==
  ASSUME UNCHANGED <<conns, told>>
  PROVE  Links' = Links
BY DEF Links, Conns

\* Before start() nothing can come about.
LEMMA UnstartedStep == TypeOK /\ Unstarted /\ [Next]_vars => Unstarted'
<1> SUFFICES ASSUME TypeOK, Unstarted, [Next]_vars, mpc' = "start" PROVE Unstarted'
  BY DEF Unstarted
<1> USE DEF thread, main, history, netids
<1>1. CASE Accept
  <2>1. /\ conns'[Len(conns')].kind = "client" /\ Conns' = Conns \cup {Len(conns')}
        /\ \A c \in Conns : conns'[c] = conns[c]
    BY <1>1, AddedKind DEF Accept
  <2>2. Links' = Links
    BY <1>1, <2>1 DEF Accept, Links
  <2> QED BY <1>1, <2>2 DEF Accept, Unstarted
<1>2. ASSUME NEW c \in Conns, End(c) PROVE Unstarted'
  <2>1. Conns' = Conns /\ \A d \in Conns : conns'[d].kind = conns[d].kind
    BY <1>2, EndedKind
  <2>2. Links' = Links
    BY <1>2, <2>1 DEF End, Links
  <2> QED BY <1>2, <2>2 DEF End, Unstarted
<1>3. ~PopRequest /\ ~Connect /\ ~ConnectFails /\ ~PushResult
  <2>1. CASE mpc = "start"
    BY <2>1 DEF Unstarted, PopRequest, Connect, ConnectFails, PushResult
  <2>2. CASE mpc # "start"
    BY <2>2 DEF PopRequest, Connect, ConnectFails, PushResult
  <2> QED BY <2>1, <2>2
<1>4. ~Start /\ ~Update /\ ~OnDisconnect /\ ~JobsDone /\ ~TakeResult /\ ~OnConnected
      /\ ~OnFailed /\ ~ResultsDone
  BY DEF Start, Update, OnDisconnect, JobsDone, TakeResult, OnConnected, OnFailed, ResultsDone
<1>5. CASE UNCHANGED vars
  BY <1>5, LinksStay DEF vars, Unstarted
<1> QED BY <1>1, <1>2, <1>3, <1>4, <1>5 DEF Next, Network, ConnectThread, MainThread

\* What connectAsyn() adds.
LEMMA AskedOnce ==
  ASSUME TypeOK, ConnectAsyn
  PROVE  requests' <= requests + 1
BY Counts DEF ConnectAsyn

\* Every step that makes one effort uses up another.
LEMMA EffortStep == EInv /\ [Next]_vars => OneEffort'
<1> SUFFICES ASSUME EInv, [Next]_vars, ~mistaken' PROVE Efforts'
  BY DEF OneEffort
<1> USE DEF thread, main, history, netids
<1>0. TypeOK /\ TypeOK'
  BY TypeStep DEF EInv
<1>n. /\ requests \in Nat /\ Gates \in Nat /\ Trying \in {0, 1} /\ Failures \in Nat
      /\ Learning \in {0, 1}
      /\ requests' \in Nat /\ Gates' \in Nat /\ Trying' \in {0, 1} /\ Failures' \in Nat
      /\ Learning' \in {0, 1}
  <2>1. Failures' = Cardinality(Failed(rets')) /\ Gates' = Cardinality(Links')
    BY DEF Failed, Failures, Gates
  <2>2. /\ requests \in Nat /\ Gates \in Nat /\ Failures \in Nat
        /\ requests' \in Nat /\ Gates' \in Nat /\ Failures' \in Nat
    BY <1>0, <2>1, Counts, CountsNext DEF Gates, Failures
  <2>3. /\ Trying \in {0, 1} /\ Trying' \in {0, 1}
        /\ Learning \in {0, 1} /\ Learning' \in {0, 1}
    BY DEF Trying, Learning
  <2> QED BY <2>2, <2>3
<1>a. /\ IsFiniteSet(Links) /\ IsFiniteSet(Failed(rets)) /\ rets \in Seq(Conns \cup {None})
      /\ made \in Conns \cup {None} /\ None \notin Conns
  <2>1. Conns \subseteq Nat
    BY LenProperties, SMTT(20) DEF EInv, TypeOK, Conns
  <2> QED BY <2>1, Counts, LinkAssumption DEF EInv, TypeOK
<1>b. AtMostOne(requests, Gates, Trying, Failures, Learning)
  <2>1. ~mistaken
    BY DEF Next, Network, ConnectThread, MainThread, vars, Accept, End, PopRequest, Connect,
           ConnectFails, PushResult, Start, Update, OnDisconnect, JobsDone, TakeResult,
           OnConnected, OnFailed, ResultsDone
  <2> QED BY <2>1 DEF EInv, OneEffort, Efforts
<1>c. Efforts' <=> AtMostOne(requests', Gates', Trying', Failures', Learning')
  BY DEF Efforts, AtMostOne
<1>d. ASSUME UNCHANGED <<conns, told>> PROVE Gates' = Gates
  BY <1>d, LinksStay DEF Gates
<1>e. ASSUME UNCHANGED rets PROVE Failures' = Failures
  BY <1>e DEF Failed, Failures
<1>1. CASE Accept
  <2>1. /\ conns'[Len(conns')].kind = "client" /\ Conns' = Conns \cup {Len(conns')}
        /\ \A c \in Conns : conns'[c] = conns[c]
    BY <1>0, <1>1, AddedKind DEF Accept
  <2>2. Links' = Links
    BY <1>1, <2>1 DEF Accept, Links
  <2>3. Gates' = Gates /\ Failures' = Failures /\ requests' = requests /\ Trying' = Trying /\ Learning' = Learning
    BY <1>1, <1>e, <2>2 DEF Accept, Trying, Learning, Gates
  <2> QED BY <1>n, <1>b, <1>c, <2>3 DEF AtMostOne
<1>2. ASSUME NEW c \in Conns, End(c) PROVE Efforts'
  <2>1. Conns' = Conns /\ \A d \in Conns : conns'[d].kind = conns[d].kind
    BY <1>0, <1>2, EndedKind
  <2>2. Links' = Links
    BY <1>2, <2>1 DEF End, Links
  <2>3. Gates' = Gates /\ Failures' = Failures /\ requests' = requests /\ Trying' = Trying /\ Learning' = Learning
    BY <1>2, <1>e, <2>2 DEF End, Trying, Learning, Gates
  <2> QED BY <1>n, <1>b, <1>c, <2>3 DEF AtMostOne
<1>3. CASE PopRequest
  <2>1. /\ requests' = requests - 1 /\ Trying = 0 /\ Learning' = Learning
        /\ UNCHANGED <<conns, told, rets>>
    BY <1>3 DEF PopRequest, Trying, Learning
  <2> QED BY <1>n, <1>b, <1>c, <1>d, <1>e, <2>1 DEF AtMostOne
<1>4. CASE Connect
  <2>1. /\ conns'[Len(conns')].kind = "gate" /\ Conns' = Conns \cup {Len(conns')}
        /\ \A c \in Conns : conns'[c] = conns[c]
        /\ told' = told /\ made' = Len(conns') /\ Len(conns') \in Conns'
    BY <1>0, <1>4, AddedKind DEF Connect
  <2>2. Links' \subseteq Links \cup {Len(conns')}
    BY <2>1 DEF Links
  <2>3. Gates' <= Gates + 1
    <3>1. Gates' = Cardinality(Links')
      BY DEF Gates
    <3> QED BY <1>a, <2>2, <3>1, OneMore DEF Gates
  <2>4. made' # None
    <3>1. Conns' \subseteq Nat
      <4>1. conns' \in Seq(Conn)
        BY <1>0 DEF TypeOK, Conn
      <4>2. DOMAIN conns' = 1 .. Len(conns')
        BY <4>1, LenProperties
      <4> QED BY <4>2 DEF Conns
    <3> QED BY <2>1, <3>1, LinkAssumption
  <2>5. Trying = 1 /\ Trying' = 0 /\ Learning' = Learning /\ UNCHANGED <<requests, rets>>
    BY <1>4, <2>4 DEF Connect, Trying, Learning
  <2> QED BY <1>n, <1>b, <1>c, <1>e, <2>3, <2>5 DEF AtMostOne
<1>5. CASE ConnectFails
  <2>1. Trying = 1 /\ Trying' = 1 /\ Learning' = Learning
        /\ UNCHANGED <<conns, told, requests, rets>>
    BY <1>5 DEF ConnectFails, Trying, Learning
  <2> QED BY <1>n, <1>b, <1>c, <1>d, <1>e, <2>1 DEF AtMostOne
<1>6. CASE PushResult
  <2>1. /\ cpc = "push" /\ rets' = Append(rets, made) /\ cpc' = "pop"
        /\ Learning' = Learning /\ UNCHANGED <<conns, told, requests>>
    BY <1>6 DEF PushResult, Learning
  <2>2. Trying' = 0 /\ (Trying = IF made = None THEN 1 ELSE 0)
    BY <2>1 DEF Trying
  <2>3. Failures' <= Failures + Trying
    <3>1. Failures' = Cardinality(Failed(Append(rets, made)))
      BY <2>1 DEF Failed, Failures
    <3>2. /\ made # None => Failed(Append(rets, made)) = Failed(rets)
          /\ Cardinality(Failed(Append(rets, made))) <= Failures + 1
      BY <1>a, FailedAppend DEF Failures
    <3>3. CASE made = None
      BY <2>2, <3>1, <3>2, <3>3
    <3>4. CASE made # None
      <4>1. Failures' = Failures
        BY <3>1, <3>2, <3>4 DEF Failures
      <4> QED BY <1>n, <2>2, <3>4, <4>1
    <3> QED BY <3>3, <3>4
  <2> QED BY <1>n, <1>b, <1>c, <1>d, <2>1, <2>2, <2>3 DEF AtMostOne
<1>7. CASE Start
  <2>1. /\ mpc = "start" /\ mpc' = "wait" /\ requests' <= requests + 1
        /\ UNCHANGED <<conns, told, rets, cpc, made>>
    BY <1>0, <1>7, AskedOnce DEF Start
  <2>2. requests = 0 /\ Gates = 0 /\ Failures = 0 /\ Trying = 0
    BY <2>1, FailedNone, FS_EmptySet DEF EInv, Unstarted, Trying, Gates, Failures
  <2>3. Trying' = Trying /\ Learning' = 0
    BY <2>1 DEF Trying, Learning
  <2> QED BY <1>n, <1>b, <1>c, <1>d, <1>e, <2>1, <2>2, <2>3 DEF AtMostOne
<1>8. CASE Update
  <2>1. Trying' = Trying /\ Learning' = Learning
        /\ UNCHANGED <<conns, told, requests, rets>>
    BY <1>8 DEF Update, Trying, Learning
  <2> QED BY <1>n, <1>b, <1>c, <1>d, <1>e, <2>1 DEF AtMostOne
<1>9. CASE OnDisconnect
  <2> DEFINE c == Head(batch)
             hit == conns[c].netid = m_gateid
  <2>1. /\ batch # <<>> /\ told' = told \cup {c} /\ mpc = "jobs"
        /\ UNCHANGED <<conns, rets, cpc, made, mpc, cs>>
        /\ IF hit THEN ConnectAsyn ELSE NoConnectAsyn
        /\ hit => c = gate
    BY <1>9 DEF OnDisconnect
  <2>2. Links' = Links \ {c}
    BY <2>1 DEF Links, Conns
  <2>3. Gates' = IF c \in Links THEN Gates - 1 ELSE Gates
    BY <1>a, <2>2, FS_RemoveElement DEF Gates
  <2>4. Trying' = Trying /\ Learning' = Learning
    BY <2>1 DEF Trying, Learning
  <2>5. CASE hit
    <3>1. c \in In(batch) /\ c \in Conns
      <4>1. batch \in Seq(Conns)
        BY <1>0 DEF TypeOK
      <4> QED BY <2>1, <4>1, InWhole, InTail
    <3>2. c \notin told
      BY <3>1, UntoldIn DEF EInv, EndsOnce
    <3>3. conns[c].kind = "gate"
      BY <1>a, <2>1, <2>5, <3>1 DEF EInv, GateKinds
    <3>4. Gates' = Gates - 1
      BY <2>3, <3>1, <3>2, <3>3 DEF Links
    <3>5. requests' <= requests + 1
      BY <1>0, <2>1, <2>5, AskedOnce
    <3> QED BY <1>n, <1>b, <1>c, <1>e, <2>1, <2>4, <3>4, <3>5 DEF AtMostOne
  <2>6. CASE ~hit
    <3>1. requests' = requests
      BY <2>1, <2>6 DEF NoConnectAsyn
    <3>2. Gates' <= Gates
      BY <1>n, <2>3
    <3> QED BY <1>n, <1>b, <1>c, <1>e, <2>1, <2>4, <3>1, <3>2 DEF AtMostOne
  <2> QED BY <2>5, <2>6
<1>10. CASE JobsDone
  <2>1. Trying' = Trying /\ Learning' = Learning
        /\ UNCHANGED <<conns, told, requests, rets>>
    BY <1>10 DEF JobsDone, Trying, Learning
  <2> QED BY <1>n, <1>b, <1>c, <1>d, <1>e, <2>1 DEF AtMostOne
<1>11. CASE TakeResult
  <2>1. /\ mpc = "results" /\ rets # <<>> /\ rets' = Tail(rets) /\ cs' = Head(rets)
        /\ mpc' = "onConnect" /\ UNCHANGED <<conns, told, requests, cpc, made>>
    BY <1>11 DEF TakeResult
  <2>2. Failures' <= Failures - (IF Head(rets) = None THEN 1 ELSE 0)
    <3>1. Failures' = Cardinality(Failed(Tail(rets)))
      BY <2>1 DEF Failed, Failures
    <3> QED BY <1>a, <2>1, <3>1, FailedTail DEF Failures
  <2>3. Learning = 0 /\ (Learning' = IF Head(rets) = None THEN 1 ELSE 0)
    BY <2>1 DEF Learning
  <2>4. Trying' = Trying
    BY <2>1 DEF Trying
  <2>5. CASE Head(rets) = None
    BY <1>n, <1>b, <1>c, <1>d, <2>1, <2>2, <2>3, <2>4, <2>5 DEF AtMostOne
  <2>6. CASE Head(rets) # None
    BY <1>n, <1>b, <1>c, <1>d, <2>1, <2>2, <2>3, <2>4, <2>6 DEF AtMostOne
  <2> QED BY <2>5, <2>6
<1>12. CASE OnConnected
  <2>1. Trying' = Trying /\ Learning = 0 /\ Learning' = 0
        /\ UNCHANGED <<conns, told, requests, rets>>
    BY <1>12 DEF OnConnected, Trying, Learning
  <2> QED BY <1>n, <1>b, <1>c, <1>d, <1>e, <2>1 DEF AtMostOne
<1>13. CASE OnFailed
  <2>1. Trying' = Trying /\ Learning = 1 /\ Learning' = 0 /\ UNCHANGED <<conns, told, rets>>
    BY <1>13 DEF OnFailed, Trying, Learning
  <2>2. requests' <= requests + 1
    BY <1>0, <1>13, AskedOnce DEF OnFailed
  <2> QED BY <1>n, <1>b, <1>c, <1>d, <1>e, <2>1, <2>2 DEF AtMostOne
<1>14. CASE ResultsDone
  <2>1. Trying' = Trying /\ Learning' = Learning
        /\ UNCHANGED <<conns, told, requests, rets>>
    BY <1>14 DEF ResultsDone, Trying, Learning
  <2> QED BY <1>n, <1>b, <1>c, <1>d, <1>e, <2>1 DEF AtMostOne
<1>15. CASE UNCHANGED vars
  <2>1. Trying' = Trying /\ Learning' = Learning
        /\ UNCHANGED <<conns, told, requests, rets>>
    BY <1>15 DEF vars, Trying, Learning
  <2> QED BY <1>n, <1>b, <1>c, <1>d, <1>e, <2>1 DEF AtMostOne
<1> QED BY <1>1, <1>2, <1>3, <1>4, <1>5, <1>6, <1>7, <1>8, <1>9, <1>10, <1>11, <1>12, <1>13,
           <1>14, <1>15 DEF Next, Network, ConnectThread, MainThread

\* There is at most one effort for a link at any time, as long as no other connection's
\* end was taken for the link's.
THEOREM Effort == Spec => []EInv
<1>1. Init => EInv
  <2> SUFFICES ASSUME Init PROVE EInv
    OBVIOUS
  <2>1. Conns = {} /\ Links = {} /\ In(rets) = {} /\ Untold = {} /\ Failed(rets) = {}
    BY DEF Init, Conns, Links, In, Untold, Failed
  <2>2. Cardinality({}) = 0
    BY FS_EmptySet
  <2>3. Trying = 0 /\ Learning = 0
    BY DEF Init, Trying, Learning
  <2>4. OneEffort
    BY <2>1, <2>2, <2>3 DEF Init, OneEffort, Efforts, AtMostOne, Gates, Failures
  <2>5. GateKinds /\ Unstarted
    BY <2>1 DEF Init, GateKinds, Unstarted
  <2>6. EndsOnce
    BY <2>1 DEF Init, EndsOnce, Once, In
  <2> QED BY <2>4, <2>5, <2>6, InitType DEF EInv
<1>2. EInv /\ [Next]_vars => EInv'
  BY TypeStep, KindsStep, UnstartedStep, EndsOnceStep, EffortStep DEF EInv
<1> QED BY <1>1, <1>2, PTL DEF Spec

\* There is never more than one link to the gate server, made or in the making, unless
\* the end of another connection was taken for the end of the link.
THEOREM NeverTwo == Spec => []OneLink
<1>1. EInv => OneLink
  <2> SUFFICES ASSUME EInv, ~mistaken PROVE Pending <= 1
    BY DEF OneLink
  <2> DEFINE Up == {c \in Conns : conns[c].kind = "gate" /\ conns[c].up}
  <2>1. Up \in SUBSET Links
    BY DEF EInv, EndsOnce, Links
  <2>2. /\ requests \in Nat /\ Trying \in {0, 1} /\ Learning \in {0, 1}
        /\ IsFiniteSet(Links) /\ Cardinality(Links) \in Nat
        /\ Cardinality(Failed(rets)) \in Nat
    BY Counts DEF EInv
  <2>3. Cardinality(Up) <= Cardinality(Links) /\ Cardinality(Up) \in Nat
    BY <2>1, <2>2, FS_Subset, FS_CardinalityType
  <2>4. AtMostOne(requests, Gates, Trying, Failures, Learning)
    BY DEF EInv, OneEffort, Efforts
  <2>5. Pending = requests + Cardinality(Up) + Trying + Failures + Learning
    BY DEF Pending, Trying, Learning, Failed, Failures
  <2> HIDE DEF Up
  <2>6. Gates = 0 => Cardinality(Up) = 0
    BY <2>3 DEF Gates
  <2>7. Gates \in {0, 1} => Cardinality(Up) \in {0, 1}
    BY <2>3 DEF Gates
  <2> QED BY <2>4, <2>5, <2>6, <2>7 DEF AtMostOne
<1> QED BY <1>1, Effort, PTL
=============================================================================
