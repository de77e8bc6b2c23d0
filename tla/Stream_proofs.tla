---------------------------- MODULE Stream_proofs ----------------------------
(***************************************************************************)
(* Proofs about Stream, for any sizes of the buffers and of the network    *)
(* and any lengths: the types hold for every network; if a length that     *)
(* comes behind other bytes comes whole, the receiver uses only what it    *)
(* got, what it tells are the messages that were sent, and no byte is      *)
(* lost, doubled or moved between the two.                                 *)
(*                                                                         *)
(* TypeInv is inductive by itself.  ChainInv says that the bytes between   *)
(* send() and the messages told follow one another (Follows), from where   *)
(* the last message told ends to where the last one sent ends; so the      *)
(* first byte to be read is always the one the receiver takes it for.      *)
(* EquationInv is BytesInOrder without the places where the bytes are.     *)
(***************************************************************************)
EXTENDS Stream, TLAPS, WellFoundedInduction, SequenceTheorems
-----------------------------------------------------------------------------
(* Numbers and sequences *)

\* A set of numbers that is not empty has a smallest one.
LEMMA Smallest ==
  ASSUME NEW T \in SUBSET Nat, T # {}
  PROVE  \E x \in T : \A y \in T : x <= y
<1> DEFINE R == {ss \in Nat \X Nat : ss[1] < ss[2]}
<1>1. IsWellFoundedOn(R, Nat)
  BY NatLessThanWellFounded, Zenon DEF OpToRel
<1> HIDE DEF R
<1>2. \E x \in T : \A y \in T : ~(<<y, x>> \in R)
  BY <1>1, WFMin
<1>3. PICK x \in T : \A y \in T : ~(<<y, x>> \in R)
  BY <1>2
<1>4. ASSUME NEW y \in T PROVE x <= y
  <2>1. x \in Nat /\ y \in Nat
    OBVIOUS
  <2>2. ~(y < x)
    <3>1. <<y, x>> \in Nat \X Nat /\ <<y, x>>[1] = y /\ <<y, x>>[2] = x
      BY <2>1
    <3> QED
      BY <1>3, <3>1, Zenon DEF R
  <2> QED
    BY <2>1, <2>2
<1> QED
  BY <1>4

\* Induction between two bounds.
LEMMA Upwards ==
  ASSUME NEW k \in Nat, NEW n \in Nat, NEW T, k \in T,
         \A i \in k .. n - 1 : i \in T => i + 1 \in T
  PROVE  \A i \in k .. n : i \in T
<1> DEFINE Fails == {i \in Nat : i \in k .. n /\ i \notin T}
<1> SUFFICES ASSUME Fails # {} PROVE FALSE
  OBVIOUS
<1>1. PICK i \in Fails : \A j \in Fails : i <= j
  <2> Fails \in SUBSET Nat
    OBVIOUS
  <2> HIDE DEF Fails
  <2> QED BY Smallest
<1>2. i \in Nat /\ i \in k .. n /\ i \notin T /\ i # k
  BY <1>1
<1>3. i - 1 \in k .. n - 1 /\ i - 1 \in Nat /\ i - 1 \in k .. n /\ i - 1 + 1 = i
  BY <1>2
<1>4. i - 1 \in T
  <2>1. i - 1 \notin Fails
    BY <1>1, <1>3
  <2> QED BY <1>3, <2>1
<1> QED BY <1>2, <1>3, <1>4

\* f is the recursion that begins with a and goes on by step, up to m.
Solves(f, m, a, step) ==
  f[0] = a /\ \A i \in 1 .. m : f[i] = step[<<i, f[i - 1]>>]

\* A recursion over the numbers up to n has a solution.
LEMMA Recursion ==
  ASSUME NEW n \in Nat, NEW S, NEW a \in S, NEW step \in [(1 .. n) \X S -> S]
  PROVE  \E f \in [0 .. n -> S] : Solves(f, n, a, step)
<1> DEFINE T == {m \in Nat : \E f \in [0 .. m -> S] : Solves(f, m, a, step)}
<1> USE DEF Solves
<1>1. 0 \in T
  <2> DEFINE f == [i \in 0 .. 0 |-> a]
  <2>1. f \in [0 .. 0 -> S] /\ Solves(f, 0, a, step)
    OBVIOUS
  <2> QED BY <2>1
<1>2. ASSUME NEW m \in 0 .. n - 1, m \in T PROVE m + 1 \in T
  <2>1. PICK f \in [0 .. m -> S] : Solves(f, m, a, step)
    BY <1>2
  <2> DEFINE e == step[<<m + 1, f[m]>>]
             g == [i \in 0 .. m + 1 |-> IF i = m + 1 THEN e ELSE f[i]]
  <2>2. e \in S
    <3>1. <<m + 1, f[m]>> \in (1 .. n) \X S
      OBVIOUS
    <3> QED BY <3>1
  <2>3. /\ \A i \in 0 .. m : g[i] = f[i]
        /\ g[m + 1] = e
        /\ g \in [0 .. m + 1 -> S]
    <3>1. \A i \in 0 .. m : i \in 0 .. m + 1 /\ i # m + 1
      OBVIOUS
    <3>2. m + 1 \in 0 .. m + 1 /\ \A i \in 0 .. m + 1 : i = m + 1 \/ i \in 0 .. m
      OBVIOUS
    <3> HIDE DEF e
    <3> QED BY <2>2, <3>1, <3>2
  <2> HIDE DEF g
  <2>4. g[0] = a
    <3>1. 0 \in 0 .. m
      OBVIOUS
    <3> QED BY <2>1, <2>3, <3>1
  <2>5. ASSUME NEW i \in 1 .. m + 1 PROVE g[i] = step[<<i, g[i - 1]>>]
    <3>1. CASE i = m + 1
      <4>1. i - 1 = m /\ m \in 0 .. m
        BY <3>1
      <4> QED BY <2>3, <3>1, <4>1
    <3>2. CASE i # m + 1
      <4>1. i \in 1 .. m /\ i \in 0 .. m /\ i - 1 \in 0 .. m
        BY <3>2
      <4> QED BY <2>1, <2>3, <4>1
    <3> QED BY <3>1, <3>2
  <2>6. Solves(g, m + 1, a, step) /\ m + 1 \in Nat
    BY <2>4, <2>5
  <2> QED BY <2>3, <2>6
<1> HIDE DEF T
<1>3. \A m \in 0 .. n : m \in T
  BY <1>1, <1>2, Upwards
<1>4. n \in T
  BY <1>3
<1> QED BY <1>4 DEF T

\* A sequence is its two parts.
LEMMA TwoParts ==
  ASSUME NEW S, NEW s \in Seq(S), NEW a \in 0 .. Len(s), NEW n \in a .. Len(s)
  PROVE  /\ SubSeq(s, a + 1, n) \in Seq(S) /\ SubSeq(s, n + 1, Len(s)) \in Seq(S)
         /\ Len(SubSeq(s, a + 1, n)) = n - a
         /\ Len(SubSeq(s, n + 1, Len(s))) = Len(s) - n
         /\ \A i \in 1 .. n - a : SubSeq(s, a + 1, n)[i] = s[a + i]
         /\ SubSeq(s, a + 1, Len(s)) = SubSeq(s, a + 1, n) \o SubSeq(s, n + 1, Len(s))
<1>1. Len(s) \in Nat /\ \A i \in 1 .. Len(s) : s[i] \in S
  BY LenProperties, ElementOfSeq
<1> DEFINE len == Len(s)
<1>2. len \in Nat
  BY <1>1
<1>3. SubSeq(s, a + 1, n) \o SubSeq(s, n + 1, len) = SubSeq(s, a + 1, len)
  <2>1. a + 1 \in 1 .. Len(s) + 1 /\ n \in (a + 1) - 1 .. Len(s) /\ len \in n .. Len(s)
    BY <1>1
  <2> QED BY <2>1, ConcatAdjacentSubSeq
<1>4. /\ SubSeq(s, a + 1, n) \in Seq(S)
      /\ Len(SubSeq(s, a + 1, n)) = n - a
      /\ \A i \in 1 .. n - a : SubSeq(s, a + 1, n)[i] = s[a + i]
  <2> DEFINE m == a + 1
  <2>1. m \in Int /\ n \in Int /\ \A i \in m .. n : s[i] \in S
    BY <1>1
  <2>2. n - m + 1 = n - a /\ (~(m <= n) => n - a = 0) /\ \A i \in 1 .. n - a : m + i - 1 = a + i
    BY <1>1
  <2> HIDE DEF m
  <2>3. /\ SubSeq(s, m, n) \in Seq(S)
        /\ Len(SubSeq(s, m, n)) = IF m <= n THEN n - m + 1 ELSE 0
        /\ \A i \in 1 .. n - m + 1 : SubSeq(s, m, n)[i] = s[m + i - 1]
    BY <2>1, SubSeqProperties
  <2>4. \A i \in 1 .. n - a : SubSeq(s, m, n)[i] = s[a + i]
    BY <2>2, <2>3
  <2> QED BY <2>2, <2>3, <2>4 DEF m
<1>5. SubSeq(s, n + 1, len) \in Seq(S) /\ Len(SubSeq(s, n + 1, len)) = len - n
  <2> DEFINE m == n + 1
  <2>1. m \in Int /\ len \in Int /\ \A i \in m .. len : s[i] \in S
    BY <1>1
  <2>2. (m <= len => len - m + 1 = len - n) /\ (~(m <= len) => len - n = 0)
    BY <1>1
  <2> HIDE DEF m, len
  <2>3. /\ SubSeq(s, m, len) \in Seq(S)
        /\ Len(SubSeq(s, m, len)) = IF m <= len THEN len - m + 1 ELSE 0
    BY <2>1, SubSeqProperties
  <2> QED BY <2>2, <2>3 DEF m
<1> QED BY <1>3, <1>4, <1>5

\* The two parts joined.
LEMMA PartsJoined ==
  ASSUME NEW S, NEW s \in Seq(S), NEW a \in 0 .. Len(s), NEW n \in a .. Len(s)
  PROVE  SubSeq(s, a + 1, Len(s)) = SubSeq(s, a + 1, n) \o SubSeq(s, n + 1, Len(s))
BY ONLY TwoParts, s \in Seq(S), a \in 0 .. Len(s), n \in a .. Len(s)

\* Joined one after the other.
IsFlat(f, seqs) ==
  f = [i \in 1 .. Len(seqs) |-> IF i = 1 THEN seqs[i] ELSE f[i - 1] \o seqs[i]]

Flattens(f, seqs) ==
  \A i \in 1 .. Len(seqs) : f[i] = IF i = 1 THEN seqs[i] ELSE f[i - 1] \o seqs[i]

\* FlattenSeq of the community modules has a value: a solution of its recursion,
\* built up to the number of the sequences, whichever of them CHOOSE takes.
LEMMA FlattenSteps ==
  ASSUME NEW S, NEW seqs \in Seq(Seq(S)), Len(seqs) # 0
  PROVE  \E f : /\ \A i \in 1 .. Len(seqs) : f[i] \in Seq(S)
                /\ Flattens(f, seqs)
                /\ FlattenSeq(seqs) = f[Len(seqs)]
<1> DEFINE n == Len(seqs)
           step == [x \in (1 .. n) \X Seq(S) |-> x[2] \o seqs[x[1]]]
<1>1. n \in Nat /\ n # 0 /\ \A i \in 1 .. n : seqs[i] \in Seq(S)
  BY LenProperties, ElementOfSeq
<1> HIDE DEF n
<1>2. step \in [(1 .. n) \X Seq(S) -> Seq(S)]
  <2>1. \A x \in (1 .. n) \X Seq(S) : x[2] \o seqs[x[1]] \in Seq(S)
    BY <1>1, ConcatProperties
  <2> QED BY <2>1
<1>3. \A i \in 1 .. n, s \in Seq(S) : step[<<i, s>>] = s \o seqs[i]
  OBVIOUS
<1> HIDE DEF step
<1>4. PICK g \in [0 .. n -> Seq(S)] : Solves(g, n, <<>>, step)
  BY <1>1, <1>2, EmptySeq, Recursion
<1> DEFINE f == [i \in 1 .. n |-> g[i]]
<1>5. \A i \in 1 .. n : i \in 0 .. n /\ i - 1 \in 0 .. n /\ (i # 1 => i - 1 \in 1 .. n)
  BY <1>1
<1>6. \A i \in 1 .. n : g[i] = g[i - 1] \o seqs[i]
  <2> TAKE i \in 1 .. n
  <2>1. g[i - 1] \in Seq(S)
    BY <1>4, <1>5
  <2> QED BY <1>3, <1>4, <2>1 DEF Solves
<1>7. ASSUME NEW i \in 1 .. n
      PROVE  f[i] = IF i = 1 THEN seqs[i] ELSE f[i - 1] \o seqs[i]
  <2>1. CASE i = 1
    <3>1. g[1 - 1] = <<>>
      BY <1>4 DEF Solves
    <3>2. g[1] = <<>> \o seqs[1]
      BY <1>6, <2>1, <3>1
    <3>3. <<>> \o seqs[1] = seqs[1]
      BY <1>1, <2>1, ConcatEmptySeq
    <3> QED BY <2>1, <3>2, <3>3
  <2>2. CASE i # 1
    BY <1>5, <1>6, <2>2
  <2> QED BY <2>1, <2>2
<1>8. IsFlat(f, seqs)
  <2>1. f = [i \in 1 .. n |-> f[i]]
    OBVIOUS
  <2> HIDE DEF f
  <2>2. [i \in 1 .. n |-> f[i]] = [i \in 1 .. n |-> IF i = 1 THEN seqs[i] ELSE f[i - 1] \o seqs[i]]
    BY <1>7
  <2>3. f = [i \in 1 .. n |-> IF i = 1 THEN seqs[i] ELSE f[i - 1] \o seqs[i]]
    BY <2>1, <2>2
  <2> QED BY <2>3 DEF IsFlat, n
<1> HIDE DEF f
<1> DEFINE h == CHOOSE f1 : IsFlat(f1, seqs)
<1>9. IsFlat(h, seqs)
  BY <1>8
<1>10. FlattenSeq(seqs) = h[n]
  BY <1>1 DEF FlattenSeq, IsFlat, n
<1> HIDE DEF h
<1>11. Flattens(h, seqs)
  <2>1. h = [i \in 1 .. n |-> IF i = 1 THEN seqs[i] ELSE h[i - 1] \o seqs[i]]
    BY <1>9 DEF IsFlat, n
  <2>2. \A i \in 1 .. n : h[i] = IF i = 1 THEN seqs[i] ELSE h[i - 1] \o seqs[i]
    BY <2>1
  <2> QED BY <2>2 DEF Flattens, n
<1>12. \A i \in 1 .. n : h[i] \in Seq(S)
  <2> DEFINE T == {i \in 1 .. n : h[i] \in Seq(S)}
  <2>1. 1 \in T
    <3>1. 1 \in 1 .. n
      BY <1>1
    <3>2. h[1] = seqs[1]
      BY <1>11, <3>1 DEF Flattens, n
    <3> QED BY <1>1, <3>1, <3>2
  <2>2. ASSUME NEW i \in 1 .. n - 1, i \in T PROVE i + 1 \in T
    <3> DEFINE k == i + 1
    <3>1. k \in 1 .. n /\ k # 1 /\ k - 1 = i /\ h[i] \in Seq(S)
      BY <1>1, <2>2
    <3> SUFFICES h[k] \in Seq(S)
      BY <3>1
    <3> HIDE DEF k, T
    <3>2. h[k] = h[i] \o seqs[k]
      BY <1>11, <3>1 DEF Flattens, n
    <3> QED BY <1>1, <3>1, <3>2, ConcatProperties
  <2> HIDE DEF T
  <2>3. \A i \in 1 .. n : i \in T
    BY <1>1, <2>1, <2>2, Upwards
  <2> QED BY <2>3 DEF T
<1> QED BY <1>1, <1>10, <1>11, <1>12 DEF n

\* One more sequence is joined at the end.
LEMMA FlattenAppend ==
  ASSUME NEW S, NEW seqs \in Seq(Seq(S)), NEW s \in Seq(S)
  PROVE  /\ FlattenSeq(seqs) \in Seq(S)
         /\ FlattenSeq(Append(seqs, s)) = FlattenSeq(seqs) \o s
<1> DEFINE more == Append(seqs, s)  n == Len(seqs)
<1>1. /\ more \in Seq(Seq(S)) /\ n \in Nat /\ Len(more) = n + 1
      /\ \A i \in 1 .. n : more[i] = seqs[i] /\ more[n + 1] = s
  BY AppendProperties, LenProperties
<1>2. more[n + 1] = s
  BY AppendProperties
<1> HIDE DEF more
<1>3. PICK g : Flattens(g, more) /\ FlattenSeq(more) = g[n + 1]
  <2>1. Len(more) # 0
    BY <1>1
  <2> QED BY <1>1, <2>1, FlattenSteps
<1> DEFINE last == n + 1
<1>4. last \in 1 .. last /\ last - 1 = n /\ (last = 1 <=> n = 0) /\ Len(more) = last
      /\ more[last] = s /\ FlattenSeq(more) = g[last]
  BY <1>1, <1>2, <1>3
<1>5. \A i \in 1 .. n : i \in 1 .. last /\ (i # 1 => i - 1 \in 1 .. n) /\ more[i] = seqs[i]
  BY <1>1
<1> HIDE DEF last
<1>6. g[last] = IF last = 1 THEN s ELSE g[n] \o s
  BY <1>3, <1>4 DEF Flattens
<1>7. CASE n = 0
  <2>1. seqs = <<>>
    BY <1>7, EmptySeq, SeqEqual DEF n
  <2>2. FlattenSeq(seqs) = <<>>
    BY <1>7, <2>1 DEF FlattenSeq
  <2>3. <<>> \o s = s
    BY ConcatEmptySeq
  <2> QED BY <1>4, <1>6, <1>7, <2>2, <2>3, EmptySeq DEF more
<1>8. CASE n # 0
  <2>1. PICK f : /\ \A i \in 1 .. n : f[i] \in Seq(S)
                 /\ Flattens(f, seqs)
                 /\ FlattenSeq(seqs) = f[n]
    BY <1>8, FlattenSteps
  <2> HIDE DEF n
  <2>2. \A i \in 1 .. n : f[i] = IF i = 1 THEN seqs[i] ELSE f[i - 1] \o seqs[i]
    BY <2>1 DEF Flattens, n
  <2>3. \A i \in 1 .. n : g[i] = IF i = 1 THEN seqs[i] ELSE g[i - 1] \o seqs[i]
    BY <1>3, <1>4, <1>5 DEF Flattens
  <2>4. g[n] = f[n]
    <3> DEFINE T == {i \in 1 .. n : g[i] = f[i]}
    <3>1. 1 \in T /\ 1 \in Nat
      BY <1>1, <1>8, <2>2, <2>3
    <3>2. ASSUME NEW i \in 1 .. n - 1, i \in T PROVE i + 1 \in T
      <4> DEFINE k == i + 1
      <4>1. k \in 1 .. n /\ k # 1 /\ k - 1 = i /\ g[i] = f[i]
        BY <1>1, <3>2
      <4> SUFFICES g[k] = f[k]
        BY <4>1
      <4> HIDE DEF k, T
      <4> QED BY <2>2, <2>3, <4>1
    <3> HIDE DEF T
    <3>3. \A i \in 1 .. n : i \in T
      BY <1>1, <3>1, <3>2, Upwards
    <3>4. n \in T
      BY <1>1, <1>8, <3>3
    <3> QED BY <3>4 DEF T
  <2>5. last # 1 /\ n \in 1 .. n
    BY <1>1, <1>4, <1>8
  <2> QED BY <1>4, <1>6, <2>1, <2>4, <2>5 DEF more
<1> QED BY <1>7, <1>8
-----------------------------------------------------------------------------
(* The first invariant: every buffer holds what was sent *)

\* s \o t, where the provers are not to look into it.
Join(s, t) == s \o t

\* Joining is closed and associative.
LEMMA Joining ==
  ASSUME NEW S
  PROVE  /\ \A p, q \in Seq(S) : Join(p, q) \in Seq(S)
         /\ \A p, q, r \in Seq(S) : Join(Join(p, q), r) = Join(p, Join(q, r))
<1>1. \A p, q \in Seq(S) : Join(p, q) \in Seq(S)
  BY ConcatProperties DEF Join
<1>2. ASSUME NEW p \in Seq(S), NEW q \in Seq(S), NEW r \in Seq(S)
      PROVE  (p \o q) \o r = p \o (q \o r)
  BY ONLY ConcatAssociative, p \in Seq(S), q \in Seq(S), r \in Seq(S), SMTT(30)
<1> QED BY <1>1, <1>2 DEF Join

\* A byte of a message that send() has appended and that fits into a buffer.
Sent == {b \in Bytes : b[1] <= Len(lens) /\ lens[b[1]] <= BufLen}

\* What send() appends is in the buffer until it writes beyond its end; from then on
\* the net thread does not come into onCanWrite() again.
Held == /\ overrun \/ (push \in Seq(Sent) /\ Len(push) <= BufLen)
        /\ overrun => ~held
        /\ wpc = "loop" => held

\* Every buffer holds bytes that were sent, and no more than it can.
Buffers ==
  /\ lens \in Seq(Lens) /\ Len(lens) <= MaxMsgs
  /\ write \in Seq(Sent) /\ Len(write) <= BufLen /\ point \in 0 .. Len(write)
  /\ wire \in Seq(Sent) /\ Len(wire) <= WireMax
  /\ chunk \in Seq(Sent) /\ Len(chunk) <= BufLen
  /\ buffer \in Seq(Sent)
  /\ told \in Seq(Seq(Sent))

\* The flags and the place of the net thread.
Scalars ==
  /\ want \in BOOLEAN /\ held \in BOOLEAN /\ overrun \in BOOLEAN
  /\ broken \in BOOLEAN /\ crashed \in BOOLEAN
  /\ wpc \in {"select", "loop", "closed"}

\* onCanRead() between two steps: how far it is with the length and with the data, and
\* the state in which memcpy() is called with a negative length.
Reading ==
  /\ read \in -1 .. Len(chunk)
  /\ mread \in -msglen .. BufLen
  /\ header \in Seq(Sent \cup {Stale}) /\ Len(header) <= msglen
  /\ header # <<>> => header[1] \in Sent
  /\ IF crashed
       THEN read = 0 /\ buffer = <<>> /\ mread = -1 /\ Len(header) = msglen
       ELSE /\ Len(header) = msglen + Least(mread, 0)
            /\ mread >= 0 => Len(buffer) = mread /\ mread <= Size
            /\ mread < 0 => read >= 0 /\ buffer = <<>>
            /\ read < 0 => mread = 0

\* The first invariant, for every network.
TypeInv == Held /\ Buffers /\ Scalars /\ Reading

\* The constants as the proofs use them.
LEMMA Constants ==
  /\ MaxMsgs \in Nat /\ Lens \subseteq Nat /\ BufLen \in Nat /\ BufLen # 0
  /\ WireMax \in Nat /\ WireMax # 0 /\ msglen = 2 /\ -msglen = -2
BY StreamAssumption DEF msglen

\* The bytes of a message that fit into the buffer are bytes that were sent.
LEMMA Frames ==
  ASSUME NEW k, NEW n \in Nat
  PROVE  /\ Len(Frame(k, n)) = 2 + n
         /\ \A p \in 1 .. 2 + n : Frame(k, n)[p] = <<k, p>>
         /\ \A S : (\A p \in 1 .. 2 + n : <<k, p>> \in S) => Frame(k, n) \in Seq(S)
<1>1. 2 + n \in Nat /\ Frame(k, n) = [p \in 1 .. 2 + n |-> <<k, p>>]
  BY DEF Frame, msglen
<1>2. Len(Frame(k, n)) = 2 + n /\ \A p \in 1 .. 2 + n : Frame(k, n)[p] = <<k, p>>
  BY <1>1
<1>3. ASSUME NEW S, \A p \in 1 .. 2 + n : <<k, p>> \in S
      PROVE  Frame(k, n) \in Seq(S)
  <2> DEFINE N == 2 + n
  <2> HIDE DEF N
  <2>1. [p \in 1 .. N |-> <<k, p>>] \in Seq(S)
    <3>1. N \in Nat /\ \A p \in 1 .. N : <<k, p>> \in S
      BY <1>1, <1>3 DEF N
    <3> QED BY <3>1, IsASeq
  <2> QED BY <1>1, <2>1 DEF N
<1> QED BY <1>2, <1>3

\* What is unused is a part of what was received, as long as no more is asked for.
LEMMA UnusedIsReceived ==
  ASSUME NEW S, chunk \in Seq(S), read \in 0 .. Len(chunk), NEW n \in 0 .. read
  PROVE  /\ Unused(n) = SubSeq(chunk, Len(chunk) - read + 1, Len(chunk) - read + n)
         /\ Unused(n) \in Seq(S) /\ Len(Unused(n)) = n
<1> DEFINE a == Len(chunk) - read
           f == [p \in 1 .. n |-> chunk[a + p]]
           part == SubSeq(chunk, a + 1, a + n)
<1>1. Len(chunk) \in Nat /\ \A i \in 1 .. Len(chunk) : chunk[i] \in S
  BY LenProperties, ElementOfSeq
<1>2. a \in 0 .. Len(chunk) /\ a + n \in a .. Len(chunk) /\ n \in Nat /\ (a + n) - a = n
  BY <1>1
<1>3. \A p \in 1 .. n : a + p \in 1 .. Len(chunk) /\ a + p <= Len(chunk)
  BY <1>1
<1>4. Unused(n) = f
  BY <1>3 DEF Unused
<1> HIDE DEF a
<1>5. f \in Seq(S)
  <2>1. \A p \in 1 .. n : chunk[a + p] \in S
    BY <1>1, <1>3
  <2> QED BY <1>2, <2>1, IsASeq
<1>6. Len(f) = n /\ \A p \in 1 .. n : f[p] = chunk[a + p]
  BY <1>2
<1>7. part \in Seq(S) /\ Len(part) = n /\ \A p \in 1 .. n : part[p] = chunk[a + p]
  <2> DEFINE m == a + n
  <2>1. m \in a .. Len(chunk) /\ m - a = n
    BY <1>2
  <2> HIDE DEF m
  <2>2. /\ SubSeq(chunk, a + 1, m) \in Seq(S) /\ Len(SubSeq(chunk, a + 1, m)) = m - a
        /\ \A i \in 1 .. m - a : SubSeq(chunk, a + 1, m)[i] = chunk[a + i]
    BY <1>2, <2>1, TwoParts
  <2> QED BY <2>1, <2>2 DEF m
<1>8. f = part
  <2> HIDE DEF f, part
  <2> QED BY <1>5, <1>6, <1>7, SeqEqual
<1> QED BY <1>4, <1>5, <1>6, <1>8 DEF a

\* Of nothing unused nothing is taken.
LEMMA NothingUnused ==
  ASSUME NEW n \in Int, n < 0
  PROVE  Unused(n) = <<>>
BY DEF Unused
-----------------------------------------------------------------------------
(* It holds: the sender and the wire *)

\* Nothing is in any buffer.
LEMMA TypesInit == Init => TypeInv
<1> SUFFICES ASSUME Init PROVE TypeInv
  OBVIOUS
<1>1. \A S : <<>> \in Seq(S)
  BY EmptySeq
<1>2. Len(<<>>) = 0
  OBVIOUS
<1>3. Held
  BY <1>1, <1>2, Constants DEF Init, Held
<1>4. Buffers
  BY <1>1, <1>2, Constants DEF Init, Buffers
<1>5. Scalars
  BY DEF Init, Scalars
<1>6. Reading
  BY <1>1, <1>2, Constants DEF Init, Reading, Least
<1> QED BY <1>3, <1>4, <1>5, <1>6 DEF TypeInv

\* What one action does not touch keeps its type.
LEMMA SentStays ==
  ASSUME UNCHANGED lens
  PROVE  Sent' = Sent
BY DEF Sent, Bytes

\* A step of the receiver leaves the sender's lock and buffer.
LEMMA HeldStays ==
  ASSUME Held, UNCHANGED <<lens, push, held, wpc, overrun>>
  PROVE  Held'
BY SentStays DEF Held

\* A step of the receiver leaves what the sender holds.
LEMMA SenderStays ==
  ASSUME Buffers, UNCHANGED <<lens, write, point, wire>>
  PROVE  /\ (lens \in Seq(Lens) /\ Len(lens) <= MaxMsgs)'
         /\ (write \in Seq(Sent) /\ Len(write) <= BufLen /\ point \in 0 .. Len(write))'
         /\ (wire \in Seq(Sent) /\ Len(wire) <= WireMax)'
BY SentStays DEF Buffers

\* A step of the sender leaves what the receiver holds.
LEMMA ReadingStays ==
  ASSUME Reading, UNCHANGED <<lens, chunk, read, mread, header, buffer, crashed>>
  PROVE  Reading'
BY SentStays DEF Reading, Size

\* The steps of onCanWrite() that move no byte.
LEMMA TypesOfWriterRest ==
  ASSUME TypeInv, CanWrite \/ NothingToWrite \/ WouldBlock \/ WriteFails
  PROVE  TypeInv'
<1>1. UNCHANGED <<lens, write, wire, point, told, overrun, push, broken>> /\ UNCHANGED receiver
  BY DEF CanWrite, NothingToWrite, WouldBlock, WriteFails, receiver
<1>2. UNCHANGED <<chunk, read, mread, header, buffer, crashed, told>>
  BY <1>1 DEF receiver
<1>3. Sent' = Sent
  BY <1>1, SentStays
<1>4. Buffers'
  BY <1>1, <1>2, <1>3 DEF TypeInv, Buffers
<1>5. Reading'
  BY <1>1, <1>2, ReadingStays DEF TypeInv
<1>6. Scalars'
  BY <1>1, <1>2 DEF TypeInv, Scalars, CanWrite, NothingToWrite, WouldBlock, WriteFails
<1>7. Held'
  <2>1. push' = push /\ overrun' = overrun
    BY <1>1
  <2>2. (overrun => ~held)' /\ (wpc = "loop" => held)'
    BY DEF TypeInv, Held, CanWrite, NothingToWrite, WouldBlock, WriteFails
  <2> QED BY <1>3, <2>1, <2>2 DEF TypeInv, Held
<1> QED BY <1>4, <1>5, <1>6, <1>7 DEF TypeInv

\* What was appended becomes what is written (onCanWrite).
LEMMA TypesOfSwapBuffers ==
  ASSUME TypeInv, SwapBuffers
  PROVE  TypeInv'
<1>1. /\ wpc = "loop" /\ write = <<>> /\ write' = push /\ push' = <<>>
      /\ UNCHANGED <<lens, point, want, held, wpc, overrun, wire, broken>>
      /\ UNCHANGED <<chunk, read, mread, header, buffer, crashed, told>>
  BY DEF SwapBuffers, receiver
<1>2. Sent' = Sent /\ <<>> \in Seq(Sent) /\ Len(<<>>) = 0
  BY <1>1, SentStays, EmptySeq
<1>3. ~overrun /\ push \in Seq(Sent) /\ Len(push) <= BufLen
  BY <1>1 DEF TypeInv, Held
<1>4. point = 0 /\ Len(push) \in Nat
  BY <1>1, <1>3, LenProperties DEF TypeInv, Buffers
<1>5. Buffers'
  BY <1>1, <1>2, <1>3, <1>4 DEF TypeInv, Buffers
<1>6. Held'
  BY <1>1, <1>2, Constants DEF TypeInv, Held
<1>7. Reading'
  BY <1>1, ReadingStays DEF TypeInv
<1>8. Scalars'
  BY <1>1 DEF TypeInv, Scalars
<1> QED BY <1>5, <1>6, <1>7, <1>8 DEF TypeInv

\* send() takes a part of the write buffer, or all of it.
LEMMA TypesOfWriteSome ==
  ASSUME TypeInv, NEW n \in 1 .. BufLen, WriteSome(n)
  PROVE  TypeInv'
<1>1. /\ n <= Len(write) - point /\ n <= WireMax - Len(wire)
      /\ wire' = wire \o SubSeq(write, point + 1, point + n)
      /\ IF point + n = Len(write)
           THEN write' = <<>> /\ point' = 0
           ELSE point' = point + n /\ write' = write
      /\ UNCHANGED <<lens, push, want, held, wpc, overrun, broken>>
      /\ UNCHANGED <<chunk, read, mread, header, buffer, crashed, told>>
  BY DEF WriteSome, receiver, Room
<1>2. Sent' = Sent /\ <<>> \in Seq(Sent) /\ Len(<<>>) = 0
  BY <1>1, SentStays, EmptySeq
<1>3. /\ write \in Seq(Sent) /\ wire \in Seq(Sent) /\ point \in 0 .. Len(write)
      /\ Len(write) \in Nat /\ Len(wire) \in Nat /\ Len(write) <= BufLen /\ n \in Nat
  BY LenProperties DEF TypeInv, Buffers
<1> DEFINE m == point + n
           part == SubSeq(write, point + 1, m)
<1>4. m \in point .. Len(write) /\ m - point = n
  BY <1>1, <1>3
<1>5. part \in Seq(Sent) /\ Len(part) = n
  <2> HIDE DEF m
  <2> QED BY <1>3, <1>4, TwoParts
<1> HIDE DEF part
<1>6. wire' = wire \o part
  BY <1>1 DEF part
<1>7. wire \o part \in Seq(Sent) /\ Len(wire \o part) = Len(wire) + n
  BY <1>3, <1>5, ConcatProperties
<1>8. wire' \in Seq(Sent) /\ Len(wire') <= WireMax
  <2>1. Len(wire) + n <= WireMax
    BY <1>1, <1>3, Constants
  <2> QED BY <1>6, <1>7, <2>1
<1>9. write' \in Seq(Sent) /\ Len(write') <= BufLen /\ point' \in 0 .. Len(write')
  <2>1. CASE point + n = Len(write)
    BY <1>1, <1>2, <2>1, Constants
  <2>2. CASE point + n # Len(write)
    <3>1. m \in 0 .. Len(write) /\ write' = write /\ point' = m
      BY <1>1, <1>3, <1>4, <2>2
    <3> QED BY <1>3, <3>1
  <2> QED BY <2>1, <2>2
<1>10. Buffers'
  BY <1>1, <1>2, <1>8, <1>9 DEF TypeInv, Buffers
<1>11. Held'
  BY <1>1, HeldStays DEF TypeInv
<1>12. Reading'
  BY <1>1, ReadingStays DEF TypeInv
<1>13. Scalars'
  BY <1>1 DEF TypeInv, Scalars
<1> QED BY <1>10, <1>11, <1>12, <1>13 DEF TypeInv

\* A connection that breaks takes bytes away and no others.
LEMMA TypesOfBreak ==
  ASSUME TypeInv, Break
  PROVE  TypeInv'
<1>1. /\ broken' = TRUE /\ wire' = <<>>
      /\ UNCHANGED <<lens, push, write, point, want, held, wpc, overrun>>
      /\ UNCHANGED <<chunk, read, mread, header, buffer, crashed, told>>
  BY DEF Break, sender, receiver
<1>2. Sent' = Sent /\ <<>> \in Seq(Sent) /\ Len(<<>>) = 0
  BY <1>1, SentStays, EmptySeq
<1>3. Buffers'
  BY <1>1, <1>2, Constants DEF TypeInv, Buffers
<1>4. Held' /\ Reading'
  BY <1>1, HeldStays, ReadingStays DEF TypeInv
<1>5. Scalars'
  BY <1>1 DEF TypeInv, Scalars
<1> QED BY <1>3, <1>4, <1>5 DEF TypeInv
-----------------------------------------------------------------------------
(* It holds: recv() and the length *)

\* recv() fills m_recvBuffer with the front of the wire.
LEMMA TypesOfRecv ==
  ASSUME TypeInv, NEW n \in 1 .. BufLen, Recv(n)
  PROVE  TypeInv'
<1>1. /\ read = 0 /\ ~crashed /\ n <= Len(wire)
      /\ chunk' = SubSeq(wire, 1, n)
      /\ wire' = SubSeq(wire, n + 1, Len(wire))
      /\ read' = n
      /\ UNCHANGED <<lens, push, write, point, want, held, wpc, overrun, broken>>
      /\ UNCHANGED <<mread, header, buffer, crashed, told>>
  BY DEF Recv, sender
<1>2. Sent' = Sent
  BY <1>1, SentStays
<1>3. wire \in Seq(Sent) /\ Len(wire) \in Nat /\ Len(wire) <= WireMax /\ n \in Nat /\ n <= BufLen
  BY LenProperties, Constants DEF TypeInv, Buffers
<1> DEFINE a == 0
<1>4. a \in 0 .. Len(wire) /\ n \in a .. Len(wire) /\ n - a = n /\ a + 1 = 1
  BY <1>1, <1>3
<1> HIDE DEF a
<1>5. /\ SubSeq(wire, 1, n) \in Seq(Sent) /\ Len(SubSeq(wire, 1, n)) = n
      /\ SubSeq(wire, n + 1, Len(wire)) \in Seq(Sent)
      /\ Len(SubSeq(wire, n + 1, Len(wire))) = Len(wire) - n
  <2>1. /\ SubSeq(wire, a + 1, n) \in Seq(Sent)
        /\ SubSeq(wire, n + 1, Len(wire)) \in Seq(Sent)
        /\ Len(SubSeq(wire, a + 1, n)) = n - a
        /\ Len(SubSeq(wire, n + 1, Len(wire))) = Len(wire) - n
    BY <1>3, <1>4, TwoParts
  <2> QED BY <1>4, <2>1
<1>6. Len(wire) - n <= WireMax
  BY <1>3, Constants
<1>7. /\ wire' \in Seq(Sent) /\ Len(wire') <= WireMax
      /\ chunk' \in Seq(Sent) /\ Len(chunk') = n
  BY <1>1, <1>5, <1>6
<1>8. Buffers'
  BY <1>1, <1>2, <1>3, <1>7 DEF TypeInv, Buffers
<1>9. Held'
  BY <1>1, HeldStays DEF TypeInv
<1>10. Reading'
  <2>1. Size' = Size
    BY <1>1 DEF Size
  <2>2. n >= 0 /\ n \in -1 .. n /\ ~(n < 0)
    BY <1>3
  <2> QED BY <1>1, <1>2, <1>7, <2>1, <2>2 DEF TypeInv, Reading
<1>11. Scalars'
  BY <1>1 DEF TypeInv, Scalars
<1> QED BY <1>8, <1>9, <1>10, <1>11 DEF TypeInv

\* The message that is being read was sent, and it fits into a buffer.
LEMMA SizeIsSent ==
  ASSUME TypeInv, header # <<>>
  PROVE  Size \in Nat /\ Size <= BufLen /\ Size \in Lens
<1>1. header[1] \in Bytes /\ header[1][1] <= Len(lens) /\ lens[header[1][1]] <= BufLen
  BY DEF TypeInv, Reading, Sent
<1>2. header[1][1] \in 1 .. MaxMsgs /\ Len(lens) \in Nat
  BY <1>1, LenProperties DEF Bytes, TypeInv, Buffers
<1>3. header[1][1] \in 1 .. Len(lens)
  BY <1>1, <1>2, Constants
<1>4. lens[header[1][1]] \in Lens
  BY <1>3, ElementOfSeq DEF TypeInv, Buffers
<1> QED BY <1>1, <1>4, Constants DEF Size

\* The part of the length that is read next.
LEMMA PartOfHeader ==
  ASSUME TypeInv, read > 0, mread < 0
  PROVE  /\ ~crashed /\ mread \in {-2, -1} /\ Len(header) = 2 + mread
         /\ HeaderPart \in 1 .. 2 /\ HeaderPart <= -mread
         /\ HeaderPart <= Len(chunk)
         /\ read - HeaderPart >= -1
         /\ read - HeaderPart < 0 => read = 1 /\ HeaderPart = 2 /\ mread = -2
         /\ Unused(HeaderPart) \in Seq(Sent \cup {Stale})
         /\ Len(Unused(HeaderPart)) = HeaderPart
         /\ Unused(HeaderPart)[1] = chunk[Len(chunk) - read + 1]
         /\ chunk[Len(chunk) - read + 1] \in Sent
<1>1. /\ chunk \in Seq(Sent) /\ Len(chunk) \in Nat /\ read \in 1 .. Len(chunk) /\ ~crashed
      /\ \A i \in 1 .. Len(chunk) : chunk[i] \in Sent
  BY LenProperties, ElementOfSeq DEF TypeInv, Buffers, Reading
<1>2. mread \in {-2, -1} /\ Len(header) = 2 + mread
  BY <1>1, Constants DEF TypeInv, Reading, Least
<1>3. /\ HeaderPart \in 1 .. 2 /\ HeaderPart <= -mread /\ HeaderPart <= Len(chunk)
      /\ read - HeaderPart >= -1
      /\ read - HeaderPart < 0 => read = 1 /\ HeaderPart = 2 /\ mread = -2
  <2> DEFINE c == Len(chunk)  h == HeaderPart
  <2>1. h = IF -mread < c THEN -mread ELSE c
    BY DEF HeaderPart, Least
  <2>2. c \in Nat /\ c >= 1 /\ read >= 1 /\ read \in Nat /\ mread \in Int
    BY <1>1, <1>2
  <2> HIDE DEF c, h
  <2>3. CASE mread = -1
    <3>1. h = IF 1 < c THEN 1 ELSE c
      BY <2>1, <2>2, <2>3
    <3>2. h = 1
      BY <2>2, <3>1
    <3> QED BY <2>2, <2>3, <3>2 DEF c, h
  <2>4. CASE mread = -2
    <3>1. h = IF 2 < c THEN 2 ELSE c
      BY <2>1, <2>2, <2>4
    <3>2. h \in Nat /\ h >= 1 /\ h <= 2 /\ h <= c
      BY <2>2, <3>1
    <3> QED BY <2>2, <2>4, <3>2 DEF c, h
  <2> QED BY <1>2, <2>3, <2>4
<1> DEFINE a == Len(chunk) - read
           h == HeaderPart
           e(p) == IF a + p <= Len(chunk) THEN chunk[a + p] ELSE Stale
<1>4. a \in Nat /\ a + 1 \in 1 .. Len(chunk) /\ h \in Nat /\ 1 \in 1 .. h
  BY <1>1, <1>3
<1>5. Unused(h) = [p \in 1 .. h |-> e(p)]
  BY DEF Unused
<1>6. \A p \in 1 .. h : e(p) \in Sent \cup {Stale}
  <2> TAKE p \in 1 .. h
  <2>1. CASE a + p <= Len(chunk)
    <3>1. a + p \in 1 .. Len(chunk)
      BY <1>4, <2>1
    <3> QED BY <1>1, <2>1, <3>1
  <2>2. CASE ~(a + p <= Len(chunk))
    BY <2>2
  <2> QED BY <2>1, <2>2
<1>7. e(1) = chunk[a + 1] /\ chunk[a + 1] \in Sent
  BY <1>1, <1>4
<1> HIDE DEF a, h, e
<1>8. [p \in 1 .. h |-> e(p)] \in Seq(Sent \cup {Stale})
  BY <1>4, <1>6, IsASeq
<1>9. Len([p \in 1 .. h |-> e(p)]) = h /\ [p \in 1 .. h |-> e(p)][1] = e(1)
  BY <1>4
<1> QED BY <1>1, <1>2, <1>3, <1>5, <1>7, <1>8, <1>9 DEF a, h

\* After a part of the length either more of it is to come or m_message.size is known
\* (onCanRead); read may be -1 where the code compares with ret.
LEMMA TypesOfReadHeader ==
  ASSUME TypeInv, ReadHeader
  PROVE  TypeInv'
<1>1. /\ read > 0 /\ mread < 0
      /\ header' = header \o Unused(HeaderPart)
      /\ mread' = mread + HeaderPart
      /\ read' = read - HeaderPart
      /\ UNCHANGED <<lens, push, write, point, want, held, wpc, overrun, wire, broken>>
      /\ UNCHANGED <<chunk, buffer, crashed, told>>
  BY DEF ReadHeader, sender
<1> DEFINE h == HeaderPart
           got == Unused(HeaderPart)
           mr == mread + h
           rd == read - h
<1>2. /\ ~crashed /\ mread \in {-2, -1} /\ Len(header) = 2 + mread
      /\ h \in 1 .. 2 /\ h <= -mread
      /\ rd >= -1
      /\ rd < 0 => mread = -2 /\ h = 2
      /\ got \in Seq(Sent \cup {Stale}) /\ Len(got) = h /\ got[1] \in Sent
  BY <1>1, PartOfHeader
<1>3. Sent' = Sent
  BY <1>1, SentStays
<1>4. /\ header \in Seq(Sent \cup {Stale}) /\ Len(header) \in Nat /\ buffer = <<>>
      /\ header # <<>> => header[1] \in Sent
      /\ read \in -1 .. Len(chunk) /\ Len(chunk) \in Nat
  BY <1>1, <1>2, LenProperties DEF TypeInv, Reading, Buffers
<1> HIDE DEF h, got
<1>5. /\ mr \in {-1, 0} /\ Len(header) + h = 2 + mr /\ (rd < 0 => mr = 0)
      /\ rd \in -1 .. Len(chunk) /\ h \in Nat
  BY <1>2, <1>4
<1> HIDE DEF mr, rd
<1>6. /\ header \o got \in Seq(Sent \cup {Stale})
      /\ Len(header \o got) = 2 + mr
      /\ (header \o got)[1] \in Sent
  <2>1. /\ header \o got \in Seq(Sent \cup {Stale})
        /\ Len(header \o got) = Len(header) + Len(got)
        /\ \A i \in 1 .. Len(header) + Len(got) :
             (header \o got)[i] = IF i <= Len(header) THEN header[i] ELSE got[i - Len(header)]
    BY <1>2, <1>4, ConcatProperties
  <2>2. 1 \in 1 .. Len(header) + Len(got)
    BY <1>2, <1>4, <1>5
  <2>3. (header \o got)[1] \in Sent
    <3>1. CASE Len(header) = 0
      <4>1. (header \o got)[1] = got[1]
        BY <2>1, <2>2, <3>1
      <4> QED BY <1>2, <4>1
    <3>2. CASE Len(header) # 0
      <4>1. header # <<>> /\ 1 <= Len(header)
        BY <1>4, <3>2, EmptySeq
      <4> QED BY <1>4, <2>1, <2>2, <4>1
    <3> QED BY <3>1, <3>2
  <2> QED BY <1>2, <1>5, <2>1, <2>3
<1>7. header' = header \o got /\ mread' = mr /\ read' = rd
  BY <1>1 DEF h, got, mr, rd
<1>8. mr >= 0 => Size' \in Nat
  <2>1. header'[1] \in Sent
    BY <1>6, <1>7
  <2>2. header'[1] \in Bytes /\ header'[1][1] <= Len(lens)
    BY <2>1 DEF Sent
  <2>3. header'[1][1] \in 1 .. MaxMsgs /\ Len(lens) \in Nat
    BY <2>2, LenProperties DEF Bytes, TypeInv, Buffers
  <2>4. header'[1][1] \in 1 .. Len(lens)
    BY <2>2, <2>3, Constants
  <2>5. lens[header'[1][1]] \in Nat
    BY <2>4, ElementOfSeq, Constants DEF TypeInv, Buffers
  <2> QED BY <1>1, <2>5 DEF Size
<1>9. Reading'
  <2>1. (read \in -1 .. Len(chunk) /\ mread \in -msglen .. BufLen)'
    BY <1>1, <1>5, <1>7, Constants
  <2>2. (header \in Seq(Sent \cup {Stale}) /\ Len(header) <= msglen /\ header[1] \in Sent)'
    BY <1>3, <1>5, <1>6, <1>7, Constants
  <2>3. (Len(header) = msglen + Least(mread, 0))'
    BY <1>5, <1>6, <1>7, Constants DEF Least
  <2>4. (mread >= 0 => Len(buffer) = mread /\ mread <= Size)'
    <3>1. buffer' = <<>> /\ Len(<<>>) = 0
      BY <1>1, <1>4
    <3>2. CASE mr = 0
      BY <1>7, <1>8, <3>1, <3>2
    <3>3. CASE mr = -1
      BY <1>7, <3>3
    <3> QED BY <1>5, <3>2, <3>3
  <2>5. (mread < 0 => read >= 0 /\ buffer = <<>>)' /\ (read < 0 => mread = 0)'
    BY <1>1, <1>4, <1>5, <1>7
  <2>6. crashed' = FALSE
    BY <1>1, <1>2 DEF TypeInv, Scalars
  <2> QED BY <2>1, <2>2, <2>3, <2>4, <2>5, <2>6 DEF Reading
<1>10. Held'
  BY <1>1, HeldStays DEF TypeInv
<1>11. Buffers'
  BY <1>1, <1>3 DEF TypeInv, Buffers
<1>12. Scalars'
  BY <1>1 DEF TypeInv, Scalars
<1> QED BY <1>9, <1>10, <1>11, <1>12 DEF TypeInv
-----------------------------------------------------------------------------
(* It holds: the data and send() *)

\* The part of the data that is read next; it is negative if too much was read before.
LEMMA PartOfBody ==
  ASSUME TypeInv, read # 0, ~crashed, mread >= 0
  PROVE  /\ Size \in Nat /\ Size <= BufLen /\ mread \in 0 .. Size
         /\ Len(header) = 2 /\ Len(buffer) = mread /\ buffer \in Seq(Sent)
         /\ read < 0 => mread = 0 /\ BodyPart = -1 /\ read = -1 /\ Unused(BodyPart) = <<>>
         /\ read > 0 => /\ BodyPart \in 0 .. read /\ mread + BodyPart <= Size
                        /\ BodyPart = Least(read, Size - mread)
                        /\ Unused(BodyPart) \in Seq(Sent) /\ Len(Unused(BodyPart)) = BodyPart
<1>1. /\ chunk \in Seq(Sent) /\ Len(chunk) \in Nat /\ read \in -1 .. Len(chunk)
      /\ buffer \in Seq(Sent) /\ Len(buffer) = mread /\ mread <= Size /\ mread \in -2 .. BufLen
      /\ Len(header) = msglen + Least(mread, 0)
      /\ read < 0 => mread = 0
  BY LenProperties, Constants DEF TypeInv, Buffers, Reading
<1>2. Len(header) = 2
  <2>1. Least(mread, 0) = 0
    BY <1>1 DEF Least
  <2> QED BY <1>1, <2>1, Constants
<1>3. Size \in Nat /\ Size <= BufLen
  <2>1. header # <<>>
    BY <1>2
  <2> QED BY <2>1, SizeIsSent
<1> DEFINE b == BodyPart
<1>4. mread \in 0 .. Size /\ b = IF read < Size - mread THEN read ELSE Size - mread
  BY <1>1, <1>3 DEF BodyPart, Least
<1>5. read < 0 => mread = 0 /\ read = -1 /\ b = -1 /\ Unused(b) = <<>>
  <2> SUFFICES ASSUME read < 0 PROVE mread = 0 /\ read = -1 /\ b = -1 /\ Unused(b) = <<>>
    OBVIOUS
  <2> HIDE DEF b
  <2>1. mread = 0 /\ read = -1
    BY <1>1
  <2>2. b = -1
    BY <1>3, <1>4, <2>1
  <2>3. -1 \in Int /\ -1 < 0
    OBVIOUS
  <2>4. b \in Int /\ b < 0
    BY <2>2, <2>3
  <2> QED BY <2>1, <2>2, <2>4, NothingUnused
<1>6. read > 0 => /\ b \in 0 .. read /\ mread + b <= Size
                  /\ Unused(b) \in Seq(Sent) /\ Len(Unused(b)) = b
  <2> SUFFICES ASSUME read > 0
               PROVE  /\ b \in 0 .. read /\ mread + b <= Size
                      /\ Unused(b) \in Seq(Sent) /\ Len(Unused(b)) = b
    OBVIOUS
  <2> HIDE DEF b
  <2>1. read \in 0 .. Len(chunk)
    BY <1>1
  <2>2. b \in 0 .. read /\ mread + b <= Size
    BY <1>3, <1>4, <2>1
  <2>3. Unused(b) \in Seq(Sent) /\ Len(Unused(b)) = b
    BY <1>1, <2>1, <2>2, UnusedIsReceived
  <2> QED BY <2>2, <2>3
<1> QED BY <1>1, <1>2, <1>3, <1>4, <1>5, <1>6 DEF BodyPart

\* After a part of the data either more of it is to come or the message is told; only
\* with read = -1 is the part negative.
LEMMA TypesOfReadBody ==
  ASSUME TypeInv, ReadBody
  PROVE  TypeInv'
<1> DEFINE b == BodyPart
           rest == Unused(b)
           got == buffer \o rest
           mr == mread + b
           rd == read - b
<1>1. /\ read # 0 /\ ~crashed /\ mread >= 0
      /\ crashed' = (b < 0)
      /\ read' = rd
      /\ UNCHANGED <<lens, push, write, point, want, held, wpc, overrun, wire, broken, chunk>>
  BY DEF ReadBody, sender
<1>2. IF mr < Size
        THEN mread' = mr /\ buffer' = got /\ header' = header /\ told' = told
        ELSE told' = Append(told, got) /\ mread' = -msglen /\ buffer' = <<>> /\ header' = <<>>
  BY DEF ReadBody
<1>3. /\ Size \in Nat /\ Size <= BufLen /\ mread \in 0 .. Size
      /\ Len(header) = 2 /\ Len(buffer) = mread /\ buffer \in Seq(Sent)
      /\ read < 0 => mread = 0 /\ b = -1 /\ read = -1 /\ rest = <<>>
      /\ read > 0 => b \in 0 .. read /\ mr <= Size /\ rest \in Seq(Sent) /\ Len(rest) = b
  BY <1>1, PartOfBody
<1>4. /\ Sent' = Sent /\ <<>> \in Seq(Sent) /\ Len(<<>>) = 0
      /\ Len(chunk) \in Nat /\ read \in -1 .. Len(chunk)
      /\ told \in Seq(Seq(Sent)) /\ header \in Seq(Sent \cup {Stale}) /\ header[1] \in Sent
      /\ <<>> \in Seq(Sent \cup {Stale})
  <2>1. header # <<>>
    <3>1. Len(header) = 2
      BY <1>3
    <3> QED BY <3>1
  <2> QED BY <1>1, <2>1, SentStays, EmptySeq, LenProperties DEF TypeInv, Buffers, Reading
<1> DEFINE headerOK == header \in Seq(Sent \cup {Stale}) /\ Len(header) = 2 /\ header[1] \in Sent
<1>4a. headerOK /\ (header' = header => headerOK')
  <2>1. headerOK
    BY <1>3, <1>4
  <2>2. header' = header => headerOK'
    <3>1. Sent' = Sent
      BY <1>4
    <3> QED BY <2>1, <3>1
  <2> QED BY <2>1, <2>2
<1> HIDE DEF headerOK
<1>5. Held'
  BY <1>1, HeldStays DEF TypeInv
<1>6. (want \in BOOLEAN /\ held \in BOOLEAN /\ overrun \in BOOLEAN
         /\ broken \in BOOLEAN /\ wpc \in {"select", "loop", "closed"})'
  BY <1>1 DEF TypeInv, Scalars
<1>7. crashed' \in BOOLEAN
  BY <1>1
<1>8. (/\ lens \in Seq(Lens) /\ Len(lens) <= MaxMsgs
       /\ write \in Seq(Sent) /\ Len(write) <= BufLen /\ point \in 0 .. Len(write)
       /\ wire \in Seq(Sent) /\ Len(wire) <= WireMax
       /\ chunk \in Seq(Sent) /\ Len(chunk) <= BufLen)'
  BY <1>1, <1>4 DEF TypeInv, Buffers
<1> HIDE DEF b, rest
<1>9. CASE read < 0
  <2>1. mread = 0 /\ b = -1 /\ read = -1 /\ rest = <<>> /\ mr = -1 /\ rd = 0 /\ b < 0
    BY <1>3, <1>9
  <2>2. got = <<>>
    <3>1. buffer = <<>>
      BY <1>3, <2>1, EmptySeq
    <3> QED BY <2>1, <3>1, <1>4, ConcatEmptySeq
  <2>3. mr < Size
    BY <1>3, <2>1
  <2> HIDE DEF mr, got, rd
  <2>4. mread' = -1 /\ buffer' = <<>> /\ header' = header /\ told' = told /\ read' = 0 /\ crashed'
    BY <1>1, <1>2, <2>1, <2>2, <2>3
  <2>5. Buffers'
    BY <1>4, <1>8, <2>4 DEF Buffers
  <2>6. Reading'
    <3>1. 0 \in -1 .. Len(chunk) /\ -1 \in -2 .. BufLen
      BY <1>4, Constants
    <3>2. (read \in -1 .. Len(chunk) /\ mread \in -msglen .. BufLen)'
      BY <1>1, <2>4, <3>1, Constants
    <3>3. (header \in Seq(Sent \cup {Stale}) /\ Len(header) <= msglen /\ header[1] \in Sent)'
      <4>1. header' = header
        BY <2>4
      <4>2. headerOK'
        BY <1>4a, <4>1
      <4>3. msglen = 2
        BY Constants
      <4> QED BY <4>2, <4>3 DEF headerOK
    <3>4. (read = 0 /\ buffer = <<>> /\ mread = -1 /\ Len(header) = msglen)'
      BY <1>3, <2>4, Constants
    <3> QED BY <2>4, <3>2, <3>3, <3>4 DEF Reading
  <2> QED BY <1>5, <1>6, <1>7, <2>5, <2>6 DEF TypeInv, Scalars
<1>10. CASE read > 0
  <2>1. b \in 0 .. read /\ mr <= Size /\ rest \in Seq(Sent) /\ Len(rest) = b /\ ~(b < 0)
    BY <1>3, <1>4, <1>10
  <2>2. got \in Seq(Sent) /\ Len(got) = mr
    BY <1>3, <2>1, ConcatProperties
  <2>3. mr \in Nat /\ rd \in 0 .. Len(chunk) /\ mr <= BufLen
    BY <1>3, <1>4, <2>1, Constants
  <2> HIDE DEF mr, got, rd
  <2>4. ~crashed' /\ read' = rd
    BY <1>1, <2>1
  <2>5. CASE mr < Size
    <3>1. mread' = mr /\ buffer' = got /\ header' = header /\ told' = told
      BY <1>2, <2>5
    <3>2. Size' = Size
      BY <1>1, <3>1 DEF Size
    <3>3. Buffers'
      BY <1>4, <1>8, <2>2, <3>1 DEF Buffers
    <3>4. Reading'
      <4>1. rd \in -1 .. Len(chunk) /\ mr \in -2 .. BufLen /\ ~(mr < 0) /\ ~(rd < 0) /\ mr >= 0
        BY <2>3, <1>4, Constants
      <4>2. Least(mr, 0) = 0
        BY <2>3 DEF Least
      <4>3. (read \in -1 .. Len(chunk) /\ mread \in -msglen .. BufLen)'
        BY <1>1, <2>4, <3>1, <4>1, Constants
      <4>4. (Len(header) = msglen + Least(mread, 0))'
        BY <1>3, <3>1, <4>2, Constants
      <4>5. (mread >= 0 => Len(buffer) = mread /\ mread <= Size)'
        BY <2>1, <2>2, <3>1, <3>2
      <4>6. (mread < 0 => read >= 0 /\ buffer = <<>>)' /\ (read < 0 => mread = 0)'
        BY <2>4, <3>1, <4>1
      <4>7. (header \in Seq(Sent \cup {Stale}) /\ Len(header) <= msglen /\ header[1] \in Sent)'
        <5>1. header' = header
          BY <3>1
        <5>2. headerOK'
          BY <1>4a, <5>1
        <5>3. msglen = 2
          BY Constants
        <5> QED BY <5>2, <5>3 DEF headerOK
      <4> QED BY <2>4, <4>3, <4>4, <4>5, <4>6, <4>7 DEF Reading
    <3> QED BY <1>5, <1>6, <1>7, <3>3, <3>4 DEF TypeInv, Scalars
  <2>6. CASE ~(mr < Size)
    <3>1. told' = Append(told, got) /\ mread' = -2 /\ buffer' = <<>> /\ header' = <<>>
      BY <1>2, <2>6, Constants
    <3>2. told' \in Seq(Seq(Sent))
      BY <1>4, <2>2, <3>1, AppendProperties
    <3>3. Buffers'
      BY <1>4, <1>8, <3>1, <3>2 DEF Buffers
    <3>4. Reading'
      <4>1. rd \in -1 .. Len(chunk) /\ -2 \in -2 .. BufLen /\ rd >= 0 /\ ~(rd < 0)
        BY <2>3, <1>4, Constants
      <4>2. Least(-2, 0) = -2 /\ 2 + (-2) = 0
        BY DEF Least
      <4> QED BY <1>1, <1>4, <2>4, <3>1, <4>1, <4>2, Constants DEF Reading
    <3> QED BY <1>5, <1>6, <1>7, <3>3, <3>4 DEF TypeInv, Scalars
  <2> QED BY <2>5, <2>6
<1> QED BY <1>1, <1>4, <1>9, <1>10

\* What was sent remains so when another message is sent.
LEMMA SentGrows ==
  ASSUME lens \in Seq(Lens), NEW n \in Lens, lens' = Append(lens, n)
  PROVE  /\ Sent \subseteq Sent'
         /\ Len(lens') = Len(lens) + 1 /\ lens'[Len(lens) + 1] = n
         /\ \A i \in 1 .. Len(lens) : lens'[i] = lens[i]
<1>1. /\ Len(lens) \in Nat /\ Len(lens') = Len(lens) + 1 /\ lens'[Len(lens) + 1] = n
      /\ \A i \in 1 .. Len(lens) : lens'[i] = lens[i]
  BY AppendProperties, LenProperties
<1>2. ASSUME NEW b \in Sent PROVE b \in Sent'
  <2>1. b \in Bytes /\ b[1] \in 1 .. MaxMsgs /\ b[1] <= Len(lens) /\ lens[b[1]] <= BufLen
    BY DEF Sent, Bytes
  <2>2. b[1] \in 1 .. Len(lens) /\ b[1] <= Len(lens) + 1
    BY <1>1, <2>1, Constants
  <2>3. b[1] <= Len(lens') /\ lens'[b[1]] <= BufLen
    BY <1>1, <2>1, <2>2
  <2> QED BY <2>1, <2>3 DEF Sent, Bytes
<1> QED BY <1>1, <1>2

\* What send() appends was sent, and is in the buffer unless it overran.
LEMMA TypesOfSend ==
  ASSUME TypeInv, NEW n \in Lens, Send(n)
  PROVE  TypeInv'
<1> DEFINE k == Len(lens) + 1
           frame == Frame(k, n)
<1>1. /\ ~held /\ ~overrun /\ Len(lens) < MaxMsgs
      /\ lens' = Append(lens, n)
      /\ push' = push \o frame
      /\ overrun' = ~Fits(n)
      /\ want' = (want \/ write = <<>>)
      /\ UNCHANGED <<write, point, held, wpc, wire, broken>>
      /\ UNCHANGED <<chunk, read, mread, header, buffer, crashed, told>>
  BY DEF Send, receiver
<1>2. /\ lens \in Seq(Lens) /\ Len(lens) \in Nat /\ n \in Nat
      /\ push \in Seq(Sent) /\ Len(push) \in Nat /\ Len(push) <= BufLen /\ ~(wpc = "loop")
  BY <1>1, LenProperties, Constants DEF TypeInv, Buffers, Held
<1>3. /\ Sent \subseteq Sent' /\ Len(lens') = k /\ lens'[k] = n
      /\ \A i \in 1 .. Len(lens) : lens'[i] = lens[i]
  BY <1>1, <1>2, SentGrows
<1>4. lens' \in Seq(Lens)
  BY <1>1, <1>2, AppendProperties
<1>5. k \in 1 .. MaxMsgs /\ k <= MaxMsgs
  BY <1>1, <1>2, Constants
<1> HIDE DEF k
<1>6. Held'
  <2>1. ~overrun' => push' \in Seq(Sent') /\ Len(push') <= BufLen
    <3> SUFFICES ASSUME Fits(n) PROVE push' \in Seq(Sent') /\ Len(push') <= BufLen
      BY <1>1
    <3>1. Len(push) + 2 + n <= BufLen
      BY Constants DEF Fits
    <3>2. \A p \in 1 .. 2 + n : <<k, p>> \in Sent'
      <4> TAKE p \in 1 .. 2 + n
      <4>1. p \in 1 .. 2 + BufLen /\ n <= BufLen
        BY <1>2, <3>1, Constants
      <4>2. <<k, p>> \in Bytes /\ <<k, p>>[1] = k
        BY <1>5, <4>1, Constants DEF Bytes
      <4>3. k <= Len(lens') /\ lens'[k] <= BufLen
        BY <1>3, <1>5, <4>1
      <4> QED BY <4>2, <4>3 DEF Sent, Bytes
    <3>3. frame \in Seq(Sent') /\ Len(frame) = 2 + n
      <4>1. Len(frame) = 2 + n
        BY <1>2, Frames
      <4>2. \A S : (\A p \in 1 .. 2 + n : <<k, p>> \in S) => frame \in Seq(S)
        BY <1>2, Frames
      <4> QED BY <3>2, <4>1, <4>2
    <3> HIDE DEF frame
    <3>4. push \in Seq(Sent')
      BY <1>2, <1>3, SeqMonotonic
    <3>5. push \o frame \in Seq(Sent') /\ Len(push \o frame) = Len(push) + (2 + n)
      BY <3>3, <3>4, ConcatProperties
    <3>6. Len(push) + (2 + n) <= BufLen
      BY <1>2, <3>1, Constants
    <3> QED BY <1>1, <3>5, <3>6
  <2>2. ~held' /\ ~(wpc' = "loop")
    BY <1>1, <1>2
  <2> QED BY <2>1, <2>2 DEF Held
<1>7. Buffers'
  <2>1. \A s \in Seq(Sent) : s \in Seq(Sent')
    BY <1>3, SeqMonotonic
  <2>2. told \in Seq(Seq(Sent'))
    <3>1. Seq(Sent) \subseteq Seq(Sent')
      BY <2>1
    <3>2. told \in Seq(Seq(Sent))
      BY DEF TypeInv, Buffers
    <3> QED BY <3>1, <3>2, SeqMonotonic
  <2> QED BY <1>1, <1>3, <1>4, <1>5, <2>1, <2>2 DEF TypeInv, Buffers
<1>8. Reading'
  <2>1. header # <<>> => Size' = Size
    <3> SUFFICES ASSUME header # <<>> PROVE Size' = Size
      OBVIOUS
    <3>1. header[1] \in Bytes /\ header[1][1] <= Len(lens)
      BY DEF TypeInv, Reading, Sent
    <3>2. header[1][1] \in 1 .. Len(lens)
      BY <1>2, <3>1, Constants DEF Bytes
    <3> QED BY <1>1, <1>3, <3>2 DEF Size
  <2>2. header \in Seq(Sent' \cup {Stale})
    <3>1. header \in Seq(Sent \cup {Stale}) /\ Sent \cup {Stale} \subseteq Sent' \cup {Stale}
      BY <1>3 DEF TypeInv, Reading
    <3> QED BY <3>1, SeqMonotonic
  <2>3. header # <<>> => header[1] \in Sent'
    BY <1>3 DEF TypeInv, Reading
  <2>4. ~crashed /\ mread >= 0 => header # <<>>
    <3> SUFFICES ASSUME ~crashed, mread >= 0 PROVE header # <<>>
      OBVIOUS
    <3>1. mread \in Int /\ Len(header) = 2 + Least(mread, 0)
      BY Constants DEF TypeInv, Reading
    <3>2. Least(mread, 0) = 0
      BY <3>1 DEF Least
    <3>3. Len(header) = 2
      BY <3>1, <3>2
    <3> QED BY <3>3
  <2> QED BY <1>1, <2>1, <2>2, <2>3, <2>4 DEF TypeInv, Reading
<1>9. Scalars'
  <2>1. overrun' \in BOOLEAN /\ want' \in BOOLEAN
    BY <1>1
  <2> QED BY <1>1, <2>1 DEF TypeInv, Scalars
<1> QED BY <1>6, <1>7, <1>8, <1>9 DEF TypeInv

\* A step in which nothing changes.
LEMMA TypesStutter ==
  ASSUME TypeInv, UNCHANGED vars
  PROVE  TypeInv'
<1>1. /\ UNCHANGED <<lens, push, write, point, want, held, wpc, overrun, wire, broken>>
      /\ UNCHANGED <<chunk, read, mread, header, buffer, crashed, told>>
  BY DEF vars, sender, receiver
<1>2. Held' /\ Reading'
  BY <1>1, HeldStays, ReadingStays DEF TypeInv
<1>3. Buffers' /\ Scalars'
  BY <1>1, SentStays DEF TypeInv, Buffers, Scalars
<1> QED BY <1>2, <1>3 DEF TypeInv

\* Every step keeps the first invariant.
LEMMA TypesStep == TypeInv /\ [Next]_vars => TypeInv'
<1> SUFFICES ASSUME TypeInv, [Next]_vars PROVE TypeInv'
  OBVIOUS
<1>1. CASE \E n \in Lens : Send(n)
  BY <1>1, TypesOfSend
<1>2. CASE Writer
  BY <1>2, TypesOfWriterRest, TypesOfSwapBuffers, TypesOfWriteSome DEF Writer
<1>3. CASE Break
  BY <1>3, TypesOfBreak
<1>4. CASE Reader
  BY <1>4, TypesOfReadHeader, TypesOfReadBody, TypesOfRecv DEF Reader
<1>5. CASE UNCHANGED vars
  BY <1>5, TypesStutter
<1> QED BY <1>1, <1>2, <1>3, <1>4, <1>5 DEF Next

\* It is stronger than the types.
LEMMA TypesSuffice == TypeInv => TypeOK
<1> SUFFICES ASSUME TypeInv PROVE TypeOK
  OBVIOUS
<1>1. Sent \subseteq Bytes
  BY DEF Sent
<1>2. \A s \in Seq(Sent) : s \in Seq(Bytes)
  BY <1>1, SeqMonotonic
<1>3. told \in Seq(Seq(Bytes))
  <2>1. Seq(Sent) \subseteq Seq(Bytes) /\ told \in Seq(Seq(Sent))
    BY <1>2 DEF TypeInv, Buffers
  <2> QED BY <2>1, SeqMonotonic
<1>4. header \in Seq(Bytes \cup {Stale})
  <2>1. Sent \cup {Stale} \subseteq Bytes \cup {Stale} /\ header \in Seq(Sent \cup {Stale})
    BY <1>1 DEF TypeInv, Reading
  <2> QED BY <2>1, SeqMonotonic
<1>5. Len(header) = msglen => Len(buffer) <= Size
  <2> SUFFICES ASSUME Len(header) = msglen PROVE Len(buffer) <= Size
    OBVIOUS
  <2>1. Size \in Nat
    <3>1. header # <<>>
      BY Constants
    <3> QED BY <3>1, SizeIsSent
  <2>2. CASE buffer = <<>>
    <3>1. Len(buffer) = 0
      BY <2>2
    <3> QED BY <2>1, <3>1
  <2>3. CASE buffer # <<>>
    <3>1. ~crashed /\ ~(mread < 0) /\ mread \in Int
      BY <2>3, Constants DEF TypeInv, Reading
    <3>2. mread >= 0
      BY <3>1
    <3> QED BY <3>1, <3>2 DEF TypeInv, Reading
  <2> QED BY <2>2, <2>3
<1> QED BY <1>2, <1>3, <1>4, <1>5 DEF TypeOK, TypeInv, Held, Buffers, Scalars, Reading

\* The first invariant holds for every network.
LEMMA Typed == Spec => []TypeInv
<1> QED BY TypesInit, TypesStep, PTL DEF Spec

\* Every buffer, flag and count of both handlers has its type, whatever the surroundings
\* are relied on for: read is never less than -1, and m_message.read never beyond the size.
THEOREM TypeCorrect == Spec => []TypeOK
<1> QED BY Typed, TypesSuffice, PTL
-----------------------------------------------------------------------------
(* Bytes that follow one another *)

\* Any byte at all; every sequence of the proofs is made of these.
Stuff == (Nat \X Nat) \cup {Stale}

\* The bytes of the messages whose lengths are ls, and the one that follows b.
Known(ls) == {b \in Nat \X Nat : b[1] \in 1 .. Len(ls) /\ b[2] \in 1 .. 2 + ls[b[1]]}
Succ(ls, b) == IF b[2] < 2 + ls[b[1]] THEN <<b[1], b[2] + 1>> ELSE <<b[1] + 1, 1>>

\* u goes on where m messages end, byte by byte; if it is not cut, to the last byte.
Follows(ls, u, m, cut) ==
  /\ u \in Seq(Known(ls))
  /\ u # <<>> => u[1] = <<m + 1, 1>>
  /\ \A i \in 1 .. Len(u) - 1 : u[i + 1] = Succ(ls, u[i])
  /\ m <= Len(ls)
  /\ ~cut => IF u = <<>> THEN m = Len(ls) ELSE u[Len(u)] = <<Len(ls), 2 + ls[Len(ls)]>>

\* A sequence is made of what its elements are.
LEMMA MadeOf ==
  ASSUME NEW S, NEW T, NEW u \in Seq(S), \A i \in 1 .. Len(u) : u[i] \in T
  PROVE  u \in Seq(T)
<1> DEFINE n == Len(u)
<1>1. n \in Nat /\ u \in [1 .. n -> S]
  BY LenProperties
<1>2. \A i \in 1 .. n : u[i] \in T
  OBVIOUS
<1> HIDE DEF n
<1>3. u \in [1 .. n -> T]
  BY <1>1, <1>2
<1> QED BY <1>1, <1>3, SeqDef

\* What a known byte is made of.
LEMMA KnownBytes ==
  ASSUME NEW ls \in Seq(Nat), NEW b \in Known(ls)
  PROVE  /\ b = <<b[1], b[2]>> /\ b[1] \in Nat /\ b[2] \in Nat /\ Len(ls) \in Nat
         /\ b[1] \in 1 .. Len(ls) /\ ls[b[1]] \in Nat
         /\ b[2] \in 1 .. 2 + ls[b[1]]
<1>1. Len(ls) \in Nat /\ b[1] \in 1 .. Len(ls) /\ b \in Nat \X Nat /\ b[2] \in 1 .. 2 + ls[b[1]]
  BY LenProperties DEF Known
<1>2. ls[b[1]] \in Nat
  BY <1>1, ElementOfSeq
<1> QED BY <1>1, <1>2

\* Of what follows a first part follows too.
LEMMA FollowsCut ==
  ASSUME NEW ls \in Seq(Nat), NEW m \in Nat, NEW c,
         NEW u \in Seq(Stuff), NEW v \in Seq(Stuff), Follows(ls, u \o v, m, c)
  PROVE  Follows(ls, u, m, TRUE)
<1> DEFINE w == u \o v
<1>1. /\ Len(u) \in Nat /\ Len(v) \in Nat /\ Len(w) = Len(u) + Len(v)
      /\ \A i \in 1 .. Len(u) + Len(v) : w[i] = IF i <= Len(u) THEN u[i] ELSE v[i - Len(u)]
  BY ConcatProperties, LenProperties
<1>2. /\ w \in Seq(Known(ls)) /\ m <= Len(ls)
      /\ w # <<>> => w[1] = <<m + 1, 1>>
      /\ \A i \in 1 .. Len(w) - 1 : w[i + 1] = Succ(ls, w[i])
  BY DEF Follows
<1> HIDE DEF w
<1>3. \A i \in 1 .. Len(w) : w[i] \in Known(ls)
  BY <1>2, ElementOfSeq
<1>4. \A i \in 1 .. Len(u) : u[i] = w[i] /\ i \in 1 .. Len(w)
  BY <1>1
<1>5. u \in Seq(Known(ls))
  BY <1>3, <1>4, MadeOf
<1>6. u # <<>> => u[1] = <<m + 1, 1>>
  <2> SUFFICES ASSUME u # <<>> PROVE u[1] = <<m + 1, 1>>
    OBVIOUS
  <2>1. Len(u) # 0
    BY EmptySeq
  <2>2. 1 \in 1 .. Len(u)
    BY <1>1, <2>1
  <2>3. Len(w) # 0
    BY <1>1, <2>1
  <2>4. w # <<>>
    BY <2>3, EmptySeq
  <2> QED BY <1>2, <1>4, <2>2, <2>4
<1>7. ASSUME NEW i \in 1 .. Len(u) - 1 PROVE u[i + 1] = Succ(ls, u[i])
  <2> DEFINE j == i + 1
  <2>1. i \in 1 .. Len(w) - 1 /\ i \in 1 .. Len(u) /\ j \in 1 .. Len(u)
    BY <1>1
  <2>2. w[j] = Succ(ls, w[i])
    BY <1>2, <2>1
  <2> HIDE DEF j
  <2>3. u[j] = Succ(ls, u[i])
    BY <1>4, <2>1, <2>2
  <2> QED BY <2>3 DEF j
<1> QED BY <1>2, <1>5, <1>6, <1>7 DEF Follows

\* u is message k, of that size, and v goes on after it.
Done(ls, u, v, k, size, cut) ==
  /\ k \in 1 .. Len(ls) /\ size = ls[k]
  /\ \A i \in 1 .. 2 + size : u[i] = <<k, i>>
  /\ Follows(ls, v, k, cut)

\* A message that was taken whole is the next one, and what remains goes on after it.
LEMMA FollowsDone ==
  ASSUME NEW ls \in Seq(Nat), NEW m \in Nat, NEW c,
         NEW u \in Seq(Stuff), NEW v \in Seq(Stuff), Follows(ls, Join(u, v), m, c),
         NEW size \in Nat, size = ls[u[1][1]], Len(u) = 2 + size
  PROVE  Done(ls, u, v, m + 1, size, c)
<1> DEFINE w == Join(u, v)  k == m + 1  n == 2 + size
<1> DEFINE lv == Len(v)  lw == Len(w)
<1>0. /\ Len(u) = n /\ n \in Nat /\ n >= 2 /\ k \in Nat
      /\ lv \in Nat /\ lw = n + lv
  <2>1. Len(w) = Len(u) + Len(v) /\ Len(v) \in Nat
    BY ConcatProperties, LenProperties DEF Join
  <2>2. n \in Nat /\ n >= 2 /\ k \in Nat
    OBVIOUS
  <2> HIDE DEF n, k, w
  <2> QED BY <2>1, <2>2 DEF n
<1>1. \A i \in 1 .. n + lv : w[i] = IF i <= n THEN u[i] ELSE v[i - n]
  <2>1. \A i \in 1 .. Len(u) + Len(v) : w[i] = IF i <= Len(u) THEN u[i] ELSE v[i - Len(u)]
    BY ConcatProperties DEF Join
  <2> HIDE DEF n, k, w
  <2> QED BY <1>0, <2>1
<1>2. /\ w \in Seq(Known(ls)) /\ m <= Len(ls)
      /\ w # <<>> => w[1] = <<m + 1, 1>>
      /\ \A i \in 1 .. lw - 1 : w[i + 1] = Succ(ls, w[i])
      /\ ~c => IF w = <<>> THEN m = Len(ls) ELSE w[lw] = <<Len(ls), 2 + ls[Len(ls)]>>
  BY DEF Follows
<1> HIDE DEF w, k, n, lv, lw
<1>3. 1 \in 1 .. n /\ n \in 1 .. n /\ n \in 1 .. lw /\ lw \in Nat /\ lw # 0
  BY <1>0
<1>4. \A i \in 1 .. lw : w[i] \in Known(ls)
  BY <1>2, ElementOfSeq DEF lw
<1>5. \A i \in 1 .. n : u[i] = w[i] /\ i \in 1 .. lw
  <2> TAKE i \in 1 .. n
  <2>1. i \in 1 .. n + lv /\ i <= n
    BY <1>0
  <2> QED BY <1>0, <1>1, <2>1
<1>6. u[1] = <<k, 1>>
  <2>1. w # <<>>
    BY <1>3, EmptySeq DEF lw
  <2> QED BY <1>2, <1>3, <1>5, <2>1 DEF k
<1>7. size = ls[k] /\ k \in 1 .. Len(ls) /\ Len(ls) \in Nat
  <2>1. u[1][1] = k
    BY <1>6
  <2>2. u[1] \in Known(ls)
    BY <1>3, <1>4, <1>5
  <2> QED BY <2>1, <2>2, KnownBytes
<1>8. \A i \in 1 .. n : u[i] = <<k, i>>
  <2> DEFINE T == {i \in Nat : u[i] = <<k, i>>}
  <2>1. 1 \in T /\ 1 \in Nat
    BY <1>6
  <2>2. ASSUME NEW i \in 1 .. n - 1, i \in T PROVE i + 1 \in T
    <3> DEFINE j == i + 1
    <3>1. i \in 1 .. n /\ j \in 1 .. n /\ i \in 1 .. lw - 1 /\ j \in Nat /\ i < n
      BY <1>0
    <3>2. w[j] = Succ(ls, w[i])
      BY <1>2, <3>1
    <3>3. Succ(ls, <<k, i>>) = <<k, j>>
      BY <1>7, <3>1 DEF Succ, n
    <3> HIDE DEF j
    <3>4. u[i] = <<k, i>>
      BY <2>2
    <3>5. u[j] = <<k, j>>
      BY <1>5, <3>1, <3>2, <3>3, <3>4
    <3> QED BY <3>1, <3>5 DEF j
  <2> HIDE DEF T
  <2>3. \A i \in 1 .. n : i \in T
    BY <1>0, <2>1, <2>2, Upwards
  <2> QED BY <2>3 DEF T
<1>9. \A i \in 1 .. lv : v[i] = w[n + i] /\ n + i \in 1 .. lw
  <2> TAKE i \in 1 .. lv
  <2> DEFINE j == n + i
  <2>1. j \in 1 .. n + lv /\ ~(j <= n) /\ j - n = i
    BY <1>0
  <2> HIDE DEF j
  <2>2. w[j] = v[i] /\ j \in 1 .. lw
    BY <1>0, <1>1, <2>1
  <2> QED BY <2>2 DEF j
<1>10. Succ(ls, <<k, n>>) = <<k + 1, 1>>
  <2>1. 2 + ls[k] = n
    BY <1>7 DEF n
  <2>2. ~(n < n)
    BY <1>0
  <2> QED BY <2>1, <2>2 DEF Succ
<1>11. w[n] = <<k, n>> /\ n \in 1 .. n
  BY <1>3, <1>5, <1>8
<1>12. v \in Seq(Known(ls))
  BY <1>4, <1>9, MadeOf DEF lv
<1>13. v # <<>> => v[1] = <<k + 1, 1>>
  <2> SUFFICES ASSUME v # <<>> PROVE v[1] = <<k + 1, 1>>
    OBVIOUS
  <2> DEFINE j == n + 1
  <2>1. lv # 0
    BY EmptySeq DEF lv
  <2>2. 1 \in 1 .. lv /\ n \in 1 .. lw - 1
    BY <1>0, <2>1
  <2>3. w[j] = Succ(ls, w[n])
    BY <1>2, <2>2
  <2>4. v[1] = w[j]
    BY <1>9, <2>2
  <2> QED BY <1>10, <1>11, <2>3, <2>4
<1>14. ASSUME NEW i \in 1 .. lv - 1 PROVE v[i + 1] = Succ(ls, v[i])
  <2> DEFINE j == i + 1  p == n + i  q == p + 1
  <2>1. i \in 1 .. lv /\ j \in 1 .. lv /\ p \in 1 .. lw - 1 /\ n + j = q
    BY <1>0
  <2>2. w[q] = Succ(ls, w[p])
    BY <1>2, <2>1
  <2>3. v[i] = w[p]
    BY <1>9, <2>1
  <2> HIDE DEF j, q
  <2>4. v[j] = w[q]
    BY <1>9, <2>1
  <2> QED BY <2>2, <2>3, <2>4 DEF j
<1>15. ~c => IF v = <<>> THEN k = Len(ls) ELSE v[Len(v)] = <<Len(ls), 2 + ls[Len(ls)]>>
  <2> SUFFICES ASSUME ~c
               PROVE  IF v = <<>> THEN k = Len(ls) ELSE v[Len(v)] = <<Len(ls), 2 + ls[Len(ls)]>>
    OBVIOUS
  <2>1. w[lw] = <<Len(ls), 2 + ls[Len(ls)]>>
    <3>1. w # <<>>
      BY <1>3, EmptySeq DEF lw
    <3> QED BY <1>2, <3>1 DEF lw
  <2>2. CASE v = <<>>
    <3>1. lv = 0
      BY <2>2 DEF lv
    <3>2. lw = n
      BY <1>0, <3>1
    <3>3. <<k, n>> = <<Len(ls), 2 + ls[Len(ls)]>>
      BY <1>11, <2>1, <3>2
    <3> QED BY <2>2, <3>3
  <2>3. CASE v # <<>>
    <3>1. lv # 0
      BY <2>3, EmptySeq DEF lv
    <3>2. lv \in 1 .. lv /\ n + lv = lw
      BY <1>0, <3>1
    <3>3. v[lv] = w[lw]
      BY <1>9, <3>2
    <3> QED BY <2>1, <2>3, <3>3 DEF lv
  <2> QED BY <2>2, <2>3
<1>16. Follows(ls, v, k, c)
  <2>1. k <= Len(ls)
    BY <1>7
  <2> QED BY <1>12, <1>13, <1>14, <1>15, <2>1 DEF Follows, lv
<1> QED BY <1>7, <1>8, <1>16 DEF k, n, Done
-----------------------------------------------------------------------------
(* They still do when another message is sent *)

\* Known bytes stay known when another message is sent, and so does what follows them.
LEMMA KnownGrows ==
  ASSUME NEW ls \in Seq(Nat), NEW n \in Nat
  PROVE  /\ Append(ls, n) \in Seq(Nat) /\ Len(Append(ls, n)) = Len(ls) + 1
         /\ Append(ls, n)[Len(ls) + 1] = n
         /\ Known(ls) \subseteq Known(Append(ls, n))
         /\ \A b \in Known(ls) : Succ(Append(ls, n), b) = Succ(ls, b)
<1> DEFINE more == Append(ls, n)
<1>1. /\ more \in Seq(Nat) /\ Len(more) = Len(ls) + 1 /\ more[Len(ls) + 1] = n
      /\ \A i \in 1 .. Len(ls) : more[i] = ls[i]
      /\ Len(ls) \in Nat
  BY AppendProperties, LenProperties
<1> HIDE DEF more
<1>2. ASSUME NEW b \in Known(ls) PROVE b \in Known(more) /\ Succ(more, b) = Succ(ls, b)
  <2>1. b \in Nat \X Nat /\ b[1] \in 1 .. Len(ls) /\ b[2] \in 1 .. 2 + ls[b[1]]
    BY DEF Known
  <2>2. b[1] \in 1 .. Len(more) /\ more[b[1]] = ls[b[1]]
    BY <1>1, <2>1
  <2> QED BY <2>1, <2>2 DEF Known, Succ
<1> QED BY <1>1, <1>2 DEF more

\* What is cut remains so when another message is sent.
LEMMA FollowsSame ==
  ASSUME NEW ls \in Seq(Nat), NEW m \in Nat, NEW u, NEW n \in Nat, Follows(ls, u, m, TRUE)
  PROVE  Follows(Append(ls, n), u, m, TRUE)
<1> DEFINE more == Append(ls, n)
<1>1. /\ Len(ls) \in Nat /\ Len(more) = Len(ls) + 1 /\ Known(ls) \subseteq Known(more)
      /\ \A b \in Known(ls) : Succ(more, b) = Succ(ls, b)
  BY KnownGrows, LenProperties
<1> HIDE DEF more
<1>2. u \in Seq(Known(ls)) /\ u \in Seq(Known(more))
  BY <1>1, SeqMonotonic DEF Follows
<1>3. m <= Len(more)
  BY <1>1 DEF Follows
<1>4. \A i \in 1 .. Len(u) - 1 : u[i + 1] = Succ(more, u[i])
  <2> TAKE i \in 1 .. Len(u) - 1
  <2>1. i \in 1 .. Len(u)
    BY <1>2, LenProperties
  <2>2. u[i] \in Known(ls)
    BY <1>2, <2>1, ElementOfSeq
  <2> QED BY <1>1, <2>2 DEF Follows
<1> QED BY <1>2, <1>3, <1>4 DEF Follows, more

\* The frame of the message that is sent goes on where the last one ends.
LEMMA FollowsSent ==
  ASSUME NEW ls \in Seq(Nat), NEW m \in Nat, NEW n \in Nat,
         NEW u, Follows(ls, u, m, FALSE)
  PROVE  Follows(Append(ls, n), u \o Frame(Len(ls) + 1, n), m, FALSE)
<1> DEFINE more == Append(ls, n)  k == Len(ls) + 1  f == Frame(k, n)  w == u \o f
           lu == Len(u)  lf == 2 + n  lw == Len(w)
<1>1. /\ Len(ls) \in Nat /\ Len(more) = k /\ more[k] = n /\ Known(ls) \subseteq Known(more)
      /\ \A b \in Known(ls) : Succ(more, b) = Succ(ls, b)
      /\ ls \in Seq(Nat)
  BY KnownGrows, LenProperties
<1>2. k \in Nat /\ k >= 1 /\ lf \in Nat /\ lf >= 2 /\ k = Len(ls) + 1
  BY <1>1
<1> HIDE DEF more, k
<1>3. Len(f) = lf /\ (\A p \in 1 .. lf : f[p] = <<k, p>>) /\ f \in Seq(Known(more))
  <2>1. \A p \in 1 .. lf : <<k, p>> \in Known(more)
    <3> TAKE p \in 1 .. lf
    <3>1. <<k, p>> \in Nat \X Nat /\ k \in 1 .. k /\ p \in 1 .. 2 + n
      BY <1>2
    <3> QED BY <1>1, <3>1 DEF Known
  <2>2. \A S : (\A p \in 1 .. lf : <<k, p>> \in S) => f \in Seq(S)
    BY Frames
  <2>3. Len(f) = lf /\ \A p \in 1 .. lf : f[p] = <<k, p>>
    BY Frames
  <2> QED BY <2>1, <2>2, <2>3
<1> HIDE DEF f, lf
<1>4. /\ u \in Seq(Known(ls)) /\ m <= Len(ls)
      /\ u # <<>> => u[1] = <<m + 1, 1>>
      /\ \A i \in 1 .. lu - 1 : u[i + 1] = Succ(ls, u[i])
      /\ IF u = <<>> THEN m = Len(ls) ELSE u[lu] = <<Len(ls), 2 + ls[Len(ls)]>>
  BY DEF Follows
<1>5. u \in Seq(Known(more)) /\ lu \in Nat /\ \A i \in 1 .. lu : u[i] \in Known(ls)
  BY <1>1, <1>4, SeqMonotonic, LenProperties, ElementOfSeq
<1>6. /\ w \in Seq(Known(more)) /\ lw = lu + lf
      /\ \A i \in 1 .. lu + lf : w[i] = IF i <= lu THEN u[i] ELSE f[i - lu]
  <2>1. /\ w \in Seq(Known(more)) /\ lw = Len(u) + Len(f)
        /\ \A i \in 1 .. Len(u) + Len(f) : w[i] = IF i <= Len(u) THEN u[i] ELSE f[i - Len(u)]
    BY <1>3, <1>5, ConcatProperties
  <2> QED BY <1>3, <2>1
<1> HIDE DEF w, lw, lu
<1>7. \A i \in 1 .. lu : w[i] = u[i]
  <2> TAKE i \in 1 .. lu
  <2>1. i \in 1 .. lu + lf /\ i <= lu
    BY <1>2, <1>5
  <2> QED BY <1>6, <2>1
<1>8. \A p \in 1 .. lf : w[lu + p] = <<k, p>>
  <2> TAKE p \in 1 .. lf
  <2> DEFINE j == lu + p
  <2>1. j \in 1 .. lu + lf /\ ~(j <= lu) /\ j - lu = p
    BY <1>2, <1>5
  <2> HIDE DEF j
  <2>2. w[j] = <<k, p>>
    BY <1>3, <1>6, <2>1
  <2> QED BY <2>2 DEF j
<1>9. w[1] = <<m + 1, 1>>
  <2>1. CASE u = <<>>
    <3>1. lu = 0
      BY <2>1 DEF lu
    <3>2. 1 \in 1 .. lf /\ lu + 1 = 1
      BY <1>2, <3>1
    <3>3. w[1] = <<k, 1>>
      BY <1>8, <3>2
    <3>4. m + 1 = k
      BY <1>2, <1>4, <2>1
    <3> QED BY <3>3, <3>4
  <2>2. CASE u # <<>>
    <3>1. lu # 0
      BY <1>5, <2>2, EmptySeq DEF lu
    <3>2. 1 \in 1 .. lu
      BY <1>5, <3>1
    <3> QED BY <1>4, <1>7, <2>2, <3>2
  <2> QED BY <2>1, <2>2
<1>10. ASSUME NEW i \in 1 .. lw - 1 PROVE w[i + 1] = Succ(more, w[i])
  <2> DEFINE j == i + 1
  <2>1. i \in Nat /\ i >= 1 /\ j = i + 1 /\ j <= lu + lf
    BY <1>2, <1>5, <1>6
  <2> SUFFICES w[j] = Succ(more, w[i])
    OBVIOUS
  <2> HIDE DEF j
  <2>2. CASE j <= lu
    <3>1. i \in 1 .. lu - 1 /\ i \in 1 .. lu /\ j \in 1 .. lu
      BY <1>5, <2>1, <2>2
    <3>2. u[j] = Succ(ls, u[i])
      BY <1>4, <2>1, <3>1
    <3>3. Succ(more, u[i]) = Succ(ls, u[i])
      BY <1>1, <1>5, <3>1
    <3> QED BY <1>7, <3>1, <3>2, <3>3
  <2>3. CASE i = lu
    <3>1. lu # 0 /\ lu \in 1 .. lu /\ 1 \in 1 .. lf /\ j = lu + 1
      BY <1>2, <1>5, <2>1, <2>3
    <3>2. w[j] = <<k, 1>>
      BY <1>8, <3>1
    <3>3. u # <<>>
      BY <3>1 DEF lu
    <3>4. w[i] = <<Len(ls), 2 + ls[Len(ls)]>>
      BY <1>4, <1>7, <2>3, <3>1, <3>3
    <3>5. w[i] \in Known(ls)
      BY <1>5, <1>7, <2>3, <3>1
    <3>6. Succ(more, w[i]) = Succ(ls, w[i])
      BY <1>1, <3>5
    <3>7. ls[Len(ls)] \in Nat
      <4>1. w[i][1] = Len(ls) /\ ls[w[i][1]] \in Nat
        BY <1>1, <3>4, <3>5, KnownBytes
      <4> QED BY <4>1
    <3>8. Succ(ls, <<Len(ls), 2 + ls[Len(ls)]>>) = <<k, 1>>
      <4>1. ~(2 + ls[Len(ls)] < 2 + ls[Len(ls)])
        BY <3>7
      <4> QED BY <1>2, <4>1 DEF Succ
    <3> QED BY <3>2, <3>4, <3>6, <3>8
  <2>4. CASE i > lu
    <3> DEFINE p == i - lu  q == p + 1
    <3>1. p \in 1 .. lf /\ q \in 1 .. lf /\ lu + p = i /\ lu + q = j /\ p < lf
      BY <1>2, <1>5, <2>1, <2>4
    <3>2. w[i] = <<k, p>> /\ w[j] = <<k, q>>
      <4> HIDE DEF p, q
      <4> QED BY <1>8, <3>1
    <3>3. Succ(more, <<k, p>>) = <<k, q>>
      <4>1. p < 2 + more[k]
        BY <1>1, <3>1 DEF lf
      <4> QED BY <4>1 DEF Succ
    <3> QED BY <3>2, <3>3
  <2> QED BY <1>5, <2>1, <2>2, <2>3, <2>4
<1>11. w[lw] = <<Len(more), 2 + more[Len(more)]>> /\ w # <<>>
  <2>1. lf \in 1 .. lf /\ lw = lu + lf /\ lw # 0
    BY <1>2, <1>5, <1>6
  <2>2. w[lw] = <<k, lf>>
    BY <1>8, <2>1
  <2>3. w # <<>>
    BY <2>1 DEF lw
  <2> QED BY <1>1, <2>2, <2>3 DEF lf
<1>12. m <= Len(more)
  BY <1>1, <1>2, <1>4
<1>13. Follows(more, w, m, FALSE)
  BY <1>6, <1>9, <1>10, <1>11, <1>12 DEF Follows, lw
<1> QED BY <1>13 DEF w, f, more, k
-----------------------------------------------------------------------------
(* The second invariant: the bytes on their way *)

\* What is still to come to the receiver, and all that it has not told. Of a broken
\* connection nothing comes.
Coming == IF broken THEN <<>> ELSE wire \o (Unwritten \o push)
Under == InHand \o (Unread \o Coming)

\* The data of message k of length n.
Data(k, n) == [p \in 1 .. n |-> <<k, 2 + p>>]

\* The bytes between send() and the messages told go on where the last message told
\* ends, byte by byte.
WayInv ==
  /\ push \in Seq(Stuff)
  /\ broken => wire = <<>>
  /\ Follows(lens, Under, Len(told), broken)

\* The receiver took nothing that it did not get, and no recv() ended with the first half
\* of a length behind other bytes.
EndInv ==
  /\ read >= 0 /\ ~crashed
  /\ Len(chunk) > 1 => chunk[Len(chunk)][2] # 1

\* Every message told has the data of the message sent with its number, also where the
\* connection broke or a buffer overran: no message is changed, doubled or passed over.
TellsWhatWasSent ==
  Len(told) <= Len(lens) /\ \A k \in 1 .. Len(told) : told[k] = Data(k, lens[k])

\* The second invariant, for a network relied on for "header".
ChainInv == WayInv /\ EndInv /\ TellsWhatWasSent

\* The parts of the way are made of bytes.
LEMMA Pieces ==
  ASSUME TypeInv, push \in Seq(Stuff)
  PROVE  /\ lens \in Seq(Nat) /\ Len(lens) \in Nat /\ Len(told) \in Nat
         /\ wire \in Seq(Stuff) /\ chunk \in Seq(Stuff) /\ write \in Seq(Stuff)
         /\ header \in Seq(Stuff) /\ buffer \in Seq(Stuff) /\ InHand \in Seq(Stuff)
         /\ Unwritten \in Seq(Stuff) /\ Coming \in Seq(Stuff)
         /\ Sent \cup {Stale} \subseteq Stuff
<1>1. Sent \cup {Stale} \subseteq Stuff
  BY Constants DEF Sent, Bytes, Stuff
<1>2. \A s \in Seq(Sent) : s \in Seq(Stuff)
  <2>1. Sent \subseteq Stuff
    BY <1>1
  <2> QED BY <2>1, SeqMonotonic
<1>3. wire \in Seq(Stuff) /\ chunk \in Seq(Stuff) /\ write \in Seq(Stuff) /\ buffer \in Seq(Stuff)
  BY <1>2 DEF TypeInv, Buffers
<1>4. header \in Seq(Stuff)
  BY <1>1, SeqMonotonic DEF TypeInv, Reading
<1>5. InHand \in Seq(Stuff)
  BY <1>3, <1>4, ConcatProperties DEF InHand
<1>6. Unwritten \in Seq(Stuff)
  <2>1. point \in 0 .. Len(write) /\ Len(write) \in Nat
    BY LenProperties DEF TypeInv, Buffers
  <2>2. point \in point .. Len(write)
    BY <2>1
  <2> QED BY <1>3, <2>1, <2>2, TwoParts DEF Unwritten
<1>7. wire \o (Unwritten \o push) \in Seq(Stuff)
  <2>1. Unwritten \o push \in Seq(Stuff)
    BY <1>6, ConcatProperties
  <2> QED BY <1>3, <2>1, ConcatProperties
<1>8. Coming \in Seq(Stuff)
  BY <1>7, EmptySeq DEF Coming
<1>9. lens \in Seq(Nat)
  BY SeqMonotonic, Constants DEF TypeInv, Buffers
<1>10. Len(lens) \in Nat /\ Len(told) \in Nat
  BY <1>9, LenProperties DEF TypeInv, Buffers
<1> QED BY <1>1, <1>3, <1>4, <1>5, <1>6, <1>8, <1>9, <1>10

\* What is unread is what is left of m_recvBuffer.
LEMMA UnreadIs ==
  ASSUME TypeInv, push \in Seq(Stuff), read >= 0
  PROVE  /\ Unread \in Seq(Stuff) /\ Len(Unread) = read /\ read \in 0 .. Len(chunk)
         /\ Unread \o Coming \in Seq(Stuff) /\ Under \in Seq(Stuff)
         /\ Len(chunk) \in Nat
<1>1. chunk \in Seq(Stuff) /\ Len(chunk) \in Nat /\ Coming \in Seq(Stuff) /\ InHand \in Seq(Stuff)
  BY Pieces, LenProperties
<1> DEFINE a == Len(chunk) - read  l == Len(chunk)
<1>2. read \in 0 .. Len(chunk)
  BY <1>1 DEF TypeInv, Reading
<1>3. a \in 0 .. l /\ l - a = read /\ a \in a .. l /\ l \in Nat
  BY <1>1, <1>2
<1> HIDE DEF a
<1>4. Unread \in Seq(Stuff) /\ Len(Unread) = read
  <2>1. SubSeq(chunk, a + 1, l) \in Seq(Stuff) /\ Len(SubSeq(chunk, a + 1, l)) = l - a
    BY <1>1, <1>3, TwoParts
  <2> QED BY <1>3, <2>1 DEF Unread, a
<1>5. Unread \o Coming \in Seq(Stuff)
  BY <1>1, <1>4, ConcatProperties
<1> QED BY <1>1, <1>2, <1>4, <1>5, ConcatProperties DEF Under

\* Nothing is under way.
LEMMA WayInit == Init => ChainInv
<1> SUFFICES ASSUME Init PROVE ChainInv
  OBVIOUS
<1>1. \A S : <<>> \in Seq(S) /\ <<>> \o <<>> = <<>>
  BY EmptySeq, ConcatEmptySeq
<1>2. Len(<<>>) = 0 /\ SubSeq(<<>>, 1, 0) = <<>> /\ 0 - 0 + 1 = 1 /\ 0 + 1 = 1
  OBVIOUS
<1>3. Unread = <<>> /\ Unwritten = <<>>
  BY <1>2 DEF Init, Unread, Unwritten
<1>4. Coming = <<>> /\ InHand = <<>> /\ Under = <<>>
  BY <1>1, <1>3 DEF Init, Coming, Under, InHand
<1>5. Follows(<<>>, <<>>, 0, FALSE)
  BY <1>1, <1>2 DEF Follows
<1>6. WayInv
  BY <1>1, <1>2, <1>4, <1>5 DEF WayInv, Init
<1>7. EndInv /\ TellsWhatWasSent
  BY <1>2 DEF EndInv, TellsWhatWasSent, Init
<1> QED BY <1>6, <1>7 DEF ChainInv

\* A step that takes no byte away and brings none.
LEMMA WayStays ==
  ASSUME WayInv, Under' = Under, push' \in Seq(Stuff), (broken => wire = <<>>)',
         UNCHANGED <<lens, told, broken>>
  PROVE  WayInv'
BY DEF WayInv

\* A step that leaves m_recvBuffer alone.
LEMMA EndStays ==
  ASSUME EndInv, UNCHANGED <<read, crashed, chunk>>
  PROVE  EndInv'
BY DEF EndInv

\* A step that tells nothing.
LEMMA TellsStays ==
  ASSUME TellsWhatWasSent, UNCHANGED <<told, lens>>
  PROVE  TellsWhatWasSent'
BY DEF TellsWhatWasSent

\* Bytes move, from one buffer to the next.
Moves == Under' = Under /\ UNCHANGED <<lens, told, broken>>

\* A step of the sender that moves bytes towards the wire.
LEMMA SenderMoves ==
  ASSUME ChainInv, Coming' = Coming, push' \in Seq(Stuff), (broken => wire = <<>>)',
         UNCHANGED <<lens, broken>>, UNCHANGED receiver
  PROVE  ChainInv' /\ Moves
<1>1. UNCHANGED <<chunk, read, mread, header, buffer, crashed, told>>
  BY DEF receiver
<1>2. Under' = Under
  BY <1>1 DEF Under, InHand, Unread
<1> QED BY <1>1, <1>2, WayStays, EndStays, TellsStays DEF ChainInv, Moves

\* The steps of onCanWrite() that move no byte.
LEMMA WayOfWriterRest ==
  ASSUME ChainInv, CanWrite \/ NothingToWrite \/ WouldBlock \/ WriteFails \/ UNCHANGED vars
  PROVE  ChainInv' /\ Moves
<1>1. UNCHANGED <<lens, push, write, point, wire, broken>> /\ UNCHANGED receiver
  BY DEF CanWrite, NothingToWrite, WouldBlock, WriteFails, vars, sender
<1>2. Coming' = Coming
  BY <1>1 DEF Coming, Unwritten
<1>3. push' \in Seq(Stuff) /\ (broken => wire = <<>>)'
  BY <1>1 DEF ChainInv, WayInv
<1> QED BY <1>1, <1>2, <1>3, SenderMoves

\* The two buffers of the sender change places.
LEMMA WayOfSwapBuffers ==
  ASSUME TypeInv, ChainInv, SwapBuffers
  PROVE  ChainInv' /\ Moves
<1>1. /\ write = <<>> /\ write' = push /\ push' = <<>>
      /\ UNCHANGED <<lens, point, wire, broken>> /\ UNCHANGED receiver
  BY DEF SwapBuffers
<1>2. push \in Seq(Stuff) /\ Len(push) \in Nat /\ <<>> \in Seq(Stuff) /\ (broken => wire = <<>>)
  BY EmptySeq, LenProperties DEF ChainInv, WayInv
<1>3. point = 0 /\ Len(<<>>) = 0
  BY <1>1 DEF TypeInv, Buffers
<1>4. Unwritten \o push = push
  <2>1. Unwritten = <<>>
    BY <1>1, <1>3 DEF Unwritten
  <2> QED BY <1>2, <2>1, ConcatEmptySeq
<1>5. Unwritten' \o push' = push
  <2>1. Unwritten' = SubSeq(push, 1, Len(push))
    <3>1. point' = 0 /\ write' = push /\ 0 + 1 = 1
      BY <1>1, <1>3
    <3> QED BY <3>1 DEF Unwritten
  <2>2. Unwritten' = push
    BY <1>2, <2>1, SubSeqFull
  <2> QED BY <1>1, <1>2, <2>2, ConcatEmptySeq
<1>6. Coming' = Coming
  BY <1>1, <1>4, <1>5 DEF Coming
<1> QED BY <1>1, <1>2, <1>6, SenderMoves

\* Bytes move from the write buffer to the wire.
LEMMA WayOfWriteSome ==
  ASSUME TypeInv, ChainInv, NEW n \in 1 .. BufLen, WriteSome(n)
  PROVE  ChainInv' /\ Moves
<1>1. /\ ~broken /\ n <= Len(write) - point
      /\ wire' = wire \o SubSeq(write, point + 1, point + n)
      /\ IF point + n = Len(write)
           THEN write' = <<>> /\ point' = 0
           ELSE point' = point + n /\ write' = write
      /\ UNCHANGED <<lens, push, broken>> /\ UNCHANGED receiver
  BY DEF WriteSome
<1>2. /\ push \in Seq(Stuff) /\ <<>> \in Seq(Stuff) /\ write \in Seq(Stuff) /\ wire \in Seq(Stuff)
      /\ point \in 0 .. Len(write) /\ Len(write) \in Nat /\ n \in Nat
  BY Pieces, EmptySeq, LenProperties DEF ChainInv, WayInv, TypeInv, Buffers
<1> DEFINE m == point + n
           part == SubSeq(write, point + 1, m)
           rest == SubSeq(write, m + 1, Len(write))
<1>3. m \in point .. Len(write) /\ m \in Nat
  BY <1>1, <1>2
<1>4. part \in Seq(Stuff) /\ rest \in Seq(Stuff) /\ Unwritten = part \o rest
  <2>1. SubSeq(write, point + 1, m) \in Seq(Stuff) /\ SubSeq(write, m + 1, Len(write)) \in Seq(Stuff)
    <3> HIDE DEF m
    <3> QED BY <1>2, <1>3, TwoParts
  <2>2. Unwritten = SubSeq(write, point + 1, m) \o SubSeq(write, m + 1, Len(write))
    <3> HIDE DEF m
    <3> QED BY <1>2, <1>3, PartsJoined DEF Unwritten
  <2> QED BY <2>1, <2>2
<1>5. Unwritten' = rest
  <2>1. CASE m = Len(write)
    <3>1. write' = <<>> /\ point' = 0
      BY <1>1, <2>1
    <3>2. Unwritten' = <<>>
      BY <3>1 DEF Unwritten
    <3>3. rest = <<>>
      <4>1. Len(write) < m + 1 /\ m + 1 \in Int /\ Len(write) \in Int
        BY <1>2, <2>1
      <4> HIDE DEF m
      <4> QED BY <4>1, SubSeqEmpty
    <3> QED BY <3>2, <3>3
  <2>2. CASE m # Len(write)
    <3>1. write' = write /\ point' = m
      BY <1>1, <2>2
    <3> QED BY <3>1 DEF Unwritten
  <2> QED BY <2>1, <2>2
<1> HIDE DEF part, rest, m
<1>6. wire' = wire \o part
  BY <1>1 DEF part, m
<1>7. (wire \o part) \o (rest \o push) = wire \o ((part \o rest) \o push)
  <2>1. wire \in Seq(Stuff) /\ part \in Seq(Stuff) /\ rest \in Seq(Stuff) /\ push \in Seq(Stuff)
    BY <1>2, <1>4
  <2>2. Join(rest, push) \in Seq(Stuff)
    BY <2>1, Joining
  <2>3. Join(Join(wire, part), Join(rest, push)) = Join(wire, Join(Join(part, rest), push))
    BY <2>1, <2>2, Joining
  <2> QED BY <2>3 DEF Join
<1>8. Coming' = Coming
  <2>1. Coming = wire \o ((part \o rest) \o push)
    BY <1>1, <1>4 DEF Coming
  <2>2. Coming' = (wire \o part) \o (rest \o push)
    BY <1>1, <1>5, <1>6 DEF Coming
  <2> QED BY <1>7, <2>1, <2>2
<1>9. push' \in Seq(Stuff) /\ (broken => wire = <<>>)'
  BY <1>1, <1>2
<1> QED BY <1>1, <1>8, <1>9, SenderMoves

\* What the receiver holds of a broken connection is the front of what it would have
\* got.
LEMMA WayOfBreak ==
  ASSUME TypeInv, ChainInv, Break
  PROVE  ChainInv'
<1>1. /\ ~broken /\ broken' = TRUE /\ wire' = <<>>
      /\ UNCHANGED <<lens, push, write, point>>
      /\ UNCHANGED <<chunk, read, mread, header, buffer, crashed, told>>
  BY DEF Break, sender, receiver
<1>2. push \in Seq(Stuff) /\ read >= 0 /\ Follows(lens, Under, Len(told), broken)
  BY DEF ChainInv, WayInv, EndInv
<1>3. /\ lens \in Seq(Nat) /\ Len(told) \in Nat /\ InHand \in Seq(Stuff)
      /\ Unread \in Seq(Stuff) /\ Coming \in Seq(Stuff)
  BY <1>2, Pieces, UnreadIs
<1> DEFINE u == InHand \o Unread
<1>4. u \in Seq(Stuff) /\ u \o Coming = Under
  <2>1. Join(Join(InHand, Unread), Coming) = Join(InHand, Join(Unread, Coming))
    BY <1>3, Joining
  <2>2. u \in Seq(Stuff)
    BY <1>3, ConcatProperties
  <2> QED BY <2>1, <2>2 DEF Under, Join
<1>5. Follows(lens, u, Len(told), TRUE)
  <2> HIDE DEF u
  <2>1. Follows(lens, u \o Coming, Len(told), broken)
    BY <1>2, <1>4
  <2> QED BY <1>3, <1>4, <2>1, FollowsCut
<1>6. Under' = InHand \o Unread
  <2>1. InHand' = InHand /\ Unread' = Unread /\ Coming' = <<>>
    BY <1>1 DEF InHand, Unread, Coming
  <2>2. Unread \o <<>> = Unread
    BY <1>3, ConcatEmptySeq
  <2> QED BY <2>1, <2>2 DEF Under
<1>7. WayInv'
  <2>1. Follows(lens', Under', Len(told'), broken')
    BY <1>1, <1>5, <1>6
  <2> QED BY <1>1, <1>2, <2>1 DEF WayInv
<1> QED BY <1>1, <1>7, EndStays, TellsStays DEF ChainInv
-----------------------------------------------------------------------------
(* It holds: recv() and the length *)

\* A sequence is its first n elements and the rest.
LEMMA FrontPart ==
  ASSUME NEW S, NEW s \in Seq(S), NEW n \in 0 .. Len(s)
  PROVE  /\ SubSeq(s, 1, n) \in Seq(S) /\ SubSeq(s, n + 1, Len(s)) \in Seq(S)
         /\ Len(SubSeq(s, 1, n)) = n
         /\ \A i \in 1 .. n : SubSeq(s, 1, n)[i] = s[i]
         /\ s = SubSeq(s, 1, n) \o SubSeq(s, n + 1, Len(s))
<1> DEFINE a == 0
<1>1. /\ a \in 0 .. Len(s) /\ n \in a .. Len(s) /\ n - a = n /\ a + 1 = 1
      /\ \A i \in 1 .. n : a + i = i
  BY LenProperties
<1> HIDE DEF a
<1>2. /\ SubSeq(s, a + 1, n) \in Seq(S) /\ SubSeq(s, n + 1, Len(s)) \in Seq(S)
      /\ Len(SubSeq(s, a + 1, n)) = n - a
      /\ \A i \in 1 .. n - a : SubSeq(s, a + 1, n)[i] = s[a + i]
      /\ SubSeq(s, a + 1, Len(s)) = SubSeq(s, a + 1, n) \o SubSeq(s, n + 1, Len(s))
  <2>1. /\ SubSeq(s, a + 1, n) \in Seq(S) /\ SubSeq(s, n + 1, Len(s)) \in Seq(S)
        /\ Len(SubSeq(s, a + 1, n)) = n - a
    BY <1>1, TwoParts
  <2>2. \A i \in 1 .. n - a : SubSeq(s, a + 1, n)[i] = s[a + i]
    BY <1>1, TwoParts
  <2>3. SubSeq(s, a + 1, Len(s)) = SubSeq(s, a + 1, n) \o SubSeq(s, n + 1, Len(s))
    BY <1>1, PartsJoined
  <2> QED BY <2>1, <2>2, <2>3
<1>3. SubSeq(s, 1, Len(s)) = s
  BY SubSeqFull
<1>4. \A i \in 1 .. n : SubSeq(s, 1, n)[i] = s[i]
  BY <1>1, <1>2
<1>5. s = SubSeq(s, 1, n) \o SubSeq(s, n + 1, Len(s))
  BY <1>1, <1>2, <1>3
<1> QED BY <1>1, <1>2, <1>4, <1>5

\* n bytes are taken from the front of what is unread.
LEMMA Taken ==
  ASSUME TypeInv, push \in Seq(Stuff), read >= 0, NEW n \in 0 .. read,
         NEW rest, rest = SubSeq(chunk, Len(chunk) - (read - n) + 1, Len(chunk))
  PROVE  /\ Unused(n) \in Seq(Stuff) /\ Len(Unused(n)) = n
         /\ rest \in Seq(Stuff)
         /\ Unread = Unused(n) \o rest
<1> DEFINE l == Len(chunk)  a == l - read  m == a + n
<1>1. chunk \in Seq(Stuff) /\ l \in Nat /\ read \in 0 .. l
  BY Pieces, UnreadIs
<1>2. Unused(n) = SubSeq(chunk, a + 1, m) /\ Unused(n) \in Seq(Stuff) /\ Len(Unused(n)) = n
  BY <1>1, UnusedIsReceived
<1>3. a \in 0 .. l /\ m \in a .. l /\ l - (read - n) + 1 = m + 1
  BY <1>1
<1>4. rest = SubSeq(chunk, m + 1, l) /\ Unread = SubSeq(chunk, a + 1, l)
  BY <1>3 DEF Unread
<1> HIDE DEF a, m
<1>5. /\ SubSeq(chunk, m + 1, l) \in Seq(Stuff)
      /\ SubSeq(chunk, a + 1, l) = SubSeq(chunk, a + 1, m) \o SubSeq(chunk, m + 1, l)
  BY <1>1, <1>3, TwoParts
<1> QED BY <1>2, <1>4, <1>5

\* Where the next message begins.
LEMMA FirstUnread ==
  ASSUME TypeInv, ChainInv, read > 0, header = <<>>, buffer = <<>>
  PROVE  chunk[Len(chunk) - read + 1][2] = 1
<1> DEFINE l == Len(chunk)  a == l - read  uc == Unread \o Coming
<1>1. push \in Seq(Stuff) /\ read >= 0
  BY DEF ChainInv, WayInv, EndInv
<1>2. /\ chunk \in Seq(Stuff) /\ l \in Nat /\ read \in 0 .. l /\ Unread \in Seq(Stuff)
      /\ Len(Unread) = read /\ Coming \in Seq(Stuff) /\ uc \in Seq(Stuff)
      /\ Len(Coming) \in Nat
  BY <1>1, Pieces, UnreadIs, LenProperties
<1>3. Unread[1] = chunk[a + 1]
  <2>1. a \in 0 .. l /\ l \in a .. l /\ 1 \in 1 .. l - a
    BY <1>2
  <2> HIDE DEF a
  <2>2. \A i \in 1 .. l - a : SubSeq(chunk, a + 1, l)[i] = chunk[a + i]
    BY <1>2, <2>1, TwoParts
  <2>3. SubSeq(chunk, a + 1, l)[1] = chunk[a + 1]
    BY <2>1, <2>2
  <2> QED BY <2>3 DEF Unread, a
<1>4. Under = uc
  <2>1. InHand = <<>>
    BY EmptySeq, ConcatEmptySeq DEF InHand
  <2> QED BY <1>2, <2>1, ConcatEmptySeq DEF Under
<1>5. uc[1] = Unread[1] /\ uc # <<>>
  <2>1. /\ Len(uc) = Len(Unread) + Len(Coming)
        /\ \A i \in 1 .. Len(Unread) + Len(Coming) :
             uc[i] = IF i <= Len(Unread) THEN Unread[i] ELSE Coming[i - Len(Unread)]
    BY <1>2, ConcatProperties
  <2> HIDE DEF uc
  <2>2. 1 \in 1 .. Len(Unread) + Len(Coming) /\ 1 <= Len(Unread) /\ Len(uc) # 0
    BY <1>2, <2>1
  <2>3. uc # <<>>
    BY <2>2, EmptySeq
  <2> QED BY <2>1, <2>2, <2>3
<1> HIDE DEF uc
<1>6. Under[1] = <<Len(told) + 1, 1>>
  BY <1>4, <1>5 DEF ChainInv, WayInv, Follows
<1> QED BY <1>3, <1>4, <1>5, <1>6

\* recv() moves bytes from the wire to m_recvBuffer.
LEMMA WayOfRecv ==
  ASSUME "header" \in Keeps, TypeInv, ChainInv, NEW n \in 1 .. BufLen, Recv(n)
  PROVE  ChainInv' /\ Moves
<1>1. /\ read = 0 /\ ~crashed /\ n <= Len(wire)
      /\ ~CutsHeader(n)
      /\ chunk' = SubSeq(wire, 1, n)
      /\ wire' = SubSeq(wire, n + 1, Len(wire))
      /\ read' = n
      /\ UNCHANGED <<lens, push, write, point, broken>>
      /\ UNCHANGED <<header, buffer, crashed, told>>
  BY DEF Recv, sender
<1>2. /\ push \in Seq(Stuff) /\ read >= 0 /\ Coming \in Seq(Stuff)
      /\ wire \in Seq(Stuff) /\ Unwritten \in Seq(Stuff) /\ Len(wire) \in Nat /\ n \in Nat /\ n >= 1
  BY Pieces, LenProperties, Constants DEF ChainInv, WayInv, EndInv
<1>3. ~broken
  <2>1. wire # <<>>
    <3>1. Len(wire) # 0
      BY <1>1, <1>2
    <3> QED BY <3>1
  <2> QED BY <2>1 DEF ChainInv, WayInv
<1> DEFINE part == SubSeq(wire, 1, n)  rest == SubSeq(wire, n + 1, Len(wire))  up == Unwritten \o push
<1>4. /\ part \in Seq(Stuff) /\ rest \in Seq(Stuff) /\ wire = part \o rest /\ Len(part) = n
      /\ part[n] = wire[n]
  <2>1. n \in 0 .. Len(wire) /\ n \in 1 .. n
    BY <1>1, <1>2
  <2> QED BY <1>2, <2>1, FrontPart
<1>5. up \in Seq(Stuff)
  BY <1>2, ConcatProperties
<1> HIDE DEF part, rest, up
<1>6. Unread = <<>> /\ Coming = wire \o up
  <2>1. chunk \in Seq(Stuff) /\ Len(Unread) = 0 /\ Unread \in Seq(Stuff)
    BY <1>1, <1>2, UnreadIs, Pieces
  <2> QED BY <1>3, <2>1, EmptySeq DEF Coming, up
<1>7. Unread' = part /\ Coming' = rest \o up
  <2>1. chunk' = part /\ read' = n /\ wire' = rest
    BY <1>1 DEF part, rest
  <2>2. n - n + 1 = 1
    BY <1>2
  <2>3. Unread' = SubSeq(part, 1, n)
    BY <1>4, <2>1, <2>2 DEF Unread
  <2>4. SubSeq(part, 1, n) = part
    BY <1>4, SubSeqFull
  <2>5. Coming' = rest \o up
    BY <1>1, <1>3, <2>1 DEF Coming, Unwritten, up
  <2> QED BY <2>3, <2>4, <2>5
<1>8. <<>> \o (wire \o up) = part \o (rest \o up)
  <2>1. wire \o up = part \o (rest \o up)
    <3>1. Join(Join(part, rest), up) = Join(part, Join(rest, up))
      BY <1>4, <1>5, Joining
    <3> QED BY <1>4, <3>1 DEF Join
  <2>2. wire \o up \in Seq(Stuff)
    BY <1>2, <1>5, ConcatProperties
  <2> DEFINE wu == wire \o up
  <2> HIDE DEF wu
  <2>3. <<>> \o wu = wu
    BY <2>2, ConcatEmptySeq DEF wu
  <2> QED BY <2>1, <2>3 DEF wu
<1>9. Under' = Under
  <2>1. InHand' = InHand
    BY <1>1 DEF InHand
  <2>2. Unread \o Coming = <<>> \o (wire \o up) /\ (Unread \o Coming)' = part \o (rest \o up)
    BY <1>6, <1>7
  <2> QED BY <1>8, <2>1, <2>2 DEF Under
<1>10. WayInv'
  <2>1. push' \in Seq(Stuff) /\ (broken => wire = <<>>)'
    BY <1>1, <1>2, <1>3
  <2> QED BY <1>1, <1>9, <2>1, WayStays DEF ChainInv
<1>11. EndInv'
  <2>1. read' >= 0 /\ ~crashed'
    BY <1>1, <1>2
  <2>2. (Len(chunk) > 1 => chunk[Len(chunk)][2] # 1)'
    <3>1. chunk' = part /\ Len(part) = n
      BY <1>1, <1>4 DEF part
    <3>2. n > 1 => wire[n][2] # 1
      BY <1>1 DEF CutsHeader
    <3> QED BY <1>4, <3>1, <3>2
  <2> QED BY <2>1, <2>2 DEF EndInv
<1>12. TellsWhatWasSent'
  BY <1>1, TellsStays DEF ChainInv
<1> QED BY <1>1, <1>9, <1>10, <1>11, <1>12 DEF ChainInv, Moves

\* The length is read from bytes that are there: ret is read wherever a length begins.
LEMMA WayOfReadHeader ==
  ASSUME TypeInv, ChainInv, ReadHeader
  PROVE  ChainInv' /\ Moves
<1>1. /\ read > 0 /\ mread < 0
      /\ header' = header \o Unused(HeaderPart)
      /\ read' = read - HeaderPart
      /\ UNCHANGED <<lens, push, write, point, wire, broken>>
      /\ UNCHANGED <<chunk, buffer, crashed, told>>
  BY DEF ReadHeader, sender
<1> DEFINE h == HeaderPart
           part == Unused(HeaderPart)
           rest == SubSeq(chunk, Len(chunk) - (read - HeaderPart) + 1, Len(chunk))
<1>2. /\ mread \in {-2, -1} /\ Len(header) = 2 + mread /\ h \in 1 .. 2 /\ h <= Len(chunk)
      /\ read - h < 0 => read = 1 /\ h = 2 /\ mread = -2
  BY <1>1, PartOfHeader
<1>3. push \in Seq(Stuff) /\ read >= 0 /\ buffer = <<>> /\ read \in Int /\ Len(chunk) \in Nat
  BY <1>1, UnreadIs DEF ChainInv, WayInv, EndInv, TypeInv, Reading
<1>4. h \in 0 .. read
  <2> HIDE DEF h
  <2> SUFFICES ASSUME read - h < 0 PROVE FALSE
    BY <1>2, <1>3
  <2>1. read = 1 /\ h = 2 /\ Len(header) = 0
    BY <1>2
  <2>2. header = <<>>
    BY <2>1, EmptySeq DEF TypeInv, Reading
  <2>3. chunk[Len(chunk) - read + 1][2] = 1
    BY <1>1, <1>3, <2>2, FirstUnread
  <2>4. Len(chunk) - read + 1 = Len(chunk) /\ Len(chunk) > 1
    BY <1>2, <1>3, <2>1
  <2>5. chunk[Len(chunk)][2] = 1
    BY <2>3, <2>4
  <2> QED BY <2>4, <2>5 DEF ChainInv, EndInv
<1>5. /\ part \in Seq(Stuff) /\ rest \in Seq(Stuff) /\ Unread = part \o rest
      /\ header \in Seq(Stuff) /\ Coming \in Seq(Stuff)
  BY <1>3, <1>4, Taken, Pieces
<1>6. header' = header \o part /\ Unread' = rest
  BY <1>1 DEF Unread
<1> HIDE DEF part, rest, h
<1>7. InHand = header /\ InHand' = header \o part
  <2>1. header \o part \in Seq(Stuff)
    BY <1>5, ConcatProperties
  <2>2. (header \o part) \o <<>> = header \o part
    BY <2>1, ConcatEmptySeq
  <2> QED BY <1>1, <1>3, <1>5, <1>6, <2>2, ConcatEmptySeq DEF InHand
<1>8. Under' = Under
  <2>1. Coming' = Coming
    BY <1>1 DEF Coming, Unwritten
  <2>2. Under' = Join(Join(header, part), Join(rest, Coming))
    BY <1>6, <1>7, <2>1 DEF Under, Join
  <2>3. Under = Join(header, Join(Join(part, rest), Coming))
    BY <1>5, <1>7 DEF Under, Join
  <2>4. Join(rest, Coming) \in Seq(Stuff)
    BY <1>5, Joining
  <2> QED BY <1>5, <2>2, <2>3, <2>4, Joining
<1>9. WayInv'
  <2>1. push' \in Seq(Stuff) /\ (broken => wire = <<>>)'
    BY <1>1, <1>3 DEF ChainInv, WayInv
  <2> QED BY <1>1, <1>8, <2>1, WayStays DEF ChainInv
<1>10. EndInv'
  <2>1. read' >= 0
    BY <1>1, <1>3, <1>4 DEF h
  <2> QED BY <1>1, <2>1 DEF ChainInv, EndInv
<1> QED BY <1>1, <1>8, <1>9, <1>10, TellsStays DEF ChainInv, Moves
-----------------------------------------------------------------------------
(* It holds: the data *)

\* What ReadBody takes, if nothing was read too much before.
LEMMA BodyTaken ==
  ASSUME TypeInv, ChainInv, ReadBody,
         NEW part, part = Unused(BodyPart),
         NEW rest, rest = SubSeq(chunk, Len(chunk) - (read - BodyPart) + 1, Len(chunk))
  PROVE  /\ read > 0 /\ BodyPart \in 0 .. read /\ BodyPart \in Nat
         /\ mread + BodyPart <= Size /\ mread \in Nat
         /\ Size \in Nat /\ Len(header) = 2 /\ Len(buffer) = mread
         /\ part \in Seq(Stuff) /\ Len(part) = BodyPart
         /\ rest \in Seq(Stuff)
         /\ Unread = part \o rest
         /\ Unread' = rest
         /\ Coming' = Coming
         /\ EndInv'
<1>1. /\ read # 0 /\ ~crashed /\ mread >= 0
      /\ crashed' = (BodyPart < 0)
      /\ read' = read - BodyPart
      /\ UNCHANGED <<push, write, point, wire, broken, chunk>>
  BY DEF ReadBody, sender
<1>2. push \in Seq(Stuff) /\ read >= 0 /\ read \in Int
  BY DEF ChainInv, WayInv, EndInv, TypeInv, Reading
<1>3. read > 0
  BY <1>1, <1>2
<1>4. /\ Size \in Nat /\ mread \in 0 .. Size /\ Len(header) = 2 /\ Len(buffer) = mread
      /\ BodyPart \in 0 .. read /\ mread + BodyPart <= Size
  BY <1>1, <1>3, PartOfBody
<1>5. /\ part \in Seq(Stuff) /\ Len(part) = BodyPart /\ rest \in Seq(Stuff)
      /\ Unread = part \o rest
  BY <1>2, <1>4, Taken
<1>6. Unread' = rest /\ Coming' = Coming
  BY <1>1 DEF Unread, Coming, Unwritten
<1>7. EndInv'
  <2> DEFINE b == BodyPart  rd == read - BodyPart
  <2>1. rd >= 0 /\ ~(b < 0)
    BY <1>2, <1>4
  <2> HIDE DEF b, rd
  <2>2. read' = rd /\ crashed' = (b < 0) /\ chunk' = chunk
    BY <1>1 DEF b, rd
  <2> QED BY <2>1, <2>2 DEF ChainInv, EndInv
<1>8. BodyPart \in Nat /\ mread \in Nat
  BY <1>2, <1>4
<1> QED BY <1>3, <1>4, <1>5, <1>6, <1>7, <1>8

\* The two bytes of a length and the data behind them.
LEMMA LengthAndData ==
  ASSUME NEW S, NEW h \in Seq(S), NEW g \in Seq(S), Len(h) = 2, NEW n, n = Len(g)
  PROVE  /\ h \o g \in Seq(S) /\ Len(h \o g) = 2 + n /\ 2 + n \in Nat
         /\ (h \o g)[1] = h[1] /\ (h \o g)[2] = h[2]
         /\ \A p \in 1 .. n : (h \o g)[2 + p] = g[p]
<1> DEFINE u == h \o g
<1>1. /\ u \in Seq(S) /\ Len(u) = 2 + n /\ n \in Nat
      /\ \A i \in 1 .. 2 + n : u[i] = IF i <= 2 THEN h[i] ELSE g[i - 2]
  <2>1. /\ u \in Seq(S) /\ Len(u) = Len(h) + Len(g) /\ Len(g) \in Nat
        /\ \A i \in 1 .. Len(h) + Len(g) : u[i] = IF i <= Len(h) THEN h[i] ELSE g[i - Len(h)]
    BY ConcatProperties, LenProperties
  <2> HIDE DEF u
  <2> QED BY <2>1
<1> HIDE DEF u
<1>2. 1 \in 1 .. 2 + n /\ 2 \in 1 .. 2 + n /\ 2 + n \in Nat
  BY <1>1
<1>3. ASSUME NEW p \in 1 .. n PROVE u[2 + p] = g[p]
  <2> DEFINE i == 2 + p
  <2>1. i \in 1 .. 2 + n /\ ~(i <= 2) /\ i - 2 = p
    BY <1>1
  <2> HIDE DEF i
  <2>2. u[i] = g[p]
    BY <1>1, <2>1
  <2> QED BY <2>2 DEF i
<1>4. u[1] = h[1] /\ u[2] = h[2]
  BY <1>1, <1>2
<1> QED BY <1>1, <1>2, <1>3, <1>4 DEF u

\* A part of the data goes to the message in hand.
LEMMA WayOfReadBodyPart ==
  ASSUME TypeInv, ChainInv, ReadBody, mread + BodyPart < Size
  PROVE  ChainInv' /\ Moves
<1> DEFINE part == Unused(BodyPart)
           rest == SubSeq(chunk, Len(chunk) - (read - BodyPart) + 1, Len(chunk))
<1>1. /\ buffer' = buffer \o part /\ UNCHANGED <<header, told>>
      /\ UNCHANGED <<lens, push, wire, broken>>
  BY DEF ReadBody, sender
<1>2. /\ part \in Seq(Stuff) /\ rest \in Seq(Stuff) /\ Unread = part \o rest
      /\ Unread' = rest /\ Coming' = Coming /\ EndInv'
  BY BodyTaken
<1>3. /\ push \in Seq(Stuff) /\ header \in Seq(Stuff) /\ buffer \in Seq(Stuff)
      /\ Coming \in Seq(Stuff)
  BY Pieces DEF ChainInv, WayInv
<1> HIDE DEF part, rest
<1>4. Under' = Under
  <2>1. Under' = Join(Join(header, Join(buffer, part)), Join(rest, Coming))
    BY <1>1, <1>2 DEF Under, InHand, Join
  <2>2. Under = Join(Join(header, buffer), Join(Join(part, rest), Coming))
    BY <1>2 DEF Under, InHand, Join
  <2>3. Join(rest, Coming) \in Seq(Stuff) /\ Join(header, buffer) \in Seq(Stuff)
    BY <1>2, <1>3, Joining
  <2>4. Join(Join(part, rest), Coming) = Join(part, Join(rest, Coming))
    BY <1>2, <1>3, Joining
  <2>5. Join(header, Join(buffer, part)) = Join(Join(header, buffer), part)
    BY <1>2, <1>3, Joining
  <2>6. Join(Join(Join(header, buffer), part), Join(rest, Coming))
          = Join(Join(header, buffer), Join(part, Join(rest, Coming)))
    BY <1>2, <2>3, Joining
  <2> QED BY <2>1, <2>2, <2>4, <2>5, <2>6
<1>5. WayInv'
  <2>1. push' \in Seq(Stuff) /\ (broken => wire = <<>>)'
    BY <1>1, <1>3 DEF ChainInv, WayInv
  <2> QED BY <1>1, <1>4, <2>1, WayStays DEF ChainInv
<1> QED BY <1>1, <1>2, <1>4, <1>5, TellsStays DEF ChainInv, Moves

\* The message in hand is complete: it is the next one that was sent.
LEMMA WayOfReadBodyDone ==
  ASSUME TypeInv, ChainInv, ReadBody, ~(mread + BodyPart < Size),
         NEW got, got = buffer \o Unused(BodyPart)
  PROVE  /\ ChainInv' /\ UNCHANGED <<lens, broken>>
         /\ got \in Seq(Stuff) /\ Under' \in Seq(Stuff)
         /\ told' = Append(told, got)
         /\ header = Frame(Len(told) + 1, 0) /\ header \in Seq(Stuff)
         /\ Under = (header \o got) \o Under'
<1> DEFINE part == Unused(BodyPart)
           rest == SubSeq(chunk, Len(chunk) - (read - BodyPart) + 1, Len(chunk))
<1>1. /\ told' = Append(told, got) /\ buffer' = <<>> /\ header' = <<>>
      /\ UNCHANGED <<lens, push, wire, broken>>
  BY DEF ReadBody, sender
<1>2. /\ BodyPart \in Nat /\ mread + BodyPart <= Size /\ mread \in Nat
      /\ Size \in Nat /\ Len(header) = 2 /\ Len(buffer) = mread
      /\ part \in Seq(Stuff) /\ Len(part) = BodyPart
      /\ rest \in Seq(Stuff) /\ Unread = part \o rest
      /\ Unread' = rest /\ Coming' = Coming /\ EndInv'
  BY BodyTaken
<1> DEFINE u == header \o got
           v == rest \o Coming
           m == Len(told)
           k == m + 1
<1>3. /\ push \in Seq(Stuff) /\ header \in Seq(Stuff) /\ buffer \in Seq(Stuff)
      /\ Coming \in Seq(Stuff) /\ lens \in Seq(Nat) /\ m \in Nat /\ k \in Nat
  BY Pieces DEF ChainInv, WayInv
<1>4. told \in Seq(Seq(Stuff))
  <2>1. Sent \subseteq Stuff
    BY <1>3, Pieces
  <2>2. Seq(Sent) \subseteq Seq(Stuff)
    BY <2>1, SeqMonotonic
  <2> QED BY <2>2, SeqMonotonic DEF TypeInv, Buffers
<1> HIDE DEF part, rest
<1>5. got \in Seq(Stuff) /\ Len(got) = Size
  <2>1. got \in Seq(Stuff) /\ Len(got) = Len(buffer) + Len(part)
    BY <1>2, <1>3, ConcatProperties DEF part
  <2>2. mread + BodyPart = Size
    BY <1>2
  <2> QED BY <1>2, <2>1, <2>2
<1>6. /\ u \in Seq(Stuff) /\ Len(u) = 2 + Size /\ 2 + Size \in Nat
      /\ u[1] = header[1] /\ u[2] = header[2]
      /\ \A p \in 1 .. Size : u[2 + p] = got[p]
  <2>1. header \in Seq(Stuff) /\ got \in Seq(Stuff) /\ Len(header) = 2 /\ Size = Len(got)
    BY <1>2, <1>3, <1>5
  <2> QED BY ONLY <2>1, LengthAndData
<1>7. v \in Seq(Stuff)
  BY <1>2, <1>3, ConcatProperties
<1>8. Under = u \o v
  <2>1. Under = Join(Join(header, buffer), Join(Join(part, rest), Coming))
    BY <1>2 DEF Under, InHand, Join
  <2>2. u \o v = Join(Join(header, Join(buffer, part)), Join(rest, Coming))
    BY DEF Join, part
  <2>3. Join(rest, Coming) \in Seq(Stuff) /\ Join(header, buffer) \in Seq(Stuff)
    BY <1>2, <1>3, Joining
  <2>4. Join(Join(part, rest), Coming) = Join(part, Join(rest, Coming))
    BY <1>2, <1>3, Joining
  <2>5. Join(header, Join(buffer, part)) = Join(Join(header, buffer), part)
    BY <1>2, <1>3, Joining
  <2>6. Join(Join(Join(header, buffer), part), Join(rest, Coming))
          = Join(Join(header, buffer), Join(part, Join(rest, Coming)))
    BY <1>2, <2>3, Joining
  <2> QED BY <2>1, <2>2, <2>4, <2>5, <2>6
<1>9. Under' = v
  <2>1. InHand' = <<>>
    BY <1>1, EmptySeq, ConcatEmptySeq DEF InHand
  <2>2. Under' = <<>> \o v
    BY <1>2, <2>1 DEF Under
  <2> HIDE DEF v
  <2> QED BY <1>7, <2>2, ConcatEmptySeq
<1> HIDE DEF u, v, m, k
<1>10. /\ k \in 1 .. Len(lens) /\ Size = lens[k]
       /\ \A i \in 1 .. 2 + Size : u[i] = <<k, i>>
       /\ Follows(lens, v, k, broken)
  <2>1. Follows(lens, Join(u, v), m, broken)
    BY <1>8 DEF ChainInv, WayInv, m, Join
  <2>2. Size = lens[u[1][1]]
    BY <1>6 DEF Size
  <2> DEFINE size == Size
  <2>3. size \in Nat /\ size = lens[u[1][1]] /\ Len(u) = 2 + size
    BY <1>2, <1>6, <2>2
  <2> HIDE DEF size
  <2>4. /\ m + 1 \in 1 .. Len(lens) /\ size = lens[m + 1]
        /\ \A i \in 1 .. 2 + size : u[i] = <<m + 1, i>>
        /\ Follows(lens, v, m + 1, broken)
    <3>1. lens \in Seq(Nat) /\ m \in Nat /\ u \in Seq(Stuff) /\ v \in Seq(Stuff)
      BY <1>3, <1>6, <1>7
    <3>2. Done(lens, u, v, m + 1, size, broken)
      BY ONLY <3>1, <2>1, <2>3, FollowsDone
    <3> QED BY <3>2 DEF Done
  <2> QED BY <2>4 DEF size, k
<1>11. header = Frame(k, 0)
  <2>1. Frame(k, 0) \in Seq(Nat \X Nat) /\ Len(Frame(k, 0)) = 2
        /\ Frame(k, 0)[1] = <<k, 1>> /\ Frame(k, 0)[2] = <<k, 2>>
    <3>1. Frame(k, 0) = [p \in 1 .. 2 |-> <<k, p>>]
      BY DEF Frame, msglen
    <3>2. [p \in 1 .. 2 |-> <<k, p>>] \in Seq(Nat \X Nat)
      <4>1. \A p \in 1 .. 2 : <<k, p>> \in Nat \X Nat
        BY <1>3
      <4>2. 2 \in Nat
        OBVIOUS
      <4> QED BY <4>1, <4>2, IsASeq
    <3> DEFINE f == [p \in 1 .. 2 |-> <<k, p>>]
    <3>3. Len(f) = 2 /\ f[1] = <<k, 1>> /\ f[2] = <<k, 2>>
      OBVIOUS
    <3> HIDE DEF f
    <3>4. Frame(k, 0) = f /\ f \in Seq(Nat \X Nat)
      BY <3>1, <3>2 DEF f
    <3> QED BY <3>3, <3>4
  <2>2. Frame(k, 0) \in Seq(Stuff)
    BY <2>1, SeqMonotonic DEF Stuff
  <2>3. 1 \in 1 .. 2 + Size /\ 2 \in 1 .. 2 + Size
    BY <1>2
  <2>4. header[1] = <<k, 1>> /\ header[2] = <<k, 2>>
    BY <1>6, <1>10, <2>3
  <2>5. \A i \in 1 .. Len(header) : header[i] = Frame(k, 0)[i]
    <3>1. \A i \in 1 .. Len(header) : i = 1 \/ i = 2
      BY <1>2
    <3> QED BY <2>1, <2>4, <3>1
  <2> QED BY <1>2, <1>3, <2>1, <2>2, <2>5, SeqEqual
<1>12. got = Data(k, lens[k])
  <2> DEFINE d == Data(k, Size)
  <2>1. d \in Seq(Nat \X Nat) /\ Len(d) = Size /\ \A p \in 1 .. Size : d[p] = <<k, 2 + p>>
    <3>1. [p \in 1 .. Size |-> <<k, 2 + p>>] \in Seq(Nat \X Nat)
      <4> DEFINE size == Size
      <4>1. \A p \in 1 .. size : <<k, 2 + p>> \in Nat \X Nat
        BY <1>2, <1>3
      <4>2. size \in Nat
        BY <1>2
      <4> HIDE DEF size
      <4>3. [p \in 1 .. size |-> <<k, 2 + p>>] \in Seq(Nat \X Nat)
        BY <4>1, <4>2, IsASeq
      <4> QED BY <4>3 DEF size
    <3>2. Len([p \in 1 .. Size |-> <<k, 2 + p>>]) = Size
      BY <1>2
    <3> QED BY <3>1, <3>2 DEF Data
  <2>2. d \in Seq(Stuff)
    BY <2>1, SeqMonotonic DEF Stuff
  <2>3. \A p \in 1 .. Size : got[p] = d[p]
    <3> TAKE p \in 1 .. Size
    <3>1. 2 + p \in 1 .. 2 + Size
      BY <1>2
    <3>2. u[2 + p] = <<k, 2 + p>>
      BY <1>10, <3>1
    <3> QED BY <1>6, <2>1, <3>2
  <2> HIDE DEF d
  <2>4. got = d
    BY <1>5, <2>1, <2>2, <2>3, SeqEqual
  <2> QED BY <1>10, <2>4 DEF d
<1>13. told' \in Seq(Seq(Stuff)) /\ Len(told') = k /\ told'[k] = got
       /\ \A i \in 1 .. m : told'[i] = told[i]
  BY <1>1, <1>4, <1>5, AppendProperties DEF m, k
<1>14. WayInv'
  <2>1. Follows(lens', Under', Len(told'), broken')
    BY <1>1, <1>9, <1>10, <1>13
  <2> QED BY <1>1, <1>3, <2>1 DEF ChainInv, WayInv
<1>15. TellsWhatWasSent'
  <2>1. k <= Len(lens) /\ Len(lens) \in Nat
    BY <1>3, <1>10, LenProperties
  <2>2. \A i \in 1 .. k : i = k \/ i \in 1 .. m
    BY <1>3 DEF k
  <2>3. \A i \in 1 .. k : told'[i] = Data(i, lens[i])
    BY <1>12, <1>13, <2>2 DEF ChainInv, TellsWhatWasSent, m
  <2> QED BY <1>1, <1>13, <2>1, <2>3 DEF TellsWhatWasSent
<1>16. ChainInv'
  BY <1>2, <1>14, <1>15 DEF ChainInv
<1> QED BY <1>1, <1>3, <1>5, <1>7, <1>8, <1>9, <1>11, <1>16 DEF u, k, m
-----------------------------------------------------------------------------
(* It holds: send(), and what it says of the receiver *)

\* The data told before another message is sent are the data of the same messages.
LEMMA WayOfSend ==
  ASSUME TypeInv, ChainInv, NEW n \in Lens, Send(n)
  PROVE  /\ ChainInv' /\ UNCHANGED <<told, broken>>
         /\ lens' = Append(lens, n)
         /\ Frame(Len(lens) + 1, n) \in Seq(Stuff) /\ Under \in Seq(Stuff)
         /\ ~broken => Under' = Under \o Frame(Len(lens) + 1, n)
<1> DEFINE k == Len(lens) + 1
           frame == Frame(k, n)
<1>1. /\ lens' = Append(lens, n)
      /\ push' = push \o frame
      /\ UNCHANGED <<write, point, wire, broken>>
      /\ UNCHANGED <<chunk, read, mread, header, buffer, crashed, told>>
  BY DEF Send, receiver
<1>2. /\ lens \in Seq(Nat) /\ n \in Nat /\ Len(told) \in Nat /\ Len(lens) \in Nat /\ k \in Nat
      /\ push \in Seq(Stuff) /\ read >= 0
      /\ wire \in Seq(Stuff) /\ Unwritten \in Seq(Stuff) /\ InHand \in Seq(Stuff)
  BY Pieces, Constants DEF ChainInv, WayInv, EndInv
<1>3. Unread \in Seq(Stuff) /\ Under \in Seq(Stuff)
  BY <1>2, UnreadIs
<1>4. frame \in Seq(Stuff)
  <2> HIDE DEF k
  <2>1. \A p \in 1 .. 2 + n : <<k, p>> \in Stuff
    BY <1>2 DEF Stuff
  <2>2. \A S : (\A p \in 1 .. 2 + n : <<k, p>> \in S) => frame \in Seq(S)
    BY <1>2, Frames
  <2> QED BY <2>1, <2>2
<1> HIDE DEF frame
<1>5. push' \in Seq(Stuff)
  BY <1>1, <1>2, <1>4, ConcatProperties
<1>6. InHand' = InHand /\ Unread' = Unread /\ Unwritten' = Unwritten
  BY <1>1 DEF InHand, Unread, Unwritten
<1>7. ~broken => Under' = Under \o frame
  <2> SUFFICES ASSUME ~broken PROVE Under' = Under \o frame
    OBVIOUS
  <2> DEFINE up == Join(Unwritten, push)
             wup == Join(wire, up)
             uwup == Join(Unread, wup)
  <2>1. Under = Join(InHand, uwup)
    BY DEF Under, Coming, Join
  <2>2. Under' = Join(InHand, Join(Unread, Join(wire, Join(Unwritten, Join(push, frame)))))
    BY <1>1, <1>6 DEF Under, Coming, Join
  <2>3. up \in Seq(Stuff) /\ Join(Unwritten, Join(push, frame)) = Join(up, frame)
    BY <1>2, <1>4, Joining
  <2> HIDE DEF up
  <2>4. wup \in Seq(Stuff) /\ Join(wire, Join(up, frame)) = Join(wup, frame)
    BY <1>2, <1>4, <2>3, Joining
  <2> HIDE DEF wup
  <2>5. uwup \in Seq(Stuff) /\ Join(Unread, Join(wup, frame)) = Join(uwup, frame)
    BY <1>3, <1>4, <2>4, Joining
  <2> HIDE DEF uwup
  <2>6. Join(InHand, Join(uwup, frame)) = Join(Join(InHand, uwup), frame)
    BY <1>2, <1>4, <2>5, Joining
  <2> QED BY <2>1, <2>2, <2>3, <2>4, <2>5, <2>6 DEF Join
<1>8. Follows(lens', Under', Len(told'), broken')
  <2>1. CASE broken
    <3>1. Under' = Under
      BY <1>1, <1>6, <2>1 DEF Under, Coming
    <3>2. Follows(lens, Under, Len(told), TRUE)
      BY <2>1 DEF ChainInv, WayInv, Follows
    <3>3. Follows(Append(lens, n), Under, Len(told), TRUE)
      BY <1>2, <3>2, FollowsSame
    <3> QED BY <1>1, <2>1, <3>1, <3>3 DEF TypeInv, Scalars
  <2>2. CASE ~broken
    <3>1. broken = FALSE
      BY <2>2 DEF TypeInv, Scalars
    <3>2. Follows(lens, Under, Len(told), FALSE)
      BY <3>1 DEF ChainInv, WayInv
    <3>3. Follows(Append(lens, n), Under \o Frame(Len(lens) + 1, n), Len(told), FALSE)
      BY <1>2, <3>2, FollowsSent
    <3>4. Under' = Under \o Frame(Len(lens) + 1, n)
      BY <1>7, <2>2 DEF frame, k
    <3> QED BY <1>1, <3>1, <3>3, <3>4
  <2> QED BY <2>1, <2>2
<1>9. WayInv'
  BY <1>1, <1>5, <1>8 DEF ChainInv, WayInv
<1>10. TellsWhatWasSent'
  <2>1. /\ Len(lens') = k /\ \A i \in 1 .. Len(lens) : lens'[i] = lens[i]
    BY <1>1, <1>2, AppendProperties
  <2>2. Len(told) <= Len(lens) /\ \A i \in 1 .. Len(told) : told[i] = Data(i, lens[i])
    BY DEF ChainInv, TellsWhatWasSent
  <2>3. \A i \in 1 .. Len(told) : i \in 1 .. Len(lens)
    BY <1>2, <2>2
  <2>4. Len(told) <= k
    BY <1>2, <2>2
  <2>5. \A i \in 1 .. Len(told) : told[i] = Data(i, lens'[i])
    BY <2>1, <2>2, <2>3
  <2> QED BY <1>1, <2>1, <2>4, <2>5 DEF TellsWhatWasSent
<1>11. ChainInv'
  BY <1>1, <1>9, <1>10, EndStays DEF ChainInv
<1> QED BY <1>1, <1>3, <1>4, <1>7, <1>11 DEF frame, k

\* Every step keeps the second invariant.
LEMMA WayStep == "header" \in Keeps => (TypeInv /\ ChainInv /\ [Next]_vars => ChainInv')
<1> SUFFICES ASSUME "header" \in Keeps, TypeInv, ChainInv, [Next]_vars PROVE ChainInv'
  OBVIOUS
<1>1. CASE \E n \in Lens : Send(n)
  BY <1>1, WayOfSend
<1>2. CASE Writer
  BY <1>2, WayOfWriterRest, WayOfSwapBuffers, WayOfWriteSome DEF Writer
<1>3. CASE Break
  BY <1>3, WayOfBreak
<1>4. CASE Reader
  <2>1. CASE ReadHeader
    BY <2>1, WayOfReadHeader
  <2>2. CASE ReadBody
    BY <2>2, WayOfReadBodyPart, WayOfReadBodyDone
  <2>3. CASE \E n \in 1 .. BufLen : Recv(n)
    BY <2>3, WayOfRecv
  <2> QED BY <1>4, <2>1, <2>2, <2>3 DEF Reader
<1>5. CASE UNCHANGED vars
  BY <1>5, WayOfWriterRest
<1> QED BY <1>1, <1>2, <1>3, <1>4, <1>5 DEF Next

\* Both invariants hold for a network relied on for "header".
LEMMA Way == "header" \in Keeps => (Spec => [](TypeInv /\ ChainInv))
<1> SUFFICES ASSUME "header" \in Keeps PROVE Spec => [](TypeInv /\ ChainInv)
  OBVIOUS
<1>1. Init => TypeInv /\ ChainInv
  BY TypesInit, WayInit
<1>2. TypeInv /\ ChainInv /\ [Next]_vars => TypeInv' /\ ChainInv'
  BY TypesStep, WayStep
<1> QED BY <1>1, <1>2, PTL DEF Spec

\* They say that the receiver is never beyond what it got.
LEMMA Used == TypeInv /\ ChainInv => UsesWhatItGot
<1> SUFFICES ASSUME TypeInv, ChainInv PROVE UsesWhatItGot
  OBVIOUS
<1>1. read >= 0 /\ ~crashed
  BY DEF ChainInv, EndInv
<1> QED BY <1>1 DEF TypeInv, Reading, UsesWhatItGot

\* onCanRead() only uses bytes that recv() gave it and fills a message up to its size and
\* no further, for every size of the buffers, all lengths and every cut of the network that
\* leaves lengths whole behind other bytes.
THEOREM UsesRight == "header" \in Keeps => (Spec => []UsesWhatItGot)
<1> SUFFICES ASSUME "header" \in Keeps PROVE Spec => []UsesWhatItGot
  OBVIOUS
<1>1. Spec => [](TypeInv /\ ChainInv)
  BY Way
<1> QED BY <1>1, Used, PTL

\* What onCanRead() tells as message k is the data of message k, whole, also when the
\* connection breaks or an application overruns the buffer.
THEOREM Tells == "header" \in Keeps => (Spec => []TellsWhatWasSent)
<1> SUFFICES ASSUME "header" \in Keeps PROVE Spec => []TellsWhatWasSent
  OBVIOUS
<1>1. Spec => [](TypeInv /\ ChainInv)
  BY Way
<1>2. TypeInv /\ ChainInv => TellsWhatWasSent
  BY DEF ChainInv
<1> QED BY <1>1, <1>2, PTL
-----------------------------------------------------------------------------
(* The equation of what was appended and what arrived *)

\* The frames of the messages of these lengths, and those of these data.
FramesOf(s) == [k \in DOMAIN s |-> Frame(k, s[k])]
FramesAround(s) == [k \in DOMAIN s |-> Frame(k, 0) \o s[k]]

\* A frame is made of bytes.
LEMMA FrameIsStuff ==
  ASSUME NEW k \in Nat, NEW n \in Nat
  PROVE  Frame(k, n) \in Seq(Stuff)
<1>1. \A p \in 1 .. 2 + n : <<k, p>> \in Stuff
  BY DEF Stuff
<1>2. \A S : (\A p \in 1 .. 2 + n : <<k, p>> \in S) => Frame(k, n) \in Seq(S)
  BY Frames
<1> QED BY <1>1, <1>2

\* One more message is sent: its frame comes after the others.
LEMMA OneMoreFrame ==
  ASSUME NEW s \in Seq(Nat), NEW n \in Nat
  PROVE  /\ FramesOf(s) \in Seq(Seq(Stuff))
         /\ FramesOf(Append(s, n)) = Append(FramesOf(s), Frame(Len(s) + 1, n))
<1> DEFINE len == Len(s)
           last == len + 1
           more == Append(s, n)
<1>1. len \in Nat /\ DOMAIN s = 1 .. len /\ \A k \in 1 .. len : s[k] \in Nat
  BY LenProperties, ElementOfSeq
<1>2. /\ DOMAIN more = 1 .. last /\ more[last] = n
      /\ \A k \in 1 .. len : more[k] = s[k]
  <2>1. more \in Seq(Nat) /\ Len(more) = last /\ more[last] = n /\ \A k \in 1 .. len : more[k] = s[k]
    BY AppendProperties
  <2> QED BY <2>1, LenProperties
<1> HIDE DEF len, more
<1>3. \A k \in 1 .. len : k \in Nat /\ Frame(k, s[k]) \in Seq(Stuff)
  BY <1>1, FrameIsStuff
<1>4. last \in Nat /\ Frame(last, n) \in Seq(Stuff)
  BY <1>1, FrameIsStuff
<1> HIDE DEF last
<1>5. FramesOf(s) = [k \in 1 .. len |-> Frame(k, s[k])]
  BY <1>1 DEF FramesOf
<1>6. [k \in 1 .. len |-> Frame(k, s[k])] \in Seq(Seq(Stuff))
  BY <1>1, <1>3, IsASeq
<1>7. FramesOf(s) \in Seq(Seq(Stuff)) /\ Len(FramesOf(s)) = len
  BY <1>1, <1>5, <1>6
<1>8. FramesOf(more) = [k \in 1 .. last |-> Frame(k, more[k])]
  BY <1>2 DEF FramesOf
<1>9. \A k \in 1 .. last : more[k] \in Nat /\ k \in Nat
  BY <1>1, <1>2 DEF last
<1>10. FramesOf(more) \in Seq(Seq(Stuff)) /\ Len(FramesOf(more)) = last
  <2>1. \A k \in 1 .. last : Frame(k, more[k]) \in Seq(Stuff)
    BY <1>9, FrameIsStuff
  <2>2. [k \in 1 .. last |-> Frame(k, more[k])] \in Seq(Seq(Stuff))
    BY <1>4, <2>1, IsASeq
  <2> QED BY <1>4, <1>8, <2>2
<1> DEFINE app == Append(FramesOf(s), Frame(last, n))
<1>11. /\ app \in Seq(Seq(Stuff)) /\ Len(app) = last /\ app[last] = Frame(last, n)
       /\ \A k \in 1 .. len : app[k] = FramesOf(s)[k]
  BY <1>4, <1>7, AppendProperties DEF last
<1> HIDE DEF app
<1>12. \A k \in 1 .. last : FramesOf(more)[k] = app[k]
  <2> SUFFICES ASSUME NEW k \in 1 .. last PROVE FramesOf(more)[k] = app[k]
    OBVIOUS
  <2>1. FramesOf(more)[k] = Frame(k, more[k])
    BY <1>8
  <2>2. CASE k = last
    BY <1>2, <1>11, <2>1, <2>2
  <2>3. CASE k \in 1 .. len
    <3>1. app[k] = Frame(k, s[k])
      BY <1>5, <1>11, <2>3
    <3> QED BY <1>2, <2>1, <2>3, <3>1
  <2>4. k = last \/ k \in 1 .. len
    BY <1>1 DEF last
  <2> QED BY <2>2, <2>3, <2>4
<1>13. FramesOf(more) = app
  BY <1>4, <1>10, <1>11, <1>12, SeqEqual
<1> QED BY <1>7, <1>13 DEF more, app, last, len

\* One more message is told: it comes, with its length before it, after the others.
LEMMA OneMoreAround ==
  ASSUME NEW s \in Seq(Seq(Stuff)), NEW t \in Seq(Stuff)
  PROVE  /\ FramesAround(s) \in Seq(Seq(Stuff))
         /\ FramesAround(Append(s, t)) = Append(FramesAround(s), Join(Frame(Len(s) + 1, 0), t))
<1> DEFINE len == Len(s)
           last == len + 1
           more == Append(s, t)
<1>1. len \in Nat /\ DOMAIN s = 1 .. len /\ \A k \in 1 .. len : s[k] \in Seq(Stuff)
  BY LenProperties, ElementOfSeq
<1>2. /\ DOMAIN more = 1 .. last /\ more[last] = t
      /\ \A k \in 1 .. len : more[k] = s[k]
  <2>1. more \in Seq(Seq(Stuff)) /\ Len(more) = last /\ more[last] = t /\ \A k \in 1 .. len : more[k] = s[k]
    BY AppendProperties
  <2> QED BY <2>1, LenProperties
<1> HIDE DEF len, more
<1>3. \A k \in Nat : \A u \in Seq(Stuff) : Join(Frame(k, 0), u) \in Seq(Stuff)
  BY FrameIsStuff, Joining
<1>4. last \in Nat
  BY <1>1
<1> HIDE DEF last
<1>5. FramesAround(s) = [k \in 1 .. len |-> Join(Frame(k, 0), s[k])]
  BY <1>1 DEF FramesAround, Join
<1>6. [k \in 1 .. len |-> Join(Frame(k, 0), s[k])] \in Seq(Seq(Stuff))
  <2>1. \A k \in 1 .. len : Join(Frame(k, 0), s[k]) \in Seq(Stuff)
    BY <1>1, <1>3
  <2> QED BY <1>1, <2>1, IsASeq
<1>7. FramesAround(s) \in Seq(Seq(Stuff)) /\ Len(FramesAround(s)) = len
  BY <1>1, <1>5, <1>6
<1>8. FramesAround(more) = [k \in 1 .. last |-> Join(Frame(k, 0), more[k])]
  BY <1>2 DEF FramesAround, Join
<1>9. \A k \in 1 .. last : more[k] \in Seq(Stuff) /\ k \in Nat
  BY <1>1, <1>2 DEF last
<1>10. FramesAround(more) \in Seq(Seq(Stuff)) /\ Len(FramesAround(more)) = last
  <2>1. \A k \in 1 .. last : Join(Frame(k, 0), more[k]) \in Seq(Stuff)
    BY <1>3, <1>9
  <2>2. [k \in 1 .. last |-> Join(Frame(k, 0), more[k])] \in Seq(Seq(Stuff))
    BY <1>4, <2>1, IsASeq
  <2> QED BY <1>4, <1>8, <2>2
<1> DEFINE app == Append(FramesAround(s), Join(Frame(last, 0), t))
<1>11. /\ app \in Seq(Seq(Stuff)) /\ Len(app) = last /\ app[last] = Join(Frame(last, 0), t)
       /\ \A k \in 1 .. len : app[k] = FramesAround(s)[k]
  <2>1. Join(Frame(last, 0), t) \in Seq(Stuff)
    BY <1>3, <1>4
  <2> QED BY <1>7, <2>1, AppendProperties DEF last
<1> HIDE DEF app
<1>12. \A k \in 1 .. last : FramesAround(more)[k] = app[k]
  <2> SUFFICES ASSUME NEW k \in 1 .. last PROVE FramesAround(more)[k] = app[k]
    OBVIOUS
  <2>1. FramesAround(more)[k] = Join(Frame(k, 0), more[k])
    BY <1>8
  <2>2. CASE k = last
    BY <1>2, <1>11, <2>1, <2>2
  <2>3. CASE k \in 1 .. len
    <3>1. app[k] = Join(Frame(k, 0), s[k])
      BY <1>5, <1>11, <2>3
    <3> QED BY <1>2, <2>1, <2>3, <3>1
  <2>4. k = last \/ k \in 1 .. len
    BY <1>1 DEF last
  <2> QED BY <2>2, <2>3, <2>4
<1>13. FramesAround(more) = app
  BY <1>4, <1>10, <1>11, <1>12, SeqEqual
<1> QED BY <1>7, <1>13 DEF more, app, last, len

\* What was appended and what has arrived are sequences of bytes.
LEMMA Ends ==
  ASSUME TypeInv
  PROVE  /\ lens \in Seq(Nat) /\ told \in Seq(Seq(Stuff))
         /\ Appended = FlattenSeq(FramesOf(lens)) /\ Arrived = FlattenSeq(FramesAround(told))
         /\ Appended \in Seq(Stuff) /\ Arrived \in Seq(Stuff)
<1>1. Sent \subseteq Stuff
  BY Constants DEF Sent, Bytes, Stuff
<1>2. Seq(Sent) \subseteq Seq(Stuff)
  BY <1>1, SeqMonotonic
<1>3. told \in Seq(Seq(Stuff))
  BY <1>2, SeqMonotonic DEF TypeInv, Buffers
<1>4. lens \in Seq(Nat)
  BY SeqMonotonic, Constants DEF TypeInv, Buffers
<1>5. Appended = FlattenSeq(FramesOf(lens)) /\ Arrived = FlattenSeq(FramesAround(told))
  BY DEF Appended, Arrived, FramesOf, FramesAround
<1>6. FramesOf(lens) \in Seq(Seq(Stuff))
  BY <1>4, OneMoreFrame
<1>7. <<>> \in Seq(Stuff)
  BY EmptySeq
<1>8. FramesAround(told) \in Seq(Seq(Stuff))
  BY <1>3, <1>7, OneMoreAround
<1>9. FlattenSeq(FramesOf(lens)) \in Seq(Stuff) /\ FlattenSeq(FramesAround(told)) \in Seq(Stuff)
  BY <1>6, <1>7, <1>8, FlattenAppend
<1> QED BY <1>3, <1>4, <1>5, <1>9

\* The third invariant: what was appended is what has arrived and what is under way.
EquationInv == ~broken => Appended = Join(Arrived, Under)

\* Nothing was appended.
LEMMA EquationInit == Init => EquationInv
<1> SUFFICES ASSUME Init PROVE EquationInv
  OBVIOUS
<1>1. \A S : <<>> \in Seq(S) /\ <<>> \o <<>> = <<>>
  BY EmptySeq, ConcatEmptySeq
<1>2. Len(<<>>) = 0 /\ SubSeq(<<>>, 1, 0) = <<>> /\ 0 - 0 + 1 = 1 /\ 0 + 1 = 1
  OBVIOUS
<1>3. Unread = <<>> /\ Unwritten = <<>>
  BY <1>2 DEF Init, Unread, Unwritten
<1>4. Under = <<>>
  BY <1>1, <1>3 DEF Init, Coming, Under, InHand
<1>5. FramesOf(<<>>) = FramesAround(<<>>)
  BY DEF FramesOf, FramesAround
<1>6. Appended = Arrived
  BY <1>5 DEF Init, Appended, Arrived, FramesOf, FramesAround
<1>7. Arrived \in Seq(Stuff)
  BY TypesInit, Ends
<1>8. Join(Arrived, <<>>) = Arrived
  BY <1>7, ConcatEmptySeq DEF Join
<1> QED BY <1>4, <1>6, <1>8 DEF EquationInv

\* Bytes that move between the buffers leave both sides as they are.
LEMMA EquationMoves == EquationInv /\ Moves => EquationInv'
<1> SUFFICES ASSUME EquationInv, Moves PROVE EquationInv'
  OBVIOUS
<1>1. Under' = Under /\ lens' = lens /\ told' = told /\ broken' = broken
  BY DEF Moves
<1>2. Appended' = Appended /\ Arrived' = Arrived
  BY <1>1 DEF Appended, Arrived
<1> QED BY <1>1, <1>2 DEF EquationInv, Join

\* send() adds a frame to what was appended and to the end of what is under way.
LEMMA EquationSend ==
  ASSUME TypeInv, ChainInv, EquationInv, NEW n \in Lens, Send(n)
  PROVE  EquationInv'
<1> DEFINE frame == Frame(Len(lens) + 1, n)
<1>1. /\ UNCHANGED <<told, broken>> /\ lens' = Append(lens, n)
      /\ frame \in Seq(Stuff) /\ Under \in Seq(Stuff)
      /\ ~broken => Under' = Join(Under, frame)
  BY WayOfSend DEF Join
<1>2. n \in Nat
  BY Constants
<1>3. /\ FramesOf(lens) \in Seq(Seq(Stuff))
      /\ FramesOf(Append(lens, n)) = Append(FramesOf(lens), frame)
  BY <1>2, Ends, OneMoreFrame
<1> HIDE DEF frame
<1>4. FlattenSeq(Append(FramesOf(lens), frame)) = Join(FlattenSeq(FramesOf(lens)), frame)
  BY <1>1, <1>3, FlattenAppend DEF Join
<1>5. Appended' = Join(Appended, frame)
  <2>1. Appended' = FlattenSeq(FramesOf(lens'))
    BY DEF Appended, FramesOf
  <2> QED BY <1>1, <1>3, <1>4, <2>1, Ends
<1>6. Arrived' = Arrived
  BY <1>1 DEF Arrived
<1>7. Arrived \in Seq(Stuff)
  BY Ends
<1>8. Join(Join(Arrived, Under), frame) = Join(Arrived, Join(Under, frame))
  BY <1>1, <1>7, Joining
<1>9. ~broken => Appended = Join(Arrived, Under)
  BY DEF EquationInv
<1>10. broken' = broken
  BY <1>1
<1>11. ~broken' => Appended' = Join(Arrived', Under')
  BY ONLY <1>1, <1>5, <1>6, <1>8, <1>9, <1>10
<1> QED BY <1>11 DEF EquationInv, Join
-----------------------------------------------------------------------------
(* It holds, and BytesInOrder *)

\* A message that is complete goes from the front of what is under way to what has
\* arrived.
LEMMA EquationReadBodyDone ==
  ASSUME TypeInv, ChainInv, EquationInv, ReadBody, ~(mread + BodyPart < Size)
  PROVE  EquationInv'
<1> DEFINE got == buffer \o Unused(BodyPart)
           around == Frame(Len(told) + 1, 0)
<1>1. /\ UNCHANGED <<lens, broken>>
      /\ got \in Seq(Stuff) /\ Under' \in Seq(Stuff)
      /\ told' = Append(told, got)
      /\ header = around /\ header \in Seq(Stuff)
      /\ Under = Join(Join(header, got), Under')
  BY WayOfReadBodyDone DEF Join
<1> HIDE DEF got
<1>2. /\ FramesAround(told) \in Seq(Seq(Stuff))
      /\ FramesAround(Append(told, got)) = Append(FramesAround(told), Join(around, got))
  BY <1>1, Ends, OneMoreAround
<1> HIDE DEF around
<1> DEFINE whole == Join(header, got)
<1>3. whole \in Seq(Stuff)
  BY <1>1, Joining
<1>4. whole = Join(around, got)
  BY <1>1
<1> HIDE DEF whole
<1>5. FlattenSeq(Append(FramesAround(told), whole)) = Join(FlattenSeq(FramesAround(told)), whole)
  BY <1>2, <1>3, FlattenAppend DEF Join
<1>6. Arrived' = Join(Arrived, whole)
  <2>1. Arrived' = FlattenSeq(FramesAround(told'))
    BY DEF Arrived, FramesAround
  <2> QED BY <1>1, <1>2, <1>4, <1>5, <2>1, Ends
<1>7. Appended' = Appended
  BY <1>1 DEF Appended
<1>8. Arrived \in Seq(Stuff)
  BY Ends
<1>9. Join(Join(Arrived, whole), Under') = Join(Arrived, Join(whole, Under'))
  BY <1>1, <1>3, <1>8, Joining
<1>10. ~broken => Appended = Join(Arrived, Under)
  BY DEF EquationInv
<1>11. Under = Join(whole, Under')
  BY <1>1 DEF whole
<1>12. broken' = broken
  BY <1>1
<1>13. ~broken' => Appended' = Join(Arrived', Under')
  BY ONLY <1>6, <1>7, <1>9, <1>10, <1>11, <1>12
<1> QED BY <1>13 DEF EquationInv, Join

\* Every step keeps the equation.
LEMMA EquationStep ==
  "header" \in Keeps => (TypeInv /\ ChainInv /\ EquationInv /\ [Next]_vars => EquationInv')
<1> SUFFICES ASSUME "header" \in Keeps, TypeInv, ChainInv, EquationInv, [Next]_vars PROVE EquationInv'
  OBVIOUS
<1>1. CASE \E n \in Lens : Send(n)
  BY <1>1, EquationSend
<1>2. CASE Writer
  <2>1. Moves
    BY <1>2, WayOfWriterRest, WayOfSwapBuffers, WayOfWriteSome DEF Writer
  <2> QED BY <2>1, EquationMoves
<1>3. CASE Break
  BY <1>3 DEF Break, EquationInv
<1>4. CASE Reader
  <2>1. CASE ReadHeader
    BY <2>1, WayOfReadHeader, EquationMoves
  <2>2. CASE ReadBody
    BY <2>2, WayOfReadBodyPart, EquationMoves, EquationReadBodyDone
  <2>3. CASE \E n \in 1 .. BufLen : Recv(n)
    BY <2>3, WayOfRecv, EquationMoves
  <2> QED BY <1>4, <2>1, <2>2, <2>3 DEF Reader
<1>5. CASE UNCHANGED vars
  BY <1>5, WayOfWriterRest, EquationMoves
<1> QED BY <1>1, <1>2, <1>3, <1>4, <1>5 DEF Next

\* The parts of the way one after the other, as BytesInOrder has them.
LEMMA Unfolded == TypeInv /\ ChainInv /\ EquationInv => BytesInOrder
<1> SUFFICES ASSUME TypeInv, ChainInv, EquationInv, ~broken PROVE
      Appended = Arrived \o InHand \o Unread \o wire \o Unwritten \o push
  BY DEF BytesInOrder
<1>1. push \in Seq(Stuff) /\ read >= 0
  BY DEF ChainInv, WayInv, EndInv
<1>2. /\ wire \in Seq(Stuff) /\ Unwritten \in Seq(Stuff) /\ InHand \in Seq(Stuff)
      /\ Unread \in Seq(Stuff) /\ Arrived \in Seq(Stuff)
  BY <1>1, Pieces, UnreadIs, Ends
<1>3. Appended = Join(Arrived, Join(InHand, Join(Unread, Join(wire, Join(Unwritten, push)))))
  BY DEF EquationInv, Under, Coming, Join
<1> DEFINE a == Join(Arrived, InHand)
           b == Join(a, Unread)
           c == Join(b, wire)
           up == Join(Unwritten, push)
           wup == Join(wire, up)
           uwup == Join(Unread, wup)
<1>4. a \in Seq(Stuff) /\ up \in Seq(Stuff)
  BY <1>1, <1>2, Joining
<1>5. b \in Seq(Stuff) /\ wup \in Seq(Stuff)
  BY <1>2, <1>4, Joining
<1>6. c \in Seq(Stuff) /\ uwup \in Seq(Stuff)
  BY <1>2, <1>5, Joining
<1>7. Join(Arrived, Join(InHand, uwup)) = Join(a, uwup)
  BY <1>2, <1>6, Joining
<1>8. Join(a, uwup) = Join(b, wup)
  BY <1>2, <1>4, <1>5, Joining
<1>9. Join(b, wup) = Join(c, up)
  BY <1>2, <1>4, <1>5, Joining
<1>10. Join(c, up) = Join(Join(c, Unwritten), push)
  BY <1>1, <1>2, <1>6, Joining
<1>11. Appended = Join(Join(c, Unwritten), push)
  BY <1>3, <1>7, <1>8, <1>9, <1>10
<1> QED BY <1>11 DEF Join

\* No byte is lost, doubled or moved between send() and the messages told, for every size
\* of the buffers and of the network, all lengths, and however send() and recv() cut them,
\* as long as the connection and the buffer hold and a length behind other bytes comes whole.
THEOREM InOrder == "header" \in Keeps => (Spec => []BytesInOrder)
<1> SUFFICES ASSUME "header" \in Keeps PROVE Spec => []BytesInOrder
  OBVIOUS
<1>1. Init => TypeInv /\ ChainInv /\ EquationInv
  BY TypesInit, WayInit, EquationInit
<1>2. TypeInv /\ ChainInv /\ EquationInv /\ [Next]_vars => TypeInv' /\ ChainInv' /\ EquationInv'
  BY TypesStep, WayStep, EquationStep
<1> QED BY <1>1, <1>2, Unfolded, PTL DEF Spec
=============================================================================
