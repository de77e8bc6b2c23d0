----------------------------- MODULE Log_proofs -----------------------------
(***************************************************************************)
(* Proofs about Log, for any number of lines, files and restarts and any   *)
(* sizes of the buffers and files: which files there are when, that no     *)
(* line vanishes or gets out of order, and that the log implements         *)
(* Journal.                                                                *)
(***************************************************************************)
EXTENDS Log, SequenceTheorems, WellFoundedInduction, TLAPS

Files == 0 .. MaxFile
InRefile == pc \in {"remove", "rename", "create"}

\* Where the constructor and output() can stand.
Places ==
  /\ phase \in {"down", "early"} => pc = "idle"
  /\ phase = "opening" => InRefile /\ mode = "reopen"
  /\ pc = "remove" => count > 0
  /\ pc = "rename" => at \in 1 .. count
  /\ pc = "create" => ~Exists(0)

\* The one number that refile() has just freed.
IsHole(i) == (pc = "rename" /\ i = at) \/ (pc = "create" /\ i = 0)

\* But for it there is no gap below a file that exists.
NoGap ==
  \A i \in Files, j \in Files : i < j /\ Exists(j) /\ ~IsHole(i) => Exists(i)

\* A FILE_REOPEN log never has a file beyond LOG_FILE_SUM.
NoneBeyondSum == mode = "reopen" => \A i \in Files : i > FileSum => ~Exists(i)

\* A FILE_APPEND log that was never torn knows how many files it has, and has made room
\* for one more when it comes to remove().
Counted ==
  mode = "append" /\ phase # "down" =>
    \A i \in Files : i > count \/ (pc = "remove" /\ i = count) => ~Exists(i)

IInv ==
  /\ TypeOK
  /\ TargetFree
  /\ FileIsOpen
  /\ Places
  /\ NoneBeyondSum
  /\ ~torn => NoGap /\ Counted

\* What the bounds are.
LEMMA Bounds ==
  /\ FileSum \in Nat /\ FileSum > 0 /\ FileSize \in Nat
  /\ BufMax \in Nat /\ BufMax > 0
  /\ MaxLines \in Nat /\ MaxFile \in Nat /\ MaxEnds \in Nat
  /\ FileSum <= MaxFile
  /\ 0 \in Files /\ FileSum \in Files
  /\ Missing \notin Seq(1 .. MaxLines)
BY LogAssumption DEF LogAssumption, Files

\* A file that exists is a sequence of lines.
LEMMA FileTypes ==
  ASSUME TypeOK
  PROVE  /\ files \in [Files -> Seq(1 .. MaxLines) \cup {Missing}]
         /\ \A i \in Files : Exists(i) => files[i] \in Seq(1 .. MaxLines)
         /\ <<>> \in Seq(1 .. MaxLines) /\ <<>> # Missing
BY Bounds, EmptySeq DEF TypeOK, Files, Exists

LEMMA SeqFacts ==
  ASSUME NEW S
  PROVE  /\ \A s \in Seq(S) : Len(s) \in Nat
         /\ \A s \in Seq(S), t \in Seq(S) :
               s \o t \in Seq(S) /\ Len(s \o t) = Len(s) + Len(t)
         /\ \A s \in Seq(S), e \in S :
               Append(s, e) \in Seq(S) /\ Len(Append(s, e)) = Len(s) + 1
         /\ \A s \in Seq(S) : \A n \in 0 .. Len(s) :
               SubSeq(s, 1, n) \in Seq(S) /\ SubSeq(s, n + 1, Len(s)) \in Seq(S)
<1>1. ASSUME NEW s \in Seq(S), NEW n \in 0 .. Len(s)
      PROVE  SubSeq(s, 1, n) \in Seq(S) /\ SubSeq(s, n + 1, Len(s)) \in Seq(S)
  <2>1. Len(s) \in Nat /\ \A k \in 1 .. Len(s) : s[k] \in S
    BY LenProperties, ElementOfSeq
  <2>2. (\A k \in 1 .. n : s[k] \in S) /\ (\A k \in n + 1 .. Len(s) : s[k] \in S)
    BY <2>1
  <2>3. SubSeq(s, 1, n) \in Seq(S)
    BY <2>1, <2>2, SubSeqProperties
  <2>4. SubSeq(s, n + 1, Len(s)) \in Seq(S)
    BY <2>1, <2>2, SubSeqProperties
  <2> QED
    BY <2>3, <2>4
<1> QED
  BY <1>1, LenProperties, ConcatProperties, AppendProperties

LEMMA LineFacts ==
  ASSUME NEW S
  PROVE  \A s \in Seq(S) : LinesOf(s) \subseteq S
<1> SUFFICES ASSUME NEW s \in Seq(S), NEW k \in DOMAIN s PROVE s[k] \in S
  BY DEF LinesOf
<1> QED
  BY ElementOfSeq, LenProperties
-----------------------------------------------------------------------------
(* The initial state *)

LEMMA InitInv == Init => IInv
<1> SUFFICES ASSUME Init PROVE IInv
  OBVIOUS
<1>1. TypeOK
  BY Bounds, EmptySeq DEF Init, TypeOK, Files
<1>2. TargetFree /\ FileIsOpen /\ Places
  BY DEF Init, TargetFree, FileIsOpen, Places, InRefile
<1>3. NoneBeyondSum /\ NoGap /\ Counted
  BY DEF Init, NoneBeyondSum, NoGap, Counted, Files, Exists
<1> QED
  BY <1>1, <1>2, <1>3 DEF IInv
-----------------------------------------------------------------------------
(* One lemma for each step *)


LEMMA OpenAppendInv ==
  ASSUME IInv, NEW n \in 0 .. MaxFile, OpenAppend(n)
  PROVE  IInv'
<1>1. /\ \A i \in Files : Exists(i)' <=> i = 0 \/ Exists(i)
      /\ files' \in [Files -> Seq(1 .. MaxLines) \cup {Missing}]
      /\ Len(files'[0]) \in Nat
  BY Bounds, FileTypes, SeqFacts DEF IInv, OpenAppend, Exists
<1>2. TypeOK'
  BY <1>1 DEF IInv, TypeOK, OpenAppend, Files
<1>3. TargetFree' /\ FileIsOpen' /\ Places' /\ NoneBeyondSum'
  BY <1>1, Bounds DEF IInv, OpenAppend, TargetFree, FileIsOpen, Places, NoneBeyondSum, InRefile
<1>4. ASSUME ~torn' PROVE NoGap' /\ Counted'
  <2>1. ~torn /\ pc = "idle" /\ NoGap
    BY <1>4 DEF IInv, OpenAppend, Places
  <2>2. NoGap'
    BY <1>1, <2>1 DEF NoGap, IsHole, OpenAppend, Files
  <2>3. \A j \in Files : j > n => ~Exists(j)
    <3> SUFFICES ASSUME NEW j \in Files, j > n, Exists(j) PROVE FALSE
      OBVIOUS
    <3>1. n + 1 \in Files /\ ~Exists(n + 1) /\ n + 1 <= j
      BY Bounds DEF OpenAppend, OldFiles, Files
    <3> QED
      BY <3>1, <2>1 DEF NoGap, IsHole, Files
  <2> QED
    BY <1>1, <2>1, <2>2, <2>3 DEF Counted, OpenAppend, Files
<1> QED
  BY <1>2, <1>3, <1>4 DEF IInv

LEMMA OpenAnewInv == IInv /\ OpenAnew => IInv'
<1> SUFFICES ASSUME IInv, OpenAnew PROVE IInv'
  OBVIOUS
<1>1. TypeOK'
  BY Bounds DEF IInv, TypeOK, OpenAnew, Files
<1>2. TargetFree' /\ FileIsOpen' /\ Places' /\ NoneBeyondSum'
  BY Bounds DEF IInv, OpenAnew, TargetFree, FileIsOpen, Places, NoneBeyondSum, InRefile, Exists
<1>3. ~torn' => NoGap' /\ Counted'
  BY DEF IInv, OpenAnew, NoGap, IsHole, Places, Counted, Exists
<1> QED
  BY <1>1, <1>2, <1>3 DEF IInv

LEMMA RemoveInv == IInv /\ Remove => IInv'
<1> SUFFICES ASSUME IInv, Remove PROVE IInv'
  OBVIOUS
<1>1. /\ count \in Files /\ count > 0
      /\ files' \in [Files -> Seq(1 .. MaxLines) \cup {Missing}]
      /\ \A i \in Files : Exists(i)' <=> i # count /\ Exists(i)
  BY Bounds, FileTypes DEF IInv, TypeOK, Places, Remove, Exists, Files
<1>2. gone' \subseteq 1 .. MaxLines
  <2>1. Exists(count) => LinesOf(files[count]) \subseteq 1 .. MaxLines
    BY <1>1, FileTypes, LineFacts DEF IInv
  <2> QED
    BY <2>1 DEF IInv, TypeOK, Remove
<1>3. TypeOK'
  BY <1>1, <1>2 DEF IInv, TypeOK, Remove, Files
<1>4. TargetFree' /\ FileIsOpen' /\ Places' /\ NoneBeyondSum'
  BY <1>1, Bounds DEF IInv, Remove, TargetFree, FileIsOpen, Places, NoneBeyondSum, InRefile, Files
<1>5. ASSUME ~torn' PROVE NoGap' /\ Counted'
  <2>1. NoGap /\ Counted
    BY <1>5 DEF IInv, Remove
  <2>2. NoGap'
    <3> SUFFICES ASSUME NEW i \in Files, NEW j \in Files, i < j, Exists(j)', ~IsHole(i)'
                 PROVE  Exists(i)'
      BY DEF NoGap
    <3>1. Exists(j) /\ i # count
      BY <1>1 DEF IsHole, Remove
    <3> QED
      BY <1>1, <2>1, <3>1 DEF NoGap, IsHole, Remove
  <2>3. Counted'
    BY <1>1, <2>1 DEF Counted, Remove
  <2> QED
    BY <2>2, <2>3
<1> QED
  BY <1>3, <1>4, <1>5 DEF IInv

\* What a rename does to the set of files that exist.
LEMMA RenameFiles ==
  ASSUME IInv, Rename
  PROVE  /\ at \in Files /\ at - 1 \in Files /\ ~Exists(at)
         /\ files' \in [Files -> Seq(1 .. MaxLines) \cup {Missing}]
         /\ \A i \in Files : i # at /\ i # at - 1 => files'[i] = files[i]
         /\ files'[at] = files[at - 1]
         /\ files'[at - 1] = Missing
         /\ \A i \in Files : Exists(i)' <=> files'[i] # Missing
<1>1. at \in Files /\ at - 1 \in Files /\ ~Exists(at) /\ at # at - 1
  BY Bounds DEF IInv, TypeOK, TargetFree, Places, Rename, Files
<1>2. files \in [Files -> Seq(1 .. MaxLines) \cup {Missing}]
  BY FileTypes DEF IInv
<1> QED
  BY <1>1, <1>2 DEF Rename, Exists

LEMMA RenameInv == IInv /\ Rename => IInv'
<1> SUFFICES ASSUME IInv, Rename PROVE IInv'
  OBVIOUS
<1>1. /\ at \in Files /\ at - 1 \in Files /\ ~Exists(at)
      /\ files' \in [Files -> Seq(1 .. MaxLines) \cup {Missing}]
      /\ \A i \in Files : Exists(i)' <=> i # at - 1 /\ (Exists(i) \/ (i = at /\ Exists(at - 1)))
  BY RenameFiles DEF Exists
<1>2. /\ at \in 1 .. count /\ count \in Files /\ at \in Int
      /\ at' = at - 1 /\ UNCHANGED <<phase, mode, count, torn>>
      /\ pc = "rename" /\ pc' = IF at = 1 THEN "create" ELSE "rename"
  BY Bounds DEF IInv, TypeOK, Places, Rename, Files
<1>3. TypeOK'
  BY <1>1, <1>2 DEF IInv, TypeOK, Rename, Files
<1>4. TargetFree' /\ FileIsOpen' /\ Places'
  BY <1>1, <1>2 DEF IInv, TargetFree, FileIsOpen, Places, InRefile, Files
<1>5. NoneBeyondSum'
  <2>1. mode = "reopen" => count = FileSum
    BY DEF IInv, TypeOK
  <2> QED
    BY <1>1, <1>2, <2>1, Bounds DEF IInv, NoneBeyondSum, Files
<1>6. ASSUME ~torn' PROVE NoGap' /\ Counted'
  <2>1. NoGap /\ Counted
    BY <1>2, <1>6 DEF IInv
  <2>2. NoGap'
    <3> SUFFICES ASSUME NEW i \in Files, NEW j \in Files, i < j, Exists(j)', ~IsHole(i)'
                 PROVE  Exists(i)'
      BY DEF NoGap
    <3>1. i # at - 1 /\ j # at - 1
      BY <1>1, <1>2 DEF IsHole
    <3>2. CASE j = at
      BY <1>1, <1>2, <2>1, <3>1, <3>2 DEF NoGap, IsHole, Files
    <3>3. CASE j # at /\ i = at
      BY <1>1, <1>2, <2>1, <3>1, <3>3 DEF NoGap, IsHole, Files
    <3>4. CASE j # at /\ i # at
      BY <1>1, <1>2, <2>1, <3>1, <3>4 DEF NoGap, IsHole, Files
    <3> QED
      BY <3>2, <3>3, <3>4
  <2>3. Counted'
    BY <1>1, <1>2, <2>1 DEF Counted, Files
  <2> QED
    BY <2>2, <2>3
<1> QED
  BY <1>3, <1>4, <1>5, <1>6 DEF IInv

LEMMA CreateInv == IInv /\ Create => IInv'
<1> SUFFICES ASSUME IInv, Create PROVE IInv'
  OBVIOUS
<1>1. /\ files' \in [Files -> Seq(1 .. MaxLines) \cup {Missing}]
      /\ \A i \in Files : Exists(i)' <=> i = 0 \/ Exists(i)
  BY Bounds, FileTypes DEF IInv, Create, Exists
<1>2. TypeOK'
  BY <1>1 DEF IInv, TypeOK, Create, Files
<1>3. TargetFree' /\ FileIsOpen'
  BY <1>1, Bounds DEF IInv, Create, TargetFree, FileIsOpen
<1>4. Places'
  BY DEF IInv, Create, Places, InRefile
<1>5. NoneBeyondSum'
  BY <1>1, Bounds DEF IInv, Create, NoneBeyondSum, Files
<1>6. ASSUME ~torn' PROVE NoGap' /\ Counted'
  <2>1. NoGap /\ Counted /\ pc = "create" /\ pc' # "remove" /\ pc' # "rename" /\ pc' # "create"
    BY <1>6 DEF IInv, Create
  <2>2. NoGap'
    BY <1>1, <2>1 DEF NoGap, IsHole, Files
  <2>3. count' = count /\ count \in Nat /\ mode' = mode /\ phase # "down"
    BY <2>1 DEF IInv, TypeOK, Create, Places
  <2>4. Counted'
    BY <1>1, <2>1, <2>3 DEF Counted, Files
  <2> QED
    BY <2>2, <2>4
<1> QED
  BY <1>2, <1>3, <1>4, <1>5, <1>6 DEF IInv

LEMMA WriteEarlyInv == IInv /\ WriteEarly => IInv'
<1> SUFFICES ASSUME IInv, WriteEarly PROVE IInv'
  OBVIOUS
<1>1. /\ lines' \in 1 .. MaxLines
      /\ files[0] \in Seq(1 .. MaxLines)
      /\ pc = "idle"
  BY Bounds, FileTypes DEF IInv, TypeOK, WriteEarly, FileIsOpen, Places, InRefile
<1>2. Append(files[0], lines') \in Seq(1 .. MaxLines)
  BY <1>1, SeqFacts
<1>3. /\ files' \in [Files -> Seq(1 .. MaxLines) \cup {Missing}]
      /\ \A i \in Files : Exists(i)' <=> Exists(i)
  BY <1>1, <1>2, Bounds, FileTypes DEF IInv, WriteEarly, Exists
<1>4. TypeOK'
  BY <1>1, <1>3, Bounds DEF IInv, TypeOK, WriteEarly, Files
<1>5. TargetFree' /\ FileIsOpen' /\ Places' /\ NoneBeyondSum'
  BY <1>1, <1>3, Bounds DEF IInv, WriteEarly, TargetFree, FileIsOpen, Places, NoneBeyondSum, InRefile
<1>6. ~torn' => NoGap' /\ Counted'
  BY <1>1, <1>3 DEF IInv, WriteEarly, NoGap, Counted, IsHole
<1> QED
  BY <1>4, <1>5, <1>6 DEF IInv

\* A step that leaves the files alone, and refile(), keeps all but the types.
LEMMA QuietStep ==
  ASSUME IInv, TypeOK',
         UNCHANGED <<mode, files, at, count, torn>>,
         ~InRefile, ~InRefile', phase = "enabled" \/ pc = "idle",
         phase' = "enabled" \/ (phase' = "down" /\ pc' = "idle"), phase # "down"
  PROVE  IInv'
<1>1. TargetFree' /\ FileIsOpen' /\ Places' /\ NoneBeyondSum'
  BY DEF IInv, TargetFree, FileIsOpen, Places, NoneBeyondSum, InRefile, Exists
<1>2. ~torn' => NoGap' /\ Counted'
  BY DEF IInv, NoGap, Counted, IsHole, InRefile, Exists
<1> QED
  BY <1>1, <1>2 DEF IInv

LEMMA WriteInv == IInv /\ Write => IInv'
<1> SUFFICES ASSUME IInv, Write PROVE IInv'
  OBVIOUS
<1>1. lines' \in 1 .. MaxLines /\ buf \in Seq(1 .. MaxLines) /\ Len(buf) < BufMax
  BY Bounds DEF IInv, TypeOK, Write
<1>2. buf' \in Seq(1 .. MaxLines) /\ Len(buf') = Len(buf) + 1
  BY <1>1, SeqFacts DEF Write
<1>3. TypeOK'
  BY <1>1, <1>2, Bounds, SeqFacts DEF IInv, TypeOK, Write
<1>4. TargetFree' /\ FileIsOpen' /\ Places' /\ NoneBeyondSum'
  BY DEF IInv, Write, TargetFree, FileIsOpen, Places, NoneBeyondSum, InRefile, Exists
<1>5. ~torn' => NoGap' /\ Counted'
  BY DEF IInv, Write, NoGap, Counted, IsHole, Exists
<1> QED
  BY <1>3, <1>4, <1>5 DEF IInv

LEMMA StartInv == IInv /\ Start => IInv'
<1> SUFFICES ASSUME IInv, Start PROVE IInv'
  OBVIOUS
<1>1. TypeOK'
  BY DEF IInv, TypeOK, Start
<1> QED
  BY <1>1, QuietStep DEF IInv, Start, Places, InRefile

LEMMA LookInv == IInv /\ Look => IInv'
<1> SUFFICES ASSUME IInv, Look PROVE IInv'
  OBVIOUS
<1>1. TypeOK'
  BY DEF IInv, TypeOK, Look
<1> QED
  BY <1>1, QuietStep DEF Look, InRefile

\* Only the log thread stands anywhere in output().
LEMMA OutputEnabled ==
  ASSUME IInv, pc \in {"swap", "check", "flush"}
  PROVE  phase = "enabled"
BY DEF IInv, TypeOK, Places, InRefile

LEMMA SwapInv == IInv /\ Swap => IInv'
<1> SUFFICES ASSUME IInv, Swap PROVE IInv'
  OBVIOUS
<1>1. TypeOK'
  BY EmptySeq, Bounds DEF IInv, TypeOK, Swap
<1> QED
  BY <1>1, QuietStep, OutputEnabled DEF Swap, InRefile

LEMMA CheckInv == IInv /\ Check => IInv'
<1> SUFFICES ASSUME IInv, Check PROVE IInv'
  OBVIOUS
<1>1. phase = "enabled" /\ count \in 0 .. MaxFile
  BY OutputEnabled DEF IInv, TypeOK, Check
<1>2. CASE ~(fsize > FileSize)
  <2>1. TypeOK'
    BY <1>2 DEF IInv, TypeOK, Check
  <2> QED
    BY <1>1, <1>2, <2>1, QuietStep DEF Check, InRefile
<1>3. CASE fsize > FileSize
  <2>1. /\ count' = NextCount /\ NextCount \in 1 .. MaxFile /\ pc' = "remove"
        /\ mode = "reopen" => count' = FileSum
        /\ mode = "append" => count' = count + 1
    <3>1. NextCount <= MaxFile /\ count' = NextCount /\ pc' = "remove"
      BY <1>3 DEF Check
    <3>2. mode \in {"reopen", "append"} /\ (mode = "reopen" => count = FileSum)
      BY LogAssumption DEF LogAssumption, IInv, TypeOK
    <3>3. CASE mode = "append"
      <4>1. NextCount = count + 1
        BY <3>3 DEF NextCount
      <4> QED
        BY <1>1, <3>1, <3>3, <4>1, Bounds
    <3>4. CASE mode = "reopen"
      <4>1. NextCount = count /\ count = FileSum
        BY <3>2, <3>4 DEF NextCount
      <4> QED
        BY <1>1, <3>1, <3>4, <4>1, Bounds
    <3> QED
      BY <3>2, <3>3, <3>4
  <2>2. TypeOK'
    BY <2>1 DEF IInv, TypeOK, Check
  <2>3. TargetFree' /\ FileIsOpen' /\ Places' /\ NoneBeyondSum'
    <3>1. UNCHANGED <<files, mode, phase>>
      BY DEF Check
    <3>2. TargetFree' /\ FileIsOpen'
      <4>1. pc' = "remove"
        BY <2>1
      <4>2. TargetFree'
        BY <4>1 DEF TargetFree
      <4>3. FileIsOpen'
        BY <4>1 DEF FileIsOpen
      <4> QED
        BY <4>2, <4>3
    <3>3. Places'
      BY <1>1, <2>1, <3>1 DEF Places
    <3>4. NoneBeyondSum'
      BY <3>1 DEF IInv, NoneBeyondSum, Exists
    <3> QED
      BY <3>2, <3>3, <3>4
  <2>4. ~torn' => NoGap' /\ Counted'
    BY <1>1, <2>1 DEF IInv, Check, NoGap, Counted, IsHole, Exists, Files
  <2> QED
    BY <2>2, <2>3, <2>4 DEF IInv
<1> QED
  BY <1>2, <1>3

LEMMA FlushInv == IInv /\ Flush => IInv'
<1> SUFFICES ASSUME IInv, Flush PROVE IInv'
  OBVIOUS
<1>1. /\ phase = "enabled"
      /\ files[0] \in Seq(1 .. MaxLines) /\ out \in Seq(1 .. MaxLines)
  BY Bounds, FileTypes, OutputEnabled DEF IInv, TypeOK, Flush, FileIsOpen
<1>2. files[0] \o out \in Seq(1 .. MaxLines) /\ Len(files[0] \o out) \in Nat
  BY <1>1, SeqFacts
<1>3. /\ files' \in [Files -> Seq(1 .. MaxLines) \cup {Missing}]
      /\ files'[0] = files[0] \o out
      /\ \A i \in Files : Exists(i)' <=> Exists(i)
  BY <1>1, <1>2, Bounds, FileTypes DEF IInv, Flush, Exists
<1>4. TypeOK'
  BY <1>2, <1>3, EmptySeq, Bounds DEF IInv, TypeOK, Flush, Files
<1>5. TargetFree' /\ FileIsOpen' /\ Places' /\ NoneBeyondSum'
  BY <1>1, <1>3, Bounds DEF IInv, Flush, TargetFree, FileIsOpen, Places, NoneBeyondSum, InRefile
<1>6. ~torn' => NoGap' /\ Counted'
  BY <1>1, <1>3 DEF IInv, Flush, NoGap, Counted, IsHole
<1> QED
  BY <1>4, <1>5, <1>6 DEF IInv

LEMMA EndProcessInv ==
  ASSUME IInv, NEW n \in 0 .. BufMax, EndProcess(n)
  PROVE  IInv'
<1>1. /\ n \in 0 .. Len(out) /\ out \in Seq(1 .. MaxLines) /\ buf \in Seq(1 .. MaxLines)
      /\ n > 0 => pc = "flush"
  BY DEF IInv, TypeOK, EndProcess
<1>2. /\ files' \in [Files -> Seq(1 .. MaxLines) \cup {Missing}]
      /\ \A i \in Files : Exists(i)' <=> Exists(i)
  <2>1. CASE n = 0
    BY <2>1, FileTypes DEF IInv, EndProcess, Exists
  <2>2. CASE n > 0
    <3>1. files[0] \in Seq(1 .. MaxLines) /\ SubSeq(out, 1, n) \in Seq(1 .. MaxLines)
      BY <1>1, <2>2, Bounds, FileTypes, SeqFacts DEF IInv, EndProcess, FileIsOpen
    <3>2. files[0] \o SubSeq(out, 1, n) \in Seq(1 .. MaxLines)
      BY <3>1, SeqFacts
    <3> QED
      BY <2>2, <3>1, <3>2, Bounds, FileTypes DEF IInv, EndProcess, Exists
  <2> QED
    BY <1>1, <2>1, <2>2
<1>3. lost' \subseteq 1 .. MaxLines
  <2>1. SubSeq(out, n + 1, Len(out)) \in Seq(1 .. MaxLines)
    BY <1>1, SeqFacts
  <2>2. SubSeq(out, n + 1, Len(out)) \o buf \in Seq(1 .. MaxLines)
    BY <1>1, <2>1, SeqFacts
  <2> QED
    BY <2>2, LineFacts DEF IInv, TypeOK, EndProcess
<1>4. TypeOK'
  <2>1. torn' \in BOOLEAN
    BY DEF IInv, TypeOK, EndProcess
  <2>2. ends' \in 0 .. MaxEnds
    BY Bounds DEF IInv, TypeOK, EndProcess
  <2>3. /\ out' \in Seq(1 .. MaxLines) /\ Len(out') <= BufMax
        /\ buf' \in Seq(1 .. MaxLines) /\ Len(buf') <= BufMax
    BY Bounds, EmptySeq DEF EndProcess
  <2> QED
    BY <1>2, <1>3, <2>1, <2>2, <2>3 DEF IInv, TypeOK, EndProcess, Files
<1>5. TargetFree' /\ FileIsOpen' /\ Places' /\ NoneBeyondSum'
  BY <1>2 DEF IInv, EndProcess, TargetFree, FileIsOpen, Places, NoneBeyondSum, InRefile
<1>6. ~torn' => NoGap' /\ Counted'
  BY <1>2 DEF IInv, EndProcess, NoGap, Counted, IsHole
<1> QED
  BY <1>4, <1>5, <1>6 DEF IInv
-----------------------------------------------------------------------------
(* The invariant *)

LEMMA NextInv == IInv /\ [Next]_vars => IInv'
<1> SUFFICES ASSUME IInv, [Next]_vars PROVE IInv'
  OBVIOUS
<1>1. CASE UNCHANGED vars
  BY <1>1 DEF IInv, vars, TypeOK, TargetFree, FileIsOpen, Places, NoneBeyondSum, NoGap,
              Counted, IsHole, InRefile, Exists
<1>2. CASE Next
  BY <1>2, OpenAppendInv, OpenAnewInv, RemoveInv, RenameInv, CreateInv, WriteEarlyInv,
     WriteInv, StartInv, LookInv, SwapInv, CheckInv, FlushInv, EndProcessInv
     DEF Next, Opening, Refile, Output
<1> QED
  BY <1>1, <1>2

\* Where the threads stand and which files exist always fit together.
THEOREM Invariance == Spec => []IInv
BY InitInv, NextInv, PTL DEF Spec

\* Every variable keeps its type; m_count of a FILE_REOPEN log stays LOG_FILE_SUM.
THEOREM TypeCorrect == Spec => []TypeOK
<1>1. IInv => TypeOK
  BY DEF IInv
<1> QED
  BY Invariance, <1>1, PTL

\* No rename() in refile() meets an existing file, on either system, whatever restarts
\* did to the numbers.
THEOREM RenameIsSafe == Spec => []TargetFree
<1>1. IInv => TargetFree
  BY DEF IInv
<1> QED
  BY Invariance, <1>1, PTL

\* The file is open whenever something is written to it.
THEOREM Opened == Spec => []FileIsOpen
<1>1. IInv => FileIsOpen
  BY DEF IInv
<1> QED
  BY Invariance, <1>1, PTL

\* Unless the process once ended within refile(), a FILE_APPEND log never removes a file,
\* and a FILE_REOPEN log only the one beyond LOG_FILE_SUM others.
THEOREM RemovalIsRight == Spec => RemovesOnlyTheSurplus
<1>1. IInv /\ [Next]_vars =>
        [gone' # gone => torn \/ (mode = "reopen" /\ \A i \in 0 .. FileSum : Exists(i))]_vars
  <2> SUFFICES ASSUME IInv, Next, gone' # gone, ~torn
               PROVE  mode = "reopen" /\ \A i \in 0 .. FileSum : Exists(i)
    OBVIOUS
  <2>1. Remove
    BY DEF Next, Opening, Refile, Output, OpenAppend, OpenAnew, Rename, Create, WriteEarly,
           Write, Start, Look, Swap, Check, Flush, EndProcess
  <2>2. Exists(count) /\ count \in Files /\ pc = "remove" /\ phase # "down"
    BY <2>1 DEF IInv, TypeOK, Remove, Places, Files
  <2>3. mode = "reopen" /\ count = FileSum
    BY <2>2, LogAssumption DEF IInv, TypeOK, Counted, LogAssumption
  <2>4. ASSUME NEW i \in 0 .. FileSum PROVE Exists(i)
    BY <2>2, <2>3, Bounds DEF IInv, NoGap, IsHole, Files
  <2> QED
    BY <2>3, <2>4
<1> QED
  BY Invariance, <1>1, PTL DEF Spec, RemovesOnlyTheSurplus
-----------------------------------------------------------------------------
(* Sequences of lines *)

LEMMA LinesOfParts ==
  ASSUME NEW S
  PROVE  /\ LinesOf(<<>>) = {}
         /\ \A s \in Seq(S), t \in Seq(S) : LinesOf(s \o t) = LinesOf(s) \cup LinesOf(t)
         /\ \A s \in Seq(S), e \in S : LinesOf(Append(s, e)) = LinesOf(s) \cup {e}
         /\ \A s \in Seq(S) : \A n \in 0 .. Len(s) :
               LinesOf(s) = LinesOf(SubSeq(s, 1, n)) \cup LinesOf(SubSeq(s, n + 1, Len(s)))
<1>1. LinesOf(<<>>) = {}
  BY DEF LinesOf
<1>2. ASSUME NEW s \in Seq(S), NEW t \in Seq(S)
      PROVE  LinesOf(s \o t) = LinesOf(s) \cup LinesOf(t)
  <2>1. Range(s \o t) = Range(s) \cup Range(t)
    BY RangeConcatenation
  <2>2. \A u \in Seq(S) : LinesOf(u) = Range(u)
    BY DEF LinesOf, Range
  <2> QED
    BY <2>1, <2>2, SeqFacts
<1>3. ASSUME NEW s \in Seq(S), NEW e \in S
      PROVE  LinesOf(Append(s, e)) = LinesOf(s) \cup {e}
  <2>1. Append(s, e) = s \o <<e>> /\ <<e>> \in Seq(S)
    BY AppendIsConcat
  <2>2. LinesOf(<<e>>) = {e}
    BY DEF LinesOf
  <2> QED
    BY <1>2, <2>1, <2>2
<1>4. ASSUME NEW s \in Seq(S), NEW n \in 0 .. Len(s)
      PROVE  LinesOf(s) = LinesOf(SubSeq(s, 1, n)) \cup LinesOf(SubSeq(s, n + 1, Len(s)))
  <2>1. s = SubSeq(s, 1, n) \o SubSeq(s, n + 1, Len(s))
    <3>1. 1 \in 1 .. Len(s) + 1 /\ n \in 1 - 1 .. Len(s) /\ Len(s) \in n .. Len(s)
      BY LenProperties
    <3> QED
      BY <3>1, ConcatAdjacentSubSeq, SubSeqFull
  <2> QED
    BY <1>2, <2>1, SeqFacts
<1> QED
  BY <1>1, <1>2, <1>3, <1>4

LEMMA OrderOfParts ==
  ASSUME NEW S, S \subseteq Int
  PROVE  /\ Increasing(<<>>)
         /\ \A s \in Seq(S) : Before(<<>>, s) /\ Before(s, <<>>)
         /\ \A s \in Seq(S), t \in Seq(S) :
               Increasing(s) /\ Increasing(t) /\ Before(s, t) => Increasing(s \o t)
         /\ \A s \in Seq(S) : \A n \in 0 .. Len(s) :
               Increasing(s) => Increasing(SubSeq(s, 1, n))
<1>1. Increasing(<<>>) /\ \A s \in Seq(S) : Before(<<>>, s) /\ Before(s, <<>>)
  BY DEF Increasing, Before, LinesOf
<1>2. ASSUME NEW s \in Seq(S), NEW t \in Seq(S), Increasing(s), Increasing(t), Before(s, t)
      PROVE  Increasing(s \o t)
  <2> DEFINE u == s \o t
  <2>1. /\ Len(s) \in Nat /\ Len(t) \in Nat
        /\ DOMAIN s = 1 .. Len(s) /\ DOMAIN t = 1 .. Len(t)
        /\ DOMAIN u = 1 .. Len(s) + Len(t)
        /\ \A k \in 1 .. Len(s) + Len(t) : u[k] = IF k <= Len(s) THEN s[k] ELSE t[k - Len(s)]
    BY LenProperties, ConcatProperties
  <2>2. \A j \in 1 .. Len(s), k \in 1 .. Len(t) : s[j] < t[k]
    BY <1>2, <2>1 DEF Before, LinesOf
  <2>3. \A j \in 1 .. Len(s), k \in 1 .. Len(s) : j < k => s[j] < s[k]
    BY <1>2, <2>1 DEF Increasing
  <2>4. \A j \in 1 .. Len(t), k \in 1 .. Len(t) : j < k => t[j] < t[k]
    BY <1>2, <2>1 DEF Increasing
  <2> HIDE DEF u
  <2>5. ASSUME NEW j \in 1 .. Len(s) + Len(t), NEW k \in 1 .. Len(s) + Len(t), j < k
        PROVE  u[j] < u[k]
    <3>1. CASE k <= Len(s)
      BY <2>1, <2>3, <2>5, <3>1
    <3>2. CASE j <= Len(s) /\ k > Len(s)
      BY <2>1, <2>2, <3>2
    <3>3. CASE j > Len(s)
      BY <2>1, <2>4, <2>5, <3>3
    <3> QED
      BY <2>1, <3>1, <3>2, <3>3
  <2>6. Increasing(u)
    BY <2>1, <2>5 DEF Increasing
  <2> QED
    BY <2>6 DEF u
<1>3. ASSUME NEW s \in Seq(S), NEW n \in 0 .. Len(s), Increasing(s)
      PROVE  Increasing(SubSeq(s, 1, n))
  <2>1. Len(s) \in Nat /\ DOMAIN s = 1 .. Len(s) /\ n \in Nat
    BY LenProperties
  <2>2. \A k \in 1 .. n : s[k] \in S
    BY <2>1, ElementOfSeq
  <2>3. DOMAIN SubSeq(s, 1, n) = 1 .. n /\ \A k \in 1 .. n : SubSeq(s, 1, n)[k] = s[k]
    BY <2>1, <2>2, SubSeqProperties, LenProperties
  <2> QED
    BY <1>3, <2>1, <2>3 DEF Increasing
<1> QED
  BY <1>1, <1>2, <1>3
-----------------------------------------------------------------------------
(* No line vanishes, and the order stays *)

\* A buffer is empty where no line may be overwritten or passed.
Drained ==
  /\ phase # "enabled" => out = <<>> /\ buf = <<>>
  /\ pc \in {"idle", "swap"} => out = <<>>

LInv == IInv /\ NothingVanishes /\ LinesInOrder /\ Drained

\* What the lines are in terms of single files.
LEMMA OnDiskMeans ==
  \A a : a \in OnDisk <=> \E i \in Files : Exists(i) /\ a \in LinesOf(files[i])
BY DEF OnDisk, Files

\* All lines so far were counted by lines.
LEMMA AllCounted ==
  ASSUME LInv
  PROVE  /\ lines \in 0 .. MaxLines
         /\ \A a \in LinesOf(out) \cup LinesOf(buf) : a \in 1 .. lines
         /\ \A i \in Files : Exists(i) => \A a \in LinesOf(files[i]) : a \in 1 .. lines
BY OnDiskMeans DEF LInv, IInv, TypeOK, NothingVanishes

\* The next line is newer than all of them.
LEMMA BeforeNext ==
  ASSUME LInv, NEW t, LinesOf(t) = {lines + 1}
  PROVE  /\ Before(out, t) /\ Before(buf, t)
         /\ \A i \in Files : Exists(i) => Before(files[i], t)
<1>1. /\ lines \in Int /\ \A a \in 1 .. lines : a < lines + 1
      /\ \A b \in LinesOf(t) : b = lines + 1
  BY AllCounted
<1>2. \A s : LinesOf(s) \subseteq 1 .. lines => Before(s, t)
  BY <1>1 DEF Before
<1>3. /\ LinesOf(out) \subseteq 1 .. lines /\ LinesOf(buf) \subseteq 1 .. lines
      /\ \A i \in Files : Exists(i) => LinesOf(files[i]) \subseteq 1 .. lines
  BY AllCounted
<1> QED
  BY <1>2, <1>3

LEMMA InitLInv == Init => LInv
<1> SUFFICES ASSUME Init PROVE LInv
  OBVIOUS
<1>1. NothingVanishes
  BY OnDiskMeans, LinesOfParts, Bounds DEF Init, NothingVanishes, Exists, Files
<1>2. LinesInOrder /\ Drained
  BY OrderOfParts DEF Init, LinesInOrder, Drained, Exists, Increasing, Before, LinesOf
<1> QED
  BY <1>1, <1>2, InitInv DEF LInv

\* A step that changes neither the lines of any file nor a buffer.
LEMMA SameLines ==
  ASSUME LInv, IInv', UNCHANGED <<out, buf, lines, gone, lost>>,
         \A i \in Files : Exists(i)' => \/ files'[i] = <<>>
                                        \/ Exists(i) /\ files'[i] = files[i],
         \A i \in Files : Exists(i) => Exists(i)' /\ files'[i] = files[i],
         Drained'
  PROVE  LInv'
<1>1. NothingVanishes'
  <2>1. \A a : a \in OnDisk' <=> \E i \in Files : Exists(i)' /\ a \in LinesOf(files'[i])
    BY DEF OnDisk, Files
  <2>2. OnDisk' = OnDisk
    BY <2>1, OnDiskMeans, LinesOfParts
  <2> QED
    BY <2>2 DEF LInv, NothingVanishes
<1>2. LinesInOrder'
  <2>1. \A s : Before(<<>>, s) /\ Before(s, <<>>)
    BY DEF Before, LinesOf
  <2>2. Increasing(<<>>)
    BY DEF Increasing
  <2>3. ASSUME NEW i \in Files, Exists(i)'
        PROVE  /\ Increasing(files'[i]) /\ Before(files'[i], out) /\ Before(files'[i], buf)
               /\ \A j \in 0 .. i - 1 : Exists(j)' => Before(files'[i], files'[j])
    <3>1. \A j \in 0 .. i - 1 : j \in Files
      BY Bounds DEF Files
    <3> QED
      BY <2>1, <2>2, <2>3, <3>1 DEF LInv, LinesInOrder, Files
  <2> QED
    BY <2>3 DEF LInv, LinesInOrder, Files
<1> QED
  BY <1>1, <1>2 DEF LInv

\* The last file gets the lines of t, which were nowhere on disk before.
LEMMA Appends ==
  ASSUME LInv, NEW t \in Seq(1 .. MaxLines), Increasing(t), files[0] \in Seq(1 .. MaxLines),
         Exists(0), files' = [files EXCEPT ![0] = files[0] \o t],
         \A i \in Files : Exists(i) => Before(files[i], t)
  PROVE  /\ \A a : a \in OnDisk' <=> a \in OnDisk \cup LinesOf(t)
         /\ \A i \in Files : Exists(i)' <=> Exists(i)
         /\ \A i \in Files : Exists(i)' => Increasing(files'[i])
         /\ \A i \in Files : \A j \in 0 .. i - 1 :
               Exists(i)' /\ Exists(j)' => Before(files'[i], files'[j])
<1>1. /\ files[0] \o t \in Seq(1 .. MaxLines)
      /\ LinesOf(files[0] \o t) = LinesOf(files[0]) \cup LinesOf(t)
  BY LinesOfParts, SeqFacts
<1>2. /\ 0 \in Files /\ files'[0] = files[0] \o t
      /\ \A i \in Files : i # 0 => files'[i] = files[i]
      /\ \A i \in Files : Exists(i)' <=> Exists(i)
  BY <1>1, FileTypes, Bounds DEF LInv, IInv, Exists
<1>3. \A a : a \in OnDisk' <=> \E i \in Files : Exists(i)' /\ a \in LinesOf(files'[i])
  BY DEF OnDisk, Files
<1>4. \A a : a \in OnDisk' <=> a \in OnDisk \cup LinesOf(t)
  BY <1>1, <1>2, <1>3, OnDiskMeans
<1>5. Increasing(files[0] \o t)
  <2>1. Increasing(files[0]) /\ Before(files[0], t)
    BY <1>2 DEF LInv, LinesInOrder, Files
  <2>2. 1 .. MaxLines \subseteq Int
    OBVIOUS
  <2> QED
    BY <2>1, <2>2, OrderOfParts
<1>6. ASSUME NEW i \in Files, NEW j \in 0 .. i - 1, Exists(i)', Exists(j)'
      PROVE  Before(files'[i], files'[j])
  <2>1. j \in Files /\ i # 0 /\ Exists(i) /\ Exists(j) /\ files'[i] = files[i]
    BY <1>2, <1>6, Bounds DEF Files
  <2>2. Before(files[i], files[j]) /\ Before(files[i], t)
    BY <2>1 DEF LInv, LinesInOrder, Files
  <2>3. CASE j = 0
    BY <1>1, <1>2, <2>1, <2>2, <2>3 DEF Before
  <2>4. CASE j # 0
    BY <1>2, <2>1, <2>2, <2>4
  <2> QED
    BY <2>3, <2>4
<1> QED
  BY <1>2, <1>4, <1>5, <1>6 DEF LInv, LinesInOrder, Files

LEMMA WriteEarlyLInv == LInv /\ IInv' /\ WriteEarly => LInv'
<1> SUFFICES ASSUME LInv, IInv', WriteEarly PROVE LInv'
  OBVIOUS
<1> DEFINE t == <<lines'>>
<1>1. /\ lines \in Nat /\ lines' = lines + 1 /\ lines' \in 1 .. MaxLines
      /\ out = <<>> /\ buf = <<>>
      /\ Exists(0) /\ files[0] \in Seq(1 .. MaxLines)
  BY FileTypes, Bounds DEF LInv, IInv, TypeOK, Drained, WriteEarly, FileIsOpen, Places
<1>2. t \in Seq(1 .. MaxLines) /\ LinesOf(t) = {lines'} /\ Increasing(t)
  BY <1>1 DEF LinesOf, Increasing
<1>3. files' = [files EXCEPT ![0] = files[0] \o t]
  <2>1. Append(files[0], lines') = files[0] \o t
    BY <1>1, AppendIsConcat
  <2> QED
    BY <2>1 DEF WriteEarly
<1>4. \A i \in Files : Exists(i) => Before(files[i], t)
  BY <1>1, <1>2, BeforeNext
<1> HIDE DEF t
<1>5. /\ \A a : a \in OnDisk' <=> a \in OnDisk \cup LinesOf(t)
      /\ \A i \in Files : Exists(i)' <=> Exists(i)
      /\ \A i \in Files : Exists(i)' => Increasing(files'[i])
      /\ \A i \in Files : \A j \in 0 .. i - 1 :
            Exists(i)' /\ Exists(j)' => Before(files'[i], files'[j])
  BY <1>1, <1>2, <1>3, <1>4, Appends
<1>6. NothingVanishes'
  <2>1. 1 .. lines' = 1 .. lines \cup {lines'}
    BY <1>1
  <2> QED
    BY <1>2, <1>5, <2>1 DEF LInv, NothingVanishes, WriteEarly
<1>7. LinesInOrder'
  <2>1. \A s : Before(<<>>, s) /\ Before(s, <<>>)
    BY DEF Before, LinesOf
  <2> QED
    BY <1>1, <1>5, <2>1 DEF LInv, LinesInOrder, WriteEarly, Files
<1>8. Drained'
  BY DEF LInv, Drained, WriteEarly
<1> QED
  BY <1>6, <1>7, <1>8 DEF LInv

LEMMA WriteLInv == LInv /\ IInv' /\ Write => LInv'
<1> SUFFICES ASSUME LInv, IInv', Write PROVE LInv'
  OBVIOUS
<1> DEFINE t == <<lines'>>
<1>1. /\ lines \in Nat /\ lines' = lines + 1 /\ lines' \in 1 .. MaxLines
      /\ buf \in Seq(1 .. MaxLines) /\ buf' = buf \o t
  BY Bounds, AppendIsConcat DEF LInv, IInv, TypeOK, Write
<1>2. t \in Seq(1 .. MaxLines) /\ LinesOf(t) = {lines'} /\ Increasing(t)
  BY <1>1 DEF LinesOf, Increasing
<1> HIDE DEF t
<1>3. LinesOf(buf') = LinesOf(buf) \cup {lines'}
  BY <1>1, <1>2, LinesOfParts
<1>4. /\ Before(buf, t) /\ Before(out, t)
      /\ \A i \in Files : Exists(i) => Before(files[i], t)
  BY <1>1, <1>2, BeforeNext
<1>5. Increasing(buf')
  <2>1. Increasing(buf) /\ 1 .. MaxLines \subseteq Int
    BY DEF LInv, LinesInOrder
  <2> QED
    BY <1>1, <1>2, <1>4, <2>1, OrderOfParts
<1>6. Before(out, buf') /\ \A i \in Files : Exists(i) => Before(files[i], buf')
  BY <1>2, <1>3, <1>4 DEF LInv, LinesInOrder, Before, Files
<1>7. NothingVanishes'
  <2>1. 1 .. lines' = 1 .. lines \cup {lines'}
    BY <1>1
  <2>2. OnDisk' = OnDisk
    BY DEF Write, OnDisk, Exists
  <2> QED
    BY <1>3, <2>1, <2>2 DEF LInv, NothingVanishes, Write
<1>8. LinesInOrder'
  BY <1>5, <1>6 DEF LInv, LinesInOrder, Write, Exists, Files
<1>9. Drained'
  BY DEF LInv, Drained, Write
<1> QED
  BY <1>7, <1>8, <1>9 DEF LInv

LEMMA SwapLInv == LInv /\ IInv' /\ Swap => LInv'
<1> SUFFICES ASSUME LInv, IInv', Swap PROVE LInv'
  OBVIOUS
<1>1. out = <<>> /\ out' = buf /\ buf' = <<>> /\ LinesOf(<<>>) = {} /\ phase = "enabled"
  BY OutputEnabled DEF LInv, Drained, Swap, LinesOf
<1>2. NothingVanishes'
  <2>1. OnDisk' = OnDisk
    BY DEF Swap, OnDisk, Exists
  <2> QED
    BY <1>1, <2>1 DEF LInv, NothingVanishes, Swap
<1>3. LinesInOrder'
  <2>1. (\A s : Before(s, <<>>)) /\ Increasing(<<>>)
    BY DEF Before, LinesOf, Increasing
  <2> QED
    BY <1>1, <2>1 DEF LInv, LinesInOrder, Swap, Exists
<1>4. Drained'
  BY <1>1 DEF Drained, Swap
<1> QED
  BY <1>2, <1>3, <1>4 DEF LInv

LEMMA FlushLInv == LInv /\ IInv' /\ Flush => LInv'
<1> SUFFICES ASSUME LInv, IInv', Flush PROVE LInv'
  OBVIOUS
<1>1. /\ out \in Seq(1 .. MaxLines) /\ Increasing(out)
      /\ Exists(0) /\ files[0] \in Seq(1 .. MaxLines)
      /\ files' = [files EXCEPT ![0] = files[0] \o out]
      /\ \A i \in Files : Exists(i) => Before(files[i], out)
      /\ phase = "enabled"
  BY FileTypes, Bounds, OutputEnabled
     DEF LInv, IInv, TypeOK, Flush, FileIsOpen, LinesInOrder, Files
<1>2. /\ \A a : a \in OnDisk' <=> a \in OnDisk \cup LinesOf(out)
      /\ \A i \in Files : Exists(i)' <=> Exists(i)
      /\ \A i \in Files : Exists(i)' => Increasing(files'[i])
      /\ \A i \in Files : \A j \in 0 .. i - 1 :
            Exists(i)' /\ Exists(j)' => Before(files'[i], files'[j])
  BY <1>1, Appends
<1>3. out' = <<>> /\ buf' = buf /\ LinesOf(<<>>) = {}
  BY DEF Flush, LinesOf
<1>4. NothingVanishes'
  BY <1>2, <1>3 DEF LInv, NothingVanishes, Flush
<1>5. \A i \in Files : Exists(i)' => Before(files'[i], buf)
  <2>1. LinesOf(files[0] \o out) = LinesOf(files[0]) \cup LinesOf(out)
    BY <1>1, LinesOfParts
  <2>2. Before(files[0], buf) /\ Before(out, buf)
    BY <1>1, Bounds DEF LInv, LinesInOrder, Files
  <2>3. Before(files[0] \o out, buf)
    BY <2>1, <2>2 DEF Before
  <2>4. \A i \in Files : files'[i] = IF i = 0 THEN files[0] \o out ELSE files[i]
    BY <1>1, FileTypes, Bounds DEF LInv, IInv
  <2> QED
    BY <1>2, <2>3, <2>4 DEF LInv, LinesInOrder, Files
<1>6. LinesInOrder'
  <2>1. (\A s : Before(<<>>, s) /\ Before(s, <<>>)) /\ Increasing(<<>>)
    BY DEF Before, LinesOf, Increasing
  <2> QED
    BY <1>2, <1>3, <1>5, <2>1 DEF LInv, LinesInOrder, Files
<1>7. Drained'
  BY <1>1, <1>3 DEF Drained, Flush
<1> QED
  BY <1>4, <1>6, <1>7 DEF LInv

LEMMA RemoveLInv == LInv /\ IInv' /\ Remove => LInv'
<1> SUFFICES ASSUME LInv, IInv', Remove PROVE LInv'
  OBVIOUS
<1>1. /\ count \in Files
      /\ \A i \in Files : Exists(i)' <=> i # count /\ Exists(i)
      /\ \A i \in Files : i # count => files'[i] = files[i]
      /\ \A j \in Files : \A i \in 0 .. j - 1 : i \in Files
  BY Bounds, FileTypes DEF LInv, IInv, TypeOK, Places, Remove, Exists, Files
<1>2. \A a : a \in OnDisk' <=> \E i \in Files : i # count /\ Exists(i) /\ a \in LinesOf(files[i])
  BY <1>1 DEF OnDisk, Files
<1>3. NothingVanishes'
  <2>1. \A a : a \in OnDisk' \cup gone' <=> a \in OnDisk \cup gone
    BY <1>1, <1>2, OnDiskMeans DEF Remove
  <2> QED
    BY <2>1 DEF LInv, NothingVanishes, Remove
<1>4. LinesInOrder'
  BY <1>1 DEF LInv, LinesInOrder, Remove, Files
<1>5. Drained'
  BY DEF LInv, Drained, Remove
<1> QED
  BY <1>3, <1>4, <1>5 DEF LInv

LEMMA RenameLInv == LInv /\ IInv' /\ Rename => LInv'
<1> SUFFICES ASSUME LInv, IInv', Rename PROVE LInv'
  OBVIOUS
<1> DEFINE from(i) == IF i = at THEN at - 1 ELSE i
<1>1. /\ at \in Files /\ at - 1 \in Files /\ ~Exists(at) /\ at \in Int
      /\ \A i \in Files : Exists(i)' => i # at - 1 /\ Exists(from(i)) /\ files'[i] = files[from(i)]
      /\ \A i \in Files : i # at /\ i # at - 1 /\ Exists(i) => Exists(i)' /\ files'[i] = files[i]
      /\ Exists(at - 1) => files'[at] = files[at - 1]
      /\ \A j \in Files : \A i \in 0 .. j - 1 : i \in Files
  <2>1. /\ at \in Files /\ at - 1 \in Files /\ ~Exists(at)
        /\ \A i \in Files : i # at /\ i # at - 1 => files'[i] = files[i]
        /\ files'[at] = files[at - 1] /\ files'[at - 1] = Missing
        /\ \A i \in Files : Exists(i)' <=> files'[i] # Missing
    BY RenameFiles DEF LInv
  <2>2. /\ at \in Int /\ at # at - 1
        /\ \A j \in Files : \A i \in 0 .. j - 1 : i \in Files
    BY <2>1, Bounds DEF Files
  <2>3. ASSUME NEW i \in Files, Exists(i)'
        PROVE  i # at - 1 /\ Exists(from(i)) /\ files'[i] = files[from(i)]
    <3>1. CASE i = at
      BY <2>1, <2>2, <2>3, <3>1 DEF Exists
    <3>2. CASE i # at
      BY <2>1, <2>2, <2>3, <3>2 DEF Exists
    <3> QED
      BY <3>1, <3>2
  <2>4. /\ \A i \in Files : i # at /\ i # at - 1 /\ Exists(i) => Exists(i)' /\ files'[i] = files[i]
        /\ Exists(at - 1) => files'[at] = files[at - 1]
    BY <2>1 DEF Exists
  <2>5. \A i \in Files : Exists(i)' => i # at - 1 /\ Exists(from(i)) /\ files'[i] = files[from(i)]
    BY <2>3
  <2> HIDE DEF from
  <2> QED
    BY <2>1, <2>2, <2>5, <2>4, Zenon
<1>2. \A a : a \in OnDisk' <=> \E i \in Files : Exists(i)' /\ a \in LinesOf(files'[i])
  BY DEF OnDisk, Files
<1>3. NothingVanishes'
  <2>1. ASSUME NEW a \in OnDisk PROVE a \in OnDisk'
    <3>1. PICK i \in Files : Exists(i) /\ a \in LinesOf(files[i])
      BY OnDiskMeans
    <3> HIDE DEF from
    <3>2. CASE i = at - 1
      <4>1. at \in Files /\ files'[at] = files[i] /\ Exists(i)
        BY <1>1, <3>1, <3>2
      <4>2. \A j \in Files : files'[j] = files[i] => Exists(j)'
        BY <4>1 DEF Exists
      <4> QED
        BY <1>2, <3>1, <4>1, <4>2
    <3>3. CASE i # at - 1
      <4>1. i # at
        BY <1>1, <3>1
      <4>2. Exists(i)' /\ a \in LinesOf(files'[i])
        BY <1>1, <3>1, <3>3, <4>1
      <4> QED
        BY <1>2, <4>2
    <3> QED
      BY <3>2, <3>3
  <2>2. ASSUME NEW a \in OnDisk' PROVE a \in OnDisk
    <3>1. PICK i \in Files : Exists(i)' /\ a \in LinesOf(files'[i])
      BY <1>2
    <3>2. from(i) \in Files /\ Exists(from(i)) /\ a \in LinesOf(files[from(i)])
      BY <1>1, <3>1
    <3> QED
      BY <3>2, OnDiskMeans
  <2>3. OnDisk' = OnDisk
    BY <2>1, <2>2
  <2> QED
    BY <2>3 DEF LInv, NothingVanishes, Rename
<1>4. LinesInOrder'
  <2>1. ASSUME NEW i \in Files, Exists(i)'
        PROVE  /\ Increasing(files'[i]) /\ Before(files'[i], out) /\ Before(files'[i], buf)
               /\ \A j \in 0 .. i - 1 : Exists(j)' => Before(files'[i], files'[j])
    <3>1. from(i) \in Files /\ Exists(from(i)) /\ files'[i] = files[from(i)] /\ i # at - 1
      BY <1>1, <2>1
    <3>2. ASSUME NEW j \in 0 .. i - 1, Exists(j)'
          PROVE  Before(files'[i], files'[j])
      <4>1. /\ j \in Files /\ j # at - 1
            /\ Exists(from(j)) /\ files'[j] = files[from(j)]
        BY <1>1, <3>2
      <4>2. from(j) \in 0 .. from(i) - 1
        BY <1>1, <3>1, <4>1 DEF Files
      <4> HIDE DEF from
      <4> QED
        BY <3>1, <4>1, <4>2 DEF LInv, LinesInOrder, Files
    <3> HIDE DEF from
    <3> QED
      BY <3>1, <3>2 DEF LInv, LinesInOrder, Files
  <2> QED
    BY <2>1 DEF LInv, LinesInOrder, Rename, Files
<1>5. Drained'
  BY DEF LInv, Drained, Rename
<1> QED
  BY <1>3, <1>4, <1>5 DEF LInv

LEMMA EndProcessLInv ==
  ASSUME LInv, IInv', NEW n \in 0 .. BufMax, EndProcess(n)
  PROVE  LInv'
<1> DEFINE t == SubSeq(out, 1, n)
           u == SubSeq(out, n + 1, Len(out))
<1>1. /\ out \in Seq(1 .. MaxLines) /\ buf \in Seq(1 .. MaxLines) /\ n \in 0 .. Len(out)
      /\ Increasing(out)
      /\ out' = <<>> /\ buf' = <<>> /\ lines' = lines /\ gone' = gone
  BY DEF LInv, IInv, TypeOK, EndProcess, LinesInOrder
<1>2. /\ t \in Seq(1 .. MaxLines) /\ u \in Seq(1 .. MaxLines)
      /\ LinesOf(out) = LinesOf(t) \cup LinesOf(u)
      /\ LinesOf(u \o buf) = LinesOf(u) \cup LinesOf(buf)
  <2>1. /\ t \in Seq(1 .. MaxLines) /\ u \in Seq(1 .. MaxLines)
        /\ LinesOf(out) = LinesOf(t) \cup LinesOf(u)
    BY <1>1, LinesOfParts, SeqFacts
  <2> HIDE DEF t, u
  <2>2. \A a \in Seq(1 .. MaxLines), b \in Seq(1 .. MaxLines) :
           LinesOf(a \o b) = LinesOf(a) \cup LinesOf(b)
    BY LinesOfParts
  <2> QED
    BY <1>1, <2>1, <2>2
<1>3. Increasing(t)
  <2>1. 1 .. MaxLines \subseteq Int
    OBVIOUS
  <2> QED
    BY <1>1, <2>1, OrderOfParts
<1>4. /\ lost' = lost \cup LinesOf(u \o buf)
      /\ n > 0 => files' = [files EXCEPT ![0] = files[0] \o t]
      /\ n = 0 => files' = files /\ t = <<>>
      /\ n > 0 => Exists(0) /\ files[0] \in Seq(1 .. MaxLines)
  <2>1. n > 0 => Exists(0)
    BY DEF LInv, IInv, EndProcess, FileIsOpen
  <2>2. n = 0 => t = <<>>
    BY SubSeqEmpty
  <2> QED
    BY <1>1, <2>1, <2>2, FileTypes, Bounds DEF EndProcess, LInv, IInv
<1>5. \A i \in Files : Exists(i) => Before(files[i], t)
  <2>1. \A i \in Files : Exists(i) => Before(files[i], out)
    BY DEF LInv, LinesInOrder, Files
  <2> HIDE DEF t, u
  <2> QED
    BY <1>2, <2>1 DEF Before
<1> HIDE DEF t, u
<1>6. /\ \A a : a \in OnDisk' <=> a \in OnDisk \cup LinesOf(t)
      /\ \A i \in Files : Exists(i)' => Increasing(files'[i])
      /\ \A i \in Files : \A j \in 0 .. i - 1 :
            Exists(i)' /\ Exists(j)' => Before(files'[i], files'[j])
  <2>1. CASE n > 0
    BY <1>2, <1>3, <1>4, <1>5, <2>1, Appends
  <2>2. CASE n = 0
    <3>1. OnDisk' = OnDisk /\ LinesOf(t) = {}
      BY <1>4, <2>2 DEF OnDisk, Exists, LinesOf
    <3> QED
      BY <1>4, <2>2, <3>1 DEF LInv, LinesInOrder, Exists, Files
  <2> QED
    BY <1>1, <2>1, <2>2
<1>7. NothingVanishes'
  <2>1. LinesOf(<<>>) = {}
    BY DEF LinesOf
  <2> QED
    BY <1>1, <1>2, <1>4, <1>6, <2>1 DEF LInv, NothingVanishes
<1>8. LinesInOrder'
  <2>1. (\A s : Before(<<>>, s) /\ Before(s, <<>>)) /\ Increasing(<<>>)
    BY DEF Before, LinesOf, Increasing
  <2> QED
    BY <1>1, <1>6, <2>1 DEF LinesInOrder, Files
<1>9. Drained'
  BY <1>1 DEF Drained
<1> QED
  BY <1>7, <1>8, <1>9 DEF LInv

\* The steps that at most add an empty file.
LEMMA OtherLInv ==
  ASSUME LInv, IInv',
         \/ \E n \in 0 .. MaxFile : OpenAppend(n)
         \/ OpenAnew \/ Create \/ Start \/ Look \/ Check \/ UNCHANGED vars
  PROVE  LInv'
<1>1. UNCHANGED <<out, buf, lines, gone, lost>>
  BY DEF OpenAppend, OpenAnew, Create, Start, Look, Check, vars
<1>2. Drained'
  <2>1. /\ phase \in {"down", "early"} => pc = "idle"
        /\ phase # "enabled" => out = <<>> /\ buf = <<>>
        /\ pc \in {"idle", "swap"} => out = <<>>
    BY DEF LInv, IInv, Places, Drained
  <2>2. ASSUME NEW n \in 0 .. MaxFile, OpenAppend(n) PROVE Drained'
    BY <2>1, <2>2 DEF Drained, OpenAppend
  <2>3. CASE OpenAnew
    BY <2>1, <2>3 DEF Drained, OpenAnew
  <2>4. CASE Create
    BY <2>1, <2>4 DEF Drained, Create
  <2>5. CASE Start
    BY <2>1, <2>5 DEF Drained, Start
  <2>6. CASE Look
    BY <2>1, <2>6 DEF Drained, Look
  <2>7. CASE Check
    BY <2>1, <2>7 DEF Drained, Check
  <2>8. CASE UNCHANGED vars
    BY <2>1, <2>8 DEF Drained, vars
  <2> QED
    BY <2>2, <2>3, <2>4, <2>5, <2>6, <2>7, <2>8
<1>3. files' = files \/ (~Exists(0) /\ files' = [files EXCEPT ![0] = <<>>])
  BY DEF LInv, IInv, Places, OpenAppend, OpenAnew, Create, Start, Look, Check, vars
<1>4. /\ \A i \in Files : Exists(i)' => \/ files'[i] = <<>>
                                        \/ Exists(i) /\ files'[i] = files[i]
      /\ \A i \in Files : Exists(i) => Exists(i)' /\ files'[i] = files[i]
  BY <1>3, FileTypes, Bounds DEF LInv, IInv, Exists
<1> QED
  BY <1>1, <1>2, <1>4, SameLines

LEMMA NextLInv == LInv /\ [Next]_vars => LInv'
<1> SUFFICES ASSUME LInv, [Next]_vars PROVE LInv'
  OBVIOUS
<1>1. IInv'
  BY NextInv DEF LInv
<1> QED
  BY <1>1, OtherLInv, RemoveLInv, RenameLInv, WriteEarlyLInv, WriteLInv, SwapLInv, FlushLInv,
     EndProcessLInv DEF Next, Opening, Refile, Output

\* Every line that was ever written is in a file, in a buffer, in a file that was removed
\* or among those the end of a process took with it: swap, rotation and restart lose none.
THEOREM Conservation == Spec => []NothingVanishes
<1>1. LInv => NothingVanishes
  BY DEF LInv
<1> QED
  BY InitLInv, NextLInv, <1>1, PTL DEF Spec

\* The numbers of the files say how old they are, and each file has its lines in order.
THEOREM Order == Spec => []LinesInOrder
<1>1. LInv => LinesInOrder
  BY DEF LInv
<1> QED
  BY InitLInv, NextLInv, <1>1, PTL DEF Spec
-----------------------------------------------------------------------------
(* The files as one sequence *)

\* Of some numbers there is a smallest.
LEMMA Smallest ==
  ASSUME NEW T \in SUBSET Nat, T # {}
  PROVE  \E x \in T : \A y \in T : x <= y
<1> DEFINE R == {ss \in Nat \X Nat : ss[1] < ss[2]}
<1>1. IsWellFoundedOn(R, Nat)
  BY NatLessThanWellFounded, Zenon DEF OpToRel
<1> HIDE DEF R
<1>2. \E x \in T : \A y \in T : ~(<<y, x>> \in R)
  BY <1>1, WFMin
<1>3. PICK x \in T : \A y \in T : ~(<<y, x>> \in R)
  BY <1>2
<1>4. ASSUME NEW y \in T PROVE x <= y
  <2>1. x \in Nat /\ y \in Nat
    OBVIOUS
  <2>2. ~(y < x)
    <3>1. <<y, x>> \in Nat \X Nat /\ <<y, x>>[1] = y /\ <<y, x>>[2] = x
      BY <2>1
    <3> QED
      BY <1>3, <3>1, Zenon DEF R
  <2> QED
    BY <2>1, <2>2
<1> QED
  BY <1>4

\* Induction downwards: what holds at k, and below wherever it holds above, holds from 0
\* to k.
LEMMA Downwards ==
  ASSUME NEW k \in Nat, NEW T, k \in T,
         \A i \in 0 .. k - 1 : i + 1 \in T => i \in T
  PROVE  \A i \in 0 .. k : i \in T
<1> DEFINE Fails == {n \in Nat : n <= k /\ k - n \notin T}
<1> SUFFICES ASSUME NEW i \in 0 .. k, i \notin T PROVE FALSE
  OBVIOUS
<1>1. k - i \in Fails
  <2>1. k - i \in Nat /\ k - i <= k /\ k - (k - i) = i
    OBVIOUS
  <2> QED
    BY <2>1
<1>2. PICK n \in Fails : \A m \in Fails : n <= m
  <2>1. Fails \in SUBSET Nat /\ Fails # {}
    BY <1>1
  <2> HIDE DEF Fails
  <2> QED
    BY <2>1, Smallest
<1>3. n \in Nat /\ n <= k /\ k - n \notin T /\ n # 0
  BY <1>2
<1>4. k - n \in 0 .. k - 1 /\ k - n + 1 = k - (n - 1) /\ n - 1 \in Nat /\ n - 1 <= k
  BY <1>3
<1>5. k - (n - 1) \in T
  <2>1. n - 1 \notin Fails
    BY <1>2, <1>3, <1>4
  <2> QED
    BY <1>4, <2>1
<1> QED
  BY <1>3, <1>4, <1>5

Disks == [Files -> Seq(1 .. MaxLines) \cup {Missing}]

\* What a file adds, and what the files from each number upwards hold.
Part(disk, i) == IF disk[i] # Missing THEN disk[i] ELSE <<>>

IsFrom(disk, low, From) ==
  From = [i \in low .. MaxFile + 1 |->
            IF i > MaxFile THEN <<>>
            ELSE From[i + 1] \o (IF disk[i] # Missing THEN disk[i] ELSE <<>>)]

IsChain(disk, chain) ==
  /\ chain[MaxFile + 1] = <<>>
  /\ \A i \in Files : chain[i] = chain[i + 1] \o Part(disk, i)

\* The recursion that defines Kept has a solution.
LEMMA FromExists ==
  ASSUME NEW disk \in Disks
  PROVE  \E From : IsFrom(disk, 0, From)
<1> DEFINE T == {low \in Nat : \E From : IsFrom(disk, low, From)}
<1>1. MaxFile \in Nat /\ MaxFile + 1 \in Nat
  BY Bounds
<1>2. MaxFile + 1 \in T
  <2> DEFINE From == [i \in MaxFile + 1 .. MaxFile + 1 |-> <<>>]
  <2>1. IsFrom(disk, MaxFile + 1, From)
    <3>1. \A i \in MaxFile + 1 .. MaxFile + 1 : i > MaxFile
      BY <1>1
    <3> DEFINE S == MaxFile + 1 .. MaxFile + 1
    <3> HIDE DEF S
    <3>2. [i \in S |-> <<>>]
            = [i \in S |-> IF i > MaxFile THEN <<>>
                            ELSE From[i + 1] \o (IF disk[i] # Missing THEN disk[i] ELSE <<>>)]
      BY <3>1 DEF S
    <3> QED
      BY <3>2 DEF IsFrom, S
  <2> HIDE DEF From
  <2> QED
    BY <1>1, <2>1
<1>3. ASSUME NEW low \in 0 .. MaxFile + 1 - 1, low + 1 \in T PROVE low \in T
  <2>1. PICK From : IsFrom(disk, low + 1, From)
    BY <1>3
  <2> DEFINE p == IF disk[low] # Missing THEN disk[low] ELSE <<>>
             new == [i \in low .. MaxFile + 1 |->
                       IF i = low THEN From[low + 1] \o p ELSE From[i]]
  <2>2. /\ low \in Nat /\ low <= MaxFile /\ low + 1 \in low .. MaxFile + 1 /\ low + 1 # low
        /\ low .. MaxFile + 1 = {low} \cup (low + 1 .. MaxFile + 1)
        /\ \A i \in low + 1 .. MaxFile + 1 : i # low
        /\ \A i \in low + 1 .. MaxFile : i + 1 \in low + 1 .. MaxFile + 1
        /\ \A i \in low + 1 .. MaxFile + 1 : ~(i > MaxFile) => i \in low + 1 .. MaxFile
    BY <1>1
  <2>3. /\ new[low] = From[low + 1] \o p
        /\ \A i \in low + 1 .. MaxFile + 1 : new[i] = From[i]
    BY <2>2
  <2>4. \A i \in low + 1 .. MaxFile + 1 :
          From[i] = IF i > MaxFile THEN <<>>
                    ELSE From[i + 1] \o (IF disk[i] # Missing THEN disk[i] ELSE <<>>)
    BY <2>1 DEF IsFrom
  <2>5. ASSUME NEW i \in low .. MaxFile + 1
        PROVE  new[i] = IF i > MaxFile THEN <<>>
                        ELSE new[i + 1] \o (IF disk[i] # Missing THEN disk[i] ELSE <<>>)
    <3>1. CASE i = low
      <4>1. new[low + 1] = From[low + 1] /\ ~(low > MaxFile)
        BY <1>1, <2>2, <2>3
      <4> HIDE DEF new
      <4> QED
        BY <2>3, <3>1, <4>1
    <3>2. CASE i \in low + 1 .. MaxFile + 1 /\ i > MaxFile
      <4> HIDE DEF new
      <4> QED
        BY <2>3, <2>4, <3>2
    <3>3. CASE i \in low + 1 .. MaxFile + 1 /\ ~(i > MaxFile)
      <4>1. i + 1 \in low + 1 .. MaxFile + 1
        BY <2>2, <3>3
      <4>2. new[i + 1] = From[i + 1] /\ new[i] = From[i]
        BY <2>3, <3>3, <4>1
      <4> HIDE DEF new
      <4> QED
        BY <2>4, <3>3, <4>2
    <3> QED
      BY <2>2, <3>1, <3>2, <3>3
  <2>6. IsFrom(disk, low, new)
    BY <2>5 DEF IsFrom
  <2> HIDE DEF new
  <2> QED
    BY <2>2, <2>6
<1> HIDE DEF T
<1>4. \A low \in 0 .. MaxFile + 1 : low \in T
  BY <1>1, <1>2, <1>3, Downwards
<1>5. 0 \in T
  BY <1>1, <1>4
<1> QED
  BY <1>5 DEF T

\* What it has been solved to.
LEMMA FromIsChain ==
  ASSUME NEW disk \in Disks, NEW From, IsFrom(disk, 0, From)
  PROVE  IsChain(disk, From)
<1>1. /\ MaxFile + 1 \in 0 .. MaxFile + 1 /\ MaxFile + 1 > MaxFile
      /\ \A i \in Files : i \in 0 .. MaxFile + 1 /\ ~(i > MaxFile)
  BY Bounds DEF Files
<1> QED
  BY <1>1 DEF IsFrom, IsChain, Part

LEMMA KeptIs ==
  ASSUME TypeOK
  PROVE  \E chain : IsChain(files, chain) /\ Kept = chain[0]
<1> DEFINE From == CHOOSE f : IsFrom(files, 0, f)
<1>1. files \in Disks
  BY FileTypes DEF Disks
<1>2. IsFrom(files, 0, From)
  BY <1>1, FromExists
<1>3. Kept = From[0]
  BY DEF Kept, IsFrom, Exists
<1> HIDE DEF From
<1> QED
  BY <1>1, <1>2, <1>3, FromIsChain

LEMMA KeptIsNext ==
  ASSUME TypeOK'
  PROVE  \E chain : IsChain(files', chain) /\ Kept' = chain[0]
<1> DEFINE From == CHOOSE f : IsFrom(files', 0, f)
<1>1. files' \in Disks
  BY DEF TypeOK, Disks, Files
<1>2. IsFrom(files', 0, From)
  BY <1>1, FromExists
<1>3. Kept' = From[0]
  BY DEF Kept, IsFrom, Exists
<1> HIDE DEF From
<1> QED
  BY <1>1, <1>2, <1>3, FromIsChain

LEMMA Associative ==
  \A s \in Seq(1 .. MaxLines), t \in Seq(1 .. MaxLines), u \in Seq(1 .. MaxLines) :
    (s \o t) \o u = s \o (t \o u)
<1> DEFINE S == 1 .. MaxLines
<1> HIDE DEF S
<1>1. \A s \in Seq(S), t \in Seq(S), u \in Seq(S) : (s \o t) \o u = s \o (t \o u)
  BY ConcatAssociative
<1> QED
  BY <1>1 DEF S

\* What a file adds is a sequence of lines, and so is what all from some number add.
LEMMA ChainTypes ==
  ASSUME NEW disk \in Disks, NEW chain, IsChain(disk, chain)
  PROVE  /\ \A i \in Files : Part(disk, i) \in Seq(1 .. MaxLines)
         /\ \A i \in 0 .. MaxFile + 1 : chain[i] \in Seq(1 .. MaxLines)
<1>1. \A i \in Files : Part(disk, i) \in Seq(1 .. MaxLines)
  BY EmptySeq DEF Disks, Part
<1> DEFINE T == {i \in Nat : chain[i] \in Seq(1 .. MaxLines)}
           k == MaxFile + 1
<1>2. k \in Nat /\ \A i \in 0 .. k - 1 : i \in Files
  BY Bounds DEF Files
<1>3. chain[k] = <<>> /\ \A i \in Files : chain[i] = chain[i + 1] \o Part(disk, i)
  BY DEF IsChain
<1> HIDE DEF k
<1>4. k \in T
  BY <1>2, <1>3, EmptySeq
<1>5. ASSUME NEW i \in 0 .. k - 1, i + 1 \in T PROVE i \in T
  <2>1. i \in Files /\ i \in Nat
    BY <1>2
  <2> QED
    BY <1>1, <1>3, <1>5, <2>1, ConcatProperties
<1> HIDE DEF T
<1>6. \A i \in 0 .. k : i \in T
  BY <1>2, <1>4, <1>5, Downwards
<1> QED
  BY <1>1, <1>6 DEF T, k

\* Two disks that have the same from number k upwards, and the same files below, have the
\* same all in all.
LEMMA ChainsAgree ==
  ASSUME NEW disk, NEW chain, IsChain(disk, chain),
         NEW disk2, NEW chain2, IsChain(disk2, chain2),
         NEW k \in 0 .. MaxFile + 1, chain2[k] = chain[k],
         NEW low \in 0 .. k, \A i \in low .. k - 1 : Part(disk2, i) = Part(disk, i)
  PROVE  chain2[low] = chain[low]
<1> DEFINE T == {i \in Nat : i >= low => chain2[i] = chain[i]}
<1>1. k \in Nat /\ k \in T /\ low \in Nat
  BY Bounds
<1>2. ASSUME NEW i \in 0 .. k - 1, i + 1 \in T PROVE i \in T
  <2> SUFFICES ASSUME i >= low PROVE chain2[i] = chain[i]
    BY <1>1
  <2>1. i \in Files /\ i \in low .. k - 1 /\ i + 1 >= low
    BY <1>1, Bounds DEF Files
  <2> QED
    BY <1>2, <2>1 DEF IsChain
<1> HIDE DEF T
<1>3. \A i \in 0 .. k : i \in T
  BY <1>1, <1>2, Downwards
<1>4. low \in T /\ low >= low
  BY <1>1, <1>3
<1> QED
  BY <1>4 DEF T

\* File 0, and no other, has got t.
Grows(disk, disk2, t) ==
  /\ Part(disk2, 0) = Part(disk, 0) \o t
  /\ \A i \in 1 .. MaxFile : Part(disk2, i) = Part(disk, i)

\* A line more in file 0 is a line more at the end.
LEMMA ChainMore ==
  ASSUME NEW disk \in Disks, NEW chain, IsChain(disk, chain),
         NEW disk2 \in Disks, NEW chain2, IsChain(disk2, chain2),
         NEW t \in Seq(1 .. MaxLines), Grows(disk, disk2, t)
  PROVE  chain2[0] = chain[0] \o t
<1> USE DEF Grows
<1>1. MaxFile \in Nat /\ 0 \in Files /\ 1 \in 0 .. MaxFile + 1
  BY Bounds
<1>2. chain2[1] = chain[1]
  <2>2. chain2[MaxFile + 1] = chain[MaxFile + 1]
    BY DEF IsChain
  <2> DEFINE k == MaxFile + 1
  <2>3. k \in 0 .. k /\ k - 1 = MaxFile /\ k = MaxFile + 1 /\ 1 \in 0 .. k
    BY <1>1
  <2> HIDE DEF k
  <2>4. \A i \in 1 .. k - 1 : Part(disk2, i) = Part(disk, i)
    BY <2>3
  <2> QED
    BY <2>2, <2>3, <2>4, ChainsAgree
<1>3. chain[0] = chain[1] \o Part(disk, 0) /\ chain2[0] = chain2[1] \o Part(disk2, 0)
  <2>1. 0 + 1 = 1
    OBVIOUS
  <2> QED
    BY <1>1, <2>1 DEF IsChain
<1>4. chain[1] \in Seq(1 .. MaxLines) /\ Part(disk, 0) \in Seq(1 .. MaxLines)
  BY <1>1, ChainTypes
<1>5. (chain[1] \o Part(disk, 0)) \o t = chain[1] \o (Part(disk, 0) \o t)
  BY <1>4, Associative, Zenon
<1> QED
  BY <1>2, <1>3, <1>5

\* That shorter is longer without part, which comes right after old.
Without(longer, shorter, old, part) ==
  \E rest \in Seq(1 .. MaxLines) :
     longer = (old \o part) \o rest /\ shorter = old \o rest

\* A file that goes leaves what is older and what is newer.
LEMMA ChainLess ==
  ASSUME NEW disk \in Disks, NEW chain, IsChain(disk, chain),
         NEW disk2 \in Disks, NEW chain2, IsChain(disk2, chain2),
         NEW k \in Files, Part(disk2, k) = <<>>,
         \A i \in Files \ {k} : Part(disk2, i) = Part(disk, i)
  PROVE  Without(chain[0], chain2[0], chain[k + 1], Part(disk, k))
<1> DEFINE S == Seq(1 .. MaxLines)
           old == chain[k + 1]
           T == {i \in Nat : \E rest \in S : /\ chain[i] = (old \o Part(disk, k)) \o rest
                                             /\ chain2[i] = old \o rest}
<1>1. /\ k \in Nat /\ k \in 0 .. MaxFile + 1 /\ k + 1 \in 0 .. MaxFile + 1 /\ MaxFile \in Nat
      /\ MaxFile + 1 \in 0 .. MaxFile + 1
  BY Bounds DEF Files
<1>2. old \in S /\ Part(disk, k) \in S /\ old \o Part(disk, k) \in S /\ <<>> \in S
  <2>1. old \in S /\ Part(disk, k) \in S
    BY <1>1, ChainTypes
  <2> QED
    BY <2>1, ConcatProperties, EmptySeq
<1>3. chain2[k + 1] = old
  <2>1. \A i \in k + 1 .. MaxFile + 1 - 1 : Part(disk2, i) = Part(disk, i)
    BY <1>1 DEF Files
  <2>2. chain2[MaxFile + 1] = chain[MaxFile + 1]
    BY DEF IsChain
  <2> QED
    BY <1>1, <2>1, <2>2, ChainsAgree
<1>4. k \in T
  <2>1. chain[k] = old \o Part(disk, k) /\ chain2[k] = old \o <<>>
    BY <1>3 DEF IsChain
  <2>2. (old \o Part(disk, k)) \o <<>> = old \o Part(disk, k)
    BY <1>2, ConcatEmptySeq
  <2> HIDE DEF S, old
  <2> QED
    BY <1>1, <1>2, <2>1, <2>2
<1>5. ASSUME NEW i \in 0 .. k - 1, i + 1 \in T PROVE i \in T
  <2>1. i \in Files \ {k} /\ i \in Nat /\ i \in Files
    BY <1>1 DEF Files
  <2>2. PICK r \in S : /\ chain[i + 1] = (old \o Part(disk, k)) \o r
                       /\ chain2[i + 1] = old \o r
    BY <1>5
  <2>3. /\ chain[i] = chain[i + 1] \o Part(disk, i)
        /\ chain2[i] = chain2[i + 1] \o Part(disk, i)
    BY <2>1 DEF IsChain
  <2>4. Part(disk, i) \in S
    BY <2>1, ChainTypes
  <2> DEFINE p == old \o Part(disk, k)
             q == Part(disk, i)
  <2>5. p \in S /\ q \in S /\ r \o q \in S
    BY <1>2, <2>2, <2>4, ConcatProperties
  <2>8. \A s \in S, t \in S, u \in S : (s \o t) \o u = s \o (t \o u)
    BY Associative
  <2> HIDE DEF old, p, q, S
  <2>6. (p \o r) \o q = p \o (r \o q) /\ (old \o r) \o q = old \o (r \o q)
    <3>1. p \in S /\ old \in S /\ r \in S /\ q \in S
      BY <1>2, <2>2, <2>5
    <3> QED
      BY <2>8, <3>1, ZenonT(30)
  <2>7. chain[i] = p \o (r \o q) /\ chain2[i] = old \o (r \o q)
    BY <2>2, <2>3, <2>6 DEF p, q
  <2> QED
    BY <2>1, <2>5, <2>7 DEF p
<1> HIDE DEF T, S
<1>6. \A i \in 0 .. k : i \in T
  BY <1>1, <1>4, <1>5, Downwards
<1>7. 0 \in T
  BY <1>1, <1>6
<1> QED
  BY <1>7 DEF T, S, Without

\* A file that gets the next free number is still where it was.
LEMMA ChainMoved ==
  ASSUME NEW disk \in Disks, NEW chain, IsChain(disk, chain),
         NEW disk2 \in Disks, NEW chain2, IsChain(disk2, chain2),
         NEW k \in Files, k > 0, Part(disk, k) = <<>>,
         Part(disk2, k) = Part(disk, k - 1), Part(disk2, k - 1) = <<>>,
         \A i \in Files \ {k, k - 1} : Part(disk2, i) = Part(disk, i)
  PROVE  chain2[0] = chain[0]
<1>1. /\ k \in Nat /\ k - 1 \in Files /\ k - 1 + 1 = k /\ MaxFile \in Nat
      /\ k + 1 \in 0 .. MaxFile + 1 /\ MaxFile + 1 \in 0 .. MaxFile + 1
      /\ k - 1 \in 0 .. MaxFile + 1 /\ 0 \in 0 .. k - 1
  BY Bounds DEF Files
<1>2. chain2[k + 1] = chain[k + 1]
  <2>1. \A i \in k + 1 .. MaxFile + 1 - 1 : Part(disk2, i) = Part(disk, i)
    BY <1>1 DEF Files
  <2>2. chain2[MaxFile + 1] = chain[MaxFile + 1]
    BY DEF IsChain
  <2>3. k + 1 \in 0 .. MaxFile + 1
    BY <1>1
  <2> QED
    BY <1>1, <2>1, <2>2, <2>3, ChainsAgree
<1>3. /\ chain[k + 1] \in Seq(1 .. MaxLines)
      /\ chain[k + 1] \o Part(disk, k - 1) \in Seq(1 .. MaxLines)
  <2>1. chain[k + 1] \in Seq(1 .. MaxLines) /\ Part(disk, k - 1) \in Seq(1 .. MaxLines)
    BY <1>1, ChainTypes
  <2> QED
    BY <2>1, ConcatProperties
<1>4. chain[k - 1] = chain[k + 1] \o Part(disk, k - 1)
  <2>1. chain[k] = chain[k + 1] \o <<>>
    BY DEF IsChain
  <2>2. chain[k - 1] = chain[k] \o Part(disk, k - 1)
    BY <1>1 DEF IsChain
  <2> QED
    BY <1>3, <2>1, <2>2, ConcatEmptySeq
<1>5. chain2[k - 1] = chain[k + 1] \o Part(disk, k - 1)
  <2>1. chain2[k] = chain[k + 1] \o Part(disk, k - 1)
    BY <1>2 DEF IsChain
  <2>2. chain2[k - 1] = chain2[k] \o <<>>
    BY <1>1 DEF IsChain
  <2> QED
    BY <1>3, <2>1, <2>2, ConcatEmptySeq
<1>6. \A i \in 0 .. k - 1 - 1 : Part(disk2, i) = Part(disk, i)
  BY <1>1 DEF Files
<1> DEFINE m == k - 1
<1>7. /\ chain2[m] = chain[m] /\ m \in 0 .. MaxFile + 1 /\ 0 \in 0 .. m
      /\ \A i \in 0 .. m - 1 : Part(disk2, i) = Part(disk, i)
  BY <1>1, <1>4, <1>5, <1>6
<1> HIDE DEF m
<1> QED
  BY <1>7, ChainsAgree

\* The parts of a sequence that was put together.
LEMMA PartsOfTwo ==
  ASSUME NEW S, NEW s \in Seq(S), NEW t \in Seq(S)
  PROVE  /\ SubSeq(s \o t, 1, Len(s)) = s
         /\ SubSeq(s \o t, Len(s) + 1, Len(s \o t)) = t
         /\ \A n \in 0 .. Len(s) : SubSeq(s \o t, 1, n) = SubSeq(s, 1, n)
<1>1. /\ Len(s) \in Nat /\ Len(t) \in Nat
      /\ s \o t \in Seq(S) /\ Len(s \o t) = Len(s) + Len(t)
      /\ \A i \in 1 .. Len(s) + Len(t) :
            (s \o t)[i] = IF i <= Len(s) THEN s[i] ELSE t[i - Len(s)]
  BY ConcatProperties, LenProperties
<1> DEFINE c == s \o t
           a == Len(s)
           b == Len(t)
<1> HIDE DEF c, a, b
<1>2. /\ c \in Seq(S) /\ s \in Seq(S) /\ t \in Seq(S)
      /\ a \in Nat /\ b \in Nat /\ Len(c) = a + b /\ Len(s) = a /\ Len(t) = b
      /\ \A i \in 1 .. a : c[i] = s[i]
      /\ \A i \in 1 .. b : c[a + i] = t[i]
  BY <1>1 DEF a, b, c
<1>3. ASSUME NEW n \in 0 .. a PROVE SubSeq(c, 1, n) = SubSeq(s, 1, n)
  <2>1. /\ SubSeq(c, 1, n) = [i \in 1 .. n |-> c[i]]
        /\ SubSeq(s, 1, n) = [i \in 1 .. n |-> s[i]]
    BY <1>2
  <2>2. \A i \in 1 .. n : c[i] = s[i]
    BY <1>2
  <2> QED
    BY <2>1, <2>2
<1>4. SubSeq(c, 1, a) = s
  <2>1. SubSeq(s, 1, a) = s
    BY <1>2
  <2> QED
    BY <1>2, <1>3, <2>1
<1>5. SubSeq(c, a + 1, Len(c)) = t
  <2>1. SubSeq(c, a + 1, a + b) = [i \in 1 .. b |-> c[a + i]]
    BY <1>2
  <2>2. t = [i \in 1 .. b |-> t[i]]
    BY <1>2
  <2> QED
    BY <1>2, <2>1, <2>2
<1> QED
  BY <1>3, <1>4, <1>5 DEF a, b, c

LEMMA PartsOfThree ==
  ASSUME NEW s \in Seq(1 .. MaxLines), NEW t \in Seq(1 .. MaxLines),
         NEW u \in Seq(1 .. MaxLines), NEW v, v = (s \o t) \o u
  PROVE  SubSeq(v, 1, Len(s)) = s /\ SubSeq(v, Len(s) + Len(t) + 1, Len(v)) = u
<1> DEFINE S == 1 .. MaxLines
<1>1. s \o t \in Seq(S) /\ Len(s \o t) = Len(s) + Len(t) /\ t \o u \in Seq(S)
  BY ConcatProperties
<1>2. v = s \o (t \o u)
  BY Associative
<1> HIDE DEF S
<1>3. s \in Seq(S) /\ u \in Seq(S)
  BY DEF S
<1>4. SubSeq(v, 1, Len(s)) = s
  BY <1>1, <1>2, <1>3, PartsOfTwo
<1>5. SubSeq(v, Len(s \o t) + 1, Len(v)) = u
  BY <1>1, <1>3, PartsOfTwo
<1> QED
  BY <1>1, <1>4, <1>5
-----------------------------------------------------------------------------
(* What the steps do to the journal *)

\* The disk before a step and after it, and what they hold.
LEMMA KeptType ==
  ASSUME TypeOK
  PROVE  Kept \in Seq(1 .. MaxLines)
<1>1. PICK chain : IsChain(files, chain) /\ Kept = chain[0]
  BY KeptIs
<1>2. files \in Disks /\ 0 \in 0 .. MaxFile + 1
  BY FileTypes, Bounds DEF Disks
<1> QED
  BY <1>1, <1>2, ChainTypes

\* What file 0 gets more comes last, ...
LEMMA KeptMore ==
  ASSUME TypeOK, TypeOK', NEW t \in Seq(1 .. MaxLines),
         Grows(files, files', t)
  PROVE  Kept' = Kept \o t
<1>1. PICK chain : IsChain(files, chain) /\ Kept = chain[0]
  BY KeptIs
<1>2. PICK chain2 : IsChain(files', chain2) /\ Kept' = chain2[0]
  BY KeptIsNext
<1>3. files \in Disks /\ files' \in Disks
  BY FileTypes DEF Disks, TypeOK, Files
<1>4. chain2[0] = chain[0] \o t
  BY <1>1, <1>2, <1>3, ChainMore
<1> QED
  BY <1>1, <1>2, <1>4

\* ... which is nothing if an empty file is all that comes, ...
LEMMA KeptSame ==
  ASSUME TypeOK, TypeOK', \A i \in Files : Part(files', i) = Part(files, i)
  PROVE  Kept' = Kept
<1>1. files \in Disks /\ 0 \in Files /\ \A i \in 1 .. MaxFile : i \in Files
  BY FileTypes, Bounds DEF Disks, Files
<1>2. Part(files, 0) \in Seq(1 .. MaxLines)
  BY <1>1, EmptySeq DEF Disks, Part
<1> DEFINE none == <<>>
<1>3. Part(files', 0) = Part(files, 0) \o none /\ none \in Seq(1 .. MaxLines)
  BY <1>1, <1>2, ConcatEmptySeq, EmptySeq
<1>4. Kept \o none = Kept
  BY KeptType, ConcatEmptySeq
<1> HIDE DEF none
<1>5. Kept' = Kept \o none
  BY <1>1, <1>3, KeptMore DEF Grows
<1> QED
  BY <1>4, <1>5

\* ... and otherwise what is written to it.
LEMMA KeptWritten ==
  ASSUME TypeOK, TypeOK', Exists(0), NEW t \in Seq(1 .. MaxLines),
         files' = [files EXCEPT ![0] = files[0] \o t]
  PROVE  Kept' = Kept \o t
<1>1. files \in Disks /\ files' \in Disks /\ 0 \in Files
  BY FileTypes, Bounds DEF Disks, TypeOK, Files
<1>2. files'[0] = files[0] \o t /\ \A i \in Files \ {0} : files'[i] = files[i]
  BY <1>1 DEF Disks
<1>3. Part(files', 0) = Part(files, 0) \o t
  <2>1. files[0] \in Seq(1 .. MaxLines)
    BY <1>1, FileTypes
  <2>2. files[0] \o t \in Seq(1 .. MaxLines)
    BY <2>1, ConcatProperties
  <2> QED
    BY <1>2, <2>2, Bounds DEF Part, Exists
<1>4. \A i \in 1 .. MaxFile : Part(files', i) = Part(files, i)
  <2>1. \A i \in 1 .. MaxFile : i \in Files \ {0}
    BY Bounds DEF Files
  <2> QED
    BY <1>2, <2>1 DEF Part
<1>5. Grows(files, files', t)
  BY <1>3, <1>4 DEF Grows
<1> QED
  BY <1>5, KeptMore, Zenon

LEMMA KeptMoved ==
  ASSUME IInv, IInv', Rename
  PROVE  Kept' = Kept
<1>1. PICK chain : IsChain(files, chain) /\ Kept = chain[0]
  BY KeptIs DEF IInv
<1>2. PICK chain2 : IsChain(files', chain2) /\ Kept' = chain2[0]
  BY KeptIsNext DEF IInv
<1>3. files \in Disks /\ files' \in Disks
  BY FileTypes DEF Disks, TypeOK, Files, IInv
<1>4. /\ at \in Files /\ at - 1 \in Files /\ ~Exists(at)
      /\ \A i \in Files : i # at /\ i # at - 1 => files'[i] = files[i]
      /\ files'[at] = files[at - 1]
      /\ files'[at - 1] = Missing
  BY RenameFiles
<1>5. /\ Part(files, at) = <<>> /\ Part(files', at) = Part(files, at - 1)
      /\ Part(files', at - 1) = <<>>
      /\ \A i \in Files \ {at, at - 1} : Part(files', i) = Part(files, i)
  BY <1>4 DEF Part, Exists
<1>6. at > 0
  BY <1>4 DEF Files
<1> QED
  BY <1>1, <1>2, <1>3, <1>4, <1>5, <1>6, ChainMoved

\* remove() takes a stretch out of what is kept; it is the oldest unless there are files
\* beyond the one that is removed.
LEMMA KeptLess ==
  ASSUME IInv, IInv', Remove
  PROVE  \E m \in 0 .. Len(Kept) : \E n \in m .. Len(Kept) :
            /\ Kept' = SubSeq(Kept, 1, m) \o SubSeq(Kept, n + 1, Len(Kept))
            /\ (\A i \in Files : i > count => ~Exists(i)) => m = 0
<1>1. PICK chain : IsChain(files, chain) /\ Kept = chain[0]
  BY KeptIs DEF IInv
<1>2. PICK chain2 : IsChain(files', chain2) /\ Kept' = chain2[0]
  BY KeptIsNext DEF IInv
<1>3. files \in Disks /\ files' \in Disks
  BY FileTypes DEF Disks, TypeOK, Files, IInv
<1>4. count \in Files /\ count + 1 \in 0 .. MaxFile + 1
  BY Bounds DEF IInv, TypeOK, Files
<1>5. Part(files', count) = <<>> /\ \A i \in Files \ {count} : Part(files', i) = Part(files, i)
  BY <1>3, <1>4 DEF Remove, Part, Disks
<1> DEFINE old == chain[count + 1]
           part == Part(files, count)
<1>6. PICK rest \in Seq(1 .. MaxLines) :
        Kept = (old \o part) \o rest /\ Kept' = old \o rest
  <2>1. Without(chain[0], chain2[0], chain[count + 1], Part(files, count))
    BY <1>1, <1>2, <1>3, <1>4, <1>5, Bounds, ChainLess
  <2> QED
    BY <1>1, <1>2, <2>1 DEF Without
<1>7. old \in Seq(1 .. MaxLines) /\ part \in Seq(1 .. MaxLines)
  BY <1>1, <1>3, <1>4, ChainTypes
<1>8. (\A i \in Files : i > count => ~Exists(i)) => old = <<>>
  <2> SUFFICES ASSUME \A i \in Files : i > count => ~Exists(i) PROVE old = <<>>
    OBVIOUS
  <2> DEFINE none == [i \in Files |-> Missing]
             nothing == [i \in 0 .. MaxFile + 1 |-> <<>>]
             k == MaxFile + 1
             low == count + 1
  <2>1. /\ k \in 0 .. MaxFile + 1 /\ low \in 0 .. k /\ k = MaxFile + 1 /\ low \in 0 .. MaxFile + 1
        /\ \A i \in Files : i \in 0 .. k /\ i + 1 \in 0 .. k
        /\ \A i \in low .. k - 1 : i \in Files /\ i > count
    BY <1>4, Bounds DEF Files
  <2>2. IsChain(none, nothing)
    <3>1. nothing[k] = <<>> /\ \A i \in Files : nothing[i] = <<>> /\ nothing[i + 1] = <<>>
      BY <2>1
    <3>2. \A i \in Files : Part(none, i) = <<>>
      BY DEF Part
    <3>3. <<>> \o <<>> = <<>>
      BY EmptySeq, ConcatEmptySeq
    <3> HIDE DEF none, nothing
    <3> QED
      BY <3>1, <3>2, <3>3 DEF IsChain
  <2>3. nothing[low] = <<>> /\ nothing[k] = <<>>
    BY <2>1
  <2>4. \A i \in low .. k - 1 : Part(files, i) = Part(none, i)
    BY <2>1 DEF Part, Exists
  <2>5. chain[k] = nothing[k]
    BY <1>1, <2>3 DEF IsChain
  <2> HIDE DEF none, nothing, k, low
  <2>6. chain[low] = nothing[low]
    BY <1>1, <2>1, <2>2, <2>4, <2>5, ChainsAgree
  <2> QED
    BY <2>3, <2>6 DEF low
<1> HIDE DEF old, part
<1>9. /\ Len(old) \in Nat /\ Len(part) \in Nat /\ Len(rest) \in Nat
      /\ old \o part \in Seq(1 .. MaxLines)
      /\ Len(old \o part) = Len(old) + Len(part)
      /\ Len(Kept) = Len(old) + Len(part) + Len(rest)
  BY <1>6, <1>7, SeqFacts
<1> DEFINE m == Len(old)
           n == Len(old) + Len(part)
<1>10. m \in 0 .. Len(Kept) /\ n \in m .. Len(Kept)
  BY <1>9
<1>11. SubSeq(Kept, 1, m) = old /\ SubSeq(Kept, n + 1, Len(Kept)) = rest
  BY <1>6, <1>7, <1>9, PartsOfThree
<1>12. old = <<>> => m = 0
  OBVIOUS
<1> HIDE DEF m, n
<1> QED
  BY <1>6, <1>8, <1>10, <1>11, <1>12
-----------------------------------------------------------------------------
(* The refinement *)

pending == out \o buf
hurt == torn /\ mode = "append"

\* A step that changes nothing of the journal.
LEMMA QuietJournal ==
  ASSUME Kept' = Kept, UNCHANGED <<out, buf, torn, mode>>, phase' = phase
  PROVE  UNCHANGED <<Kept, pending, phase # "down", hurt>>
BY DEF pending, hurt

\* The files that exist stay, and at most an empty one comes.
LEMMA FilesStay ==
  ASSUME TypeOK, files' = files \/ (~Exists(0) /\ files' = [files EXCEPT ![0] = <<>>])
  PROVE  \A i \in Files : Part(files', i) = Part(files, i)
BY FileTypes, Bounds DEF Part, Exists

LEMMA BeginJournal ==
  ASSUME IInv, IInv', OpenAnew \/ \E n \in 0 .. MaxFile : OpenAppend(n)
  PROVE  TheJournal!Begin
<1>1. files' = files \/ (~Exists(0) /\ files' = [files EXCEPT ![0] = <<>>])
  BY DEF OpenAnew, OpenAppend
<1>2. Kept' = Kept
  BY <1>1, FilesStay, KeptSame DEF IInv
<1>3. /\ phase = "down" /\ phase' # "down"
      /\ UNCHANGED <<out, buf, torn, mode>>
  BY DEF OpenAnew, OpenAppend
<1> QED
  BY <1>2, <1>3 DEF TheJournal!Begin

LEMMA TrimJournal ==
  ASSUME IInv, IInv', Remove
  PROVE  TheJournal!Trim
<1>1. PICK m \in 0 .. Len(Kept) : \E n \in m .. Len(Kept) :
        /\ Kept' = SubSeq(Kept, 1, m) \o SubSeq(Kept, n + 1, Len(Kept))
        /\ (\A i \in Files : i > count => ~Exists(i)) => m = 0
  BY KeptLess
<1>2. m = 0 \/ (torn /\ mode = "append")
  <2>1. ASSUME mode # "append" PROVE m = 0
    <3>1. mode = "reopen" /\ count = FileSum
      BY <2>1, LogAssumption DEF IInv, TypeOK
    <3>2. \A i \in Files : i > count => ~Exists(i)
      BY <3>1 DEF IInv, NoneBeyondSum
    <3> QED
      BY <1>1, <3>2
  <2>2. ASSUME ~torn, mode = "append" PROVE m = 0
    <3>1. phase # "down"
      BY DEF IInv, Places, Remove
    <3>2. \A i \in Files : i > count => ~Exists(i)
      BY <2>2, <3>1 DEF IInv, Counted
    <3> QED
      BY <1>1, <3>2
  <2> QED
    BY <2>1, <2>2
<1>3. UNCHANGED <<out \o buf, phase # "down", (torn /\ mode = "append")>>
  BY DEF Remove
<1> QED
  BY <1>1, <1>2, <1>3 DEF TheJournal!Trim

LEMMA WriteThroughJournal ==
  ASSUME LInv, LInv', WriteEarly
  PROVE  TheJournal!WriteThrough
<1>1. /\ lines' \in 1 .. MaxLines
      /\ out = <<>> /\ buf = <<>> /\ out \o buf = <<>>
      /\ Exists(0) /\ files[0] \in Seq(1 .. MaxLines)
  <2>1. lines' \in 1 .. MaxLines /\ out = <<>> /\ buf = <<>> /\ <<>> \o <<>> = <<>>
    BY Bounds, EmptySeq, ConcatEmptySeq DEF LInv, IInv, TypeOK, Drained, WriteEarly
  <2>2. Exists(0) /\ files[0] \in Seq(1 .. MaxLines)
    BY FileTypes, Bounds DEF LInv, IInv, WriteEarly, FileIsOpen, Places
  <2> QED
    BY <2>1, <2>2
<1> DEFINE t == <<lines'>>
<1>2. t \in Seq(1 .. MaxLines)
  BY <1>1
<1>3. files' = [files EXCEPT ![0] = files[0] \o t]
  <2>1. Append(files[0], lines') = files[0] \o t
    BY <1>1, AppendIsConcat
  <2> QED
    BY <2>1 DEF WriteEarly
<1>4. Append(Kept, lines') = Kept \o t
  BY <1>1, KeptType, AppendIsConcat DEF LInv, IInv
<1> HIDE DEF t
<1>5. Kept' = Kept \o t
  BY <1>1, <1>2, <1>3, KeptWritten DEF LInv, IInv
<1>6. Kept' = Append(Kept, lines')
  BY <1>4, <1>5
<1>7. phase # "down" /\ UNCHANGED <<out, buf, phase, torn, mode>>
  BY DEF WriteEarly
<1> QED
  BY <1>1, <1>6, <1>7 DEF TheJournal!WriteThrough

LEMMA WriteJournal ==
  ASSUME LInv, LInv', Write
  PROVE  TheJournal!Write
<1>1. /\ lines' \in 1 .. MaxLines /\ out \in Seq(1 .. MaxLines) /\ buf \in Seq(1 .. MaxLines)
      /\ buf' = Append(buf, lines') /\ out' = out
  BY Bounds DEF LInv, IInv, TypeOK, Write
<1> DEFINE t == <<lines'>>
<1>2. t \in Seq(1 .. MaxLines) /\ Append(buf, lines') = buf \o t
  BY <1>1, AppendIsConcat
<1>3. out \o buf \in Seq(1 .. MaxLines)
  BY <1>1, ConcatProperties
<1>4. Append(out \o buf, lines') = (out \o buf) \o t
  BY <1>1, <1>3, AppendIsConcat
<1> HIDE DEF t
<1>5. (out \o buf) \o t = out \o (buf \o t)
  BY <1>1, <1>2, Associative, Zenon
<1>6. out' \o buf' = Append(out \o buf, lines')
  BY <1>1, <1>2, <1>4, <1>5
<1>7. Kept' = Kept
  <2>1. files' = files
    BY DEF Write
  <2> QED
    BY <2>1, KeptSame DEF LInv, IInv, Part
<1>8. phase # "down" /\ UNCHANGED <<phase, torn, mode>>
  BY DEF Write
<1> QED
  BY <1>1, <1>6, <1>7, <1>8 DEF TheJournal!Write

LEMMA SwapJournal ==
  ASSUME LInv, LInv', Swap
  PROVE  UNCHANGED <<Kept, pending, phase # "down", hurt>>
<1>1. out = <<>> /\ out' = buf /\ buf' = <<>> /\ buf \in Seq(1 .. MaxLines)
  BY DEF LInv, IInv, TypeOK, Drained, Swap
<1>2. <<>> \o buf = buf /\ buf \o <<>> = buf
  BY <1>1, ConcatEmptySeq
<1>3. pending' = pending
  BY <1>1, <1>2 DEF pending
<1>4. Kept' = Kept
  <2>1. files' = files
    BY DEF Swap
  <2> QED
    BY <2>1, KeptSame DEF LInv, IInv, Part
<1> QED
  BY <1>3, <1>4 DEF Swap, hurt

LEMMA PersistJournal ==
  ASSUME LInv, LInv', Flush
  PROVE  TheJournal!Persist \/ UNCHANGED <<Kept, pending, phase # "down", hurt>>
<1>1. /\ out \in Seq(1 .. MaxLines) /\ buf \in Seq(1 .. MaxLines)
      /\ out' = <<>> /\ buf' = buf
      /\ files' = [files EXCEPT ![0] = files[0] \o out]
      /\ phase = "enabled" /\ UNCHANGED <<phase, torn, mode>>
  BY OutputEnabled DEF LInv, IInv, TypeOK, Flush
<1>2. Exists(0)
  BY DEF LInv, IInv, FileIsOpen, Flush, Places
<1>3. Kept' = Kept \o out
  BY <1>1, <1>2, KeptWritten DEF LInv, IInv
<1>4. out' \o buf' = buf
  BY <1>1, ConcatEmptySeq
<1>5. CASE out = <<>>
  <2>1. Kept \o <<>> = Kept /\ <<>> \o buf = buf
    BY <1>1, KeptType, ConcatEmptySeq DEF LInv, IInv
  <2> QED
    BY <1>1, <1>3, <1>4, <1>5, <2>1 DEF pending, hurt
<1>6. CASE out # <<>>
  <2>1. /\ SubSeq(out \o buf, 1, Len(out)) = out
        /\ SubSeq(out \o buf, Len(out) + 1, Len(out \o buf)) = buf
    BY <1>1, PartsOfTwo
  <2>2. Len(out) \in 1 .. Len(out \o buf)
    <3>1. Len(out) \in Nat /\ Len(out) # 0 /\ Len(buf) \in Nat
      BY <1>1, <1>6, LenProperties, EmptySeq
    <3>2. Len(out \o buf) = Len(out) + Len(buf)
      BY <1>1, ConcatProperties
    <3> QED
      BY <3>1, <3>2
  <2> QED
    BY <1>1, <1>3, <1>4, <2>1, <2>2 DEF TheJournal!Persist
<1> QED
  BY <1>5, <1>6

LEMMA EndJournal ==
  ASSUME LInv, LInv', NEW n \in 0 .. BufMax, EndProcess(n)
  PROVE  TheJournal!End
<1> DEFINE t == SubSeq(out, 1, n)
<1>1. /\ out \in Seq(1 .. MaxLines) /\ buf \in Seq(1 .. MaxLines) /\ n \in 0 .. Len(out)
      /\ out' = <<>> /\ buf' = <<>>
      /\ phase # "down" /\ phase' = "down" /\ mode' = mode
      /\ n > 0 => pc = "flush"
      /\ files' = IF n > 0 THEN [files EXCEPT ![0] = files[0] \o t] ELSE files
  BY DEF LInv, IInv, TypeOK, EndProcess
<1>2. t \in Seq(1 .. MaxLines) /\ t = SubSeq(out \o buf, 1, n)
  <2>1. t \in Seq(1 .. MaxLines)
    BY <1>1, SeqFacts
  <2>2. \A k \in 0 .. Len(out) : SubSeq(out \o buf, 1, k) = SubSeq(out, 1, k)
    BY <1>1, PartsOfTwo
  <2> QED
    BY <1>1, <2>1, <2>2
<1>3. n \in 0 .. Len(out \o buf)
  <2>1. Len(out) \in Nat /\ Len(buf) \in Nat /\ Len(out \o buf) = Len(out) + Len(buf)
    BY <1>1, SeqFacts
  <2> QED
    BY <1>1, <2>1
<1>4. Kept' = Kept \o t
  <2>1. CASE n > 0
    <3>1. Exists(0)
      BY <1>1, <2>1 DEF LInv, IInv, FileIsOpen
    <3> HIDE DEF t
    <3> QED
      BY <1>1, <1>2, <2>1, <3>1, KeptWritten DEF LInv, IInv
  <2>2. CASE n = 0
    <3>1. files' = files
      BY <1>1, <2>2
    <3>2. Kept' = Kept
      BY <3>1, KeptSame DEF LInv, IInv, Part
    <3>3. t = <<>>
      BY <2>2, SubSeqEmpty
    <3>4. Kept \o <<>> = Kept
      BY KeptType, ConcatEmptySeq DEF LInv, IInv
    <3> QED
      BY <3>2, <3>3, <3>4
  <2> QED
    BY <1>1, <2>1, <2>2
<1>5. (torn /\ mode = "append")' \in {(torn /\ mode = "append"), TRUE}
  <2>1. torn \in BOOLEAN /\ torn' \in BOOLEAN /\ (torn => torn') /\ mode' = mode
    BY <1>1 DEF LInv, IInv, TypeOK, EndProcess
  <2> QED
    BY <2>1
<1>6. out' \o buf' = <<>>
  BY <1>1, ConcatEmptySeq, EmptySeq
<1> HIDE DEF t
<1> QED
  BY <1>1, <1>2, <1>3, <1>4, <1>5, <1>6 DEF TheJournal!End

\* The steps of refile() and output() that the journal does not see.
LEMMA UnseenJournal ==
  ASSUME LInv, LInv', Rename \/ Create \/ Start \/ Look \/ Check \/ UNCHANGED vars
  PROVE  UNCHANGED <<Kept, pending, phase # "down", hurt>>
<1>1. UNCHANGED <<out, buf, torn, mode>> /\ (phase' # "down" <=> phase # "down")
  BY DEF Rename, Create, Start, Look, Check, vars, LInv, IInv, Places
<1>2. Kept' = Kept
  <2>1. CASE Rename
    BY <2>1, KeptMoved DEF LInv
  <2>2. CASE Create \/ Start \/ Look \/ Check \/ UNCHANGED vars
    <3>1. files' = files \/ (~Exists(0) /\ files' = [files EXCEPT ![0] = <<>>])
      BY <2>2 DEF LInv, IInv, Places, Create, Start, Look, Check, vars
    <3> QED
      BY <3>1, FilesStay, KeptSame DEF LInv, IInv
  <2> QED
    BY <2>1, <2>2
<1> QED
  BY <1>1, <1>2 DEF pending, hurt

\* The log implements the journal: through every swap, rename, crash and restart the
\* files, from the highest number down, are the lines in the order in which they were
\* written, and only from the end with the oldest is anything removed, as long as no
\* process of a FILE_APPEND log ended within refile().
THEOREM Refinement == Spec => ImplementsJournal
<1>1. Init => TheJournal!Init
  <2> SUFFICES ASSUME Init PROVE TheJournal!Init
    OBVIOUS
  <2>1. TypeOK
    BY InitInv DEF IInv
  <2> DEFINE nothing == [i \in 0 .. MaxFile + 1 |-> <<>>]
  <2>2. PICK chain : IsChain(files, chain) /\ Kept = chain[0]
    BY <2>1, KeptIs
  <2>3. \A i \in Files : Part(files, i) = <<>>
    BY DEF Init, Part, Files
  <2>4. IsChain(files, nothing)
    <3>1. \A i \in Files : i \in 0 .. MaxFile + 1 /\ i + 1 \in 0 .. MaxFile + 1
      BY Bounds DEF Files
    <3>2. nothing[MaxFile + 1] = <<>> /\ \A i \in Files : nothing[i] = <<>> /\ nothing[i + 1] = <<>>
      BY <3>1, Bounds
    <3>3. <<>> \o <<>> = <<>>
      BY EmptySeq, ConcatEmptySeq
    <3> HIDE DEF nothing
    <3> QED
      BY <2>3, <3>2, <3>3 DEF IsChain
  <2>5. nothing[0] = <<>>
    BY Bounds
  <2> HIDE DEF nothing
  <2>6. chain[0] = <<>>
    <3>1. /\ MaxFile + 1 \in 0 .. MaxFile + 1 /\ 0 \in 0 .. MaxFile + 1
          /\ chain[MaxFile + 1] = nothing[MaxFile + 1]
      BY <2>2, <2>4, Bounds DEF IsChain
    <3> QED
      BY <2>2, <2>4, <2>5, <3>1, ChainsAgree
  <2>7. out \o buf = <<>>
    BY EmptySeq, ConcatEmptySeq DEF Init
  <2> QED
    BY <2>2, <2>6, <2>7 DEF Init, TheJournal!Init
<1>2. ASSUME LInv, LInv', [Next]_vars
      PROVE  [TheJournal!Next]_<<Kept, out \o buf, phase # "down", (torn /\ mode = "append")>>
  <2>1. IInv /\ IInv'
    BY <1>2 DEF LInv
  <2>2. CASE Opening
    BY <2>1, <2>2, BeginJournal DEF Opening, TheJournal!Next
  <2>3. CASE Remove
    BY <2>1, <2>3, TrimJournal DEF TheJournal!Next
  <2>4. CASE WriteEarly
    BY <1>2, <2>4, WriteThroughJournal DEF TheJournal!Next
  <2>5. CASE Write
    BY <1>2, <2>5, WriteJournal DEF TheJournal!Next
  <2>6. CASE Swap
    BY <1>2, <2>6, SwapJournal DEF pending, hurt
  <2>7. CASE Flush
    BY <1>2, <2>7, PersistJournal DEF TheJournal!Next, pending, hurt
  <2>8. ASSUME NEW n \in 0 .. BufMax, EndProcess(n) PROVE TheJournal!Next
    BY <1>2, <2>8, EndJournal DEF TheJournal!Next
  <2>9. CASE Rename \/ Create \/ Start \/ Look \/ Check \/ UNCHANGED vars
    BY <1>2, <2>9, UnseenJournal DEF pending, hurt
  <2> QED
    BY <1>2, <2>2, <2>3, <2>4, <2>5, <2>6, <2>7, <2>8, <2>9 DEF Next, Refile, Output
<1> QED
  BY InitLInv, NextLInv, <1>1, <1>2, PTL DEF Spec, ImplementsJournal, TheJournal!Spec
=============================================================================
