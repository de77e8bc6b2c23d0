-------------------------------- MODULE Log --------------------------------
(***************************************************************************)
(* One log of the log module (log/src/log.cpp, logmodule.cpp): the main    *)
(* thread writes lines, before start() straight to the file and after it   *)
(* into m_write; the log thread swaps the buffers every 10 ms, starts a    *)
(* new file when the old one has grown too long, and writes.  The files    *)
(* outlive the process, which may end between any two calls of the file    *)
(* system: LogModule::stop() does not wait for the log thread, so that an  *)
(* orderly stop ends it as a crash does.                                   *)
(*                                                                         *)
(* A line is its number in the order of the calls of write().  File 0 is   *)
(* name.log, file i is name_i.log.  The terminal is left out, and so are   *)
(* lines below m_level, for which write() returns at once.                 *)
(***************************************************************************)
EXTENDS Integers, Sequences

CONSTANTS
  Modes,     \* the m_mode of the log: FILE_REOPEN, FILE_APPEND or either
  FileSum,   \* LOG_FILE_SUM, how many old files a FILE_REOPEN log keeps
  FileSize,  \* LOG_FILE_SIZE, counted in lines
  BufMax,    \* LOG_BUF_MAX, counted in lines
  MaxLines,  \* bound: how many lines are written
  MaxFile,   \* bound: the highest number of a file
  MaxEnds,   \* bound: how often the process ends
  Missing    \* a file that does not exist

ASSUME LogAssumption ==
  /\ Modes \subseteq {"reopen", "append"}
  /\ FileSum \in Nat \ {0}
  /\ FileSize \in Nat
  /\ BufMax \in Nat \ {0}
  /\ MaxLines \in Nat
  /\ MaxFile \in Nat /\ FileSum <= MaxFile
  /\ MaxEnds \in Nat
  /\ Missing \notin Seq(1 .. MaxLines)

VARIABLES
  mode,     \* m_mode
  files,    \* the files on disk
  phase,    \* "down", "opening" (in the constructor), "early" or "enabled"
  buf,      \* m_write, m_curLen lines of it
  out,      \* m_output, curLen lines of it
  pc,       \* where output(), or the constructor's refile(), stands
  at,       \* i of refile()
  count,    \* m_count
  fsize,    \* m_fsize
  \* history
  lines,    \* how many lines were written
  ends,     \* how often the process ended
  torn,     \* whether it ever ended within refile()
  gone,     \* the lines removed with their file
  lost      \* the lines that were pending when the process ended

vars == <<mode, files, phase, buf, out, pc, at, count, fsize, lines, ends, torn, gone, lost>>

Exists(i) == files[i] # Missing

LinesOf(s) == {s[k] : k \in DOMAIN s}
OnDisk == UNION {LinesOf(files[i]) : i \in {j \in 0 .. MaxFile : Exists(j)}}

Init ==
  /\ mode \in Modes
  /\ files = [i \in 0 .. MaxFile |-> Missing]
  /\ phase = "down"
  /\ buf = <<>> /\ out = <<>>
  /\ pc = "idle"
  /\ at = 0
  /\ count = FileSum
  /\ fsize = 0
  /\ lines = 0
  /\ ends = 0
  /\ torn = FALSE
  /\ gone = {}
  /\ lost = {}
-----------------------------------------------------------------------------
(* The constructor: fopen() *)

\* There are n old files, counting from 1 to the first that is missing.
OldFiles(n) ==
  /\ \A i \in 1 .. n : Exists(i)
  /\ n < MaxFile => ~Exists(n + 1)

\* A FILE_APPEND log goes on with the file that is there.
OpenAppend(n) ==
  /\ phase = "down"
  /\ mode = "append"
  /\ phase' = "early"
  /\ OldFiles(n)
  /\ count' = n
  /\ files' = IF Exists(0) THEN files ELSE [files EXCEPT ![0] = <<>>]
  /\ fsize' = Len(files'[0])
  /\ UNCHANGED <<mode, buf, out, pc, at, lines, ends, torn, gone, lost>>

\* A FILE_REOPEN log starts a new file with refile().
OpenAnew ==
  /\ phase = "down"
  /\ mode = "reopen"
  /\ phase' = "opening"
  /\ count' = FileSum
  /\ fsize' = 0
  /\ pc' = "remove"
  /\ UNCHANGED <<mode, files, buf, out, at, lines, ends, torn, gone, lost>>
-----------------------------------------------------------------------------
(* refile(), one call of the file system after the other *)

\* Mutant: the renaming begins one file too low.
RemoveOffByOne ==
  /\ pc = "remove"
  /\ gone' = gone \cup (IF Exists(count) THEN LinesOf(files[count]) ELSE {})
  /\ files' = [files EXCEPT ![count] = Missing]
  /\ at' = count - 1
  /\ pc' = IF count = 1 THEN "create" ELSE "rename"
  /\ UNCHANGED <<mode, phase, buf, out, count, fsize, lines, ends, torn, lost>>

\* remove() of the last file, if it is there.
Remove ==
  /\ pc = "remove"
  /\ gone' = gone \cup (IF Exists(count) THEN LinesOf(files[count]) ELSE {})
  /\ files' = [files EXCEPT ![count] = Missing]
  /\ at' = count
  /\ pc' = "rename"
  /\ UNCHANGED <<mode, phase, buf, out, count, fsize, lines, ends, torn, lost>>

\* rename() of file at - 1 to at, which fails if there is no such file.
Rename ==
  /\ pc = "rename"
  /\ files' = IF Exists(at - 1)
                THEN [files EXCEPT ![at] = files[at - 1], ![at - 1] = Missing]
                ELSE files
  /\ at' = at - 1
  /\ pc' = IF at = 1 THEN "create" ELSE "rename"
  /\ UNCHANGED <<mode, phase, buf, out, count, fsize, lines, ends, torn, gone, lost>>

\* fopen(newfile, "w+"); the constructor is done, output() goes on.
Create ==
  /\ pc = "create"
  /\ files' = [files EXCEPT ![0] = <<>>]
  /\ fsize' = 0
  /\ IF phase = "opening"
       THEN phase' = "early" /\ pc' = "idle"
       ELSE pc' = "flush" /\ UNCHANGED phase
  /\ UNCHANGED <<mode, buf, out, at, count, lines, ends, torn, gone, lost>>
-----------------------------------------------------------------------------
(* The main thread *)

\* write() before start(): flush() at once; m_fsize is left as it is.
WriteEarly ==
  /\ phase = "early"
  /\ lines < MaxLines
  /\ lines' = lines + 1
  /\ files' = [files EXCEPT ![0] = Append(@, lines')]
  /\ UNCHANGED <<mode, phase, buf, out, pc, at, count, fsize, ends, torn, gone, lost>>

\* write() after start(), under m_lock.  It does not look whether m_write is full; the
\* servers are relied on to write less than LOG_BUF_MAX between two swaps.
Write ==
  /\ phase = "enabled"
  /\ lines < MaxLines
  /\ Len(buf) < BufMax
  /\ lines' = lines + 1
  /\ buf' = Append(buf, lines')
  /\ UNCHANGED <<mode, files, phase, out, pc, at, count, fsize, ends, torn, gone, lost>>

\* start(), and the log thread is started.
Start ==
  /\ phase = "early"
  /\ phase' = "enabled"
  /\ UNCHANGED <<mode, files, buf, out, pc, at, count, fsize, lines, ends, torn, gone, lost>>
-----------------------------------------------------------------------------
(* output() on the log thread *)

\* The look at m_curLen, without m_lock.
Look ==
  /\ phase = "enabled"
  /\ pc = "idle"
  /\ buf # <<>>
  /\ pc' = "swap"
  /\ UNCHANGED <<mode, files, phase, buf, out, at, count, fsize, lines, ends, torn, gone, lost>>

\* Mutant: m_curLen is read after it was reset.
SwapTooLate ==
  /\ pc = "swap"
  /\ out' = <<>>
  /\ buf' = <<>>
  /\ pc' = "check"
  /\ UNCHANGED <<mode, files, phase, at, count, fsize, lines, ends, torn, gone, lost>>

\* Mutant: m_curLen is not reset.
SwapKeepsLen ==
  /\ pc = "swap"
  /\ out' = buf
  /\ pc' = "check"
  /\ UNCHANGED <<mode, files, phase, buf, at, count, fsize, lines, ends, torn, gone, lost>>

\* The buffers are swapped under m_lock.
Swap ==
  /\ pc = "swap"
  /\ out' = buf
  /\ buf' = <<>>
  /\ pc' = "check"
  /\ UNCHANGED <<mode, files, phase, at, count, fsize, lines, ends, torn, gone, lost>>

\* Mutant: a FILE_APPEND log does not make room for one more file.
NextCountStays == count

\* A FILE_APPEND log never removes a file: there is one more each time.
NextCount == IF mode = "append" THEN count + 1 ELSE count

\* A file that has grown too long is put aside first.
Check ==
  /\ pc = "check"
  /\ IF fsize > FileSize
       THEN NextCount <= MaxFile /\ count' = NextCount /\ pc' = "remove"
       ELSE pc' = "flush" /\ UNCHANGED count
  /\ UNCHANGED <<mode, files, phase, buf, out, at, fsize, lines, ends, torn, gone, lost>>

Flush ==
  /\ pc = "flush"
  /\ files' = [files EXCEPT ![0] = @ \o out]
  /\ out' = <<>>
  /\ fsize' = Len(files'[0])
  /\ pc' = "idle"
  /\ UNCHANGED <<mode, phase, buf, at, count, lines, ends, torn, gone, lost>>
-----------------------------------------------------------------------------
\* The process ends; within flush() n lines may have reached the file.
EndProcess(n) ==
  /\ phase # "down"
  /\ ends < MaxEnds
  /\ n <= Len(out) /\ (pc # "flush" => n = 0)
  /\ files' = IF n > 0 THEN [files EXCEPT ![0] = @ \o SubSeq(out, 1, n)] ELSE files
  /\ lost' = lost \cup LinesOf(SubSeq(out, n + 1, Len(out)) \o buf)
  /\ out' = <<>> /\ buf' = <<>>
  /\ torn' = (torn \/ pc \in {"rename", "create"})
  /\ phase' = "down"
  /\ pc' = "idle"
  /\ ends' = ends + 1
  /\ UNCHANGED <<mode, at, count, fsize, lines, gone>>

Opening == OpenAnew \/ \E n \in 0 .. MaxFile : OpenAppend(n)

Refile == Remove \/ Rename \/ Create

Output == Look \/ Swap \/ Check \/ Flush

Next ==
  \/ Opening \/ Refile \/ Output
  \/ WriteEarly \/ Write \/ Start
  \/ \E n \in 0 .. BufMax : EndProcess(n)

Spec == Init /\ [][Next]_vars

\* The log thread keeps running.
FairSpec == Spec /\ WF_vars(Refile \/ Output)
-----------------------------------------------------------------------------
TypeOK ==
  /\ mode \in Modes
  /\ files \in [0 .. MaxFile -> Seq(1 .. MaxLines) \cup {Missing}]
  /\ phase \in {"down", "opening", "early", "enabled"}
  /\ buf \in Seq(1 .. MaxLines) /\ Len(buf) <= BufMax
  /\ out \in Seq(1 .. MaxLines) /\ Len(out) <= BufMax
  /\ pc \in {"idle", "swap", "check", "remove", "rename", "create", "flush"}
  /\ at \in 0 .. MaxFile
  /\ count \in 0 .. MaxFile /\ (mode = "reopen" => count = FileSum)
  /\ fsize \in Nat
  /\ lines \in 0 .. MaxLines
  /\ ends \in 0 .. MaxEnds
  /\ torn \in BOOLEAN
  /\ gone \subseteq 1 .. MaxLines
  /\ lost \subseteq 1 .. MaxLines

\* refile() never renames a file to one that exists, which the rename() of one
\* system refuses and that of another does by destroying the file.
TargetFree == pc = "rename" => at > 0 /\ ~Exists(at)

\* The log is open whenever something is written to it: outside refile() name.log
\* exists as long as the process runs.
FileIsOpen == phase # "down" /\ pc \notin {"remove", "rename", "create"} => Exists(0)

\* No line ever vanishes: it is in a file or a buffer, or it went with a file that was
\* removed or with the process.
NothingVanishes ==
  1 .. lines = OnDisk \cup LinesOf(out) \cup LinesOf(buf) \cup gone \cup lost

\* A file with a lower number is newer than one with a higher number, whatever gaps there
\* are in the numbers, each file has its lines in the order in which they were written,
\* and what is still in the buffers is newer than all of them; no line is there twice.
Increasing(s) == \A j \in DOMAIN s, k \in DOMAIN s : j < k => s[j] < s[k]
Before(s, t) == \A a \in LinesOf(s), b \in LinesOf(t) : a < b
LinesInOrder ==
  /\ Increasing(out) /\ Increasing(buf) /\ Before(out, buf)
  /\ \A i \in 0 .. MaxFile : Exists(i) =>
        /\ Increasing(files[i]) /\ Before(files[i], out) /\ Before(files[i], buf)
        /\ \A j \in 0 .. i - 1 : Exists(j) => Before(files[i], files[j])

\* Old files are given up only when a FILE_REOPEN log has LOG_FILE_SUM of them and one
\* more, and a FILE_APPEND log never gives one up, unless the process once ended within
\* refile(): this leaves a gap in the numbers, on which both modes count.
RemovesOnlyTheSurplus ==
  [][gone' # gone => torn \/ (mode = "reopen" /\ \A i \in 0 .. FileSum : Exists(i))]_vars

\* The log implements a journal: the files, from the highest number down, hold the
\* lines in the order of the calls of write(), each once, through every swap, rename
\* and restart, gaps included; and only the oldest are ever removed, unless the log is
\* a FILE_APPEND log and a process ended within refile(): then it may be any file.
Kept ==
  LET From[i \in 0 .. MaxFile + 1] ==
        IF i > MaxFile THEN <<>>
        ELSE From[i + 1] \o (IF Exists(i) THEN files[i] ELSE <<>>)
  IN From[0]
TheJournal ==
  INSTANCE Journal WITH Lines <- 1 .. MaxLines, kept <- Kept, pending <- out \o buf,
                        up <- phase # "down", hurt <- (torn /\ mode = "append")
ImplementsJournal == TheJournal!Spec

\* Every line reaches the disk, unless the process ends before.
EveryLineKept ==
  \A k \in 1 .. MaxLines : lines >= k ~> k \in OnDisk \cup gone \cup lost
=============================================================================
