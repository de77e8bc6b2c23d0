------------------------------ MODULE Journal ------------------------------
(***************************************************************************)
(* What a log promises: the lines reach the disk in the order in which     *)
(* they were written, each of them once; what is given up is the oldest of *)
(* what is kept, or, when the process ends, the newest of what is pending. *)
(* A journal that was hurt when the process ended may give up any stretch  *)
(* of what is kept, but keeps the order of the rest.                       *)
(***************************************************************************)
EXTENDS Naturals, Sequences

CONSTANT Lines

VARIABLES
  kept,     \* the lines on disk, oldest first
  pending,  \* the lines written but not yet on disk
  up,       \* whether the process runs
  hurt      \* whether the process ever ended at a bad time

Init == kept = <<>> /\ pending = <<>> /\ up = FALSE /\ hurt = FALSE

Begin == ~up /\ up' = TRUE /\ UNCHANGED <<kept, pending, hurt>>

Write ==
  /\ up
  /\ \E line \in Lines : pending' = Append(pending, line)
  /\ UNCHANGED <<kept, up, hurt>>

\* A line that goes to the disk at once, when no other waits.
WriteThrough ==
  /\ up
  /\ pending = <<>>
  /\ \E line \in Lines : kept' = Append(kept, line)
  /\ UNCHANGED <<pending, up, hurt>>

Persist ==
  /\ up
  /\ \E n \in 1 .. Len(pending) :
        /\ kept' = kept \o SubSeq(pending, 1, n)
        /\ pending' = SubSeq(pending, n + 1, Len(pending))
  /\ UNCHANGED <<up, hurt>>

\* What lies behind the first m lines, up to the n-th, is given up.
Trim ==
  /\ \E m \in 0 .. Len(kept) : \E n \in m .. Len(kept) :
        /\ m = 0 \/ hurt
        /\ kept' = SubSeq(kept, 1, m) \o SubSeq(kept, n + 1, Len(kept))
  /\ UNCHANGED <<pending, up, hurt>>

\* The process ends: of what was pending a first part is on disk.
End ==
  /\ up /\ up' = FALSE
  /\ \E n \in 0 .. Len(pending) : kept' = kept \o SubSeq(pending, 1, n)
  /\ pending' = <<>>
  /\ hurt' \in {hurt, TRUE}

Next == Begin \/ Write \/ WriteThrough \/ Persist \/ Trim \/ End

Spec == Init /\ [][Next]_<<kept, pending, up, hurt>>
=============================================================================
