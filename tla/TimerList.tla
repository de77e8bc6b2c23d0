------------------------------ MODULE TimerList ------------------------------
(***************************************************************************)
(* What the timing wheel of clock/src/clockmodule.cpp promises: a list of  *)
(* timers, of which every tick takes out those that are due.  Timers are   *)
(* numbered in the order in which they were added.                         *)
(***************************************************************************)
EXTENDS Naturals, Sequences, FiniteSets

CONSTANTS MaxTimers, Delays

VARIABLES
  tick,    \* the present
  expire,  \* when each timer is due
  out      \* the timers that were taken out, in that order

vars == <<tick, expire, out>>

Waiting == DOMAIN expire \ {out[k] : k \in DOMAIN out}

\* The waiting timers that are due at the given tick.
Due(now) == {t \in Waiting : expire[t] = now}

\* All of the given timers, the oldest first.
InTurn(timers) ==
  {list \in [1 .. Cardinality(timers) -> timers] :
     \A j \in DOMAIN list, k \in DOMAIN list : j < k => list[j] < list[k]}

Init == tick = 0 /\ expire = <<>> /\ out = <<>>

Add ==
  /\ Len(expire) < MaxTimers
  /\ \E ms \in Delays : expire' = Append(expire, tick + ms)
  /\ UNCHANGED <<tick, out>>

\* A timer may have been added for this very tick: those come first.
Tick ==
  /\ tick' = tick + 1
  /\ \E now \in InTurn(Due(tick)), next \in InTurn(Due(tick + 1)) :
        out' = out \o now \o next
  /\ UNCHANGED expire

Next == Add \/ Tick

Spec == Init /\ [][Next]_vars
=============================================================================
