-------------------------------- MODULE Clock --------------------------------
(***************************************************************************)
(* The clock module (clock/src/clockmodule.cpp): a hierarchical timing     *)
(* wheel that the clock thread turns by one tick per millisecond, and the  *)
(* list tmWork in which expired timers are handed to the main thread.      *)
(*                                                                         *)
(* Timers are numbered in the order of the calls of timerAdd.  The near    *)
(* wheel is level 0 of the wheel, tmSlot[i] is level i + 1.                *)
(***************************************************************************)
EXTENDS Integers, Sequences, SequencesExt

CONSTANTS
  TimeNear,        \* the slots of the near wheel (256)
  TimeSlot,        \* the slots of each other wheel (64)
  TimeWheelCount,  \* how many other wheels there are (4)
  TickWrap,        \* where the system's tick time wraps (2^32 milliseconds)
  StartTime,       \* the system's tick time when the clock is started
  MaxLag,          \* bound: the system time is at most this far ahead
  MaxTick,         \* bound: where the time ends
  MaxTimers,       \* bound: how many timers are added
  Delays           \* the delays they are added with

ASSUME ClockAssumption ==
  /\ TimeNear \in Nat /\ TimeNear > 1
  /\ TimeSlot \in Nat /\ TimeSlot > 1
  /\ TimeWheelCount \in Nat \ {0}
  /\ TickWrap \in Nat \ {0} /\ TickWrap % 2 = 0
  /\ StartTime \in 0 .. TickWrap - 1
  /\ MaxLag \in 1 .. (TickWrap \div 2) - 1
  /\ MaxTick \in Nat
  /\ MaxTimers \in Nat
  /\ Delays \subseteq Nat

VARIABLES
  systime,   \* what GetTickTime() answers
  lastTick,  \* Timer::lastTick
  todo,      \* how many rounds of its loop the clock thread has still to do
  tick,      \* Timer::tick
  wheel,     \* tmNear and tmSlot: the timers at each position
  tmWork,    \* the expired timers that the main thread has not fetched
  batch,     \* the list the main thread works on in update()
  expire,    \* TmCall::expire of every timer that was ever added
  elapsed,   \* history: how many milliseconds have passed
  out,       \* history: the timers that have left the wheel, in that order
  fired      \* history: the timers whose onTimeout was called, in that order

time == <<systime, lastTick, todo, elapsed>>
vars == <<time, tick, wheel, tmWork, batch, expire, out, fired>>

\* How many ticks a block of the given level spans: the near wheel goes round in
\* Unit[0] ticks, the last wheel in Unit[TimeWheelCount].
Unit[level \in 0 .. TimeWheelCount] ==
  IF level = 0 THEN TimeNear ELSE Unit[level - 1] * TimeSlot

Levels == 1 .. TimeWheelCount

\* The slot of the given time in the wheel of the given level.
SlotOf(level, t) == (t \div Unit[level - 1]) % TimeSlot

Positions == ({0} \X (0 .. TimeNear - 1)) \cup (Levels \X (0 .. TimeSlot - 1))

Timers == DOMAIN expire

Init ==
  /\ systime = StartTime
  /\ lastTick = StartTime
  /\ todo = 0
  /\ tick = 0
  /\ wheel = [p \in Positions |-> <<>>]
  /\ tmWork = <<>>
  /\ batch = <<>>
  /\ expire = <<>>
  /\ elapsed = 0
  /\ out = <<>>
  /\ fired = <<>>
-----------------------------------------------------------------------------
(* struct Timer *)

\* Timer::add: the lowest level on which the timer expires in the present block,
\* or slot 0 of the last wheel if its time is beyond the last wheel's block.
Place(when, now) ==
  LET near == {level \in 0 .. TimeWheelCount : when \div Unit[level] = now \div Unit[level]}
  IN IF near = {} THEN <<TimeWheelCount, 0>>
     ELSE IF 0 \in near THEN <<0, when % TimeNear>>
     ELSE <<Min(near), SlotOf(Min(near), when)>>

Insert(w, t, p) == [w EXCEPT ![p] = Append(@, t)]

\* Timer::move: the list of the slot is detached, and each of its timers added anew.
Move(w, from, now) ==
  LET list == w[from]
      moved[k \in 0 .. Len(list)] ==
        IF k = 0 THEN [w EXCEPT ![from] = <<>>]
        ELSE Insert(moved[k - 1], list[k], Place(expire[list[k]], now))
  IN moved[Len(list)]

\* Mutant: the wrap of all wheels is forgotten.
TurnNoWrap(w, now) ==
  LET turning == {level \in Levels : now % Unit[level - 1] = 0 /\ SlotOf(level, now) # 0}
  IN IF turning = {} THEN w
     ELSE Move(w, <<Min(turning), SlotOf(Min(turning), now)>>, now)

\* Mutant: only the first wheel is looked at, even when it is at its slot 0.
TurnFirst(w, now) ==
  IF now % Unit[0] = 0 THEN Move(w, <<1, SlotOf(1, now)>>, now) ELSE w

\* Timer::shift at the new tick: the wheels that have come round to their slot 0
\* are passed over, the next one's slot is moved; when all have come round, the
\* slots 0 of all wheels are moved, one after the other.
Turn(w, now) ==
  LET turning == {level \in Levels : now % Unit[level - 1] = 0 /\ SlotOf(level, now) # 0}
      allMoved[level \in 0 .. TimeWheelCount] ==
        IF level = 0 THEN w ELSE Move(allMoved[level - 1], <<level, 0>>, now)
  IN IF now % Unit[TimeWheelCount] = 0 THEN allMoved[TimeWheelCount]
     ELSE IF turning = {} THEN w
     ELSE Move(w, <<Min(turning), SlotOf(Min(turning), now)>>, now)

\* Mutant: expired timers are only handed over once the last ones were fetched.
PushedDrops(work, w, now) == IF work # <<>> THEN work ELSE w[<<0, now % TimeNear>>]

\* Timer::push: TmList::swap does not swap.  It overwrites the list it is given,
\* and the timers in there are lost.
NearSlot(now) == <<0, now % TimeNear>>
Pushed(work, w, now) == IF w[NearSlot(now)] = <<>> THEN work ELSE w[NearSlot(now)]
Emptied(w, now) == [w EXCEPT ![NearSlot(now)] = <<>>]
-----------------------------------------------------------------------------
(* The clock thread *)

Elapse ==
  /\ elapsed < MaxTick
  /\ elapsed - tick < MaxLag
  /\ elapsed' = elapsed + 1
  /\ systime' = (systime + 1) % TickWrap
  /\ UNCHANGED <<lastTick, todo, tick, wheel, tmWork, batch, expire, out, fired>>

\* Mutant: a time that has wrapped is taken for a time that stands still.
DiffStopped(now, last) == IF now < last THEN 0 ELSE now - last

\* (int)(now - last): an unsigned difference whose low half is taken as signed.
Diff(now, last) ==
  LET low == (now - last) % TickWrap
  IN IF low < TickWrap \div 2 THEN low ELSE low - TickWrap

\* The clock thread reads the time.  Nobody else uses lastTick, which the code
\* sets after the rounds.
Wake ==
  /\ todo <= 0
  /\ systime # lastTick
  /\ todo' = Diff(systime, lastTick)
  /\ lastTick' = systime
  /\ UNCHANGED <<systime, elapsed, tick, wheel, tmWork, batch, expire, out, fired>>

\* One round under m_lock: push, shift, push.
Tick ==
  /\ todo > 0
  /\ todo' = todo - 1
  /\ tick' = tick + 1
  /\ LET turned == Turn(Emptied(wheel, tick), tick')
     IN /\ wheel' = Emptied(turned, tick')
        /\ tmWork' = Pushed(Pushed(tmWork, wheel, tick), turned, tick')
        /\ out' = out \o wheel[NearSlot(tick)] \o turned[NearSlot(tick')]
  /\ UNCHANGED <<systime, lastTick, elapsed, batch, expire, fired>>
-----------------------------------------------------------------------------
(* timerAdd and update *)

TimerAdd(ms) ==
  /\ Len(expire) < MaxTimers
  /\ expire' = Append(expire, ms + tick)
  /\ wheel' = Insert(wheel, Len(expire) + 1, Place(ms + tick, tick))

Add ==
  /\ \E ms \in Delays : TimerAdd(ms)
  /\ UNCHANGED <<time, tick, tmWork, batch, out, fired>>

\* update() finds tmWork filled and takes it under m_lock.
TakeWork ==
  /\ batch = <<>>
  /\ tmWork # <<>>
  /\ batch' = tmWork
  /\ tmWork' = <<>>
  /\ UNCHANGED <<time, tick, wheel, expire, out, fired>>

\* onTimeout, which may add the next timer, as TestTimer does.
Fire ==
  /\ batch # <<>>
  /\ batch' = Tail(batch)
  /\ fired' = Append(fired, Head(batch))
  /\ \/ \E ms \in Delays : TimerAdd(ms)
     \/ UNCHANGED <<expire, wheel>>
  /\ UNCHANGED <<time, tick, tmWork, out>>
-----------------------------------------------------------------------------
Next == Elapse \/ Wake \/ Tick \/ Add \/ TakeWork \/ Fire

Spec == Init /\ [][Next]_vars

(***************************************************************************)
(* Time passes, and both threads keep running.                             *)
(***************************************************************************)
FairSpec ==
  Spec /\ WF_vars(Elapse) /\ WF_vars(Wake \/ Tick) /\ WF_vars(TakeWork \/ Fire)
-----------------------------------------------------------------------------
TypeOK ==
  /\ systime \in 0 .. TickWrap - 1
  /\ lastTick \in 0 .. TickWrap - 1
  /\ todo \in Nat
  /\ tick \in Nat
  /\ wheel \in [Positions -> Seq(Timers)]
  /\ tmWork \in Seq(Timers)
  /\ batch \in Seq(Timers)
  /\ expire \in Seq(Nat)
  /\ elapsed \in Nat
  /\ out \in Seq(Timers)
  /\ fired \in Seq(Timers)

Elements(list) == {list[k] : k \in DOMAIN list}

\* No millisecond is lost or counted twice, though the system's tick time wraps
\* (work(): the difference is cut to an int).
TickFollowsTime == tick + todo + ((systime - lastTick) % TickWrap) = elapsed

\* The inductive invariant behind it: the clock thread is never so far behind that the
\* difference would not fit into the int.
TimeIInv ==
  /\ systime \in 0 .. TickWrap - 1
  /\ lastTick \in 0 .. TickWrap - 1
  /\ todo \in Nat
  /\ tick \in Nat
  /\ elapsed \in Nat
  /\ elapsed - tick <= MaxLag
  /\ TickFollowsTime

Waiting == Timers \ Elements(out)

\* A list of all the given timers and no others, those of one tick in the order in which
\* they were added.
Lists(list, timers) ==
  /\ Elements(list) = timers
  /\ \A j \in DOMAIN list, k \in DOMAIN list :
        j < k /\ expire[list[j]] = expire[list[k]] => list[j] < list[k]

\* Whenever nobody holds m_lock, every timer still to come is in the very slot into which
\* it would be put if it were added now, and nowhere else, however long ago it was added
\* and however it came down the wheels; and none is overdue.
InPlace ==
  /\ \A p \in Positions : Lists(wheel[p], {t \in Waiting : Place(expire[t], tick) = p})
  /\ \A t \in Waiting : expire[t] >= tick

\* The wheel takes every timer out at its tick, those of one tick in the order in which
\* they were added, however they came down the wheels, and loses none, when all wheels
\* wrap neither (clockmodule.cpp: "timers beyond the wrap are kept in the slots 0, so
\* these have to be set again").
List == INSTANCE TimerList
ImplementsTimerList == List!Spec

LastOut(t) == out # <<>> /\ Last(out) = t

\* The timer that left the wheel last fires, unless another one leaves it before the
\* main thread has called it (update() finds tmWork filled without taking the lock).
LastOutFires ==
  \A t \in 1 .. MaxTimers : LastOut(t) ~> (t \in Elements(fired) \/ ~LastOut(t))
=============================================================================
