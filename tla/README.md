# A TLA+ verification of yougan

yougan is a skeleton for game servers in C++: a server is a set of modules
(log, clock, network, the game's own) that one main thread initialises, starts
and updates, while threads of the modules do the waiting. What can go wrong in
it is mostly what the threads do to each other: jobs and results pass through
hand-made queues, handlers are deleted by one thread while others look them up,
and ids and sockets are used again.

The modules here are translated from the WIN32 branches of the code. The other
branches do not compile (`synclock.cpp` names members that do not exist,
`NetPoll` has no sets), so they have no behaviour to model.

## The system

| Component | Source | State | Operations | Modelled in |
|---|---|---|---|---|
| Job queue | `network/src/job.h` | two vectors of jobs, a lock, the main loop's semaphore | `push` (any thread), `invoke` (main) | `JobQueue` |
| Bounded queue | `common/src/threadqueue.h` | a ring, two indices, two locks, two semaphores | `push`, `trypush`, `pop`, `trypop` | `ThreadQueue` |
| Network | `network/src/network.cpp` | register table, two polls (read set, write set, close requests), `m_rwlock` | `addHandler`, `closeByNetid`, `enableWrite`, `send`, `delHandler`, `dispatch` | `Network` |
| TCP handler | `network/src/tcphandler.cpp` | socket, netid, message being read, write and push buffers, `m_lock` | `onCanRead`, `onCanWrite`, `onClose`, `send` | `Network` (control), `Stream` (bytes) |
| Net module | `network/src/netmodule.cpp`, `listenhandler.cpp` | listeners, request and result queues of connects | accept thread, connect thread, `update`, `connectAsyn`, `send`, `listen` | `Network` (accept, connect, update, send), `LoginLink` (`connectAsyn`, connect thread, `update`) |
| Jobs, callbacks | `network/src/job*.cpp`, `netcallback.h` | netid, socket | `onAccept`, `onRecv`, `onDisconnect`, `onConnect` | `Network` |
| Id list | `common/src/raobjlist.h` | objects, use flags, free ids, begin, end | `insert`, `erase`, `find`, iteration, `clear` | `IdList`; as a table in `Network` |
| Life cycle | `common/src/server.cpp`, `module.h` | state of each module, three queues | `init`, `start`, `update`, `stop`, `release`, `DEPEND_ON`, `EXPECT_ON` | `Lifecycle` (`JobQueue` has the loop's wait) |
| Clock | `clock/src/clockmodule.cpp` | tick, near wheel, four wheels, expired list | `timerAdd`, clock thread, `update` | `Clock` |
| Log | `log/src/log.cpp`, `logmodule.cpp` | two buffers, file, rotation count | `write`, `output`, `fopen`, `refile`, start and end of the process | `Log` |
| Login server | `loginserver/src/loginmodule.cpp` | netid of the link to the gate | `InnerNetCallback` | `LoginLink` (the link) |
| Gate server | `gateserver/src/gatemodule.cpp` | none | callbacks | `Network` (a callback's `send`) |
| Locks | `common/src/synclock.cpp` | system locks | | where they are used |
| Wrappers, Lua | `socket.cpp`, `thread.cpp`, `os.cpp`, `luamodule.cpp`, `3rd`, `luatest` | | | not modelled: I/O or third-party |

How they meet: a net thread (one for each of the two polls) scans the register
table, calls the handlers of its sockets, and pushes jobs. The accept thread and
the connect thread put new handlers into the table; the first announces them by
a job, the second by the bounded queue of results. The main thread runs jobs,
takes results, and its callbacks call `send`, which looks a handler up in the
table, or `connectAsyn`, which hands a request to the connect thread over another
bounded queue. `m_rwlock` is held for reading by scans and sends and for writing by
additions and deletions. All modules write to the log, whose thread puts it on the
disk.

What makes each component correct, and what is hard about it, is the list of
hazards in `PROJECT.json`; each names the properties that cover it or says why none does.

## Modules

**`Fifo`** is the abstract queue: elements leave in the order in which they
entered, each once. Both queues below are shown to implement it, with history
variables as the refinement mapping (`pushed`/`invoked` and `put`/`taken`).

**`JobQueue`** takes `push` apart into its lock, append, post and unlock, and
`invoke` into the unlocked look at `m_pushJobs->empty()`, the swap, the jobs and
the clear; the wait of `Server::loop` closes the round. The swap is one step,
because everybody else who touches the two pointers holds the lock. The
unlocked `empty()` is a data race with `push_back`: `MayReadEmpty` lets it answer
"not empty" too early while an append is under way, and never "empty" when a
job is there (the two pointers it compares differ before, during and after).

**`ThreadQueue`** has one action for each part of a call that other threads can
see: passing the semaphore, taking the lock and starting on the slot, finishing
and unlocking, posting. A slot under construction is `Torn`, an emptied one
`Raw`, so that a read or a write at the wrong moment shows. `push` and
`trypush` (and `pop` and `trypop`) differ only in what they do at a zero
semaphore: wait, which is no step, or give up.

**`Network`** composes the two net threads, the openers, the peers and the main
thread over one register table. Each step is what one thread does between two
points where another one can interfere. `addHandler` is one step under
`wlock()`; `delHandler` is one step per close request; a scan is one step per
`recv()` and per `onCanWrite`. A connection is one incarnation: netids and
sockets are reused by later ones, and the `conn` of an event or close request,
which the code does not have, says who was meant. The job queue and the result
queue appear as the FIFOs they were proved to be, the register table as the map from netids to
handlers that `IdList` is proved to be. Left out: bytes (a message is
a unit that arrives whole; `Stream` has them), `listen()` (the
listeners are there from the start), `connectAsyn`'s request queue (the connect
thread may open a connection at any time; `LoginLink` has it), and quitting, which no
code ever asks for.
Three steps are coarser or narrower than the code. `DelBegin` swaps the close requests out and
takes `wlock()` at once; between the two the thread only waits, and nobody else
appends to its requests. `TakeBatch` finds the result queue empty and swaps the jobs at once; a
result that arrives between the two is taken one round later. An `onDisconnect` does not send, as
none in the repository does.

**`Stream`** is one direction of a connection in bytes: `send` appends frames to the
push buffer, `onCanWrite` swaps it with the write buffer and gives the socket as much
as it takes, `recv` returns any part of what is on the wire, and the loop of `onCanRead`
puts it together again. A byte is named by its message and its place, so that a
byte lost, doubled or in the wrong place shows. `Keeps` says what the surroundings are
relied on for: `"burst"`, that the application never sends more between two
swaps than the buffer holds (`send` does not look), and `"header"`, that `recv` never
ends behind the first byte of a length, unless that byte is all it returned. `"burst"` is
kept in both runs, because without it the program writes past its buffer and nothing
can be said; without `"header"` the code goes wrong, which is a run of its own.
The arithmetic with `ret`, `read`, `remain` and `need` is the code's.

So is `m_lock`: `onCanWrite` takes it and no return gives it back (`held`), so every `send` that
comes through comes before the first write. The sender's two buffers are never in use at the same
time, and that `send` appends to one while the other is being written, which they are there for,
happens neither in the code nor in the model.

**`IdMap`** is what a list with random access promises: values under ids that are kept
until they are erased. **`IdList`** is `RAObjList`: `insert` takes the oldest free index or
grows the vectors, `erase` gives it back, and both move `m_beg` and `m_end`, for
which the two functions that look for the next index in use stand as operators.
`find`, `operator++` and the walk are operators too, since they change nothing.

**`Journal`** is what a log promises: the lines come to the disk in order, each once; given
up are the oldest of what is kept, or the newest of what is pending when the
process ends. A journal that was hurt by such an end may give up any stretch of what is
kept, but keeps the order of the rest: `Log` is hurt when a FILE_APPEND log's process ends
within `refile`. **`Log`** has the two buffers and the rotation call by call of the file
system, because the process may end between any two of them; the files outlive
it. A line is its number, a length counts lines. `LogModule::stop` neither ends the log
thread nor waits for it, so that an orderly stop ends the log just as a crash does.

**`LoginLink`** composes the net module's `connectAsyn`, connect thread and `update` with
the login server's `InnerNetCallback`. The end of a connection comes by the job
queue, its beginning by the queue of results, and `update` looks at the jobs first;
`m_gateid` is all the application remembers. Clients of the login server report to
the same callback and use the same netids. `lapse` and `mistaken` are history
variables: whether the application has given up its link, and why, and whether it took
another connection's end for the link's.

**`TimerList`** is what a timing wheel is for: a list of timers, of which each tick
takes out those that are due, oldest first. **`Clock`** is the wheel: its levels
are numbered from the near wheel (0) to the last (`TimeWheelCount`), and a slot is
a sequence of timers. The bit masks of the code become `div` and `%`: two times agree
above a level's mask if and only if they lie in the same block of `Unit[level]`
ticks. The clock thread reads the time (`Wake`), which wraps, and makes one `Tick`
under `m_lock` for each millisecond it finds; `update` takes the expired list and
calls `onTimeout`, which may add timers. Adding may come between any two ticks.
Left out: what `update` computes of frames and the UTC time.

**`Lifecycle`** is `Server::run`: `phase` is the call of `loop` that is under way,
`loopQueue` and `iter` its local queue and iterator. Which modules each one names
in `EXPECT_ON` and `DEPEND_ON` is chosen at the start; what a module answers, once
its macros let it, is any of `Answers`. A module's macros may stand in any order, so
if one would answer Pending and another Failed, both answers are possible.
`Stop` may come at any time.

## Runs

| Run | Instance | Shows |
|---|---|---|
| `job_queue` | 2 producers, 2 jobs each, semaphore of 3 | order, no loss, no lost wake-up, every job runs, `Fifo` |
| `thread_queue` | 2 producers of 3 elements, 2 consumers, ring of 2, semaphore of 2 | no torn read, no overwrite, every element popped, `Fifo` |
| `network` | 3 connections on 2 sockets, accept thread only, 1 message each, 1 send, peers that reset | handlers alive while used, order of events, no cross-talk, threads keep to their own handlers, close requests hit their connection |
| `network_live` | 2 connections by the connect thread, peers that close or reset, 1 send, with fairness | every reset is reported |
| `clock` | 3 timers; wheels of 2 slots that all come round every 8 ticks; tick time that wraps at 8; 10 ticks; with fairness | no tick lost, every timer always in its slot, each taken out at its tick and in order (`TimerList`), the last one out is called back |
| `lifecycle` | 3 modules, any order, acyclic relations, any failures, stop at any time, with fairness | order of starting and stopping, all released, start-up ends |
| `id_list` | 2 values, up to 5 indices | exact bounds, no index leaks or is given out twice, a walk meets all, `IdMap` |
| `stream` | 4 messages of length 0, 1 or 4; buffers of 10, wire of 5 bytes; a break at any time; with fairness | no byte lost, doubled or moved; the receiver uses only what it received; messages with data are told |
| `log` | 6 lines, buffers of 2, files of 1 or 2 lines, 2 old files kept, 2 ends of the process, both modes, with fairness | no line vanishes, files in order, only surplus files removed, no rename onto a file, `Journal`; every line reaches the disk |
| `login_link` | queues of 1, 2 clients, 3 breaks, 1 failed connect, with fairness | the link is kept up, never doubled, and comes back |
| `send_twice` | 1 connection, 2 messages, 2 sends, with fairness | violated: see below |
| `header_cut` | 2 messages of length 1, with fairness | violated: see below |

Bounds. In `JobQueue` the semaphore (3) is smaller than the number of pushes
(4), so the post that fails happens. In `ThreadQueue` the ring has 3 slots for 6
elements, so both indices go round, `trypush` fails, and the semaphore is just
large enough for the ring, which is the least the code guarantees. In `Network`
three connections on two sockets make netids and sockets come back while a close
request or a scan of the earlier owner is still under way, and give each poll a
netid. The symmetry is of the sockets, which the code compares for equality only, and
only the run without liveness uses it. The network and clock runs set
`CHECK_DEADLOCK FALSE` because the number of
connections, messages and sends is bounded; `thread_queue`, `stream` and `log` for the bound
on elements, messages and lines, `lifecycle` because a server ends. `job_queue`,
`id_list` and `login_link` check deadlock.

In `Clock` wheels of two slots have all the cases of the code's 256 and 64: a delay of 3
goes into the first wheel, or, from tick 3, into the second and comes down two levels; 9
is beyond the wrap of all wheels (8) and waits in slot 0; 0 is a timer for the tick that
was just pushed. Ten ticks take every wheel and the system's time once round, and a timer
that waited for the wrap down through a wheel again. The system's time is at most `MaxLag`
ahead of the wheel; the code needs less than half its range (25 days).
In `Lifecycle` three modules are enough for a chain (one that waits for one that
waits); the relations go from larger to smaller numbers only, which is no loss because
the modules may have been added in any order. A module may depend on one that the
server does not have. `init` and `start` never answer Pending of their own, as none in
the code does; neither does `stop`.

In `IdList` five indices are enough for an erasure at either end with a gap of any length
behind it, and for a list that was emptied and is filled again. In `Stream` a buffer
of 10 bytes takes one message of length 4 and a second one, or several small ones, but not
two of length 4, so that one write has several frames and an application kept to
`"burst"` may have to stop before the fourth message;
the wire of 5 is shorter than the longest frame (6), so that this one is always cut. In
`Log` two old files make the log rotate whenever there is a line in the present one, remove
its oldest file, and be broken off and reopened twice at any call; a file is put aside only
with a line in it, so that six lines never need more than the six old files there may be. In `LoginLink` the
queues hold 1 instead of 16: the full queue, which is the case that matters, comes
with fewer clients.

Fairness. Threads of an operating system keep running: weak fairness of each
thread. A thread that wants `m_rwlock` gets it if it is free again and again:
strong fairness of the steps that take it, which is what a slim reader-writer
lock gives in practice although its documentation promises no order. In
`JobQueue` nothing is assumed of the wait's 10 ms timeout: jobs must get through
by the semaphore alone, otherwise a lost wake-up would be hidden behind a delay.
Peers, new connections and callers of `send` owe nothing. In `Clock` time passes and
both threads run; in `Lifecycle` the main thread runs and nobody has to stop it. In
`Stream` the net threads at both ends run and the network delivers what it has, unless
the connection breaks; the sender owes nothing. In `Log` the log thread runs; in
`LoginLink` the connect thread and the main thread run, and `connect()` comes to an end,
at the latest after the system's timeout.

`PROJECT.json` has for each property a mutant: a small change of the modelled
code, of the kind a slip would make (a post forgotten, a lock not taken, close
requests copied rather than swapped), under which TLC finds the property
violated. The mutated definitions stand in the modules, each marked as a mutant,
before the definition they change.

## What was found

Two runs end in a violation of what `netcallback.h` says of `onRecv`, that it is called
when a message is received:

- `send_twice`: no return of `onCanWrite` gives `m_lock` back. The net thread may
  take it again (it is recursive), but the main thread hangs in its next `send` to that
  connection, holding `m_rwlock` for reading, so that nothing is ever added,
  deleted or called back again.
- `header_cut`: if `recv` returns the first byte of a length behind other bytes,
  `onCanRead` bounds what it takes by `ret`, all it received, instead of by `read`, what is
  left. It uses a byte that was not received, `read` becomes -1, and from there on the
  connection's messages are not told as they were sent.

The models show other weaknesses that no doc of the repository speaks of. The properties
are stated so that they say what is left of the promise:

- `TmList::swap` does not swap, it overwrites the destination. `Timer::push` gives it
  `tmWork`, and expired timers that the main thread has not fetched are lost; the clock
  thread makes some ten ticks in a row. What `LastOutFires` says is what remains.
- `onCanRead` treats `recv() == 0` like an error and looks at the last error code, which a
  successful `recv()` does not set. If an earlier WSAEWOULDBLOCK is still there, the
  close goes unnoticed (`PeerIsHeard` with `Leaves = {"fin"}`). Therefore
  `ResetReported` speaks of resets.
- `FD_SET` drops a socket silently when the set is full; the connection is announced and
  never read (`PeerIsHeard` with `FdMax = 1`).
- If the process ends within `refile`, the numbers of the files have a gap. The next
  process counts up to the gap only: FILE_APPEND then removes the file behind it, and
  FILE_REOPEN its oldest file although it has room. The file that FILE_APPEND removes, which
  it never should, need not even be the oldest; this came out when the refinement was to be
  proved, for the run as it was had too few files to show it. `RemovesOnlyTheSurplus` therefore speaks
  of logs that were never torn, and `Journal` has `hurt`. Order is kept all the same
  (`LinesInOrder`).
- The last lines are lost when the server stops (`lost` in `NothingVanishes`).
- The login server gives its link up if `connectAsyn` refuses the request, and if the end of
  a link is told before its beginning (`lapse`); and if a client had the netid
  in `m_gateid`, it sets up a second one (`mistaken`).
- `Log::write` and `TcpHandler::send` do not look whether their buffer is full.

## Proofs

With TLAPS, for every value of the constants. Each rests on an inductive invariant; where a
second property needs more, it is built on top of the first.

`JobQueue_proofs` and `Containers_proofs` (`ThreadQueue` and `IdList`) prove the type invariants, `NoLostWakeup`,
`NoTornRead`, `NoOverwrite`, that nothing is lost or reordered, and that both
queues implement `Fifo`. For `JobQueue` the invariant
says that the lock is held by the producer inside `push`, that this
producer's `target` is still `m_pushJobs` when it appends (without this, a swap in
between would make it append to the vector that is being run), that the work
vector is empty outside the loop, and `WakeupPending`: `NoLostWakeup` extended to
the time in which jobs are run, because a producer may push in just that time.
For `ThreadQueue` the heart is a pair of counts: free slots plus admitted
producers plus elements held plus emptied slots not yet given back make up the
size, and announced elements plus those promised to consumers plus those not yet
announced make up the elements held. From these follow that the ring never
holds more than `Size` elements, that `tail` is `head` plus that number once round
the ring, and, with what each slot holds (`SlotsFilled`, `SlotsRaw`), the two
statements about slots. The assumptions are those the constructor call
satisfies: a size of at least one and not above the semaphore's maximum,
finitely many threads.

`Network_proofs` proves `TypeOK`, `HandlerAlive`, `OwnThreadOnly` and `CloseHitsItsConn` for any
number of connections, sockets, messages and sends. The invariant says that readers and
the writer of `m_rwlock` exclude each other (`Locks`); that the register is a one-to-one
relation between netids and handlers (`Registered`) and every netid given out is in use or
waits once (`Recycled`), so that by counting a netid is within the list; that
connections alive have different sockets (`OwnSocks`); that a poll, its copied sets
included, watches sockets of its own handlers only (`Watched`), which is what makes a
socket that comes back harmless; and that close requests still waiting name a
handler of their poll, while those being carried out name one or nobody (`Closing`): the
swap of the request vector under the lock is what this rests on.

A second invariant on top of it, `TInv`, gives `EventsInOrder` and `NoCrossTalk`. It speaks of
the main thread's work in the order in which it will be told (`pending`): a disconnect is the last
event of its connection and only one, a connection whose handler is deleted has its
disconnect there or has been told (`DeletedTold`), one whose handler lives has none;
and of two connections with the same netid the later one's events lie behind the disconnect of
the earlier one (`EventsApart`, `SpeakersApart`), because the netid is free only after
`onClose` has pushed that disconnect. Both properties are stated by positions in that
sequence, so that appending an event and taking the first move them by known amounts.

`Lifecycle_proofs` proves all safety properties of `Lifecycle` for any set of modules,
any order of `addModel` and any relations, cyclic ones included. The inductive invariant
`IInv` says of the queue that init or start fills that it holds exactly the modules
whose state says so, that no module still in the loop has come so far or failed
(otherwise it could enter twice, or one that others gave up as failed could still come
after them), and that what each member waited for came before it or has failed.
`StopsInOrder` describes the queue of stop as what is left of the reversed start queue;
`DependentsStopFirst` assumes that no stop function answers Pending, since `loop` passes
over a module that does. `ReleasedOrLeft` is the same for release.

`Clock_proofs` proves all of the safety of `Clock`, for every range of the tick time and every
size and number of the wheels. For `TickFollowsTime` the invariant `TimeIInv` adds that the clock thread is less than half the range
behind, which is what the bound `MaxLag` of the model says; then the cast to `int` in
`work()` leaves the difference of two tick times as it is.

For the wheels the invariant is `InPlace`: whenever nobody holds `m_lock`, each slot lists
exactly those timers still to come that `Timer::add` would put into it now, those of one tick
oldest first, and none is overdue. That is stronger than what is asked of the wheel, and it is
inductive because of how blocks of ticks nest (`Same`, `CoarserBlocks`): a tick begins new
blocks on the levels whose wheels come round (`Round`, `NewTick`) and leaves the others, and
the place of a timer changes only if it is in the slot that `shift` moves (`NoRound`,
`AllRound`, `SomeRound`). `MoveHolds` takes the loop of `move` timer by timer, and `TurnAll`
shows that when all wheels come round only the last one's slot 0 has any timers, so that
the other three moves of that loop do nothing. The slot that `push` empties is that
of the present tick and of no other (`NearIsNow`), and its timers are those that
`TimerList` takes out, in its order (`Refinement`). `Unit`, `Move` and the moves of `Turn` are
recursive functions; that each has a solution is `Recursion`, by induction over the numbers.

Of `IdList`, `Containers_proofs` proves `BoundsExact`, `FreeWaitsOnce` and that it implements `IdMap`,
for any number of indices. The three parts of the invariant need each other: the bounds are
moved to the next index in use, which is there because they were exact, and an index
taken from the queue is free because it waits there once. `WalkMeetsAll` follows from the exact
bounds: that the walk from any index meets what is in use from there on is shown from
`m_end` downwards, by a smallest index for which it would fail.

`Log_proofs` proves `TargetFree`, `FileIsOpen`, `NothingVanishes`, `LinesInOrder` and
`RemovesOnlyTheSurplus` for both modes, any sizes and any number of restarts. The invariant
says where `refile` stands among the files (`Places`), that a FILE_REOPEN log has none beyond
`LOG_FILE_SUM`, and that, until a process ends within `refile`, the
numbers have no gap and `m_count` knows how many there are. `LinesInOrder` needs none
of the latter: renaming upwards into a free place never changes the order.

The refinement of `Journal` (`Refinement`) puts the files together, from the highest
number down, by a recursive function. That it exists and what each call of the file system
does to it is shown by induction over the numbers: a rename leaves the chain as it is
because the places between are empty, a write adds at its end, a removal of the highest file
takes its beginning. Which file is removed follows from the invariant above. The
attempt failed at first, because the abstract log then allowed only the oldest lines to be
removed: see above.

`Stream_proofs` is about buffers and networks of any size, messages of any lengths, and every way
of `send` and `recv` to cut the bytes. It has three invariants, each resting on those before it.

- `TypeInv` needs nothing of the surroundings. A byte in any buffer is one that was sent in
  a message that fits a buffer, and `Reading` says how `read`, `m_message.read`, the
  length and the data go together between two steps of `onCanRead`. It includes what happens
  without `"header"`: `read` may become -1, only where the data begin, and the next step then
  calls `memcpy` with a negative length. Hence `TypeOK`, with `read` never below -1.
- `ChainInv` holds if `"header"` is kept. The bytes between `send` and the messages
  told follow one another: the first begins the message after the last one told, each is followed
  by the next of its message or the first of the next message, and, unless the connection broke,
  the last ends the last message sent (`Follows`). Therefore the byte that `onCanRead`
  takes for the first of a length is one, and what it calls the size is that of the message it
  is at; no chunk ends with the first half of a length behind other bytes, and so `ret`
  and `read` say the same wherever the code takes the one for the other. Hence `UsesWhatItGot`,
  and `TellsWhatWasSent`: message k as it is told has the data of message k as it was sent,
  also when the connection breaks or the push buffer was overrun. That is not among the runs'
  properties, being what `BytesInOrder` says of the messages told.
- `EquationInv` is `BytesInOrder` with the bytes under way in one sequence. A step that only moves bytes
  changes neither side; `send` adds a frame at the end of both, a complete message
  goes from the front of one sequence to the end of another. `BytesInOrder` joins the
  frames by `FlattenSeq`, a recursive function; that it has a value and what it does to one
  more frame is `FlattenSteps` and `FlattenAppend`.

The hypothesis `"header" \in Keeps` is not one the code makes true: it is the condition under
which the code is right, and the run `header_cut` shows what happens without it. `"burst"` is no
hypothesis of these theorems; `BytesInOrder` itself says nothing of an overrun buffer.

`LoginLink_proofs` proves `LinkKept` for queues of any size and any number of connections and
failures, with `EndsAreTold`: every connection that is no longer up has been told or
will be, so that the end of a link is still to come when `onConnect` records it, or
has been overtaken. `OneLink` rests on a second invariant, `EInv`: of the five forms an
effort for a link may take (a request, a connect under way, a failed result, its being
told, a link whose end has not been told) there is at most one (`AtMostOne`), every
connection's end is told once (`EndsOnce`), and those taken for the gate's are the gate's
(`GateKinds`), unless `mistaken`.

Only model-checked: liveness (`EveryJobRuns`, `EveryElementPopped`, `ResetReported`,
`LastOutFires`, `StartupEnds`, `AppendedIsTold`, `EveryLineKept`, `LinkComesBack`), which is
out of TLAPS's reach. Every safety property that a passing run checks is proved.

## Not modelled

- Lua, LuaBridge and luatinker (`3rd`) with their samples and tests (`luatest`): third-party code,
  some 33 000 of the repository's 37 000 lines. What is modelled is the
  repository's own C++.
- `listen()` while the accept thread runs, and `FD_SET`/`FD_CLR` against the unlocked copy of a
  set: data races on a vector and a C array, of which any outcome could be
  chosen; a model would speak of the choice and not of the code. Both are listed as
  hazards.
- `Socket`, `Thread`, `OS`, `SysUtil`: one system call per function; what they answer is
  nondeterministic where it matters.
- `LuaModule`: runs a script at `init` and keeps no state that another part reads.
- Of `synclock.cpp` the locks nobody uses (`AtomSpinLock`, `FlagSpinLock`, `SyncCond`, `RWLock`,
  `AtomRWLock`); the others stand as atomic steps where they are used.
- The callbacks of the gate server and the login server that only log or pass
  data on.
