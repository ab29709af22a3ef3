# Moving Robots: specification and proofs

TLA+ models of the program in `src/movingRobots`, model-checked with TLC, with
theorems proved in TLAPS. Line numbers are those of the source files.

## 1. The program

Three source threads read the positions of three robots, perturb them and put
the readings into a bounded buffer. The processor thread takes readings,
collects one per source for each robot, and moves the robot one step towards
the mean. The GUI thread starts and stops the others, moves robots by keyboard,
takes readings by hand, toggles the workers and shows positions and buffer
size.

| Component | State | Operations | Shared with |
| --- | --- | --- | --- |
| `Buffer` | `freeSlots_`, `usedSlots_`, `mutex_`, `data_` | `put`, `tryPut`, `take`, `tryTake`, `getSize`, `toString` | source threads (put), processor thread (take), GUI thread (take, look) |
| `Processor` | matrix of robots by sources | `insertAndProcess` (`tryComputeMean`, `resetRow`), `toString` | processor and GUI threads, one mutex |
| `Robot` | `position_` | `getPosition`, `posX`, `posY`, `setPosition`, `clampedSetPosition`, signal `positionChanged` | all threads, one mutex each |
| `Source` | a random generator | `produce`, `saturate` | its own thread only |
| `ThreadConfig` | `running`, enable flags, delays (atomics) | loads and stores | GUI thread writes, workers read |
| `BackendController` | all of the above, threads, `lastBufferSize_`, `selectedRobot_` | constructor, destructor, setters, `manualRemove`, `moveSelectedRobot`, `printState`, poll timer, `sourceWorker`, `processorWorker` | |
| QML | values on the screen | bindings, switches, sliders, buttons, arrow keys | GUI thread; reads robots and buffer |

What makes it hard, and which properties answer it:

- *Two locks for one deque.* A semaphore token entitles a thread to a reading,
  the mutex lets it take one, and two threads consume (`SlotAccounting`,
  `DequeAccessSafe`, `Linearizable`). A token that is lost on one path leaves
  somebody waiting beside what it waits for (`WaitsOnlyWithReason`).
- *A call is many steps.* The controller is written as if `tryPut` and `tryTake`
  happened at once (`ImplementsBackend`).
- *Timeouts and retries.* Every worker wait is timed, a source retries the same
  reading, and a failed try is no reason to stop (`TryReturns`, `RoundRobin`,
  `ImplementsLifecycle`).
- *A reading changes hands* between three kinds of threads and the buffer
  (`ImplementsPipeline`).
- *Shutdown.* The destructor joins threads that may be waiting for room or for
  readings that nobody will provide, or sleeping (`NoUseAfterDestroy`,
  `DestroyedAtRest`, `ShutdownCompletes`, `ShutdownAdvances`, `ClosingEnds`,
  `ShutdownBounded`, `ProcessorWakesInTime`).
- *Loops that wait for nobody* (`TimePasses`, `SpinsBounded`).
- *Stale flags and readings.* Flags are read once per iteration; readings are
  used long after the position they were made from has changed
  (`StaleForOneIteration`, `PipelineNeverJumps`, `ApproachesMean`).
- *Two consumers that overtake each other* insert the readings of a source out of
  order, and a mean mixes old and new ones (`NoSourceLeadsAlone`).
- *Read, then write.* Moves from several threads (`PipelineNeverJumps`,
  `KeyMovesOneCell`).
- *Rounding and wrap-around* (`NearestCell`, `NoDrift`, `MajorityMoves`,
  `OnGrid`).
- *Signals after the lock; values read twice* (`StaleMeansNotified`,
  `ViewCatchesUp`, `PollRepairs`, `ScreenCatchesUp`).

`PROJECT.json` lists each hazard at its line.

## 2. The modules

    Lifecycle   Pipeline <--implements-- Motion    (what the controller promises)
        ^          ^
        |          | implements
        +------ Backend --uses--> BoundedFifo <--implements-- Buffer
                   ^                                             |
                   +--implements-- System --extends--------------+

    Processor, Motion --extend--> Grid (arithmetic)
    Timing (worker loops with a clock)      Screen (how state reaches the screen)

A module `...Proofs` extends the module it is about; `MotionProofs` and
`ProcessorProofs` use the lemmas of `GridProofs`, `SystemProofs` those of
`BufferProofs`.

**BoundedFifo** is what `buffer.h` promises: a queue on which each call takes
effect at one instant between call and return. A timed operation may fail only
if every reading (or place) is spoken for by an unfinished call of another
thread; with no other call in progress the answer is exact. It states no
liveness.

**Buffer** is `buffer.cpp`, one step per access to shared state: acquire, lock,
push or front/pop, unlock, release. `pc[t]` is the line a thread is at. A timed
`tryAcquire` fails only in a state without a token; how long it waited is not
modelled, so every choice of timeout is covered. `front()` on an empty deque is
undefined behaviour and yields any reading. `CONSTANT Uses` says which
operations each thread may call. `put`, `take` and `toString` have no or few
callers in the program and are modelled all the same.

**Backend** is `BackendController` with its threads: constructor, both worker
loops, `manualRemove`, the enable setters, destructor. Its buffer is
`BoundedFifo`, call and return apart, because `Buffer` is proved to implement
it. The actions named `Src...` are the lines 299-330, `Proc...`, `Take...`,
`Insert` and `Apply` are 343-373 and, for the GUI thread, 224-245. Each test of
a flag is a step of its own. A reading is its source and its robot. Sleeps
are no steps: a worker that sleeps is one that is not scheduled yet. `late`
counts what a worker does to the buffer after it was told to cease; `events`,
`Switches` and `LateBound` bound the user's actions, the switches toggled and
that counter. When the QML cannot be loaded `main` returns without an event loop
(`main.cpp:74`); this is the behaviour with a `Close` and nothing before it.

Each use of the buffer is the conjunction of what the controller does
(`PutCalled`, `Touches`, `PutReturned`, `TakeTimedOut`, ...) and what `BoundedFifo`
does (`Invoke`, `Enqueue`, `Return`, `Fail`, ...).

**System** is the program with its real buffer: it extends `Buffer` and joins the
same controller parts with the steps of `buffer.cpp`. `PutCalled` goes with a
`Call`, `Touches` with `PushBack` or `PopFront`, `PutReturned` and `TakeReturned` with
the release, `PutTimedOut` and `TakeTimedOut` with a timeout; acquire, lock, front
and unlock are steps of their own in which the controller does nothing. `place` is
where a thread is in the controller, `pc` where it is in the buffer. The
refinement of `Backend` maps `place` to its `pc`, the deque to the queue, and what
thread `t` has done in the buffer to `Stage` and `Result`. The inspection by the
poll timer is not in `Backend` and is left to `Buffer` and `Screen`.

**Lifecycle** and **Pipeline** are the two views of `Backend` a reader should know
first. `Lifecycle`: workers are started one after the other, none returns before
the destructor has begun, and the members are destroyed when none is left.
`Pipeline`: a reading is in flight from `produce()` until one consumer inserts
it, only the shutdown drops one, and a complete row moves its robot once. The
refinement mappings are at the end of `Backend`: a worker is alive between launch
and return; a reading is in flight if the buffer holds it or a thread has it in
its hands (`InHand`), which for a put that has taken effect and a take that has
not is not the local variable but the buffer.

**Timing** is the same worker loops with durations. A worker waits in one of
five places (`pc`), `wait` is what is left of the wait, and the clock ticks only
when every worker waits; what the code does between two waits is one step here
and every interleaving of it is in `Backend`. So the bounds it gives are those of
the waits, without scheduling latency. Delays are read at the end of an
iteration, as in the code, and changed by `SetDelay`, the sliders' setters.

**Grid** holds the arithmetic of positions, each operator one function of the
source: `Reading` (`Source::produce`), `Fuse` (`tryComputeMean`),
`ClampedStep` (`clampedSetPosition`), `Wrapped` (`moveSelectedRobot`).
`std::round` is half up for the non-negative sums that occur; `Remainder` is
C++'s `%`. `GRID_STEP`, `POSITION_DELTA` and `KEY_MOVEMENT` are equal in the
code and one constant here. No value comes near the range of `int`.

**Processor** is `insertAndProcess` on the row of one robot with real pixels
(`Backend` has the whole matrix without pixels). Any reading of the room may
arrive, in any order.

**Motion** is one robot moved by everybody who moves robots. A reading is in
flight from `produce()` until a consumer inserts it; consumers may insert in any
order, which covers the FIFO buffer and two consumers that overtake each other.
The GUI thread does one thing at a time. `reach` is a history variable: no guard
reads it, and it remembers how far right each source has read the robot, so that
`NoSourceLeadsAlone` can say that a robot is never where only one source has read
it: with two sources right, the third cannot mislead it however readings are
delayed and mixed. Left, and the other axis, are the same by the symmetry of
`Fuse` and `ClampedStep` (`NoDrift`). Seen without coordinates its readings go
the way of `Pipeline`, the same specification that `Backend`, which has no
coordinates, implements: this is what the two models have in common.

**Screen** is the event loop beside the workers, with one robot and one binding
of each kind. A position reaches the screen by a signal, posted if a worker moved
the robot and direct if the GUI thread did; the buffer's size by the polling
timer and by `manualRemove`; the selection by a signal. On a signal (`Emit`) the
QML bindings read their values again one after the other (`Evaluate`) while
workers go on; the GUI thread turns to the next event when it has done with one
(`Idle`). `settled` is the state in which the user has switched all workers off
and they have noticed. Moves between any two of a few positions stand for all
moves; which are possible is the matter of `Motion`.

Definitions named `..._Slip` (and `Insert_Keep`, `Snap_Up`) are not part of any
model. Each is one definition with a plausible mistake; put in the place of the
original it makes a named property fail (`PROJECT.json`, "mutants").

## 3. The runs

| Run | Bounds | Shows |
| --- | --- | --- |
| `buffer` | 4 threads, 2 places, 2 readings | types, accounting, safe deque access, no lost wakeup, refinement of `BoundedFifo`, timed operations return |
| `backend` | 2 robots and sources, 1 place, 2 user events | types, safe destruction, staleness, order of a source's readings, refinement of `Lifecycle`, every step after the signal leads on to the end |
| `backend_live` | same, 1 user event, switch of the processor | closing the window ends the program; every robot is moved again and again; no reading is lost or used twice: refinement of `Pipeline` |
| `backend_drain` | 1 robot and source, 2 places, 3 user events | the buffer runs dry when the sources are off |
| `processor` | 5 x 4 cells of 20 pixels | nearest cell, no bias, majority |
| `system` | 2 robots and sources, 1 column, 1 place, 2 user events, switch of the processor | the controller on the real buffer: refinement of `Backend`, it ends, its buffer is destroyed at rest |
| `motion` | 3 x 1 cells, 2 readings in flight | always on the grid, never jumps, comes nearer to each mean, never led by one source alone, refinement of `Pipeline` |
| `screen` | 2 x 2 positions, 2 places, 2 posted events, 2 robots | the screen is never silently stale, keys follow the ring |
| `timing` | 2 sources, 2 robots, 1 place, 2 user events | the destructor's bound, no worker spins or keeps the clock from ticking |
| `motion_keys`, `screen_stale`, `timing_late` | `motion_keys`: 4 x 1 cells, 1 reading in flight; the others as above | disagreements, see section 5 |

Why the bounds are enough. `buffer`: two consumers, a timed and a blocking
producer and an inspector meet at a full and at an empty buffer, and every
pair of them can be in any two lines; what holds for more threads and places
is proved. `backend`: one place makes the buffer full and empty within two
operations, so that timeouts, retries and the manual removal meet; two robots
give cycles of more than one reading and two sources an order of joins; two
events disable and enable a worker again, or disable it and remove by hand.
`backend_live` allows one event because each multiplies the graph: one is enough
for a shutdown with a disabled processor and a full buffer, and for a second
consumer beside the processor, the manual removal; more switches move no reading.
`system`: two sources, two consumers and one place let every step of the buffer
come between any two of another thread's; one column keeps the matrix small and
makes the second source's readings invalid, the path of `insertAndProcess` that the
other runs do not take. `backend_drain` needs to switch a source off and other things
around it, hence three events and a smaller instance. `processor`: 5 and 4 cells
are the odd and even number of cells that rounding could tell apart, and 20
pixels are the real step. `motion`: every quantity in it is computed per axis;
three cells separate "one step", "two steps" and "over the edge", two readings in
flight, beside two in the row and two means about to be applied, let a consumer insert
the newer of a source's readings first and the older one replace it (for any room and
any number there is the proof). `screen`: two positions per axis let a
binding mix two moves; sizes 0 to 2 let the size leave and come back while the
bindings are evaluated; `MaxPosted` only delays a worker's announcement. `timing`:
the unit of time is about 33 ms: timeout 3, jitter at most 2, nap 1 and delays of
1, 2 and 5, so that a delay may be shorter or longer than a timeout, as in the
code (10 to 1000 ms beside 100 ms). Two events let the user move a slider and
disable the processor. The bound is reached in this instance, so it
cannot be improved.

Deadlock is checked in every run: `buffer`, `motion` and `screen` never stop, and
in `backend`, `system` and `timing` the one state in which nothing is left to do is the end
of `main`, where `Exited` loops; any other would be reported.

### Fairness

- *Threads run.* `WF` for each source, the processor and the GUI thread's own
  steps: the operating system schedules them, and sleeps and timeouts are
  finite. No fairness for the user, for the start of an operation, or (in
  `backend`) for the success of a put.
- *The buffer's mutex.* `SF` on `Lock` (`buffer`) and `Obtain` (`system`): `std::mutex` promises no order, but its
  critical sections are a few instructions and its holder is never blocked.
- *No starvation.* `EveryRobotServed` assumes that the buffer does not refuse
  one source for ever (`NobodyRefused`). `QSemaphore` does not promise it.
  `ShutdownCompletes` and `Drains` do not need it.
- *The event loop runs* (`screen`): `WF` for the bindings it has begun to evaluate
  and for a worker that has written a position and goes on to announce it; `SF`
  for the delivery of posted events and for the poll timer, because events are
  taken in the order of the queue and other events, of which the user may
  produce as many as they like, cannot keep them out for ever.
- *Time passes* (`timing`): `WF` for the clock, the workers' steps and the last
  join. `TimePasses` then says that the clock is never kept from ticking by
  workers that go on for ever.

## 4. The proofs

All proofs are for any values of the constants that satisfy the named
assumptions:

- `BufferAssumption`: finitely many threads, a positive capacity;
- `BackendAssumption`: positive numbers of robots, sources and places, distinct
  thread names, "no reading" not a reading or a robot;
- `SystemAssumption`: the threads, readings and calls of `Buffer` are those of
  `Backend`;
- `GridAssumption`: a room of whole cells;
- `MotionAssumption`: the processor is not the GUI thread, "none" is not a place;
- `TimingAssumption`: delays are at most `MaxDelay`, jitter and nap no longer
  than the timeout (up to 80 ms and 50 ms beside 100 ms in the code);
- `ScreenAssumption`: at least one robot, the shown one among them.

TLC evaluates the assumptions in the runs. Each module names its inductive
invariant; where the property a run checks is not inductive, this is why.

**BufferProofs.** The inductive invariant is `Types /\ Control /\ SlotAccounting
/\ PopHead`. `SlotAccounting` is not inductive alone: a release is balanced only
if the thread was counted among the holders, and a push or pop moves exactly one
thread from one set to another only if the mutex keeps others out. `Control`
says so (who is in the critical section holds the mutex; which operation a line
belongs to), and `PopHead` says that what a take has read is still the head when
it pops. The lemmas on cardinalities do the counting, one lemma per action the
rest. From the invariant: `Accounting`, `TypeCorrect`, `AccessSafe` (a consumer in
the critical section is in `HoldingItem`, so the deque is not empty), `NoLostWakeup`
(if no token is left but there is room, some thread is in `HoldingPlace`; where it
is, either it can go on or the holder of the mutex can) and `Refinement`, one lemma
for each kind of step (`FifoSilent`, `FifoInvoke`, `FifoEnqueue`, ...): acquire, lock and front are stutters; the push, the pop and the
read are the instants at which the abstract operation takes effect; the release
(for an inspection, the unlock) is its return; a timeout is a `Fail`, whose
condition follows from the accounting.

**BackendProofs.** The inductive invariant is `Types /\ Hands /\ JoinOrder /\
Ceasing`. `Hands` says what a thread holds at each place of the code, `JoinOrder`
that the destructor joins in order and alone clears `running`, and `Ceasing` is
the allowance argument behind `StaleForOneIteration`: what a worker has done
since it was told to cease plus what its place in the code still allows it
never exceeds the bound. Frame lemmas (`SourceFrame`, `ConsumerFrame`) say that no
thread spends another's allowance. From it: `Destruction`
(`NoUseAfterDestroy`), `Ceases` (`StaleForOneIteration`), `TypeCorrect` (with the
bound on the buffer as a second, smaller induction) and `Lives`, the refinement
of `Lifecycle`: `PlaceSteps` says how a step can change where the threads are,
and with the orders of launch and of joins each change is a start, a return or
the destruction. `ShutdownIsFinite` (`ShutdownAdvances`) is the half of
`ShutdownCompletes` that needs no fairness: `StepsLeft` ranks the places of a worker,
and after the signal each of its steps goes down in rank (`SourceAdvances`,
`ProcessorAdvances`), so that it has at most seven left; that a worker which has a
step left takes it is fairness, and TLC's.

The last part is about what a reading goes through in `Backend`. Its invariant adds
`Carried`: what a source has in its hands is the reading
of its loop counter. For `InCycleOrder` (`RoundRobin`) two more parts are needed:
`InTurn`, the order of what the buffer holds, and `NewestIsDue`, that the newest
reading of a source in the buffer is the one before that which is `Due`; an append
needs the second to keep the first. `NothingLost` (`ImplementsPipeline`) counts the
copies of a reading, in the buffer (`Places`) and in hands (`Bearers`): an enqueue and
a take move one between the two counts, any other step changes the hands of one
thread only. It assumes that every source has its column in the matrix (`NUM_SOURCES`
is `NUM_ROBOTS`, as in `constants.h`); a reading of any other is thrown away by
`insertAndProcess`.

**TimingProofs.** `Bounded` is `ShutdownBounded`. The time since the signal is
bounded only because of what each worker can still wait: the invariant `Deadline`
says that the elapsed time, what is left of the worker's wait and the delay that
may follow it fit into one timeout and one delay. That a source does not get
room late and then go on to its jitter and its delay is `NoRoom`: once the clock
has ticked after the signal, a source that waits for room waits at a full buffer
and no take is in progress. Lemma `NewWait` is the step common to all actions in
which a worker begins to wait. `StepsAreBudgeted` (`SpinsBounded`) does for spinning
what `ShutdownIsFinite` does for the shutdown: `Budget` is what a worker may still do
before the clock ticks, each of its steps spends some of it (`OneSpends`) and no
step of another thread gives any back (`OthersHold`).

**SystemProofs.** `UsesBuffer`: every step of the program is one that `Buffer` allows,
so that what is proved of `Buffer` holds in the program. That takes the invariant
`SInv`: a source that calls `tryPut` holds a reading (`HasReading`, hence `Typed`), a
thread in the buffer is at one of the controller's two calls (`Inside`), and the joins
are in order (`Joined`). Buffer's invariant and `SInv` are proved together, each step
needing both. `Implements` (`ImplementsBackend`) then takes each step to the conjunction of
the controller's part, which is the same formula in both modules, and the step of
`BoundedFifo` that `BufferProofs` has for it. With it the theorems of `BackendProofs` hold
of the program with its semaphores and its mutex. `AtRest` (`DestroyedAtRest`) puts the
two together: all workers joined, hence nobody inside the buffer, hence nobody who
holds a place or a reading.

**GridProofs** are lemmas only: they pass from a cell's pixel to its number
(`NumberOf`), because the provers know little of `%` by a variable. `ClampedStep`,
`Reading` and `Wrapped` stay in the room, the first two within one step;
`SnapToCell` and `SnapVotes` give the number `q` of the cell of a mean: if the three
readings add up to `j` cells then `j` is `3q - 1`, `3q` or `3q + 1`.

**MotionProofs.** `OnGrid` speaks of everything on the way to the robot and is
inductive itself (`StaysOnGrid`). `NeverJumps` follows, a step from a cell towards a
cell being at most one cell long; so does `Approaches` (`ApproachesMean`), because the
mean is in the room and the clamp to the room cannot hold the step up
(`StepAxisNears`). `LedByTwo` (`NoSourceLeadsAlone`) needs more than where the robot is
(`LedInv`): a reading on its way or in the row is no further right than its source has
reached (`ReadingsReached`); a mean about to be applied is backed by two sources
(`MeansBacked`); and no source is more than one step ahead of what two have reached
(`OneStepAhead`). Lemma `MeanBacked` is the heart of it: of three readings two reach their
mean, unless one is ahead of it, and then two have reached the column behind that one.
A key press is the user's doing and moves every `reach` along. `WayOfReadings` (`ImplementsPipeline`) counts a source's readings in flight by
the length of their sequence, where `NothingLost` has to count them in the buffer
and in hands.

**ProcessorProofs.** The invariant is `Rows /\ Cycle`: no row is complete between
calls, and a mean is that of the three readings of its own cycle. `TypeCorrect`
follows directly; `Nearest`, `Unbiased` and `Majority` by the number of the cell.
These three, and `LedByTwo`, need a grid step of more than one pixel, and say so: with one pixel the mean is truncated before it is rounded, and readings 0, 1, 1
have the mean 0.

**ScreenProofs.** The invariant is `TypeOK /\ StaleMeansNotified /\ RingFollows`.
`StaleMeansNotified` (`Notified`) needs no help; `KeysFollow` needs `RingFollows`, that
the ring is right or about to be drawn, and that a key is an event of its own.

Only model-checked: the liveness properties (`TryReturns`, `ShutdownCompletes`,
`ClosingEnds`, `Drains`, `EveryRobotServed`, `ViewCatchesUp`, `PollRepairs`, `TimePasses`),
because the prover has no `ENABLED`; of two of them the part without fairness is proved,
as said above. Every invariant and action property that a passing run checks, and every
refinement, is proved.

## 5. Where the code and its comments disagree

- `motion_keys`: `backendcontroller.cpp:257` says a key moves the robot "to an
  adjacent cell". `getPosition` (263) and `setPosition` (274) lock separately;
  a worker's move in between makes it two cells, and is undone.
- `screen_stale`: `backendcontroller.h:102` calls `bufferSize` the current
  number of items. The timer compares with the size *it* read; the bindings read
  again later, and `manualRemove` does not update `lastBufferSize_`. If the size
  returns to `lastBufferSize_` in between and the workers then rest, the screen
  stays wrong. `PollRepairs` is what does hold.
- `timing_late`: `backendcontroller.cpp:347` says that the processor "wakes up
  within 100 ms of a shutdown request". Its `tryTake` does; but it then sleeps
  for its delay (371-372), up to 1000 ms, whatever `running` says.
  `ShutdownBounded` is what does hold.

Without a run, because it is one line against one line: `source.h:29` and `:47` say
that a reading differs in both axes; `source.cpp:46-51` changes one.

## 6. What is not modelled

- A `std::thread` that cannot be created (53-64) and allocation failure: the
  program has no handler for either and ends.
- `printState`, `toString` of `Processor` and `Vector2D` and other text output:
  they change no state. (`Buffer::toString` is modelled for the access it makes.)
- Layout, colours and animation, and the QML engine itself: `Screen` knows only
  when a binding reads a value again.
- The memory model: the shared state is accessed under mutexes or through
  sequentially consistent atomics, so steps interleave.
- Scheduling latency: in `Timing` the code between two waits takes no time.

## 7. Plan

Done, in order of importance to the system's behaviour: `BoundedFifo`, `Buffer`
and its proofs; `Backend` with `Lifecycle` and `Pipeline`; `System`; `Grid`, `Processor`,
`Motion`; `Timing`; `Screen`; the proofs of all of them.

Left: which order of a source's readings survives when two consumers overtake each
other between `tryTake` and `insertAndProcess`. Nothing in the code promises one; that
the mixture does no harm is `NoSourceLeadsAlone` and `PipelineNeverJumps`.
