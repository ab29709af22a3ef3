------------------------------ MODULE Backend ------------------------------
(***************************************************************************)
(* BackendController and its threads: one thread per source, one processor *)
(* thread, and the GUI thread that starts them, changes their             *)
(* configuration, removes readings by hand, and stops and joins them.      *)
(*                                                                         *)
(* Every use of the buffer is a use of BoundedFifo: a call, the instant at *)
(* which it takes effect or gives up, and its return.  What the controller *)
(* does beside is an action of its own, which module System joins with the *)
(* steps of the real buffer instead.                                       *)
(* Where the robots are is the matter of module Motion: a reading is its   *)
(* source and its robot.  Delays only take time: a sleep is no step.       *)
(***************************************************************************)
EXTENDS Integers, Sequences, FiniteSets

CONSTANTS
  NumRobots,    \* NUM_ROBOTS: robots, and source threads (backendcontroller.cpp:53)
  NumSources,   \* NUM_SOURCES: columns of the processor's matrix
  BufferSize,   \* BUFFER_SIZE
  UserEvents,   \* bound: switches toggled and readings removed by hand
  Switches,     \* bound: the workers whose switch the user toggles
  LateBound,    \* bound: how far "late" counts
  processor,    \* the processor thread
  gui,          \* the GUI thread
  NoItem        \* "no reading"

Robots == 0..(NumRobots - 1)
Sources == 0..(NumRobots - 1)
Columns == 0..(NumSources - 1)
Workers == Sources \cup {processor}
AllThreads == Workers \cup {gui}
Consumers == {processor, gui}
Readings == [source : Sources, robot : Robots]

ASSUME BackendAssumption ==
  /\ NumRobots \in Nat \ {0} /\ NumSources \in Nat \ {0}
  /\ BufferSize \in Nat \ {0} /\ UserEvents \in Nat /\ LateBound \in Nat
  /\ processor \notin Sources /\ gui \notin Workers
  /\ NoItem \notin Readings /\ NoItem \notin Robots

VARIABLES
  queue, stage, op, item, seen,   \* of the buffer, see BoundedFifo
  pc,        \* pc[t]: where thread t is
  index,     \* index[s]: robotIndex, the loop counter of source s
  held,      \* held[t]: the local variable "position" of thread t
  matrix,    \* matrix[r]: the sources whose cell in row r is filled
  enabled,   \* enabled[w]: sourceEnabled[s] and processorEnabled
  running,   \* config_.running
  events,    \* bound on what the user does
  late       \* late[w]: readings w has put or taken since it was told to cease

Fifo == INSTANCE BoundedFifo WITH
  Threads <- AllThreads, Values <- Readings, MaxSize <- BufferSize

buffer == <<queue, stage, op, item, seen>>
local == <<pc, index, held>>
config == <<enabled, running, events>>
vars == <<buffer, local, matrix, config, late>>

ControllerInit ==
  /\ pc = [t \in AllThreads |-> IF t = gui THEN "launch" ELSE "unborn"]
  /\ index = [s \in Sources |-> 0]
  /\ held = [t \in AllThreads |-> NoItem]
  /\ matrix = [r \in Robots |-> {}]
  /\ enabled = [w \in Workers |-> TRUE]
  /\ running = TRUE
  /\ events = 0
  /\ late = [w \in Workers |-> 0]

Init == Fifo!Init /\ ControllerInit

From(t, label) == pc[t] = label
Goto(t, label) == pc' = [pc EXCEPT ![t] = label]
Hold(t, v) == held' = [held EXCEPT ![t] = v]

\* Where a consumer is when it has done with a reading.
Home(t) == IF t = gui THEN "events" ELSE "loop"

\* Counts an effect on the buffer of a worker that was told to cease.
CountLate(t) ==
  late' = IF t \in Workers /\ (~running \/ ~enabled[t]) /\ late[t] < LateBound
            THEN [late EXCEPT ![t] = @ + 1] ELSE late

-----------------------------------------------------------------------------
(***************************************************************************)
(* sourceWorker                                                            *)
(***************************************************************************)
SrcLoop(s) ==
  /\ From(s, "loop")
  /\ Goto(s, IF running THEN "gate" ELSE "stopped")
  /\ UNCHANGED <<buffer, index, held, matrix, config, late>>

SrcGate(s) ==
  /\ From(s, "gate")
  /\ Goto(s, IF enabled[s] THEN "robot" ELSE "loop")
  /\ index' = [index EXCEPT ![s] = 0]
  /\ UNCHANGED <<buffer, held, matrix, config, late>>

\* produce() tags the reading with the source and the robot.
SrcRobot(s) ==
  /\ From(s, "robot")
  /\ IF running
       THEN Goto(s, "put") /\ Hold(s, [source |-> s, robot |-> index[s]])
       ELSE Goto(s, "stopped") /\ UNCHANGED held
  /\ UNCHANGED <<buffer, index, matrix, config, late>>

PutCalled(s) ==
  /\ From(s, "put")
  /\ Goto(s, "putting")
  /\ UNCHANGED <<index, held, matrix, config, late>>

SrcPut(s) == PutCalled(s) /\ Fifo!Invoke(s, "tryPut", held[s])

\* The call takes effect.
Touches(t, label) ==
  /\ From(t, label)
  /\ CountLate(t)
  /\ UNCHANGED <<local, matrix, config>>

SrcEnqueue(s) == Touches(s, "putting") /\ Fifo!Enqueue(s)

PutReturned(s) ==
  /\ From(s, "putting")
  /\ index' = [index EXCEPT ![s] = @ + 1]
  /\ Goto(s, IF index'[s] < NumRobots THEN "robot" ELSE "loop")
  /\ Hold(s, NoItem)
  /\ UNCHANGED <<matrix, config, late>>

SrcPutDone(s) == PutReturned(s) /\ Fifo!Return(s)

SrcPutFail_Slip(s) ==   \* drops the reading and goes on with the next robot
  /\ From(s, "putting")
  /\ Fifo!Fail(s)
  /\ index' = [index EXCEPT ![s] = @ + 1]
  /\ Goto(s, IF index'[s] < NumRobots THEN "robot" ELSE "loop")
  /\ Hold(s, NoItem)
  /\ UNCHANGED <<matrix, config, late>>

PutTimedOut(s) ==
  /\ From(s, "putting")
  /\ Goto(s, "retry")
  /\ UNCHANGED <<index, held, matrix, config, late>>

SrcPutFail(s) == PutTimedOut(s) /\ Fifo!Fail(s)

SrcRetry_Slip(s) ==   \* while (!tryPut(...)) {}
  /\ From(s, "retry")
  /\ Goto(s, "put")
  /\ UNCHANGED <<buffer, index, held, matrix, config, late>>

SrcRetry(s) ==
  /\ From(s, "retry")
  /\ Goto(s, IF running THEN "put" ELSE "stopped")
  /\ UNCHANGED <<buffer, index, held, matrix, config, late>>

SrcStep(s) ==
  \/ SrcLoop(s) \/ SrcGate(s) \/ SrcRobot(s) \/ SrcPut(s)
  \/ SrcPutDone(s) \/ SrcPutFail(s) \/ SrcRetry(s)

-----------------------------------------------------------------------------
(***************************************************************************)
(* A consumer, the processor thread or the GUI thread in manualRemove:     *)
(* tryTake, insertAndProcess, clampedSetPosition.                          *)
(***************************************************************************)
TakeItem(t) == Touches(t, "taking") /\ Fifo!Dequeue(t)

TakeReturned(t) ==
  /\ From(t, "taking")
  /\ Hold(t, item[t])
  /\ Goto(t, "insert")
  /\ UNCHANGED <<index, matrix, config, late>>

TakeDone(t) == TakeReturned(t) /\ Fifo!Return(t)

TakeFail_Slip(t) ==   \* returns instead of trying again
  /\ From(t, "taking")
  /\ Fifo!Fail(t)
  /\ Goto(t, IF t = gui THEN "events" ELSE "stopped")
  /\ UNCHANGED <<index, held, matrix, config, late>>

TakeTimedOut(t) ==
  /\ From(t, "taking")
  /\ Goto(t, Home(t))
  /\ UNCHANGED <<index, held, matrix, config, late>>

TakeFail(t) == TakeTimedOut(t) /\ Fifo!Fail(t)

Valid(v) == v.robot \in Robots /\ v.source \in Columns

\* Row r when the reading v has been stored in it.
RowWith(v) == matrix[v.robot] \cup {v.source}

Insert_Slip(t) ==   \* resets every row, not the one that is complete
  /\ From(t, "insert")
  /\ IF Valid(held[t]) /\ RowWith(held[t]) = Columns
       THEN /\ matrix' = [r \in Robots |-> {}]
            /\ Goto(t, "apply")
            /\ UNCHANGED held
       ELSE /\ matrix' = IF Valid(held[t])
                           THEN [matrix EXCEPT ![held[t].robot] = RowWith(held[t])]
                           ELSE matrix
            /\ Goto(t, Home(t))
            /\ Hold(t, NoItem)
  /\ UNCHANGED <<buffer, index, config, late>>

Insert_Keep(t) ==   \* forgets resetRow
  /\ From(t, "insert")
  /\ IF Valid(held[t])
       THEN /\ matrix' = [matrix EXCEPT ![held[t].robot] = RowWith(held[t])]
            /\ Goto(t, IF RowWith(held[t]) = Columns THEN "apply" ELSE Home(t))
       ELSE Goto(t, Home(t)) /\ UNCHANGED matrix
  /\ UNCHANGED <<buffer, index, held, config, late>>

Insert(t) ==
  /\ From(t, "insert")
  /\ IF Valid(held[t]) /\ RowWith(held[t]) = Columns
       THEN /\ matrix' = [matrix EXCEPT ![held[t].robot] = {}]
            /\ Goto(t, "apply")
            /\ UNCHANGED held
       ELSE /\ matrix' = IF Valid(held[t])
                           THEN [matrix EXCEPT ![held[t].robot] = RowWith(held[t])]
                           ELSE matrix
            /\ Goto(t, Home(t))
            /\ Hold(t, NoItem)
  /\ UNCHANGED <<buffer, index, config, late>>

\* The robot moves; see Motion.
Apply(t) ==
  /\ From(t, "apply")
  /\ Goto(t, Home(t))
  /\ Hold(t, NoItem)
  /\ UNCHANGED <<buffer, index, matrix, config, late>>

Consume(t) == TakeItem(t) \/ TakeDone(t) \/ TakeFail(t) \/ Insert(t) \/ Apply(t)

(***************************************************************************)
(* processorWorker                                                         *)
(***************************************************************************)
ProcLoop ==
  /\ From(processor, "loop")
  /\ Goto(processor, IF running THEN "gate" ELSE "stopped")
  /\ UNCHANGED <<buffer, index, held, matrix, config, late>>

ProcGate_Slip ==   \* does not look at processorEnabled
  /\ From(processor, "gate")
  /\ Fifo!Invoke(processor, "tryTake", NoItem)
  /\ Goto(processor, "taking")
  /\ UNCHANGED <<index, held, matrix, config, late>>

ProcCalls ==
  /\ From(processor, "gate") /\ enabled[processor]
  /\ Goto(processor, "taking")
  /\ UNCHANGED <<index, held, matrix, config, late>>

ProcSkips ==
  /\ From(processor, "gate") /\ ~enabled[processor]
  /\ Goto(processor, "loop")
  /\ UNCHANGED <<buffer, index, held, matrix, config, late>>

ProcGate ==
  (ProcCalls /\ Fifo!Invoke(processor, "tryTake", NoItem)) \/ ProcSkips

ProcStep == ProcLoop \/ ProcGate \/ Consume(processor)

-----------------------------------------------------------------------------
(***************************************************************************)
(* The GUI thread: the constructor starts the workers in order, the user   *)
(* acts, the destructor stops and joins them in order.                     *)
(***************************************************************************)
Before(w) == IF w = processor THEN Sources ELSE {s \in Sources : s < w}

Launch(w) ==
  /\ From(gui, "launch")
  /\ pc[w] = "unborn"
  /\ \A v \in Before(w) : pc[v] # "unborn"
  /\ pc' = [pc EXCEPT ![w] = "loop", ![gui] = IF w = processor THEN "events" ELSE @]
  /\ UNCHANGED <<buffer, index, held, matrix, config, late>>

UserActs ==
  /\ From(gui, "events")
  /\ events < UserEvents
  /\ events' = events + 1

\* setSource0Enabled and its siblings.
SetEnabled(w) ==
  /\ UserActs
  /\ w \in Switches
  /\ enabled' = [enabled EXCEPT ![w] = ~@]
  /\ late' = [late EXCEPT ![w] = 0]
  /\ UNCHANGED <<buffer, local, matrix, running>>

RemoveCalled ==
  /\ UserActs
  /\ Goto(gui, "taking")
  /\ UNCHANGED <<index, held, matrix, enabled, running, late>>

ManualRemove == RemoveCalled /\ Fifo!Invoke(gui, "tryTake", NoItem)

\* The event loop has ended: ~BackendController begins.
Close ==
  /\ From(gui, "events")
  /\ running' = FALSE
  /\ late' = [w \in Workers |-> 0]
  /\ Goto(gui, "join")
  /\ UNCHANGED <<buffer, index, held, matrix, enabled, events>>

Join(w) ==
  /\ From(gui, "join")
  /\ pc[w] = "stopped"
  /\ \A v \in Before(w) : pc[v] = "joined"
  /\ pc' = [pc EXCEPT ![w] = "joined"]
  /\ UNCHANGED <<buffer, index, held, matrix, config, late>>

Destroy_Slip ==   \* the processor thread is not joined
  /\ From(gui, "join")
  /\ \A s \in Sources : pc[s] = "joined"
  /\ Goto(gui, "gone")
  /\ UNCHANGED <<buffer, index, held, matrix, config, late>>

\* The destructor's body is over: buffer, matrix and robots are destroyed.
Destroy ==
  /\ From(gui, "join")
  /\ pc[processor] = "joined"
  /\ Goto(gui, "gone")
  /\ UNCHANGED <<buffer, index, held, matrix, config, late>>

\* main() has returned: the one state in which nothing is left to do.
Exited == From(gui, "gone") /\ UNCHANGED vars

GuiStep == (\E w \in Workers : Launch(w) \/ Join(w)) \/ Consume(gui) \/ Destroy

User == (\E w \in Workers : SetEnabled(w)) \/ ManualRemove \/ Close

Next ==
  \/ \E s \in Sources : SrcStep(s) \/ SrcEnqueue(s)
  \/ ProcStep
  \/ GuiStep
  \/ User
  \/ Exited

Spec == Init /\ [][Next]_vars

(***************************************************************************)
(* Every thread is scheduled; the user need not do anything.  A put that   *)
(* finds room now and then is not promised to succeed.                     *)
(***************************************************************************)
Fairness ==
  /\ \A s \in Sources : WF_vars(SrcStep(s) \/ SrcEnqueue(s))
  /\ WF_vars(ProcStep)
  /\ WF_vars(GuiStep)

FairSpec == Spec /\ Fairness

-----------------------------------------------------------------------------
Labels == {"unborn", "loop", "gate", "robot", "put", "putting", "retry", "taking",
           "insert", "apply", "stopped", "joined", "launch", "events", "join", "gone"}

(***************************************************************************)
(* Every variable has its type; rows of the matrix are never complete      *)
(* between two calls of insertAndProcess.                                  *)
(***************************************************************************)
TypeOK ==
  /\ queue \in Seq(Readings)
  /\ Len(queue) <= BufferSize
  /\ pc \in [AllThreads -> Labels]
  /\ index \in [Sources -> 0..NumRobots]
  /\ held \in [AllThreads -> Readings \cup {NoItem}]
  /\ matrix \in [Robots -> (SUBSET Columns) \ {Columns}]
  /\ enabled \in [Workers -> BOOLEAN]
  /\ running \in BOOLEAN
  /\ events \in 0..UserEvents
  /\ late \in [Workers -> 0..LateBound]

(***************************************************************************)
(* The buffer, the matrix and the robots outlive every thread that uses    *)
(* them, and no std::thread is destroyed unjoined (~BackendController).    *)
(***************************************************************************)
NoUseAfterDestroy ==
  pc[gui] = "gone" => \A w \in Workers : pc[w] = "joined" /\ stage[w] = "idle"

(***************************************************************************)
(* A stale switch is honoured within one iteration (backendcontroller.h:   *)
(* 51-53): a disabled source puts at most the rest of its cycle, a         *)
(* disabled processor takes at most one reading, and after the shutdown    *)
(* signal no worker touches the buffer more than once.                     *)
(***************************************************************************)
StaleForOneIteration ==
  \A w \in Workers :
    /\ ~enabled[w] => late[w] <= (IF w = processor THEN 1 ELSE NumRobots)
    /\ ~running => late[w] <= 1

(***************************************************************************)
(* No timeout, retry or switch loses, repeats or reorders a reading on its *)
(* way into the buffer: what the buffer holds of one source, with what the *)
(* source is about to add, goes round the robots without a gap.            *)
(***************************************************************************)
Pending(s) ==
  IF pc[s] \in {"put", "putting", "retry"} /\ stage[s] # "done" THEN <<held[s]>> ELSE <<>>

NextRobot(r) == IF r + 1 < NumRobots THEN r + 1 ELSE 0

RoundRobin ==
  \A s \in Sources :
    LET line == queue \o Pending(s)
        Mine(i) == line[i].source = s
    IN  \A i, j \in 1..Len(line) :
          i < j /\ Mine(i) /\ Mine(j) /\ (\A k \in (i + 1)..(j - 1) : ~Mine(k))
            => line[j].robot = NextRobot(line[i].robot)

(***************************************************************************)
(* The controller keeps its promise about its threads: seen without what   *)
(* they do it behaves as Lifecycle (backendcontroller.h:145-163).  No      *)
(* worker returns while the window is open, whatever its calls report.     *)
(***************************************************************************)
Phase ==
  CASE pc[gui] = "launch" -> "starting" [] pc[gui] = "join" -> "stopping"
    [] pc[gui] = "gone" -> "gone" [] OTHER -> "serving"

Born == {w \in Workers : pc[w] # "unborn"}
Alive == {w \in Workers : pc[w] \notin {"unborn", "stopped", "joined"}}

Life == INSTANCE Lifecycle WITH phase <- Phase, born <- Born, alive <- Alive

ImplementsLifecycle == Life!Spec

(***************************************************************************)
(* No reading is lost or used twice between produce() and the matrix: seen *)
(* without buffer and retries the threads behave as Pipeline, whether the  *)
(* processor or the user takes the reading (main.cpp:20-21).               *)
(***************************************************************************)
\* The reading in the hands of thread t, if it is not in the buffer.
InHand(t) ==
  IF pc[t] \in {"put", "retry", "insert"} \/ (pc[t] = "putting" /\ stage[t] # "done")
    THEN held[t]
    ELSE IF pc[t] = "taking" /\ stage[t] = "done" THEN item[t] ELSE NoItem

Copies(v) ==
  Cardinality({i \in DOMAIN queue : queue[i] = v}) + Cardinality({t \in AllThreads : InHand(t) = v})

Path == INSTANCE Pipeline WITH
  Nobody <- NoItem,
  open <- running,
  flight <- [v \in Readings |-> Copies(v)],
  target <- [t \in Consumers |-> IF pc[t] = "apply" THEN held[t].robot ELSE NoItem]

ImplementsPipeline == Path!Spec

(***************************************************************************)
(* Shutdown ends: once the window is closed every worker stops and is      *)
(* joined, whether the buffer is full, empty or its consumer disabled      *)
(* (buffer.h:40-43).                                                       *)
(***************************************************************************)
ShutdownCompletes == pc[gui] = "join" ~> pc[gui] = "gone"

(***************************************************************************)
(* What of ShutdownCompletes needs no fairness: after the signal a worker  *)
(* takes at most seven more steps, the cycle it is in, however full or     *)
(* empty the buffer and whatever the other threads do; no timeout, retry   *)
(* or switch sends it back (backendcontroller.cpp:299-315, 343-349).       *)
(***************************************************************************)
StepsLeft(w) ==
  CASE pc[w] \in {"unborn", "joined"} -> 0
    [] pc[w] = "stopped" -> 1
    [] pc[w] \in {"loop", "robot", "retry"} -> 2
    [] pc[w] = "apply" -> 3
    [] pc[w] = "gate" -> IF w = processor THEN 7 ELSE 3
    [] pc[w] = "insert" -> 4
    [] pc[w] = "put" -> 5
    [] pc[w] = "putting" -> IF stage[w] = "done" THEN 3 ELSE 4
    [] pc[w] = "taking" -> IF stage[w] = "done" THEN 5 ELSE 6

ShutdownAdvances ==
  [][~running => \A w \in Workers :
       UNCHANGED <<pc[w], stage[w]>> \/ StepsLeft(w)' < StepsLeft(w)]_vars

(***************************************************************************)
(* With the sources off for good and the processor on, the buffer runs dry.*)
(***************************************************************************)
Drains ==
  <>[](running /\ enabled[processor] /\ \A s \in Sources : ~enabled[s])
    => <>[](queue = <<>>)

(***************************************************************************)
(* With everything on for good, every robot is moved again and again: no   *)
(* row of the matrix waits for ever for a source.  QSemaphore promises no  *)
(* order among waiting threads, so it is assumed that the buffer does not  *)
(* refuse one source for ever.                                             *)
(***************************************************************************)
NobodyRefused == \A s \in Sources : []<>(pc[s] = "putting" /\ stage[s] = "done")

EveryRobotServed ==
  (NobodyRefused /\ <>[](running /\ \A w \in Workers : enabled[w]))
    => \A r \in Robots : []<>(\E t \in Consumers : pc[t] = "apply" /\ held[t].robot = r)
=============================================================================
