------------------------------- MODULE Timing -------------------------------
(***************************************************************************)
(* How long things take: the loops of sourceWorker and processorWorker     *)
(* with a clock.  A worker waits in tryPut or tryTake, in the jitter, in   *)
(* the nap of a disabled processor and in the configured delay; everything *)
(* else takes no time, so the clock ticks only when nobody can go on.      *)
(* Backend has every interleaving of the steps that are one step here.     *)
(***************************************************************************)
EXTENDS Integers

CONSTANTS
  Sources,      \* the source threads
  processor,    \* the processor thread
  NumRobots,    \* readings per cycle of a source
  BufferSize,
  Timeout,      \* of tryPut and tryTake: 100 ms
  Jitter,       \* SOURCE_JITTER_MS: 80 ms
  Nap,          \* of a disabled processor: 50 ms
  Delays,       \* what the sliders offer: 10 to 1000 ms
  MaxDelay,     \* the longest of them
  SourceDelay, ProcessorDelay,   \* the delays at the start: 100 and 20 ms
  UserEvents    \* bound: switches, sliders moved, readings removed by hand

Workers == Sources \cup {processor}

ASSUME TimingAssumption ==
  /\ processor \notin Sources
  /\ NumRobots \in Nat \ {0} /\ BufferSize \in Nat \ {0}
  /\ Timeout \in Nat \ {0} /\ Jitter \in Nat /\ Nap \in Nat /\ UserEvents \in Nat
  /\ MaxDelay \in Nat /\ Delays \subseteq 1..MaxDelay
  /\ SourceDelay \in Delays /\ ProcessorDelay \in Delays
  /\ Nap <= Timeout /\ Jitter <= Timeout

VARIABLES
  pc,        \* pc[w]: where w waits; the top of the loop is the end of "delay"
  wait,      \* wait[w]: how long at most
  index,     \* index[s]: robotIndex
  size,      \* readings in the buffer
  delay,     \* sourceDelay[s] and processorDelay
  enabled,   \* sourceEnabled[s] and processorEnabled
  running,   \* config_.running
  since,     \* time since the destructor began
  gone,      \* it has returned
  events

vars == <<pc, wait, index, size, delay, enabled, running, since, gone, events>>
config == <<delay, enabled, running, since, gone, events>>

Init ==
  /\ pc = [w \in Workers |-> "delay"]
  /\ wait = [w \in Workers |-> 0]
  /\ index = [s \in Sources |-> 0]
  /\ size = 0
  /\ delay = [w \in Workers |-> IF w = processor THEN ProcessorDelay ELSE SourceDelay]
  /\ enabled = [w \in Workers |-> TRUE]
  /\ running = TRUE /\ since = 0 /\ gone = FALSE /\ events = 0

WaitIn(w, place, time) ==
  pc' = [pc EXCEPT ![w] = place] /\ wait' = [wait EXCEPT ![w] = time]

Expired(w, place) == pc[w] = place /\ wait[w] = 0

Return(w) == WaitIn(w, "stopped", 0)

-----------------------------------------------------------------------------
(***************************************************************************)
(* sourceWorker                                                            *)
(***************************************************************************)
\* The test of running before the reading for robot i is made.
Robot_Slip(s, i) == index' = [index EXCEPT ![s] = i] /\ WaitIn(s, "put", Timeout)

Robot(s, i) ==
  /\ index' = [index EXCEPT ![s] = i]
  /\ IF running THEN WaitIn(s, "put", Timeout) ELSE Return(s)

SrcLoop_Slip(s) ==   \* a disabled source goes back to the top of the loop
  /\ Expired(s, "delay")
  /\ IF running /\ enabled[s] THEN Robot(s, 0)
       ELSE (IF running THEN WaitIn(s, "delay", 0) ELSE Return(s)) /\ UNCHANGED index
  /\ UNCHANGED <<size, config>>

SrcLoop(s) ==
  /\ Expired(s, "delay")
  /\ IF running /\ enabled[s] THEN Robot(s, 0)
       ELSE (IF running THEN WaitIn(s, "delay", delay[s]) ELSE Return(s)) /\ UNCHANGED index
  /\ UNCHANGED <<size, config>>

SrcPut(s) ==
  /\ pc[s] = "put" /\ size < BufferSize
  /\ size' = size + 1
  /\ \E j \in 0..Jitter : WaitIn(s, "jitter", j)
  /\ UNCHANGED <<index, config>>

\* tryPut timed out; sourceWorker tries again unless told to stop.
SrcRetry(s) ==
  /\ Expired(s, "put") /\ size = BufferSize
  /\ IF running THEN WaitIn(s, "put", Timeout) ELSE Return(s)
  /\ UNCHANGED <<index, size, config>>

SrcNext_Slip(s) ==   \* no delay between two cycles
  /\ Expired(s, "jitter")
  /\ IF index[s] + 1 < NumRobots THEN Robot(s, index[s] + 1)
       ELSE WaitIn(s, "delay", 0) /\ UNCHANGED index
  /\ UNCHANGED <<size, config>>

SrcNext(s) ==
  /\ Expired(s, "jitter")
  /\ IF index[s] + 1 < NumRobots THEN Robot(s, index[s] + 1)
       ELSE WaitIn(s, "delay", delay[s]) /\ UNCHANGED index
  /\ UNCHANGED <<size, config>>

SrcStep(s) == SrcLoop(s) \/ SrcPut(s) \/ SrcRetry(s) \/ SrcNext(s)

(***************************************************************************)
(* processorWorker                                                         *)
(***************************************************************************)
ProcLoop ==
  /\ Expired(processor, "delay")
  /\ IF ~running THEN Return(processor)
       ELSE IF enabled[processor] THEN WaitIn(processor, "take", Timeout)
       ELSE WaitIn(processor, "nap", Nap)
  /\ UNCHANGED <<index, size, config>>

ProcTake ==
  /\ pc[processor] = "take" /\ size > 0
  /\ size' = size - 1
  /\ WaitIn(processor, "delay", delay[processor])
  /\ UNCHANGED <<index, config>>

\* The buffer stayed empty, or the nap is over.
ProcNothing ==
  /\ Expired(processor, "nap") \/ (Expired(processor, "take") /\ size = 0)
  /\ WaitIn(processor, "delay", delay[processor])
  /\ UNCHANGED <<index, size, config>>

ProcStep == ProcLoop \/ ProcTake \/ ProcNothing

-----------------------------------------------------------------------------
(***************************************************************************)
(* The user and the destructor; what they call returns at once.            *)
(***************************************************************************)
UserActs ==
  /\ running /\ events < UserEvents
  /\ events' = events + 1
  /\ UNCHANGED <<pc, wait, index, running, since, gone>>

\* setSource0Delay and its siblings.
SetDelay(w, d) ==
  /\ UserActs
  /\ delay[w] # d
  /\ delay' = [delay EXCEPT ![w] = d]
  /\ UNCHANGED <<size, enabled>>

SetEnabled(w) ==
  /\ UserActs
  /\ enabled' = [enabled EXCEPT ![w] = ~@]
  /\ UNCHANGED <<size, delay>>

ManualRemove_Slip ==   \* ignores what tryTake returns
  UserActs /\ size' = size - 1 /\ UNCHANGED <<delay, enabled>>

ManualRemove == UserActs /\ size > 0 /\ size' = size - 1 /\ UNCHANGED <<delay, enabled>>

Close ==
  /\ running
  /\ running' = FALSE
  /\ UNCHANGED <<pc, wait, index, size, delay, enabled, since, gone, events>>

\* The last join returns.
Joined ==
  /\ ~running /\ ~gone
  /\ \A w \in Workers : pc[w] = "stopped"
  /\ gone' = TRUE
  /\ UNCHANGED <<pc, wait, index, size, delay, enabled, running, since, events>>

(***************************************************************************)
(* The clock.  A put that finds room and a take that finds a reading end   *)
(* at once, so they wait only while there is none.                         *)
(***************************************************************************)
Waiting(w) ==
  \/ pc[w] = "stopped"
  \/ /\ wait[w] > 0
     /\ pc[w] = "put" => size = BufferSize
     /\ pc[w] = "take" => size = 0

Tick ==
  /\ \A w \in Workers : Waiting(w)
  /\ \E w \in Workers : pc[w] # "stopped"
  /\ wait' = [w \in Workers |-> IF pc[w] = "stopped" THEN 0 ELSE wait[w] - 1]
  /\ since' = IF running THEN 0 ELSE since + 1
  /\ UNCHANGED <<pc, index, size, delay, enabled, running, gone, events>>

Exited == gone /\ UNCHANGED vars

Next ==
  \/ \E s \in Sources : SrcStep(s)
  \/ ProcStep
  \/ \E w \in Workers : SetEnabled(w) \/ \E d \in Delays : SetDelay(w, d)
  \/ ManualRemove \/ Close \/ Joined
  \/ Tick
  \/ Exited

Spec == Init /\ [][Next]_vars

\* Threads run and time passes; the user need not do anything.
FairSpec ==
  /\ Spec
  /\ \A s \in Sources : WF_vars(SrcStep(s))
  /\ WF_vars(ProcStep) /\ WF_vars(Joined) /\ WF_vars(Tick)

-----------------------------------------------------------------------------
(***************************************************************************)
(* Every variable has its type: nobody takes from an empty buffer          *)
(* (backendcontroller.cpp:229, 349).                                       *)
(***************************************************************************)
TypeOK ==
  /\ pc \in [Workers -> {"put", "jitter", "take", "nap", "delay", "stopped"}]
  /\ wait \in [Workers -> Nat]
  /\ index \in [Sources -> 0..(NumRobots - 1)]
  /\ size \in 0..BufferSize
  /\ delay \in [Workers -> Delays]
  /\ enabled \in [Workers -> BOOLEAN]
  /\ running \in BOOLEAN /\ gone \in BOOLEAN
  /\ since \in Nat /\ events \in 0..UserEvents

(***************************************************************************)
(* The destructor waits for the slowest worker, not for the sum of them    *)
(* nor for the rest of a source's cycle: one timeout and one delay are the *)
(* most, however full the buffer and wherever the workers are              *)
(* (backendcontroller.cpp:77-88).  A source whose put would get room late  *)
(* and go on to its jitter cannot exist: nobody makes room any more.       *)
(***************************************************************************)
ShutdownBounded == since <= Timeout + MaxDelay

(***************************************************************************)
(* No worker spins: between any two moments of the clock each does         *)
(* finitely many steps, enabled or not, until the program ends             *)
(* (backendcontroller.cpp:364-368).                                        *)
(***************************************************************************)
TimePasses == <>gone \/ []<><<Tick>>_vars

(***************************************************************************)
(* What of TimePasses needs no fairness: every step of a worker between    *)
(* two ticks uses up some of a budget that the sliders and switches cannot *)
(* refill, and that is never more than one cycle of puts.                  *)
(***************************************************************************)
Budget(w) ==
  CASE pc[w] = "stopped" -> 0
    [] pc[w] = "put" -> 3 * (NumRobots - index[w]) + (IF wait[w] = 0 THEN 1 ELSE 0)
    [] pc[w] = "jitter" -> 3 * (NumRobots - index[w]) - 1
    [] pc[w] \in {"take", "nap"} -> 1
    [] pc[w] = "delay" -> IF wait[w] > 0 THEN 0
                            ELSE IF w = processor THEN 2 ELSE 3 * NumRobots + 1

SpinsBounded ==
  [][Tick \/ \A w \in Workers :
       UNCHANGED <<pc[w], wait[w], Budget(w)>> \/ Budget(w)' < Budget(w)]_vars

(***************************************************************************)
(* "This ensures the processor wakes up within 100 ms of a shutdown        *)
(* request", backendcontroller.cpp:346-348.  It does not hold: after the   *)
(* take the processor sleeps for its delay.                                *)
(***************************************************************************)
ProcessorWakesInTime == since > Timeout => pc[processor] = "stopped"
=============================================================================
