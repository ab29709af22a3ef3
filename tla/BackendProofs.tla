--------------------------- MODULE BackendProofs ---------------------------
(***************************************************************************)
(* Proofs about Backend, for any number of robots and sources, any buffer  *)
(* size and any number of user events.                                     *)
(*                                                                         *)
(* Each property is about one thread at a time, so the inductive invariant *)
(* says of each thread what its place in the code implies: what it has in  *)
(* its hands (Hands), how much more it may do once it is told to cease     *)
(* (Ceasing), and in which order threads are joined (JoinOrder).           *)
(***************************************************************************)
EXTENDS Backend, TLAPS, FiniteSetTheorems

Stages == {"idle", "pending", "done"}

Types ==
  /\ queue \in Seq(Readings)
  /\ stage \in [AllThreads -> Stages]
  /\ op \in [AllThreads -> {"none", "tryPut", "tryTake"}]
  /\ item \in [AllThreads -> Readings \cup {NoItem}]
  /\ pc \in [AllThreads -> Labels]
  /\ index \in [Sources -> 0..NumRobots]
  /\ held \in [AllThreads -> Readings \cup {NoItem}]
  /\ matrix \in [Robots -> (SUBSET Columns) \ {Columns}]
  /\ enabled \in [Workers -> BOOLEAN]
  /\ running \in BOOLEAN
  /\ events \in 0..UserEvents
  /\ late \in [Workers -> 0..LateBound]

Hands ==
  /\ \A t \in AllThreads :
       /\ stage[t] # "idle" => pc[t] \in {"putting", "taking"}
       /\ pc[t] \in {"put", "retry", "insert", "apply"} => held[t] \in Readings
       /\ pc[t] = "putting" /\ stage[t] = "pending" => held[t] \in Readings /\ item[t] \in Readings
       /\ pc[t] = "taking" /\ stage[t] = "done" => item[t] \in Readings
       /\ stage[t] # "idle" => op[t] = IF pc[t] = "putting" THEN "tryPut" ELSE "tryTake"
  /\ \A s \in Sources : pc[s] \in {"robot", "put", "putting", "retry"} => index[s] < NumRobots

\* The destructor joins the sources and then the processor, and nobody else
\* clears the running flag.
JoinOrder ==
  /\ ~running <=> pc[gui] \in {"join", "gone"}
  /\ pc[gui] = "gone" => pc[processor] = "joined"
  /\ pc[processor] = "joined" => \A s \in Sources : pc[s] = "joined"

\* How many readings source s, told to cease, may still put: the rest of its
\* cycle if it is disabled, the reading in its hands if all must stop.
MayPut(s) ==
  IF pc[s] \in {"robot", "put", "retry"} \/ (pc[s] = "putting" /\ stage[s] = "pending")
    THEN NumRobots - index[s]
    ELSE IF pc[s] = "putting" THEN NumRobots - index[s] - 1 ELSE 0

MayPutAtEnd(s) ==
  IF pc[s] = "put" \/ (pc[s] = "putting" /\ stage[s] = "pending") THEN 1 ELSE 0

SrcCeases(s) ==
  /\ ~enabled[s] => late[s] + MayPut(s) <= NumRobots
  /\ ~running => late[s] + MayPutAtEnd(s) <= 1

\* And how many the processor may still take.
Taking == pc[processor] = "taking" /\ stage[processor] = "pending"

MayTake == IF Taking THEN 1 ELSE 0

MayTakeAtEnd == IF Taking \/ pc[processor] = "gate" THEN 1 ELSE 0

ProcCeases ==
  /\ ~enabled[processor] => late[processor] + MayTake <= 1
  /\ ~running => late[processor] + MayTakeAtEnd <= 1

Ceasing == ProcCeases /\ \A s \in Sources : SrcCeases(s)

IInv == Types /\ Hands /\ JoinOrder /\ Ceasing

-----------------------------------------------------------------------------
\* Who the threads are.
LEMMA ThreadFacts ==
  /\ processor \in AllThreads /\ processor \in Workers /\ processor \notin Sources
  /\ gui \in AllThreads /\ gui \notin Workers /\ gui # processor
  /\ \A s \in Sources : s \in AllThreads /\ s \in Workers /\ s # gui /\ s # processor
  /\ \A w \in Workers : w \in AllThreads /\ w # gui
BY BackendAssumption DEF AllThreads, Workers

\* The integers among the constants.
LEMMA NumberFacts ==
  /\ NumRobots \in Nat /\ NumRobots > 0 /\ 0 \in 0..NumRobots
  /\ LateBound \in Nat
  /\ Columns # {}
<1>1. 0 \in Columns
  BY BackendAssumption DEF Columns
<1>2. QED
  BY <1>1, BackendAssumption

LEMMA InitTypes == Init => Types /\ Hands
<1> SUFFICES ASSUME Init PROVE Types /\ Hands
  OBVIOUS
<1>1. Types
  BY ThreadFacts, NumberFacts, BackendAssumption
  DEF Init, ControllerInit, Fifo!Init, Types, Stages, Labels, Fifo!NoOp
<1>2. Hands
  BY ThreadFacts DEF Init, ControllerInit, Fifo!Init, Hands
<1>3. QED
  BY <1>1, <1>2

\* CountLate keeps the counters within their bound.
LEMMA CountLateType ==
  ASSUME Types, NEW t \in AllThreads, CountLate(t)
  PROVE  late' \in [Workers -> 0..LateBound]
BY NumberFacts DEF CountLate, Types

\* A reading put into a row fills one of its columns.
LEMMA RowStaysInside ==
  ASSUME Types, NEW v, Valid(v), RowWith(v) # Columns
  PROVE  RowWith(v) \in (SUBSET Columns) \ {Columns}
<1>1. matrix[v.robot] \in SUBSET Columns
  BY DEF Types, Valid
<1>2. v.source \in Columns
  BY DEF Valid
<1>3. RowWith(v) \subseteq Columns
  BY <1>1, <1>2, Zenon DEF RowWith
<1>4. QED
  BY <1>3

\* Every action keeps the types: a source's actions,
LEMMA SourceTypes ==
  ASSUME Types, Hands, NEW s \in Sources, SrcStep(s) \/ SrcEnqueue(s)
  PROVE  Types'
<1> USE ThreadFacts, NumberFacts
  DEF Types, Labels, Stages, From, Goto, Hold, buffer, config, local
<1>1. CASE SrcLoop(s)
  BY <1>1 DEF SrcLoop
<1>2. CASE SrcGate(s)
  BY <1>2 DEF SrcGate
<1>3. CASE SrcRobot(s)
  <2>1. index[s] \in Robots
    BY <1>3, BackendAssumption DEF SrcRobot, Hands, Robots
  <2>2. [source |-> s, robot |-> index[s]] \in Readings
    BY <2>1 DEF Readings
  <2>3. QED
    BY <1>3, <2>2 DEF SrcRobot
<1>4. CASE SrcPut(s)
  <2>1. held[s] \in Readings
    BY <1>4 DEF SrcPut, PutCalled, Hands
  <2>2. QED
    BY <1>4, <2>1 DEF SrcPut, PutCalled, Fifo!Invoke
<1>5. CASE SrcEnqueue(s)
  <2>1. item[s] \in Readings
    BY <1>5 DEF SrcEnqueue, Touches, Fifo!Enqueue, Fifo!TakesEffect, Hands
  <2>2. late' \in [Workers -> 0..LateBound]
    BY <1>5, CountLateType DEF SrcEnqueue, Touches
  <2>3. QED
    BY <1>5, <2>1, <2>2 DEF SrcEnqueue, Touches, Fifo!Enqueue, Fifo!TakesEffect
<1>6. CASE SrcPutDone(s)
  <2>1. index[s] + 1 \in 0..NumRobots
    BY <1>6, BackendAssumption DEF SrcPutDone, PutReturned, Hands
  <2>2. QED
    BY <1>6, <2>1 DEF SrcPutDone, PutReturned, Fifo!Return, Fifo!EndCall, Fifo!NoOp
<1>7. CASE SrcPutFail(s)
  BY <1>7 DEF SrcPutFail, PutTimedOut, Fifo!Fail, Fifo!EndCall, Fifo!NoOp
<1>8. CASE SrcRetry(s)
  BY <1>8 DEF SrcRetry
<1>9. QED
  BY <1>1, <1>2, <1>3, <1>4, <1>5, <1>6, <1>7, <1>8 DEF SrcStep

\* a consumer's actions,
LEMMA ConsumerTypes ==
  ASSUME Types, Hands, NEW t \in Consumers, Consume(t)
  PROVE  Types'
<1> USE ThreadFacts, NumberFacts
    DEF Types, Labels, Stages, From, Goto, Hold, Home, buffer, config, local,
        Consumers
<1>1. CASE TakeItem(t)
  <2>1. Head(queue) \in Readings /\ Tail(queue) \in Seq(Readings)
    BY <1>1 DEF TakeItem, Touches, Fifo!Dequeue
  <2>2. late' \in [Workers -> 0..LateBound]
    BY <1>1, CountLateType DEF TakeItem, Touches
  <2>3. QED
    BY <1>1, <2>1, <2>2 DEF TakeItem, Touches, Fifo!Dequeue, Fifo!TakesEffect
<1>2. CASE TakeDone(t)
  <2>1. item[t] \in Readings
    BY <1>2 DEF TakeDone, TakeReturned, Hands, Fifo!Return
  <2>2. QED
    BY <1>2, <2>1 DEF TakeDone, TakeReturned, Fifo!Return, Fifo!EndCall, Fifo!NoOp
<1>3. CASE TakeFail(t)
  BY <1>3 DEF TakeFail, TakeTimedOut, Fifo!Fail, Fifo!EndCall, Fifo!NoOp
<1>4. CASE Insert(t)
  <2>1. matrix' \in [Robots -> (SUBSET Columns) \ {Columns}]
    <3>1. CASE Valid(held[t]) /\ RowWith(held[t]) = Columns
      BY <1>4, <3>1 DEF Insert
    <3>2. CASE Valid(held[t]) /\ RowWith(held[t]) # Columns
      <4>1. RowWith(held[t]) \in (SUBSET Columns) \ {Columns}
        BY <3>2, RowStaysInside
      <4>2. matrix' = [matrix EXCEPT ![held[t].robot] = RowWith(held[t])]
        BY <1>4, <3>2 DEF Insert
      <4>3. QED
        BY <4>1, <4>2
    <3>3. CASE ~Valid(held[t])
      BY <1>4, <3>3 DEF Insert
    <3>4. QED
      BY <3>1, <3>2, <3>3
  <2>2. pc' \in [AllThreads -> Labels] /\ held' \in [AllThreads -> Readings \cup {NoItem}]
    BY <1>4 DEF Insert
  <2>3. QED
    BY <1>4, <2>1, <2>2 DEF Insert
<1>5. CASE Apply(t)
  BY <1>5 DEF Apply
<1>6. QED
  BY <1>1, <1>2, <1>3, <1>4, <1>5 DEF Consume

\* and those of the processor and of the GUI thread.
LEMMA ControlTypes ==
  ASSUME Types, Hands, ProcLoop \/ ProcGate \/ User \/ Destroy \/ Exited
                       \/ \E w \in Workers : Launch(w) \/ Join(w)
  PROVE  Types'
<1> USE ThreadFacts, NumberFacts
  DEF Types, Labels, Stages, From, Goto, buffer, config, local
<1>1. CASE ProcLoop
  BY <1>1 DEF ProcLoop
<1>2. CASE ProcGate
  <2>1. CASE ProcSkips
    BY <2>1 DEF ProcSkips
  <2>2. CASE ProcCalls /\ Fifo!Invoke(processor, "tryTake", NoItem)
    BY <2>2 DEF ProcCalls, Fifo!Invoke
  <2>3. QED
    BY <1>2, <2>1, <2>2 DEF ProcGate
<1>3. ASSUME NEW w \in Workers, Launch(w) PROVE Types'
  BY <1>3 DEF Launch
<1>4. ASSUME NEW w \in Workers, Join(w) PROVE Types'
  BY <1>4 DEF Join
<1>5. ASSUME NEW w \in Workers, SetEnabled(w) PROVE Types'
  <2>1. events' \in 0..UserEvents
    BY <1>5, BackendAssumption DEF SetEnabled, UserActs
  <2>2. QED
    BY <1>5, <2>1 DEF SetEnabled
<1>6. CASE ManualRemove
  <2>1. events' \in 0..UserEvents
    BY <1>6, BackendAssumption DEF ManualRemove, RemoveCalled, UserActs
  <2>2. QED
    BY <1>6, <2>1 DEF ManualRemove, RemoveCalled, Fifo!Invoke
<1>7. CASE Close
  <2>1. late' \in [Workers -> 0..LateBound]
    <3>1. 0 \in 0..LateBound
      OBVIOUS
    <3>2. QED
      BY <1>7, <3>1 DEF Close
  <2>2. QED
    BY <1>7, <2>1 DEF Close
<1>8. CASE Destroy
  BY <1>8 DEF Destroy
<1>9. CASE Exited
  BY <1>9 DEF Exited, vars
<1>10. QED
  BY <1>1, <1>2, <1>3, <1>4, <1>5, <1>6, <1>7, <1>8, <1>9 DEF User

-----------------------------------------------------------------------------
\* What a thread has in its hands: a source's actions,
LEMMA SourceHands ==
  ASSUME Types, Hands, NEW s \in Sources, SrcStep(s) \/ SrcEnqueue(s)
  PROVE  Hands'
<1> USE ThreadFacts, NumberFacts
    DEF Types, Labels, Stages, Hands, From, Goto, Hold, buffer, config, local
<1>1. CASE SrcLoop(s)
  BY <1>1 DEF SrcLoop
<1>2. CASE SrcGate(s)
  BY <1>2 DEF SrcGate
<1>3. CASE SrcRobot(s)
  <2>1. index[s] \in Robots
    BY <1>3, BackendAssumption DEF SrcRobot, Hands, Robots
  <2>2. [source |-> s, robot |-> index[s]] \in Readings
    BY <2>1 DEF Readings
  <2>3. QED
    BY <1>3, <2>2 DEF SrcRobot
<1>4. CASE SrcPut(s)
  BY <1>4 DEF SrcPut, PutCalled, Fifo!Invoke
<1>5. CASE SrcEnqueue(s)
  BY <1>5 DEF SrcEnqueue, Touches, Fifo!Enqueue, Fifo!TakesEffect
<1>6. CASE SrcPutDone(s)
  BY <1>6 DEF SrcPutDone, PutReturned, Fifo!Return, Fifo!EndCall, Fifo!NoOp
<1>7. CASE SrcPutFail(s)
  BY <1>7 DEF SrcPutFail, PutTimedOut, Fifo!Fail, Fifo!EndCall, Fifo!NoOp
<1>8. CASE SrcRetry(s)
  BY <1>8 DEF SrcRetry
<1>9. QED
  BY <1>1, <1>2, <1>3, <1>4, <1>5, <1>6, <1>7, <1>8 DEF SrcStep

\* a consumer's actions,
LEMMA ConsumerHands ==
  ASSUME Types, Hands, NEW t \in Consumers, Consume(t)
  PROVE  Hands'
<1> USE ThreadFacts
    DEF Types, Labels, Stages, Hands, From, Goto, Hold, Home, buffer, config,
        local, Consumers
<1>1. CASE TakeItem(t)
  <2>1. Head(queue) \in Readings
    BY <1>1 DEF TakeItem, Touches, Fifo!Dequeue
  <2>2. QED
    BY <1>1, <2>1 DEF TakeItem, Touches, Fifo!Dequeue, Fifo!TakesEffect
<1>2. CASE TakeDone(t)
  BY <1>2 DEF TakeDone, TakeReturned, Fifo!Return, Fifo!EndCall, Fifo!NoOp
<1>3. CASE TakeFail(t)
  BY <1>3 DEF TakeFail, TakeTimedOut, Fifo!Fail, Fifo!EndCall, Fifo!NoOp
<1>4. CASE Insert(t)
  BY <1>4 DEF Insert
<1>5. CASE Apply(t)
  BY <1>5 DEF Apply
<1>6. QED
  BY <1>1, <1>2, <1>3, <1>4, <1>5 DEF Consume

\* and those of the processor and of the GUI thread.
LEMMA ControlHands ==
  ASSUME Types, Hands, ProcLoop \/ ProcGate \/ User \/ Destroy \/ Exited
                       \/ \E w \in Workers : Launch(w) \/ Join(w)
  PROVE  Hands'
<1> USE ThreadFacts
  DEF Types, Labels, Stages, Hands, From, Goto, buffer, config, local
<1>1. CASE ProcLoop
  BY <1>1 DEF ProcLoop
<1>2. CASE ProcGate
  BY <1>2 DEF ProcGate, ProcCalls, ProcSkips, Fifo!Invoke
<1>3. ASSUME NEW w \in Workers, Launch(w) PROVE Hands'
  BY <1>3 DEF Launch
<1>4. ASSUME NEW w \in Workers, Join(w) PROVE Hands'
  BY <1>4 DEF Join
<1>5. ASSUME NEW w \in Workers, SetEnabled(w) PROVE Hands'
  BY <1>5 DEF SetEnabled
<1>6. CASE ManualRemove
  BY <1>6 DEF ManualRemove, RemoveCalled, UserActs, Fifo!Invoke
<1>7. CASE Close
  BY <1>7 DEF Close
<1>8. CASE Destroy
  BY <1>8 DEF Destroy
<1>9. CASE Exited
  BY <1>9 DEF Exited, vars
<1>10. QED
  BY <1>1, <1>2, <1>3, <1>4, <1>5, <1>6, <1>7, <1>8, <1>9 DEF User

-----------------------------------------------------------------------------
\* Which threads a step leaves alone.
LEMMA SourceFrame ==
  ASSUME Types, NEW s \in Sources, SrcStep(s) \/ SrcEnqueue(s)
  PROVE  /\ \A t \in AllThreads \ {s} : pc'[t] = pc[t] /\ stage'[t] = stage[t]
         /\ \A w \in Workers \ {s} : late'[w] = late[w]
         /\ \A q \in Sources \ {s} : index'[q] = index[q]
         /\ UNCHANGED <<enabled, running>>
BY ThreadFacts
DEF Types, SrcStep, SrcLoop, SrcGate, SrcRobot, SrcPut, PutCalled, SrcEnqueue,
    Touches, SrcPutDone, PutReturned, SrcPutFail, PutTimedOut,
    SrcRetry, Goto, CountLate, buffer, config, local, Fifo!Invoke, Fifo!Enqueue,
    Fifo!TakesEffect, Fifo!Return, Fifo!Fail, Fifo!EndCall

LEMMA ConsumerFrame ==
  ASSUME Types, NEW t \in Consumers, Consume(t)
  PROVE  /\ \A u \in AllThreads \ {t} : pc'[u] = pc[u] /\ stage'[u] = stage[u]
         /\ \A w \in Workers \ {t} : late'[w] = late[w]
         /\ UNCHANGED <<index, enabled, running>>
BY ThreadFacts
DEF Types, Consumers, Consume, TakeItem, Touches, TakeDone, TakeReturned,
    TakeFail, TakeTimedOut, Insert, Apply, Goto, CountLate,
    buffer, config, local, Fifo!Dequeue, Fifo!TakesEffect, Fifo!Return, Fifo!Fail, Fifo!EndCall

\* Every action keeps the order in which threads are joined.
LEMMA JoinOrderNext ==
  ASSUME Types, JoinOrder, [Next]_vars
  PROVE  JoinOrder'
<1> USE ThreadFacts DEF Types, Labels, JoinOrder, From, Goto
<1>1. ASSUME NEW s \in Sources, SrcStep(s) \/ SrcEnqueue(s) PROVE JoinOrder'
  <2>1. pc[s] # "joined" /\ running' = running
    BY <1>1, SourceFrame
    DEF SrcStep, SrcLoop, SrcGate, SrcRobot, SrcPut, PutCalled, SrcEnqueue,
        Touches, SrcPutDone, PutReturned, SrcPutFail, PutTimedOut, SrcRetry
  <2>2. QED
    BY <1>1, <2>1, SourceFrame
<1>2. ASSUME NEW t \in Consumers, Consume(t) PROVE JoinOrder'
  <2>1. pc[t] \in {"taking", "insert", "apply"}
        /\ pc'[t] \in {"taking", "insert", "apply", "loop", "events"}
    BY <1>2
      DEF Consume, TakeItem, Touches, TakeDone, TakeReturned, TakeFail,
          TakeTimedOut, Insert, Apply, Home, Consumers, local
  <2>2. QED
    BY <1>2, <2>1, ConsumerFrame DEF Consumers
<1>3. CASE ProcLoop
  BY <1>3 DEF ProcLoop, config
<1>4. CASE ProcGate
  BY <1>4 DEF ProcGate, ProcCalls, ProcSkips, config
<1>5. ASSUME NEW w \in Workers, Launch(w) PROVE JoinOrder'
  BY <1>5 DEF Launch, config
<1>6. ASSUME NEW w \in Workers, Join(w) PROVE JoinOrder'
  BY <1>6 DEF Join, Before, config
<1>7. ASSUME NEW w \in Workers, SetEnabled(w) PROVE JoinOrder'
  BY <1>7 DEF SetEnabled, local
<1>8. CASE ManualRemove
  BY <1>8 DEF ManualRemove, RemoveCalled, UserActs
<1>9. CASE Close
  BY <1>9 DEF Close
<1>10. CASE Destroy
  BY <1>10 DEF Destroy, config
<1>11. CASE Exited \/ UNCHANGED vars
  BY <1>11 DEF Exited, vars, local, config
<1>12. QED
  BY <1>1, <1>2, <1>3, <1>4, <1>5, <1>6, <1>7, <1>8, <1>9, <1>10, <1>11
  DEF Next, ProcStep, GuiStep, User, Consumers

-----------------------------------------------------------------------------
\* A source's own steps respect its allowance,
LEMMA SourceCeases ==
  ASSUME Types, Hands, NEW s \in Sources, SrcCeases(s), SrcStep(s) \/ SrcEnqueue(s)
  PROVE  SrcCeases(s)'
<1>1. /\ UNCHANGED <<enabled, running>>
      /\ s \in AllThreads /\ s \in Workers
      /\ late[s] \in Nat /\ index[s] \in Nat /\ NumRobots \in Nat
  BY SourceFrame, ThreadFacts, NumberFacts DEF Types
<1> USE <1>1, NumberFacts
  DEF From, Goto, Hold, SrcCeases, MayPut, MayPutAtEnd, buffer, config, local
<1>2. pc \in [AllThreads -> Labels] /\ stage \in [AllThreads -> Stages]
      /\ index \in [Sources -> 0..NumRobots] /\ late \in [Workers -> 0..LateBound]
  BY DEF Types
<1>3. CASE SrcLoop(s)
  BY <1>2, <1>3 DEF SrcLoop
<1>4. CASE SrcGate(s)
  BY <1>2, <1>4 DEF SrcGate
<1>5. CASE SrcRobot(s)
  BY <1>2, <1>5 DEF SrcRobot
<1>6. CASE SrcPut(s)
  BY <1>2, <1>6 DEF SrcPut, PutCalled, Fifo!Invoke
<1>7. CASE SrcEnqueue(s)
  <2>1. /\ pc[s] = "putting" /\ stage[s] = "pending" /\ stage'[s] = "done"
        /\ pc' = pc /\ index' = index
    BY <1>2, <1>7 DEF SrcEnqueue, Touches, Fifo!Enqueue, Fifo!TakesEffect
  <2>2. late'[s] <= late[s] + 1
    BY <1>2, <1>7 DEF SrcEnqueue, Touches, CountLate
  <2>3. late'[s] \in Nat
    BY <1>7, CountLateType DEF SrcEnqueue, Touches
  <2>4. QED
    BY <2>1, <2>2, <2>3
<1>8. CASE SrcPutDone(s)
  <2>1. index[s] < NumRobots
    BY <1>8 DEF SrcPutDone, PutReturned, Hands
  <2>2. QED
    BY <1>2, <1>8, <2>1
      DEF SrcPutDone, PutReturned, Fifo!Return, Fifo!EndCall, Fifo!NoOp
<1>9. CASE SrcPutFail(s)
  BY <1>2, <1>9 DEF SrcPutFail, PutTimedOut, Fifo!Fail, Fifo!EndCall, Fifo!NoOp
<1>10. CASE SrcRetry(s)
  BY <1>2, <1>10 DEF SrcRetry
<1>11. QED
  BY <1>3, <1>4, <1>5, <1>6, <1>7, <1>8, <1>9, <1>10 DEF SrcStep

\* the processor's respect its own,
LEMMA ProcessorCeases ==
  ASSUME Types, ProcCeases, ProcStep
  PROVE  ProcCeases' /\ UNCHANGED <<enabled, running>>
<1>1. /\ processor \in AllThreads /\ processor \in Workers /\ processor \in Consumers
      /\ processor # gui
      /\ late[processor] \in Nat /\ pc \in [AllThreads -> Labels] /\ stage \in [AllThreads -> Stages]
      /\ late \in [Workers -> 0..LateBound]
  BY ThreadFacts, NumberFacts DEF Types, Consumers
<1> USE <1>1
  DEF From, Goto, Home, ProcCeases, MayTake, MayTakeAtEnd, Taking, buffer,
      config, local
<1>2. CASE ProcLoop
  BY <1>2 DEF ProcLoop
<1>3. CASE ProcGate
  BY <1>3 DEF ProcGate, ProcCalls, ProcSkips, Fifo!Invoke
<1>4. CASE TakeItem(processor)
  <2>1. /\ Taking /\ stage'[processor] = "done" /\ pc' = pc /\ UNCHANGED <<enabled, running>>
    BY <1>4 DEF TakeItem, Touches, Fifo!Dequeue, Fifo!TakesEffect
  <2>2. late'[processor] <= late[processor] + 1
    BY <1>4, NumberFacts DEF TakeItem, Touches, CountLate
  <2>3. late'[processor] \in Nat
    BY <1>4, CountLateType, NumberFacts DEF TakeItem, Touches
  <2>4. QED
    BY <2>1, <2>2, <2>3
<1>5. CASE TakeDone(processor)
  BY <1>5 DEF TakeDone, TakeReturned, Fifo!Return, Fifo!EndCall
<1>6. CASE TakeFail(processor)
  BY <1>6 DEF TakeFail, TakeTimedOut, Fifo!Fail, Fifo!EndCall
<1>7. CASE Insert(processor)
  BY <1>7 DEF Insert
<1>8. CASE Apply(processor)
  BY <1>8 DEF Apply
<1>9. QED
  BY <1>2, <1>3, <1>4, <1>5, <1>6, <1>7, <1>8 DEF ProcStep, Consume

\* the GUI thread's steps and the user's clear an allowance or keep it,
LEMMA ControlCeases ==
  ASSUME Types, JoinOrder, Ceasing,
         Consume(gui) \/ User \/ Destroy \/ (\E w \in Workers : Launch(w) \/ Join(w))
  PROVE  Ceasing'
<1>1. /\ pc \in [AllThreads -> Labels] /\ stage \in [AllThreads -> Stages]
      /\ late \in [Workers -> 0..LateBound] /\ index \in [Sources -> 0..NumRobots]
      /\ enabled \in [Workers -> BOOLEAN] /\ running \in BOOLEAN
  BY DEF Types
<1> USE <1>1, ThreadFacts, NumberFacts
    DEF Ceasing, SrcCeases, ProcCeases, MayPut, MayPutAtEnd, MayTake,
        MayTakeAtEnd, Taking,
        From, Goto, buffer, config, local
<1>2. CASE Consume(gui)
  <2>1. /\ \A w \in Workers : pc'[w] = pc[w] /\ stage'[w] = stage[w] /\ late'[w] = late[w]
        /\ UNCHANGED <<index, enabled, running>>
    BY <1>2, ConsumerFrame DEF Consumers
  <2>2. QED
    BY <2>1
<1>3. ASSUME NEW w \in Workers, SetEnabled(w) PROVE Ceasing'
  <2>1. running /\ running' = running
    BY <1>3 DEF SetEnabled, UserActs, JoinOrder
  <2>2. UNCHANGED <<pc, stage, index>>
    BY <1>3 DEF SetEnabled
  <2>3. \A v \in Workers : (v = w /\ late'[v] = 0) \/ (late'[v] = late[v] /\ enabled'[v] = enabled[v])
    BY <1>3 DEF SetEnabled
  <2>4. \A s \in Sources : index[s] \in 0..NumRobots
    OBVIOUS
  <2>5. QED
    BY <2>1, <2>2, <2>3, <2>4
<1>4. CASE ManualRemove
  BY <1>4 DEF ManualRemove, RemoveCalled, Fifo!Invoke
<1>5. CASE Close
  <2>1. \A v \in Workers : late'[v] = 0 /\ pc'[v] = pc[v]
    BY <1>5 DEF Close
  <2>2. UNCHANGED <<stage, index, enabled>>
    BY <1>5 DEF Close
  <2>3. QED
    BY <2>1, <2>2
<1>6. ASSUME NEW w \in Workers, Launch(w) PROVE Ceasing'
  <2>1. UNCHANGED <<stage, index, late, enabled, running>>
    BY <1>6 DEF Launch
  <2>2. \A v \in Workers : pc'[v] = pc[v] \/ (pc[v] = "unborn" /\ pc'[v] = "loop")
    BY <1>6 DEF Launch
  <2>3. QED
    BY <2>1, <2>2
<1>7. ASSUME NEW w \in Workers, Join(w) PROVE Ceasing'
  <2>1. UNCHANGED <<stage, index, late, enabled, running>>
    BY <1>7 DEF Join
  <2>2. \A v \in Workers : pc'[v] = pc[v] \/ (pc[v] = "stopped" /\ pc'[v] = "joined")
    BY <1>7 DEF Join
  <2>3. QED
    BY <2>1, <2>2
<1>8. CASE Destroy
  BY <1>8 DEF Destroy
<1>9. QED
  BY <1>2, <1>3, <1>4, <1>5, <1>6, <1>7, <1>8 DEF User

\* and nobody spends the allowance of another.
LEMMA CeasingNext ==
  ASSUME Types, Hands, JoinOrder, Ceasing, [Next]_vars
  PROVE  Ceasing'
<1>1. ASSUME NEW s \in Sources, SrcStep(s) \/ SrcEnqueue(s) PROVE Ceasing'
  <2>1. SrcCeases(s)'
    BY <1>1, SourceCeases DEF Ceasing
  <2>2. ASSUME NEW q \in Sources \ {s} PROVE SrcCeases(q)'
    BY <1>1, SourceFrame, ThreadFacts DEF Ceasing, SrcCeases, MayPut, MayPutAtEnd
  <2>3. ProcCeases'
    BY <1>1, SourceFrame, ThreadFacts
      DEF Ceasing, ProcCeases, MayTake, MayTakeAtEnd, Taking
  <2>4. QED
    BY <2>1, <2>2, <2>3 DEF Ceasing
<1>2. CASE ProcStep
  <2>1. \A s \in Sources : /\ pc'[s] = pc[s] /\ stage'[s] = stage[s]
                           /\ late'[s] = late[s] /\ index'[s] = index[s]
    <3>1. CASE Consume(processor)
      BY <3>1, ConsumerFrame, ThreadFacts DEF Consumers
    <3>2. CASE ProcLoop
      BY <3>2, ThreadFacts DEF ProcLoop, Types, Goto, buffer
    <3>3. CASE ProcGate
      BY <3>3, ThreadFacts
        DEF ProcGate, ProcCalls, ProcSkips, Types, Goto, Fifo!Invoke, buffer
    <3>4. QED
      BY <1>2, <3>1, <3>2, <3>3 DEF ProcStep
  <2>2. ProcCeases' /\ UNCHANGED <<enabled, running>>
    BY <1>2, ProcessorCeases DEF Ceasing
  <2>3. QED
    BY <2>1, <2>2 DEF Ceasing, SrcCeases, MayPut, MayPutAtEnd
<1>3. CASE GuiStep \/ User
  BY <1>3, ControlCeases DEF GuiStep
<1>4. CASE Exited \/ UNCHANGED vars
  BY <1>4
  DEF Exited, vars, buffer, local, config, Ceasing, SrcCeases, ProcCeases,
      MayPut, MayPutAtEnd,
      MayTake, MayTakeAtEnd, Taking
<1>5. QED
  BY <1>1, <1>2, <1>3, <1>4 DEF Next

-----------------------------------------------------------------------------
\* The invariant holds at the start and is kept by every step.
THEOREM Inductive == Spec => []IInv
<1>1. Init => IInv
  <2> SUFFICES ASSUME Init PROVE IInv
    OBVIOUS
  <2>1. Types /\ Hands
    BY InitTypes
  <2>2. /\ pc = [t \in AllThreads |-> IF t = gui THEN "launch" ELSE "unborn"]
        /\ late = [w \in Workers |-> 0] /\ running /\ enabled = [w \in Workers |-> TRUE]
    BY DEF Init, ControllerInit
  <2>3. JoinOrder
    BY <2>2, ThreadFacts DEF JoinOrder
  <2>4. Ceasing
    BY <2>2, ThreadFacts DEF Ceasing, ProcCeases, SrcCeases
  <2>5. QED
    BY <2>1, <2>3, <2>4 DEF IInv
<1>2. IInv /\ [Next]_vars => IInv'
  <2> SUFFICES ASSUME Types, Hands, JoinOrder, Ceasing, [Next]_vars PROVE IInv'
    BY DEF IInv
  <2>1. Types' /\ Hands'
    <3>1. ASSUME NEW s \in Sources, SrcStep(s) \/ SrcEnqueue(s) PROVE Types' /\ Hands'
      BY <3>1, SourceTypes, SourceHands
    <3>2. ASSUME NEW t \in Consumers, Consume(t) PROVE Types' /\ Hands'
      BY <3>2, ConsumerTypes, ConsumerHands
    <3>3. CASE ProcLoop \/ ProcGate \/ User \/ Destroy \/ Exited
                 \/ \E w \in Workers : Launch(w) \/ Join(w)
      BY <3>3, ControlTypes, ControlHands
    <3>4. CASE UNCHANGED vars
      BY <3>4 DEF vars, buffer, local, config, Types, Hands
    <3>5. QED
      BY <3>1, <3>2, <3>3, <3>4 DEF Next, ProcStep, GuiStep, Consumers
  <2>2. JoinOrder'
    BY JoinOrderNext
  <2>3. Ceasing'
    BY CeasingNext
  <2>4. QED
    BY <2>1, <2>2, <2>3 DEF IInv
<1>3. QED
  BY <1>1, <1>2, PTL DEF Spec

\* Nothing is destroyed under a running thread: the destructor ends only when
\* every worker is joined, and a joined worker is in no call of the buffer.
THEOREM Destruction == Spec => []NoUseAfterDestroy
<1>1. IInv => NoUseAfterDestroy
  <2> SUFFICES ASSUME Types, Hands, JoinOrder, pc[gui] = "gone", NEW w \in Workers
               PROVE  pc[w] = "joined" /\ stage[w] = "idle"
    BY DEF IInv, NoUseAfterDestroy
  <2>1. pc[w] = "joined"
    BY DEF JoinOrder, Workers
  <2>2. stage[w] = "idle"
    BY <2>1, ThreadFacts DEF Hands
  <2>3. QED
    BY <2>1, <2>2
<1>2. QED
  BY <1>1, Inductive, PTL

\* A worker told to cease does so after at most one iteration of its loop.
THEOREM Ceases == Spec => []StaleForOneIteration
<1>1. IInv => StaleForOneIteration
  <2> SUFFICES ASSUME Types, Hands, Ceasing, NEW w \in Workers
               PROVE  /\ ~enabled[w] => late[w] <= (IF w = processor THEN 1 ELSE NumRobots)
                      /\ ~running => late[w] <= 1
    BY DEF IInv, StaleForOneIteration
  <2>1. late[w] \in Nat
    BY NumberFacts DEF Types
  <2>2. CASE w = processor
    BY <2>1, <2>2 DEF Ceasing, ProcCeases, MayTake, MayTakeAtEnd
  <2>3. CASE w \in Sources
    <3>1. MayPut(w) >= 0
      BY <2>3, NumberFacts, ThreadFacts DEF MayPut, Types, Hands
    <3>2. MayPutAtEnd(w) >= 0
      BY DEF MayPutAtEnd
    <3>3. MayPut(w) \in Int /\ MayPutAtEnd(w) \in Int
      BY <2>3, NumberFacts DEF MayPut, MayPutAtEnd, Types
    <3>4. SrcCeases(w) /\ w # processor
      BY <2>3, ThreadFacts DEF Ceasing
    <3>5. QED
      BY <2>1, <3>1, <3>2, <3>3, <3>4, NumberFacts DEF SrcCeases
  <2>4. QED
    BY <2>2, <2>3 DEF Workers
<1>2. QED
  BY <1>1, Inductive, PTL

-----------------------------------------------------------------------------
(***************************************************************************)
(* The steps that are left to a worker once the program is to end.         *)
(***************************************************************************)
Advances(w) == UNCHANGED <<pc[w], stage[w]>> \/ StepsLeft(w)' < StepsLeft(w)

LEMMA SourceAdvances ==
  ASSUME Types, ~running, NEW s \in Sources, SrcStep(s) \/ SrcEnqueue(s)
  PROVE  StepsLeft(s)' < StepsLeft(s)
<1> USE ThreadFacts DEF Types, Labels, Stages, From, Goto, buffer, local
<1>1. CASE SrcLoop(s) \/ SrcGate(s) \/ SrcRobot(s) \/ SrcRetry(s)
  BY <1>1 DEF SrcLoop, SrcGate, SrcRobot, SrcRetry, StepsLeft
<1>2. CASE SrcPut(s)
  BY <1>2 DEF SrcPut, PutCalled, Fifo!Invoke, StepsLeft
<1>3. CASE SrcEnqueue(s)
  BY <1>3 DEF SrcEnqueue, Touches, Fifo!Enqueue, Fifo!TakesEffect, StepsLeft
<1>4. CASE SrcPutDone(s)
  <2>1. pc'[s] \in {"robot", "loop"} /\ pc[s] = "putting"
    BY <1>4 DEF SrcPutDone, PutReturned
  <2>2. QED
    BY <2>1 DEF StepsLeft
<1>5. CASE SrcPutFail(s)
  <2>1. pc'[s] = "retry" /\ pc[s] = "putting"
    BY <1>5 DEF SrcPutFail, PutTimedOut
  <2>2. QED
    BY <2>1 DEF StepsLeft
<1>6. QED
  BY <1>1, <1>2, <1>3, <1>4, <1>5 DEF SrcStep

LEMMA ProcessorAdvances ==
  ASSUME Types, ~running, ProcStep
  PROVE  /\ StepsLeft(processor)' < StepsLeft(processor)
         /\ \A s \in Sources : UNCHANGED <<pc[s], stage[s]>>
<1> USE ThreadFacts DEF Types, Labels, Stages, From, Goto, Home, buffer, local
<1>1. CASE ProcLoop
  BY <1>1 DEF ProcLoop, StepsLeft
<1>2. CASE ProcGate
  BY <1>2 DEF ProcGate, ProcCalls, ProcSkips, Fifo!Invoke, StepsLeft
<1>3. CASE Consume(processor)
  <2>1. StepsLeft(processor)' < StepsLeft(processor)
    <3>1. CASE TakeItem(processor)
      BY <3>1 DEF TakeItem, Touches, Fifo!Dequeue, Fifo!TakesEffect, StepsLeft
    <3>2. CASE TakeDone(processor)
      BY <3>2 DEF TakeDone, TakeReturned, StepsLeft
    <3>3. CASE TakeFail(processor)
      BY <3>3 DEF TakeFail, TakeTimedOut, StepsLeft
    <3>4. CASE Insert(processor) \/ Apply(processor)
      BY <3>4 DEF Insert, Apply, StepsLeft
    <3>5. QED
      BY <1>3, <3>1, <3>2, <3>3, <3>4 DEF Consume
  <2>2. QED
    BY <1>3, <2>1, ConsumerFrame DEF Consumers
<1>4. QED
  BY <1>1, <1>2, <1>3 DEF ProcStep

\* From the shutdown signal on every step of a worker brings it nearer to its
\* end, whatever the buffer answers and whoever else runs.
THEOREM ShutdownIsFinite == Spec => ShutdownAdvances
<1>1. IInv /\ [Next]_vars => [~running => \A w \in Workers : Advances(w)]_vars
  <2> SUFFICES ASSUME Types, Hands, JoinOrder, Next, ~running, NEW w \in Workers
               PROVE  Advances(w)
    BY DEF IInv
  <2> USE ThreadFacts
  <2>1. ASSUME NEW s \in Sources, SrcStep(s) \/ SrcEnqueue(s) PROVE Advances(w)
    BY <2>1, SourceAdvances, SourceFrame DEF Advances
  <2>2. CASE ProcStep
    BY <2>2, ProcessorAdvances DEF Advances, Workers
  <2>3. CASE Consume(gui)
    BY <2>3, ConsumerFrame DEF Advances, Consumers
  <2>4. ASSUME NEW v \in Workers, Join(v) PROVE Advances(w)
    <3>1. CASE v = w
      BY <2>4, <3>1 DEF Join, Advances, StepsLeft, Types, From, buffer
    <3>2. CASE v # w
      BY <2>4, <3>2 DEF Join, Advances, Types, From, buffer
    <3>3. QED
      BY <3>1, <3>2
  <2>5. CASE Destroy \/ Exited
    BY <2>5 DEF Destroy, Exited, Advances, Types, Goto, vars, buffer, local
  <2>6. ASSUME NEW v \in Workers PROVE ~Launch(v)
    BY DEF Launch, From, JoinOrder
  <2>7. ~User
    BY
      DEF User, SetEnabled, ManualRemove, RemoveCalled, Close, UserActs, From,
          JoinOrder
  <2>8. QED
    BY <2>1, <2>2, <2>3, <2>4, <2>5, <2>6, <2>7 DEF Next, GuiStep
<1>2. QED
  BY <1>1, Inductive, PTL DEF Spec, ShutdownAdvances, Advances

-----------------------------------------------------------------------------
\* What a step does to the buffer: one source appends a reading if there is
\* room, one consumer takes the oldest, or the contents stay.
LEMMA QueueSteps ==
  ASSUME [Next]_vars
  PROVE  \/ Len(queue) < BufferSize /\ \E v \in {item[s] : s \in Sources} : queue' = Append(queue, v)
         \/ queue # <<>> /\ queue' = Tail(queue)
         \/ queue' = queue
<1> DEFINE Goal == \/ Len(queue) < BufferSize
                       /\ \E v \in {item[s] : s \in Sources} : queue' = Append(queue, v)
                   \/ queue # <<>> /\ queue' = Tail(queue)
                   \/ queue' = queue
<1>1. ASSUME NEW s \in Sources, SrcStep(s) \/ SrcEnqueue(s) PROVE Goal
  <2>1. CASE SrcEnqueue(s)
    BY <2>1 DEF SrcEnqueue, Touches, Fifo!Enqueue
  <2>2. CASE SrcStep(s)
    BY <2>2
    DEF SrcStep, SrcLoop, SrcGate, SrcRobot, SrcPut, PutCalled, SrcPutDone,
        PutReturned, SrcPutFail, PutTimedOut, SrcRetry, buffer,
        Fifo!Invoke, Fifo!Return, Fifo!Fail, Fifo!EndCall
  <2>3. QED
    BY <1>1, <2>1, <2>2
<1>2. ASSUME NEW t \in Consumers, Consume(t) PROVE Goal
  BY <1>2
  DEF Consume, TakeItem, Touches, TakeDone, TakeReturned, TakeFail,
      TakeTimedOut, Insert, Apply, buffer, Fifo!Dequeue,
      Fifo!Return, Fifo!Fail, Fifo!EndCall
<1>3. CASE ProcLoop \/ ProcGate
  BY <1>3 DEF ProcLoop, ProcGate, ProcCalls, ProcSkips, buffer, Fifo!Invoke
<1>4. CASE User
  BY <1>4
    DEF User, SetEnabled, ManualRemove, RemoveCalled, Close, buffer,
        Fifo!Invoke
<1>5. CASE Destroy \/ Exited \/ UNCHANGED vars \/ \E w \in Workers : Launch(w) \/ Join(w)
  BY <1>5 DEF Destroy, Exited, Launch, Join, vars, buffer
<1>6. QED
  BY <1>1, <1>2, <1>3, <1>4, <1>5 DEF Next, ProcStep, GuiStep, Consumers

\* Every variable keeps its type, and the buffer never exceeds BUFFER_SIZE.
THEOREM TypeCorrect == Spec => []TypeOK
<1> DEFINE Bounded == Len(queue) <= BufferSize
<1>1. Init => Bounded
  BY BackendAssumption DEF Init, ControllerInit, Fifo!Init
<1>2. IInv /\ Bounded /\ [Next]_vars => Bounded'
  <2> SUFFICES ASSUME IInv, Bounded, [Next]_vars PROVE Bounded'
    OBVIOUS
  <2>1. queue \in Seq(Readings) /\ \A s \in Sources : item[s] \in Readings \cup {NoItem}
    BY ThreadFacts DEF IInv, Types
  <2>2. Len(queue) \in Nat /\ BufferSize \in Nat
    BY <2>1, BackendAssumption
  <2>3. CASE Len(queue) < BufferSize /\ \E v \in {item[s] : s \in Sources} : queue' = Append(queue, v)
    <3>1. PICK v : queue' = Append(queue, v)
      BY <2>3
    <3>2. queue \in Seq(Readings \cup {v})
      BY <2>1
    <3>3. Len(queue') = Len(queue) + 1
      BY <3>1, <3>2
    <3>4. QED
      BY <2>2, <2>3, <3>3
  <2>4. CASE queue # <<>> /\ queue' = Tail(queue)
    <3>1. Len(queue') = Len(queue) - 1
      BY <2>1, <2>4
    <3>2. QED
      BY <2>2, <3>1
  <2>5. QED
    BY <2>3, <2>4, QueueSteps
<1>3. IInv /\ Bounded => TypeOK
  BY DEF IInv, Types, TypeOK
<1>4. QED
  BY <1>1, <1>2, <1>3, Inductive, PTL DEF Spec

-----------------------------------------------------------------------------
\* What a step does to the places of the threads.
Asleep == {"unborn", "stopped", "joined"}
Control == {"launch", "join", "gone"}

Works(w) ==
  /\ pc[w] \notin Asleep /\ pc'[w] \notin {"unborn", "joined"}
  /\ pc'[w] = "stopped" => ~running
  /\ \A t \in AllThreads \ {w} : pc'[t] = pc[t]

Serves ==
  /\ pc[gui] \notin Control /\ pc'[gui] \notin Control
  /\ \A w \in Workers : pc'[w] = pc[w]

LEMMA PlaceSteps ==
  ASSUME Types, [Next]_vars
  PROVE  \/ (\E w \in Workers : Works(w) \/ Launch(w) \/ Join(w))
         \/ Serves \/ Close \/ Destroy \/ pc' = pc
<1> USE ThreadFacts DEF Types, Labels, From, Goto
<1>1. ASSUME NEW s \in Sources, SrcStep(s) \/ SrcEnqueue(s) PROVE Works(s)
  <2>1. \A t \in AllThreads \ {s} : pc'[t] = pc[t]
    BY <1>1, SourceFrame
  <2>2. /\ pc[s] \notin Asleep /\ pc'[s] \notin {"unborn", "joined"}
        /\ pc'[s] = "stopped" => ~running
    BY <1>1
    DEF SrcStep, SrcLoop, SrcGate, SrcRobot, SrcPut, PutCalled, SrcEnqueue,
        Touches, SrcPutDone, PutReturned, SrcPutFail, PutTimedOut,
        SrcRetry, Asleep, local
  <2>3. QED
    BY <2>1, <2>2 DEF Works
<1>2. ASSUME NEW t \in Consumers, Consume(t)
      PROVE  /\ pc[t] \in {"taking", "insert", "apply"}
             /\ pc'[t] \in {"taking", "insert", "apply", Home(t)}
             /\ \A u \in AllThreads \ {t} : pc'[u] = pc[u]
  <2>1. \A u \in AllThreads \ {t} : pc'[u] = pc[u]
    BY <1>2, ConsumerFrame
  <2>2. QED
    BY <1>2, <2>1
      DEF Consume, TakeItem, Touches, TakeDone, TakeReturned, TakeFail,
          TakeTimedOut, Insert, Apply, Consumers, local
<1>3. CASE Consume(processor)
  <2>1. Works(processor)
    BY <1>2, <1>3 DEF Works, Asleep, Consumers, Home
  <2>2. QED
    BY <2>1
<1>4. CASE ProcLoop \/ ProcGate
  <2>1. Works(processor)
    BY <1>4 DEF ProcLoop, ProcGate, ProcCalls, ProcSkips, Works, Asleep
  <2>2. QED
    BY <2>1
<1>5. CASE Consume(gui)
  <2>1. Serves
    BY <1>2, <1>5 DEF Serves, Control, Consumers, Home
  <2>2. QED
    BY <2>1
<1>6. CASE ManualRemove
  BY <1>6 DEF ManualRemove, RemoveCalled, UserActs, Serves, Control
<1>7. CASE Exited \/ UNCHANGED vars \/ \E w \in Workers : SetEnabled(w)
  BY <1>7 DEF Exited, SetEnabled, vars, local
<1>8. QED
  BY <1>1, <1>3, <1>4, <1>5, <1>6, <1>7 DEF Next, ProcStep, GuiStep, User

\* The processor is started last, and the constructor ends with it.
LaunchOrder ==
  /\ pc[gui] = "launch" <=> pc[processor] = "unborn"
  /\ pc[processor] # "unborn" => \A s \in Sources : pc[s] # "unborn"

LEMMA LaunchOrderInvariant == Spec => []LaunchOrder
<1>1. Init => LaunchOrder
  BY ThreadFacts DEF Init, ControllerInit, LaunchOrder
<1>2. IInv /\ LaunchOrder /\ [Next]_vars => LaunchOrder'
  <2> SUFFICES ASSUME IInv, LaunchOrder, [Next]_vars PROVE LaunchOrder'
    OBVIOUS
  <2> USE ThreadFacts DEF LaunchOrder
  <2>1. Types
    BY DEF IInv
  <2>2. ASSUME NEW w \in Workers, Works(w) PROVE LaunchOrder'
    BY <2>2 DEF Works, Asleep
  <2>3. ASSUME NEW w \in Workers, Launch(w) PROVE LaunchOrder'
    BY <2>1, <2>3 DEF Launch, Types, From, Before, Workers
  <2>4. ASSUME NEW w \in Workers, Join(w) PROVE LaunchOrder'
    BY <2>1, <2>4 DEF Join, Types, From
  <2>5. CASE Serves
    BY <2>5 DEF Serves, Control
  <2>6. CASE Close \/ Destroy
    BY <2>1, <2>6 DEF Close, Destroy, Types, From, Goto
  <2>7. CASE pc' = pc
    BY <2>7
  <2>8. QED
    BY <2>1, <2>2, <2>3, <2>4, <2>5, <2>6, <2>7, PlaceSteps
<1>3. QED
  BY <1>1, <1>2, Inductive, PTL DEF Spec

\* The controller implements Lifecycle: every step of a thread is a step of the
\* life cycle or leaves it alone.
THEOREM Lives == Spec => ImplementsLifecycle
<1> USE ThreadFacts
<1>1. Init => Life!Init
  BY DEF Init, ControllerInit, Life!Init, Phase, Born, Alive
<1>2. IInv /\ LaunchOrder /\ [Next]_vars => [Life!Next]_<<Phase, Born, Alive>>
  <2> SUFFICES ASSUME IInv, LaunchOrder, [Next]_vars
               PROVE  Life!Next \/ UNCHANGED <<Phase, Born, Alive>>
    OBVIOUS
  <2>1. Types /\ JoinOrder
    BY DEF IInv
  <2>2. ASSUME NEW w \in Workers, Works(w)
        PROVE  Life!Next \/ UNCHANGED <<Phase, Born, Alive>>
    <3>1. UNCHANGED <<Phase, Born>>
      BY <2>2 DEF Works, Phase, Born, Asleep
    <3>2. CASE pc'[w] = "stopped"
      <4>1. Phase = "stopping"
        BY <2>1, <2>2, <3>2 DEF Works, Phase, JoinOrder, Asleep, Workers
      <4>2. w \in Alive /\ Alive' = Alive \ {w}
        BY <2>2, <3>2 DEF Works, Alive, Asleep
      <4>3. QED
        BY <3>1, <4>1, <4>2 DEF Life!Next, Life!Stop
    <3>3. CASE pc'[w] # "stopped"
      BY <2>2, <3>1, <3>3 DEF Works, Alive, Asleep
    <3>4. QED
      BY <3>2, <3>3
  <2>3. ASSUME NEW w \in Workers, Launch(w) PROVE Life!Next
    <3>1. /\ pc[gui] = "launch" /\ pc[w] = "unborn" /\ pc'[w] = "loop"
          /\ pc'[gui] = IF w = processor THEN "events" ELSE "launch"
          /\ \A v \in Workers \ {w} : pc'[v] = pc[v]
      BY <2>1, <2>3 DEF Launch, Types, From
    <3>2. Born' = Born \cup {w} /\ w \notin Born
      BY <3>1 DEF Born
    <3>3. Alive' = Alive \cup {w}
      BY <3>1 DEF Alive
    <3>4. Phase = "starting" /\ Phase' = IF w = processor THEN "serving" ELSE "starting"
      BY <3>1 DEF Phase
    <3>5. Born' = Workers <=> w = processor
      <4>1. CASE w = processor
        <5>1. \A v \in Sources : pc[v] # "unborn"
          BY <2>3, <4>1 DEF Launch, Before
        <5>2. QED
          BY <3>1, <4>1, <5>1 DEF Born, Workers
      <4>2. CASE w # processor
        <5>1. processor \notin Born'
          BY <3>1, <4>2 DEF Born, LaunchOrder
        <5>2. QED
          BY <4>2, <5>1
      <4>3. QED
        BY <4>1, <4>2
    <3>6. Life!Start(w)
      BY <3>2, <3>3, <3>4, <3>5 DEF Life!Start
    <3>7. QED
      BY <3>6 DEF Life!Next
  <2>4. ASSUME NEW w \in Workers, Join(w) PROVE UNCHANGED <<Phase, Born, Alive>>
    <3>1. /\ pc[w] = "stopped" /\ pc'[w] = "joined" /\ pc'[gui] = pc[gui]
          /\ \A v \in Workers \ {w} : pc'[v] = pc[v]
      BY <2>1, <2>4 DEF Join, Types
    <3>2. QED
      BY <3>1 DEF Phase, Born, Alive
  <2>5. CASE Serves
    BY <2>5 DEF Serves, Control, Phase, Born, Alive
  <2>6. CASE Close
    <3>1. /\ pc[gui] = "events" /\ pc'[gui] = "join"
          /\ \A v \in Workers : pc'[v] = pc[v]
      BY <2>1, <2>6 DEF Close, Types, From, Goto
    <3>2. Phase = "serving" /\ Phase' = "stopping" /\ UNCHANGED <<Born, Alive>>
      BY <3>1 DEF Phase, Born, Alive
    <3>3. QED
      BY <3>2 DEF Life!Next, Life!Close
  <2>7. CASE Destroy
    <3>1. /\ pc[gui] = "join" /\ pc'[gui] = "gone" /\ pc[processor] = "joined"
          /\ \A v \in Workers : pc'[v] = pc[v]
      BY <2>1, <2>7 DEF Destroy, Types, From, Goto
    <3>2. Phase = "stopping" /\ Phase' = "gone" /\ UNCHANGED <<Born, Alive>>
      BY <3>1 DEF Phase, Born, Alive
    <3>3. Alive = {}
      BY <2>1, <3>1 DEF Alive, JoinOrder, Workers
    <3>4. QED
      BY <3>2, <3>3 DEF Life!Next, Life!Destroy
  <2>8. CASE pc' = pc
    BY <2>8 DEF Phase, Born, Alive
  <2>9. QED
    BY <2>1, <2>2, <2>3, <2>4, <2>5, <2>6, <2>7, <2>8, PlaceSteps
<1>3. QED
  BY <1>1, <1>2, Inductive, LaunchOrderInvariant, PTL
    DEF Spec, ImplementsLifecycle, Life!Spec

-----------------------------------------------------------------------------
(***************************************************************************)
(* The way of a reading: readings of a source follow each other round the  *)
(* robots (RoundRobin), and none is lost or used twice                     *)
(* (ImplementsPipeline).                                                   *)
(***************************************************************************)
\* The reading source s makes in this turn of its loop.
Made(s) == [source |-> s, robot |-> index[s]]

\* What a source carries agrees with its loop counter.
Carries(s) ==
  /\ pc[s] \in {"unborn", "loop", "gate"} => index[s] \in {0, NumRobots}
  /\ \/ pc[s] \in {"put", "retry"}
     \/ pc[s] = "putting" /\ stage[s] # "done"
     => held[s] = Made(s)
  /\ pc[s] = "putting" /\ stage[s] = "pending" => item[s] = held[s]

Carried == \A s \in Sources : Carries(s)

\* What a step does to the threads it is not a step of.
Same(u) ==
  pc'[u] = pc[u] /\ stage'[u] = stage[u] /\ held'[u] = held[u] /\ item'[u] = item[u]

LEMMA SourceSame ==
  ASSUME Types, NEW s \in Sources, SrcStep(s) \/ SrcEnqueue(s)
  PROVE  \A u \in AllThreads \ {s} : Same(u)
BY ThreadFacts
DEF Types, Same, SrcStep, SrcLoop, SrcGate, SrcRobot, SrcPut, PutCalled,
    SrcEnqueue, Touches, SrcPutDone, PutReturned, SrcPutFail, PutTimedOut,
    SrcRetry, Goto, Hold, buffer, local, Fifo!Invoke, Fifo!Enqueue,
    Fifo!TakesEffect, Fifo!Return, Fifo!Fail, Fifo!EndCall

LEMMA ConsumerSame ==
  ASSUME Types, NEW t \in Consumers, Consume(t)
  PROVE  \A u \in AllThreads \ {t} : Same(u)
BY ThreadFacts
DEF Types, Same, Consumers, Consume, TakeItem, Touches, TakeDone,
    TakeReturned, TakeFail, TakeTimedOut, Insert, Apply, Goto, Hold,
    buffer, local, Fifo!Dequeue, Fifo!TakesEffect, Fifo!Return, Fifo!Fail, Fifo!EndCall

\* The steps that handle no reading.
Idles ==
  \/ ProcLoop \/ ProcGate \/ User \/ Destroy \/ Exited \/ UNCHANGED vars
  \/ \E w \in Workers : Launch(w) \/ Join(w)

\* They leave the sources' hands alone, and what places they change is the start
\* and the end of a thread.
LEMMA IdleSources ==
  ASSUME Types, Idles
  PROVE  /\ UNCHANGED <<queue, index, matrix, held>>
         /\ \A s \in Sources :
              /\ stage'[s] = stage[s] /\ item'[s] = item[s]
              /\ \/ pc'[s] = pc[s]
                 \/ pc[s] = "unborn" /\ pc'[s] = "loop"
                 \/ pc[s] = "stopped" /\ pc'[s] = "joined"
<1> USE ThreadFacts DEF Types, From, Goto, buffer, local, config
<1>1. CASE ProcLoop \/ ProcGate
  BY <1>1 DEF ProcLoop, ProcGate, ProcCalls, ProcSkips, Fifo!Invoke
<1>2. CASE User
  BY <1>2 DEF User, SetEnabled, ManualRemove, RemoveCalled, Close, Fifo!Invoke
<1>3. CASE Destroy \/ Exited \/ UNCHANGED vars
  BY <1>3 DEF Destroy, Exited, vars
<1>4. ASSUME NEW w \in Workers, Launch(w) \/ Join(w)
      PROVE  /\ UNCHANGED <<queue, index, matrix, held>>
             /\ \A s \in Sources :
                  /\ stage'[s] = stage[s] /\ item'[s] = item[s]
                  /\ \/ pc'[s] = pc[s]
                     \/ pc[s] = "unborn" /\ pc'[s] = "loop"
                     \/ pc[s] = "stopped" /\ pc'[s] = "joined"
  BY <1>4 DEF Launch, Join
<1>5. QED
  BY <1>1, <1>2, <1>3, <1>4 DEF Idles

\* A step is a source's, a consumer's or an idle one.
LEMMA Actors ==
  ASSUME [Next]_vars
  PROVE  \/ \E s \in Sources : SrcStep(s) \/ SrcEnqueue(s)
         \/ \E t \in Consumers : Consume(t)
         \/ Idles
BY DEF Next, ProcStep, GuiStep, Consumers, Idles

LEMMA CarriedNext ==
  ASSUME IInv, Carried, [Next]_vars
  PROVE  Carried'
<1> USE ThreadFacts, NumberFacts DEF IInv, Types, Carried, Carries, Made
<1>1. ASSUME NEW s \in Sources, SrcStep(s) \/ SrcEnqueue(s) PROVE Carried'
  <2>1. \A u \in Sources \ {s} : Same(u) /\ index'[u] = index[u]
    BY <1>1, SourceSame, SourceFrame
  <2>2. Carries(s)'
    <3> USE DEF From, Goto, Hold, buffer, config, local
    <3>1. CASE SrcLoop(s)
      BY <3>1 DEF SrcLoop
    <3>2. CASE SrcGate(s)
      BY <3>2 DEF SrcGate
    <3>3. CASE SrcRobot(s)
      BY <3>3 DEF SrcRobot
    <3>4. CASE SrcPut(s)
      BY <3>4 DEF SrcPut, PutCalled, Fifo!Invoke
    <3>5. CASE SrcEnqueue(s)
      BY <3>5 DEF SrcEnqueue, Touches, Fifo!Enqueue, Fifo!TakesEffect
    <3>6. CASE SrcPutDone(s)
      BY <3>6 DEF SrcPutDone, PutReturned, Fifo!Return, Fifo!EndCall, Hands
    <3>7. CASE SrcPutFail(s)
      BY <3>7 DEF SrcPutFail, PutTimedOut, Fifo!Fail, Fifo!EndCall
    <3>8. CASE SrcRetry(s)
      BY <3>8 DEF SrcRetry
    <3>9. QED
      BY <1>1, <3>1, <3>2, <3>3, <3>4, <3>5, <3>6, <3>7, <3>8 DEF SrcStep
  <2>3. QED
    BY <2>1, <2>2 DEF Same
<1>2. ASSUME NEW t \in Consumers, Consume(t) PROVE Carried'
  <2>1. \A s \in Sources : Same(s) /\ index'[s] = index[s]
    BY <1>2, ConsumerSame, ConsumerFrame DEF Consumers
  <2>2. QED
    BY <2>1 DEF Same
<1>3. CASE Idles
  BY <1>3, IdleSources
<1>4. QED
  BY <1>1, <1>2, <1>3, Actors

LEMMA CarriedAlways == Spec => [](IInv /\ Carried)
<1>1. Init => Carried
  BY ThreadFacts DEF Init, ControllerInit, Fifo!Init, Carried, Carries
<1>2. QED
  BY <1>1, CarriedNext, Inductive, PTL DEF Spec

-----------------------------------------------------------------------------
\* The robot of the next reading that source s adds to the buffer.
Due(s) ==
  IF pc[s] = "putting" /\ stage[s] = "done" THEN NextRobot(index[s])
    ELSE IF index[s] < NumRobots THEN index[s] ELSE 0

\* Between two readings of source s at i and j there is no other of s.
Follows(q, s, i, j) ==
  /\ i < j /\ q[i].source = s /\ q[j].source = s
  /\ \A k \in (i + 1)..(j - 1) : q[k].source # s

IsNewest(q, s, i) == q[i].source = s /\ \A k \in (i + 1)..Len(q) : q[k].source # s

InTurn(q) ==
  \A s \in Sources : \A i, j \in 1..Len(q) :
    Follows(q, s, i, j) => q[j].robot = NextRobot(q[i].robot)

NewestIsDue ==
  \A s \in Sources : \A i \in 1..Len(queue) :
    IsNewest(queue, s, i) => NextRobot(queue[i].robot) = Due(s)

\* A source adds the reading that is due; nothing else changes what is due.
LEMMA DueSteps ==
  ASSUME IInv, Carried, [Next]_vars
  PROVE  \/ \E s \in Sources :
              /\ queue' = Append(queue, Made(s))
              /\ index[s] = Due(s) /\ Due(s)' = NextRobot(index[s])
              /\ \A o \in Sources \ {s} : Due(o)' = Due(o)
         \/ /\ queue' = queue \/ (queue # <<>> /\ queue' = Tail(queue))
            /\ \A s \in Sources : Due(s)' = Due(s)
<1> DEFINE Adds(s) == /\ queue' = Append(queue, Made(s))
                      /\ index[s] = Due(s) /\ Due(s)' = NextRobot(index[s])
                      /\ \A o \in Sources \ {s} : Due(o)' = Due(o)
           Keeps == /\ queue' = queue \/ (queue # <<>> /\ queue' = Tail(queue))
                    /\ \A s \in Sources : Due(s)' = Due(s)
<1> USE ThreadFacts, NumberFacts
<1>1. ASSUME NEW s \in Sources, SrcStep(s) \/ SrcEnqueue(s) PROVE Adds(s) \/ Keeps
  <2>1. \A o \in Sources \ {s} : Due(o)' = Due(o)
    BY <1>1, SourceFrame DEF IInv, Due
  <2> HIDE DEF NextRobot
  <2> USE DEF IInv, Types, From, Goto, Hold, buffer, config, local
  <2>2. CASE SrcEnqueue(s)
    <3>1. queue' = Append(queue, item[s]) /\ stage'[s] = "done" /\ pc' = pc /\ index' = index
          /\ pc[s] = "putting" /\ stage[s] = "pending"
      BY <2>2 DEF SrcEnqueue, Touches, Fifo!Enqueue, Fifo!TakesEffect
    <3>2. item[s] = Made(s)
      BY <3>1 DEF Carried, Carries
    <3>3. index[s] < NumRobots
      BY <3>1 DEF Hands
    <3>4. QED
      BY <2>1, <3>1, <3>2, <3>3 DEF Due
  <2>3. CASE SrcStep(s)
    <3>1. queue' = queue
      BY <2>3
      DEF SrcStep, SrcLoop, SrcGate, SrcRobot, SrcPut, PutCalled, SrcPutDone,
          PutReturned, SrcPutFail, PutTimedOut, SrcRetry,
          Fifo!Invoke, Fifo!Return, Fifo!Fail, Fifo!EndCall
    <3>2. Due(s)' = Due(s)
      <4>1. CASE SrcLoop(s)
        BY <4>1 DEF SrcLoop, Due
      <4>2. CASE SrcGate(s)
        BY <4>2 DEF SrcGate, Due, Carried, Carries
      <4>3. CASE SrcRobot(s)
        BY <4>3 DEF SrcRobot, Due
      <4>4. CASE SrcPut(s)
        BY <4>4 DEF SrcPut, PutCalled, Fifo!Invoke, Due
      <4>5. CASE SrcPutDone(s)
        BY <4>5
          DEF SrcPutDone, PutReturned, Fifo!Return, Fifo!EndCall, Due, Hands,
              NextRobot
      <4>6. CASE SrcPutFail(s)
        BY <4>6 DEF SrcPutFail, PutTimedOut, Fifo!Fail, Fifo!EndCall, Due
      <4>7. CASE SrcRetry(s)
        BY <4>7 DEF SrcRetry, Due
      <4>8. QED
        BY <2>3, <4>1, <4>2, <4>3, <4>4, <4>5, <4>6, <4>7 DEF SrcStep
    <3>3. QED
      BY <2>1, <3>1, <3>2
  <2>4. QED
    BY <1>1, <2>2, <2>3
<1>2. ASSUME NEW t \in Consumers, Consume(t) PROVE Keeps
  <2>1. \A s \in Sources : Due(s)' = Due(s)
    BY <1>2, ConsumerFrame DEF IInv, Due, Consumers
  <2>2. queue' = queue \/ (queue # <<>> /\ queue' = Tail(queue))
    BY <1>2
    DEF Consume, TakeItem, Touches, TakeDone, TakeReturned, TakeFail,
        TakeTimedOut, Insert, Apply, buffer, Fifo!Dequeue,
        Fifo!Return, Fifo!Fail, Fifo!EndCall
  <2>3. QED
    BY <2>1, <2>2
<1>3. CASE Idles
  BY <1>3, IdleSources DEF IInv, Due
<1>4. QED
  BY <1>1, <1>2, <1>3, Actors

\* A reading that is due keeps the order when it is added,
LEMMA AppendInTurn ==
  ASSUME NEW q \in Seq(Readings), InTurn(q), NEW s \in Sources, NEW r \in Robots,
         \A i \in 1..Len(q) : IsNewest(q, s, i) => NextRobot(q[i].robot) = r
  PROVE  InTurn(Append(q, [source |-> s, robot |-> r]))
<1> DEFINE new == [source |-> s, robot |-> r]
           longer == Append(q, new)
<1>1. /\ Len(q) \in Nat /\ Len(longer) = Len(q) + 1
      /\ \A i \in 1..Len(q) : longer[i] = q[i]
      /\ longer[Len(q) + 1] = new
  <2>1. new \in Readings
    BY DEF Readings
  <2>2. QED
    BY <2>1
<1>2. new.source = s /\ new.robot = r
  OBVIOUS
<1> HIDE DEF longer, new
<1>3. ASSUME NEW o \in Sources, NEW i \in 1..Len(longer), NEW j \in 1..Len(longer),
             Follows(longer, o, i, j)
      PROVE  longer[j].robot = NextRobot(longer[i].robot)
  <2>1. i \in 1..Len(q) /\ i < j
    BY <1>1, <1>3 DEF Follows
  <2>2. CASE j \in 1..Len(q)
    <3>1. Follows(q, o, i, j)
      BY <1>1, <1>3, <2>1, <2>2 DEF Follows
    <3>2. QED
      BY <1>1, <2>1, <2>2, <3>1 DEF InTurn
  <2>3. CASE j = Len(q) + 1
    <3>1. o = s /\ IsNewest(q, s, i)
      BY <1>1, <1>2, <1>3, <2>1, <2>3 DEF Follows, IsNewest
    <3>2. QED
      BY <1>1, <1>2, <2>1, <2>3, <3>1
  <2>4. QED
    BY <1>1, <2>2, <2>3
<1>4. InTurn(longer)
  BY <1>3 DEF InTurn
<1>5. QED
  BY <1>4 DEF longer, new

\* and so does a take, which moves every reading one place forward.
LEMMA TailShifts ==
  ASSUME NEW q \in Seq(Readings), q # <<>>
  PROVE  /\ Len(q) \in Nat \ {0} /\ Len(Tail(q)) = Len(q) - 1
         /\ \A i \in 1..(Len(q) - 1) : Tail(q)[i] = q[i + 1]
OBVIOUS

LEMMA TailFollows ==
  ASSUME NEW q \in Seq(Readings), q # <<>>, NEW s
  PROVE  /\ \A i, j \in 1..Len(Tail(q)) : Follows(Tail(q), s, i, j) => Follows(q, s, i + 1, j + 1)
         /\ \A i \in 1..Len(Tail(q)) : IsNewest(Tail(q), s, i) => IsNewest(q, s, i + 1)
<1> DEFINE rest == Tail(q)
<1>1. /\ Len(q) \in Nat /\ Len(rest) = Len(q) - 1
      /\ \A k \in 2..Len(q) : k - 1 \in 1..Len(rest) /\ q[k] = rest[k - 1]
      /\ \A i \in 1..Len(rest) : rest[i] = q[i + 1]
  BY TailShifts
<1> HIDE DEF rest
<1>2. ASSUME NEW i \in 1..Len(rest), NEW j \in 1..Len(rest), Follows(rest, s, i, j)
      PROVE  Follows(q, s, i + 1, j + 1)
  <2>1. ASSUME NEW k \in (i + 2)..j PROVE q[k].source # s
    <3>1. k - 1 \in (i + 1)..(j - 1) /\ k \in 2..Len(q)
      BY <1>1
    <3>2. QED
      BY <1>1, <1>2, <3>1 DEF Follows
  <2>2. QED
    BY <1>1, <1>2, <2>1 DEF Follows
<1>3. ASSUME NEW i \in 1..Len(rest), IsNewest(rest, s, i) PROVE IsNewest(q, s, i + 1)
  <2>1. ASSUME NEW k \in (i + 2)..Len(q) PROVE q[k].source # s
    <3>1. k - 1 \in (i + 1)..Len(rest) /\ k \in 2..Len(q)
      BY <1>1
    <3>2. QED
      BY <1>1, <1>3, <3>1 DEF IsNewest
  <2>2. QED
    BY <1>1, <1>3, <2>1 DEF IsNewest
<1>4. QED
  BY <1>2, <1>3 DEF rest

LEMMA TurnsNext ==
  ASSUME IInv, Carried, InTurn(queue), NewestIsDue, [Next]_vars
  PROVE  InTurn(queue)' /\ NewestIsDue'
<1>1. queue \in Seq(Readings) /\ Len(queue) \in Nat
  BY DEF IInv, Types
<1>2. ASSUME NEW s \in Sources, queue' = Append(queue, Made(s)),
             index[s] = Due(s), Due(s)' = NextRobot(index[s]),
             \A o \in Sources \ {s} : Due(o)' = Due(o)
      PROVE  InTurn(queue)' /\ NewestIsDue'
  <2>1. index[s] \in Robots
    <3>1. Due(s) # NumRobots
      BY NumberFacts, <1>2 DEF Due, NextRobot
    <3>2. QED
      BY <1>2, <3>1, NumberFacts DEF IInv, Types, Robots
  <2>2. Made(s) \in Readings /\ Made(s).source = s /\ Made(s).robot = index[s]
    BY <2>1 DEF Made, Readings
  <2>3. InTurn(queue)'
    <3>1. \A i \in 1..Len(queue) : IsNewest(queue, s, i) => NextRobot(queue[i].robot) = index[s]
      BY <1>2 DEF NewestIsDue
    <3>2. InTurn(Append(queue, Made(s)))
      BY <1>1, <2>1, <3>1, AppendInTurn DEF Made
    <3>3. QED
      BY <1>2, <3>2 DEF InTurn
  <2>4. /\ Len(queue') = Len(queue) + 1 /\ queue'[Len(queue) + 1] = Made(s)
        /\ \A i \in 1..Len(queue) : queue'[i] = queue[i]
    BY <1>1, <1>2, <2>2
  <2>5. ASSUME NEW o \in Sources, NEW i \in 1..Len(queue'), IsNewest(queue', o, i)
        PROVE  NextRobot(queue'[i].robot) = Due(o)'
    <3>1. CASE i = Len(queue) + 1
      BY <1>2, <2>2, <2>4, <2>5, <3>1 DEF IsNewest
    <3>2. CASE i \in 1..Len(queue)
      <4>1. Len(queue) + 1 \in (i + 1)..Len(queue')
        BY <1>1, <2>4, <3>2
      <4>2. o # s
        BY <2>2, <2>4, <2>5, <4>1 DEF IsNewest
      <4>3. \A k \in (i + 1)..Len(queue) : k \in (i + 1)..Len(queue') /\ k \in 1..Len(queue)
        BY <1>1, <2>4, <3>2
      <4>4. IsNewest(queue, o, i)
        BY <2>4, <2>5, <3>2, <4>3 DEF IsNewest
      <4>5. QED
        BY <1>2, <2>4, <3>2, <4>2, <4>4 DEF NewestIsDue
    <3>3. QED
      BY <1>1, <2>4, <3>1, <3>2
  <2>6. QED
    BY <2>3, <2>5 DEF NewestIsDue, IsNewest
<1>3. ASSUME queue # <<>>, queue' = Tail(queue), \A s \in Sources : Due(s)' = Due(s)
      PROVE  InTurn(queue)' /\ NewestIsDue'
  <2>1. \A i \in 1..Len(queue') : i + 1 \in 1..Len(queue) /\ queue'[i] = queue[i + 1]
    BY <1>1, <1>3, TailShifts
  <2>2. ASSUME NEW s \in Sources, NEW i \in 1..Len(queue'), NEW j \in 1..Len(queue'),
               Follows(queue', s, i, j)
        PROVE  queue'[j].robot = NextRobot(queue'[i].robot)
    <3>1. Follows(queue, s, i + 1, j + 1)
      BY <1>1, <1>3, <2>2, TailFollows
    <3>2. QED
      BY <2>1, <3>1 DEF InTurn
  <2>3. ASSUME NEW s \in Sources, NEW i \in 1..Len(queue'), IsNewest(queue', s, i)
        PROVE  NextRobot(queue'[i].robot) = Due(s)'
    <3>1. IsNewest(queue, s, i + 1)
      BY <1>1, <1>3, <2>3, TailFollows
    <3>2. QED
      BY <1>3, <2>1, <3>1 DEF NewestIsDue
  <2>4. QED
    BY <2>2, <2>3 DEF InTurn, NewestIsDue, Follows, IsNewest
<1>4. ASSUME queue' = queue, \A s \in Sources : Due(s)' = Due(s)
      PROVE  InTurn(queue)' /\ NewestIsDue'
  BY <1>4 DEF InTurn, NewestIsDue, Follows, IsNewest
<1>5. QED
  BY <1>2, <1>3, <1>4, DueSteps

\* The readings of a source enter the buffer, and leave it, in the order of its
\* loop over the robots, with the one it is about to put the next in turn
\* (backendcontroller.cpp:307-327).
THEOREM InCycleOrder == Spec => []RoundRobin
<1>1. Init => InTurn(queue) /\ NewestIsDue
  BY DEF Init, ControllerInit, Fifo!Init, InTurn, NewestIsDue
<1>2. IInv /\ Carried /\ InTurn(queue) /\ NewestIsDue => RoundRobin
  <2> SUFFICES ASSUME IInv, Carried, InTurn(queue), NewestIsDue, NEW s \in Sources
               PROVE  LET line == queue \o Pending(s)
                      IN  \A i, j \in 1..Len(line) :
                            Follows(line, s, i, j) => line[j].robot = NextRobot(line[i].robot)
    BY DEF RoundRobin, Follows
  <2>1. queue \in Seq(Readings)
    BY DEF IInv, Types
  <2>2. CASE Pending(s) = <<>>
    <3>1. queue \o Pending(s) = queue
      BY <2>1, <2>2
    <3>2. QED
      BY <3>1 DEF InTurn
  <2>3. CASE Pending(s) # <<>>
    <3>1. pc[s] \in {"put", "putting", "retry"} /\ stage[s] # "done" /\ Pending(s) = <<held[s]>>
      BY <2>3 DEF Pending
    <3>2. held[s] = Made(s)
      BY <3>1 DEF Carried, Carries
    <3>3. index[s] \in Robots /\ index[s] < NumRobots
      BY <3>1, NumberFacts DEF IInv, Types, Hands, Robots
    <3>4. Due(s) = index[s]
      BY <3>1, <3>3 DEF Due
    <3>5. Made(s) \in Readings
      BY <3>3 DEF Made, Readings
    <3>6. queue \o Pending(s) = Append(queue, Made(s))
      BY <2>1, <3>1, <3>2, <3>5
    <3>7. \A i \in 1..Len(queue) : IsNewest(queue, s, i) => NextRobot(queue[i].robot) = index[s]
      BY <3>4 DEF NewestIsDue
    <3>8. InTurn(Append(queue, Made(s)))
      BY <2>1, <3>3, <3>7, AppendInTurn DEF Made
    <3>9. QED
      BY <3>6, <3>8 DEF InTurn
  <2>4. QED
    BY <2>2, <2>3
<1>3. QED
  BY <1>1, <1>2, TurnsNext, CarriedAlways, PTL DEF Spec

-----------------------------------------------------------------------------
(***************************************************************************)
(* How many copies of a reading there are: in the buffer and in the hands  *)
(* of threads.                                                             *)
(***************************************************************************)
Places(q, v) == {i \in DOMAIN q : q[i] = v}

Bearers(v) == {t \in AllThreads : InHand(t) = v}

One(condition) == IF condition THEN 1 ELSE 0

LEMMA ThreadsFinite == IsFiniteSet(AllThreads)
<1>1. IsFiniteSet(Sources)
  BY BackendAssumption, FS_Interval DEF Sources
<1>2. QED
  BY <1>1, FS_AddElement DEF AllThreads, Workers

LEMMA CopiesSplit ==
  ASSUME NEW v
  PROVE  Copies(v) = Cardinality(Places(queue, v)) + Cardinality(Bearers(v))
BY DEF Copies, Places, Bearers

LEMMA PlacesFinite ==
  ASSUME NEW q \in Seq(Readings), NEW v
  PROVE  IsFiniteSet(Places(q, v)) /\ Cardinality(Places(q, v)) \in Nat
<1>1. Places(q, v) \in SUBSET (1..Len(q)) /\ Len(q) \in Nat
  BY DEF Places
<1>2. IsFiniteSet(1..Len(q))
  BY <1>1, FS_Interval
<1>3. QED
  BY <1>1, <1>2, FS_Subset, FS_CardinalityType

LEMMA BearersFinite ==
  ASSUME NEW v
  PROVE  IsFiniteSet(Bearers(v)) /\ Cardinality(Bearers(v)) \in Nat
<1>1. Bearers(v) \in SUBSET AllThreads
  BY DEF Bearers
<1>2. QED
  BY <1>1, ThreadsFinite, FS_Subset, FS_CardinalityType

\* A reading that is added to the buffer is counted once,
LEMMA AppendCount ==
  ASSUME NEW q \in Seq(Readings), NEW x \in Readings, NEW v
  PROVE  Cardinality(Places(Append(q, x), v)) = Cardinality(Places(q, v)) + One(x = v)
<1>1. /\ Len(q) \in Nat /\ DOMAIN q = 1..Len(q) /\ DOMAIN Append(q, x) = 1..(Len(q) + 1)
      /\ \A i \in 1..Len(q) : Append(q, x)[i] = q[i]
      /\ Append(q, x)[Len(q) + 1] = x
  OBVIOUS
<1>2. CASE x = v
  <2>1. Places(Append(q, x), v) = Places(q, v) \cup {Len(q) + 1}
    BY <1>1, <1>2 DEF Places
  <2>2. Len(q) + 1 \notin Places(q, v)
    BY <1>1 DEF Places
  <2>3. QED
    BY <1>2, <2>1, <2>2, PlacesFinite, FS_AddElement DEF One
<1>3. CASE x # v
  <2>1. Places(Append(q, x), v) = Places(q, v)
    BY <1>1, <1>3 DEF Places
  <2>2. QED
    BY <1>3, <2>1, PlacesFinite DEF One
<1>4. QED
  BY <1>2, <1>3

\* and one that is taken is counted no more.
LEMMA TailCount ==
  ASSUME NEW q \in Seq(Readings), q # <<>>, NEW v
  PROVE  Cardinality(Places(q, v)) = Cardinality(Places(Tail(q), v)) + One(Head(q) = v)
<1> DEFINE later == Places(q, v) \ {1}
           shift == [i \in Places(Tail(q), v) |-> i + 1]
<1>1. /\ Len(q) \in Nat \ {0} /\ DOMAIN q = 1..Len(q) /\ Head(q) = q[1]
      /\ Tail(q) \in Seq(Readings) /\ DOMAIN Tail(q) = 1..(Len(q) - 1)
      /\ \A i \in 1..(Len(q) - 1) : Tail(q)[i] = q[i + 1]
  BY TailShifts
<1>2. shift \in Bijection(Places(Tail(q), v), later)
  <2>1. \A i \in Places(Tail(q), v) : i \in Nat \ {0} /\ i + 1 \in later
    BY <1>1 DEF Places
  <2>2. \A k \in later : k - 1 \in Places(Tail(q), v) /\ k \in Nat
    BY <1>1 DEF Places
  <2>3. shift \in [Places(Tail(q), v) -> later]
    BY <2>1
  <2>4. \A i, j \in Places(Tail(q), v) : shift[i] = shift[j] => i = j
    BY <2>1
  <2>5. \A k \in later : \E i \in Places(Tail(q), v) : shift[i] = k
    <3> TAKE k \in later
    <3>1. k - 1 \in Places(Tail(q), v) /\ shift[k - 1] = k
      BY <2>2
    <3>2. QED
      BY <3>1
  <2> HIDE DEF shift, later
  <2>6. QED
    BY <2>3, <2>4, <2>5 DEF Bijection, Injection, Surjection, IsInjective
<1>3. Cardinality(later) = Cardinality(Places(Tail(q), v))
  <2>1. ExistsBijection(Places(Tail(q), v), later)
    BY <1>2 DEF ExistsBijection
  <2>2. IsFiniteSet(Places(Tail(q), v))
    BY <1>1, PlacesFinite
  <2> HIDE DEF later, shift
  <2>3. QED
    BY <2>1, <2>2, FS_Bijection
<1>4. Cardinality(later) = Cardinality(Places(q, v)) - One(1 \in Places(q, v))
  <2>1. IsFiniteSet(Places(q, v)) /\ Cardinality(Places(q, v)) \in Nat
    BY PlacesFinite
  <2>2. Cardinality(later)
          = IF 1 \in Places(q, v) THEN Cardinality(Places(q, v)) - 1 ELSE Cardinality(Places(q, v))
    BY <2>1, FS_RemoveElement, Zenon
  <2>3. QED
    BY <2>1, <2>2 DEF One
<1>5. 1 \in Places(q, v) <=> Head(q) = v
  BY <1>1 DEF Places
<1>6. QED
  BY <1>1, <1>3, <1>4, <1>5, PlacesFinite DEF One

\* A step of one thread changes what that thread has in its hands at most.
LEMMA BearerCount ==
  ASSUME NEW t \in AllThreads, \A u \in AllThreads \ {t} : InHand(u)' = InHand(u), NEW v
  PROVE  Cardinality(Bearers(v)')
           = Cardinality(Bearers(v)) - One(InHand(t) = v) + One(InHand(t)' = v)
<1> DEFINE others == Bearers(v) \ {t}
<1>1. Bearers(v)' = IF InHand(t)' = v THEN others \cup {t} ELSE others
  BY DEF Bearers
<1>2. IsFiniteSet(others) /\ Cardinality(others) = Cardinality(Bearers(v)) - One(InHand(t) = v)
  <2>1. t \in Bearers(v) <=> InHand(t) = v
    BY DEF Bearers
  <2>2. QED
    BY <2>1, BearersFinite, FS_RemoveElement DEF One
<1>3. Cardinality(others \cup {t}) = Cardinality(others) + 1
  BY <1>2, FS_AddElement
<1> HIDE DEF others
<1>4. Cardinality(others) \in Nat
  BY <1>2, FS_CardinalityType
<1>5. QED
  BY <1>1, <1>2, <1>3, <1>4 DEF One

-----------------------------------------------------------------------------
(***************************************************************************)
(* The refinement: what a step does to the variables of Pipeline.          *)
(***************************************************************************)
Flight == [v \in Readings |-> Copies(v)]

Target == [t \in Consumers |-> IF pc[t] = "apply" THEN held[t].robot ELSE NoItem]

LEMMA Countable == ASSUME Types PROVE \A v : Copies(v) \in Nat
<1>1. \A v : Cardinality(Places(queue, v)) \in Nat /\ Cardinality(Bearers(v)) \in Nat
  BY PlacesFinite, BearersFinite DEF Types
<1>2. QED
  BY <1>1, CopiesSplit

\* A thread that exchanges what it has in its hands changes the counts of both,
LEMMA Exchange ==
  ASSUME Types, NEW t \in AllThreads, \A u \in AllThreads \ {t} : Same(u), queue' = queue, NEW v
  PROVE  Copies(v)' = Copies(v) - One(InHand(t) = v) + One(InHand(t)' = v)
<1>1. \A u \in AllThreads \ {t} : InHand(u)' = InHand(u)
  BY DEF Same, InHand
<1>2. Cardinality(Bearers(v)')
        = Cardinality(Bearers(v)) - One(InHand(t) = v) + One(InHand(t)' = v)
  BY <1>1, BearerCount
<1>3. Copies(v)' = Cardinality(Places(queue, v)) + Cardinality(Bearers(v)')
  BY DEF Copies, Places, Bearers
<1>4. /\ Cardinality(Places(queue, v)) \in Nat /\ Cardinality(Bearers(v)) \in Nat
      /\ One(InHand(t) = v) \in Nat /\ One(InHand(t)' = v) \in Nat
  BY PlacesFinite, BearersFinite DEF Types, One
<1>5. QED
  BY <1>2, <1>3, <1>4, CopiesSplit

\* an enqueue moves a reading from the source's hands to the buffer,
LEMMA EnqueueKeeps ==
  ASSUME IInv, Carried, NEW s \in Sources, SrcEnqueue(s), NEW v \in Readings
  PROVE  Copies(v)' = Copies(v)
<1> USE ThreadFacts
<1>1. /\ pc[s] = "putting" /\ stage[s] = "pending" /\ stage'[s] = "done" /\ pc' = pc
      /\ queue' = Append(queue, item[s]) /\ queue \in Seq(Readings)
  BY
    DEF IInv, Types, SrcEnqueue, Touches, Fifo!Enqueue, Fifo!TakesEffect,
        From, local
<1>2. item[s] = held[s] /\ held[s] \in Readings
  BY <1>1 DEF Carried, Carries, IInv, Hands
<1>3. InHand(s) = held[s] /\ InHand(s)' = NoItem
  BY <1>1 DEF InHand
<1>4. \A u \in AllThreads \ {s} : InHand(u)' = InHand(u)
  BY SourceSame DEF IInv, Same, InHand
<1>5. Cardinality(Bearers(v)') = Cardinality(Bearers(v)) - One(held[s] = v)
  <2>1. One(InHand(s)' = v) = 0
    BY <1>3, BackendAssumption DEF One
  <2>2. Cardinality(Bearers(v)')
          = Cardinality(Bearers(v)) - One(InHand(s) = v) + One(InHand(s)' = v)
    BY <1>4, BearerCount
  <2>3. QED
    BY <1>3, <2>1, <2>2, BearersFinite DEF One
<1>6. Cardinality(Places(queue', v)) = Cardinality(Places(queue, v)) + One(held[s] = v)
  BY <1>1, <1>2, AppendCount
<1>7. Copies(v)' = Cardinality(Places(queue', v)) + Cardinality(Bearers(v)')
  BY DEF Copies, Places, Bearers
<1>8. QED
  BY <1>1, <1>5, <1>6, <1>7, CopiesSplit, PlacesFinite, BearersFinite DEF One

\* and a take from the buffer to the consumer's.
LEMMA TakeKeeps ==
  ASSUME IInv, NEW t \in Consumers, TakeItem(t), NEW v \in Readings
  PROVE  Copies(v)' = Copies(v)
<1> USE ThreadFacts DEF Consumers
<1>1. /\ pc[t] = "taking" /\ stage[t] = "pending" /\ stage'[t] = "done" /\ pc' = pc
      /\ item'[t] = Head(queue) /\ queue # <<>> /\ queue' = Tail(queue)
      /\ queue \in Seq(Readings)
  BY DEF IInv, Types, TakeItem, Touches, Fifo!Dequeue, Fifo!TakesEffect, From, local
<1>2. InHand(t) = NoItem /\ InHand(t)' = Head(queue)
  BY <1>1 DEF InHand
<1>3. \A u \in AllThreads \ {t} : InHand(u)' = InHand(u)
  <2>1. Consume(t)
    BY DEF Consume
  <2>2. QED
    BY <2>1, ConsumerSame DEF IInv, Same, InHand
<1>4. Cardinality(Bearers(v)') = Cardinality(Bearers(v)) + One(Head(queue) = v)
  <2>1. One(InHand(t) = v) = 0
    BY <1>2, BackendAssumption DEF One
  <2>2. Cardinality(Bearers(v)')
          = Cardinality(Bearers(v)) - One(InHand(t) = v) + One(InHand(t)' = v)
    BY <1>3, BearerCount
  <2>3. QED
    BY <1>2, <2>1, <2>2, BearersFinite DEF One
<1>5. Cardinality(Places(queue, v)) = Cardinality(Places(queue', v)) + One(Head(queue) = v)
  BY <1>1, TailCount
<1>6. Copies(v)' = Cardinality(Places(queue', v)) + Cardinality(Bearers(v)')
  BY DEF Copies, Places, Bearers
<1>7. Cardinality(Places(queue', v)) \in Nat
  <2>1. queue' \in Seq(Readings)
    BY <1>1
  <2>2. QED
    BY <2>1, PlacesFinite
<1>8. QED
  BY <1>1, <1>4, <1>5, <1>6, <1>7, CopiesSplit, PlacesFinite, BearersFinite DEF One

\* What is produced, dropped or inserted is counted once.
LEMMA FlightCounts ==
  ASSUME Types, NEW t \in AllThreads, \A u \in AllThreads \ {t} : Same(u), queue' = queue
  PROVE  /\ InHand(t)' = InHand(t) => Flight' = Flight
         /\ \A v \in Readings : InHand(t) = NoItem /\ InHand(t)' = v =>
              Flight'[v] = Flight[v] + 1 /\ Flight' = [Flight EXCEPT ![v] = Flight[v] + 1]
         /\ \A v \in Readings : InHand(t) = v /\ InHand(t)' = NoItem =>
              /\ Flight[v] > 0
              /\ Flight'[v] = Flight[v] - 1 /\ Flight' = [Flight EXCEPT ![v] = Flight[v] - 1]
<1>1. \A v \in Readings : Copies(v)' = Copies(v) - One(InHand(t) = v) + One(InHand(t)' = v)
  BY Exchange
<1>2. \A v \in Readings : Copies(v) \in Nat /\ v # NoItem
  BY Countable, BackendAssumption
<1>3. Flight = [v \in Readings |-> Copies(v)] /\ Flight' = [v \in Readings |-> Copies(v)']
  BY DEF Flight
<1>4. ASSUME NEW v \in Readings, InHand(t) = v PROVE Copies(v) > 0
  <2>1. v = InHand(t) /\ t \in Bearers(v)
    BY <1>4 DEF Bearers
  <2>2. Cardinality(Bearers(v)) > 0
    BY <2>1, BearersFinite, FS_EmptySet
  <2>3. QED
    BY <2>2, CopiesSplit, PlacesFinite, BearersFinite DEF Types
<1>5. InHand(t)' = InHand(t) => Flight' = Flight
  BY <1>1, <1>2, <1>3 DEF One
<1>6. ASSUME NEW v \in Readings, InHand(t) = NoItem, InHand(t)' = v
      PROVE  Flight'[v] = Flight[v] + 1 /\ Flight' = [Flight EXCEPT ![v] = Flight[v] + 1]
  <2>1. \A x \in Readings : Copies(x)' = IF x = v THEN Copies(x) + 1 ELSE Copies(x)
    BY <1>1, <1>2, <1>6 DEF One
  <2>2. QED
    BY <1>3, <2>1
<1>7. ASSUME NEW v \in Readings, InHand(t) = v, InHand(t)' = NoItem
      PROVE  /\ Flight[v] > 0
             /\ Flight'[v] = Flight[v] - 1 /\ Flight' = [Flight EXCEPT ![v] = Flight[v] - 1]
  <2>1. \A x \in Readings : Copies(x)' = IF x = v THEN Copies(x) - 1 ELSE Copies(x)
    BY <1>1, <1>2, <1>7 DEF One
  <2>2. QED
    BY <1>3, <1>4, <1>7, <2>1
<1>8. QED
  BY <1>5, <1>6, <1>7


-----------------------------------------------------------------------------
\* Each action of a source is an action of Pipeline or leaves it alone,
LEMMA SourcePath ==
  ASSUME IInv, Carried, NEW s \in Sources, SrcStep(s) \/ SrcEnqueue(s)
  PROVE  Path!Next \/ UNCHANGED <<running, matrix, Target, Flight>>
<1> USE ThreadFacts DEF From, Goto, Hold, buffer, config, local
<1>1. Types /\ Hands
  BY DEF IInv
<1>2. UNCHANGED <<running, matrix, Target>>
  <2>1. \A t \in Consumers : Same(t)
    BY <1>1, SourceSame DEF Consumers
  <2>2. Target' = Target
    BY <2>1 DEF Target, Same
  <2>3. matrix' = matrix /\ running' = running
    BY
      DEF SrcStep, SrcEnqueue, Touches, SrcLoop, SrcGate, SrcRobot, SrcPut,
          PutCalled, SrcPutDone, PutReturned, SrcPutFail, PutTimedOut, SrcRetry
  <2>4. QED
    BY <2>2, <2>3
<1>3. CASE SrcEnqueue(s)
  BY <1>2, <1>3, EnqueueKeeps DEF Flight
<1>4. CASE SrcStep(s)
  <2>1. queue' = queue
    BY <1>4
    DEF SrcStep, SrcLoop, SrcGate, SrcRobot, SrcPut, PutCalled, SrcPutDone,
        PutReturned, SrcPutFail, PutTimedOut, SrcRetry,
        Fifo!Invoke, Fifo!Return, Fifo!Fail, Fifo!EndCall
  <2>2. \A u \in AllThreads \ {s} : Same(u)
    BY <1>1, SourceSame
  <2>3. CASE SrcRobot(s) /\ running
    <3>1. index[s] \in Robots /\ index[s] < NumRobots
      BY <1>1, <2>3, BackendAssumption DEF SrcRobot, Hands, Types, Robots
    <3>2. Made(s) \in Readings
      BY <3>1 DEF Made, Readings
    <3>3. InHand(s) = NoItem /\ InHand(s)' = Made(s)
      BY <1>1, <2>3 DEF SrcRobot, InHand, Types, Made
    <3>4. /\ Flight'[Made(s)] = Flight[Made(s)] + 1
          /\ Flight' = [Flight EXCEPT ![Made(s)] = Flight[Made(s)] + 1]
      BY <1>1, <2>1, <2>2, <3>2, <3>3, FlightCounts
    <3>5. Path!Produce(Made(s))
      BY <1>2, <2>3, <3>4 DEF Path!Produce, Path!Count, Flight, Target
    <3>6. QED
      BY <3>2, <3>5 DEF Path!Next, Path!Readings, Readings
  <2>4. CASE SrcRetry(s) /\ ~running
    <3>1. held[s] \in Readings
      BY <1>1, <2>4 DEF SrcRetry, Hands
    <3>2. InHand(s) = held[s] /\ InHand(s)' = NoItem
      BY <1>1, <2>4 DEF SrcRetry, InHand, Types
    <3>3. /\ Flight[held[s]] > 0 /\ Flight'[held[s]] = Flight[held[s]] - 1
          /\ Flight' = [Flight EXCEPT ![held[s]] = Flight[held[s]] - 1]
      BY <1>1, <2>1, <2>2, <3>1, <3>2, FlightCounts
    <3>4. Path!Drop(held[s])
      BY <1>2, <2>4, <3>3 DEF Path!Drop, Path!Land, Path!Count, Flight, Target
    <3>5. QED
      BY <3>1, <3>4 DEF Path!Next, Path!Readings, Readings
  <2>5. CASE ~(SrcRobot(s) /\ running) /\ ~(SrcRetry(s) /\ ~running)
    <3>1. InHand(s)' = InHand(s)
      <4> USE DEF Types, InHand
      <4>1. CASE SrcLoop(s) \/ SrcGate(s) \/ SrcRobot(s) \/ SrcRetry(s)
        BY <1>1, <2>5, <4>1 DEF SrcLoop, SrcGate, SrcRobot, SrcRetry
      <4>2. CASE SrcPut(s)
        BY <1>1, <4>2 DEF SrcPut, PutCalled, Fifo!Invoke
      <4>3. CASE SrcPutDone(s) \/ SrcPutFail(s)
        BY <1>1, <4>3
          DEF SrcPutDone, PutReturned, SrcPutFail, PutTimedOut, Fifo!Return,
              Fifo!Fail, Fifo!EndCall
      <4>4. QED
        BY <1>4, <4>1, <4>2, <4>3 DEF SrcStep
    <3>2. QED
      BY <1>1, <1>2, <2>1, <2>2, <3>1, FlightCounts
  <2>6. QED
    BY <2>3, <2>4, <2>5
<1>5. QED
  BY <1>3, <1>4

\* and so is each action of a consumer, if every source has its column in the
\* matrix.
LEMMA ConsumerPath ==
  ASSUME NumSources = NumRobots, IInv, NEW t \in Consumers, Consume(t)
  PROVE  Path!Next \/ UNCHANGED <<running, matrix, Target, Flight>>
<1> USE ThreadFacts DEF From, Goto, Hold, buffer, config, local
<1>1. Types /\ Hands /\ t \in AllThreads
  BY DEF IInv, Consumers
<1>2. \A u \in AllThreads \ {t} : Same(u)
  BY <1>1, ConsumerSame
<1>3. running' = running
  BY <1>1, ConsumerFrame
<1>4. \A u \in Consumers \ {t} : Target'[u] = Target[u]
  BY <1>2 DEF Target, Same, Consumers
<1>5. CASE TakeItem(t)
  <2>1. Target' = Target /\ matrix' = matrix
    BY <1>5 DEF TakeItem, Touches, Target
  <2>2. QED
    BY <1>3, <1>5, <2>1, TakeKeeps DEF Flight, IInv
<1>6. CASE TakeDone(t) \/ TakeFail(t)
  <2>1. /\ queue' = queue /\ matrix' = matrix /\ pc[t] = "taking"
        /\ pc'[t] # "apply"
    BY <1>1, <1>6
      DEF TakeDone, TakeReturned, TakeFail, TakeTimedOut, Fifo!Return,
          Fifo!Fail, Fifo!EndCall, Home, Types
  <2>2. InHand(t)' = InHand(t)
    BY <1>1, <1>6
    DEF TakeDone, TakeReturned, TakeFail, TakeTimedOut, Fifo!Return,
        Fifo!Fail, Fifo!EndCall, Home, Types, InHand
  <2>3. Target' = Target
    BY <1>4, <2>1 DEF Target
  <2>4. QED
    BY <1>1, <1>2, <1>3, <2>1, <2>2, <2>3, FlightCounts
<1>7. CASE Insert(t)
  <2>0. PICK v \in Readings : v = held[t]
    BY <1>1, <1>7 DEF Insert, Hands
  <2>1. v \in Readings /\ v.robot \in Robots /\ v.source \in Sources /\ Columns = Sources
    BY <2>0 DEF Readings, Columns, Sources
  <2>2. Valid(v)
    BY <2>1 DEF Valid
  <2>3. v.robot # NoItem
    BY <2>1, BackendAssumption
  <2>4. InHand(t) = v /\ queue' = queue /\ pc[t] = "insert"
    BY <1>7, <2>0 DEF Insert, InHand
  <2>5. CASE RowWith(v) = Columns
    <3>1. /\ matrix' = [matrix EXCEPT ![v.robot] = {}]
          /\ pc' = [pc EXCEPT ![t] = "apply"] /\ held' = held
      BY <1>7, <2>0, <2>2, <2>5 DEF Insert
    <3>2. InHand(t)' = NoItem
      BY <1>1, <3>1 DEF InHand, Types
    <3>3. Target' = [Target EXCEPT ![t] = v.robot] /\ Target[t] = NoItem
      <4>1. Target'[t] = v.robot /\ Target[t] = NoItem
        BY <1>1, <2>0, <2>4, <3>1 DEF Target, Types
      <4>2. QED
        BY <1>4, <4>1 DEF Target
    <3>4. /\ Flight[v] > 0 /\ Flight'[v] = Flight[v] - 1
          /\ Flight' = [Flight EXCEPT ![v] = Flight[v] - 1]
      BY <1>1, <1>2, <2>1, <2>4, <3>2, FlightCounts
    <3>5. Path!Insert(t, v)
      BY <1>3, <2>1, <2>5, <3>1, <3>3, <3>4
      DEF Path!Insert, Path!Land, Path!Count, Flight, Target, RowWith
    <3>6. v \in Path!Readings /\ \E u \in Consumers : Path!Insert(u, v)
      BY <2>1, <3>5 DEF Path!Readings, Readings
    <3>7. QED
      BY <3>6 DEF Path!Next
  <2>6. CASE RowWith(v) # Columns
    <3>1. /\ matrix' = [matrix EXCEPT ![v.robot] = RowWith(v)]
          /\ pc' = [pc EXCEPT ![t] = Home(t)] /\ held' = [held EXCEPT ![t] = NoItem]
      BY <1>7, <2>0, <2>2, <2>6 DEF Insert
    <3>2. InHand(t)' = NoItem
      BY <1>1, <3>1 DEF InHand, Types, Home
    <3>3. Target' = Target /\ Target[t] = NoItem
      BY <1>1, <2>4, <3>1 DEF Target, Types, Consumers, Home
    <3>4. /\ Flight[v] > 0 /\ Flight'[v] = Flight[v] - 1
          /\ Flight' = [Flight EXCEPT ![v] = Flight[v] - 1]
      BY <1>1, <1>2, <2>1, <2>4, <3>2, FlightCounts
    <3>5. Path!Insert(t, v)
      BY <1>3, <2>1, <2>6, <3>1, <3>3, <3>4
      DEF Path!Insert, Path!Land, Path!Count, Flight, Target, RowWith
    <3>6. v \in Path!Readings /\ \E u \in Consumers : Path!Insert(u, v)
      BY <2>1, <3>5 DEF Path!Readings, Readings
    <3>7. QED
      BY <3>6 DEF Path!Next
  <2>7. QED
    BY <2>5, <2>6
<1>8. CASE Apply(t)
  <2>1. /\ queue' = queue /\ matrix' = matrix /\ pc[t] = "apply"
        /\ pc' = [pc EXCEPT ![t] = Home(t)] /\ held' = [held EXCEPT ![t] = NoItem]
    BY <1>8 DEF Apply
  <2>2. held[t].robot \in Robots
    BY <1>1, <2>1 DEF Hands, Readings
  <2>3. Target[t] # NoItem /\ Target' = [Target EXCEPT ![t] = NoItem]
    <3>1. Target[t] = held[t].robot /\ held[t].robot # NoItem
      BY <2>1, <2>2, BackendAssumption DEF Target
    <3>2. Target'[t] = NoItem
      BY <1>1, <2>1 DEF Target, Types, Home
    <3>3. QED
      BY <1>4, <3>1, <3>2 DEF Target
  <2>4. InHand(t)' = InHand(t)
    BY <1>1, <2>1 DEF InHand, Types, Home
  <2>5. Flight' = Flight
    BY <1>1, <1>2, <2>1, <2>4, FlightCounts
  <2>6. Path!Move(t)
    BY <1>3, <2>1, <2>3, <2>5 DEF Path!Move, Flight, Target
  <2>7. QED
    BY <2>6 DEF Path!Next
<1>9. QED
  BY <1>5, <1>6, <1>7, <1>8 DEF Consume

\* The steps that handle no reading close the program or leave Pipeline alone.
LEMMA IdlePath ==
  ASSUME IInv, Idles
  PROVE  Path!Next \/ UNCHANGED <<running, matrix, Target, Flight>>
<1> USE ThreadFacts DEF From, Goto, buffer, config, local
<1>1. Types /\ Hands
  BY DEF IInv
<1>2. UNCHANGED <<queue, matrix, held>>
  BY <1>1, IdleSources
<1>3. \A t \in AllThreads : InHand(t)' = InHand(t) /\ (pc'[t] = "apply" <=> pc[t] = "apply")
  <2> USE DEF Types, Labels, Stages, InHand
  <2>1. CASE ProcLoop
    BY <1>1, <2>1 DEF ProcLoop
  <2>2. CASE ProcGate
    BY <1>1, <2>2 DEF ProcGate, ProcCalls, ProcSkips, Fifo!Invoke
  <2>3. ASSUME NEW w \in Workers, SetEnabled(w)
        PROVE  \A t \in AllThreads : InHand(t)' = InHand(t) /\ (pc'[t] = "apply" <=> pc[t] = "apply")
    BY <2>3 DEF SetEnabled
  <2>4. CASE ManualRemove
    BY <1>1, <2>4 DEF ManualRemove, RemoveCalled, UserActs, Fifo!Invoke
  <2>5. CASE Close \/ Destroy
    BY <1>1, <2>5 DEF Close, Destroy
  <2>6. CASE Exited \/ UNCHANGED vars
    BY <2>6 DEF Exited, vars
  <2>7. ASSUME NEW w \in Workers, Launch(w) \/ Join(w)
        PROVE  \A t \in AllThreads : InHand(t)' = InHand(t) /\ (pc'[t] = "apply" <=> pc[t] = "apply")
    BY <1>1, <2>7 DEF Launch, Join
  <2>8. QED
    BY <2>1, <2>2, <2>3, <2>4, <2>5, <2>6, <2>7 DEF Idles, User
<1>4. UNCHANGED <<matrix, Target, Flight>>
  <2>1. Target' = Target
    BY <1>2, <1>3 DEF Target, Consumers
  <2>2. Flight' = Flight
    BY <1>2, <1>3 DEF Flight, Copies
  <2>3. QED
    BY <1>2, <2>1, <2>2
<1>5. CASE Close
  <2>1. running = TRUE /\ running' = FALSE
    BY <1>1, <1>5 DEF Close, IInv, JoinOrder, Types
  <2>2. Path!Close
    BY <1>4, <2>1 DEF Path!Close, Flight, Target
  <2>3. QED
    BY <2>2 DEF Path!Next
<1>6. CASE ~Close
  <2>1. running' = running
    BY <1>6
    DEF Idles, ProcLoop, ProcGate, ProcCalls, ProcSkips, User, SetEnabled,
        ManualRemove, RemoveCalled, Destroy, Exited, vars, Launch, Join
  <2>2. QED
    BY <1>4, <2>1
<1>7. QED
  BY <1>5, <1>6

\* The controller implements Pipeline: between produce() and the matrix no reading
\* is lost or used twice, only the shutdown drops one, and a complete row moves
\* its robot once (backendcontroller.cpp:307-327, 349-361, 228-241).
THEOREM NothingLost == ASSUME NumSources = NumRobots PROVE Spec => ImplementsPipeline
<1>1. Init => Path!Init
  <2> SUFFICES ASSUME Init PROVE Path!Init
    OBVIOUS
  <2> USE ThreadFacts
  <2>1. queue = <<>> /\ \A t \in AllThreads : InHand(t) = NoItem /\ pc[t] # "apply"
    BY DEF Init, ControllerInit, Fifo!Init, InHand
  <2>2. \A v \in Readings : Copies(v) = 0
    <3> TAKE v \in Readings
    <3>1. Places(queue, v) = {} /\ Bearers(v) = {}
      BY <2>1, BackendAssumption DEF Places, Bearers
    <3>2. QED
      BY <3>1, CopiesSplit, FS_EmptySet
  <2>3. Flight = [v \in Readings |-> 0] /\ Target = [t \in Consumers |-> NoItem]
    BY <2>1, <2>2 DEF Flight, Target, Consumers
  <2>4. QED
    BY <2>3 DEF Init, ControllerInit, Path!Init, Path!Readings, Readings, Flight, Target
<1>2. IInv /\ Carried /\ [Next]_vars => [Path!Next]_<<running, matrix, Target, Flight>>
  BY Actors, SourcePath, ConsumerPath, IdlePath
<1>3. QED
  BY <1>1, <1>2, CarriedAlways, PTL
    DEF Spec, ImplementsPipeline, Path!Spec, Target, Flight

=============================================================================
