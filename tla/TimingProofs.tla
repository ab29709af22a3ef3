---------------------------- MODULE TimingProofs ----------------------------
(***************************************************************************)
(* The bound on the destructor, for any number of sources and robots, any  *)
(* buffer and any durations with SOURCE_JITTER_MS and the nap no longer    *)
(* than the timeout.                                                       *)
(***************************************************************************)
EXTENDS Timing, TLAPS

Limit == Timeout + MaxDelay

Places == {"put", "jitter", "take", "nap", "delay", "stopped"}

Types ==
  /\ pc \in [Workers -> Places]
  /\ \A s \in Sources : pc[s] \notin {"take", "nap"}
  /\ pc[processor] \notin {"put", "jitter"}
  /\ wait \in [Workers -> Nat]
  /\ delay \in [Workers -> Delays]
  /\ size \in 0..BufferSize
  /\ running \in BOOLEAN
  /\ since \in Nat

\* The longest a worker may still be about, from where it is; a source that
\* waits for room when the clock has ticked gets none.
Rest(w) ==
  wait[w] + (IF pc[w] \in {"jitter", "take", "nap"} THEN MaxDelay ELSE 0)

Deadline == \A w \in Workers : pc[w] # "stopped" => since + Rest(w) <= Limit

\* Once the clock has ticked after the shutdown signal, no source waits for
\* room that a take could still make.
NoRoom ==
  since > 0 =>
    /\ ~running
    /\ \A s \in Sources : pc[s] = "put" => size = BufferSize /\ pc[processor] # "take"

TInv == Types /\ Deadline /\ NoRoom /\ since <= Limit

-----------------------------------------------------------------------------
LEMMA Durations ==
  /\ Timeout \in Nat /\ Timeout > 0 /\ Jitter \in Nat /\ Nap \in Nat /\ MaxDelay \in Nat
  /\ Jitter <= Timeout /\ Nap <= Timeout /\ Limit = Timeout + MaxDelay
  /\ \A d \in Delays : d \in Nat /\ d > 0 /\ d <= MaxDelay
  /\ BufferSize \in Nat /\ BufferSize > 0
  /\ processor \in Workers /\ processor \notin Sources
  /\ \A s \in Sources : s \in Workers
BY TimingAssumption DEF Limit, Workers

\* When worker w turns to a new wait that fits into what is left, everything
\* still holds.
LEMMA NewWait ==
  ASSUME TInv, NEW w \in Workers, NEW place \in Places, NEW time \in Nat,
         WaitIn(w, place, time),
         w \in Sources => place \notin {"take", "nap"},
         w = processor => place \notin {"put", "jitter"},
         place = "stopped" \/ since = 0 \/ place \notin {"put", "take"},
         place # "stopped" =>
           since + time + (IF place \in {"jitter", "take", "nap"} THEN MaxDelay ELSE 0) <= Limit,
         size' \in 0..BufferSize,
         size' = size \/ since = 0 \/ \A s \in Sources : pc'[s] # "put",
         UNCHANGED <<delay, running, since>>
  PROVE  TInv'
<1> USE Durations
<1>1. /\ pc'[w] = place /\ wait'[w] = time
      /\ \A v \in Workers \ {w} : pc'[v] = pc[v] /\ wait'[v] = wait[v]
  BY DEF TInv, Types, WaitIn
<1>2. Types'
  BY <1>1 DEF TInv, Types, WaitIn, Workers
<1>3. Deadline'
  <2> SUFFICES ASSUME NEW v \in Workers, pc'[v] # "stopped" PROVE since' + Rest(v)' <= Limit
    BY DEF Deadline
  <2>1. CASE v = w
    <3>1. place # "stopped" /\ since' = since
      BY <1>1, <2>1
    <3>2. Rest(w)' = time + (IF place \in {"jitter", "take", "nap"} THEN MaxDelay ELSE 0)
      BY <1>1 DEF Rest
    <3>3. since + time + (IF place \in {"jitter", "take", "nap"} THEN MaxDelay ELSE 0) <= Limit
      BY <3>1
    <3>4. since \in Nat /\ Limit \in Nat
      BY DEF TInv, Types
    <3>5. CASE place \in {"jitter", "take", "nap"}
      BY <3>1, <3>2, <3>3, <3>4, <3>5, <2>1
    <3>6. CASE place \notin {"jitter", "take", "nap"}
      BY <3>1, <3>2, <3>3, <3>4, <3>6, <2>1
    <3>7. QED
      BY <3>5, <3>6
  <2>2. CASE v # w
    BY <1>1, <2>2 DEF TInv, Deadline, Rest
  <2>3. QED
    BY <2>1, <2>2
<1>4. NoRoom'
  BY <1>1 DEF TInv, NoRoom, Types
<1>5. QED
  BY <1>2, <1>3, <1>4 DEF TInv, Limit

LEMMA SourceInTime == ASSUME TInv, NEW s \in Sources, SrcStep(s) PROVE TInv'
<1> USE Durations
<1>1. /\ s \in Workers /\ s # processor /\ wait[s] \in Nat /\ since \in Nat
      /\ delay[s] \in Nat /\ delay[s] <= MaxDelay /\ size \in 0..BufferSize
      /\ pc[s] # "stopped" => since + Rest(s) <= Limit
      /\ running => since = 0
      /\ pc[s] = "put" /\ since > 0 => size = BufferSize
      /\ pc \in [Workers -> Places]
  BY DEF TInv, Types, Deadline, NoRoom
<1>2. ASSUME NEW i, Robot(s, i), UNCHANGED <<size, config>> PROVE TInv'
  <2>1. CASE running
    BY <1>1, <1>2, <2>1, NewWait DEF Robot, config, Places
  <2>2. CASE ~running
    BY <1>1, <1>2, <2>2, NewWait DEF Robot, Return, config, Places
  <2>3. QED
    BY <2>1, <2>2
<1>3. CASE SrcLoop(s)
  <2>1. CASE running /\ enabled[s]
    BY <1>2, <1>3, <2>1 DEF SrcLoop
  <2>2. CASE ~running
    BY <1>1, <1>3, <2>2, NewWait DEF SrcLoop, Return, config, Places
  <2>3. CASE running /\ ~enabled[s]
    BY <1>1, <1>3, <2>3, NewWait DEF SrcLoop, config, Places
  <2>4. QED
    BY <2>1, <2>2, <2>3
<1>4. CASE SrcPut(s)
  <2>1. since = 0 /\ size' \in 0..BufferSize
    BY <1>1, <1>4 DEF SrcPut
  <2>2. PICK j \in 0..Jitter : WaitIn(s, "jitter", j)
    BY <1>4 DEF SrcPut
  <2>3. UNCHANGED <<delay, running, since>>
    BY <1>4 DEF SrcPut, config
  <2>4. QED
    BY <1>1, <2>1, <2>2, <2>3, NewWait DEF Places
<1>5. CASE SrcRetry(s)
  <2>1. CASE running
    BY <1>1, <1>5, <2>1, NewWait DEF SrcRetry, config, Places
  <2>2. CASE ~running
    BY <1>1, <1>5, <2>2, NewWait DEF SrcRetry, Return, config, Places
  <2>3. QED
    BY <2>1, <2>2
<1>6. CASE SrcNext(s)
  <2>1. CASE index[s] + 1 < NumRobots
    BY <1>2, <1>6, <2>1 DEF SrcNext
  <2>2. CASE ~(index[s] + 1 < NumRobots)
    BY <1>1, <1>6, <2>2, NewWait DEF SrcNext, Expired, Rest, config, Places
  <2>3. QED
    BY <2>1, <2>2
<1>7. QED
  BY <1>3, <1>4, <1>5, <1>6 DEF SrcStep

LEMMA ProcessorInTime == ASSUME TInv, ProcStep PROVE TInv'
<1> USE Durations
<1>1. /\ wait[processor] \in Nat /\ since \in Nat /\ size \in 0..BufferSize
      /\ delay[processor] \in Nat /\ delay[processor] <= MaxDelay
      /\ pc[processor] # "stopped" => since + Rest(processor) <= Limit
      /\ running => since = 0
      /\ pc[processor] = "take" /\ since > 0 => \A s \in Sources : pc[s] # "put"
      /\ pc \in [Workers -> Places]
  BY DEF TInv, Types, Deadline, NoRoom
<1>2. CASE ProcLoop
  <2>1. CASE ~running
    BY <1>1, <1>2, <2>1, NewWait DEF ProcLoop, Return, config, Places
  <2>2. CASE running /\ enabled[processor]
    BY <1>1, <1>2, <2>2, NewWait DEF ProcLoop, config, Places
  <2>3. CASE running /\ ~enabled[processor]
    BY <1>1, <1>2, <2>3, NewWait DEF ProcLoop, config, Places
  <2>4. QED
    BY <2>1, <2>2, <2>3
<1>3. CASE ProcTake
  <2>1. /\ WaitIn(processor, "delay", delay[processor]) /\ size' \in 0..BufferSize
        /\ UNCHANGED <<delay, running, since>>
    BY <1>1, <1>3 DEF ProcTake, config
  <2>2. since = 0 \/ \A s \in Sources : pc'[s] # "put"
    BY <1>1, <1>3, <2>1 DEF ProcTake, WaitIn
  <2>3. since + delay[processor] + 0 <= Limit
    BY <1>1, <1>3 DEF ProcTake, Rest
  <2>4. QED
    BY <1>1, <2>1, <2>2, <2>3, NewWait DEF Places
<1>4. CASE ProcNothing
  BY <1>1, <1>4, NewWait DEF ProcNothing, Expired, Rest, config, Places
<1>5. QED
  BY <1>2, <1>3, <1>4 DEF ProcStep

LEMMA ClockInTime == ASSUME TInv, Tick PROVE TInv'
<1> USE Durations
<1>1. /\ pc' = pc /\ size' = size /\ delay' = delay /\ running' = running
      /\ pc \in [Workers -> Places] /\ wait \in [Workers -> Nat] /\ since \in Nat
      /\ \A w \in Workers : Waiting(w)
      /\ since' = IF running THEN 0 ELSE since + 1
  BY DEF Tick, TInv, Types
<1>2. \A w \in Workers :
        pc[w] # "stopped" => wait[w] > 0 /\ wait'[w] = wait[w] - 1
  BY <1>1 DEF Tick, Waiting
<1>3. Types'
  BY <1>1, <1>2 DEF Tick, TInv, Types, Waiting
<1>4. Deadline'
  <2> SUFFICES ASSUME NEW w \in Workers, pc[w] # "stopped" PROVE since' + Rest(w)' <= Limit
    BY <1>1 DEF Deadline
  <2>1. since + Rest(w) <= Limit /\ wait[w] \in Nat
    BY <1>1 DEF TInv, Deadline
  <2>2. QED
    BY <1>1, <1>2, <2>1 DEF Rest
<1>5. NoRoom'
  BY <1>1 DEF NoRoom, Waiting
<1>6. since' <= Limit
  <2>1. PICK w \in Workers : pc[w] # "stopped"
    BY DEF Tick
  <2>2. since' + Rest(w)' <= Limit /\ wait'[w] \in Nat
    BY <1>1, <1>3, <1>4, <2>1 DEF Deadline, Types
  <2>3. QED
    BY <1>1, <2>2 DEF Rest
<1>7. QED
  BY <1>3, <1>4, <1>5, <1>6 DEF TInv, Limit

-----------------------------------------------------------------------------
LEMMA InTime == Spec => []TInv
<1> USE Durations
<1>1. Init => TInv
  BY TimingAssumption DEF Init, TInv, Types, Deadline, NoRoom, Rest, Limit, Places, Workers
<1>2. TInv /\ [Next]_vars => TInv'
  <2> SUFFICES ASSUME TInv, [Next]_vars PROVE TInv'
    OBVIOUS
  <2>1. ASSUME NEW w \in Workers, SetEnabled(w) \/ \E d \in Delays : SetDelay(w, d) PROVE TInv'
    BY <2>1 DEF SetEnabled, SetDelay, UserActs, TInv, Types, Deadline, NoRoom, Rest, Limit
  <2>2. CASE ManualRemove
    BY <2>2 DEF ManualRemove, UserActs, TInv, Types, Deadline, NoRoom, Rest, Limit
  <2>3. CASE Close
    BY <2>3 DEF Close, TInv, Types, Deadline, NoRoom, Rest, Limit
  <2>4. CASE Joined \/ Exited \/ UNCHANGED vars
    BY <2>4 DEF Joined, Exited, vars, TInv, Types, Deadline, NoRoom, Rest, Limit
  <2>5. QED
    BY <2>1, <2>2, <2>3, <2>4, SourceInTime, ProcessorInTime, ClockInTime DEF Next
<1>3. QED
  BY <1>1, <1>2, PTL DEF Spec

\* ~BackendController returns within one timeout and the longest delay, whatever
\* the workers are doing when it begins.
THEOREM Bounded == Spec => []ShutdownBounded
<1>1. TInv => ShutdownBounded
  BY Durations DEF TInv, ShutdownBounded, Limit
<1>2. QED
  BY <1>1, InTime, PTL

\* The variables the bound does not depend on.
Others ==
  /\ index \in [Sources -> 0..(NumRobots - 1)]
  /\ enabled \in [Workers -> BOOLEAN]
  /\ gone \in BOOLEAN
  /\ events \in 0..UserEvents

LEMMA OthersHold == Spec => []Others
<1> USE TimingAssumption
<1>1. Init => Others
  <2>1. 0 \in 0..(NumRobots - 1) /\ 0 \in 0..UserEvents
    OBVIOUS
  <2>2. QED
    BY <2>1 DEF Init, Others
<1>2. Others /\ [Next]_vars => Others'
  <2> SUFFICES ASSUME Others, [Next]_vars PROVE Others'
    OBVIOUS
  <2> USE DEF Others, config
  <2>1. ASSUME NEW s \in Sources, SrcStep(s) PROVE Others'
    <3>1. CASE SrcLoop(s)
      BY <3>1 DEF SrcLoop, Robot
    <3>2. CASE SrcPut(s) \/ SrcRetry(s)
      BY <3>2 DEF SrcPut, SrcRetry
    <3>3. CASE SrcNext(s)
      BY <3>3 DEF SrcNext, Robot
    <3>4. QED
      BY <2>1, <3>1, <3>2, <3>3 DEF SrcStep
  <2>2. CASE ProcStep
    BY <2>2 DEF ProcStep, ProcLoop, ProcTake, ProcNothing
  <2>3. ASSUME NEW w \in Workers, SetEnabled(w) \/ \E d \in Delays : SetDelay(w, d) PROVE Others'
    <3>1. events' \in 0..UserEvents
      BY <2>3 DEF SetEnabled, SetDelay, UserActs
    <3>2. QED
      BY <2>3, <3>1 DEF SetEnabled, SetDelay, UserActs
  <2>4. CASE ManualRemove \/ Close \/ Joined \/ Tick
    <3>1. events' \in 0..UserEvents
      BY <2>4 DEF ManualRemove, UserActs, Close, Joined, Tick
    <3>2. QED
      BY <2>4, <3>1 DEF ManualRemove, UserActs, Close, Joined, Tick
  <2>5. CASE Exited \/ UNCHANGED vars
    BY <2>5 DEF Exited, vars
  <2>6. QED
    BY <2>1, <2>2, <2>3, <2>4, <2>5 DEF Next
<1>3. QED
  BY <1>1, <1>2, PTL DEF Spec

\* Every variable keeps its type: no source counts past the last robot, nobody
\* takes from an empty buffer or adds to a full one.
THEOREM TypeCorrect == Spec => []TypeOK
<1>1. TInv /\ Others => TypeOK
  BY DEF TInv, Types, Places, Others, TypeOK
<1>2. QED
  BY <1>1, InTime, OthersHold, PTL

-----------------------------------------------------------------------------
(***************************************************************************)
(* The budget of a worker between two ticks.                               *)
(***************************************************************************)
Frugal(w) == UNCHANGED <<pc[w], wait[w], Budget(w)>> \/ Budget(w)' < Budget(w)

\* A budget is a natural number, so a worker cannot go on spending it.
LEMMA BudgetIsFinite == ASSUME TInv, Others, NEW w \in Workers PROVE Budget(w) \in Nat
<1>1. NumRobots \in Nat /\ pc[w] \in Places
  BY TimingAssumption DEF TInv, Types
<1>2. ASSUME pc[w] \in {"put", "jitter"}
      PROVE  index[w] \in Nat /\ index[w] <= NumRobots - 1
  <2>1. w \in Sources
    BY <1>2 DEF TInv, Types, Workers
  <2>2. QED
    BY <1>1, <2>1 DEF Others
<1>3. CASE pc[w] = "put"
  BY <1>1, <1>2, <1>3 DEF Budget
<1>4. CASE pc[w] = "jitter"
  BY <1>1, <1>2, <1>4 DEF Budget
<1>5. QED
  BY <1>1, <1>3, <1>4 DEF Places, Budget

\* A step of one worker leaves the budgets of the others alone.
LEMMA OneSpends ==
  ASSUME TInv, NEW w \in Workers, NEW place, NEW time, WaitIn(w, place, time),
         \A s \in Sources \ {w} : index'[s] = index[s],
         Budget(w)' < Budget(w)
  PROVE  \A v \in Workers : Frugal(v)
<1> SUFFICES ASSUME NEW v \in Workers, v # w PROVE Frugal(v)
  BY DEF Frugal
<1>1. pc'[v] = pc[v] /\ wait'[v] = wait[v]
  BY DEF WaitIn, TInv, Types
<1>2. v \in Sources => index'[v] = index[v]
  OBVIOUS
<1>3. v = processor => pc[v] \notin {"put", "jitter"}
  BY DEF TInv, Types
<1>4. Budget(v)' = Budget(v)
  BY <1>1, <1>2, <1>3, Durations DEF Budget, Workers
<1>5. QED
  BY <1>1, <1>4 DEF Frugal

\* The destructor's flag makes a worker stop, which costs nothing at all.
LEMMA ReturnSpends ==
  ASSUME TInv, NEW w \in Workers, Return(w), Budget(w) > 0, UNCHANGED index
  PROVE  \A v \in Workers : Frugal(v)
<1>1. pc'[w] = "stopped"
  BY DEF Return, WaitIn, TInv, Types
<1>2. Budget(w)' = 0
  BY <1>1 DEF Budget
<1>3. QED
  BY <1>2, OneSpends DEF Return

LEMMA SourceSpends ==
  ASSUME TInv, Others, NEW s \in Sources, SrcStep(s)
  PROVE  \A v \in Workers : Frugal(v)
<1> USE Durations
<1>1. /\ s \in Workers /\ s # processor /\ delay[s] \in Nat /\ delay[s] > 0
      /\ index \in [Sources -> 0..(NumRobots - 1)] /\ index[s] \in Nat /\ index[s] <= NumRobots - 1
      /\ NumRobots \in Nat /\ NumRobots > 0
      /\ pc \in [Workers -> Places] /\ wait \in [Workers -> Nat] /\ Budget(s) \in Nat
  <2>1. NumRobots \in Nat /\ NumRobots > 0
    BY TimingAssumption
  <2>2. s \in Workers /\ s # processor /\ delay[s] \in Delays
    BY DEF TInv, Types
  <2>3. delay[s] \in Nat /\ delay[s] > 0
    BY <2>2
  <2>4. index \in [Sources -> 0..(NumRobots - 1)] /\ index[s] \in Nat /\ index[s] <= NumRobots - 1
    BY <2>1 DEF Others
  <2>5. QED
    BY <2>1, <2>2, <2>3, <2>4, BudgetIsFinite DEF TInv, Types
<1>2. ASSUME NEW i \in 0..(NumRobots - 1), Robot(s, i), Budget(s) > 3 * (NumRobots - i)
      PROVE  \A v \in Workers : Frugal(v)
  <2>1. Budget(s) > 0
    BY <1>1, <1>2
  <2>2. CASE running
    <3>1. WaitIn(s, "put", Timeout) /\ index' = [index EXCEPT ![s] = i]
      BY <1>2, <2>2 DEF Robot
    <3>2. pc'[s] = "put" /\ wait'[s] = Timeout /\ index'[s] = i
      BY <1>1, <3>1 DEF WaitIn
    <3>3. Budget(s)' = 3 * (NumRobots - i)
      BY <1>1, <3>2 DEF Budget
    <3>4. QED
      BY <1>1, <1>2, <3>1, <3>3, OneSpends
  <2>3. CASE ~running
    <3>1. Return(s) /\ index' = [index EXCEPT ![s] = i]
      BY <1>2, <2>3 DEF Robot
    <3>2. pc'[s] = "stopped"
      BY <1>1, <3>1 DEF Return, WaitIn
    <3>3. Budget(s)' = 0
      BY <3>2 DEF Budget
    <3>4. QED
      BY <1>1, <2>1, <3>1, <3>3, OneSpends DEF Return
  <2>4. QED
    BY <2>2, <2>3
<1>3. CASE SrcLoop(s)
  <2>1. pc[s] = "delay" /\ wait[s] = 0
    BY <1>3 DEF SrcLoop, Expired
  <2>2. Budget(s) = 3 * NumRobots + 1
    BY <1>1, <2>1 DEF Budget
  <2>3. CASE running /\ enabled[s]
    BY <1>1, <1>2, <1>3, <2>2, <2>3 DEF SrcLoop
  <2>4. CASE ~running
    BY <1>1, <1>3, <2>2, <2>4, ReturnSpends DEF SrcLoop
  <2>5. CASE running /\ ~enabled[s]
    <3>1. WaitIn(s, "delay", delay[s]) /\ index' = index
      BY <1>3, <2>5 DEF SrcLoop
    <3>2. Budget(s)' = 0
      BY <1>1, <3>1 DEF WaitIn, Budget
    <3>3. QED
      BY <1>1, <2>2, <3>1, <3>2, OneSpends
  <2>6. QED
    BY <2>3, <2>4, <2>5
<1>4. CASE SrcPut(s)
  <2>1. PICK j \in 0..Jitter : WaitIn(s, "jitter", j)
    BY <1>4 DEF SrcPut
  <2>2. index' = index /\ pc[s] = "put"
    BY <1>4 DEF SrcPut, config
  <2>3. Budget(s)' = 3 * (NumRobots - index[s]) - 1
    BY <1>1, <2>1, <2>2 DEF WaitIn, Budget
  <2>4. Budget(s) >= 3 * (NumRobots - index[s])
    BY <1>1, <2>2 DEF Budget
  <2>5. QED
    BY <1>1, <2>1, <2>2, <2>3, <2>4, OneSpends
<1>5. CASE SrcRetry(s)
  <2>1. index' = index /\ pc[s] = "put" /\ wait[s] = 0
    BY <1>5 DEF SrcRetry, Expired
  <2>2. Budget(s) = 3 * (NumRobots - index[s]) + 1
    BY <1>1, <2>1 DEF Budget
  <2>3. CASE running
    <3>1. WaitIn(s, "put", Timeout)
      BY <1>5, <2>3 DEF SrcRetry
    <3>2. Budget(s)' = 3 * (NumRobots - index[s])
      BY <1>1, <2>1, <3>1 DEF WaitIn, Budget
    <3>3. QED
      BY <1>1, <2>1, <2>2, <3>1, <3>2, OneSpends
  <2>4. CASE ~running
    BY <1>1, <1>5, <2>1, <2>2, <2>4, ReturnSpends DEF SrcRetry
  <2>5. QED
    BY <2>3, <2>4
<1>6. CASE SrcNext(s)
  <2>1. pc[s] = "jitter"
    BY <1>6 DEF SrcNext, Expired
  <2>2. Budget(s) = 3 * (NumRobots - index[s]) - 1
    BY <2>1 DEF Budget
  <2>3. CASE index[s] + 1 < NumRobots
    <3>1. Robot(s, index[s] + 1)
      BY <1>6, <2>3 DEF SrcNext
    <3>2. index[s] + 1 \in 0..(NumRobots - 1) /\ Budget(s) > 3 * (NumRobots - (index[s] + 1))
      BY <1>1, <2>2, <2>3
    <3>3. QED
      BY <1>2, <3>1, <3>2
  <2>4. CASE ~(index[s] + 1 < NumRobots)
    <3>1. WaitIn(s, "delay", delay[s]) /\ index' = index
      BY <1>6, <2>4 DEF SrcNext
    <3>2. Budget(s)' = 0
      BY <1>1, <3>1 DEF WaitIn, Budget
    <3>3. QED
      BY <1>1, <2>2, <3>1, <3>2, OneSpends
  <2>5. QED
    BY <2>3, <2>4
<1>7. QED
  BY <1>3, <1>4, <1>5, <1>6 DEF SrcStep

LEMMA ProcessorSpends ==
  ASSUME TInv, ProcStep
  PROVE  \A v \in Workers : Frugal(v)
<1> USE Durations
<1>1. /\ delay[processor] \in Nat /\ delay[processor] > 0
      /\ pc \in [Workers -> Places] /\ wait \in [Workers -> Nat] /\ index' = index
  <2>1. delay[processor] \in Delays
    BY DEF TInv, Types
  <2>2. index' = index
    BY DEF ProcStep, ProcLoop, ProcTake, ProcNothing
  <2>3. QED
    BY <2>1, <2>2 DEF TInv, Types
<1>2. CASE ProcLoop
  <2>1. Budget(processor) = 2
    BY <1>2 DEF ProcLoop, Expired, Budget
  <2>2. ASSUME NEW place \in {"take", "nap"}, NEW time, WaitIn(processor, place, time)
        PROVE  \A v \in Workers : Frugal(v)
    <3>1. Budget(processor)' = 1
      BY <1>1, <2>2 DEF WaitIn, Budget
    <3>2. QED
      BY <1>1, <2>1, <2>2, <3>1, OneSpends
  <2>3. CASE ~running
    BY <1>1, <1>2, <2>1, <2>3, ReturnSpends DEF ProcLoop
  <2>4. CASE running
    BY <1>2, <2>2, <2>4 DEF ProcLoop
  <2>5. QED
    BY <2>3, <2>4
<1>3. CASE ProcTake \/ ProcNothing
  <2>1. pc[processor] \in {"take", "nap"} /\ WaitIn(processor, "delay", delay[processor])
    BY <1>3 DEF ProcTake, ProcNothing, Expired
  <2>2. Budget(processor) = 1
    BY <2>1 DEF Budget
  <2>3. Budget(processor)' = 0
    BY <1>1, <2>1 DEF WaitIn, Budget
  <2>4. QED
    BY <1>1, <2>1, <2>2, <2>3, OneSpends
<1>4. QED
  BY <1>2, <1>3 DEF ProcStep

\* No worker spins: between two ticks of the clock a source makes at most three
\* steps for each robot and one more, the processor two, whatever the user does.
THEOREM StepsAreBudgeted == Spec => SpinsBounded
<1>1. TInv /\ Others /\ [Next]_vars => [Tick \/ \A w \in Workers : Frugal(w)]_vars
  <2> SUFFICES ASSUME TInv, Others, Next, ~Tick, NEW w \in Workers PROVE Frugal(w)
    OBVIOUS
  <2>1. CASE UNCHANGED <<pc, wait, index>>
    BY <2>1 DEF Frugal, Budget
  <2>2. QED
    BY <2>1, SourceSpends, ProcessorSpends
    DEF Next, SetEnabled, SetDelay, ManualRemove, UserActs, Close, Joined, Exited, vars
<1>2. QED
  BY <1>1, InTime, OthersHold, PTL DEF Spec, SpinsBounded, Frugal
=============================================================================
