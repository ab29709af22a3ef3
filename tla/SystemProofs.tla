---------------------------- MODULE SystemProofs ----------------------------
(***************************************************************************)
(* Proofs about System, for any number of robots and sources, any capacity *)
(* and any switches the user has.                                          *)
(*                                                                         *)
(* First the program uses the buffer as Buffer assumes it (UsesBuffer), so *)
(* that the invariant IInv of BufferProofs holds in it; with it every step *)
(* is a step of Backend (Implements).  SInv says what that takes: where a  *)
(* thread is in the controller while it is inside a call, and that what a  *)
(* source puts is a reading.                                               *)
(***************************************************************************)
EXTENDS System, BufferProofs

\* The variables of the controller that the buffer gets to see have their types.
Typed ==
  /\ place \in [Threads -> B!Labels]
  /\ index \in [B!Sources -> 0..NumRobots]
  /\ held \in [Threads -> Values \cup {NoItem}]

\* A source between produce() and the return of tryPut holds a reading.
HasReading ==
  \A s \in B!Sources :
    /\ place[s] \in {"robot", "put", "putting", "retry"} => index[s] < NumRobots
    /\ place[s] \in {"put", "putting", "retry"} => held[s] \in Values

\* A thread inside the buffer is at one of the two calls of the controller.
Inside ==
  \A t \in Threads :
    /\ pc[t] # "idle" => place[t] \in {"putting", "taking"}
    /\ op[t] \in TryOps \cup {NoOp}

\* The destructor joins the sources, then the processor, and then is over.
Joined ==
  /\ place[processor] = "joined" => \A s \in B!Sources : place[s] = "joined"
  /\ place[gui] = "gone" => place[processor] = "joined"

SInv == Typed /\ HasReading /\ Inside /\ Joined

\* The program's threads, and what they may do with the buffer.
LEMMA Cast ==
  /\ Threads = B!Sources \cup {processor, gui}
  /\ B!Workers = B!Sources \cup {processor} /\ processor \notin B!Sources
  /\ gui \notin B!Sources /\ gui # processor
  /\ Values = B!Readings /\ NumRobots \in Nat \ {0}
  /\ B!Sources = 0..(NumRobots - 1) /\ B!Robots = 0..(NumRobots - 1)
BY SystemAssumption DEF B!AllThreads, B!Workers, B!Sources, B!Robots

-----------------------------------------------------------------------------
\* What a source holds is a reading.
LEMMA MadeIsReading ==
  ASSUME NEW s \in B!Sources, NEW r \in 0..(NumRobots - 1)
  PROVE  [source |-> s, robot |-> r] \in Values
BY Cast DEF B!Readings

LEMMA SInvInit == SysInit => SInv
<1> SUFFICES ASSUME SysInit PROVE SInv
  OBVIOUS
<1>1. Typed /\ HasReading
  BY Cast DEF SysInit, B!ControllerInit, B!AllThreads, B!Workers, Typed, HasReading, B!Labels
<1>2. Inside /\ Joined
  BY Cast DEF SysInit, Init, B!ControllerInit, B!AllThreads, B!Workers, Inside, Joined, NoOp
<1>3. QED
  BY <1>1, <1>2 DEF SInv

\* Steps beside the buffer.
LEMMA SInvSource ==
  ASSUME SInv, NEW s \in B!Sources, UNCHANGED vars,
         B!SrcLoop(s) \/ B!SrcGate(s) \/ B!SrcRobot(s) \/ B!SrcRetry(s)
  PROVE  SInv'
<1> USE Cast DEF SInv, Typed, B!Labels, B!From, B!Goto, B!Hold, vars
<1>1. Typed' /\ HasReading'
  <2>1. CASE B!SrcLoop(s) \/ B!SrcRetry(s)
    BY <2>1 DEF B!SrcLoop, B!SrcRetry, HasReading
  <2>2. CASE B!SrcGate(s)
    BY <2>2 DEF B!SrcGate, HasReading
  <2>3. CASE B!SrcRobot(s)
    <3>1. index[s] \in 0..(NumRobots - 1)
      BY <2>3 DEF B!SrcRobot, HasReading
    <3>2. [source |-> s, robot |-> index[s]] \in Values
      BY <3>1, MadeIsReading
    <3>3. QED
      BY <2>3, <3>2 DEF B!SrcRobot, HasReading
  <2>4. QED
    BY <2>1, <2>2, <2>3
<1>2. Inside'
  BY DEF B!SrcLoop, B!SrcRetry, B!SrcGate, B!SrcRobot, Inside
<1>3. Joined'
  BY DEF B!SrcLoop, B!SrcRetry, B!SrcGate, B!SrcRobot, Joined
<1>4. QED
  BY <1>1, <1>2, <1>3

\* tryPut, from its call to its return or timeout.
LEMMA SInvPut ==
  ASSUME IInv, SInv, NEW s \in B!Sources, Put(s)
  PROVE  SInv'
<1> USE Cast DEF IInv, Types, SInv, Typed, B!Labels, B!From, B!Goto, B!Hold, Goto
<1>1. CASE Call(s, "tryPut", held[s], "acquire") /\ B!PutCalled(s)
  BY <1>1 DEF Call, B!PutCalled, HasReading, Inside, Joined, TryOps
<1>2. CASE PushBack(s) /\ B!Touches(s, "putting")
  BY <1>2 DEF PushBack, B!Touches, B!local, HasReading, Inside, Joined
<1>3. CASE ReleaseUsed(s) /\ B!PutReturned(s)
  <2>1. index[s] \in 0..(NumRobots - 1)
    BY <1>3 DEF B!PutReturned, HasReading
  <2>2. index' \in [B!Sources -> 0..NumRobots] /\ index'[s] = index[s] + 1
    BY <1>3, <2>1 DEF B!PutReturned
  <2>3. Typed' /\ HasReading'
    BY <1>3, <2>2 DEF B!PutReturned, HasReading
  <2>4. Inside' /\ Joined'
    BY <1>3 DEF B!PutReturned, ReleaseUsed, Leave, Inside, Joined
  <2>5. QED
    BY <2>3, <2>4
<1>4. CASE TimeoutFree(s) /\ B!PutTimedOut(s)
  BY <1>4 DEF TimeoutFree, Leave, B!PutTimedOut, HasReading, Inside, Joined
<1>5. CASE (AcquireFree(s) \/ Unlock(s)) /\ UNCHANGED controller
  BY <1>5 DEF AcquireFree, Unlock, Leave, controller, HasReading, Inside, Joined
<1>6. QED
  BY <1>1, <1>2, <1>3, <1>4, <1>5 DEF Put

\* tryTake, insertAndProcess and clampedSetPosition.
LEMMA SInvTake ==
  ASSUME IInv, SInv, NEW t \in {processor, gui}, Take(t)
  PROVE  SInv'
<1> USE Cast DEF IInv, Types, SInv, Typed, B!Labels, B!From, B!Goto, B!Hold, Goto
<1>1. CASE PopFront(t) /\ B!Touches(t, "taking")
  BY <1>1 DEF PopFront, B!Touches, B!local, HasReading, Inside, Joined
<1>2. CASE ReleaseFree(t) /\ B!TakeReturned(t)
  <2>1. Result[t] \in Values \cup {NoItem}
    BY DEF Result
  <2>2. Typed' /\ HasReading'
    BY <1>2, <2>1 DEF B!TakeReturned, HasReading
  <2>3. Inside' /\ Joined'
    BY <1>2 DEF B!TakeReturned, ReleaseFree, Leave, Inside, Joined
  <2>4. QED
    BY <2>2, <2>3
<1>3. CASE TimeoutUsed(t) /\ B!TakeTimedOut(t)
  BY <1>3 DEF TimeoutUsed, Leave, B!TakeTimedOut, B!Home, HasReading, Inside, Joined
<1>4. CASE (AcquireUsed(t) \/ Front(t) \/ Unlock(t)) /\ UNCHANGED controller
  BY <1>4 DEF AcquireUsed, Front, shared, Unlock, Leave, controller, HasReading, Inside, Joined
<1>5. CASE UNCHANGED vars /\ (B!Insert(t) \/ B!Apply(t))
  <2>1. /\ UNCHANGED index /\ place[t] \in {"insert", "apply"}
        /\ \/ place' = [place EXCEPT ![t] = "apply"] /\ UNCHANGED held
           \/ place' = [place EXCEPT ![t] = B!Home(t)] /\ held' = [held EXCEPT ![t] = NoItem]
    BY <1>5 DEF B!Insert, B!Apply
  <2>2. Typed' /\ HasReading'
    BY <2>1 DEF B!Home, HasReading
  <2>3. Inside' /\ Joined'
    BY <1>5, <2>1 DEF B!Home, vars, Inside, Joined
  <2>4. QED
    BY <2>2, <2>3
<1>6. QED
  BY <1>1, <1>2, <1>3, <1>4, <1>5 DEF Take

\* The processor's and the GUI thread's own steps, the user's, and the mutex.
LEMMA SInvOther ==
  ASSUME IInv, SInv,
         \/ UNCHANGED vars /\ (B!ProcLoop \/ B!ProcSkips \/ B!Destroy \/ B!Close \/ B!Exited)
         \/ UNCHANGED vars /\ \E w \in B!Workers : B!Launch(w) \/ B!Join(w) \/ B!SetEnabled(w)
         \/ Call(processor, "tryTake", NoItem, "acquire") /\ B!ProcCalls
         \/ Call(gui, "tryTake", NoItem, "acquire") /\ B!RemoveCalled
         \/ \E t \in Threads : Obtain(t)
         \/ UNCHANGED sysVars
  PROVE  SInv'
<1> USE Cast DEF IInv, Types, SInv, Typed, B!Labels, B!From, B!Goto, Goto
<1>1. CASE UNCHANGED vars /\ (B!ProcLoop \/ B!ProcSkips)
  BY <1>1 DEF vars, B!ProcLoop, B!ProcSkips, HasReading, Inside, Joined
<1>2. CASE UNCHANGED vars /\ (B!Destroy \/ B!Close \/ B!Exited)
  BY <1>2 DEF vars, B!Destroy, B!Close, B!Exited, B!vars, B!local, HasReading, Inside, Joined
<1>3. ASSUME NEW w \in B!Workers, UNCHANGED vars, B!Launch(w) PROVE SInv'
  BY <1>3 DEF vars, B!Launch, HasReading, Inside, Joined
<1>4. ASSUME NEW w \in B!Workers, UNCHANGED vars, B!Join(w) PROVE SInv'
  <2>1. Typed' /\ HasReading' /\ Inside'
    BY <1>4 DEF vars, B!Join, HasReading, Inside
  <2>2. Joined'
    BY <1>4 DEF B!Join, B!Before, Joined
  <2>3. QED
    BY <2>1, <2>2
<1>5. ASSUME NEW w \in B!Workers, UNCHANGED vars, B!SetEnabled(w) PROVE SInv'
  BY <1>5 DEF vars, B!SetEnabled, B!local, HasReading, Inside, Joined
<1>6. CASE Call(processor, "tryTake", NoItem, "acquire") /\ B!ProcCalls
  BY <1>6 DEF Call, B!ProcCalls, TryOps, HasReading, Inside, Joined
<1>7. CASE Call(gui, "tryTake", NoItem, "acquire") /\ B!RemoveCalled
  BY <1>7 DEF Call, B!RemoveCalled, B!UserActs, TryOps, HasReading, Inside, Joined
<1>8. ASSUME NEW t \in Threads, Obtain(t) PROVE SInv'
  BY <1>8 DEF Obtain, Lock, controller, HasReading, Inside, Joined
<1>9. CASE UNCHANGED sysVars
  BY <1>9 DEF sysVars, vars, controller, HasReading, Inside, Joined
<1>10. QED
  BY <1>1, <1>2, <1>3, <1>4, <1>5, <1>6, <1>7, <1>8, <1>9

\* Whose step a step is.
LEMMA SysActors ==
  ASSUME [SysNext]_sysVars
  PROVE  \/ \E s \in B!Sources :
              \/ UNCHANGED vars /\ (B!SrcLoop(s) \/ B!SrcGate(s) \/ B!SrcRobot(s) \/ B!SrcRetry(s))
              \/ Put(s)
         \/ \E t \in {processor, gui} : Take(t)
         \/ UNCHANGED vars /\ (B!ProcLoop \/ B!ProcSkips \/ B!Destroy \/ B!Close \/ B!Exited)
         \/ UNCHANGED vars /\ \E w \in B!Workers : B!Launch(w) \/ B!Join(w) \/ B!SetEnabled(w)
         \/ Call(processor, "tryTake", NoItem, "acquire") /\ B!ProcCalls
         \/ Call(gui, "tryTake", NoItem, "acquire") /\ B!RemoveCalled
         \/ \E t \in Threads : Obtain(t)
         \/ UNCHANGED sysVars
BY DEF SysNext, sourceWorker, processorWorker, GuiThread, User

LEMMA SInvNext ==
  ASSUME IInv, SInv, [SysNext]_sysVars
  PROVE  SInv'
BY SysActors, SInvSource, SInvPut, SInvTake, SInvOther

\* The program uses the buffer as Buffer assumes.
LEMMA BufferNext ==
  ASSUME IInv, SInv, [SysNext]_sysVars
  PROVE  [Next]_vars
<1> USE Cast
<1>1. ASSUME NEW s \in B!Sources, Put(s) PROVE Next
  <2>1. CASE Call(s, "tryPut", held[s], "acquire") /\ B!PutCalled(s)
    <3>1. held[s] \in Values
      BY <2>1 DEF SInv, HasReading, B!PutCalled, B!From
    <3>2. CallPut(s)
      BY <2>1, <3>1 DEF CallPut, PutOps
    <3>3. QED
      BY <3>2 DEF Next, Begin
  <2>2. QED
    BY <1>1, <2>1 DEF Put, Next, Step
<1>2. ASSUME NEW t \in {processor, gui}, Take(t) PROVE Next \/ UNCHANGED vars
  BY <1>2 DEF Take, Next, Step
<1>3. ASSUME NEW t \in {processor, gui}, Call(t, "tryTake", NoItem, "acquire") PROVE Next
  BY <1>3 DEF CallTake, TakeOps, Next, Begin
<1>4. ASSUME NEW t \in Threads, Obtain(t) PROVE Next
  BY <1>4 DEF Obtain, Next
<1>5. UNCHANGED sysVars => UNCHANGED vars
  BY DEF sysVars
<1>6. QED
  BY <1>1, <1>2, <1>3, <1>4, <1>5, SysActors

LEMMA SysInvariant == SysSpec => [](IInv /\ SInv)
<1>1. SysInit => IInv /\ SInv
  BY InitIInv, SInvInit DEF SysInit
<1>2. IInv /\ SInv /\ [SysNext]_sysVars => IInv' /\ SInv'
  BY BufferNext, NextIInv, SInvNext
<1>3. QED
  BY <1>1, <1>2, PTL DEF SysSpec

\* The program's threads use the buffer as Buffer lets them: what is proved of
\* Buffer (Accounting, AccessSafe, NoLostWakeup, Refinement) holds of the program.
THEOREM UsesBuffer == SysSpec => Spec
<1>1. SysInit => Init
  BY DEF SysInit
<1>2. IInv /\ SInv /\ [SysNext]_sysVars => [Next]_vars
  BY BufferNext
<1>3. QED
  BY <1>1, <1>2, SysInvariant, PTL DEF SysSpec, Spec

\* DestroyedAtRest: whatever the switches, the user and the schedule did before,
\* the semaphores and the mutex are not in use when they are destroyed.
THEOREM AtRest == SysSpec => []DestroyedAtRest
<1>1. IInv /\ SInv => DestroyedAtRest
  <2> SUFFICES ASSUME IInv, SInv, place[gui] = "gone" PROVE DestroyedAtRest!2
    BY DEF DestroyedAtRest
  <2>1. \A t \in Threads : pc[t] = "idle"
    BY Cast DEF SInv, Joined, Inside
  <2>2. mutex = NoThread
    BY <2>1 DEF IInv, Types, Control
  <2>3. HoldingPlace = {} /\ HoldingItem = {}
    BY <2>1 DEF HoldingPlace, HoldingItem
  <2>4. freeSlots + usedSlots = MaxSize /\ usedSlots = Len(data)
    <3>1. freeSlots + 0 + Len(data) = MaxSize /\ usedSlots + 0 = Len(data)
      BY <2>3, FS_EmptySet DEF IInv, SlotAccounting
    <3>2. freeSlots \in Nat /\ usedSlots \in Nat /\ Len(data) \in Nat
      BY DEF IInv, Types
    <3>3. QED
      BY <3>1, <3>2
  <2>5. QED
    BY <2>1, <2>2, <2>4
<1>2. QED
  BY <1>1, SysInvariant, PTL

-----------------------------------------------------------------------------
(***************************************************************************)
(* Every step of the program is a step of Backend, or none.  The instance  *)
(* of BoundedFifo in Backend is the one Buffer implements.                 *)
(***************************************************************************)
LEMMA SameFifo ==
  ASSUME NEW t, NEW o, NEW v
  PROVE  /\ Fifo!Init => B!Fifo!Init
         /\ Fifo!Invoke(t, o, v) => B!Fifo!Invoke(t, o, v)
         /\ Fifo!Enqueue(t) => B!Fifo!Enqueue(t)
         /\ Fifo!Dequeue(t) => B!Fifo!Dequeue(t)
         /\ Fifo!Return(t) => B!Fifo!Return(t)
         /\ Fifo!Fail(t) => B!Fifo!Fail(t)
<1>1. Threads = B!AllThreads
  BY SystemAssumption
<1>2. /\ Fifo!ItemsSpokenFor(t) = B!Fifo!ItemsSpokenFor(t)
      /\ Fifo!PlacesSpokenFor(t) = B!Fifo!PlacesSpokenFor(t)
  BY <1>1 DEF Fifo!ItemsSpokenFor, Fifo!PlacesSpokenFor, Fifo!Calls, Fifo!PutOps, Fifo!TakeOps,
    B!Fifo!ItemsSpokenFor, B!Fifo!PlacesSpokenFor, B!Fifo!Calls, B!Fifo!PutOps, B!Fifo!TakeOps
<1>3. \A S : Fifo!Cardinality(S) = B!Fifo!Cardinality(S)
  BY DEF Fifo!Cardinality, B!Fifo!Cardinality
<1>4. Fifo!EndCall(t) => B!Fifo!EndCall(t)
  BY DEF Fifo!EndCall, B!Fifo!EndCall, Fifo!NoOp, B!Fifo!NoOp
<1>5. Fifo!Fail(t) => B!Fifo!Fail(t)
  BY <1>2, <1>3, <1>4 DEF Fifo!Fail, B!Fifo!Fail
<1>6. Fifo!Init => B!Fifo!Init
  BY <1>1 DEF Fifo!Init, B!Fifo!Init, Fifo!NoOp, B!Fifo!NoOp
<1>7. Fifo!Invoke(t, o, v) => B!Fifo!Invoke(t, o, v)
  BY DEF Fifo!Invoke, B!Fifo!Invoke
<1>8. Fifo!Enqueue(t) => B!Fifo!Enqueue(t)
  BY DEF Fifo!Enqueue, B!Fifo!Enqueue, Fifo!PutOps, B!Fifo!PutOps,
    Fifo!TakesEffect, B!Fifo!TakesEffect
<1>9. Fifo!Dequeue(t) => B!Fifo!Dequeue(t)
  BY DEF Fifo!Dequeue, B!Fifo!Dequeue, Fifo!TakeOps, B!Fifo!TakeOps,
    Fifo!TakesEffect, B!Fifo!TakesEffect
<1>10. Fifo!Return(t) => B!Fifo!Return(t)
  BY <1>4 DEF Fifo!Return, B!Fifo!Return
<1>11. QED
  BY <1>5, <1>6, <1>7, <1>8, <1>9, <1>10

\* Between the steps that a caller can see, Backend sees nothing.
LEMMA SilentStep ==
  ASSUME IInv, SInv, NEW t \in Threads, UNCHANGED controller,
         AcquireFree(t) \/ AcquireUsed(t) \/ Lock(t) \/ Front(t) \/ Unlock(t)
  PROVE  UNCHANGED B!vars
<1>1. op[t] # Inspect
  BY DEF SInv, Inside, TryOps, Inspect, NoOp
<1>2. UNCHANGED Fifo!fifoVars
  BY <1>1, FifoSilent
<1>3. QED
  BY <1>2 DEF Fifo!fifoVars, controller, B!vars, B!buffer, B!local, B!config

LEMMA PutStep ==
  ASSUME IInv, SInv, NEW s \in B!Sources, Put(s)
  PROVE  B!SrcStep(s) \/ B!SrcEnqueue(s) \/ UNCHANGED B!vars
<1> USE Cast
<1>1. CASE Call(s, "tryPut", held[s], "acquire") /\ B!PutCalled(s)
  <2>1. held[s] \in Values
    BY <1>1 DEF SInv, HasReading, B!PutCalled, B!From
  <2>2. PICK v \in Values : v = held[s]
    BY <2>1
  <2>3. Fifo!Invoke(s, "tryPut", v)
    BY <1>1, <2>2, FifoInvoke DEF Ops, PutOps
  <2>4. B!Fifo!Invoke(s, "tryPut", held[s])
    BY <2>2, <2>3, SameFifo
  <2>5. QED
    BY <1>1, <2>4 DEF B!SrcPut, B!SrcStep
<1>2. CASE PushBack(s) /\ B!Touches(s, "putting")
  BY <1>2, FifoEnqueue, SameFifo DEF B!SrcEnqueue
<1>3. CASE ReleaseUsed(s) /\ B!PutReturned(s)
  BY <1>3, FifoReturn, SameFifo DEF B!SrcPutDone, B!SrcStep
<1>4. CASE TimeoutFree(s) /\ B!PutTimedOut(s)
  BY <1>4, FifoFail, SameFifo DEF B!SrcPutFail, B!SrcStep
<1>5. CASE (AcquireFree(s) \/ Unlock(s)) /\ UNCHANGED controller
  BY <1>5, SilentStep
<1>6. QED
  BY <1>1, <1>2, <1>3, <1>4, <1>5 DEF Put

LEMMA TakeStep ==
  ASSUME IInv, SInv, NEW t \in {processor, gui}, Take(t)
  PROVE  B!Consume(t) \/ UNCHANGED B!vars
<1> USE Cast
<1>1. CASE PopFront(t) /\ B!Touches(t, "taking")
  BY <1>1, FifoDequeue, SameFifo DEF B!TakeItem, B!Consume
<1>2. CASE ReleaseFree(t) /\ B!TakeReturned(t)
  BY <1>2, FifoReturn, SameFifo DEF B!TakeDone, B!Consume
<1>3. CASE TimeoutUsed(t) /\ B!TakeTimedOut(t)
  BY <1>3, FifoFail, SameFifo DEF B!TakeFail, B!Consume
<1>4. CASE (AcquireUsed(t) \/ Front(t) \/ Unlock(t)) /\ UNCHANGED controller
  BY <1>4, SilentStep
<1>5. CASE UNCHANGED vars /\ (B!Insert(t) \/ B!Apply(t))
  BY <1>5 DEF B!Consume
<1>6. QED
  BY <1>1, <1>2, <1>3, <1>4, <1>5 DEF Take

\* A call of tryTake, by the processor or by manualRemove.
LEMMA TakeCall ==
  ASSUME IInv, SInv, NEW t \in {processor, gui}, Call(t, "tryTake", NoItem, "acquire")
  PROVE  B!Fifo!Invoke(t, "tryTake", NoItem)
<1>1. Fifo!Invoke(t, "tryTake", NoItem)
  BY Cast, FifoInvoke DEF Ops, TakeOps
<1>2. QED
  BY <1>1, SameFifo

LEMMA BackendNext ==
  ASSUME IInv, SInv, [SysNext]_sysVars
  PROVE  [B!Next]_(B!vars)
<1> USE Cast
<1>1. ASSUME NEW s \in B!Sources,
             B!SrcLoop(s) \/ B!SrcGate(s) \/ B!SrcRobot(s) \/ B!SrcRetry(s)
      PROVE  B!Next
  BY <1>1 DEF B!SrcStep, B!Next
<1>2. ASSUME NEW s \in B!Sources, Put(s) PROVE B!Next \/ UNCHANGED B!vars
  BY <1>2, PutStep DEF B!Next
<1>3. ASSUME NEW t \in {processor, gui}, Take(t) PROVE B!Next \/ UNCHANGED B!vars
  BY <1>3, TakeStep DEF B!Next, B!ProcStep, B!GuiStep
<1>4. B!ProcLoop \/ B!ProcSkips \/ B!Destroy \/ B!Close \/ B!Exited => B!Next
  BY DEF B!ProcGate, B!ProcStep, B!GuiStep, B!User, B!Next
<1>5. ASSUME NEW w \in B!Workers, B!Launch(w) \/ B!Join(w) \/ B!SetEnabled(w) PROVE B!Next
  BY <1>5 DEF B!GuiStep, B!User, B!Next
<1>6. CASE Call(processor, "tryTake", NoItem, "acquire") /\ B!ProcCalls
  BY <1>6, TakeCall DEF B!ProcGate, B!ProcStep, B!Next
<1>7. CASE Call(gui, "tryTake", NoItem, "acquire") /\ B!RemoveCalled
  BY <1>7, TakeCall DEF B!ManualRemove, B!User, B!Next
<1>8. ASSUME NEW t \in Threads, Obtain(t) PROVE UNCHANGED B!vars
  BY <1>8, SilentStep DEF Obtain
<1>9. UNCHANGED sysVars => UNCHANGED B!vars
  BY DEF sysVars, vars, controller, Stage, Result, B!vars, B!buffer, B!local, B!config
<1>10. QED
  BY <1>1, <1>2, <1>3, <1>4, <1>5, <1>6, <1>7, <1>8, <1>9, SysActors

\* ImplementsBackend: the program with its semaphores, its mutex and its deque does
\* nothing that Backend, with a buffer whose calls take effect at once, does not.
THEOREM Implements == SysSpec => ImplementsBackend
<1>1. SysInit => B!Init
  BY FifoInit, SameFifo DEF SysInit, B!Init
<1>2. IInv /\ SInv /\ [SysNext]_sysVars => [B!Next]_(B!vars)
  BY BackendNext
<1>3. QED
  BY <1>1, <1>2, SysInvariant, PTL DEF SysSpec, ImplementsBackend, B!Spec

=============================================================================
