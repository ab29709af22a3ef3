------------------------------- MODULE System -------------------------------
(***************************************************************************)
(* The whole program with its real buffer: what BackendController's        *)
(* threads do beside the buffer (module Backend) joined with every step of *)
(* Buffer/buffer.cpp, its semaphores and its mutex (module Buffer).        *)
(*                                                                         *)
(* Backend is written on top of BoundedFifo, where a call takes effect at  *)
(* one instant.  Here a call is what it is in the program, and the system  *)
(* is shown to do nothing that Backend does not.                           *)
(***************************************************************************)
EXTENDS Buffer

CONSTANTS
  NumRobots,    \* NUM_ROBOTS
  NumSources,   \* NUM_SOURCES
  UserEvents,   \* bound, see Backend
  Switches,     \* bound, see Backend
  LateBound,    \* bound, see Backend
  processor,    \* the processor thread
  gui           \* the GUI thread

VARIABLES
  place,        \* place[t]: where thread t is in BackendController, pc of Backend
  index, held, matrix, enabled, running, events, late   \* see Backend

B == INSTANCE Backend WITH
  BufferSize <- MaxSize,
  queue <- data,
  stage <- Stage,
  item <- Result,
  pc <- place

\* The threads of the program, what they share the buffer for and what is in it.
ASSUME SystemAssumption ==
  /\ Threads = B!AllThreads
  /\ Values = B!Readings
  /\ Uses = [t \in Threads |-> IF t \in B!Sources THEN {"tryPut"} ELSE {"tryTake"}]
  /\ NumRobots \in Nat \ {0} /\ NumSources \in Nat \ {0}
  /\ UserEvents \in Nat /\ LateBound \in Nat
  /\ processor \notin B!Sources /\ gui \notin B!Workers
  /\ NoItem \notin B!Robots

controller == <<place, index, held, matrix, enabled, running, events, late>>

sysVars == <<vars, controller>>

SysInit == Init /\ B!ControllerInit

(***************************************************************************)
(* One step of a thread, inside the buffer or outside.  tryPut and tryTake *)
(* are called and return where Backend calls them and they return there;   *)
(* what comes between but for push_back and pop_front is the buffer's own. *)
(***************************************************************************)
Put(s) ==
  \/ Call(s, "tryPut", held[s], "acquire") /\ B!PutCalled(s)
  \/ PushBack(s) /\ B!Touches(s, "putting")
  \/ ReleaseUsed(s) /\ B!PutReturned(s)
  \/ TimeoutFree(s) /\ B!PutTimedOut(s)
  \/ (AcquireFree(s) \/ Unlock(s)) /\ UNCHANGED controller

Take(t) ==
  \/ PopFront(t) /\ B!Touches(t, "taking")
  \/ ReleaseFree(t) /\ B!TakeReturned(t)
  \/ TimeoutUsed(t) /\ B!TakeTimedOut(t)
  \/ (AcquireUsed(t) \/ Front(t) \/ Unlock(t)) /\ UNCHANGED controller
  \/ UNCHANGED vars /\ (B!Insert(t) \/ B!Apply(t))

Obtain(t) == Lock(t) /\ UNCHANGED controller

sourceWorker(s) ==
  \/ UNCHANGED vars /\ (B!SrcLoop(s) \/ B!SrcGate(s) \/ B!SrcRobot(s) \/ B!SrcRetry(s))
  \/ Put(s)

processorWorker ==
  \/ UNCHANGED vars /\ (B!ProcLoop \/ B!ProcSkips)
  \/ Call(processor, "tryTake", NoItem, "acquire") /\ B!ProcCalls
  \/ Take(processor)

GuiThread ==
  \/ UNCHANGED vars /\ ((\E w \in B!Workers : B!Launch(w) \/ B!Join(w)) \/ B!Destroy)
  \/ Take(gui)

User ==
  \/ UNCHANGED vars /\ ((\E w \in B!Workers : B!SetEnabled(w)) \/ B!Close)
  \/ Call(gui, "tryTake", NoItem, "acquire") /\ B!RemoveCalled

SysNext ==
  \/ \E s \in B!Sources : sourceWorker(s)
  \/ processorWorker
  \/ GuiThread
  \/ User
  \/ \E t \in Threads : Obtain(t)
  \/ UNCHANGED vars /\ B!Exited

SysSpec == SysInit /\ [][SysNext]_sysVars

(***************************************************************************)
(* Every thread is scheduled and obtains the mutex in the end, as in       *)
(* Buffer; the user need not do anything, as in Backend.                   *)
(***************************************************************************)
SysFairness ==
  /\ \A s \in B!Sources : WF_sysVars(sourceWorker(s))
  /\ WF_sysVars(processorWorker)
  /\ WF_sysVars(GuiThread)
  /\ \A t \in Threads : SF_sysVars(Obtain(t))

SysFairSpec == SysSpec /\ SysFairness

-----------------------------------------------------------------------------
(***************************************************************************)
(* The buffer is destroyed at rest: when ~BackendController is over the    *)
(* mutex is free, no thread waits on a semaphore or is inside a call, and  *)
(* every place is accounted for, free or filled.                           *)
(***************************************************************************)
DestroyedAtRest ==
  place[gui] = "gone" =>
    /\ mutex = NoThread
    /\ \A t \in Threads : pc[t] = "idle"
    /\ freeSlots + usedSlots = MaxSize /\ usedSlots = Len(data)

(***************************************************************************)
(* The program with the real buffer is one of Backend's: interleaved with  *)
(* four other threads between acquire, lock, front, pop_front, unlock and  *)
(* release, a call looks to BackendController as if it took effect at      *)
(* once.  What holds of every behaviour of Backend, holds of the program.  *)
(***************************************************************************)
ImplementsBackend == B!Spec

(***************************************************************************)
(* Closing the window ends the program, also when the signal finds threads *)
(* waiting for a token or for the mutex inside a call (buffer.h:40-43).    *)
(***************************************************************************)
ClosingEnds == place[gui] = "join" ~> place[gui] = "gone"
=============================================================================
