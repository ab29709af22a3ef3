------------------------------- MODULE Buffer -------------------------------
(***************************************************************************)
(* The bounded buffer of Buffer/buffer.cpp, one step per access to state   *)
(* that threads share: two QSemaphores count the free places and the       *)
(* stored readings, a std::mutex protects the std::deque.                  *)
(*                                                                         *)
(*   put, tryPut    acquire(free) lock  push_back           unlock release *)
(*   take, tryTake  acquire(used) lock  front  pop_front    unlock release *)
(*   getSize, toString            lock  read                unlock         *)
(*                                                                         *)
(* Operators whose name ends in _Slip are not part of the model: each is   *)
(* an action with a plausible mistake in it, kept to show that the         *)
(* properties below notice such a mistake.                                 *)
(***************************************************************************)
EXTENDS Naturals, Sequences, FiniteSets

CONSTANTS
  Threads,   \* the threads that share the buffer
  Uses,      \* Uses[t]: the operations thread t may call
  Values,    \* the readings
  MaxSize,   \* maxSize_, Constants::BUFFER_SIZE in the program
  NoItem,    \* "no reading"
  NoThread   \* "the mutex is free"

PutOps == {"put", "tryPut"}
TakeOps == {"take", "tryTake"}
TryOps == {"tryPut", "tryTake"}
Inspect == "inspect"
NoOp == "none"
Ops == PutOps \cup TakeOps \cup {Inspect}

ASSUME BufferAssumption ==
  /\ IsFiniteSet(Threads)
  /\ Uses \in [Threads -> SUBSET Ops]
  /\ MaxSize \in Nat \ {0}   \* buffer.cpp:28 throws otherwise
  /\ NoItem \notin Values
  /\ NoThread \notin Threads

VARIABLES
  freeSlots,   \* freeSlots_, the semaphore that counts free places
  usedSlots,   \* usedSlots_, the semaphore that counts stored readings
  mutex,       \* the thread that holds mutex_, or NoThread
  data,        \* data_, the deque
  pc,          \* pc[t]: where thread t is in its operation
  op,          \* op[t]: the operation
  item,        \* item[t]: the argument of a put, the result of a take
  seen         \* seen[t]: what getSize() or toString() read

vars == <<freeSlots, usedSlots, mutex, data, pc, op, item, seen>>
shared == <<freeSlots, usedSlots, mutex, data>>

PCs == {"idle", "acquire", "lock", "access", "pop", "unlock", "release"}

Init ==
  /\ freeSlots = MaxSize
  /\ usedSlots = 0
  /\ mutex = NoThread
  /\ data = <<>>
  /\ pc = [t \in Threads |-> "idle"]
  /\ op = [t \in Threads |-> NoOp]
  /\ item = [t \in Threads |-> NoItem]
  /\ seen = [t \in Threads |-> <<>>]

Goto(t, label) == pc' = [pc EXCEPT ![t] = label]

Call(t, o, v, label) ==
  /\ pc[t] = "idle"
  /\ o \in Uses[t]
  /\ op' = [op EXCEPT ![t] = o]
  /\ item' = [item EXCEPT ![t] = v]
  /\ Goto(t, label)
  /\ UNCHANGED <<shared, seen>>

CallPut(t) == \E o \in PutOps, v \in Values : Call(t, o, v, "acquire")
CallTake(t) == \E o \in TakeOps : Call(t, o, NoItem, "acquire")
CallInspect(t) == Call(t, Inspect, NoItem, "lock")

\* The operation returns and its local variables are gone.
Leave(t) ==
  /\ Goto(t, "idle")
  /\ op' = [op EXCEPT ![t] = NoOp]
  /\ item' = [item EXCEPT ![t] = NoItem]
  /\ seen' = [seen EXCEPT ![t] = <<>>]

(***************************************************************************)
(* freeSlots_.acquire() / tryAcquire(1, timeoutMs), and the same on        *)
(* usedSlots_.  A tryAcquire gives up only when it finds no token.         *)
(***************************************************************************)
AcquireFree(t) ==
  /\ pc[t] = "acquire" /\ op[t] \in PutOps
  /\ freeSlots > 0
  /\ freeSlots' = freeSlots - 1
  /\ Goto(t, "lock")
  /\ UNCHANGED <<usedSlots, mutex, data, op, item, seen>>

AcquireUsed_Slip(t) ==   \* looks at available() and takes no token
  /\ pc[t] = "acquire" /\ op[t] \in TakeOps
  /\ usedSlots > 0
  /\ Goto(t, "lock")
  /\ UNCHANGED <<shared, op, item, seen>>

AcquireUsed(t) ==
  /\ pc[t] = "acquire" /\ op[t] \in TakeOps
  /\ usedSlots > 0
  /\ usedSlots' = usedSlots - 1
  /\ Goto(t, "lock")
  /\ UNCHANGED <<freeSlots, mutex, data, op, item, seen>>

TimeoutFree_Slip(t) ==   \* tryPut that waits without a deadline, as put does
  /\ pc[t] = "acquire" /\ op[t] = "tryPut"
  /\ freeSlots = 0
  /\ UNCHANGED vars

TimeoutFree(t) ==
  /\ pc[t] = "acquire" /\ op[t] = "tryPut"
  /\ freeSlots = 0
  /\ Leave(t)
  /\ UNCHANGED shared

TimeoutUsed_Slip(t) ==   \* "gives back" a token that it never got
  /\ pc[t] = "acquire" /\ op[t] = "tryTake"
  /\ usedSlots = 0
  /\ freeSlots' = freeSlots + 1
  /\ Leave(t)
  /\ UNCHANGED <<usedSlots, mutex, data>>

TimeoutUsed(t) ==
  /\ pc[t] = "acquire" /\ op[t] = "tryTake"
  /\ usedSlots = 0
  /\ Leave(t)
  /\ UNCHANGED shared

(***************************************************************************)
(* The critical section.  front() and pop_front() of an empty deque are    *)
(* undefined behaviour: any reading may come out.                          *)
(***************************************************************************)
Lock_Slip(t) ==   \* no lock_guard
  /\ pc[t] = "lock"
  /\ mutex' = t
  /\ Goto(t, "access")
  /\ UNCHANGED <<freeSlots, usedSlots, data, op, item, seen>>

Lock(t) ==
  /\ pc[t] = "lock"
  /\ mutex = NoThread
  /\ mutex' = t
  /\ Goto(t, "access")
  /\ UNCHANGED <<freeSlots, usedSlots, data, op, item, seen>>

PushBack(t) ==
  /\ pc[t] = "access" /\ op[t] \in PutOps
  /\ data' = Append(data, item[t])
  /\ Goto(t, "unlock")
  /\ UNCHANGED <<freeSlots, usedSlots, mutex, op, item, seen>>

Front(t) ==
  /\ pc[t] = "access" /\ op[t] \in TakeOps
  /\ \E v \in IF data = <<>> THEN Values ELSE {Head(data)} :
        item' = [item EXCEPT ![t] = v]
  /\ Goto(t, "pop")
  /\ UNCHANGED <<shared, op, seen>>

PopFront(t) ==
  /\ pc[t] = "pop"
  /\ data' = IF data = <<>> THEN <<>> ELSE Tail(data)
  /\ Goto(t, "unlock")
  /\ UNCHANGED <<freeSlots, usedSlots, mutex, op, item, seen>>

ReadAll(t) ==
  /\ pc[t] = "access" /\ op[t] = Inspect
  /\ seen' = [seen EXCEPT ![t] = data]
  /\ Goto(t, "unlock")
  /\ UNCHANGED <<shared, op, item>>

Unlock(t) ==
  /\ pc[t] = "unlock"
  /\ mutex' = NoThread
  /\ IF op[t] = Inspect
       THEN Leave(t)
       ELSE Goto(t, "release") /\ UNCHANGED <<op, item, seen>>
  /\ UNCHANGED <<freeSlots, usedSlots, data>>

(***************************************************************************)
(* usedSlots_.release() and freeSlots_.release(), and the return.          *)
(***************************************************************************)
ReleaseUsed_Slip(t) ==   \* the wrong semaphore
  /\ pc[t] = "release" /\ op[t] \in PutOps
  /\ freeSlots' = freeSlots + 1
  /\ Leave(t)
  /\ UNCHANGED <<usedSlots, mutex, data>>

ReleaseUsed(t) ==
  /\ pc[t] = "release" /\ op[t] \in PutOps
  /\ usedSlots' = usedSlots + 1
  /\ Leave(t)
  /\ UNCHANGED <<freeSlots, mutex, data>>

ReleaseFree(t) ==
  /\ pc[t] = "release" /\ op[t] \in TakeOps
  /\ freeSlots' = freeSlots + 1
  /\ Leave(t)
  /\ UNCHANGED <<usedSlots, mutex, data>>

Begin(t) == CallPut(t) \/ CallTake(t) \/ CallInspect(t)

Step(t) ==
  \/ AcquireFree(t) \/ AcquireUsed(t) \/ TimeoutFree(t) \/ TimeoutUsed(t)
  \/ PushBack(t) \/ Front(t) \/ PopFront(t) \/ ReadAll(t)
  \/ Unlock(t) \/ ReleaseUsed(t) \/ ReleaseFree(t)

Next == \E t \in Threads : Begin(t) \/ Step(t) \/ Lock(t)

Spec == Init /\ [][Next]_vars

(***************************************************************************)
(* A thread inside an operation keeps running (WF), and a mutex that is    *)
(* released again and again is obtained in the end (SF): std::mutex does   *)
(* not promise it, critical sections of a push or a pop make it so.  No    *)
(* thread has to start an operation.                                       *)
(***************************************************************************)
Fairness == \A t \in Threads : WF_vars(Step(t)) /\ SF_vars(Lock(t))

FairSpec == Spec /\ Fairness

-----------------------------------------------------------------------------
(***************************************************************************)
(* Every variable has its type; the semaphores never exceed the capacity.  *)
(***************************************************************************)
TypeOK ==
  /\ freeSlots \in 0..MaxSize
  /\ usedSlots \in 0..MaxSize
  /\ mutex \in Threads \cup {NoThread}
  /\ data \in Seq(Values)
  /\ pc \in [Threads -> PCs]
  /\ op \in [Threads -> Ops \cup {NoOp}]
  /\ item \in [Threads -> Values \cup {NoItem}]
  /\ seen \in [Threads -> Seq(Values)]

\* Puts that hold a place they have not filled, and takes that have not
\* given back the place they emptied.
HoldingPlace ==
  {t \in Threads : \/ op[t] \in PutOps /\ pc[t] \in {"lock", "access"}
                   \/ op[t] \in TakeOps /\ pc[t] \in {"unlock", "release"}}

\* Puts whose reading is stored but not announced, and takes that are
\* entitled to a reading they have not removed.
HoldingItem ==
  {t \in Threads : \/ op[t] \in PutOps /\ pc[t] \in {"unlock", "release"}
                   \/ op[t] \in TakeOps /\ pc[t] \in {"lock", "access", "pop"}}

(***************************************************************************)
(* The two semaphores and the deque agree at every instant, in the middle  *)
(* of any number of overlapping operations: every place is free, filled or *)
(* in the hands of exactly one operation, and so is every stored reading.  *)
(* This is the textbook argument for put()/take(), buffer.cpp:38-77.       *)
(***************************************************************************)
SlotAccounting ==
  /\ freeSlots + Cardinality(HoldingPlace) + Len(data) = MaxSize
  /\ usedSlots + Cardinality(HoldingItem) = Len(data)

(***************************************************************************)
(* front() and pop_front() never run on an empty deque (undefined          *)
(* behaviour at buffer.cpp:72-73, 88-89), and push_back never finds the    *)
(* deque at its capacity, however many threads take and put at once.       *)
(***************************************************************************)
DequeAccessSafe ==
  \A t \in Threads :
    /\ op[t] \in TakeOps /\ pc[t] \in {"access", "pop"} => data # <<>>
    /\ op[t] \in PutOps /\ pc[t] = "access" => Len(data) < MaxSize

(***************************************************************************)
(* No wakeup is lost and nobody waits on nobody: a put finds no token only *)
(* if the buffer is full, a take only if it is empty, or else a thread is  *)
(* on its way to release one; and the holder of the mutex never waits      *)
(* while it has it (the order of acquire and lock, buffer.cpp:38-77).      *)
(***************************************************************************)
CanGoOn(u) ==
  \/ pc[u] \in {"access", "pop", "unlock", "release"}
  \/ pc[u] = "lock" /\ mutex = NoThread

WaitsOnlyWithReason ==
  \A t \in Threads :
    /\ pc[t] = "acquire" /\ op[t] \in PutOps /\ freeSlots = 0
         => Len(data) = MaxSize \/ \E u \in Threads : CanGoOn(u)
    /\ pc[t] = "acquire" /\ op[t] \in TakeOps /\ usedSlots = 0
         => data = <<>> \/ \E u \in Threads : CanGoOn(u)
    /\ pc[t] = "lock" => \E u \in Threads : CanGoOn(u)

(***************************************************************************)
(* Buffer is linearizable: each call takes effect at one instant, inside   *)
(* the critical section, as BoundedFifo says.  A take has not taken effect *)
(* until it has popped, so its result is hidden until then.                *)
(***************************************************************************)
Stage ==
  [t \in Threads |->
     CASE pc[t] = "idle" -> "idle"
       [] pc[t] \in {"acquire", "lock", "access", "pop"} -> "pending"
       [] pc[t] \in {"unlock", "release"} -> "done"]

Result == [t \in Threads |-> IF pc[t] = "pop" THEN NoItem ELSE item[t]]

Fifo == INSTANCE BoundedFifo WITH queue <- data, stage <- Stage, item <- Result

Linearizable == Fifo!Spec

(***************************************************************************)
(* A try operation and an inspection always come back, even if the buffer  *)
(* stays full or empty for ever: what lets workers notice a shutdown and   *)
(* the GUI thread never freeze (buffer.h:40-43).                           *)
(***************************************************************************)
TryReturns ==
  \A t \in Threads : (op[t] \in TryOps \cup {Inspect}) ~> (pc[t] = "idle")
=============================================================================
