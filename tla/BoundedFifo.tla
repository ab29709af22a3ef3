---------------------------- MODULE BoundedFifo ----------------------------
(***************************************************************************)
(* What Buffer (Buffer/buffer.h) promises its callers: a bounded FIFO on   *)
(* which every operation takes effect at one instant between its call and  *)
(* its return, whatever the other threads do.  There are no semaphores and *)
(* no mutex here; module Buffer has them and is shown to implement this    *)
(* specification, and module Backend is built on it.                       *)
(***************************************************************************)
EXTENDS Naturals, Sequences, FiniteSets

CONSTANTS
  Threads,   \* the threads that call the buffer, finitely many
  Values,    \* the readings that can be stored
  MaxSize,   \* Constants::BUFFER_SIZE, the capacity, not 0
  NoItem     \* "this call carries no reading"

PutOps == {"put", "tryPut"}
TakeOps == {"take", "tryTake"}
Inspect == "inspect"         \* getSize() and toString()
NoOp == "none"
Ops == PutOps \cup TakeOps \cup {Inspect}

VARIABLES
  queue,   \* the stored readings, oldest first
  stage,   \* stage[t]: "idle", "pending" (called) or "done" (took effect)
  op,      \* op[t]: the operation t is executing
  item,    \* item[t]: the reading t puts, or has taken
  seen     \* seen[t]: the contents an inspection saw

fifoVars == <<queue, stage, op, item, seen>>

Init ==
  /\ queue = <<>>
  /\ stage = [t \in Threads |-> "idle"]
  /\ op = [t \in Threads |-> NoOp]
  /\ item = [t \in Threads |-> NoItem]
  /\ seen = [t \in Threads |-> <<>>]

(***************************************************************************)
(* A call and its return.                                                  *)
(***************************************************************************)
Invoke(t, o, v) ==
  /\ stage[t] = "idle"
  /\ stage' = [stage EXCEPT ![t] = "pending"]
  /\ op' = [op EXCEPT ![t] = o]
  /\ item' = [item EXCEPT ![t] = v]
  /\ UNCHANGED <<queue, seen>>

EndCall(t) ==
  /\ stage' = [stage EXCEPT ![t] = "idle"]
  /\ op' = [op EXCEPT ![t] = NoOp]
  /\ item' = [item EXCEPT ![t] = NoItem]
  /\ seen' = [seen EXCEPT ![t] = <<>>]
  /\ UNCHANGED queue

Return(t) == stage[t] = "done" /\ EndCall(t)

(***************************************************************************)
(* The instant at which an operation takes effect.                         *)
(***************************************************************************)
TakesEffect(t) ==
  /\ stage[t] = "pending"
  /\ stage' = [stage EXCEPT ![t] = "done"]
  /\ UNCHANGED op

Enqueue(t) ==
  /\ op[t] \in PutOps
  /\ Len(queue) < MaxSize
  /\ TakesEffect(t)
  /\ queue' = Append(queue, item[t])
  /\ UNCHANGED <<item, seen>>

Dequeue(t) ==
  /\ op[t] \in TakeOps
  /\ queue # <<>>
  /\ TakesEffect(t)
  /\ item' = [item EXCEPT ![t] = Head(queue)]
  /\ queue' = Tail(queue)
  /\ UNCHANGED seen

Observe(t) ==
  /\ op[t] = Inspect
  /\ TakesEffect(t)
  /\ seen' = [seen EXCEPT ![t] = queue]
  /\ UNCHANGED <<queue, item>>

(***************************************************************************)
(* Only the "try" operations may give up, and they may not do so lightly:  *)
(* a tryTake reports "empty" only if every stored reading is spoken for by *)
(* an unfinished call of another thread, and a tryPut reports "full" only  *)
(* if every free place is.  With no other call in progress the answer is   *)
(* exact.                                                                  *)
(***************************************************************************)
Calls(ops, s) == {u \in Threads : op[u] \in ops /\ stage[u] = s}

ItemsSpokenFor(t) == (Calls(PutOps, "done") \cup Calls(TakeOps, "pending")) \ {t}

PlacesSpokenFor(t) == (Calls(PutOps, "pending") \cup Calls(TakeOps, "done")) \ {t}

Fail(t) ==
  /\ stage[t] = "pending"
  /\ \/ /\ op[t] = "tryTake"
        /\ Len(queue) <= Cardinality(ItemsSpokenFor(t))
     \/ /\ op[t] = "tryPut"
        /\ MaxSize - Len(queue) <= Cardinality(PlacesSpokenFor(t))
  /\ EndCall(t)

Next ==
  \E t \in Threads :
    \/ \E o \in PutOps, v \in Values : Invoke(t, o, v)
    \/ \E o \in TakeOps \cup {Inspect} : Invoke(t, o, NoItem)
    \/ Enqueue(t)
    \/ Dequeue(t)
    \/ Observe(t)
    \/ Fail(t)
    \/ Return(t)

Spec == Init /\ [][Next]_fifoVars
=============================================================================
