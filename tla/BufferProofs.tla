---------------------------- MODULE BufferProofs ----------------------------
(***************************************************************************)
(* Proofs about Buffer, for any set of threads, any use they make of the   *)
(* operations, any capacity and any readings.                              *)
(*                                                                         *)
(* SlotAccounting is not inductive alone: that an operation holds at most  *)
(* one place and one reading, and that only the holder of the mutex is     *)
(* inside the critical section, depends on where each thread is.  IInv     *)
(* adds that (Control), and what a take has read before it pops (PopHead). *)
(***************************************************************************)
EXTENDS Buffer, TLAPS, FiniteSetTheorems

Types ==
  /\ freeSlots \in Nat
  /\ usedSlots \in Nat
  /\ mutex \in Threads \cup {NoThread}
  /\ data \in Seq(Values)
  /\ pc \in [Threads -> PCs]
  /\ op \in [Threads -> Ops \cup {NoOp}]
  /\ item \in [Threads -> Values \cup {NoItem}]
  /\ seen \in [Threads -> Seq(Values)]

Control ==
  \A t \in Threads :
    /\ pc[t] = "idle" <=> op[t] = NoOp
    /\ pc[t] \in {"access", "pop", "unlock"} <=> mutex = t
    /\ pc[t] \in {"acquire", "release"} => op[t] \in PutOps \cup TakeOps
    /\ pc[t] = "pop" => op[t] \in TakeOps
    /\ op[t] \in PutOps => item[t] \in Values
    /\ pc[t] \in {"idle", "acquire", "lock", "access"} /\ op[t] \notin PutOps
         => item[t] = NoItem

PopHead == \A t \in Threads : pc[t] = "pop" => item[t] = Head(data)

IInv == Types /\ Control /\ SlotAccounting /\ PopHead

-----------------------------------------------------------------------------
(***************************************************************************)
(* Cardinalities of the two sets that SlotAccounting counts.               *)
(***************************************************************************)

\* The threads inside an operation are finitely many.
LEMMA HoldingFinite ==
  /\ IsFiniteSet(HoldingPlace) /\ Cardinality(HoldingPlace) \in Nat
  /\ IsFiniteSet(HoldingItem) /\ Cardinality(HoldingItem) \in Nat
<1>1. HoldingPlace \in SUBSET Threads /\ HoldingItem \in SUBSET Threads
  BY DEF HoldingPlace, HoldingItem
<1>2. QED
  BY <1>1, BufferAssumption, FS_Subset, FS_CardinalityType

\* A set that gains or loses one element grows or shrinks by one.
LEMMA OneMore ==
  ASSUME NEW S, IsFiniteSet(S), NEW x, x \notin S
  PROVE  Cardinality(S \cup {x}) = Cardinality(S) + 1
BY FS_AddElement

LEMMA OneLess ==
  ASSUME NEW S, IsFiniteSet(S), NEW x, x \in S
  PROVE  Cardinality(S \ {x}) = Cardinality(S) - 1
BY FS_RemoveElement

\* While some thread holds a place (a reading), the count is positive.
LEMMA HolderCounts ==
  ASSUME NEW S, IsFiniteSet(S), NEW x \in S
  PROVE  Cardinality(S) \in Nat /\ Cardinality(S) > 0
BY FS_EmptySet, FS_CardinalityType

-----------------------------------------------------------------------------
\* In the initial state every place is free and nobody is inside.
LEMMA InitIInv == Init => IInv
<1> SUFFICES ASSUME Init PROVE IInv
  OBVIOUS
<1>1. Types /\ Control /\ PopHead
  BY BufferAssumption DEF Init, Types, Control, PopHead, PCs, Ops, PutOps, TakeOps, NoOp, Inspect
<1>2. HoldingPlace = {} /\ HoldingItem = {}
  BY DEF Init, HoldingPlace, HoldingItem
<1>3. SlotAccounting
  BY <1>2, FS_EmptySet, BufferAssumption DEF Init, SlotAccounting
<1>4. QED
  BY <1>1, <1>3 DEF IInv

-----------------------------------------------------------------------------
(***************************************************************************)
(* One lemma per part of IInv, one step per action.                        *)
(***************************************************************************)

\* An operation that returns leaves well-typed local variables ...
LEMMA LeaveTypes ==
  ASSUME Types, NEW t \in Threads, Leave(t)
  PROVE  /\ pc' \in [Threads -> PCs]
         /\ op' \in [Threads -> Ops \cup {NoOp}]
         /\ item' \in [Threads -> Values \cup {NoItem}]
         /\ seen' \in [Threads -> Seq(Values)]
<1>1. pc' \in [Threads -> PCs]
  BY DEF Types, Leave, Goto, PCs
<1>2. op' \in [Threads -> Ops \cup {NoOp}]
  BY DEF Types, Leave
<1>3. item' \in [Threads -> Values \cup {NoItem}]
  BY DEF Types, Leave
<1>4. <<>> \in Seq(Values)
  OBVIOUS
<1>5. seen' \in [Threads -> Seq(Values)]
  BY <1>4 DEF Types, Leave
<1>6. QED
  BY <1>1, <1>2, <1>3, <1>5

\* ... and a thread that is outside, if it does not hold the mutex.
LEMMA LeaveControl ==
  ASSUME Types, Control, NEW t \in Threads, Leave(t),
         \/ pc[t] = "unlock" /\ mutex' = NoThread
         \/ pc[t] \in {"acquire", "release"} /\ mutex' = mutex
  PROVE  Control'
<1> USE DEF Types, Leave, Goto
<1> SUFFICES ASSUME NEW u \in Threads
             PROVE  Control!(u)'
  BY DEF Control
<1>1. CASE u = t
  <2>1. pc'[u] = "idle" /\ op'[u] = NoOp /\ item'[u] = NoItem
    BY <1>1
  <2>2. mutex' # u
    BY <1>1, BufferAssumption DEF Control
  <2>3. QED
    BY <2>1, <2>2 DEF NoOp, PutOps, TakeOps
<1>2. CASE u # t
  <2>1. pc'[u] = pc[u] /\ op'[u] = op[u] /\ item'[u] = item[u]
    BY <1>2
  <2>2. mutex' = u <=> mutex = u
    BY <1>2, BufferAssumption DEF Control
  <2>3. QED
    BY <2>1, <2>2 DEF Control
<1>3. QED
  BY <1>1, <1>2

\* Every action keeps the types; a put stores the reading it was given.
LEMMA TypesNext ==
  ASSUME Types, Control, NEW t \in Threads, Begin(t) \/ Step(t) \/ Lock(t)
  PROVE  Types'
<1> USE DEF Types, PCs, Goto
<1>1. CASE Begin(t)
  <2> PICK o \in Ops, v \in Values \cup {NoItem}, label \in {"acquire", "lock"} : Call(t, o, v, label)
    BY <1>1 DEF Begin, CallPut, CallTake, CallInspect, Ops
  <2> QED
    BY DEF Call, shared
<1>2. CASE AcquireFree(t)
  BY <1>2 DEF AcquireFree
<1>3. CASE AcquireUsed(t)
  BY <1>3 DEF AcquireUsed
<1>4. CASE TimeoutFree(t) \/ TimeoutUsed(t)
  BY <1>4, LeaveTypes DEF TimeoutFree, TimeoutUsed, shared
<1>5. CASE Lock(t)
  BY <1>5 DEF Lock
<1>6. CASE PushBack(t)
  <2>1. item[t] \in Values
    BY <1>6 DEF PushBack, Control
  <2>2. QED
    BY <1>6, <2>1 DEF PushBack
<1>7. CASE Front(t)
  BY <1>7 DEF Front, shared
<1>8. CASE PopFront(t)
  BY <1>8 DEF PopFront
<1>9. CASE ReadAll(t)
  BY <1>9 DEF ReadAll, shared
<1>10. CASE Unlock(t)
  <2>1. CASE op[t] = Inspect
    BY <1>10, <2>1, LeaveTypes DEF Unlock
  <2>2. CASE op[t] # Inspect
    BY <1>10, <2>2 DEF Unlock
  <2>3. QED
    BY <2>1, <2>2
<1>11. CASE ReleaseUsed(t)
  BY <1>11, LeaveTypes DEF ReleaseUsed
<1>12. CASE ReleaseFree(t)
  BY <1>12, LeaveTypes DEF ReleaseFree
<1>13. QED
  BY <1>1, <1>2, <1>3, <1>4, <1>5, <1>6, <1>7, <1>8, <1>9, <1>10, <1>11, <1>12
  DEF Step

\* Every action keeps each thread at a place that fits its operation, and
\* only the holder of the mutex inside the critical section.
LEMMA ControlNext ==
  ASSUME Types, Control, NEW t \in Threads, Begin(t) \/ Step(t) \/ Lock(t)
  PROVE  Control'
<1> USE BufferAssumption
    DEF Types, Control, PCs, Goto, Ops, PutOps, TakeOps, Inspect, NoOp
<1>1. CASE CallPut(t) \/ CallTake(t)
  BY <1>1 DEF CallPut, CallTake, Call, shared
<1>2. CASE CallInspect(t)
  BY <1>2 DEF CallInspect, Call, shared
<1>3. CASE AcquireFree(t) \/ AcquireUsed(t)
  BY <1>3 DEF AcquireFree, AcquireUsed
<1>4. CASE TimeoutFree(t) \/ TimeoutUsed(t)
  BY <1>4, LeaveControl DEF TimeoutFree, TimeoutUsed, shared
<1>5. CASE Lock(t)
  BY <1>5 DEF Lock
<1>6. CASE PushBack(t)
  BY <1>6 DEF PushBack
<1>7. CASE Front(t)
  BY <1>7 DEF Front, shared
<1>8. CASE PopFront(t)
  BY <1>8 DEF PopFront
<1>9. CASE ReadAll(t)
  BY <1>9 DEF ReadAll, shared
<1>10. CASE Unlock(t)
  <2>1. CASE op[t] = Inspect
    BY <1>10, <2>1, LeaveControl DEF Unlock
  <2>2. CASE op[t] # Inspect
    BY <1>10, <2>2 DEF Unlock
  <2>3. QED
    BY <2>1, <2>2
<1>11. CASE ReleaseUsed(t) \/ ReleaseFree(t)
  BY <1>11, LeaveControl DEF ReleaseUsed, ReleaseFree
<1>12. QED
  BY <1>1, <1>2, <1>3, <1>4, <1>5, <1>6, <1>7, <1>8, <1>9, <1>10, <1>11
  DEF Begin, Step

\* Which operations hold a place or a reading: only t's own entry can change.
LEMMA HoldingElsewhere ==
  ASSUME Types, NEW t \in Threads, Begin(t) \/ Step(t) \/ Lock(t)
  PROVE  /\ HoldingPlace' \ {t} = HoldingPlace \ {t}
         /\ HoldingItem' \ {t} = HoldingItem \ {t}
<1>1. \A u \in Threads \ {t} : pc'[u] = pc[u] /\ op'[u] = op[u]
  <2> USE DEF Types, Goto, Leave
  <2>1. CASE Begin(t)
    BY <2>1 DEF Begin, CallPut, CallTake, CallInspect, Call
  <2>2. CASE Step(t)
    BY <2>2 DEF Step, AcquireFree, AcquireUsed, TimeoutFree, TimeoutUsed,
                PushBack, Front, PopFront, ReadAll, Unlock, ReleaseUsed, ReleaseFree
  <2>3. CASE Lock(t)
    BY <2>3 DEF Lock
  <2>4. QED
    BY <2>1, <2>2, <2>3
<1>2. QED
  BY <1>1 DEF HoldingPlace, HoldingItem

\* Every action moves a place or a reading from one hand to another.
LEMMA AccountingNext ==
  ASSUME Types, Control, SlotAccounting, NEW t \in Threads, Begin(t) \/ Step(t) \/ Lock(t)
  PROVE  SlotAccounting'
<1> DEFINE P == Cardinality(HoldingPlace)
           I == Cardinality(HoldingItem)
<1>n. /\ P \in Nat /\ I \in Nat /\ MaxSize \in Nat
      /\ Len(data) \in Nat /\ freeSlots \in Nat /\ usedSlots \in Nat
  BY HoldingFinite, BufferAssumption DEF Types
<1> HIDE DEF P, I
<1>a. ASSUME t \notin HoldingPlace, t \in HoldingPlace'
      PROVE  P' = P + 1
  <2>1. HoldingPlace' = HoldingPlace \cup {t}
    BY <1>a, HoldingElsewhere
  <2>2. QED
    BY <1>a, <2>1, HoldingFinite, OneMore DEF P
<1>b. ASSUME t \in HoldingPlace, t \notin HoldingPlace'
      PROVE  P' = P - 1
  <2>1. HoldingPlace' = HoldingPlace \ {t}
    BY <1>b, HoldingElsewhere
  <2>2. QED
    BY <1>b, <2>1, HoldingFinite, OneLess DEF P
<1>c. ASSUME t \in HoldingPlace <=> t \in HoldingPlace'
      PROVE  P' = P
  <2>1. HoldingPlace' = HoldingPlace
    BY <1>c, HoldingElsewhere
  <2>2. QED
    BY <2>1 DEF P
<1>d. ASSUME t \notin HoldingItem, t \in HoldingItem'
      PROVE  I' = I + 1
  <2>1. HoldingItem' = HoldingItem \cup {t}
    BY <1>d, HoldingElsewhere
  <2>2. QED
    BY <1>d, <2>1, HoldingFinite, OneMore DEF I
<1>e. ASSUME t \in HoldingItem, t \notin HoldingItem'
      PROVE  I' = I - 1
  <2>1. HoldingItem' = HoldingItem \ {t}
    BY <1>e, HoldingElsewhere
  <2>2. QED
    BY <1>e, <2>1, HoldingFinite, OneLess DEF I
<1>f. ASSUME t \in HoldingItem <=> t \in HoldingItem'
      PROVE  I' = I
  <2>1. HoldingItem' = HoldingItem
    BY <1>f, HoldingElsewhere
  <2>2. QED
    BY <2>1 DEF I
<1>g. SUFFICES freeSlots' + P' + Len(data') = MaxSize /\ usedSlots' + I' = Len(data')
  BY DEF SlotAccounting, P, I
<1>h. freeSlots + P + Len(data) = MaxSize /\ usedSlots + I = Len(data)
  BY DEF SlotAccounting, P, I
<1>1. CASE Begin(t) \/ TimeoutFree(t) \/ TimeoutUsed(t) \/ Lock(t) \/ Front(t) \/ ReadAll(t) \/ Unlock(t)
  <2>1. /\ t \in HoldingPlace <=> t \in HoldingPlace'
        /\ t \in HoldingItem <=> t \in HoldingItem'
    BY <1>1 DEF Begin, CallPut, CallTake, CallInspect, Call, TimeoutFree, TimeoutUsed,
                Lock, Front, ReadAll, Unlock, Leave, Control, HoldingPlace, HoldingItem,
                Types, Goto, PutOps, TakeOps, Inspect, NoOp
  <2>2. UNCHANGED <<freeSlots, usedSlots, data>>
    BY <1>1 DEF Begin, CallPut, CallTake, CallInspect, Call, TimeoutFree, TimeoutUsed,
                Lock, Front, ReadAll, Unlock, shared
  <2>3. QED
    BY <1>h, <1>c, <1>f, <2>1, <2>2
<1>2. CASE AcquireFree(t)
  <2>1. /\ t \notin HoldingPlace /\ t \in HoldingPlace'
        /\ t \in HoldingItem <=> t \in HoldingItem'
    BY <1>2 DEF AcquireFree, HoldingPlace, HoldingItem,
                Types, Goto, PutOps, TakeOps, Inspect, NoOp
  <2>2. freeSlots > 0 /\ freeSlots' = freeSlots - 1 /\ P' = P + 1 /\ I' = I /\ UNCHANGED <<usedSlots, data>>
    BY <1>2, <1>a, <1>f, <2>1 DEF AcquireFree
  <2>3. QED
    BY <1>h, <1>n, <2>2
<1>3. CASE AcquireUsed(t)
  <2>1. /\ t \notin HoldingItem /\ t \in HoldingItem'
        /\ t \in HoldingPlace <=> t \in HoldingPlace'
    BY <1>3 DEF AcquireUsed, HoldingPlace, HoldingItem,
                Types, Goto, PutOps, TakeOps, Inspect, NoOp
  <2>2. usedSlots > 0 /\ usedSlots' = usedSlots - 1 /\ P' = P /\ I' = I + 1 /\ UNCHANGED <<freeSlots, data>>
    BY <1>3, <1>c, <1>d, <2>1 DEF AcquireUsed
  <2>3. QED
    BY <1>h, <1>n, <2>2
<1>4. CASE PushBack(t)
  <2>1. t \in HoldingPlace /\ t \notin HoldingPlace' /\ t \notin HoldingItem /\ t \in HoldingItem'
    BY <1>4 DEF PushBack, HoldingPlace, HoldingItem,
                Types, Goto, PutOps, TakeOps, Inspect, NoOp
  <2>2. Len(data') = Len(data) + 1
    BY <1>4 DEF PushBack, Control, Types
  <2>3. P' = P - 1 /\ I' = I + 1 /\ UNCHANGED <<freeSlots, usedSlots>>
    BY <1>4, <1>b, <1>d, <2>1 DEF PushBack
  <2>4. QED
    BY <1>h, <1>n, <2>2, <2>3
<1>5. CASE PopFront(t)
  <2>1. t \notin HoldingPlace /\ t \in HoldingPlace' /\ t \in HoldingItem /\ t \notin HoldingItem'
    BY <1>5 DEF PopFront, Control, HoldingPlace, HoldingItem,
                Types, Goto, PutOps, TakeOps, Inspect, NoOp
  <2>2. I > 0
    BY <2>1, HoldingFinite, HolderCounts DEF I
  <2>3. data # <<>>
    BY <2>2, <1>h, <1>n
  <2>4. Len(data') = Len(data) - 1
    BY <1>5, <2>3 DEF PopFront, Types
  <2>5. P' = P + 1 /\ I' = I - 1 /\ UNCHANGED <<freeSlots, usedSlots>>
    BY <1>5, <1>a, <1>e, <2>1 DEF PopFront
  <2>6. QED
    BY <1>h, <1>n, <2>4, <2>5
<1>6. CASE ReleaseUsed(t)
  <2>1. /\ t \in HoldingItem /\ t \notin HoldingItem'
        /\ t \in HoldingPlace <=> t \in HoldingPlace'
    BY <1>6 DEF ReleaseUsed, Leave, HoldingPlace, HoldingItem,
                Types, Goto, PutOps, TakeOps, Inspect, NoOp
  <2>2. usedSlots' = usedSlots + 1 /\ P' = P /\ I' = I - 1 /\ UNCHANGED <<freeSlots, data>>
    BY <1>6, <1>c, <1>e, <2>1 DEF ReleaseUsed
  <2>3. QED
    BY <1>h, <1>n, <2>2
<1>7. CASE ReleaseFree(t)
  <2>1. /\ t \in HoldingPlace /\ t \notin HoldingPlace'
        /\ t \in HoldingItem <=> t \in HoldingItem'
    BY <1>7 DEF ReleaseFree, Leave, HoldingPlace, HoldingItem,
                Types, Goto, PutOps, TakeOps, Inspect, NoOp
  <2>2. freeSlots' = freeSlots + 1 /\ P' = P - 1 /\ I' = I /\ UNCHANGED <<usedSlots, data>>
    BY <1>7, <1>b, <1>f, <2>1 DEF ReleaseFree
  <2>3. QED
    BY <1>h, <1>n, <2>2
<1>8. QED
  BY <1>1, <1>2, <1>3, <1>4, <1>5, <1>6, <1>7 DEF Step

\* A take that has its token finds a reading.
LEMMA EntitledFindsReading ==
  ASSUME Types, SlotAccounting, NEW t \in HoldingItem
  PROVE  Len(data) > 0 /\ data # <<>>
<1>1. Len(data) \in Nat /\ usedSlots \in Nat
  BY DEF Types
<1>2. Cardinality(HoldingItem) \in Nat /\ Cardinality(HoldingItem) > 0
  BY HoldingFinite, HolderCounts
<1>3. Len(data) > 0
  BY <1>1, <1>2 DEF SlotAccounting
<1>4. QED
  BY <1>3

\* What a take has read is still at the front when it pops.
LEMMA PopHeadNext ==
  ASSUME Types, Control, SlotAccounting, PopHead, NEW t \in Threads, Begin(t) \/ Step(t) \/ Lock(t)
  PROVE  PopHead'
<1> USE DEF Types, Goto
<1> SUFFICES ASSUME NEW u \in Threads, pc'[u] = "pop"
             PROVE  item'[u] = Head(data')
  BY DEF PopHead
<1>1. CASE Front(t) /\ u = t
  <2>1. t \in HoldingItem
    BY <1>1 DEF Front, HoldingItem
  <2>2. data # <<>>
    BY <2>1, EntitledFindsReading
  <2>3. QED
    BY <1>1, <2>2 DEF Front, shared
<1>2. CASE Front(t) /\ u # t
  BY <1>2, BufferAssumption DEF Front, shared, Control
<1>3. CASE PushBack(t) \/ PopFront(t)
  BY <1>3, BufferAssumption DEF PushBack, PopFront, Control
<1>4. CASE Begin(t)
  BY <1>4 DEF Begin, CallPut, CallTake, CallInspect, Call, shared, PopHead
<1>5. CASE AcquireFree(t) \/ AcquireUsed(t) \/ Lock(t) \/ ReadAll(t)
  BY <1>5 DEF AcquireFree, AcquireUsed, Lock, ReadAll, shared, PopHead
<1>6. CASE TimeoutFree(t) \/ TimeoutUsed(t) \/ ReleaseUsed(t) \/ ReleaseFree(t)
  BY <1>6 DEF TimeoutFree, TimeoutUsed, ReleaseUsed, ReleaseFree, Leave, shared, PopHead
<1>7. CASE Unlock(t)
  BY <1>7 DEF Unlock, Leave, PopHead
<1>8. QED
  BY <1>1, <1>2, <1>3, <1>4, <1>5, <1>6, <1>7 DEF Step

\* Together: IInv is inductive.
LEMMA NextIInv == IInv /\ [Next]_vars => IInv'
<1> SUFFICES ASSUME IInv, [Next]_vars PROVE IInv'
  OBVIOUS
<1>1. CASE Next
  <2>1. PICK t \in Threads : Begin(t) \/ Step(t) \/ Lock(t)
    BY <1>1 DEF Next
  <2>2. QED
    BY <2>1, TypesNext, ControlNext, AccountingNext, PopHeadNext DEF IInv
<1>2. CASE UNCHANGED vars
  BY <1>2 DEF vars, IInv, Types, Control, SlotAccounting, HoldingPlace, HoldingItem, PopHead
<1>3. QED
  BY <1>1, <1>2

-----------------------------------------------------------------------------
\* IInv holds in every reachable state.
THEOREM Inductive == Spec => []IInv
<1>1. IInv /\ [Next]_vars => IInv'
  BY NextIInv
<1>2. QED
  BY InitIInv, <1>1, PTL DEF Spec

\* SlotAccounting: semaphores and deque agree at every instant of any
\* number of overlapping put, take, tryPut, tryTake and getSize calls.
THEOREM Accounting == Spec => []SlotAccounting
<1>1. IInv => SlotAccounting
  BY DEF IInv
<1>2. QED
  BY Inductive, <1>1, PTL

\* TypeOK: in particular no semaphore ever exceeds the capacity.
THEOREM TypeCorrect == Spec => []TypeOK
<1>1. IInv => TypeOK
  <2> SUFFICES ASSUME IInv PROVE TypeOK
    OBVIOUS
  <2>1. Len(data) \in Nat /\ freeSlots \in Nat /\ usedSlots \in Nat /\ MaxSize \in Nat
    BY BufferAssumption DEF IInv, Types
  <2>2. freeSlots \in 0..MaxSize /\ usedSlots \in 0..MaxSize
    BY <2>1, HoldingFinite DEF IInv, SlotAccounting
  <2>3. QED
    BY <2>2 DEF IInv, Types, TypeOK
<1>2. QED
  BY Inductive, <1>1, PTL

\* DequeAccessSafe: front() and pop_front() always find a reading, and
\* push_back always finds a free place.
THEOREM AccessSafe == Spec => []DequeAccessSafe
<1>1. IInv => DequeAccessSafe
  <2> SUFFICES ASSUME IInv, NEW t \in Threads
               PROVE  /\ op[t] \in TakeOps /\ pc[t] \in {"access", "pop"} => data # <<>>
                      /\ op[t] \in PutOps /\ pc[t] = "access" => Len(data) < MaxSize
    BY DEF DequeAccessSafe
  <2>1. ASSUME op[t] \in TakeOps, pc[t] \in {"access", "pop"}
        PROVE  data # <<>>
    <3>1. t \in HoldingItem
      BY <2>1 DEF HoldingItem
    <3>2. QED
      BY <3>1, EntitledFindsReading DEF IInv
  <2>2. ASSUME op[t] \in PutOps, pc[t] = "access"
        PROVE  Len(data) < MaxSize
    <3>1. t \in HoldingPlace
      BY <2>2 DEF HoldingPlace
    <3>2. Cardinality(HoldingPlace) \in Nat /\ Cardinality(HoldingPlace) > 0
      BY <3>1, HoldingFinite, HolderCounts
    <3>3. Len(data) \in Nat /\ freeSlots \in Nat /\ MaxSize \in Nat
      BY BufferAssumption DEF IInv, Types
    <3>4. QED
      BY <3>2, <3>3 DEF IInv, SlotAccounting
  <2>3. QED
    BY <2>1, <2>2
<1>2. QED
  BY Inductive, <1>1, PTL

\* Where there is a thread in the critical section or on its way to it, some
\* thread can take its next step: the holder of the mutex is never waiting.
LEMMA MutexAdvances ==
  ASSUME Types, Control, NEW t \in Threads, pc[t] \in {"lock", "access", "pop", "unlock", "release"}
  PROVE  \E u \in Threads : CanGoOn(u)
<1>1. CASE pc[t] # "lock" \/ mutex = NoThread
  BY <1>1 DEF CanGoOn
<1>2. CASE mutex # NoThread
  <2>1. mutex \in Threads /\ pc[mutex] \in {"access", "pop", "unlock"}
    BY <1>2 DEF Types, Control
  <2>2. QED
    BY <2>1 DEF CanGoOn
<1>3. QED
  BY <1>1, <1>2

\* WaitsOnlyWithReason: no interleaving of any number of threads leaves a put
\* waiting beside a free place, or a take beside a reading, with nobody to
\* wake it up.
THEOREM NoLostWakeup == Spec => []WaitsOnlyWithReason
<1>1. IInv => WaitsOnlyWithReason
  <2> SUFFICES ASSUME IInv, NEW t \in Threads
               PROVE  /\ freeSlots = 0 => Len(data) = MaxSize \/ \E u \in Threads : CanGoOn(u)
                      /\ usedSlots = 0 => data = <<>> \/ \E u \in Threads : CanGoOn(u)
                      /\ pc[t] = "lock" => \E u \in Threads : CanGoOn(u)
    BY DEF WaitsOnlyWithReason
  <2>n. /\ Len(data) \in Nat /\ freeSlots \in Nat /\ usedSlots \in Nat /\ MaxSize \in Nat
        /\ Types /\ Control
    BY BufferAssumption DEF IInv, Types
  <2>1. ASSUME freeSlots = 0, Len(data) # MaxSize
        PROVE  \E u \in Threads : CanGoOn(u)
    <3>1. HoldingPlace # {}
      BY <2>1, <2>n, FS_EmptySet, HoldingFinite DEF IInv, SlotAccounting
    <3>2. QED
      BY <2>n, <3>1, MutexAdvances DEF HoldingPlace
  <2>2. ASSUME usedSlots = 0, data # <<>>
        PROVE  \E u \in Threads : CanGoOn(u)
    <3>1. Len(data) > 0
      BY <2>2, <2>n DEF Types
    <3>2. HoldingItem # {}
      BY <2>2, <2>n, <3>1, FS_EmptySet, HoldingFinite DEF IInv, SlotAccounting
    <3>3. QED
      BY <2>n, <3>2, MutexAdvances DEF HoldingItem
  <2>3. QED
    BY <2>1, <2>2, <2>n, MutexAdvances
<1>2. QED
  BY Inductive, <1>1, PTL

-----------------------------------------------------------------------------
(***************************************************************************)
(* Buffer implements BoundedFifo.  Stage and Result are what a caller of   *)
(* the abstract buffer could know of thread t's operation.                 *)
(***************************************************************************)

\* Moving t to a label moves its stage, and no other thread's.
LEMMA StageStep ==
  ASSUME Types, NEW t \in Threads, NEW label \in PCs, Goto(t, label)
  PROVE  /\ label = "idle" => Stage' = [Stage EXCEPT ![t] = "idle"]
         /\ label \in {"acquire", "lock", "access", "pop"}
              => Stage' = [Stage EXCEPT ![t] = "pending"]
         /\ label \in {"unlock", "release"} => Stage' = [Stage EXCEPT ![t] = "done"]
BY DEF Types, Goto, Stage, PCs

\* The stages as the actions use them.
LEMMA StageAt ==
  ASSUME Types, NEW t \in Threads
  PROVE  /\ Stage[t] = "idle" <=> pc[t] = "idle"
         /\ Stage[t] = "pending" <=> pc[t] \in {"acquire", "lock", "access", "pop"}
         /\ Stage[t] = "done" <=> pc[t] \in {"unlock", "release"}
BY DEF Types, Stage, PCs

\* A move inside one stage is no move at all.
LEMMA StageSame ==
  ASSUME Types, NEW t \in Threads, NEW label \in PCs, Goto(t, label),
         \/ pc[t] \in {"acquire", "lock", "access"} /\ label \in {"lock", "access", "pop"}
         \/ pc[t] = "unlock" /\ label = "release"
  PROVE  Stage' = Stage
BY DEF Types, Goto, Stage, PCs

\* The result of a take becomes visible when it has popped.
LEMMA ResultSame ==
  ASSUME Types, NEW t \in Threads, NEW label \in PCs, Goto(t, label),
         pc[t] # "pop", label # "pop", item' = item
  PROVE  Result' = Result
BY DEF Types, Goto, Result

\* An operation that returns leaves nothing to see.
LEMMA ResultLeave ==
  ASSUME Types, NEW t \in Threads, Leave(t)
  PROVE  Result' = [Result EXCEPT ![t] = NoItem]
BY DEF Types, Leave, Goto, Result

\* Init maps to the initial state of the abstract buffer.
LEMMA FifoInit == Init => Fifo!Init
BY DEF Init, Fifo!Init, Stage, Result, NoOp, Fifo!NoOp

\* A return, and a call that gives up, map to EndCall.
LEMMA FifoEndCall ==
  ASSUME Types, NEW t \in Threads, Leave(t), UNCHANGED data
  PROVE  Fifo!EndCall(t)
<1>1. Stage' = [Stage EXCEPT ![t] = "idle"]
  BY StageStep DEF Leave, PCs
<1>2. QED
  BY <1>1, ResultLeave DEF Leave, Fifo!EndCall, NoOp, Fifo!NoOp

\* An instance has its own name for the cardinality of a set.
LEMMA SameCardinality ==
  ASSUME NEW S
  PROVE  Fifo!Cardinality(S) = Cardinality(S)
BY DEF Cardinality, Fifo!Cardinality

\* A tryTake that finds no token gives up honestly: every stored reading is
\* in the hands of another unfinished call.
LEMMA EmptyIsHonest ==
  ASSUME IInv, NEW t \in Threads, pc[t] = "acquire", usedSlots = 0
  PROVE  Len(data) <= Cardinality(Fifo!ItemsSpokenFor(t))
<1> DEFINE S == Fifo!ItemsSpokenFor(t)
<1>1. HoldingItem \subseteq S
  BY StageAt DEF IInv, HoldingItem, Fifo!ItemsSpokenFor, Fifo!Calls, PutOps, TakeOps,
                 Fifo!PutOps, Fifo!TakeOps
<1>2. IsFiniteSet(S)
  <2>1. S \subseteq Threads
    BY DEF Fifo!ItemsSpokenFor, Fifo!Calls
  <2>2. QED
    BY <2>1, BufferAssumption, FS_Subset
<1>3. Cardinality(HoldingItem) <= Cardinality(S)
  BY <1>1, <1>2, FS_Subset
<1>4. Cardinality(HoldingItem) = Len(data)
  BY HoldingFinite DEF IInv, SlotAccounting
<1>5. QED
  BY <1>3, <1>4

\* And a tryPut that finds no token: every free place is in other hands.
LEMMA FullIsHonest ==
  ASSUME IInv, NEW t \in Threads, pc[t] = "acquire", freeSlots = 0
  PROVE  MaxSize - Len(data) <= Cardinality(Fifo!PlacesSpokenFor(t))
<1> DEFINE S == Fifo!PlacesSpokenFor(t)
<1>1. HoldingPlace \subseteq S
  BY StageAt DEF IInv, HoldingPlace, Fifo!PlacesSpokenFor, Fifo!Calls, PutOps, TakeOps,
                 Fifo!PutOps, Fifo!TakeOps
<1>2. IsFiniteSet(S)
  <2>1. S \subseteq Threads
    BY DEF Fifo!PlacesSpokenFor, Fifo!Calls
  <2>2. QED
    BY <2>1, BufferAssumption, FS_Subset
<1>3. Cardinality(HoldingPlace) <= Cardinality(S)
  BY <1>1, <1>2, FS_Subset
<1>4. Cardinality(HoldingPlace) = MaxSize - Len(data)
  <2>1. MaxSize \in Nat /\ Len(data) \in Nat /\ Cardinality(HoldingPlace) \in Nat
    BY HoldingFinite, BufferAssumption DEF IInv, Types
  <2>2. QED
    BY <2>1 DEF IInv, SlotAccounting
<1>5. QED
  BY <1>3, <1>4

\* The steps that no caller can see: waiting, locking, looking at the front.
LEMMA FifoSilent ==
  ASSUME IInv, NEW t \in Threads,
         \/ AcquireFree(t) \/ AcquireUsed(t) \/ Lock(t) \/ Front(t)
         \/ Unlock(t) /\ op[t] # Inspect
  PROVE  UNCHANGED Fifo!fifoVars
<1> USE DEF IInv
<1>1. CASE AcquireFree(t) \/ AcquireUsed(t) \/ Lock(t)
  <2>1. Stage' = Stage /\ Result' = Result
    BY <1>1, StageSame, ResultSame DEF AcquireFree, AcquireUsed, Lock, PCs
  <2>2. QED
    BY <1>1, <2>1 DEF AcquireFree, AcquireUsed, Lock, Fifo!fifoVars
<1>2. CASE Front(t)
  <2>1. Stage' = Stage
    BY <1>2, StageSame DEF Front, PCs
  <2>2. Result' = Result
    BY <1>2 DEF Types, Control, Front, Goto, Result, PutOps, TakeOps
  <2>3. QED
    BY <1>2, <2>1, <2>2 DEF Front, shared, Fifo!fifoVars
<1>3. CASE Unlock(t) /\ op[t] # Inspect
  <2>1. Stage' = Stage /\ Result' = Result
    BY <1>3, StageSame, ResultSame DEF Unlock, PCs
  <2>2. QED
    BY <1>3, <2>1 DEF Unlock, Fifo!fifoVars
<1>4. QED
  BY <1>1, <1>2, <1>3

\* A call,
LEMMA FifoInvoke ==
  ASSUME IInv, NEW t \in Threads, NEW o \in Ops, NEW v \in Values \cup {NoItem},
         NEW label \in {"acquire", "lock"}, Call(t, o, v, label)
  PROVE  Fifo!Invoke(t, o, v)
<1>1. Stage[t] = "idle" /\ Stage' = [Stage EXCEPT ![t] = "pending"]
  BY StageStep, StageAt DEF IInv, Call, PCs
<1>2. Result' = [Result EXCEPT ![t] = v]
  BY DEF IInv, Types, Call, Goto, Result
<1>3. QED
  BY <1>1, <1>2 DEF Call, shared, Fifo!Invoke

\* a timeout,
LEMMA FifoFail ==
  ASSUME IInv, NEW t \in Threads, TimeoutFree(t) \/ TimeoutUsed(t)
  PROVE  Fifo!Fail(t)
<1>1. Fifo!EndCall(t) /\ Stage[t] = "pending"
  BY FifoEndCall, StageAt DEF IInv, TimeoutFree, TimeoutUsed, shared
<1>2. CASE TimeoutUsed(t)
  <2>1. Len(data) <= Cardinality(Fifo!ItemsSpokenFor(t))
    BY <1>2, EmptyIsHonest DEF TimeoutUsed
  <2>2. QED
    BY <1>1, <1>2, <2>1, SameCardinality DEF TimeoutUsed, Fifo!Fail
<1>3. CASE TimeoutFree(t)
  <2>1. MaxSize - Len(data) <= Cardinality(Fifo!PlacesSpokenFor(t))
    BY <1>3, FullIsHonest DEF TimeoutFree
  <2>2. QED
    BY <1>1, <1>3, <2>1, SameCardinality DEF TimeoutFree, Fifo!Fail
<1>4. QED
  BY <1>2, <1>3

\* push_back,
LEMMA FifoEnqueue ==
  ASSUME IInv, NEW t \in Threads, PushBack(t)
  PROVE  Fifo!Enqueue(t)
<1> USE DEF IInv
<1>1. Stage[t] = "pending" /\ Stage' = [Stage EXCEPT ![t] = "done"]
  BY StageStep, StageAt DEF PushBack, PCs
<1>2. Result' = Result /\ Result[t] = item[t]
  BY ResultSame DEF PushBack, PCs, Result
<1>3. Len(data) < MaxSize
  <2>1. t \in HoldingPlace
    BY DEF PushBack, HoldingPlace
  <2>2. Cardinality(HoldingPlace) \in Nat /\ Cardinality(HoldingPlace) > 0
    BY <2>1, HoldingFinite, HolderCounts
  <2>3. Len(data) \in Nat /\ freeSlots \in Nat /\ MaxSize \in Nat
    BY BufferAssumption DEF Types
  <2>4. QED
    BY <2>2, <2>3 DEF SlotAccounting
<1>4. QED
  BY <1>1, <1>2, <1>3 DEF PushBack, Fifo!Enqueue, Fifo!TakesEffect, PutOps, Fifo!PutOps

\* pop_front,
LEMMA FifoDequeue ==
  ASSUME IInv, NEW t \in Threads, PopFront(t)
  PROVE  Fifo!Dequeue(t)
<1> USE DEF IInv
<1>1. Stage[t] = "pending" /\ Stage' = [Stage EXCEPT ![t] = "done"]
  BY StageStep, StageAt DEF PopFront, PCs
<1>2. op[t] \in TakeOps /\ item[t] = Head(data) /\ data # <<>>
  <2>1. op[t] \in TakeOps
    BY DEF PopFront, Control
  <2>2. t \in HoldingItem
    BY <2>1 DEF PopFront, HoldingItem
  <2>3. QED
    BY <2>1, <2>2, EntitledFindsReading DEF PopFront, PopHead
<1>3. Result' = [Result EXCEPT ![t] = Head(data)]
  BY <1>2 DEF Types, PopFront, Goto, Result
<1>4. QED
  BY <1>1, <1>2, <1>3 DEF PopFront, Fifo!Dequeue, Fifo!TakesEffect, TakeOps, Fifo!TakeOps

\* and a return are what they are called in BoundedFifo.
LEMMA FifoReturn ==
  ASSUME IInv, NEW t \in Threads,
         ReleaseUsed(t) \/ ReleaseFree(t) \/ (Unlock(t) /\ op[t] = Inspect)
  PROVE  Fifo!Return(t)
<1>1. Fifo!EndCall(t) /\ Stage[t] = "done"
  BY FifoEndCall, StageAt DEF IInv, ReleaseUsed, ReleaseFree, Unlock
<1>2. QED
  BY <1>1 DEF Fifo!Return

\* Every step of a thread is a step of the abstract buffer, or none.
LEMMA FifoStep ==
  ASSUME IInv, NEW t \in Threads, Begin(t) \/ Step(t) \/ Lock(t)
  PROVE  Fifo!Next \/ UNCHANGED Fifo!fifoVars
<1>1. CASE Begin(t)
  <2>1. PICK o \in Ops, v \in Values \cup {NoItem}, label \in {"acquire", "lock"} :
          /\ Call(t, o, v, label)
          /\ \/ o \in PutOps /\ v \in Values
             \/ o \in TakeOps \cup {Inspect} /\ v = NoItem
    BY <1>1 DEF Begin, CallPut, CallTake, CallInspect, Ops
  <2>2. Fifo!Invoke(t, o, v)
    BY <2>1, FifoInvoke
  <2>3. QED
    BY <2>1, <2>2 DEF Fifo!Next, PutOps, TakeOps, Inspect,
                      Fifo!PutOps, Fifo!TakeOps, Fifo!Inspect
<1>2. CASE AcquireFree(t) \/ AcquireUsed(t) \/ Lock(t) \/ Front(t)
  BY <1>2, FifoSilent
<1>3. CASE TimeoutFree(t) \/ TimeoutUsed(t)
  BY <1>3, FifoFail DEF Fifo!Next
<1>4. CASE PushBack(t)
  BY <1>4, FifoEnqueue DEF Fifo!Next
<1>5. CASE PopFront(t)
  BY <1>5, FifoDequeue DEF Fifo!Next
<1>6. CASE ReadAll(t)
  <2>1. Stage[t] = "pending" /\ Stage' = [Stage EXCEPT ![t] = "done"]
    BY <1>6, StageStep, StageAt DEF IInv, ReadAll, PCs
  <2>2. Result' = Result
    BY <1>6, ResultSame DEF IInv, ReadAll, PCs
  <2>3. Fifo!Observe(t)
    BY <1>6, <2>1, <2>2
    DEF ReadAll, shared, Fifo!Observe, Fifo!TakesEffect, Inspect, Fifo!Inspect
  <2>4. QED
    BY <2>3 DEF Fifo!Next
<1>7. CASE Unlock(t)
  BY <1>7, FifoSilent, FifoReturn DEF Fifo!Next
<1>8. CASE ReleaseUsed(t) \/ ReleaseFree(t)
  BY <1>8, FifoReturn DEF Fifo!Next
<1>9. QED
  BY <1>1, <1>2, <1>3, <1>4, <1>5, <1>6, <1>7, <1>8 DEF Step

\* Linearizable: two semaphores, a mutex and a deque are a bounded FIFO whose
\* operations are instantaneous, for any number of threads and any capacity.
THEOREM Refinement == Spec => Linearizable
<1>1. IInv /\ [Next]_vars => [Fifo!Next]_(Fifo!fifoVars)
  <2> SUFFICES ASSUME IInv, [Next]_vars PROVE Fifo!Next \/ UNCHANGED Fifo!fifoVars
    OBVIOUS
  <2>1. CASE Next
    BY <2>1, FifoStep DEF Next
  <2>2. CASE UNCHANGED vars
    BY <2>2 DEF vars, Fifo!fifoVars, Stage, Result
  <2>3. QED
    BY <2>1, <2>2
<1>2. QED
  BY FifoInit, Inductive, <1>1, PTL DEF Spec, Linearizable, Fifo!Spec

=============================================================================
