---------------------------- MODULE ScreenProofs ----------------------------
(***************************************************************************)
(* The screen never goes stale in silence, for any positions, any buffer   *)
(* and any number of robots.                                               *)
(***************************************************************************)
EXTENDS Screen, TLAPS

\* The ring is drawn anew, or about to be, whenever the selection changes.
RingFollows == shown["ring"] # selected => "ring" \in dirty

SInv == TypeOK /\ StaleMeansNotified /\ RingFollows

LEMMA Workers == ASSUME SInv, NEW p \in Positions,
                        WorkerMove(p) \/ WorkerPost \/ WorkerStep \/ Settle
                 PROVE  SInv'
<1> USE ScreenAssumption DEF SInv, robot, buffer, screen
<1>1. TypeOK'
  <2>1. CASE WorkerMove(p)
    BY <2>1 DEF TypeOK, WorkerMove
  <2>2. CASE WorkerPost
    <3>1. posted \in 0..MaxPosted /\ posted < MaxPosted /\ posted' = posted + 1
      BY <2>2 DEF TypeOK, WorkerPost
    <3>2. posted' \in 0..MaxPosted
      BY <3>1
    <3>3. QED
      BY <2>2, <3>2 DEF TypeOK, WorkerPost
  <2>3. CASE WorkerStep
    BY <2>3 DEF TypeOK, WorkerStep
  <2>4. CASE Settle
    BY <2>4 DEF TypeOK, Settle
  <2>5. QED
    BY <2>1, <2>2, <2>3, <2>4
<1>2. StaleMeansNotified'
  BY DEF TypeOK, StaleMeansNotified, Current, WorkerMove, WorkerPost, WorkerStep, Settle
<1>3. RingFollows'
  BY DEF RingFollows, WorkerMove, WorkerPost, WorkerStep, Settle
<1>4. QED
  BY <1>1, <1>2, <1>3

\* What the event loop starts, it starts with every earlier binding evaluated.
LEMMA Events == ASSUME SInv, NEW p \in Positions, NEW i \in 0..(NumRobots - 1),
                       \/ Deliver \/ Poll \/ Key(p) \/ manualRemove(p)
                       \/ setSelectedRobot(i) \/ Removed
                PROVE  SInv'
<1> USE ScreenAssumption DEF SInv, robot, buffer, screen, Idle, Emit, Listeners
<1>1. TypeOK'
  <2>1. CASE Deliver
    BY <2>1 DEF TypeOK, Deliver, Bindings
  <2>2. CASE Poll
    BY <2>2 DEF TypeOK, Poll, Bindings
  <2>3. CASE Key(p)
    BY <2>3 DEF TypeOK, Key, Bindings
  <2>4. CASE manualRemove(p)
    <3>1. size \in 0..MaxSize /\ size > 0 /\ size' = size - 1
      BY <2>4 DEF TypeOK, manualRemove
    <3>2. size' \in 0..MaxSize
      BY <3>1
    <3>3. dirty' \subseteq Bindings
      BY <2>4 DEF manualRemove, Bindings
    <3>4. removing' \in BOOLEAN
      BY <2>4 DEF TypeOK, manualRemove
    <3>5. QED
      BY <2>4, <3>2, <3>3, <3>4 DEF TypeOK, manualRemove
  <2>5. CASE setSelectedRobot(i)
    BY <2>5 DEF TypeOK, setSelectedRobot, Bindings
  <2>6. CASE Removed
    BY <2>6 DEF TypeOK, Removed, Bindings
  <2>7. QED
    BY <2>1, <2>2, <2>3, <2>4, <2>5, <2>6
<1>2. StaleMeansNotified'
  BY DEF TypeOK, StaleMeansNotified, Current, Deliver, Poll, Key, manualRemove,
         setSelectedRobot, Removed
<1>3. RingFollows'
  BY DEF RingFollows, Deliver, Poll, Key, manualRemove, setSelectedRobot, Removed
<1>4. QED
  BY <1>1, <1>2, <1>3

LEMMA Evaluation == ASSUME SInv, NEW b \in Bindings, Evaluate(b) PROVE SInv'
<1> USE ScreenAssumption DEF SInv, robot, buffer, Evaluate, Bindings
<1>1. TypeOK'
  BY DEF TypeOK
<1>2. StaleMeansNotified'
  BY DEF TypeOK, StaleMeansNotified, Current
<1>3. RingFollows'
  BY DEF TypeOK, RingFollows, Current
<1>4. QED
  BY <1>1, <1>2, <1>3

THEOREM Inductive == Spec => []SInv
<1>1. Init => SInv
  <2> SUFFICES ASSUME Init PROVE SInv
    OBVIOUS
  <2>1. posted \in 0..MaxPosted /\ size \in 0..MaxSize /\ last \in -1..MaxSize
    BY ScreenAssumption DEF Init
  <2>2. selected \in 0..(NumRobots - 1)
    BY ScreenAssumption DEF Init
  <2>3. TypeOK
    BY <2>1, <2>2 DEF Init, TypeOK
  <2>4. StaleMeansNotified /\ RingFollows
    BY DEF Init, StaleMeansNotified, RingFollows, Bindings
  <2>5. QED
    BY <2>3, <2>4 DEF SInv
<1>2. SInv /\ [Next]_vars => SInv'
  <2> SUFFICES ASSUME SInv, [Next]_vars PROVE SInv'
    OBVIOUS
  <2>1. CASE UNCHANGED vars
    BY <2>1 DEF vars, robot, buffer, screen, SInv, TypeOK, StaleMeansNotified, RingFollows, Current
  <2>2. CASE \E b \in Bindings : Evaluate(b)
    BY <2>2, Evaluation
  <2>3. CASE Next /\ ~(\E b \in Bindings : Evaluate(b))
    <3>1. PICK p \in Positions : TRUE
      BY DEF SInv, TypeOK
    <3>2. 0 \in 0..(NumRobots - 1)
      BY ScreenAssumption
    <3>3. QED
      BY <2>3, <3>1, <3>2, Workers, Events DEF Next, GuiGoesOn
  <2>4. QED
    BY <2>1, <2>2, <2>3
<1>3. QED
  BY <1>1, <1>2, PTL DEF Spec

\* Every variable keeps its type.
THEOREM TypeCorrect == Spec => []TypeOK
BY Inductive, PTL DEF SInv

\* A coordinate that is out of date on the screen always has an announcement on
\* its way, whatever the interleaving of moves and bindings.
THEOREM Notified == Spec => []StaleMeansNotified
BY Inductive, PTL DEF SInv

\* The arrow keys move the robot that the screen shows as selected.
THEOREM KeysFollow == Spec => KeysFollowTheRing
<1>1. SInv => [\A p \in Positions : Key(p) => shown["ring"] = Shown]_vars
  BY DEF SInv, RingFollows, Key, Idle
<1>2. QED
  BY <1>1, Inductive, PTL DEF KeysFollowTheRing
=============================================================================
