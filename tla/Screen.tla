------------------------------- MODULE Screen -------------------------------
(***************************************************************************)
(* How state reaches the screen: the GUI thread's event loop, which does   *)
(* one thing at a time, beside workers that go on meanwhile.               *)
(*                                                                         *)
(* Whoever moves a robot writes its position under the mutex and announces *)
(* it outside: the GUI thread by emitting positionChanged() at once, a     *)
(* worker by posting it to the event queue.  The size of the buffer is     *)
(* polled by a timer, which emits bufferChanged().  On a signal each QML   *)
(* binding reads its value anew, one after the other.  One robot and one   *)
(* binding of each kind stand for all.                                     *)
(***************************************************************************)
EXTENDS Integers

CONSTANTS
  Coordinates,   \* the values of x and of y
  MaxSize,       \* BUFFER_SIZE
  MaxPosted,     \* bound: announcements waiting in the event queue
  NumRobots,     \* NUM_ROBOTS
  Shown          \* the robot whose position is modelled

ASSUME ScreenAssumption ==
  /\ MaxSize \in Nat /\ MaxPosted \in Nat
  /\ NumRobots \in Nat \ {0} /\ Shown \in 0..(NumRobots - 1)

VARIABLES
  position,   \* position_ of the robot, guarded by its mutex
  unsent,     \* a worker has written a position and not yet posted the signal
  posted,     \* positionChanged() calls in the event queue
  size,       \* what getSize() returns
  last,       \* lastBufferSize_
  selected,   \* selectedRobot_
  removing,   \* manualRemove() has moved a robot, bufferChanged() is to follow
  dirty,      \* bindings the GUI thread has still to evaluate
  shown,      \* shown[b]: the value binding b has on the screen
  settled     \* the user has disabled every worker, and they have noticed

buffer == <<size, last>>
robot == <<position, unsent, posted>>
screen == <<dirty, shown>>
vars == <<robot, buffer, selected, removing, screen, settled>>

Positions == [x : Coordinates, y : Coordinates]

\* RobotGrid.qml:68-69, BufferPanel.qml:41,51 and RobotGrid.qml:80-81
Bindings == {"x", "y", "bufferSize", "ring"}

\* What a binding reads when it is evaluated.
Current(b) ==
  CASE b = "x" -> position.x [] b = "y" -> position.y
    [] b = "bufferSize" -> size [] b = "ring" -> selected

\* The bindings a signal makes the QML engine evaluate.
Listeners == [positionChanged |-> {"x", "y"},
              bufferChanged |-> {"bufferSize"},
              selectedRobotChanged |-> {"ring"}]

Emit(signal) == dirty' = Listeners[signal]

\* The workers start before the QML is loaded, which evaluates every binding.
Init ==
  /\ position \in Positions
  /\ unsent = FALSE /\ posted = 0
  /\ size = 0 /\ last = -1
  /\ selected = 0 /\ removing = FALSE /\ settled = FALSE
  /\ dirty = Bindings
  /\ shown = [b \in Bindings |-> Current(b)]

-----------------------------------------------------------------------------
(***************************************************************************)
(* The workers.                                                            *)
(***************************************************************************)
\* clampedSetPosition on the processor thread announces only a real change.
WorkerMove(p) ==
  /\ ~settled /\ ~unsent
  /\ p # position /\ position' = p
  /\ unsent' = TRUE
  /\ UNCHANGED <<posted, buffer, selected, removing, screen, settled>>

WorkerPost_Slip ==   \* no second event while one is being delivered
  /\ unsent
  /\ posted < MaxPosted
  /\ posted' = IF dirty = {} THEN posted + 1 ELSE posted
  /\ unsent' = FALSE
  /\ UNCHANGED <<position, buffer, selected, removing, screen, settled>>

WorkerPost ==
  /\ unsent
  /\ posted < MaxPosted
  /\ posted' = posted + 1
  /\ unsent' = FALSE
  /\ UNCHANGED <<position, buffer, selected, removing, screen, settled>>

\* A source puts, the processor takes.
WorkerStep ==
  /\ ~settled
  /\ size' \in {size - 1, size + 1} \cap 0..MaxSize
  /\ UNCHANGED <<robot, last, selected, removing, screen, settled>>

Settle ==
  /\ ~settled /\ settled' = TRUE
  /\ UNCHANGED <<robot, buffer, selected, removing, screen>>

-----------------------------------------------------------------------------
(***************************************************************************)
(* The GUI thread: it turns to the next event when it has done with one.   *)
(***************************************************************************)
Idle == dirty = {} /\ ~removing

\* A binding calls posX(), posY(), bufferSize() or selectedRobot().
Evaluate(b) ==
  /\ b \in dirty
  /\ shown' = [shown EXCEPT ![b] = Current(b)]
  /\ dirty' = dirty \ {b}
  /\ UNCHANGED <<robot, buffer, selected, removing, settled>>

\* The event loop delivers a posted positionChanged().
Deliver ==
  /\ Idle /\ posted > 0
  /\ posted' = posted - 1
  /\ Emit("positionChanged")
  /\ UNCHANGED <<position, unsent, buffer, selected, removing, shown, settled>>

\* The lambda connected to bufferTimer_.
Poll_Slip ==   \* remembers the size and emits only when it has grown
  /\ Idle /\ size # last
  /\ last' = size
  /\ IF size > last THEN Emit("bufferChanged") ELSE UNCHANGED dirty
  /\ UNCHANGED <<robot, size, selected, removing, shown, settled>>

Poll ==
  /\ Idle /\ size # last
  /\ last' = size
  /\ Emit("bufferChanged")
  /\ UNCHANGED <<robot, size, selected, removing, shown, settled>>

\* moveSelectedRobot; to move another robot changes nothing here.
Key(p) ==
  /\ Idle
  /\ selected = Shown
  /\ p # position /\ position' = p
  /\ Emit("positionChanged")
  /\ UNCHANGED <<unsent, posted, buffer, selected, removing, shown, settled>>

\* A click on robot i.
setSelectedRobot_Slip(i) ==   \* emits when nothing has changed, and not when it has
  /\ Idle
  /\ IF selected = i THEN Emit("selectedRobotChanged") ELSE UNCHANGED dirty
  /\ selected' = i
  /\ UNCHANGED <<robot, buffer, removing, shown, settled>>

setSelectedRobot(i) ==
  /\ Idle
  /\ i \in 0..(NumRobots - 1) /\ selected # i
  /\ selected' = i
  /\ Emit("selectedRobotChanged")
  /\ UNCHANGED <<robot, buffer, removing, shown, settled>>

manualRemove_Slip(p) ==   \* ignores what tryTake returns
  /\ Idle
  /\ size' = size - 1
  /\ position' = p
  /\ IF p = position
       THEN Emit("bufferChanged") /\ UNCHANGED removing
       ELSE Emit("positionChanged") /\ removing' = TRUE
  /\ UNCHANGED <<unsent, posted, last, selected, shown, settled>>

\* The reading is taken; if it completes a row the robot may move, and that
\* is on the screen before manualRemove() goes on to emit bufferChanged().
manualRemove(p) ==
  /\ Idle /\ size > 0
  /\ size' = size - 1
  /\ position' = p
  /\ IF p = position
       THEN Emit("bufferChanged") /\ UNCHANGED removing
       ELSE Emit("positionChanged") /\ removing' = TRUE
  /\ UNCHANGED <<unsent, posted, last, selected, shown, settled>>

Removed ==
  /\ removing /\ dirty = {}
  /\ removing' = FALSE
  /\ Emit("bufferChanged")
  /\ UNCHANGED <<robot, buffer, selected, shown, settled>>

GuiGoesOn == Removed \/ \E b \in Bindings : Evaluate(b)

Next ==
  \/ \E p \in Positions : WorkerMove(p) \/ Key(p) \/ manualRemove(p)
  \/ \E i \in 0..(NumRobots - 1) : setSelectedRobot(i)
  \/ WorkerPost \/ WorkerStep \/ Settle
  \/ Deliver \/ Poll \/ GuiGoesOn

Spec == Init /\ [][Next]_vars

(***************************************************************************)
(* A worker finishes its announcement, the GUI thread what it has begun,   *)
(* and the event loop gets round to timer and posted events however much   *)
(* the user does.                                                          *)
(***************************************************************************)
FairSpec == Spec /\ WF_vars(WorkerPost) /\ WF_vars(GuiGoesOn) /\ SF_vars(Deliver) /\ SF_vars(Poll)

-----------------------------------------------------------------------------
(***************************************************************************)
(* Every variable has its type: the event queue never owes a delivery that *)
(* nobody posted (robot.cpp:128), and manualRemove() finds out whether     *)
(* there was a reading to take (backendcontroller.cpp:229).                *)
(***************************************************************************)
TypeOK ==
  /\ position \in Positions
  /\ unsent \in BOOLEAN /\ removing \in BOOLEAN /\ settled \in BOOLEAN
  /\ posted \in 0..MaxPosted
  /\ size \in 0..MaxSize /\ last \in -1..MaxSize
  /\ selected \in 0..(NumRobots - 1)
  /\ dirty \subseteq Bindings
  /\ DOMAIN shown = Bindings

Fresh(bindings) == \A b \in bindings : shown[b] = Current(b)

(***************************************************************************)
(* A coordinate on the screen that is out of date has an announcement on   *)
(* its way: about to be posted, in the queue, or being delivered.  No      *)
(* interleaving of a worker's move with the evaluation of the bindings     *)
(* loses the last position (robot.h:42-46).                                *)
(***************************************************************************)
StaleMeansNotified ==
  \A b \in {"x", "y"} : shown[b] # Current(b) => unsent \/ posted > 0 \/ b \in dirty

(***************************************************************************)
(* The arrow keys move the robot that the screen shows as selected, also   *)
(* when keys and clicks follow each other faster than it is drawn          *)
(* (backendcontroller.cpp:209-215, RobotGrid.qml:80).                      *)
(***************************************************************************)
KeysFollowTheRing == [][\A p \in Positions : Key(p) => shown["ring"] = Shown]_vars

(***************************************************************************)
(* Once the workers rest the screen shows where the robot is, at least     *)
(* between two keys.                                                       *)
(***************************************************************************)
ViewCatchesUp == settled ~> Fresh({"x", "y"})

(***************************************************************************)
(* A size that the timer has not seen yet is shown in the end.             *)
(***************************************************************************)
PollRepairs == (settled /\ last # size) ~> Fresh({"bufferSize"})

(***************************************************************************)
(* bufferSize is the "Current number of items in the shared buffer (polled *)
(* via timer)", backendcontroller.h:102: once the workers rest, the screen *)
(* shows it in the end.  It does not hold: the bindings read the size      *)
(* after the poll did, and what they read is not what the timer compares   *)
(* with.                                                                   *)
(***************************************************************************)
ScreenCatchesUp == settled ~> Fresh({"bufferSize"})
=============================================================================
