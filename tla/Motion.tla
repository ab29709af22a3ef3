------------------------------- MODULE Motion -------------------------------
(***************************************************************************)
(* Where one robot is, and who moves it: three sources read its position   *)
(* and make readings of it, the processor thread or the GUI thread fuses   *)
(* three readings and moves it, and the user moves it with the arrow keys. *)
(* Robots share nothing but the buffer, so one robot stands for each.      *)
(*                                                                         *)
(* Backend says how readings travel.  Here a reading is in flight from the *)
(* moment it is made until a consumer inserts it, which may be much later  *)
(* and, as there are two consumers, in any order.                          *)
(***************************************************************************)
EXTENDS Grid, Sequences, SequencesExt

CONSTANTS
  InFlight,    \* bound: readings that are in flight
  processor,   \* the processor thread
  gui,         \* the GUI thread
  None         \* "nothing": an empty cell, no target, no key pressed

Consumers == {processor, gui}

ASSUME MotionAssumption == processor # gui /\ None \notin Room

VARIABLES
  position,   \* position_ of the robot
  flight,     \* flight[s]: readings of source s that nobody has inserted yet
  row,        \* row[s]: the reading in the cell of source s, or None
  target,     \* target[t]: the mean with which thread t is about to move
  key,        \* moveSelectedRobot between getPosition and setPosition, or None
  reach       \* history, not of the program: reach[s], the rightmost column in
              \* which source s has read the robot or the user has put it

vars == <<position, flight, row, target, key, reach>>

Init ==
  /\ position \in Room
  /\ flight = [s \in Sources |-> <<>>]
  /\ row = [s \in Sources |-> None]
  /\ target = [t \in Consumers |-> None]
  /\ key = None
  /\ reach = [s \in Sources |-> position.x]

\* Thread t is not in the middle of a move; the GUI thread does one at a time.
Free(t) == target[t] = None /\ (t = gui => key = None)

\* Source::produce reads the position under the robot's mutex.
Produce(s) ==
  /\ FoldFunction(+, 0, [c \in Sources |-> Len(flight[c])]) < InFlight
  /\ \E p \in {Reading(position, d) : d \in Directions} :
       /\ flight' = [flight EXCEPT ![s] = Append(@, p)]
       /\ reach' = [reach EXCEPT ![s] = Greatest(@, p.x)]
  /\ UNCHANGED <<position, row, target, key>>

Stored_Slip(s, p) ==   \* takes the first free cell, whoever made the reading
  [row EXCEPT ![CHOOSE c \in Sources : row[c] = None] = p]

\* The row when reading p of source s has been stored in its cell.
Stored(s, p) == [row EXCEPT ![s] = p]

Insert_Slip(t, s) ==   \* forgets resetRow
  /\ Free(t)
  /\ \E i \in DOMAIN flight[s] :
       LET cells == Stored(s, flight[s][i])
       IN  /\ flight' = [flight EXCEPT ![s] = RemoveAt(@, i)]
           /\ row' = cells
           /\ target' = IF \A c \in Sources : cells[c] # None
                          THEN [target EXCEPT ![t] = Fuse(cells)] ELSE target
  /\ UNCHANGED <<position, key, reach>>

\* A consumer inserts a reading of source s; the third one gives it a target.
Insert(t, s) ==
  /\ Free(t)
  /\ \E i \in DOMAIN flight[s] :
       LET cells == Stored(s, flight[s][i])
           complete == \A c \in Sources : cells[c] # None
       IN  /\ flight' = [flight EXCEPT ![s] = RemoveAt(@, i)]
           /\ row' = IF complete THEN [c \in Sources |-> None] ELSE cells
           /\ target' = IF complete THEN [target EXCEPT ![t] = Fuse(cells)] ELSE target
  /\ UNCHANGED <<position, key, reach>>

\* clampedSetPosition: read, clamp and write under one lock.
Apply_Slip(t) ==   \* setPosition(target), without the clamp
  /\ target[t] # None
  /\ position' = target[t]
  /\ target' = [target EXCEPT ![t] = None]
  /\ UNCHANGED <<flight, row, key, reach>>

Apply(t) ==
  /\ target[t] # None
  /\ position' = ClampedStep(position, target[t])
  /\ target' = [target EXCEPT ![t] = None]
  /\ UNCHANGED <<flight, row, key, reach>>

\* moveSelectedRobot: getPosition, and later setPosition of what it computed.
KeyRead ==
  /\ Free(gui)
  /\ key' \in {Wrapped(position, d) : d \in Directions}
  /\ UNCHANGED <<position, flight, row, target, reach>>

KeyWrite ==
  /\ key # None
  /\ position' = key
  /\ key' = None
  /\ reach' = [s \in Sources |-> Greatest(reach[s], key.x)]
  /\ UNCHANGED <<flight, row, target>>

Next ==
  \/ \E s \in Sources : Produce(s)
  \/ \E t \in Consumers, s \in Sources : Insert(t, s)
  \/ \E t \in Consumers : Apply(t)
  \/ KeyRead \/ KeyWrite

Spec == Init /\ [][Next]_vars

-----------------------------------------------------------------------------
(***************************************************************************)
(* Robot, readings, means and keyboard moves are always on the grid and    *)
(* inside the room, whatever their order and however old the readings are  *)
(* (constants.h:23, source.cpp:22-24, processor.cpp:73-75).                *)
(***************************************************************************)
OnGrid ==
  /\ position \in Room
  /\ flight \in [Sources -> Seq(Room)]
  /\ row \in [Sources -> Room \cup {None}]
  /\ target \in [Consumers -> Room \cup {None}]
  /\ key \in Room \cup {None}

Near(p, q) ==
  /\ p.x - q.x \in -Step..Step
  /\ p.y - q.y \in -Step..Step

(***************************************************************************)
(* A robot never jumps: two consumers that move it at once, from means as  *)
(* old as may be and with keys pressed in between, take it one step per    *)
(* axis each (robot.h:106-110).  Only a key can carry it over the edge.    *)
(***************************************************************************)
PipelineNeverJumps == [][key' = key => Near(position', position)]_vars

(***************************************************************************)
(* A consumer brings the robot one step nearer to its mean along each axis *)
(* or all the way, never past it and never back, although the mean may be  *)
(* stale and the robot elsewhere by now (robot.h:106-110).  The clamp to   *)
(* the room never holds it up.                                             *)
(***************************************************************************)
Gap(a, b) == IF a < b THEN b - a ELSE a - b

Nears(from, to, mean) == Gap(to, mean) = Greatest(0, Gap(from, mean) - Step)

ApproachesMean ==
  [][\A t \in Consumers :
       target[t] # None /\ target'[t] = None =>
         /\ Nears(position.x, position'.x, target[t].x)
         /\ Nears(position.y, position'.y, target[t].y)]_vars

(***************************************************************************)
(* No source leads a robot astray alone: wherever it is, two sources have  *)
(* read it that far right, or it began or the user put it there.  A row    *)
(* may mix readings of any age, an older one may replace a newer one, and  *)
(* two means may be applied at once (backendcontroller.cpp:349,            *)
(* processor.cpp:34-48), and rounding favours no source (77-78).           *)
(***************************************************************************)
Backed(x) == \E a, b \in Sources : a # b /\ reach[a] >= x /\ reach[b] >= x

NoSourceLeadsAlone == Backed(position.x)

(***************************************************************************)
(* Readings travel here as Backend lets them travel: both implement        *)
(* Pipeline, this one for one robot while the window is open.  No reading  *)
(* is used twice, and a row that is complete moves the robot once          *)
(* (processor.cpp:44-56).                                                  *)
(***************************************************************************)
Path == INSTANCE Pipeline WITH
  Robots <- {"robot"},
  Nobody <- "nobody",
  open <- TRUE,
  flight <- [v \in [source : Sources, robot : {"robot"}] |-> Len(flight[v.source])],
  matrix <- [r \in {"robot"} |-> {s \in Sources : row[s] # None}],
  target <- [t \in Consumers |-> IF target[t] = None THEN "nobody" ELSE "robot"]

ImplementsPipeline == Path!Spec

(***************************************************************************)
(* "Clamp so the robot can only jump to an adjacent cell (one grid step)", *)
(* backendcontroller.cpp:257, over the edge or not.  It does not hold: the *)
(* worker may move the robot between getPosition and setPosition.          *)
(***************************************************************************)
AdjacentAxis(c, d, size) == (c - d) % size \in {0, Step, size - Step}

KeyMovesOneCell ==
  [][(key # None /\ key' = None) =>
       /\ AdjacentAxis(position'.x, position.x, Width)
       /\ AdjacentAxis(position'.y, position.y, Height)]_vars
=============================================================================
