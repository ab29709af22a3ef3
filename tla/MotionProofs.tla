---------------------------- MODULE MotionProofs ----------------------------
(***************************************************************************)
(* The robot stays on the grid, never jumps and comes nearer to its means, *)
(* and its readings go the way of Pipeline, in any room, with any grid     *)
(* step and any number of readings in flight.                              *)
(***************************************************************************)
EXTENDS Motion, GridProofs, SequenceTheorems

LEMMA Removal ==
  ASSUME NEW S, NEW q \in Seq(S), NEW i \in DOMAIN q
  PROVE  /\ RemoveAt(q, i) \in Seq(S) /\ q[i] \in S
         /\ Len(q) > 0 /\ Len(RemoveAt(q, i)) = Len(q) - 1
<1>1. i \in 1..Len(q) /\ Len(q) \in Nat
  OBVIOUS
<1>2. SubSeq(q, 1, i - 1) \in Seq(S) /\ Len(SubSeq(q, 1, i - 1)) = i - 1
  BY <1>1
<1>3. SubSeq(q, i + 1, Len(q)) \in Seq(S) /\ Len(SubSeq(q, i + 1, Len(q))) = Len(q) - i
  BY <1>1
<1>4. RemoveAt(q, i) \in Seq(S) /\ Len(RemoveAt(q, i)) = (i - 1) + (Len(q) - i)
  BY <1>2, <1>3 DEF RemoveAt
<1>5. QED
  BY <1>1, <1>4

LEMMA ProduceOnGrid == ASSUME OnGrid, NEW s \in Sources, Produce(s) PROVE OnGrid'
<1>1. PICK d \in Directions : flight' = [flight EXCEPT ![s] = Append(@, Reading(position, d))]
  BY DEF Produce
<1>2. Reading(position, d) \in Room /\ flight[s] \in Seq(Room)
  BY ReadingInRoom DEF OnGrid
<1>3. Append(flight[s], Reading(position, d)) \in Seq(Room)
  BY <1>2
<1>4. flight' \in [Sources -> Seq(Room)]
  BY <1>1, <1>3 DEF OnGrid
<1>5. QED
  BY <1>4 DEF OnGrid, Produce

LEMMA InsertOnGrid ==
  ASSUME OnGrid, NEW t \in Consumers, NEW s \in Sources, Insert(t, s)
  PROVE  OnGrid'
<1>1. PICK i \in DOMAIN flight[s] :
        LET cells == Stored(s, flight[s][i])
            complete == \A c \in Sources : cells[c] # None
        IN  /\ flight' = [flight EXCEPT ![s] = RemoveAt(@, i)]
            /\ row' = IF complete THEN [c \in Sources |-> None] ELSE cells
            /\ target' = IF complete THEN [target EXCEPT ![t] = Fuse(cells)] ELSE target
  BY DEF Insert
<1> DEFINE cells == Stored(s, flight[s][i])
<1>2. RemoveAt(flight[s], i) \in Seq(Room) /\ flight[s][i] \in Room
  BY Removal DEF OnGrid
<1>3. flight' \in [Sources -> Seq(Room)]
  BY <1>1, <1>2 DEF OnGrid
<1>4. cells \in [Sources -> Room \cup {None}]
  BY <1>2 DEF OnGrid, Stored
<1>5. CASE \A c \in Sources : cells[c] # None
  <2>1. cells \in [Sources -> Room]
    BY <1>4, <1>5
  <2>2. Fuse(cells) \in Room
    BY <2>1, FuseInRoom
  <2>3. row' = [c \in Sources |-> None] /\ target' = [target EXCEPT ![t] = Fuse(cells)]
    BY <1>1, <1>5
  <2>4. QED
    BY <1>3, <2>2, <2>3 DEF OnGrid, Insert
<1>6. CASE ~(\A c \in Sources : cells[c] # None)
  <2>1. row' = cells /\ target' = target
    BY <1>1, <1>6
  <2>2. QED
    BY <1>3, <1>4, <2>1 DEF OnGrid, Insert
<1>7. QED
  BY <1>5, <1>6

LEMMA ApplyOnGrid ==
  ASSUME OnGrid, NEW t \in Consumers, Apply(t)
  PROVE  OnGrid' /\ Near(position', position)
<1>1. position \in Room /\ target[t] \in Room
  BY DEF OnGrid, Apply
<1>2. /\ position' \in Room
      /\ position'.x - position.x \in -Step..Step /\ position'.y - position.y \in -Step..Step
  BY <1>1, ClampedStepInRoom DEF Apply
<1>3. QED
  BY <1>2 DEF OnGrid, Apply, Near

LEMMA KeysOnGrid == ASSUME OnGrid, KeyRead \/ KeyWrite PROVE OnGrid'
<1>1. CASE KeyRead
  BY <1>1, WrappedInRoom DEF OnGrid, KeyRead
<1>2. CASE KeyWrite
  BY <1>2 DEF OnGrid, KeyWrite
<1>3. QED
  BY <1>1, <1>2

\* Robot, readings, means and key moves are cells of the room: OnGrid is inductive.
THEOREM StaysOnGrid == Spec => []OnGrid
<1>1. Init => OnGrid
  BY DEF Init, OnGrid
<1>2. OnGrid /\ [Next]_vars => OnGrid'
  <2> SUFFICES ASSUME OnGrid, [Next]_vars PROVE OnGrid'
    OBVIOUS
  <2>1. CASE UNCHANGED vars
    BY <2>1 DEF OnGrid, vars
  <2>2. QED
    BY <2>1, ProduceOnGrid, InsertOnGrid, ApplyOnGrid, KeysOnGrid DEF Next
<1>3. QED
  BY <1>1, <1>2, PTL DEF Spec

\* No consumer takes the robot further than one cell along each axis.
THEOREM NeverJumps == Spec => PipelineNeverJumps
<1>1. OnGrid /\ [Next]_vars => [key' = key => Near(position', position)]_vars
  <2> SUFFICES ASSUME OnGrid, Next, key' = key PROVE Near(position', position)
    OBVIOUS
  <2>1. ASSUME position' = position PROVE Near(position', position)
    <3>1. position.x \in Nat /\ position.y \in Nat
      BY CellsAreNatural, Steps DEF OnGrid, Room
    <3>2. QED
      BY <2>1, <3>1, Steps DEF Near
  <2>2. ASSUME NEW t \in Consumers, Apply(t) PROVE Near(position', position)
    BY <2>2, ApplyOnGrid
  <2>3. ~KeyWrite
    BY DEF KeyWrite
  <2>4. QED
    BY <2>1, <2>2, <2>3 DEF Next, Produce, Insert, KeyRead
<1>2. QED
  BY <1>1, StaysOnGrid, PTL DEF PipelineNeverJumps, Spec

-----------------------------------------------------------------------------
(***************************************************************************)
(* NoSourceLeadsAlone is not inductive: it needs to be known how far       *)
(* readings on their way and means about to be applied can lead, and that  *)
(* a source is never more than one step ahead of what two have reached.    *)
(***************************************************************************)
ReachIsCell == reach \in [Sources -> Cells(Width)]

\* The readings of a source that has reached column c.
Within(c) == {p \in Room : p.x <= c}

ReadingsReached ==
  \A s \in Sources :
    /\ flight[s] \in Seq(Within(reach[s]))
    /\ row[s] \in Within(reach[s]) \cup {None}

MeansBacked == \A t \in Consumers : target[t] # None => Backed(target[t].x)

OneStepAhead == \A s \in Sources : Backed(reach[s] - Step)

LedInv ==
  /\ OnGrid /\ ReachIsCell /\ ReadingsReached
  /\ MeansBacked /\ OneStepAhead /\ NoSourceLeadsAlone

LEMMA BackedBelow ==
  ASSUME ReachIsCell, NEW x \in Int, NEW y \in Int, y <= x, Backed(x)
  PROVE  Backed(y)
<1>1. \A s \in Sources : reach[s] \in Nat
  BY CellsAreNatural, Steps DEF ReachIsCell
<1>2. QED
  BY <1>1 DEF Backed

LEMMA BackingGrows ==
  ASSUME ReachIsCell, ReachIsCell', \A s \in Sources : reach[s] <= reach'[s],
         NEW x \in Int, Backed(x)
  PROVE  Backed(x)'
<1>1. \A s \in Sources : reach[s] \in Nat /\ reach'[s] \in Nat
  BY CellsAreNatural, Steps DEF ReachIsCell
<1>2. PICK a, b \in Sources : a # b /\ reach[a] >= x /\ reach[b] >= x
  BY DEF Backed
<1>3. reach'[a] >= x /\ reach'[b] >= x
  BY <1>1, <1>2
<1>4. QED
  BY <1>2, <1>3 DEF Backed

\* Two of three readings reach their mean, or one is ahead of it and so, one
\* step behind, are two.
LEMMA MeanBacked ==
  ASSUME Step > 1, ReachIsCell, OneStepAhead, NEW cells \in [Sources -> Room],
         \A s \in Sources : cells[s].x <= reach[s]
  PROVE  Backed(Fuse(cells).x)
<1> DEFINE f == [s \in Sources |-> cells[s].x]
           last == Length(Width) - 1
<1>1. f \in [Sources -> Cells(Width)] /\ Axis(Width)
  BY Steps DEF Room
<1>2. PICK j \in 0..(3 * last) : Total(f) = Step * j
  BY <1>1, SumNumber
<1>3. PICK q \in 0..last :
        FuseAxis(Step * j, Width) = Step * q /\ j \in {3 * q - 1, 3 * q, 3 * q + 1}
  BY <1>1, <1>2, FuseAxisVotes
<1>4. Fuse(cells).x = Step * q
  BY <1>2, <1>3, AxesOfMean
<1>5. /\ f[0] \in Cells(Width) /\ f[1] \in Cells(Width) /\ f[2] \in Cells(Width)
      /\ \A s \in Sources : f[s] = cells[s].x /\ f[s] \in Nat /\ reach[s] \in Nat
  BY <1>1, CellsAreNatural DEF Sources, ReachIsCell
<1> HIDE DEF f
<1>6. PICK k \in 0..last : f[0] = Step * k
  BY <1>1, <1>5, NumberOf
<1>7. PICK l \in 0..last : f[1] = Step * l
  BY <1>1, <1>5, NumberOf
<1>8. PICK n \in 0..last : f[2] = Step * n
  BY <1>1, <1>5, NumberOf
<1>9. k \in Int /\ l \in Int /\ n \in Int /\ q \in Int /\ j \in Int
  BY <1>1, Extent
<1>10. k + l + n = j
  <2>1. Step * j = Step * k + Step * l + Step * n
    <3>1. Total(f) = f[0] + f[1] + f[2]
      BY DEF Total
    <3>2. QED
      BY <1>2, <1>6, <1>7, <1>8, <3>1
  <2>2. Step * (k + l + n) = Step * k + Step * l + Step * n
    BY <1>9, Steps
  <2>3. QED
    BY <1>9, <2>1, <2>2, Ordered
<1>11. ASSUME NEW s \in Sources, NEW i \in Int, f[s] = Step * i, q + 1 <= i
       PROVE  Backed(Step * q)
  <2>1. Step * (q + 1) <= Step * i /\ Step * q + Step = Step * (q + 1)
    BY <1>9, <1>11, Ordered, Neighbours
  <2>2. Step * q \in Int /\ reach[s] - Step \in Int /\ Step * q <= reach[s] - Step
    BY <1>5, <1>9, <1>11, <2>1, Steps
  <2>3. QED
    BY <2>2, BackedBelow DEF OneStepAhead
<1>12. ASSUME NEW s \in Sources, NEW i \in Int, f[s] = Step * i, q <= i
       PROVE  reach[s] >= Step * q
  <2>1. Step * q <= f[s]
    BY <1>9, <1>12, Ordered
  <2>2. QED
    BY <1>5, <1>9, <2>1, Steps
<1>13. \/ q + 1 <= k \/ q + 1 <= l \/ q + 1 <= n
       \/ (q <= k /\ q <= l) \/ (q <= k /\ q <= n) \/ (q <= l /\ q <= n)
  BY <1>3, <1>9, <1>10
<1>14. QED
  BY <1>4, <1>6, <1>7, <1>8, <1>9, <1>11, <1>12, <1>13 DEF Backed, Sources

LEMMA ProduceKeepsLed == ASSUME LedInv, NEW s \in Sources, Produce(s) PROVE LedInv'
<1>1. PICK d \in Directions :
        /\ flight' = [flight EXCEPT ![s] = Append(@, Reading(position, d))]
        /\ reach' = [reach EXCEPT ![s] = Greatest(@, Reading(position, d).x)]
  BY DEF Produce
<1> DEFINE p == Reading(position, d)
<1>2. /\ p \in Room /\ p.x \in Cells(Width) /\ p.x \in Nat /\ p.x - Step <= position.x
      /\ position.x \in Nat
  <2>1. position \in Room
    BY DEF LedInv, OnGrid
  <2>2. p \in Room /\ p.x \in {position.x - Step, position.x, position.x + Step}
    BY <2>1, ReadingInRoom
  <2>3. p.x \in Nat /\ position.x \in Nat
    BY <2>1, <2>2, CellsAreNatural, Steps DEF Room
  <2>4. QED
    BY <2>2, <2>3, Steps DEF Room
<1>3. /\ \A c \in Sources : reach[c] \in Nat /\ reach[c] \in Cells(Width)
      /\ \A c \in Sources \ {s} : reach'[c] = reach[c]
      /\ reach'[s] = IF reach[s] < p.x THEN p.x ELSE reach[s]
  BY <1>1, CellsAreNatural, Steps DEF LedInv, ReachIsCell, Greatest
<1>4. ReachIsCell' /\ \A c \in Sources : reach[c] <= reach'[c] /\ reach'[c] \in Nat
  <2>1. reach'[s] \in Cells(Width) /\ reach[s] <= reach'[s] /\ reach'[s] \in Nat
    BY <1>2, <1>3
  <2>2. QED
    BY <1>1, <1>3, <2>1 DEF LedInv, ReachIsCell
<1>5. OnGrid'
  BY ProduceOnGrid DEF LedInv
<1>6. ReadingsReached'
  <2>1. p \in Within(reach'[s]) /\ \A c \in Sources : Within(reach[c]) \subseteq Within(reach'[c])
    <3>1. p.x <= reach'[s]
      BY <1>2, <1>3
    <3>2. \A v \in Room : v.x \in Nat
      BY CellsAreNatural, Steps DEF Room
    <3>3. QED
      BY <1>2, <1>3, <1>4, <3>1, <3>2 DEF Within
  <2>2. \A c \in Sources : flight[c] \in Seq(Within(reach'[c]))
    BY <2>1 DEF LedInv, ReadingsReached
  <2>3. Append(flight[s], p) \in Seq(Within(reach'[s]))
    BY <2>1, <2>2
  <2>4. \A c \in Sources : flight'[c] \in Seq(Within(reach'[c]))
    BY <1>1, <2>2, <2>3 DEF LedInv, OnGrid
  <2>5. \A c \in Sources : row'[c] \in Within(reach'[c]) \cup {None}
    BY <2>1 DEF LedInv, ReadingsReached, Produce
  <2>6. QED
    BY <2>4, <2>5 DEF ReadingsReached
<1>7. ASSUME NEW x \in Int, Backed(x) PROVE Backed(x)'
  BY <1>4, <1>7, BackingGrows DEF LedInv
<1>8. MeansBacked'
  <2>1. \A t \in Consumers : target[t] # None => target[t].x \in Int
    BY CellsAreNatural, Steps DEF LedInv, OnGrid, Room
  <2>2. ASSUME NEW t \in Consumers, target[t] # None PROVE Backed(target[t].x)'
    <3>1. PICK x \in Int : x = target[t].x
      BY <2>1, <2>2
    <3>2. Backed(x)'
      BY <1>7, <2>2, <3>1 DEF LedInv, MeansBacked
    <3>3. QED
      BY <3>1, <3>2 DEF Backed, Produce
  <2>3. QED
    BY <2>2 DEF MeansBacked, Produce
<1>9. OneStepAhead'
  <2> SUFFICES ASSUME NEW c \in Sources PROVE Backed(reach[c] - Step)'
    BY DEF OneStepAhead
  <2>1. PICK x \in Int : x = reach'[c] - Step
    BY <1>4, Steps
  <2>2. Backed(x)
    <3>1. CASE reach'[c] = reach[c]
      BY <2>1, <3>1 DEF LedInv, OneStepAhead
    <3>2. CASE reach'[c] # reach[c]
      BY <1>2, <1>3, <2>1, <3>2, BackedBelow, Steps DEF LedInv, NoSourceLeadsAlone
    <3>3. QED
      BY <3>1, <3>2
  <2>3. QED
    BY <1>7, <2>1, <2>2 DEF Backed
<1>10. NoSourceLeadsAlone'
  <2>1. Backed(position.x)
    BY DEF LedInv, NoSourceLeadsAlone
  <2>2. PICK x \in Int : x = position.x
    BY <1>2
  <2>3. QED
    BY <1>7, <2>1, <2>2 DEF Backed, NoSourceLeadsAlone, Produce
<1>11. QED
  BY <1>4, <1>5, <1>6, <1>8, <1>9, <1>10 DEF LedInv

LEMMA InsertKeepsLed ==
  ASSUME Step > 1, LedInv, NEW t \in Consumers, NEW s \in Sources, Insert(t, s)
  PROVE  LedInv'
<1>1. PICK i \in DOMAIN flight[s] :
        LET cells == Stored(s, flight[s][i])
            complete == \A c \in Sources : cells[c] # None
        IN  /\ flight' = [flight EXCEPT ![s] = RemoveAt(@, i)]
            /\ row' = IF complete THEN [c \in Sources |-> None] ELSE cells
            /\ target' = IF complete THEN [target EXCEPT ![t] = Fuse(cells)] ELSE target
  BY DEF Insert
<1> DEFINE cells == Stored(s, flight[s][i])
<1>2. position' = position /\ reach' = reach
  BY DEF Insert
<1>3. OnGrid'
  BY InsertOnGrid DEF LedInv
<1>4. flight[s] \in Seq(Within(reach[s]))
  BY DEF LedInv, ReadingsReached
<1>5. RemoveAt(flight[s], i) \in Seq(Within(reach[s])) /\ flight[s][i] \in Within(reach[s])
  BY <1>4, Removal
<1>6. \A c \in Sources : flight'[c] \in Seq(Within(reach[c]))
  BY <1>1, <1>5 DEF LedInv, OnGrid, ReadingsReached
<1>7. \A c \in Sources : cells[c] \in Within(reach[c]) \cup {None}
  BY <1>5 DEF LedInv, OnGrid, ReadingsReached, Stored
<1>8. ReadingsReached'
  BY <1>1, <1>2, <1>6, <1>7 DEF ReadingsReached
<1>9. MeansBacked'
  <2>1. CASE \A c \in Sources : cells[c] # None
    <3>1. cells \in [Sources -> Room] /\ \A c \in Sources : cells[c].x <= reach[c]
      BY <1>7, <2>1 DEF LedInv, OnGrid, Stored, Within
    <3>2. Backed(Fuse(cells).x)
      BY <3>1, MeanBacked DEF LedInv
    <3>3. target' = [target EXCEPT ![t] = Fuse(cells)]
      BY <1>1, <2>1
    <3>4. QED
      BY <1>2, <3>2, <3>3 DEF LedInv, OnGrid, MeansBacked, Backed
  <2>2. CASE ~(\A c \in Sources : cells[c] # None)
    BY <1>1, <1>2, <2>2 DEF LedInv, MeansBacked, Backed
  <2>3. QED
    BY <2>1, <2>2
<1>10. QED
  BY <1>2, <1>3, <1>8, <1>9 DEF LedInv, ReachIsCell, OneStepAhead, NoSourceLeadsAlone, Backed

LEMMA ApplyKeepsLed == ASSUME LedInv, NEW t \in Consumers, Apply(t) PROVE LedInv'
<1>1. /\ position' = ClampedStep(position, target[t])
      /\ target' = [target EXCEPT ![t] = None]
      /\ flight' = flight /\ row' = row /\ reach' = reach
  BY DEF Apply
<1>2. position \in Room /\ target[t] \in Room
  BY DEF LedInv, OnGrid, Apply
<1>3. /\ position.x \in Cells(Width) /\ target[t].x \in Cells(Width)
      /\ position'.x = StepAxis(position.x, target[t].x, Width)
  BY <1>1, <1>2 DEF Room, ClampedStep, Vector
<1>4. position'.x \in Nat /\ (position'.x <= position.x \/ position'.x <= target[t].x)
  BY <1>3, CellsAreNatural, Extent, Steps DEF StepAxis, Clamp
<1>5. position.x \in Nat /\ target[t].x \in Nat
  BY <1>3, CellsAreNatural, Steps
<1>6. PICK x \in Int : x = position'.x
  BY <1>4
<1>7. Backed(x)
  <2>1. Backed(position.x) /\ Backed(target[t].x)
    BY DEF LedInv, NoSourceLeadsAlone, MeansBacked, Apply
  <2>2. QED
    BY <1>4, <1>5, <1>6, <2>1, BackedBelow DEF LedInv
<1>8. NoSourceLeadsAlone'
  BY <1>1, <1>6, <1>7 DEF NoSourceLeadsAlone, Backed
<1>9. MeansBacked'
  BY <1>1 DEF LedInv, OnGrid, MeansBacked, Backed
<1>10. OnGrid'
  BY ApplyOnGrid DEF LedInv
<1>11. QED
  BY <1>1, <1>8, <1>9, <1>10 DEF LedInv, ReachIsCell, ReadingsReached, OneStepAhead, Backed

\* The user puts every source's reach where the robot goes.
LEMMA KeyWriteKeepsLed == ASSUME LedInv, KeyWrite PROVE LedInv'
<1>1. /\ position' = key /\ reach' = [s \in Sources |-> Greatest(reach[s], key.x)]
      /\ flight' = flight /\ row' = row /\ target' = target
  BY DEF KeyWrite
<1>2. key \in Room /\ key.x \in Cells(Width) /\ key.x \in Nat
  BY CellsAreNatural, Steps DEF LedInv, OnGrid, KeyWrite, Room
<1>3. \A s \in Sources :
        /\ reach[s] \in Nat /\ reach'[s] \in Cells(Width) /\ reach'[s] \in Nat
        /\ reach[s] <= reach'[s] /\ key.x <= reach'[s]
        /\ reach'[s] = reach[s] \/ reach'[s] = key.x
  BY <1>1, <1>2, CellsAreNatural, Steps DEF LedInv, ReachIsCell, Greatest
<1>4. ReachIsCell'
  BY <1>1, <1>3 DEF ReachIsCell
<1>5. OnGrid'
  BY KeysOnGrid DEF LedInv
<1>6. ReadingsReached'
  <2>1. \A s \in Sources : Within(reach[s]) \subseteq Within(reach'[s])
    <3>1. \A v \in Room : v.x \in Nat
      BY CellsAreNatural, Steps DEF Room
    <3>2. QED
      BY <1>3, <3>1 DEF Within
  <2>2. \A s \in Sources : flight[s] \in Seq(Within(reach'[s]))
    BY <2>1 DEF LedInv, ReadingsReached
  <2>3. \A s \in Sources : row[s] \in Within(reach'[s]) \cup {None}
    BY <2>1 DEF LedInv, ReadingsReached
  <2>4. QED
    BY <1>1, <2>2, <2>3 DEF ReadingsReached
<1>7. ASSUME NEW x \in Int, Backed(x) PROVE Backed(x)'
  BY <1>3, <1>4, <1>7, BackingGrows DEF LedInv
<1>8. MeansBacked'
  <2>1. ASSUME NEW t \in Consumers, target[t] # None PROVE Backed(target[t].x)'
    <3>1. PICK x \in Int : x = target[t].x
      BY <2>1, CellsAreNatural, Steps DEF LedInv, OnGrid, Room
    <3>2. Backed(x)'
      BY <1>7, <2>1, <3>1 DEF LedInv, MeansBacked
    <3>3. QED
      BY <1>1, <3>1, <3>2 DEF Backed
  <2>2. QED
    BY <1>1, <2>1 DEF MeansBacked
<1>9. OneStepAhead'
  <2> SUFFICES ASSUME NEW c \in Sources PROVE Backed(reach[c] - Step)'
    BY DEF OneStepAhead
  <2>1. PICK x \in Int : x = reach'[c] - Step
    BY <1>3, Steps
  <2>2. CASE reach'[c] = reach[c]
    BY <1>7, <2>1, <2>2 DEF LedInv, OneStepAhead, Backed
  <2>3. CASE reach'[c] = key.x
    BY <1>2, <1>3, <2>3, Steps DEF Backed, Sources
  <2>4. QED
    BY <1>3, <2>2, <2>3
<1>10. NoSourceLeadsAlone'
  BY <1>1, <1>2, <1>3 DEF NoSourceLeadsAlone, Backed, Sources
<1>11. QED
  BY <1>4, <1>5, <1>6, <1>8, <1>9, <1>10 DEF LedInv

LEMMA KeyReadKeepsLed == ASSUME LedInv, KeyRead PROVE LedInv'
<1>1. OnGrid'
  BY KeysOnGrid DEF LedInv
<1>2. QED
  BY <1>1 DEF LedInv, KeyRead, ReachIsCell, ReadingsReached, MeansBacked, OneStepAhead,
              NoSourceLeadsAlone, Backed

\* Wherever a robot is, two sources or the user have been before.
THEOREM LedByTwo == ASSUME Step > 1 PROVE Spec => []NoSourceLeadsAlone
<1>1. Init => LedInv
  <2> SUFFICES ASSUME Init PROVE LedInv
    OBVIOUS
  <2>1. OnGrid
    BY DEF Init, OnGrid
  <2>2. \A s \in Sources : reach[s] = position.x
    BY DEF Init
  <2>3. position.x \in Cells(Width) /\ position.x \in Nat
    BY <2>1, CellsAreNatural, Steps DEF OnGrid, Room
  <2>4. ReachIsCell
    BY <2>3 DEF Init, ReachIsCell
  <2>5. ReadingsReached /\ MeansBacked
    BY DEF Init, ReadingsReached, MeansBacked
  <2>6. OneStepAhead /\ NoSourceLeadsAlone
    BY <2>2, <2>3, Steps DEF OneStepAhead, NoSourceLeadsAlone, Backed, Sources
  <2>7. QED
    BY <2>1, <2>4, <2>5, <2>6 DEF LedInv
<1>2. LedInv /\ [Next]_vars => LedInv'
  <2> SUFFICES ASSUME LedInv, [Next]_vars PROVE LedInv'
    OBVIOUS
  <2>1. CASE UNCHANGED vars
    BY <2>1 DEF vars, LedInv, OnGrid, ReachIsCell, ReadingsReached, MeansBacked,
                OneStepAhead, NoSourceLeadsAlone, Backed
  <2>2. QED
    BY <2>1, ProduceKeepsLed, InsertKeepsLed, ApplyKeepsLed, KeyReadKeepsLed,
       KeyWriteKeepsLed DEF Next
<1>3. LedInv => NoSourceLeadsAlone
  BY DEF LedInv
<1>4. QED
  BY <1>1, <1>2, <1>3, PTL DEF Spec

-----------------------------------------------------------------------------
\* Between two cells of the room the clamp to the room changes nothing: a step
\* of one axis closes the gap to the mean by one grid step, or altogether.
LEMMA StepAxisNears ==
  ASSUME NEW size, Axis(size), NEW from \in Cells(size), NEW mean \in Cells(size)
  PROVE  Nears(from, StepAxis(from, mean, size), mean)
<1>1. /\ from \in Nat /\ mean \in Nat /\ from <= size - Step /\ mean <= size - Step
      /\ size - Step \in Nat /\ Step \in Nat /\ Step > 0
  BY CellsAreNatural, Extent, Steps
<1>2. CASE mean - from \in -Step..Step
  <2>1. StepAxis(from, mean, size) = mean
    BY <1>1, <1>2 DEF StepAxis, Clamp
  <2>2. Gap(mean, mean) = 0 /\ Gap(from, mean) <= Step
    BY <1>1, <1>2 DEF Gap
  <2>3. QED
    BY <1>1, <2>1, <2>2 DEF Nears, Greatest, Gap
<1>3. CASE mean - from > Step
  <2>1. StepAxis(from, mean, size) = from + Step
    BY <1>1, <1>3 DEF StepAxis, Clamp
  <2>2. Gap(from + Step, mean) = mean - from - Step /\ Gap(from, mean) = mean - from
    BY <1>1, <1>3 DEF Gap
  <2>3. QED
    BY <1>1, <1>3, <2>1, <2>2 DEF Nears, Greatest
<1>4. CASE from - mean > Step
  <2>1. StepAxis(from, mean, size) = from - Step
    BY <1>1, <1>4 DEF StepAxis, Clamp
  <2>2. Gap(from - Step, mean) = from - mean - Step /\ Gap(from, mean) = from - mean
    BY <1>1, <1>4 DEF Gap
  <2>3. QED
    BY <1>1, <1>4, <2>1, <2>2 DEF Nears, Greatest
<1>5. QED
  BY <1>1, <1>2, <1>3, <1>4

\* However old a mean is and wherever the robot is by then, a consumer brings
\* the robot nearer to it by one step along each axis, or all the way.
THEOREM Approaches == Spec => ApproachesMean
<1> DEFINE Closer(t) ==
      target[t] # None /\ target'[t] = None =>
        /\ Nears(position.x, position'.x, target[t].x)
        /\ Nears(position.y, position'.y, target[t].y)
<1>1. OnGrid /\ [Next]_vars => [\A t \in Consumers : Closer(t)]_vars
  <2> SUFFICES ASSUME OnGrid, Next, NEW t \in Consumers, target[t] # None, target'[t] = None
               PROVE  /\ Nears(position.x, position'.x, target[t].x)
                      /\ Nears(position.y, position'.y, target[t].y)
    OBVIOUS
  <2>1. Apply(t)
    <3>1. ASSUME NEW u \in Consumers, NEW s \in Sources, Insert(u, s) PROVE FALSE
      <4>1. PICK m : target' = target \/ target' = [target EXCEPT ![u] = m]
        BY <3>1 DEF Insert
      <4>2. u = t
        BY <4>1 DEF OnGrid
      <4>3. QED
        BY <3>1, <4>2 DEF Insert, Free
    <3>2. ASSUME NEW u \in Consumers, Apply(u) PROVE u = t
      BY <3>2 DEF Apply, OnGrid
    <3>3. QED
      BY <3>1, <3>2 DEF Next, Produce, KeyRead, KeyWrite
  <2>2. position \in Room /\ target[t] \in Room
    BY DEF OnGrid
  <2>3. /\ position.x \in Cells(Width) /\ target[t].x \in Cells(Width)
        /\ position.y \in Cells(Height) /\ target[t].y \in Cells(Height)
    BY <2>2 DEF Room
  <2>4. /\ position'.x = StepAxis(position.x, target[t].x, Width)
        /\ position'.y = StepAxis(position.y, target[t].y, Height)
    BY <2>1 DEF Apply, ClampedStep, Vector
  <2>5. QED
    BY <2>3, <2>4, StepAxisNears, Steps
<1>2. QED
  BY <1>1, StaysOnGrid, PTL DEF ApproachesMean, Spec

-----------------------------------------------------------------------------
(***************************************************************************)
(* Motion implements Pipeline for one robot.  Flight, Filled and Goal are  *)
(* what Pipeline's variables stand for.                                    *)
(***************************************************************************)
Tagged(s) == [source |-> s, robot |-> "robot"]

Flight == [v \in [source : Sources, robot : {"robot"}] |-> Len(flight[v.source])]

Filled == {s \in Sources : row[s] # None}

Goal == [t \in Consumers |-> IF target[t] = None THEN "nobody" ELSE "robot"]

LEMMA TaggedReadings ==
  ASSUME NEW s \in Sources
  PROVE  /\ Tagged(s) \in Path!Readings /\ Tagged(s).source = s /\ Tagged(s).robot = "robot"
         /\ \A v \in Path!Readings : v.source = s => v = Tagged(s)
BY DEF Tagged, Path!Readings

\* Changing the readings of one source changes one of Pipeline's counts.
LEMMA FlightOf ==
  ASSUME OnGrid, NEW s \in Sources, NEW n,
         flight' = [flight EXCEPT ![s] = flight'[s]], Len(flight'[s]) = n
  PROVE  Path!Count(Tagged(s), n)
<1>1. Flight' = [Flight EXCEPT ![Tagged(s)] = n]
  <2>1. \A v \in Path!Readings : Len(flight'[v.source]) = IF v = Tagged(s) THEN n ELSE Len(flight[v.source])
    BY TaggedReadings DEF OnGrid, Path!Readings
  <2>2. QED
    BY <2>1 DEF Flight, Path!Readings
<1>2. Flight'[Tagged(s)] = n
  BY <1>1, TaggedReadings DEF Flight, Path!Readings
<1>3. QED
  BY <1>1, <1>2 DEF Path!Count, Flight

LEMMA ProducePath == ASSUME OnGrid, NEW s \in Sources, Produce(s) PROVE Path!Produce(Tagged(s))
<1>1. PICK d \in Directions : flight' = [flight EXCEPT ![s] = Append(@, Reading(position, d))]
  BY DEF Produce
<1>2. /\ flight'[s] = Append(flight[s], Reading(position, d))
      /\ flight' = [flight EXCEPT ![s] = flight'[s]]
  BY <1>1 DEF OnGrid
<1>3. flight[s] \in Seq(Room) /\ Reading(position, d) \in Room
  BY ReadingInRoom DEF OnGrid
<1>4. PICK n \in Nat : n = Len(flight[s]) + 1
  BY <1>3
<1>5. Path!Count(Tagged(s), n)
  BY <1>2, <1>3, <1>4, FlightOf
<1>6. Flight[Tagged(s)] = Len(flight[s])
  BY TaggedReadings DEF Flight, Path!Readings
<1>7. QED
  BY <1>4, <1>5, <1>6 DEF Path!Produce, Path!Count, Produce, Flight

LEMMA InsertPath ==
  ASSUME OnGrid, NEW t \in Consumers, NEW s \in Sources, Insert(t, s)
  PROVE  Path!Insert(t, Tagged(s))
<1>1. PICK i \in DOMAIN flight[s] :
        LET cells == Stored(s, flight[s][i])
            complete == \A c \in Sources : cells[c] # None
        IN  /\ flight' = [flight EXCEPT ![s] = RemoveAt(@, i)]
            /\ row' = IF complete THEN [c \in Sources |-> None] ELSE cells
            /\ target' = IF complete THEN [target EXCEPT ![t] = Fuse(cells)] ELSE target
  BY DEF Insert
<1> DEFINE cells == Stored(s, flight[s][i])
           full == \A c \in Sources : cells[c] # None
<1>2. flight[s] \in Seq(Room) /\ flight[s][i] \in Room /\ flight[s][i] # None
  BY Removal, MotionAssumption DEF OnGrid
<1>3. /\ flight'[s] = RemoveAt(flight[s], i) /\ flight' = [flight EXCEPT ![s] = flight'[s]]
      /\ Len(RemoveAt(flight[s], i)) = Len(flight[s]) - 1 /\ Len(flight[s]) > 0
  BY <1>1, <1>2, Removal DEF OnGrid
<1>4. PICK n \in Nat : n = Len(flight[s]) - 1
  BY <1>2, <1>3
<1>5. Path!Count(Tagged(s), n)
  BY <1>3, <1>4, FlightOf
<1>6. Path!Land(Tagged(s))
  <2>1. Flight[Tagged(s)] = Len(flight[s])
    BY TaggedReadings DEF Flight, Path!Readings
  <2>2. QED
    BY <1>3, <1>4, <1>5, <2>1 DEF Path!Land, Path!Count, Flight
<1>7. {c \in Sources : cells[c] # None} = Filled \cup {s}
  BY <1>2 DEF OnGrid, Filled, Stored
<1>8. Goal[t] = "nobody"
  BY DEF Insert, Free, Goal
<1>9. CASE full
  <2>1. Filled \cup {s} = Sources
    BY <1>7, <1>9
  <2>2. row' = [c \in Sources |-> None] /\ target' = [target EXCEPT ![t] = Fuse(cells)]
    BY <1>1, <1>9
  <2>3. Filled' = {}
    BY <2>2 DEF Filled
  <2>4. cells \in [Sources -> Room]
    BY <1>2, <1>9 DEF OnGrid, Stored
  <2>5. Fuse(cells) # None
    BY <2>4, FuseInRoom, MotionAssumption
  <2>6. Goal' = [Goal EXCEPT ![t] = "robot"]
    BY <2>2, <2>5 DEF Goal, OnGrid
  <2>7. QED
    BY <1>6, <1>8, <2>1, <2>3, <2>6, TaggedReadings DEF Path!Insert, Filled, Goal
<1>10. CASE ~full
  <2>1. Filled \cup {s} # Sources
    BY <1>7, <1>10
  <2>2. row' = cells /\ target' = target
    BY <1>1, <1>10
  <2>3. Filled' = Filled \cup {s}
    BY <1>7, <2>2 DEF Filled
  <2>4. QED
    BY <1>6, <1>8, <2>1, <2>2, <2>3, TaggedReadings DEF Path!Insert, Filled, Goal
<1>11. QED
  BY <1>9, <1>10

LEMMA ApplyPath == ASSUME OnGrid, NEW t \in Consumers, Apply(t) PROVE Path!Move(t)
<1>1. Goal[t] # "nobody" /\ Goal' = [Goal EXCEPT ![t] = "nobody"]
  BY DEF Apply, OnGrid, Goal
<1>2. QED
  BY <1>1 DEF Apply, Path!Move, Goal

\* Readings in flight, the row and the means of one robot behave as Pipeline:
\* no reading is used twice, and a complete row is emptied and used once.
THEOREM WayOfReadings == Spec => ImplementsPipeline
<1>1. Init => Path!Init
  BY DEF Init, Path!Init, Path!Readings
<1>2. OnGrid /\ [Next]_vars => [Path!Next]_<<TRUE, [r \in {"robot"} |-> Filled], Goal, Flight>>
  <2> SUFFICES ASSUME OnGrid, [Next]_vars
               PROVE  Path!Next \/ UNCHANGED <<flight, row, target>>
    BY DEF Flight, Filled, Goal
  <2>1. ASSUME NEW s \in Sources, Produce(s) PROVE Path!Next
    BY <2>1, ProducePath, TaggedReadings DEF Path!Next
  <2>2. ASSUME NEW t \in Consumers, NEW s \in Sources, Insert(t, s) PROVE Path!Next
    BY <2>2, InsertPath, TaggedReadings DEF Path!Next
  <2>3. ASSUME NEW t \in Consumers, Apply(t) PROVE Path!Next
    BY <2>3, ApplyPath DEF Path!Next
  <2>4. CASE KeyRead \/ KeyWrite \/ UNCHANGED vars
    BY <2>4 DEF KeyRead, KeyWrite, vars
  <2>5. QED
    BY <2>1, <2>2, <2>3, <2>4 DEF Next
<1>3. QED
  BY <1>1, <1>2, StaysOnGrid, PTL DEF Spec, ImplementsPipeline, Path!Spec, Flight, Filled, Goal
=============================================================================
