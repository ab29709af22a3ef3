----------------------------- MODULE GridProofs -----------------------------
(***************************************************************************)
(* What the arithmetic of positions does, for every room and grid step:    *)
(* everything stays on the grid, no step is longer than one cell, and the  *)
(* mean of three cells is the cell a vote would choose.                    *)
(*                                                                         *)
(* A cell is a multiple of Step.  The lemmas pass to the number of the     *)
(* cell, where the arithmetic is linear, and back.                         *)
(***************************************************************************)
EXTENDS Grid, TLAPS

Axis(size) == size \in Nat \ {0} /\ size % Step = 0

\* How many cells there are along an axis.
Length(size) == size \div Step

LEMMA Steps == Step \in Nat /\ Step > 0 /\ Axis(Width) /\ Axis(Height)
BY GridAssumption DEF Axis

LEMMA Extent ==
  ASSUME NEW size, Axis(size)
  PROVE  /\ Length(size) \in Nat /\ Length(size) >= 1 /\ size = Step * Length(size)
         /\ size - Step = Step * (Length(size) - 1) /\ size - Step \in Nat
<1>1. size \in Nat /\ size > 0 /\ size % Step = 0
  BY DEF Axis
<1>2. Length(size) \in Int /\ size = Step * Length(size)
  BY <1>1, Steps DEF Length
<1>3. Length(size) >= 1
  BY <1>1, <1>2, Steps
<1>4. QED
  BY <1>1, <1>2, <1>3, Steps

LEMMA Ordered ==
  ASSUME NEW a \in Int, NEW b \in Int
  PROVE  /\ a <= b <=> Step * a <= Step * b
         /\ Step * a = Step * b <=> a = b
<1>1. a <= b => Step * a <= Step * b
  BY Steps
<1>2. b < a => Step * b < Step * a
  BY Steps
<1>3. a < b => Step * a < Step * b
  BY Steps
<1>4. QED
  BY <1>1, <1>2, <1>3, Steps

\* From the number of a cell to its coordinate and back.
LEMMA CellAt ==
  ASSUME NEW size, Axis(size), NEW k \in 0..(Length(size) - 1)
  PROVE  Step * k \in Cells(size)
<1>1. Step * k \in Nat /\ (Step * k) % Step = 0
  BY Steps
<1>2. Step * k <= size - Step
  BY Extent, Ordered
<1>3. QED
  BY <1>1, <1>2, Extent DEF Cells

LEMMA NumberOf ==
  ASSUME NEW size, Axis(size), NEW c \in Cells(size)
  PROVE  \E k \in 0..(Length(size) - 1) : c = Step * k
<1>1. c \in Nat /\ c <= size - Step /\ c % Step = 0
  BY Extent DEF Cells
<1>2. PICK k \in Int : c = Step * k
  BY <1>1, Steps
<1>3. 0 <= k
  BY <1>1, <1>2, Steps, Ordered
<1>4. k <= Length(size) - 1
  BY <1>1, <1>2, Extent, Ordered
<1>5. QED
  BY <1>2, <1>3, <1>4, Extent

LEMMA CellsAreNatural ==
  ASSUME NEW size, Axis(size), NEW c \in Cells(size)
  PROVE  c \in Nat /\ c <= size - Step
BY Extent DEF Cells

LEMMA Neighbours ==
  ASSUME NEW k \in Int
  PROVE  Step * k + Step = Step * (k + 1) /\ Step * k - Step = Step * (k - 1)
BY Steps

-----------------------------------------------------------------------------
(***************************************************************************)
(* Readings, steps and keys.                                               *)
(***************************************************************************)
LEMMA ClampedNeighbour ==
  ASSUME NEW size, Axis(size), NEW c \in Cells(size), NEW d \in {-Step, 0, Step}
  PROVE  /\ Clamp(c + d, 0, size - Step) \in Cells(size)
         /\ Clamp(c + d, 0, size - Step) \in {c - Step, c, c + Step}
<1>1. PICK k \in 0..(Length(size) - 1) : c = Step * k
  BY NumberOf
<1>2. PICK j \in {k - 1, k, k + 1} : c + d = Step * j
  BY <1>1, Steps, Neighbours
<1>3. k \in Int /\ j \in Int /\ Length(size) \in Nat /\ size - Step = Step * (Length(size) - 1)
  BY <1>1, <1>2, Extent
<1>4. CASE j \in 0..(Length(size) - 1)
  <2>1. 0 <= Step * j /\ Step * j <= size - Step
    BY <1>3, <1>4, Steps, Ordered
  <2>2. Clamp(c + d, 0, size - Step) = c + d
    BY <1>2, <1>3, <2>1, Steps DEF Clamp
  <2>3. QED
    BY <1>2, <1>4, <2>2, CellAt, CellsAreNatural, Steps
<1>5. CASE j = -1
  <2>1. c = 0 /\ c + d < 0 /\ d = -Step
    BY <1>1, <1>2, <1>5, Steps
  <2>2. Clamp(c + d, 0, size - Step) = 0
    BY <2>1 DEF Clamp
  <2>3. QED
    BY <2>1, <2>2
<1>6. CASE j = Length(size)
  <2>1. k = Length(size) - 1
    BY <1>1, <1>2, <1>3, <1>6
  <2>2. c = size - Step /\ c + d > size - Step
    BY <1>1, <1>2, <1>3, <1>6, <2>1, Steps, Neighbours
  <2>3. Clamp(c + d, 0, size - Step) = size - Step
    BY <2>2, Extent, Steps DEF Clamp
  <2>4. QED
    BY <2>2, <2>3
<1>7. QED
  BY <1>1, <1>2, <1>3, <1>4, <1>5, <1>6

\* A reading is a cell of the room, at most one cell away along each axis.
LEMMA ReadingInRoom ==
  ASSUME NEW p \in Room, NEW d \in Directions
  PROVE  /\ Reading(p, d) \in Room
         /\ Reading(p, d).x \in {p.x - Step, p.x, p.x + Step}
         /\ Reading(p, d).y \in {p.y - Step, p.y, p.y + Step}
<1>1. p.x \in Cells(Width) /\ p.y \in Cells(Height)
  BY DEF Room
<1>2. d.x \in {-Step, 0, Step} /\ d.y \in {-Step, 0, Step}
  BY DEF Directions, Vector
<1>3. /\ Reading(p, d).x = Clamp(p.x + d.x, 0, Width - Step)
      /\ Reading(p, d).y = Clamp(p.y + d.y, 0, Height - Step)
      /\ Reading(p, d) = [x |-> Reading(p, d).x, y |-> Reading(p, d).y]
  BY DEF Reading, Saturate, Vector
<1>4. QED
  BY <1>1, <1>2, <1>3, ClampedNeighbour, Steps DEF Room

LEMMA StepAxisInCells ==
  ASSUME NEW size, Axis(size), NEW from \in Cells(size), NEW to \in Cells(size)
  PROVE  /\ StepAxis(from, to, size) \in Cells(size)
         /\ StepAxis(from, to, size) - from \in -Step..Step
<1>1. PICK k \in 0..(Length(size) - 1) : from = Step * k
  BY NumberOf
<1>2. PICK j \in 0..(Length(size) - 1) : to = Step * j
  BY NumberOf
<1>3. from \in Nat /\ to \in Nat /\ from <= size - Step /\ to <= size - Step
  BY CellsAreNatural
<1>4. CASE to - from \in -Step..Step
  BY <1>3, <1>4, Steps, Extent DEF StepAxis, Clamp
<1>5. CASE to - from > Step
  <2>1. StepAxis(from, to, size) = from + Step
    BY <1>3, <1>5, Steps, Extent DEF StepAxis, Clamp
  <2>2. from + Step = Step * (k + 1)
    BY <1>1, Neighbours
  <2>3. k + 1 <= j
    BY <1>1, <1>2, <1>3, <1>5, <2>2, Steps, Ordered
  <2>4. from + Step \in Cells(size)
    BY <1>1, <1>2, <2>2, <2>3, Extent, CellAt
  <2>5. QED
    BY <1>3, <2>1, <2>4, Steps
<1>6. CASE from - to > Step
  <2>1. StepAxis(from, to, size) = from - Step
    BY <1>3, <1>6, Steps, Extent DEF StepAxis, Clamp
  <2>2. from - Step = Step * (k - 1)
    BY <1>1, Neighbours
  <2>3. j <= k - 1
    BY <1>1, <1>2, <1>3, <1>6, <2>2, Steps, Ordered
  <2>4. from - Step \in Cells(size)
    BY <1>1, <1>2, <2>2, <2>3, Extent, CellAt
  <2>5. QED
    BY <1>3, <2>1, <2>4, Steps
<1>7. QED
  BY <1>3, <1>4, <1>5, <1>6, Steps

\* clampedSetPosition ends on the grid, at most one cell away along each axis.
LEMMA ClampedStepInRoom ==
  ASSUME NEW p \in Room, NEW target \in Room
  PROVE  /\ ClampedStep(p, target) \in Room
         /\ ClampedStep(p, target).x - p.x \in -Step..Step
         /\ ClampedStep(p, target).y - p.y \in -Step..Step
<1>1. /\ p.x \in Cells(Width) /\ p.y \in Cells(Height)
      /\ target.x \in Cells(Width) /\ target.y \in Cells(Height)
  BY DEF Room
<1>2. /\ ClampedStep(p, target).x = StepAxis(p.x, target.x, Width)
      /\ ClampedStep(p, target).y = StepAxis(p.y, target.y, Height)
      /\ ClampedStep(p, target) = [x |-> ClampedStep(p, target).x, y |-> ClampedStep(p, target).y]
  BY DEF ClampedStep, Vector
<1>3. QED
  BY <1>1, <1>2, StepAxisInCells, Steps DEF Room

\* The arrow keys lead over the edge to the cell on the other side.
LEMMA WrapAxisInCells ==
  ASSUME NEW size, Axis(size), NEW c \in Cells(size), NEW d \in {-Step, 0, Step}
  PROVE  WrapAxis(c, d, size) \in Cells(size)
<1>1. PICK k \in 0..(Length(size) - 1) : c = Step * k
  BY NumberOf
<1>2. c \in Nat /\ c <= size - Step /\ size \in Nat /\ size - Step \in Nat
  BY CellsAreNatural, Extent, Steps DEF Axis
<1>3. CASE c + d < 0
  <2>1. c = 0 /\ d = -Step
    <3>1. k = 0
      BY <1>1, <1>2, <1>3, Steps, Neighbours, Ordered
    <3>2. QED
      BY <1>1, <1>2, <1>3, <3>1, Steps
  <2>2. Remainder(c + d, size) = -(Step % size)
    BY <2>1, Steps DEF Remainder
  <2>3. CASE size = Step
    <3>1. Remainder(c + d, size) = 0
      BY <2>2, <2>3, Steps
    <3>2. WrapAxis(c, d, size) = 0
      BY <1>2, <2>3, <3>1, Steps DEF WrapAxis, Remainder
    <3>3. QED
      BY <2>1, <3>2
  <2>4. CASE size # Step
    <3>1. Step < size
      BY <1>2, <2>4, Steps
    <3>2. Remainder(c + d, size) = -Step
      BY <1>2, <2>2, <3>1, Steps
    <3>3. WrapAxis(c, d, size) = size - Step
      BY <1>2, <3>1, <3>2, Steps DEF WrapAxis, Remainder
    <3>4. QED
      BY <3>3, Extent, CellAt
  <2>5. QED
    BY <2>3, <2>4
<1>4. CASE c + d > size - Step
  <2>1. c = size - Step /\ d = Step
    <3>1. size - Step = Step * (Length(size) - 1) /\ Length(size) \in Nat
      BY Extent
    <3>2. k = Length(size) - 1
      <4>1. Step * k + Step > Step * (Length(size) - 1)
        BY <1>1, <1>2, <1>4, <3>1, Steps
      <4>2. Step * (k + 1) > Step * (Length(size) - 1)
        BY <1>1, <4>1, Neighbours
      <4>3. ~(k + 1 <= Length(size) - 1)
        BY <1>1, <3>1, <4>2, Steps, Ordered
      <4>4. QED
        BY <1>1, <3>1, <4>3
    <3>3. QED
      BY <1>1, <1>2, <1>4, <3>1, <3>2, Steps
  <2>2. Remainder(c + d, size) = 0
    BY <1>2, <2>1, Steps DEF Remainder
  <2>3. WrapAxis(c, d, size) = 0
    BY <1>2, <2>2, Steps DEF WrapAxis, Remainder
  <2>4. 0 = Step * 0 /\ 0 \in 0..(Length(size) - 1)
    BY Extent, Steps
  <2>5. QED
    BY <2>3, <2>4, CellAt
<1>5. CASE c + d \in 0..(size - Step)
  <2>1. Remainder(c + d, size) = c + d
    BY <1>2, <1>5, Steps DEF Remainder
  <2>2. Remainder(c + d + size, size) = c + d
    BY <1>2, <1>5, Steps DEF Remainder
  <2>3. WrapAxis(c, d, size) = c + d
    BY <2>1, <2>2 DEF WrapAxis
  <2>4. Clamp(c + d, 0, size - Step) = c + d
    BY <1>2, <1>5, Steps DEF Clamp
  <2>5. QED
    <3>1. Clamp(c + d, 0, size - Step) \in Cells(size)
      BY ClampedNeighbour
    <3>2. QED
      BY <2>3, <2>4, <3>1
<1>6. QED
  BY <1>2, <1>3, <1>4, <1>5, Steps

LEMMA WrappedInRoom ==
  ASSUME NEW p \in Room, NEW d \in Directions
  PROVE  Wrapped(p, d) \in Room
<1>1. p.x \in Cells(Width) /\ p.y \in Cells(Height)
  BY DEF Room
<1>2. d.x \in {-Step, 0, Step} /\ d.y \in {-Step, 0, Step}
  BY DEF Directions, Vector
<1>3. Clamp(d.x, -Step, Step) = d.x /\ Clamp(d.y, -Step, Step) = d.y
  BY <1>2, Steps DEF Clamp
<1>4. Wrapped(p, d) = [x |-> WrapAxis(p.x, d.x, Width), y |-> WrapAxis(p.y, d.y, Height)]
  BY <1>3 DEF Wrapped, Vector
<1>5. QED
  BY <1>1, <1>2, <1>4, WrapAxisInCells, Steps DEF Room

-----------------------------------------------------------------------------
(***************************************************************************)
(* The mean of three readings.                                             *)
(***************************************************************************)
LEMMA Division ==
  ASSUME NEW a \in Int, NEW b \in Nat \ {0}
  PROVE  /\ a \div b \in Int /\ a % b \in 0..(b - 1)
         /\ a = b * (a \div b) + (a % b)
<1>1. a \div b \in Int /\ a % b \in 0..(b - 1)
  OBVIOUS
<1>2. a = b * (a \div b) + (a % b)
  OBVIOUS
<1>3. QED
  BY <1>1, <1>2

LEMMA SnapToCell ==
  ASSUME NEW m \in Nat
  PROVE  \E q \in Nat : /\ Snap(m) = Step * q
                        /\ 2 * Step * q <= 2 * m + Step
                        /\ 2 * m + Step < 2 * Step * q + 2 * Step
<1> DEFINE a == 2 * m + Step
           b == 2 * Step
           q == a \div b
           r == a % b
<1>1. a \in Int /\ b \in Nat \ {0}
  BY Steps
<1> HIDE DEF a, b
<1>2. q \in Int /\ r \in 0..(b - 1) /\ a = b * q + r
  BY <1>1, Division
<1> USE DEF a, b
<1> HIDE DEF q, r
<1>3. Step * q \in Int /\ 2 * Step * q = 2 * (Step * q)
  BY <1>2, Steps
<1>4. 2 * m + Step = 2 * (Step * q) + r
  BY <1>2, <1>3
<1>5. 2 * Step * q <= 2 * m + Step /\ 2 * m + Step < 2 * Step * q + 2 * Step
  BY <1>1, <1>2, <1>3, <1>4, Steps
<1>6. 0 <= q
  <2>1. SUFFICES ASSUME q < 0 PROVE FALSE
    BY <1>2
  <2>2. Step * q <= Step * (-1)
    BY <1>2, <2>1, Ordered
  <2>3. QED
    BY <1>3, <1>5, <2>2, Steps
<1>7. Snap(m) = Step * q
  BY DEF Snap, q
<1>8. QED
  BY <1>2, <1>5, <1>6, <1>7

\* What comes out of the rounding is a cell, wherever the sum came from.
LEMMA FuseAxisInCells ==
  ASSUME NEW size, Axis(size), NEW sum \in Nat
  PROVE  FuseAxis(sum, size) \in Cells(size)
<1>1. sum \div NumSources \in Nat
  BY DEF NumSources
<1>2. PICK q \in Nat : Snap(sum \div NumSources) = Step * q
  BY <1>1, SnapToCell
<1>3. Step * q \in Nat /\ size - Step \in Nat
  BY Extent, Steps
<1>4. CASE q <= Length(size) - 1
  <2>1. Step * q <= size - Step
    BY <1>4, Extent, Ordered
  <2>2. FuseAxis(sum, size) = Step * q
    BY <1>2, <1>3, <2>1, Steps DEF FuseAxis, Least, Greatest
  <2>3. QED
    BY <1>4, <2>2, Extent, CellAt
<1>5. CASE q > Length(size) - 1
  <2>1. Step * q >= size - Step
    BY <1>5, Extent, Ordered
  <2>2. FuseAxis(sum, size) = size - Step
    BY <1>2, <1>3, <2>1, Steps DEF FuseAxis, Least, Greatest
  <2>3. QED
    BY <2>2, Extent, CellAt
<1>6. QED
  BY <1>4, <1>5, Extent

LEMMA SumsAreNatural ==
  ASSUME NEW readings \in [Sources -> Room]
  PROVE  /\ Total([s \in Sources |-> readings[s].x]) \in Nat
         /\ Total([s \in Sources |-> readings[s].y]) \in Nat
<1>1. \A s \in Sources : readings[s].x \in Nat /\ readings[s].y \in Nat
  BY CellsAreNatural, Steps DEF Room
<1>2. QED
  BY <1>1 DEF Total, Sources

LEMMA FuseInRoom ==
  ASSUME NEW readings \in [Sources -> Room]
  PROVE  Fuse(readings) \in Room
BY SumsAreNatural, FuseAxisInCells, Steps DEF Fuse, Vector, Room

\* The cell of the mean is the number a third of the sum of numbers is nearest
\* to; with a step of one pixel the integer division would spoil this.
LEMMA SnapVotes ==
  ASSUME Step > 1, NEW j \in Nat
  PROVE  \E q \in Nat : /\ Snap((Step * j) \div NumSources) = Step * q
                        /\ j \in {3 * q - 1, 3 * q, 3 * q + 1}
<1> DEFINE m == (Step * j) \div NumSources
<1>1. Step * j \in Nat
  BY Steps
<1>2. m \in Nat /\ 3 * m <= Step * j /\ Step * j <= 3 * m + 2
  BY <1>1 DEF NumSources
<1> HIDE DEF m
<1>3. PICK q \in Nat : /\ Snap(m) = Step * q
                       /\ 2 * Step * q <= 2 * m + Step
                       /\ 2 * m + Step < 2 * Step * q + 2 * Step
  BY <1>2, SnapToCell
<1> DEFINE a == Step * j
<1> DEFINE c == Step * q
<1>4. a \in Nat /\ c \in Nat /\ 2 * Step * q = 2 * c
  BY <1>1, Steps
<1>5. 2 * a >= 6 * c - 3 * Step /\ 2 * a <= 6 * c + 3 * Step + 1
  BY <1>2, <1>3, <1>4, Steps
<1>6. 2 * a = Step * (2 * j) /\ 6 * c = Step * (6 * q) /\ 3 * Step = Step * 3
  BY Steps
<1>7. 2 * a - 6 * c = Step * (2 * j - 6 * q)
  BY <1>6, Steps
<1>8. 2 * j - 6 * q <= 3
  <2>1. SUFFICES ASSUME 2 * j - 6 * q >= 4 PROVE FALSE
    OBVIOUS
  <2>2. Step * (2 * j - 6 * q) >= Step * 4
    BY <2>1, Ordered
  <2>3. QED
    BY <1>4, <1>5, <1>7, <2>2, Steps
<1>9. 2 * j - 6 * q >= -3
  <2>1. SUFFICES ASSUME 2 * j - 6 * q <= -4 PROVE FALSE
    OBVIOUS
  <2>2. Step * (2 * j - 6 * q) <= Step * (-4)
    BY <2>1, Ordered
  <2>3. QED
    BY <1>4, <1>5, <1>7, <2>2, Steps
<1>10. j \in {3 * q - 1, 3 * q, 3 * q + 1}
  BY <1>8, <1>9
<1>11. QED
  BY <1>3, <1>10 DEF m

LEMMA FuseAxisVotes ==
  ASSUME Step > 1, NEW size, Axis(size), NEW j \in 0..(3 * (Length(size) - 1))
  PROVE  \E q \in 0..(Length(size) - 1) :
           /\ FuseAxis(Step * j, size) = Step * q
           /\ j \in {3 * q - 1, 3 * q, 3 * q + 1}
<1>1. PICK q \in Nat : /\ Snap((Step * j) \div NumSources) = Step * q
                       /\ j \in {3 * q - 1, 3 * q, 3 * q + 1}
  BY SnapVotes
<1>2. q <= Length(size) - 1
  BY <1>1, Extent
<1>3. 0 <= Step * q /\ Step * q <= size - Step
  BY <1>2, Extent, Ordered, Steps
<1>4. FuseAxis(Step * j, size) = Step * q
  BY <1>1, <1>3, Extent, Steps DEF FuseAxis, Least, Greatest
<1>5. QED
  BY <1>1, <1>2, <1>4, Extent

\* The sum of three cells of an axis is a number of grid steps.
LEMMA SumNumber ==
  ASSUME NEW size, Axis(size), NEW f \in [Sources -> Cells(size)]
  PROVE  \E j \in 0..(3 * (Length(size) - 1)) : Total(f) = Step * j
<1>1. f[0] \in Cells(size) /\ f[1] \in Cells(size) /\ f[2] \in Cells(size)
  BY DEF Sources
<1>2. PICK i \in 0..(Length(size) - 1) : f[0] = Step * i
  BY <1>1, NumberOf
<1>3. PICK j \in 0..(Length(size) - 1) : f[1] = Step * j
  BY <1>1, NumberOf
<1>4. PICK k \in 0..(Length(size) - 1) : f[2] = Step * k
  BY <1>1, NumberOf
<1>5. Total(f) = Step * (i + j + k)
  BY <1>2, <1>3, <1>4, Steps DEF Total
<1>6. i + j + k \in 0..(3 * (Length(size) - 1))
  BY Extent
<1>7. QED
  BY <1>5, <1>6

\* Each axis of a mean.
LEMMA AxesOfMean ==
  ASSUME NEW readings \in [Sources -> Room]
  PROVE  /\ [s \in Sources |-> readings[s].x] \in [Sources -> Cells(Width)]
         /\ [s \in Sources |-> readings[s].y] \in [Sources -> Cells(Height)]
         /\ Fuse(readings).x = FuseAxis(Total([s \in Sources |-> readings[s].x]), Width)
         /\ Fuse(readings).y = FuseAxis(Total([s \in Sources |-> readings[s].y]), Height)
BY DEF Room, Fuse, Vector
=============================================================================
