-------------------------- MODULE ProcessorProofs --------------------------
(***************************************************************************)
(* The mean is the nearest cell, favours no side and votes: for every room *)
(* and every grid step of more than one pixel.  (With a step of one pixel  *)
(* the integer division drops what the rounding needs: of 0, 1 and 1 the   *)
(* mean would be 0.)                                                       *)
(***************************************************************************)
EXTENDS Processor, GridProofs

\* A mean is what Fuse makes of one reading of each source.
Cycle ==
  result # Empty =>
    /\ result.of \in [Sources -> Room]
    /\ result.mean = Fuse(result.of)
    /\ row = [c \in Sources |-> Empty]

Rows == row \in [Sources -> Room \cup {Empty}] /\ ~Complete(row)

PInv == Rows /\ Cycle

LEMMA CallKeeps == ASSUME PInv, NEW s \in Sources, NEW p \in Room, insertAndProcess(s, p)
                   PROVE  PInv'
<1> DEFINE cells == WithReading(s, p)
<1>1. cells \in [Sources -> Room \cup {Empty}]
  BY DEF PInv, Rows, WithReading
<1>2. CASE Complete(cells)
  <2>1. cells \in [Sources -> Room]
    BY <1>1, <1>2 DEF Complete
  <2>2. /\ row' = [c \in Sources |-> Empty]
        /\ result' = [mean |-> Fuse(cells), of |-> cells]
    BY <1>2 DEF insertAndProcess, resetRow
  <2>3. ~Complete(row')
    BY <2>2 DEF Complete, Sources
  <2>4. QED
    BY <2>1, <2>2, <2>3 DEF PInv, Rows, Cycle, Complete
<1>3. CASE ~Complete(cells)
  <2>1. row' = cells /\ result' = Empty
    BY <1>3 DEF insertAndProcess
  <2>2. QED
    BY <1>1, <1>3, <2>1 DEF PInv, Rows, Cycle, Complete
<1>4. QED
  BY <1>2, <1>3

THEOREM Inductive == Spec => []PInv
<1>1. Init => PInv
  BY DEF Init, PInv, Rows, Cycle, Complete, Sources
<1>2. PInv /\ [Next]_vars => PInv'
  <2> SUFFICES ASSUME PInv, [Next]_vars PROVE PInv'
    OBVIOUS
  <2>1. CASE UNCHANGED vars
    BY <2>1 DEF vars, PInv, Rows, Cycle, Complete
  <2>2. QED
    BY <2>1, CallKeeps DEF Next
<1>3. QED
  BY <1>1, <1>2, PTL DEF Spec

\* The row is never complete between two calls, a mean is a cell of the room.
THEOREM TypeCorrect == Spec => []TypeOK
<1>1. PInv => TypeOK
  BY FuseInRoom DEF PInv, Rows, Cycle, TypeOK
<1>2. QED
  BY <1>1, Inductive, PTL

-----------------------------------------------------------------------------
LEMMA NearestOnAxis ==
  ASSUME Step > 1, NEW size, Axis(size), NEW f \in [Sources -> Cells(size)]
  PROVE  NearestAxis(FuseAxis(Total(f), size), Total(f), size)
<1>1. PICK j \in 0..(3 * (Length(size) - 1)) : Total(f) = Step * j
  BY SumNumber
<1>2. PICK q \in 0..(Length(size) - 1) :
        FuseAxis(Step * j, size) = Step * q /\ j \in {3 * q - 1, 3 * q, 3 * q + 1}
  BY FuseAxisVotes
<1>3. SUFFICES ASSUME NEW d \in Cells(size)
               PROVE  Distance(3 * (Step * q), Step * j) <= Distance(3 * d, Step * j)
  BY <1>1, <1>2 DEF NearestAxis, NumSources
<1>4. PICK k \in 0..(Length(size) - 1) : d = Step * k
  BY NumberOf
<1>5. j \in Int /\ q \in Int /\ k \in Int
  BY Extent
<1>6. 3 * (Step * q) - Step * j \in {-Step, 0, Step}
  <2>1. 3 * (Step * q) - Step * j = Step * (3 * q - j)
    BY <1>5, Steps
  <2>2. 3 * q - j \in {-1, 0, 1}
    BY <1>2, <1>5
  <2>3. QED
    BY <2>1, <2>2, Steps
<1>7. CASE k = q
  BY <1>4, <1>5, <1>7, Steps DEF Distance
<1>8. CASE k > q
  <2>1. Step * j + Step <= 3 * (Step * k)
    <3>1. j + 1 <= 3 * k
      BY <1>2, <1>5, <1>8
    <3>2. Step * (j + 1) <= Step * (3 * k)
      BY <1>5, <3>1, Ordered
    <3>3. QED
      BY <1>5, <3>2, Steps
  <2>2. QED
    BY <1>4, <1>5, <1>6, <2>1, Steps DEF Distance
<1>9. CASE k < q
  <2>1. 3 * (Step * k) <= Step * j - Step
    <3>1. 3 * k <= j - 1
      BY <1>2, <1>5, <1>9
    <3>2. Step * (3 * k) <= Step * (j - 1)
      BY <1>5, <3>1, Ordered
    <3>3. QED
      BY <1>5, <3>2, Steps
  <2>2. QED
    BY <1>4, <1>5, <1>6, <2>1, Steps DEF Distance
<1>10. QED
  BY <1>5, <1>7, <1>8, <1>9

\* Both roundings together give the cell nearest to the exact mean.
THEOREM Nearest == ASSUME Step > 1 PROVE Spec => []NearestCell
<1>1. PInv => NearestCell
  BY NearestOnAxis, AxesOfMean, Steps DEF PInv, Cycle, NearestCell
<1>2. QED
  BY <1>1, Inductive, PTL

-----------------------------------------------------------------------------
\* Mirrored readings have a mirrored sum, and no sum of cells lies half-way.
LEMMA MirrorOnAxis ==
  ASSUME Step > 1, NEW size, Axis(size), NEW f \in [Sources -> Cells(size)]
  PROVE  FuseAxis(Total([s \in Sources |-> size - Step - f[s]]), size)
           = size - Step - FuseAxis(Total(f), size)
<1> DEFINE last == Length(size) - 1
<1>1. PICK j \in 0..(3 * last) : Total(f) = Step * j
  BY SumNumber
<1>2. last \in Nat /\ size - Step = Step * last /\ j \in Int
  BY Extent
<1>3. f[0] \in Nat /\ f[1] \in Nat /\ f[2] \in Nat
  BY CellsAreNatural DEF Sources
<1>4. Total([s \in Sources |-> size - Step - f[s]]) = 3 * (size - Step) - Total(f)
  BY <1>2, <1>3, Steps DEF Total, Sources
<1>5. Total([s \in Sources |-> size - Step - f[s]]) = Step * (3 * last - j)
  BY <1>1, <1>2, <1>4, Steps
<1>6. 3 * last - j \in 0..(3 * last)
  BY <1>1, <1>2
<1>7. PICK q \in 0..last :
        FuseAxis(Step * j, size) = Step * q /\ j \in {3 * q - 1, 3 * q, 3 * q + 1}
  BY FuseAxisVotes
<1>8. PICK r \in 0..last :
        /\ FuseAxis(Step * (3 * last - j), size) = Step * r
        /\ 3 * last - j \in {3 * r - 1, 3 * r, 3 * r + 1}
  BY <1>6, FuseAxisVotes
<1>9. r = last - q
  BY <1>2, <1>7, <1>8
<1>10. Step * r = Step * last - Step * q
  BY <1>2, <1>7, <1>9, Steps
<1>11. QED
  BY <1>1, <1>2, <1>5, <1>7, <1>8, <1>10

\* Rounding favours neither side of the room.
THEOREM Unbiased == ASSUME Step > 1 PROVE Spec => []NoDrift
<1>1. ASSUME NEW of \in [Sources -> Room]
      PROVE  Fuse([s \in Sources |-> Mirror(of[s])]) = Mirror(Fuse(of))
  <2> DEFINE mirrored == [s \in Sources |-> Mirror(of[s])]
             fx == [s \in Sources |-> of[s].x]
             fy == [s \in Sources |-> of[s].y]
  <2>1. fx \in [Sources -> Cells(Width)] /\ fy \in [Sources -> Cells(Height)]
    BY DEF Room
  <2>2. /\ [s \in Sources |-> mirrored[s].x] = [s \in Sources |-> Width - Step - fx[s]]
        /\ [s \in Sources |-> mirrored[s].y] = [s \in Sources |-> Height - Step - fy[s]]
    BY DEF Mirror, Vector
  <2>3. /\ Fuse(mirrored).x = Width - Step - Fuse(of).x
        /\ Fuse(mirrored).y = Height - Step - Fuse(of).y
    BY <2>1, <2>2, MirrorOnAxis, Steps DEF Fuse, Vector
  <2>4. QED
    BY <2>3 DEF Fuse, Mirror, Vector
<1>2. PInv => NoDrift
  BY <1>1 DEF PInv, Cycle, NoDrift
<1>3. QED
  BY <1>2, Inductive, PTL

LEMMA VoteOnAxis ==
  ASSUME Step > 1, NEW size, Axis(size), NEW b \in Cells(size),
         NEW f \in [Sources -> Cells(size)],
         \A s \in Sources : f[s] \in {b - Step, b, b + Step}
  PROVE  FuseAxis(Total(f), size) = b + VoteAxis(Total(f) - NumSources * b)
<1>1. PICK j \in 0..(3 * (Length(size) - 1)) : Total(f) = Step * j
  BY SumNumber
<1>2. PICK q \in 0..(Length(size) - 1) :
        FuseAxis(Step * j, size) = Step * q /\ j \in {3 * q - 1, 3 * q, 3 * q + 1}
  BY FuseAxisVotes
<1>3. PICK k \in 0..(Length(size) - 1) : b = Step * k
  BY NumberOf
<1>4. j \in Int /\ q \in Int /\ k \in Int /\ b \in Nat
  BY Extent, CellsAreNatural
<1>5. Total(f) - NumSources * b = Step * (j - 3 * k)
  BY <1>1, <1>3, <1>4, Steps DEF NumSources
<1>6. j - 3 * k \in -3..3
  <2>1. Total(f) - 3 * b \in (-3 * Step)..(3 * Step)
    BY <1>4, Steps DEF Total, Sources
  <2>2. Step * (-3) <= Step * (j - 3 * k) /\ Step * (j - 3 * k) <= Step * 3
    BY <1>4, <1>5, <2>1, Steps DEF NumSources
  <2>3. QED
    BY <1>4, <2>2, Ordered
<1>7. CASE j - 3 * k >= 2
  <2>1. q = k + 1 /\ Step * q = b + Step
    BY <1>2, <1>3, <1>4, <1>6, <1>7, Neighbours
  <2>2. Step * (j - 3 * k) >= 2 * Step
    BY <1>4, <1>7, Steps
  <2>3. QED
    BY <1>1, <1>2, <1>5, <2>1, <2>2 DEF VoteAxis
<1>8. CASE j - 3 * k <= -2
  <2>1. q = k - 1 /\ Step * q = b - Step
    BY <1>2, <1>3, <1>4, <1>6, <1>8, Neighbours
  <2>2. Step * (j - 3 * k) <= -2 * Step
    BY <1>4, <1>8, Steps
  <2>3. QED
    BY <1>1, <1>2, <1>4, <1>5, <2>1, <2>2, Steps DEF VoteAxis
<1>9. CASE j - 3 * k \in {-1, 0, 1}
  <2>1. q = k /\ Step * q = b
    BY <1>2, <1>3, <1>4, <1>9
  <2>2. Step * (j - 3 * k) \in {-Step, 0, Step}
    BY <1>4, <1>9, Steps
  <2>3. QED
    BY <1>1, <1>2, <1>4, <1>5, <2>1, <2>2, Steps DEF VoteAxis
<1>10. QED
  BY <1>4, <1>7, <1>8, <1>9

\* Three readings of one position vote on each axis.
THEOREM Majority == ASSUME Step > 1 PROVE Spec => []MajorityMoves
<1>1. ASSUME NEW of \in [Sources -> Room], NEW b \in Room, Votes(b, of)
      PROVE  /\ Fuse(of).x = b.x + VoteAxis(Total([s \in Sources |-> of[s].x]) - NumSources * b.x)
             /\ Fuse(of).y = b.y + VoteAxis(Total([s \in Sources |-> of[s].y]) - NumSources * b.y)
  <2> DEFINE fx == [s \in Sources |-> of[s].x]
             fy == [s \in Sources |-> of[s].y]
  <2>1. \A s \in Sources : fx[s] \in {b.x - Step, b.x, b.x + Step}
                           /\ fy[s] \in {b.y - Step, b.y, b.y + Step}
    BY <1>1, ReadingInRoom DEF Votes
  <2>2. /\ fx \in [Sources -> Cells(Width)] /\ fy \in [Sources -> Cells(Height)]
        /\ b.x \in Cells(Width) /\ b.y \in Cells(Height)
    BY DEF Room
  <2>3. /\ FuseAxis(Total(fx), Width) = b.x + VoteAxis(Total(fx) - NumSources * b.x)
        /\ FuseAxis(Total(fy), Height) = b.y + VoteAxis(Total(fy) - NumSources * b.y)
    BY <2>1, <2>2, VoteOnAxis, Steps
  <2>4. QED
    BY <2>3, AxesOfMean
<1>2. PInv => MajorityMoves
  BY <1>1 DEF PInv, Cycle, MajorityMoves
<1>3. QED
  BY <1>2, Inductive, PTL
=============================================================================
