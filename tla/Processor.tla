----------------------------- MODULE Processor -----------------------------
(***************************************************************************)
(* Processor::insertAndProcess for one robot, one row of the matrix, with  *)
(* the pixel arithmetic of the mean.  The mutex makes each call one step;  *)
(* the rows of other robots are other copies of this module.               *)
(***************************************************************************)
EXTENDS Grid

CONSTANT Empty   \* a cell that is not filled, and "no mean was computed"

VARIABLES
  row,       \* row[s]: the reading in the cell of source s, or Empty
  result     \* what the last call returned: its mean and the readings used

vars == <<row, result>>

Init ==
  /\ row = [s \in Sources |-> Empty]
  /\ result = Empty

WithReading(s, p) == [row EXCEPT ![s] = p]

Complete(cells) == \A s \in Sources : cells[s] # Empty

resetRow == [s \in Sources |-> Empty]

insertAndProcess(s, p) ==
  LET cells == WithReading(s, p)
  IN  IF Complete(cells)
        THEN /\ result' = [mean |-> Fuse(cells), of |-> cells]
             /\ row' = resetRow
        ELSE /\ result' = Empty
             /\ row' = cells

Next == \E s \in Sources, p \in Room : insertAndProcess(s, p)

Spec == Init /\ [][Next]_vars

-----------------------------------------------------------------------------
(***************************************************************************)
(* The row holds grid positions and is never complete between two calls;   *)
(* the mean is a grid position inside the room.                            *)
(***************************************************************************)
TypeOK ==
  /\ row \in [Sources -> Room \cup {Empty}]
  /\ ~Complete(row)
  /\ result # Empty => result.mean \in Room

(***************************************************************************)
(* Two divisions that round, one down and one to the nearest, still give   *)
(* the grid position closest to the exact mean (processor.cpp:73-75).      *)
(***************************************************************************)
Distance(a, b) == IF a < b THEN b - a ELSE a - b

NearestAxis(c, sum, size) ==
  \A d \in Cells(size) : Distance(NumSources * c, sum) <= Distance(NumSources * d, sum)

NearestCell ==
  result # Empty =>
    /\ NearestAxis(result.mean.x, Total([s \in Sources |-> result.of[s].x]), Width)
    /\ NearestAxis(result.mean.y, Total([s \in Sources |-> result.of[s].y]), Height)

(***************************************************************************)
(* No drift: seen in a mirror, the readings have the mirrored mean, so     *)
(* rounding favours neither side of the room.                              *)
(***************************************************************************)
Mirror(p) == Vector(Width - Step - p.x, Height - Step - p.y)

NoDrift ==
  result # Empty =>
    Fuse([s \in Sources |-> Mirror(result.of[s])]) = Mirror(result.mean)

(***************************************************************************)
(* Fusion is a vote: of three readings of a robot at b, one source alone   *)
(* never moves it, and two that agree do unless the third objects.         *)
(***************************************************************************)
Votes(b, readings) == \A s \in Sources : \E d \in Directions : readings[s] = Reading(b, d)

VoteAxis(net) == IF net >= 2 * Step THEN Step ELSE IF net <= -2 * Step THEN -Step ELSE 0

MajorityMoves ==
  result # Empty =>
    \A b \in Room : Votes(b, result.of) =>
      /\ result.mean.x = b.x + VoteAxis(Total([s \in Sources |-> result.of[s].x]) - NumSources * b.x)
      /\ result.mean.y = b.y + VoteAxis(Total([s \in Sources |-> result.of[s].y]) - NumSources * b.y)
=============================================================================
