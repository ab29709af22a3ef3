-------------------------------- MODULE Grid --------------------------------
(***************************************************************************)
(* The arithmetic of positions: room, grid, and what source.cpp,           *)
(* processor.cpp, robot.cpp and backendcontroller.cpp compute with them.   *)
(* A position is a Vector2D without its tags.                              *)
(***************************************************************************)
EXTENDS Integers

CONSTANTS
  Step,     \* GRID_STEP, which is also POSITION_DELTA and KEY_MOVEMENT
  Width,    \* ROOM_WIDTH
  Height    \* ROOM_HEIGHT

ASSUME GridAssumption ==
  /\ Step \in Nat \ {0}
  /\ Width \in Nat \ {0} /\ Width % Step = 0
  /\ Height \in Nat \ {0} /\ Height % Step = 0

Sources == {0, 1, 2}   \* NUM_SOURCES = 3
NumSources == 3

Vector(x, y) == [x |-> x, y |-> y]

\* The coordinates on the grid along an axis of the given length.
Cells(size) == {c \in 0..(size - Step) : c % Step = 0}

\* The positions at which a robot may be, and generateRandomPosition.
Room == [x : Cells(Width), y : Cells(Height)]

Least(a, b) == IF a < b THEN a ELSE b
Greatest(a, b) == IF a < b THEN b ELSE a

\* std::clamp
Clamp(v, lo, hi) == IF v < lo THEN lo ELSE IF hi < v THEN hi ELSE v

-----------------------------------------------------------------------------
(***************************************************************************)
(* Source::produce: one step right, left, down or up, kept in the room.    *)
(***************************************************************************)
Directions == {Vector(Step, 0), Vector(-Step, 0), Vector(0, Step), Vector(0, -Step)}

Saturate(p) == Vector(Clamp(p.x, 0, Width - Step), Clamp(p.y, 0, Height - Step))

Reading(p, d) == Saturate(Vector(p.x + d.x, p.y + d.y))

-----------------------------------------------------------------------------
(***************************************************************************)
(* Processor::tryComputeMean.  Sums of readings are not negative, so C++'s *)
(* division is \div, and std::round rounds a half up.                      *)
(***************************************************************************)
Total(f) == f[0] + f[1] + f[2]

Snap_Slip(m) == Step * (m \div Step)   \* truncates

Snap_Up(m) == Step * ((m + Step - 1) \div Step)   \* rounds up

Snap(m) == Step * ((2 * m + Step) \div (2 * Step))

FuseAxis_Slip(sum, size) == sum \div NumSources   \* does not snap

FuseAxis(sum, size) ==
  Greatest(0, Least(Snap(sum \div NumSources), size - Step))

Fuse(readings) ==
  Vector(FuseAxis(Total([s \in Sources |-> readings[s].x]), Width),
         FuseAxis(Total([s \in Sources |-> readings[s].y]), Height))

-----------------------------------------------------------------------------
(***************************************************************************)
(* Robot::clampedSetPosition                                               *)
(***************************************************************************)
StepAxis_Slip(from, to, size) ==   \* the difference the wrong way round
  Clamp(from + Clamp(from - to, -Step, Step), 0, size - Step)

StepAxis(from, to, size) ==
  Clamp(from + Clamp(to - from, -Step, Step), 0, size - Step)

ClampedStep(p, target) ==
  Vector(StepAxis(p.x, target.x, Width), StepAxis(p.y, target.y, Height))

(***************************************************************************)
(* moveSelectedRobot: ((c + d) % size + size) % size with C++'s remainder, *)
(* which has the sign of the dividend.                                     *)
(***************************************************************************)
Remainder(a, m) == IF a < 0 THEN -((-a) % m) ELSE a % m

WrapAxis_Slip(c, d, size) == Remainder(c + d, size)   \* one modulo

WrapAxis(c, d, size) == Remainder(Remainder(c + d, size) + size, size)

Wrapped(p, d) == Vector(WrapAxis(p.x, Clamp(d.x, -Step, Step), Width),
                        WrapAxis(p.y, Clamp(d.y, -Step, Step), Height))
=============================================================================
