------------------------------ MODULE Pipeline ------------------------------
(***************************************************************************)
(* What becomes of a reading, with nothing of the buffer, its timeouts and *)
(* retries, or of where threads are: it is in flight from produce() until  *)
(* one consumer inserts it into the matrix, and only the shutdown may drop *)
(* it; a full row is emptied and moves its robot once.  Backend is shown   *)
(* to implement this; Motion adds the positions, for one robot.            *)
(***************************************************************************)
EXTENDS Naturals

CONSTANTS
  Sources, Robots,
  Consumers,   \* the threads that insert readings
  Nobody       \* "no robot"

Readings == [source : Sources, robot : Robots]

VARIABLES
  open,     \* the shutdown has not begun
  flight,   \* flight[v]: how many readings v are in flight
  matrix,   \* matrix[r]: the sources whose reading is in row r
  target    \* target[t]: the robot that consumer t is about to move

Init ==
  /\ open = TRUE
  /\ flight = [v \in Readings |-> 0]
  /\ matrix = [r \in Robots |-> {}]
  /\ target = [t \in Consumers |-> Nobody]

\* The first conjunct follows from the second and is quicker to refute.
Count(v, n) == flight'[v] = n /\ flight' = [flight EXCEPT ![v] = n]

Land(v) == flight[v] > 0 /\ Count(v, flight[v] - 1)

Produce(v) ==
  /\ open
  /\ UNCHANGED <<open, matrix, target>>
  /\ Count(v, flight[v] + 1)

\* A source gives up a reading for which there was no room.
Drop(v) == ~open /\ UNCHANGED <<open, matrix, target>> /\ Land(v)

Insert(t, v) ==
  /\ target[t] = Nobody
  /\ LET row == matrix[v.robot] \cup {v.source}
     IN  IF row = Sources
           THEN /\ matrix' = [matrix EXCEPT ![v.robot] = {}]
                /\ target' = [target EXCEPT ![t] = v.robot]
           ELSE /\ matrix' = [matrix EXCEPT ![v.robot] = row]
                /\ UNCHANGED target
  /\ UNCHANGED open
  /\ Land(v)

Move(t) ==
  /\ target[t] # Nobody
  /\ target' = [target EXCEPT ![t] = Nobody]
  /\ UNCHANGED <<open, matrix, flight>>

Close == open /\ open' = FALSE /\ UNCHANGED <<matrix, target, flight>>

Next ==
  \/ \E v \in Readings : Produce(v) \/ Drop(v) \/ \E t \in Consumers : Insert(t, v)
  \/ \E t \in Consumers : Move(t)
  \/ Close

Spec == Init /\ [][Next]_<<open, matrix, target, flight>>
=============================================================================
