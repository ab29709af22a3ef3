----------------------------- MODULE Lifecycle -----------------------------
(***************************************************************************)
(* What BackendController promises about its threads, with nothing of what *)
(* they do: they are started one after the other, none stops before it is  *)
(* told to, and the controller is gone only when none is left.  Backend is *)
(* shown to implement this.                                                *)
(***************************************************************************)
CONSTANT Workers   \* the threads the controller owns

VARIABLES
  phase,   \* "starting", "serving", "stopping" or "gone"
  born,    \* the workers that have been started
  alive    \* those of them that have not returned yet

Init == phase = "starting" /\ born = {} /\ alive = {}

\* The constructor; with the last worker it is done.
Start(w) ==
  /\ phase = "starting" /\ w \notin born
  /\ born' = born \cup {w}
  /\ alive' = alive \cup {w}
  /\ phase' = IF born' = Workers THEN "serving" ELSE "starting"

\* The destructor begins.
Close == phase = "serving" /\ phase' = "stopping" /\ UNCHANGED <<born, alive>>

Stop(w) ==
  /\ phase = "stopping" /\ w \in alive
  /\ alive' = alive \ {w}
  /\ UNCHANGED <<phase, born>>

\* It ends, and the members are destroyed.
Destroy == phase = "stopping" /\ alive = {} /\ phase' = "gone" /\ UNCHANGED <<born, alive>>

Next == (\E w \in Workers : Start(w) \/ Stop(w)) \/ Close \/ Destroy

Spec == Init /\ [][Next]_<<phase, born, alive>>
=============================================================================
