------------------------------ MODULE MCSystem ------------------------------
(***************************************************************************)
(* System for a program with so many robots and sources.                   *)
(***************************************************************************)
EXTENDS System

MCSources == 0..(NumRobots - 1)

MCThreads == MCSources \cup {processor, gui}

MCUses == [t \in MCThreads |-> IF t \in MCSources THEN {"tryPut"} ELSE {"tryTake"}]

MCReadings == [source : MCSources, robot : MCSources]
=============================================================================
