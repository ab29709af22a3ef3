------------------------------ MODULE MCBuffer ------------------------------
(***************************************************************************)
(* Buffer as the program shares it, cut down: one source thread that only  *)
(* tries, one thread that uses the blocking put, the processor thread and  *)
(* the GUI thread, which both take and also looks.                         *)
(***************************************************************************)
EXTENDS Buffer

CONSTANTS source, writer, processor, gui

MCThreads == {source, writer, processor, gui}

MCUses ==
  [t \in MCThreads |->
     CASE t = source -> {"tryPut"}
       [] t = writer -> {"put"}
       [] t = processor -> {"take", "tryTake"}
       [] t = gui -> {"tryTake", "inspect"}]
=============================================================================
