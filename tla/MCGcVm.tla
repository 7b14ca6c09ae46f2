-------------------------------- MODULE MCGcVm --------------------------------
(***************************************************************************)
(* Instances of GcVm for model checking.                                   *)
(***************************************************************************)
EXTENDS GcVm, MCPrograms

\* Programs that allocate, also before main starts, and every opcode and trap
\* in shorter bodies.
GcPrograms ==
  HeapBodies \cup GlobalHeapBodies \cup {Body(b) : b \in [1 .. 2 -> Alphabet]} \cup Rejected
===============================================================================
