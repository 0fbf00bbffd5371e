-------------------------- MODULE MCAllocatorLoops --------------------------
(* The heap of MCPhysicalMemory with two requests fewer: nothing at all (one
   block), a byte more than a block (two) and three whole blocks. *)
EXTENDS AllocatorLoops

MCRequests == {0, 5, 12}
=============================================================================
