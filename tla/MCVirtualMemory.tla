--------------------------- MODULE MCVirtualMemory ---------------------------
(* Pages of four bytes, four of them in a table.  The identity mapping is of
   three tables, twelve pages, and the heap has the upper nine of these: one is
   the kernel's, four are taken by virtualinit, and four are left for two more
   tables, for frames, and for allocations of one block or two by initNIC. *)
EXTENDS VirtualMemory

MCRequests == {4, 5}
=============================================================================
