-------------------------- MODULE MCPhysicalMemory --------------------------
(* A heap of six blocks of four bytes; three bytes more are too few for another
   block, as at the end of the real heap ((0xFFFFFF - 0x100000) is no multiple
   of 4096).  The kernel takes a block and a half, and callers ask for nothing,
   one byte, exactly a block, a byte more, and three blocks. *)
EXTENDS PhysicalMemory

MCRequests == {0, 1, 4, 5, 12}
=============================================================================
