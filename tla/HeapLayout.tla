----------------------------- MODULE HeapLayout -----------------------------
(***************************************************************************)
(* The constants and the pure helpers of Kernel/memory/physicalmemory.c:   *)
(* how many blocks a byte count takes, where the bitmap has room for them, *)
(* and how an index of the bitmap and an address correspond.               *)
(*                                                                         *)
(* A definition whose comment starts with "Mutant" is not the code's: it   *)
(* is a slip that a property must notice, tried in place of the definition *)
(* that follows it.                                                        *)
(***************************************************************************)
EXTENDS Integers

CONSTANTS
  StartMem,    \* STARTMEM
  EndMem,      \* ENDMEM
  KernelSize,  \* KERNELSIZE
  BlockSize,   \* BLOCKSIZE
  Requests     \* the byte counts that callers pass to kernelmalloc

maxblocks == (EndMem - StartMem) \div BlockSize
kernelblocks == KernelSize \div BlockSize

ASSUME MemoryAssumption ==
  /\ StartMem \in Nat /\ EndMem \in Nat /\ KernelSize \in Nat
  /\ BlockSize \in Nat \ {0}
  /\ StartMem <= EndMem
  /\ kernelblocks <= maxblocks
  /\ Requests \subseteq Nat

Blocks == 0 .. maxblocks - 1
Bitmaps == [Blocks -> {0, 1}]

(* Mutant: the remainder is dropped. *)
calculateblocksFloor(bytes) ==
  IF bytes <= BlockSize THEN 1 ELSE bytes \div BlockSize

(* BLOCKSIZE is subtracted until nothing is left, counting at least once. *)
calculateblocks(bytes) ==
  IF bytes <= BlockSize THEN 1 ELSE (bytes + BlockSize - 1) \div BlockSize

(* Blocks i, ..., i + blocks - 1 exist and are free. *)
Fits(map, i, blocks) ==
  /\ i + blocks <= maxblocks
  /\ \A j \in i .. i + blocks - 1 : map[j] = 0

(* Mutant: the scan stops one block early. *)
findFirstFitShort(map, blocks) ==
  LET fits == {i \in Blocks : i + blocks < maxblocks /\ Fits(map, i, blocks)}
  IN  IF fits = {} THEN -1 ELSE CHOOSE i \in fits : \A k \in fits : i <= k

(* The lowest block from which blocks blocks are free, -1 if there is none. *)
findFirstFit(map, blocks) ==
  LET fits == {i \in Blocks : Fits(map, i, blocks)}
  IN  IF fits = {} THEN -1 ELSE CHOOSE i \in fits : \A k \in fits : i <= k

(* Mutant: i <= blocks in the loop. *)
setbitmapOneMore(map, index, blocks, value) ==
  [i \in Blocks |-> IF i \in index .. index + blocks THEN value ELSE map[i]]

setbitmap(map, index, blocks, value) ==
  [i \in Blocks |-> IF i \in index .. index + blocks - 1 THEN value ELSE map[i]]

(* The address kernelmalloc returns for an index, and its inverse. *)
findoffset(index) == index * BlockSize
address(index) == StartMem + findoffset(index)
findindex(mem) == (mem - StartMem) \div BlockSize

(* What physicalmemoryinit leaves: everything free but the kernel's blocks. *)
initialbitmap == [i \in Blocks |-> IF i < kernelblocks THEN 1 ELSE 0]
=============================================================================
