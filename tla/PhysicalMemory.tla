--------------------------- MODULE PhysicalMemory ---------------------------
(***************************************************************************)
(* The physical memory manager of Kernel/memory/physicalmemory.c: one      *)
(* bitmap cell per block of BLOCKSIZE bytes, first fit, and a free that    *)
(* recomputes the number of blocks from the byte count its caller repeats. *)
(* Each operation is one step here; AllocatorLoops has the loops inside.   *)
(*                                                                         *)
(* live is not in the code: it is the set of pointers that callers hold,   *)
(* with the byte count they asked for, as recvpacket keeps packet and      *)
(* packetlength and pagefree knows PAGE_SIZE.  A caller frees what it      *)
(* holds, with the size it asked for.                                      *)
(***************************************************************************)
EXTENDS HeapLayout

VARIABLES
  bitmap,      \* bitmap[i] = 1: block i is taken
  ready,       \* physicalmemoryinit has run
  live,        \* records [mem, bytes]: the allocations callers hold
  halted       \* panic has stopped the machine

vars == <<bitmap, ready, live, halted>>

(* bitmap is in .bss, which nothing clears: any content is possible. *)
Init ==
  /\ bitmap \in Bitmaps
  /\ ready = FALSE
  /\ live = {}
  /\ halted = FALSE

physicalmemoryinit ==
  /\ ~ready
  /\ bitmap' = initialbitmap
  /\ ready' = TRUE
  /\ UNCHANGED <<live, halted>>

(* Mutant: the -1 of findFirstFit is not checked. *)
kernelmallocUnchecked(bytes) ==
  LET blocks == calculateblocks(bytes)
      index  == findFirstFit(bitmap, blocks)
  IN  /\ ready /\ ~halted
      /\ bitmap' = setbitmap(bitmap, index, blocks, 1)
      /\ live' = live \cup {[mem |-> address(index), bytes |-> bytes]}
      /\ UNCHANGED <<ready, halted>>

kernelmalloc(bytes) ==
  LET blocks == calculateblocks(bytes)
      index  == findFirstFit(bitmap, blocks)
  IN  /\ ready /\ ~halted
      /\ UNCHANGED ready
      /\ \/ /\ index = -1            \* "HEAP OVERFLOW", panic
            /\ halted' = TRUE
            /\ UNCHANGED <<bitmap, live>>
         \/ /\ index # -1
            /\ bitmap' = setbitmap(bitmap, index, blocks, 1)
            /\ live' = live \cup {[mem |-> address(index), bytes |-> bytes]}
            /\ UNCHANGED halted

kernelfree(a) ==
  /\ ready /\ ~halted
  /\ bitmap' = setbitmap(bitmap, findindex(a.mem), calculateblocks(a.bytes), 0)
  /\ live' = live \ {a}
  /\ UNCHANGED <<ready, halted>>

Next ==
  \/ physicalmemoryinit
  \/ \E b \in Requests : kernelmalloc(b)
  \/ \E a \in live : kernelfree(a)

Spec == Init /\ [][Next]_vars

-----------------------------------------------------------------------------
(* Every variable has its type; what callers hold starts at a block of the
   heap, so the -1 of findFirstFit is never turned into a pointer. *)
TypeOK ==
  /\ bitmap \in Bitmaps
  /\ ready \in BOOLEAN
  /\ live \subseteq [mem : {address(i) : i \in Blocks}, bytes : Requests]
  /\ halted \in BOOLEAN

(* The blocks that an allocation covers. *)
Cells(a) == findindex(a.mem) .. findindex(a.mem) + calculateblocks(a.bytes) - 1

(* The bitmap and the pointers in circulation agree: a block is marked exactly
   when it is the kernel's or some caller holds it, whatever the order of
   kernelmalloc and kernelfree calls and the sizes they were made with. *)
BitmapMatchesLive ==
  ready => \A i \in Blocks :
             bitmap[i] = 1 <=> (i < kernelblocks \/ \E a \in live : i \in Cells(a))

(* The bytes [a.mem, a.mem + a.bytes) belong to a alone and lie in the heap
   past the kernel's blocks: recvpacket's copy into its packet never touches
   a page table or another packet (kernelmalloc, kernelfree). *)
LiveDisjoint ==
  \A a \in live :
    /\ StartMem + kernelblocks * BlockSize <= a.mem
    /\ a.mem + a.bytes <= StartMem + maxblocks * BlockSize
    /\ \A b \in live : a # b => \/ a.mem + a.bytes <= b.mem
                                \/ b.mem + b.bytes <= a.mem

(* The manager keeps the promise of BlockAllocator: grants never overlap, and
   panic comes only when no block-aligned place has room for the request. *)
Promise == INSTANCE BlockAllocator WITH
             Low     <- StartMem + kernelblocks * BlockSize,
             High    <- StartMem + maxblocks * BlockSize,
             Grain   <- BlockSize,
             held    <- live,
             stopped <- halted

PromiseKept == Promise!Spec
=============================================================================
