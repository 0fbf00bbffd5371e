--------------------------- MODULE AllocatorLoops ---------------------------
(***************************************************************************)
(* kernelmalloc and kernelfree of Kernel/memory/physicalmemory.c with the  *)
(* loops of calculateblocks, findFirstFit and setbitmap: one step for each *)
(* pass through a loop body.  PhysicalMemory, where each call is one step  *)
(* and the helpers are defined by what they return, is what this refines.  *)
(***************************************************************************)
EXTENDS HeapLayout

VARIABLES
  bitmap, ready, live, halted,   \* as in PhysicalMemory
  pc,        \* the loop that the current call is in, "idle" between calls
  op,        \* "malloc" or "free"
  bytes,     \* the parameter bytes of the call
  total,     \* local of calculateblocks
  count,     \* local of calculateblocks, then the one of findFirstFit
  blocks,    \* what calculateblocks returned
  index,     \* what findFirstFit or findindex returned
  i          \* loop variable of findFirstFit, then the one of setbitmap

locals == <<op, bytes, total, count, blocks, index, i>>
vars == <<bitmap, ready, live, halted, pc, locals>>

Init ==
  /\ bitmap \in Bitmaps
  /\ ready = FALSE
  /\ live = {}
  /\ halted = FALSE
  /\ pc = "idle"
  /\ op = "malloc"
  /\ bytes = 0 /\ total = 0 /\ count = 0 /\ blocks = 0 /\ index = 0 /\ i = 0

physicalmemoryinit ==
  /\ ~ready
  /\ bitmap' = initialbitmap
  /\ ready' = TRUE
  /\ UNCHANGED <<live, halted, pc, locals>>

(* kernelmalloc(b) and kernelfree(a.mem, a.bytes) are entered; both call
   calculateblocks, kernelfree after findindex. *)
CallMalloc(b) ==
  /\ pc = "idle" /\ ready /\ ~halted
  /\ pc' = "calculateblocks" /\ op' = "malloc"
  /\ bytes' = b /\ total' = b /\ count' = 0
  /\ UNCHANGED <<bitmap, ready, live, halted, blocks, index, i>>

CallFree(a) ==
  /\ pc = "idle" /\ ready /\ ~halted
  /\ pc' = "calculateblocks" /\ op' = "free"
  /\ bytes' = a.bytes /\ total' = a.bytes /\ count' = 0
  /\ index' = findindex(a.mem)
  /\ UNCHANGED <<bitmap, ready, live, halted, blocks, i>>

(* One pass of the loop of calculateblocks that does not end it. *)
CalculateMore ==
  /\ pc = "calculateblocks"
  /\ total - BlockSize > 0
  /\ total' = total - BlockSize
  /\ count' = count + 1
  /\ UNCHANGED <<bitmap, ready, live, halted, pc, op, bytes, blocks, index, i>>

(* Its last pass, and the return to the caller: a free then clears its cells,
   and is what its holder gives up from here on. *)
CalculateDone ==
  /\ pc = "calculateblocks"
  /\ total - BlockSize <= 0
  /\ total' = total - BlockSize
  /\ blocks' = count + 1
  /\ count' = 0 /\ i' = 0
  /\ pc' = IF op = "malloc" THEN "findFirstFit" ELSE "setbitmap"
  /\ live' = IF op = "malloc" THEN live
             ELSE live \ {[mem |-> address(index), bytes |-> bytes]}
  /\ UNCHANGED <<bitmap, ready, halted, op, bytes, index>>

(* Mutant: count is not reset by a taken block. *)
RunAtNoReset == IF bitmap[i] = 0 THEN count + 1 ELSE count

(* The count of findFirstFit after the test of bitmap[i]. *)
RunAt == IF bitmap[i] = 0 THEN count + 1 ELSE 0

ScanMore ==
  /\ pc = "findFirstFit"
  /\ i < maxblocks
  /\ RunAt # blocks
  /\ count' = RunAt
  /\ i' = i + 1
  /\ UNCHANGED <<bitmap, ready, live, halted, pc, op, bytes, total, blocks, index>>

(* Mutant: the block that the run ends at is returned. *)
ScanFoundEnd ==
  /\ pc = "findFirstFit"
  /\ i < maxblocks
  /\ RunAt = blocks
  /\ index' = i
  /\ pc' = "setbitmap" /\ i' = 0 /\ count' = RunAt
  /\ live' = live \cup {[mem |-> address(index'), bytes |-> bytes]}
  /\ UNCHANGED <<bitmap, ready, halted, op, bytes, total, blocks>>

(* A long enough run: its first block is returned, and setbitmap is next. *)
ScanFound ==
  /\ pc = "findFirstFit"
  /\ i < maxblocks
  /\ RunAt = blocks
  /\ index' = i - RunAt + 1
  /\ pc' = "setbitmap" /\ i' = 0 /\ count' = RunAt
  /\ live' = live \cup {[mem |-> address(index'), bytes |-> bytes]}
  /\ UNCHANGED <<bitmap, ready, halted, op, bytes, total, blocks>>

(* Mutant: the end of the bitmap is passed unnoticed. *)
ScanFailedLate ==
  /\ pc = "findFirstFit"
  /\ i > maxblocks
  /\ index' = -1
  /\ pc' = "panic"
  /\ halted' = TRUE
  /\ UNCHANGED <<bitmap, ready, live, op, bytes, total, count, blocks, i>>

(* The bitmap is exhausted: -1, "HEAP OVERFLOW", panic. *)
ScanFailed ==
  /\ pc = "findFirstFit"
  /\ i = maxblocks
  /\ index' = -1
  /\ pc' = "panic"
  /\ halted' = TRUE
  /\ UNCHANGED <<bitmap, ready, live, op, bytes, total, count, blocks, i>>

value == IF op = "malloc" THEN 1 ELSE 0

SetMore ==
  /\ pc = "setbitmap"
  /\ i < blocks
  /\ bitmap' = [bitmap EXCEPT ![index + i] = value]
  /\ i' = i + 1
  /\ UNCHANGED <<ready, live, halted, pc, op, bytes, total, count, blocks, index>>

SetDone ==
  /\ pc = "setbitmap"
  /\ i = blocks
  /\ pc' = "idle"
  /\ UNCHANGED <<bitmap, ready, live, halted, locals>>

Calculate == CalculateMore \/ CalculateDone
Scan == ScanMore \/ ScanFound \/ ScanFailed
Set == SetMore \/ SetDone

Next ==
  \/ physicalmemoryinit
  \/ \E b \in Requests : CallMalloc(b)
  \/ \E a \in live : CallFree(a)
  \/ Calculate
  \/ Scan
  \/ Set

Spec == Init /\ [][Next]_vars

(* The processor goes on executing a call that it has begun. *)
FairSpec == Spec /\ WF_vars(Calculate \/ Scan \/ Set)

-----------------------------------------------------------------------------
(* Every variable has its type, and the loops of setbitmap and findFirstFit
   index the bitmap inside its bounds. *)
TypeOK ==
  /\ bitmap \in Bitmaps
  /\ ready \in BOOLEAN
  /\ live \subseteq [mem : {address(k) : k \in Blocks}, bytes : Requests]
  /\ halted \in BOOLEAN
  /\ pc \in {"idle", "calculateblocks", "findFirstFit", "setbitmap", "panic"}
  /\ op \in {"malloc", "free"}
  /\ bytes \in Nat /\ total \in Int /\ count \in Nat /\ blocks \in Nat
  /\ index \in Blocks \cup {-1} \cup {0}
  /\ i \in Nat
  /\ pc = "findFirstFit" => i <= maxblocks
  /\ pc = "setbitmap" => i <= blocks /\ index + blocks <= maxblocks

(* calculateblocks subtracts what it counts, and findFirstFit has the length
   of the run of free blocks that ends just before i, having met no place for
   the request before: the two loops compute the least block count that
   covers the bytes, and the lowest place. *)
LoopInvariant ==
  /\ pc = "calculateblocks" => /\ total = bytes - count * BlockSize
                               /\ count = 0 \/ total > 0
  /\ pc \in {"findFirstFit", "setbitmap"} => blocks = calculateblocks(bytes)
  /\ pc = "findFirstFit" =>
       /\ count < blocks /\ count <= i
       /\ \A j \in i - count .. i - 1 : bitmap[j] = 0
       /\ count < i => bitmap[i - count - 1] # 0
       /\ \A k \in Blocks : k + blocks <= i => ~Fits(bitmap, k, blocks)

(* The bitmap as the call in progress will leave it. *)
settled == IF pc = "setbitmap" THEN setbitmap(bitmap, index, blocks, value)
           ELSE bitmap

(* The loops do what PhysicalMemory says of kernelmalloc and kernelfree. *)
Atomic == INSTANCE PhysicalMemory WITH bitmap <- settled

LoopsImplementCalls == Atomic!Spec

(* Every call ends: it returns, or it has stopped the machine. *)
CallsEnd == [](pc # "idle" => <>(pc \in {"idle", "panic"}))
=============================================================================
