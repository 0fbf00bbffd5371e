------------------------ MODULE AllocatorLoopsProofs ------------------------
(***************************************************************************)
(* The loops of kernelmalloc and kernelfree compute what PhysicalMemory    *)
(* says, for every heap and every request: each call takes effect in one   *)
(* step of its loops, and the other steps change nothing that PhysicalMemory *)
(* speaks of.                                                              *)
(***************************************************************************)
EXTENDS AllocatorLoops, TLAPS

(* PhysicalMemory and what is proved of it, with the bitmap as the call in
   progress will leave it. *)
P == INSTANCE PhysicalMemoryProofs WITH bitmap <- settled

(* A call in progress: the manager is initialized and the machine runs, what is
   freed is held until its blocks are counted, and setbitmap has set the cells
   before i. *)
CallInProgress ==
  /\ pc # "idle" => ready /\ bytes \in Requests
  /\ halted <=> pc = "panic"
  /\ pc = "calculateblocks" /\ op = "free" =>
       index \in Blocks /\ [mem |-> address(index), bytes |-> bytes] \in live
  /\ pc = "findFirstFit" => op = "malloc"
  /\ pc = "setbitmap" => /\ index \in Blocks
                         /\ \A j \in index .. index + i - 1 : bitmap[j] = value

(* The inductive invariant.  P!IInv says that what a free names lies inside the
   bitmap, which the loop of setbitmap needs. *)
IInv == TypeOK /\ LoopInvariant /\ CallInProgress /\ P!IInv

-----------------------------------------------------------------------------
(* Both modules speak of the same heap. *)
LEMMA SameLayout ==
  /\ P!maxblocks = maxblocks /\ P!kernelblocks = kernelblocks
  /\ P!Blocks = Blocks /\ P!Bitmaps = Bitmaps /\ P!initialbitmap = initialbitmap
  /\ \A m : P!findindex(m) = findindex(m)
  /\ \A k : P!address(k) = address(k)
  /\ \A b : P!calculateblocks(b) = calculateblocks(b)
<1>1. P!maxblocks = maxblocks /\ P!kernelblocks = kernelblocks
  BY DEF P!maxblocks, maxblocks, P!kernelblocks, kernelblocks
<1>2. P!Blocks = Blocks
  BY <1>1 DEF P!Blocks, Blocks
<1>3. P!Bitmaps = Bitmaps /\ P!initialbitmap = initialbitmap
  BY <1>1, <1>2 DEF P!Bitmaps, Bitmaps, P!initialbitmap, initialbitmap
<1>4. /\ \A m : P!findindex(m) = findindex(m)
      /\ \A k : P!address(k) = address(k)
  BY DEF P!findindex, findindex, P!address, address, P!findoffset, findoffset
<1>5. \A b : P!calculateblocks(b) = calculateblocks(b)
  BY DEF P!calculateblocks, calculateblocks
<1> QED
  BY <1>1, <1>2, <1>3, <1>4, <1>5

LEMMA SameSetbitmap ==
  ASSUME NEW map, NEW k, NEW n, NEW v
  PROVE  P!setbitmap(map, k, n, v) = setbitmap(map, k, n, v)
BY SameLayout, Zenon DEF P!setbitmap, setbitmap

LEMMA SameFits ==
  ASSUME NEW map, NEW k, NEW n
  PROVE  P!Fits(map, k, n) = Fits(map, k, n)
BY Zenon DEF P!Fits, Fits, P!Blocks, Blocks, P!maxblocks, maxblocks

LEMMA SameFirstFit ==
  ASSUME NEW map, NEW n
  PROVE  P!findFirstFit(map, n) = findFirstFit(map, n)
BY Zenon DEF P!findFirstFit, findFirstFit, P!Fits, Fits, P!Blocks, Blocks,
             P!maxblocks, maxblocks

(* So what PhysicalMemoryProofs proves of the helpers is true of these. *)
LEMMA LayoutNat == maxblocks \in Nat /\ kernelblocks \in Nat /\ kernelblocks <= maxblocks
BY P!LayoutNat, MemoryAssumption, SameLayout

LEMMA BlocksCoverBytes ==
  ASSUME NEW b \in Nat
  PROVE  /\ calculateblocks(b) \in Nat \ {0}
         /\ b <= calculateblocks(b) * BlockSize
         /\ calculateblocks(b) = 1 \/ (calculateblocks(b) - 1) * BlockSize < b
BY P!BlocksCoverBytes, MemoryAssumption, SameLayout

LEMMA BlocksUnique ==
  ASSUME NEW b \in Nat, NEW n \in Nat \ {0},
         b <= n * BlockSize, n = 1 \/ (n - 1) * BlockSize < b
  PROVE  calculateblocks(b) = n
BY P!BlocksUnique, MemoryAssumption, SameLayout

LEMMA FindIndexInverse ==
  ASSUME NEW k \in Nat
  PROVE  findindex(address(k)) = k
BY P!FindIndexInverse, MemoryAssumption, SameLayout

LEMMA FirstFit ==
  ASSUME NEW map, NEW n
  PROVE  \/ /\ findFirstFit(map, n) = -1
            /\ \A k \in Blocks : ~Fits(map, k, n)
         \/ /\ findFirstFit(map, n) \in Blocks
            /\ Fits(map, findFirstFit(map, n), n)
            /\ \A k \in Blocks : Fits(map, k, n) => findFirstFit(map, n) <= k
BY P!FirstFit, MemoryAssumption, SameLayout, SameFirstFit, SameFits

LEMMA FirstFitUnique ==
  ASSUME NEW map, NEW n, NEW k \in Blocks, Fits(map, k, n),
         \A m \in Blocks : Fits(map, m, n) => k <= m
  PROVE  findFirstFit(map, n) = k
BY P!FirstFitUnique, MemoryAssumption, SameLayout, SameFirstFit, SameFits

(* The invariant of PhysicalMemory, established and kept. *)
LEMMA ManagerStarts == P!Init => P!IInv
BY P!InitIInv, MemoryAssumption, SameLayout

LEMMA ManagerKept == P!IInv /\ [P!Next]_(P!vars) => P!IInv'
BY P!NextIInv, MemoryAssumption, SameLayout

(* What the manager's invariant says of the pointers in circulation. *)
LEMMA LiveInHeap ==
  ASSUME IInv, NEW a \in live
  PROVE  /\ a.bytes \in Requests /\ a.bytes \in Nat
         /\ findindex(a.mem) \in Blocks /\ findindex(a.mem) \in Nat
         /\ a = [mem |-> address(findindex(a.mem)), bytes |-> a.bytes]
         /\ findindex(a.mem) + calculateblocks(a.bytes) <= maxblocks
<1>1. a \in [mem : {address(k) : k \in Blocks}, bytes : Requests]
  BY DEF IInv, TypeOK
<1>2. PICK k \in Blocks : a.mem = address(k)
  BY <1>1
<1>3. k \in Nat /\ findindex(a.mem) = k
  BY <1>2, FindIndexInverse, LayoutNat DEF Blocks
<1>4. P!Past(a) <= maxblocks
  BY SameLayout DEF IInv, P!IInv, P!LiveApart
<1>5. findindex(a.mem) + calculateblocks(a.bytes) <= maxblocks
  BY <1>4, SameLayout DEF P!Past, P!First
<1> QED
  BY <1>1, <1>2, <1>3, <1>5, MemoryAssumption

(* A step in which nothing that PhysicalMemory speaks of changes. *)
LEMMA StutterStep ==
  ASSUME P!IInv, UNCHANGED <<settled, ready, live, halted>>
  PROVE  P!IInv' /\ [P!Next]_(P!vars)
<1>1. [P!Next]_(P!vars)
  BY DEF P!vars
<1> QED
  BY <1>1, ManagerKept

(* Between calls, and until setbitmap, the bitmap is as it is left. *)
LEMMA SettledBitmap == pc # "setbitmap" => settled = bitmap
BY DEF settled

LEMMA InitIInv == Init => IInv /\ P!Init
<1> SUFFICES ASSUME Init PROVE IInv /\ P!Init
  OBVIOUS
<1>1. P!Init
  BY SameLayout DEF Init, P!Init, settled
<1>2. P!IInv
  BY <1>1, ManagerStarts
<1>3. TypeOK
  <2>1. bitmap \in Bitmaps /\ ready \in BOOLEAN /\ halted \in BOOLEAN
    BY DEF Init
  <2>2. live \subseteq [mem : {address(k) : k \in Blocks}, bytes : Requests]
    BY DEF Init
  <2>3. /\ pc \in {"idle", "calculateblocks", "findFirstFit", "setbitmap", "panic"}
        /\ op \in {"malloc", "free"} /\ pc \notin {"findFirstFit", "setbitmap"}
    BY DEF Init
  <2>4. /\ bytes \in Nat /\ total \in Int /\ count \in Nat /\ blocks \in Nat
        /\ index \in Blocks \cup {-1} \cup {0} /\ i \in Nat
    BY DEF Init
  <2> QED
    BY <2>1, <2>2, <2>3, <2>4 DEF TypeOK
<1>4. LoopInvariant /\ CallInProgress
  BY DEF Init, LoopInvariant, CallInProgress
<1> QED
  BY <1>1, <1>2, <1>3, <1>4 DEF IInv

LEMMA PhysicalmemoryinitStep ==
  ASSUME IInv, physicalmemoryinit
  PROVE  IInv' /\ [P!Next]_(P!vars)
<1>1. /\ ~ready /\ ready' /\ bitmap' = initialbitmap
      /\ UNCHANGED <<live, halted, pc>>
      /\ UNCHANGED <<op, bytes, total, count, blocks, index, i>>
  BY DEF physicalmemoryinit, locals
<1>2. pc = "idle"
  BY <1>1 DEF IInv, CallInProgress
<1>3. settled = bitmap /\ settled' = bitmap'
  BY <1>1, <1>2 DEF settled
<1>4. P!physicalmemoryinit
  BY <1>1, <1>3, SameLayout DEF P!physicalmemoryinit
<1>5. [P!Next]_(P!vars)
  BY <1>4 DEF P!Next
<1>6. P!IInv'
  BY <1>5, ManagerKept DEF IInv
<1>7. bitmap' \in Bitmaps
  BY <1>1 DEF initialbitmap, Bitmaps
<1>8. TypeOK' /\ LoopInvariant' /\ CallInProgress'
  BY <1>1, <1>2, <1>7 DEF IInv, TypeOK, LoopInvariant, CallInProgress
<1> QED
  BY <1>5, <1>6, <1>8 DEF IInv

LEMMA CallMallocStep ==
  ASSUME IInv, NEW b \in Requests, CallMalloc(b)
  PROVE  IInv' /\ [P!Next]_(P!vars)
<1>1. /\ pc = "idle" /\ ready /\ ~halted
      /\ pc' = "calculateblocks" /\ op' = "malloc"
      /\ bytes' = b /\ total' = b /\ count' = 0
      /\ UNCHANGED <<bitmap, ready, live, halted, blocks, index, i>>
  BY DEF CallMalloc
<1>2. settled' = settled
  BY <1>1 DEF settled
<1>3. P!IInv' /\ [P!Next]_(P!vars)
  BY <1>1, <1>2, StutterStep DEF IInv
<1>4. b \in Nat
  BY MemoryAssumption
<1>5. TypeOK' /\ CallInProgress'
  BY <1>1, <1>4 DEF IInv, TypeOK, CallInProgress
<1>6. LoopInvariant'
  BY <1>1, <1>4, MemoryAssumption DEF LoopInvariant
<1> QED
  BY <1>3, <1>5, <1>6 DEF IInv

LEMMA CallFreeStep ==
  ASSUME IInv, NEW a \in live, CallFree(a)
  PROVE  IInv' /\ [P!Next]_(P!vars)
<1>1. /\ pc = "idle" /\ ready /\ ~halted
      /\ pc' = "calculateblocks" /\ op' = "free"
      /\ bytes' = a.bytes /\ total' = a.bytes /\ count' = 0
      /\ index' = findindex(a.mem)
      /\ UNCHANGED <<bitmap, ready, live, halted, blocks, i>>
  BY DEF CallFree
<1>2. settled' = settled
  BY <1>1 DEF settled
<1>3. P!IInv' /\ [P!Next]_(P!vars)
  BY <1>1, <1>2, StutterStep DEF IInv
<1>4. /\ a.bytes \in Requests /\ a.bytes \in Nat /\ findindex(a.mem) \in Blocks
      /\ a = [mem |-> address(findindex(a.mem)), bytes |-> a.bytes]
  BY LiveInHeap
<1>5. TypeOK'
  BY <1>1, <1>4 DEF IInv, TypeOK
<1>6. CallInProgress'
  BY <1>1, <1>4 DEF IInv, CallInProgress
<1>7. LoopInvariant'
  BY <1>1, <1>4, MemoryAssumption DEF LoopInvariant
<1> QED
  BY <1>3, <1>5, <1>6, <1>7 DEF IInv

LEMMA CalculateMoreStep ==
  ASSUME IInv, CalculateMore
  PROVE  IInv' /\ [P!Next]_(P!vars)
<1>1. /\ pc = "calculateblocks" /\ total - BlockSize > 0
      /\ total' = total - BlockSize /\ count' = count + 1
      /\ UNCHANGED <<bitmap, ready, live, halted, pc, op, bytes, blocks, index, i>>
  BY DEF CalculateMore
<1>2. settled' = settled
  BY <1>1 DEF settled
<1>3. P!IInv' /\ [P!Next]_(P!vars)
  BY <1>1, <1>2, StutterStep DEF IInv
<1>4. /\ total = bytes - count * BlockSize /\ total \in Int /\ count \in Nat
      /\ bytes \in Nat /\ BlockSize \in Nat
  BY <1>1, MemoryAssumption DEF IInv, LoopInvariant, TypeOK
<1>5. total' = bytes' - count' * BlockSize
  BY <1>1, <1>4
<1>6. LoopInvariant'
  BY <1>1, <1>4, <1>5 DEF LoopInvariant
<1>7. TypeOK' /\ CallInProgress'
  BY <1>1, <1>4 DEF IInv, TypeOK, CallInProgress
<1> QED
  BY <1>3, <1>6, <1>7 DEF IInv

(* The loop of calculateblocks ends with the least count that covers the bytes. *)
LEMMA CountIsBlocks ==
  ASSUME IInv, pc = "calculateblocks", total - BlockSize <= 0
  PROVE  /\ count + 1 = calculateblocks(bytes)
         /\ count + 1 \in Nat \ {0} /\ bytes \in Nat
<1>1. /\ total = bytes - count * BlockSize /\ total \in Int /\ count \in Nat
      /\ bytes \in Nat /\ BlockSize \in Nat /\ (count = 0 \/ total > 0)
  BY MemoryAssumption DEF IInv, LoopInvariant, TypeOK
<1> DEFINE n == count + 1
<1>2. n \in Nat \ {0} /\ n - 1 = count
  BY <1>1
<1>3. n * BlockSize = (count * BlockSize) + BlockSize /\ count * BlockSize \in Nat
  BY <1>1
<1> HIDE DEF n
<1>4. n * BlockSize \in Nat
  BY <1>1, <1>2
<1>5. bytes <= n * BlockSize
  BY <1>1, <1>3, <1>4
<1>6. n = 1 \/ (n - 1) * BlockSize < bytes
  BY <1>1, <1>2, <1>3
<1>7. calculateblocks(bytes) = n
  BY <1>1, <1>2, <1>5, <1>6, BlocksUnique
<1> QED
  BY <1>1, <1>2, <1>7 DEF n

(* A free takes effect when its blocks are counted: from there on it is certain
   which cells setbitmap will clear. *)
LEMMA CalculateDoneStep ==
  ASSUME IInv, CalculateDone
  PROVE  IInv' /\ [P!Next]_(P!vars)
<1> DEFINE n == calculateblocks(bytes)
<1>1. /\ pc = "calculateblocks" /\ total - BlockSize <= 0
      /\ total' = total - BlockSize /\ blocks' = count + 1 /\ count' = 0 /\ i' = 0
      /\ pc' = IF op = "malloc" THEN "findFirstFit" ELSE "setbitmap"
      /\ live' = IF op = "malloc" THEN live
                 ELSE live \ {[mem |-> address(index), bytes |-> bytes]}
      /\ UNCHANGED <<bitmap, ready, halted, op, bytes, index>>
  BY DEF CalculateDone
<1>2. blocks' = n /\ n \in Nat \ {0} /\ bytes \in Nat
  BY <1>1, CountIsBlocks
<1>3. /\ total' \in Int /\ ready /\ ~halted /\ bytes \in Requests
      /\ settled = bitmap /\ op \in {"malloc", "free"} /\ maxblocks \in Nat
  BY <1>1, MemoryAssumption, SettledBitmap, LayoutNat DEF IInv, TypeOK, CallInProgress
<1> HIDE DEF n
<1>4. CASE op = "malloc"
  <2>1. pc' = "findFirstFit" /\ live' = live /\ settled' = bitmap'
    BY <1>1, <1>4 DEF settled
  <2>2. P!IInv' /\ [P!Next]_(P!vars)
    BY <1>1, <1>3, <2>1, StutterStep DEF IInv
  <2>3. TypeOK' /\ CallInProgress'
    BY <1>1, <1>2, <1>3, <1>4, <2>1 DEF IInv, TypeOK, CallInProgress
  <2>4. LoopInvariant'
    <3>1. \A k \in Blocks : ~(k + n <= 0)
      BY <1>2, LayoutNat DEF Blocks
    <3> QED
      BY <1>1, <1>2, <2>1, <3>1 DEF LoopInvariant, n
  <2> QED
    BY <2>2, <2>3, <2>4 DEF IInv
<1>5. CASE op = "free"
  <2> DEFINE a == [mem |-> address(index), bytes |-> bytes]
  <2>1. /\ pc' = "setbitmap" /\ live' = live \ {a} /\ value' = 0
        /\ a \in live /\ index \in Blocks
        /\ settled' = setbitmap(bitmap', index', blocks', value')
    BY <1>1, <1>5 DEF settled, IInv, CallInProgress, value
  <2>2. findindex(a.mem) = index /\ a.bytes = bytes /\ index \in Nat
    BY <2>1, FindIndexInverse, LayoutNat DEF Blocks
  <2>3. index + n <= maxblocks
    BY <2>1, <2>2, LiveInHeap DEF n
  <2>4. settled' = setbitmap(settled, findindex(a.mem), calculateblocks(a.bytes), 0)
    BY <1>1, <1>2, <1>3, <2>1, <2>2 DEF n
  <2> HIDE DEF a
  <2>5. P!kernelfree(a)
    BY <1>1, <1>3, <2>1, <2>4, SameLayout, SameSetbitmap DEF P!kernelfree
  <2>6. [P!Next]_(P!vars)
    BY <2>1, <2>5 DEF P!Next
  <2>7. P!IInv'
    BY <2>6, ManagerKept DEF IInv
  <2>8. TypeOK'
    BY <1>1, <1>2, <1>3, <2>1, <2>3 DEF IInv, TypeOK
  <2>9. CallInProgress'
    <3>1. \A j \in index .. index + 0 - 1 : FALSE
      BY <2>2
    <3> QED
      BY <1>1, <1>3, <2>1, <3>1 DEF IInv, CallInProgress
  <2>10. LoopInvariant'
    BY <1>1, <1>2, <2>1 DEF LoopInvariant, n
  <2> QED
    BY <2>6, <2>7, <2>8, <2>9, <2>10 DEF IInv
<1> QED
  BY <1>3, <1>4, <1>5

(* findFirstFit in progress: what its loop invariant says, with the types. *)
LEMMA ScanFacts ==
  ASSUME IInv, pc = "findFirstFit"
  PROVE  /\ ready /\ ~halted /\ op = "malloc" /\ settled = bitmap
         /\ bytes \in Requests /\ bytes \in Nat
         /\ blocks = calculateblocks(bytes) /\ blocks \in Nat \ {0}
         /\ count \in Nat /\ i \in Nat /\ i <= maxblocks /\ maxblocks \in Nat
         /\ count < blocks /\ count <= i
         /\ \A j \in i - count .. i - 1 : bitmap[j] = 0
         /\ count < i => bitmap[i - count - 1] # 0
         /\ \A k \in Blocks : k + blocks <= i => ~Fits(bitmap, k, blocks)
<1>1. /\ ready /\ ~halted /\ op = "malloc" /\ settled = bitmap
      /\ bytes \in Requests /\ bytes \in Nat
  BY SettledBitmap, MemoryAssumption DEF IInv, CallInProgress, TypeOK
<1>2. blocks = calculateblocks(bytes) /\ blocks \in Nat \ {0}
  BY <1>1, BlocksCoverBytes DEF IInv, LoopInvariant
<1>3. count \in Nat /\ i \in Nat /\ i <= maxblocks /\ maxblocks \in Nat
  BY LayoutNat DEF IInv, TypeOK
<1> QED
  BY <1>1, <1>2, <1>3 DEF IInv, LoopInvariant

LEMMA ScanMoreStep ==
  ASSUME IInv, ScanMore
  PROVE  IInv' /\ [P!Next]_(P!vars)
<1>1. /\ pc = "findFirstFit" /\ i < maxblocks /\ RunAt # blocks
      /\ count' = RunAt /\ i' = i + 1
      /\ UNCHANGED <<bitmap, ready, live, halted, pc, op, bytes, total, blocks, index>>
  BY DEF ScanMore
<1>2. /\ blocks \in Nat \ {0} /\ blocks = calculateblocks(bytes)
      /\ count \in Nat /\ i \in Nat /\ maxblocks \in Nat
      /\ count < blocks /\ count <= i
      /\ \A j \in i - count .. i - 1 : bitmap[j] = 0
      /\ count < i => bitmap[i - count - 1] # 0
      /\ \A k \in Blocks : k + blocks <= i => ~Fits(bitmap, k, blocks)
  BY <1>1, ScanFacts
<1>3. settled' = settled
  BY <1>1 DEF settled
<1>4. P!IInv' /\ [P!Next]_(P!vars)
  BY <1>1, <1>3, StutterStep DEF IInv
<1>5. count' \in Nat /\ count' < blocks /\ count' <= i'
  BY <1>1, <1>2 DEF RunAt
<1>6. \A j \in i' - count' .. i' - 1 : bitmap[j] = 0
  <2>1. CASE bitmap[i] = 0
    <3>1. count' = count + 1 /\ i' = i + 1
      BY <1>1, <2>1 DEF RunAt
    <3>2. \A j \in i' - count' .. i' - 1 : j = i \/ j \in i - count .. i - 1
      BY <1>2, <3>1
    <3> QED
      BY <1>2, <2>1, <3>2
  <2>2. CASE bitmap[i] # 0
    BY <1>1, <1>2, <2>2 DEF RunAt
  <2> QED
    BY <2>1, <2>2
<1>7. count' < i' => bitmap[i' - count' - 1] # 0
  <2>1. CASE bitmap[i] = 0
    <3>1. count' = count + 1 /\ i' = i + 1 /\ i' - count' - 1 = i - count - 1
      BY <1>1, <1>2, <2>1 DEF RunAt
    <3> QED
      BY <1>2, <3>1
  <2>2. CASE bitmap[i] # 0
    <3>1. i' - count' - 1 = i
      BY <1>1, <1>2, <2>2 DEF RunAt
    <3> QED
      BY <2>2, <3>1
  <2> QED
    BY <2>1, <2>2
<1>8. \A k \in Blocks : k + blocks <= i' => ~Fits(bitmap, k, blocks)
  <2> SUFFICES ASSUME NEW k \in Blocks, k + blocks <= i', Fits(bitmap, k, blocks)
               PROVE  FALSE
    OBVIOUS
  <2>1. k \in Nat /\ k + blocks = i + 1
    BY <1>1, <1>2 DEF Blocks
  <2>2. \A j \in k .. i : bitmap[j] = 0
    BY <1>2, <2>1 DEF Fits
  <2>3. bitmap[i] = 0
    BY <1>2, <2>1, <2>2
  <2>4. count + 1 < blocks
    BY <1>1, <1>2, <2>3 DEF RunAt
  <2>5. count < i /\ i - count - 1 \in k .. i
    BY <1>2, <2>1, <2>4
  <2> QED
    BY <1>2, <2>2, <2>5
<1>9. LoopInvariant'
  BY <1>1, <1>2, <1>5, <1>6, <1>7, <1>8 DEF LoopInvariant, Fits
<1>10. TypeOK' /\ CallInProgress'
  BY <1>1, <1>2, <1>5 DEF IInv, TypeOK, CallInProgress
<1> QED
  BY <1>4, <1>9, <1>10 DEF IInv

(* An allocation takes effect when its place is found, which is the lowest. *)
LEMMA ScanFoundStep ==
  ASSUME IInv, ScanFound
  PROVE  IInv' /\ [P!Next]_(P!vars)
<1>1. /\ pc = "findFirstFit" /\ i < maxblocks /\ RunAt = blocks
      /\ index' = i - RunAt + 1 /\ count' = RunAt
      /\ pc' = "setbitmap" /\ i' = 0
      /\ live' = live \cup {[mem |-> address(index'), bytes |-> bytes]}
      /\ UNCHANGED <<bitmap, ready, halted, op, bytes, total, blocks>>
  BY DEF ScanFound
<1>2. /\ ready /\ ~halted /\ op = "malloc" /\ settled = bitmap /\ bytes \in Requests
      /\ blocks \in Nat \ {0} /\ blocks = calculateblocks(bytes)
      /\ count \in Nat /\ i \in Nat /\ maxblocks \in Nat
      /\ count < blocks /\ count <= i
      /\ \A j \in i - count .. i - 1 : bitmap[j] = 0
      /\ \A k \in Blocks : k + blocks <= i => ~Fits(bitmap, k, blocks)
  BY <1>1, ScanFacts
<1>3. bitmap[i] = 0 /\ count + 1 = blocks
  BY <1>1, <1>2 DEF RunAt
<1> DEFINE k == i - count
<1>4. index' = k /\ k \in Nat /\ k \in Blocks /\ k + blocks = i + 1 /\ count' = blocks
  BY <1>1, <1>2, <1>3 DEF Blocks
<1> HIDE DEF k
<1>5. Fits(bitmap, k, blocks)
  <2>1. \A j \in k .. k + blocks - 1 : j = i \/ j \in i - count .. i - 1
    BY <1>2, <1>3, <1>4 DEF k
  <2> QED
    BY <1>1, <1>2, <1>3, <1>4, <2>1 DEF Fits
<1>6. \A m \in Blocks : Fits(bitmap, m, blocks) => k <= m
  BY <1>2, <1>4 DEF Blocks
<1>7. findFirstFit(bitmap, blocks) = k
  BY <1>4, <1>5, <1>6, FirstFitUnique
<1>8. settled' = setbitmap(bitmap, k, blocks, 1)
  BY <1>1, <1>2, <1>4 DEF settled, value
<1>9. P!kernelmalloc(bytes)
  <2>1. P!findFirstFit(settled, P!calculateblocks(bytes)) = k
    BY <1>2, <1>7, SameLayout, SameFirstFit
  <2>2. settled' = P!setbitmap(settled, k, P!calculateblocks(bytes), 1)
    BY <1>2, <1>8, SameLayout, SameSetbitmap
  <2>3. live' = live \cup {[mem |-> P!address(k), bytes |-> bytes]}
    BY <1>1, <1>4, SameLayout
  <2>4. k # -1
    BY <1>4
  <2> QED
    BY <1>1, <1>2, <2>1, <2>2, <2>3, <2>4 DEF P!kernelmalloc
<1>10. [P!Next]_(P!vars)
  BY <1>2, <1>9 DEF P!Next
<1>11. P!IInv'
  BY <1>10, ManagerKept DEF IInv
<1>12. TypeOK'
  <2>1. [mem |-> address(k), bytes |-> bytes]
          \in [mem : {address(m) : m \in Blocks}, bytes : Requests]
    BY <1>2, <1>4
  <2>2. live' \subseteq [mem : {address(m) : m \in Blocks}, bytes : Requests]
    BY <1>1, <1>4, <2>1 DEF IInv, TypeOK
  <2>3. index' + blocks' <= maxblocks /\ i' <= blocks'
    BY <1>1, <1>2, <1>4
  <2> QED
    BY <1>1, <1>2, <1>4, <2>2, <2>3 DEF IInv, TypeOK
<1>13. CallInProgress'
  <2>1. \A j \in k .. k + 0 - 1 : FALSE
    BY <1>4
  <2> QED
    BY <1>1, <1>2, <1>4, <2>1 DEF IInv, CallInProgress
<1>14. LoopInvariant'
  BY <1>1, <1>2 DEF LoopInvariant
<1> QED
  BY <1>10, <1>11, <1>12, <1>13, <1>14 DEF IInv

LEMMA ScanFailedStep ==
  ASSUME IInv, ScanFailed
  PROVE  IInv' /\ [P!Next]_(P!vars)
<1>1. /\ pc = "findFirstFit" /\ i = maxblocks /\ index' = -1
      /\ pc' = "panic" /\ halted' = TRUE
      /\ UNCHANGED <<bitmap, ready, live, op, bytes, total, count, blocks, i>>
  BY DEF ScanFailed
<1>2. /\ ready /\ ~halted /\ op = "malloc" /\ settled = bitmap /\ bytes \in Requests
      /\ blocks = calculateblocks(bytes)
      /\ \A k \in Blocks : k + blocks <= i => ~Fits(bitmap, k, blocks)
  BY <1>1, ScanFacts
<1>3. \A k \in Blocks : ~Fits(bitmap, k, blocks)
  BY <1>1, <1>2 DEF Fits
<1>4. findFirstFit(bitmap, blocks) = -1
  BY <1>3, FirstFit
<1>5. settled' = bitmap
  BY <1>1 DEF settled
<1>6. P!kernelmalloc(bytes)
  <2>1. P!findFirstFit(settled, P!calculateblocks(bytes)) = -1
    BY <1>2, <1>4, SameLayout, SameFirstFit
  <2> QED
    BY <1>1, <1>2, <1>5, <2>1 DEF P!kernelmalloc
<1>7. [P!Next]_(P!vars)
  BY <1>2, <1>6 DEF P!Next
<1>8. P!IInv'
  BY <1>7, ManagerKept DEF IInv
<1>9. TypeOK' /\ CallInProgress' /\ LoopInvariant'
  BY <1>1, <1>2 DEF IInv, TypeOK, CallInProgress, LoopInvariant
<1> QED
  BY <1>7, <1>8, <1>9 DEF IInv

(* setbitmap in progress. *)
LEMMA SetFacts ==
  ASSUME IInv, pc = "setbitmap"
  PROVE  /\ settled = setbitmap(bitmap, index, blocks, value) /\ value \in {0, 1}
         /\ index \in Blocks /\ index \in Nat /\ blocks \in Nat /\ i \in Nat
         /\ i <= blocks /\ index + blocks <= maxblocks /\ maxblocks \in Nat
         /\ \A j \in index .. index + i - 1 : bitmap[j] = value
         /\ bitmap \in Bitmaps
<1>1. settled = setbitmap(bitmap, index, blocks, value) /\ value \in {0, 1}
  BY DEF settled, value
<1>2. /\ index \in Blocks /\ blocks \in Nat /\ i \in Nat /\ bitmap \in Bitmaps
      /\ i <= blocks /\ index + blocks <= maxblocks
      /\ \A j \in index .. index + i - 1 : bitmap[j] = value
  BY DEF IInv, TypeOK, CallInProgress
<1> QED
  BY <1>1, <1>2, LayoutNat DEF Blocks

LEMMA SetMoreStep ==
  ASSUME IInv, SetMore
  PROVE  IInv' /\ [P!Next]_(P!vars)
<1>1. /\ pc = "setbitmap" /\ i < blocks
      /\ bitmap' = [bitmap EXCEPT ![index + i] = value] /\ i' = i + 1
      /\ UNCHANGED <<ready, live, halted, pc, op, bytes, total, count, blocks, index>>
  BY DEF SetMore
<1>2. /\ settled = setbitmap(bitmap, index, blocks, value) /\ value \in {0, 1}
      /\ index \in Blocks /\ index \in Nat /\ blocks \in Nat /\ i \in Nat
      /\ index + blocks <= maxblocks /\ maxblocks \in Nat
      /\ \A j \in index .. index + i - 1 : bitmap[j] = value
      /\ bitmap \in Bitmaps
  BY <1>1, SetFacts
<1>3. value' = value /\ settled' = setbitmap(bitmap', index, blocks, value)
  BY <1>1 DEF value, settled
<1>4. bitmap' \in Bitmaps
  BY <1>1, <1>2 DEF Bitmaps
<1>5. \A j \in Blocks : bitmap'[j] = IF j = index + i THEN value ELSE bitmap[j]
  BY <1>1, <1>2 DEF Bitmaps
<1>6. settled' = settled
  <2>1. index + i \in index .. index + blocks - 1
    BY <1>1, <1>2
  <2>2. \A j \in Blocks : (IF j \in index .. index + blocks - 1 THEN value ELSE bitmap'[j])
                         = (IF j \in index .. index + blocks - 1 THEN value ELSE bitmap[j])
    BY <1>5, <2>1
  <2>3. setbitmap(bitmap', index, blocks, value) = setbitmap(bitmap, index, blocks, value)
    BY <2>2 DEF setbitmap
  <2> QED
    BY <1>2, <1>3, <2>3
<1>7. P!IInv' /\ [P!Next]_(P!vars)
  BY <1>1, <1>6, StutterStep DEF IInv
<1>8. TypeOK'
  BY <1>1, <1>2, <1>4 DEF IInv, TypeOK
<1>9. CallInProgress'
  <2>1. \A j \in index' .. index' + i' - 1 :
          j \in Blocks /\ (j = index + i \/ j \in index .. index + i - 1)
    BY <1>1, <1>2 DEF Blocks
  <2>2. \A j \in index' .. index' + i' - 1 : bitmap'[j] = value'
    BY <1>2, <1>3, <1>5, <2>1
  <2> QED
    BY <1>1, <2>2 DEF IInv, CallInProgress
<1>10. LoopInvariant'
  BY <1>1 DEF IInv, LoopInvariant
<1> QED
  BY <1>7, <1>8, <1>9, <1>10 DEF IInv

LEMMA SetDoneStep ==
  ASSUME IInv, SetDone
  PROVE  IInv' /\ [P!Next]_(P!vars)
<1>1. /\ pc = "setbitmap" /\ i = blocks /\ pc' = "idle"
      /\ UNCHANGED <<bitmap, ready, live, halted>>
      /\ UNCHANGED <<op, bytes, total, count, blocks, index, i>>
  BY DEF SetDone, locals
<1>2. /\ settled = setbitmap(bitmap, index, blocks, value)
      /\ \A j \in index .. index + blocks - 1 : bitmap[j] = value
      /\ bitmap \in Bitmaps
  BY <1>1, SetFacts
<1>3. settled = bitmap
  <2>1. setbitmap(bitmap, index, blocks, value) = [j \in Blocks |-> bitmap[j]]
    BY <1>2 DEF setbitmap
  <2> QED
    BY <1>2, <2>1 DEF Bitmaps
<1>4. settled' = bitmap'
  BY <1>1 DEF settled
<1>5. P!IInv' /\ [P!Next]_(P!vars)
  BY <1>1, <1>3, <1>4, StutterStep DEF IInv
<1>6. TypeOK' /\ CallInProgress' /\ LoopInvariant'
  BY <1>1 DEF IInv, TypeOK, CallInProgress, LoopInvariant
<1> QED
  BY <1>5, <1>6 DEF IInv

LEMMA StutterAllStep ==
  ASSUME IInv, UNCHANGED vars
  PROVE  IInv' /\ [P!Next]_(P!vars)
<1>1. /\ UNCHANGED <<bitmap, ready, live, halted, pc>>
      /\ UNCHANGED <<op, bytes, total, count, blocks, index, i>>
  BY DEF vars, locals
<1>2. settled' = settled /\ value' = value
  BY <1>1 DEF settled, value
<1>3. P!IInv' /\ [P!Next]_(P!vars)
  BY <1>1, <1>2, StutterStep DEF IInv
<1>4. TypeOK' /\ CallInProgress' /\ LoopInvariant'
  BY <1>1, <1>2 DEF IInv, TypeOK, CallInProgress, LoopInvariant, Fits
<1> QED
  BY <1>3, <1>4 DEF IInv

(* Every pass through a loop keeps the invariant, and is a call or nothing. *)
LEMMA NextStep == IInv /\ [Next]_vars => IInv' /\ [P!Next]_(P!vars)
<1> SUFFICES ASSUME IInv, [Next]_vars PROVE IInv' /\ [P!Next]_(P!vars)
  OBVIOUS
<1>1. CASE physicalmemoryinit
  BY <1>1, PhysicalmemoryinitStep
<1>2. CASE \E b \in Requests : CallMalloc(b)
  BY <1>2, CallMallocStep
<1>3. CASE \E a \in live : CallFree(a)
  BY <1>3, CallFreeStep
<1>4. CASE Calculate
  BY <1>4, CalculateMoreStep, CalculateDoneStep DEF Calculate
<1>5. CASE Scan
  BY <1>5, ScanMoreStep, ScanFoundStep, ScanFailedStep DEF Scan
<1>6. CASE Set
  BY <1>6, SetMoreStep, SetDoneStep DEF Set
<1>7. CASE UNCHANGED vars
  BY <1>7, StutterAllStep
<1> QED
  BY <1>1, <1>2, <1>3, <1>4, <1>5, <1>6, <1>7 DEF Next

LEMMA AlwaysIInv == Spec => []IInv
<1>1. Init => IInv
  BY InitIInv
<1>2. IInv /\ [Next]_vars => IInv'
  BY NextStep
<1> QED
  BY <1>1, <1>2, PTL DEF Spec

-----------------------------------------------------------------------------
(* The loops index the bitmap inside its bounds (physicalmemory.c:30-77). *)
THEOREM TypeCorrect == Spec => []TypeOK
<1>1. IInv => TypeOK
  BY DEF IInv
<1> QED
  BY AlwaysIInv, <1>1, PTL

(* calculateblocks and findFirstFit keep their loop invariants, and with them
   return the least block count and the lowest place. *)
THEOREM LoopsCorrect == Spec => []LoopInvariant
<1>1. IInv => LoopInvariant
  BY DEF IInv
<1> QED
  BY AlwaysIInv, <1>1, PTL

(* The two instances of PhysicalMemory are the same specification. *)
LEMMA SameSpecification ==
  /\ P!Init <=> Atomic!Init
  /\ [P!Next]_(P!vars) <=> [Atomic!Next]_(Atomic!vars)
<1>1. P!Init <=> Atomic!Init
  BY DEF P!Init, Atomic!Init, P!Bitmaps, Atomic!Bitmaps, P!Blocks, Atomic!Blocks,
         P!maxblocks, Atomic!maxblocks
<1>2. P!physicalmemoryinit <=> Atomic!physicalmemoryinit
  BY DEF P!physicalmemoryinit, Atomic!physicalmemoryinit, P!initialbitmap,
         Atomic!initialbitmap, P!Blocks, Atomic!Blocks, P!maxblocks, Atomic!maxblocks,
         P!kernelblocks, Atomic!kernelblocks
<1>3. ASSUME NEW b \in Requests
      PROVE  P!kernelmalloc(b) <=> Atomic!kernelmalloc(b)
  BY Zenon DEF P!kernelmalloc, Atomic!kernelmalloc, P!findFirstFit, Atomic!findFirstFit,
         P!Fits, Atomic!Fits, P!setbitmap, Atomic!setbitmap, P!address, Atomic!address,
         P!findoffset, Atomic!findoffset, P!calculateblocks, Atomic!calculateblocks,
         P!Blocks, Atomic!Blocks, P!maxblocks, Atomic!maxblocks
<1>4. ASSUME NEW a \in live
      PROVE  P!kernelfree(a) <=> Atomic!kernelfree(a)
  BY Zenon DEF P!kernelfree, Atomic!kernelfree, P!findindex, Atomic!findindex,
         P!setbitmap, Atomic!setbitmap, P!calculateblocks, Atomic!calculateblocks,
         P!Blocks, Atomic!Blocks, P!maxblocks, Atomic!maxblocks
<1>5. P!Next <=> Atomic!Next
  BY <1>2, <1>3, <1>4 DEF P!Next, Atomic!Next
<1> QED
  BY <1>1, <1>5 DEF P!vars, Atomic!vars

(* kernelmalloc and kernelfree, loop by loop, implement PhysicalMemory, where
   each is one step: whatever was proved there holds of the loops. *)
THEOREM LoopsImplement == Spec => LoopsImplementCalls
<1>1. Init => Atomic!Init
  BY InitIInv, SameSpecification
<1>2. IInv /\ [Next]_vars => [Atomic!Next]_(Atomic!vars)
  BY NextStep, SameSpecification
<1> QED
  BY <1>1, <1>2, AlwaysIInv, PTL DEF Spec, Atomic!Spec, LoopsImplementCalls
=============================================================================
