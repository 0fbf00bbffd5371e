------------------------ MODULE PhysicalMemoryProofs ------------------------
(***************************************************************************)
(* The invariants of PhysicalMemory and its refinement of BlockAllocator,  *)
(* for every heap, kernel size, block size and set of requests.            *)
(***************************************************************************)
EXTENDS PhysicalMemory, WellFoundedInduction, NaturalsInduction, TLAPS

(* The first block of an allocation and the first block past it. *)
First(a) == findindex(a.mem)
Past(a) == First(a) + calculateblocks(a.bytes)

(* LiveDisjoint in blocks: allocations lie past the kernel's blocks, and no
   two of them share one. *)
LiveApart ==
  /\ ~ready => live = {}
  /\ \A a \in live : kernelblocks <= First(a) /\ Past(a) <= maxblocks
  /\ \A a, b \in live : a # b => Past(a) <= First(b) \/ Past(b) <= First(a)

(* The inductive invariant: a place that findFirstFit reports free belongs to
   no allocation because the bitmap agrees with them, and kernelfree clears
   cells of no other because they are apart. *)
IInv == TypeOK /\ BitmapMatchesLive /\ LiveApart

-----------------------------------------------------------------------------
(* The helpers of HeapLayout, for every heap and every map: the proofs of the
   modules that use the memory manager rest on these too. *)

(* The block counts of the heap and of the kernel are natural numbers. *)
LEMMA LayoutNat == maxblocks \in Nat /\ kernelblocks \in Nat /\ kernelblocks <= maxblocks
<1>1. EndMem - StartMem \in Nat
  BY MemoryAssumption
<1> QED
  BY <1>1, MemoryAssumption DEF maxblocks, kernelblocks

(* calculateblocks returns the least positive number of blocks that holds the
   bytes (the loop of physicalmemory.c:30). *)
LEMMA BlocksCoverBytes ==
  ASSUME NEW b \in Nat
  PROVE  /\ calculateblocks(b) \in Nat \ {0}
         /\ b <= calculateblocks(b) * BlockSize
         /\ calculateblocks(b) = 1 \/ (calculateblocks(b) - 1) * BlockSize < b
<1>1. CASE b <= BlockSize
  BY <1>1, MemoryAssumption DEF calculateblocks
<1>2. CASE b > BlockSize
  <2> DEFINE n == (b + BlockSize - 1) \div BlockSize
  <2>1. calculateblocks(b) = n
    BY <1>2, MemoryAssumption DEF calculateblocks
  <2>2. n \in Nat \ {0}
    BY <1>2, MemoryAssumption
  <2>3. b <= n * BlockSize
    BY <1>2, MemoryAssumption
  <2>4. (n - 1) * BlockSize < b
    BY <1>2, MemoryAssumption
  <2> QED
    BY <2>1, <2>2, <2>3, <2>4
<1> QED
  BY <1>1, <1>2, MemoryAssumption

(* It is the only number of that kind. *)
LEMMA BlocksUnique ==
  ASSUME NEW b \in Nat, NEW n \in Nat \ {0},
         b <= n * BlockSize, n = 1 \/ (n - 1) * BlockSize < b
  PROVE  calculateblocks(b) = n
<1> DEFINE m == calculateblocks(b)
<1>1. /\ m \in Nat \ {0} /\ b <= m * BlockSize
      /\ m = 1 \/ (m - 1) * BlockSize < b
  BY BlocksCoverBytes
<1> HIDE DEF m
<1>2. ASSUME NEW x \in Nat, NEW y \in Nat, x <= y
      PROVE  x * BlockSize \in Nat /\ y * BlockSize \in Nat /\ x * BlockSize <= y * BlockSize
  BY <1>2, MemoryAssumption
<1>3. ~(m < n)
  <2> SUFFICES ASSUME m < n PROVE FALSE
    OBVIOUS
  <2>1. m \in Nat /\ n - 1 \in Nat /\ m <= n - 1 /\ n # 1
    BY <1>1
  <2>2. /\ m * BlockSize \in Nat /\ (n - 1) * BlockSize \in Nat
        /\ m * BlockSize <= (n - 1) * BlockSize
    BY <1>2, <2>1
  <2> QED
    BY <1>1, <2>1, <2>2
<1>4. ~(n < m)
  <2> SUFFICES ASSUME n < m PROVE FALSE
    OBVIOUS
  <2>1. n \in Nat /\ m - 1 \in Nat /\ n <= m - 1 /\ m # 1
    BY <1>1
  <2>2. /\ n * BlockSize \in Nat /\ (m - 1) * BlockSize \in Nat
        /\ n * BlockSize <= (m - 1) * BlockSize
    BY <1>2, <2>1
  <2> QED
    BY <1>1, <2>1, <2>2
<1>5. m = n
  BY <1>1, <1>3, <1>4
<1> QED
  BY <1>5 DEF m

(* kernelfree's findindex finds the index that kernelmalloc's address was
   made from (physicalmemory.c:86 and :95). *)
LEMMA FindIndexInverse ==
  ASSUME NEW k \in Nat
  PROVE  findindex(address(k)) = k
<1>1. address(k) - StartMem = k * BlockSize
  BY MemoryAssumption DEF address, findoffset
<1>2. (k * BlockSize) \div BlockSize = k
  BY MemoryAssumption
<1> QED
  BY <1>1, <1>2 DEF findindex

(* A non-empty set of natural numbers has a least member. *)
LEMMA LeastExists ==
  ASSUME NEW S, S \subseteq Nat, S # {}
  PROVE  \E x \in S : \A y \in S : x <= y
<1>1. PICK x \in S : \A y \in S : ~ (<<y, x>> \in OpToRel(<, Nat))
  BY WFMin, NatLessThanWellFounded
<1>2. \A y \in S : x <= y
  <2> TAKE y \in S
  <2>1. ~ (y < x)
    BY <1>1 DEF OpToRel
  <2> QED
    BY <2>1
<1> QED
  BY <1>2

(* findFirstFit returns the lowest place with room, or -1 and there is none. *)
LEMMA FirstFit ==
  ASSUME NEW map, NEW n
  PROVE  \/ /\ findFirstFit(map, n) = -1
            /\ \A k \in Blocks : ~Fits(map, k, n)
         \/ /\ findFirstFit(map, n) \in Blocks
            /\ Fits(map, findFirstFit(map, n), n)
            /\ \A k \in Blocks : Fits(map, k, n) => findFirstFit(map, n) <= k
<1> DEFINE fits == {k \in Blocks : Fits(map, k, n)}
<1>1. CASE fits = {}
  BY <1>1 DEF findFirstFit
<1>2. CASE fits # {}
  <2>1. fits \subseteq Nat
    BY LayoutNat DEF Blocks
  <2>2. \E x \in fits : \A y \in fits : x <= y
    BY <1>2, <2>1, LeastExists
  <2>3. findFirstFit(map, n) = CHOOSE x \in fits : \A y \in fits : x <= y
    BY <1>2 DEF findFirstFit
  <2>4. findFirstFit(map, n) \in fits /\ \A y \in fits : findFirstFit(map, n) <= y
    BY <2>2, <2>3
  <2> QED
    BY <2>4
<1> QED
  BY <1>1, <1>2

(* What findFirstFit must return when a lowest place is known. *)
LEMMA FirstFitUnique ==
  ASSUME NEW map, NEW n, NEW k \in Blocks, Fits(map, k, n),
         \A m \in Blocks : Fits(map, m, n) => k <= m
  PROVE  findFirstFit(map, n) = k
<1> DEFINE f == findFirstFit(map, n)
<1>1. \/ f = -1 /\ \A m \in Blocks : ~Fits(map, m, n)
      \/ /\ f \in Blocks /\ Fits(map, f, n)
         /\ \A m \in Blocks : Fits(map, m, n) => f <= m
  BY FirstFit
<1> HIDE DEF f
<1>2. f \in Blocks /\ Fits(map, f, n) /\ f <= k
  BY <1>1
<1>3. k <= f
  BY <1>2
<1>4. f = k
  BY <1>2, <1>3, LayoutNat DEF Blocks
<1> QED
  BY <1>4 DEF f

(* setbitmap returns a bitmap. *)
LEMMA SetBitmapType ==
  ASSUME NEW map \in Bitmaps, NEW k, NEW n, NEW v \in {0, 1}
  PROVE  setbitmap(map, k, n, v) \in Bitmaps
BY DEF setbitmap, Bitmaps

-----------------------------------------------------------------------------
(* A kept pointer is the address of its first block. *)
LEMMA LiveAddress ==
  ASSUME TypeOK, NEW a \in live
  PROVE  /\ a.bytes \in Nat
         /\ First(a) \in Blocks /\ First(a) \in Nat
         /\ calculateblocks(a.bytes) \in Nat \ {0}
         /\ a.mem = StartMem + First(a) * BlockSize
         /\ Past(a) = First(a) + calculateblocks(a.bytes)
         /\ Past(a) \in Nat
<1>1. a \in [mem : {address(i) : i \in Blocks}, bytes : Requests]
  BY DEF TypeOK
<1>2. PICK k \in Blocks : a.mem = address(k)
  BY <1>1
<1>3. a.bytes \in Nat
  BY <1>1, MemoryAssumption
<1>4. k \in Nat
  BY LayoutNat DEF Blocks
<1>5. First(a) = k
  BY <1>2, <1>4, FindIndexInverse DEF First
<1>6. calculateblocks(a.bytes) \in Nat \ {0}
  BY <1>3, BlocksCoverBytes
<1>7. a.mem = StartMem + k * BlockSize
  BY <1>2 DEF address, findoffset
<1> QED
  BY <1>3, <1>4, <1>5, <1>6, <1>7 DEF Past

(* Its cells are the blocks from First to Past. *)
LEMMA LiveCells ==
  ASSUME TypeOK, NEW a \in live
  PROVE  Cells(a) = First(a) .. Past(a) - 1
<1>1. Cells(a) = First(a) .. First(a) + calculateblocks(a.bytes) - 1
  BY DEF Cells, First
<1> QED
  BY <1>1, LiveAddress

(* The fields of the record that kernelmalloc adds to live. *)
LEMMA NewAllocation ==
  ASSUME NEW k \in Blocks, NEW b \in Requests, NEW a,
         a = [mem |-> address(k), bytes |-> b]
  PROVE  /\ a \in [mem : {address(i) : i \in Blocks}, bytes : Requests]
         /\ a.bytes = b /\ a.mem = address(k)
         /\ First(a) = k
         /\ Past(a) = k + calculateblocks(b)
<1>1. k \in Nat
  BY LayoutNat DEF Blocks
<1>2. findindex(address(k)) = k
  BY <1>1, FindIndexInverse
<1>3. a.mem = address(k) /\ a.bytes = b
  OBVIOUS
<1> QED
  BY <1>2, <1>3 DEF First, Past

(* What a place reported free has to do with the allocations. *)
LEMMA FreePlaceApart ==
  ASSUME IInv, ready, NEW k \in Blocks, NEW n \in Nat \ {0}, Fits(bitmap, k, n)
  PROVE  /\ kernelblocks <= k /\ k + n <= maxblocks
         /\ \A a \in live : k + n <= First(a) \/ Past(a) <= k
<1>1. k \in Nat /\ k + n <= maxblocks /\ maxblocks \in Nat /\ kernelblocks \in Nat
  BY LayoutNat DEF Blocks, Fits
<1>2. \A j \in k .. k + n - 1 : j \in Blocks /\ bitmap[j] = 0
  BY <1>1 DEF Fits, Blocks
<1>3. \A j \in Blocks :
        bitmap[j] = 1 <=> (j < kernelblocks \/ \E a \in live : j \in Cells(a))
  BY DEF IInv, BitmapMatchesLive
<1>4. kernelblocks <= k
  <2>1. k \in k .. k + n - 1
    BY <1>1
  <2>2. bitmap[k] = 0 /\ ~(k < kernelblocks)
    BY <2>1, <1>2, <1>3
  <2> QED
    BY <2>2, <1>1
<1>5. ASSUME NEW a \in live, ~(k + n <= First(a)), ~(Past(a) <= k)
      PROVE  FALSE
  <2>1. First(a) \in Nat /\ Past(a) \in Nat /\ First(a) < Past(a)
    BY LiveAddress DEF IInv
  <2>2. Cells(a) = First(a) .. Past(a) - 1
    BY LiveCells DEF IInv
  <2>3. PICK j \in Nat : j \in k .. k + n - 1 /\ j \in First(a) .. Past(a) - 1
    <3> DEFINE j == IF k <= First(a) THEN First(a) ELSE k
    <3>1. j \in Nat /\ j \in k .. k + n - 1 /\ j \in First(a) .. Past(a) - 1
      BY <1>1, <1>5, <2>1
    <3> QED
      BY <3>1
  <2>4. j \in Blocks /\ bitmap[j] = 0
    BY <1>2, <2>3
  <2>5. bitmap[j] = 1
    BY <1>3, <2>2, <2>3, <2>4
  <2> QED
    BY <2>4, <2>5
<1> QED
  BY <1>1, <1>4, <1>5

-----------------------------------------------------------------------------
(* physicalmemoryinit, kernelmalloc and kernelfree establish and keep IInv. *)
LEMMA InitIInv == Init => IInv
BY DEF Init, IInv, TypeOK, BitmapMatchesLive, LiveApart

LEMMA PhysicalmemoryinitIInv ==
  ASSUME IInv, physicalmemoryinit
  PROVE  IInv'
<1>1. live = {} /\ live' = {} /\ ready' /\ bitmap' = initialbitmap
  BY DEF physicalmemoryinit, IInv, LiveApart
<1>2. TypeOK'
  BY <1>1 DEF physicalmemoryinit, IInv, TypeOK, initialbitmap, Bitmaps
<1>3. BitmapMatchesLive'
  BY <1>1 DEF BitmapMatchesLive, initialbitmap
<1>4. LiveApart'
  BY <1>1 DEF physicalmemoryinit, LiveApart
<1> QED
  BY <1>2, <1>3, <1>4 DEF IInv

LEMMA KernelmallocIInv ==
  ASSUME IInv, NEW b \in Requests, kernelmalloc(b)
  PROVE  IInv'
<1> DEFINE n == calculateblocks(b)
           k == findFirstFit(bitmap, n)
           a == [mem |-> address(k), bytes |-> b]
<1>1. n \in Nat \ {0}
  BY MemoryAssumption, BlocksCoverBytes
<1>2. CASE k = -1
  <2>1. UNCHANGED <<bitmap, ready, live>> /\ halted' = TRUE
    BY <1>2 DEF kernelmalloc
  <2> QED
    BY <2>1 DEF IInv, TypeOK, BitmapMatchesLive, LiveApart, Cells
<1>3. CASE k # -1
  <2>1. /\ ready /\ ready'
        /\ bitmap' = setbitmap(bitmap, k, n, 1)
        /\ live' = live \cup {a}
        /\ UNCHANGED <<ready, halted>>
    BY <1>3 DEF kernelmalloc
  <2>2. k \in Blocks /\ Fits(bitmap, k, n)
    BY <1>3, FirstFit
  <2> HIDE DEF n, k
  <2>3. /\ a \in [mem : {address(i) : i \in Blocks}, bytes : Requests]
        /\ First(a) = k /\ Past(a) = k + n /\ a.bytes = b
    BY <2>2, NewAllocation DEF n
  <2> HIDE DEF a
  <2>4. /\ kernelblocks <= k /\ k + n <= maxblocks
        /\ \A c \in live : k + n <= First(c) \/ Past(c) <= k
    BY <1>1, <2>1, <2>2, FreePlaceApart
  <2>5. TypeOK'
    <3>1. bitmap' \in Bitmaps
      BY <2>1, SetBitmapType DEF IInv, TypeOK
    <3> QED
      BY <2>1, <2>3, <3>1 DEF IInv, TypeOK
  <2>6. LiveApart'
    <3>1. \A c \in live' : c = a \/ c \in live
      BY <2>1
    <3>2. \A c \in live : kernelblocks <= First(c) /\ Past(c) <= maxblocks
      BY DEF IInv, LiveApart
    <3>3. \A c, d \in live : c # d => Past(c) <= First(d) \/ Past(d) <= First(c)
      BY DEF IInv, LiveApart
    <3>4. \A c \in live' : kernelblocks <= First(c) /\ Past(c) <= maxblocks
      BY <2>3, <2>4, <3>1, <3>2
    <3>5. \A c, d \in live' : c # d => Past(c) <= First(d) \/ Past(d) <= First(c)
      BY <2>3, <2>4, <3>1, <3>3
    <3> QED
      BY <2>1, <3>4, <3>5 DEF LiveApart
  <2>7. BitmapMatchesLive'
    <3>1. Cells(a) = k .. k + n - 1
      BY <2>3 DEF Cells, First, Past, n
    <3>2. \A j \in Blocks :
            bitmap[j] = 1 <=> (j < kernelblocks \/ \E c \in live : j \in Cells(c))
      BY <2>1 DEF IInv, BitmapMatchesLive
    <3>3. \A j \in Blocks : bitmap'[j] = IF j \in k .. k + n - 1 THEN 1 ELSE bitmap[j]
      BY <2>1 DEF setbitmap
    <3>4. \A j \in Blocks : (\E c \in live' : j \in Cells(c))
                              <=> (j \in Cells(a) \/ \E c \in live : j \in Cells(c))
      BY <2>1
    <3>5. \A j \in Blocks :
            bitmap'[j] = 1 <=> (j < kernelblocks \/ \E c \in live' : j \in Cells(c))
      BY <3>1, <3>2, <3>3, <3>4
    <3> QED
      BY <3>5 DEF BitmapMatchesLive, Cells
  <2> QED
    BY <2>5, <2>6, <2>7 DEF IInv
<1> QED
  BY <1>2, <1>3

LEMMA KernelfreeIInv ==
  ASSUME IInv, NEW a \in live, kernelfree(a)
  PROVE  IInv'
<1> DEFINE n == calculateblocks(a.bytes)
<1>1. /\ ready /\ ready'
      /\ bitmap' = setbitmap(bitmap, First(a), n, 0)
      /\ live' = live \ {a}
      /\ UNCHANGED <<ready, halted>>
  BY DEF kernelfree, First
<1>2. TypeOK'
  <2>1. bitmap' \in Bitmaps
    BY <1>1, SetBitmapType DEF IInv, TypeOK
  <2> QED
    BY <1>1, <2>1 DEF IInv, TypeOK
<1>3. LiveApart'
  BY <1>1 DEF IInv, LiveApart
<1>4. BitmapMatchesLive'
  <2>1. /\ Cells(a) = First(a) .. Past(a) - 1 /\ Past(a) = First(a) + n
        /\ Cells(a) = First(a) .. First(a) + n - 1
    BY LiveCells, LiveAddress DEF IInv
  <2>2. \A j \in Blocks :
          bitmap[j] = 1 <=> (j < kernelblocks \/ \E c \in live : j \in Cells(c))
    BY <1>1 DEF IInv, BitmapMatchesLive
  <2>3. \A j \in Blocks : bitmap'[j] = IF j \in Cells(a) THEN 0 ELSE bitmap[j]
    BY <1>1, <2>1 DEF setbitmap
  <2>4. First(a) \in Nat /\ Past(a) \in Nat /\ kernelblocks <= First(a)
    BY LiveAddress DEF IInv, LiveApart
  <2>5. \A j \in Blocks : j \in Cells(a) => ~(j < kernelblocks)
    BY <2>1, <2>4, LayoutNat DEF Blocks
  <2>6. ASSUME NEW c \in live, c # a, NEW j \in Blocks, j \in Cells(a), j \in Cells(c)
        PROVE  FALSE
    <3>1. Cells(c) = First(c) .. Past(c) - 1 /\ First(c) \in Nat /\ Past(c) \in Nat
      BY LiveCells, LiveAddress DEF IInv
    <3>2. Past(a) <= First(c) \/ Past(c) <= First(a)
      BY <2>6 DEF IInv, LiveApart
    <3> QED
      BY <2>1, <2>4, <2>6, <3>1, <3>2, LayoutNat DEF Blocks
  <2>7. \A j \in Blocks :
          bitmap'[j] = 1 <=> (j < kernelblocks \/ \E c \in live' : j \in Cells(c))
    BY <1>1, <2>2, <2>3, <2>5, <2>6
  <2> QED
    BY <2>7 DEF BitmapMatchesLive, Cells
<1> QED
  BY <1>2, <1>3, <1>4 DEF IInv

(* IInv is inductive. *)
LEMMA NextIInv == IInv /\ [Next]_vars => IInv'
<1> SUFFICES ASSUME IInv, [Next]_vars PROVE IInv'
  OBVIOUS
<1>1. CASE physicalmemoryinit
  BY <1>1, PhysicalmemoryinitIInv
<1>2. CASE \E b \in Requests : kernelmalloc(b)
  BY <1>2, KernelmallocIInv
<1>3. CASE \E a \in live : kernelfree(a)
  BY <1>3, KernelfreeIInv
<1>4. CASE UNCHANGED vars
  BY <1>4 DEF vars, IInv, TypeOK, BitmapMatchesLive, LiveApart, Cells
<1> QED
  BY <1>1, <1>2, <1>3, <1>4 DEF Next

LEMMA AlwaysIInv == Spec => []IInv
<1>1. Init => IInv
  BY InitIInv
<1>2. IInv /\ [Next]_vars => IInv'
  BY NextIInv
<1> QED
  BY <1>1, <1>2, PTL DEF Spec

(* Pointers that callers hold are addresses of blocks, and the bitmap keeps
   its shape, in every heap. *)
THEOREM TypeCorrect == Spec => []TypeOK
<1>1. IInv => TypeOK
  BY DEF IInv
<1> QED
  BY <1>1, AlwaysIInv, PTL

(* A block is marked in the bitmap exactly when it is the kernel's or held,
   after any sequence of kernelmalloc and kernelfree. *)
THEOREM BitmapExact == Spec => []BitmapMatchesLive
<1>1. IInv => BitmapMatchesLive
  BY DEF IInv
<1> QED
  BY <1>1, AlwaysIInv, PTL

(* What the allocations have in blocks they have in bytes. *)
LEMMA ApartDisjoint == IInv => LiveDisjoint
<1> SUFFICES ASSUME IInv PROVE LiveDisjoint
  OBVIOUS
<1>1. ASSUME NEW a \in live
      PROVE  /\ a.mem = StartMem + First(a) * BlockSize
             /\ a.mem + a.bytes <= StartMem + Past(a) * BlockSize
             /\ First(a) \in Nat /\ Past(a) \in Nat /\ a.bytes \in Nat
  <2> DEFINE n == calculateblocks(a.bytes)
             f == First(a)
  <2>1. /\ a.bytes \in Nat /\ f \in Nat /\ n \in Nat
        /\ a.mem = StartMem + f * BlockSize /\ Past(a) = f + n
    BY LiveAddress DEF IInv
  <2>2. a.bytes <= n * BlockSize
    BY <2>1, BlocksCoverBytes
  <2> HIDE DEF n, f
  <2>3. (f + n) * BlockSize = f * BlockSize + n * BlockSize
    BY <2>1, MemoryAssumption
  <2>4. /\ f * BlockSize \in Nat /\ n * BlockSize \in Nat
        /\ StartMem \in Nat /\ f + n \in Nat
    BY <2>1, MemoryAssumption
  <2>5. a.mem + a.bytes <= StartMem + (f + n) * BlockSize
    BY <2>1, <2>2, <2>3, <2>4
  <2> QED
    BY <2>1, <2>4, <2>5 DEF f
<1>2. ASSUME NEW x \in Nat, NEW y \in Nat, x <= y
      PROVE  /\ x * BlockSize \in Nat /\ y * BlockSize \in Nat
             /\ x * BlockSize <= y * BlockSize
  BY <1>2, MemoryAssumption
<1>3. ASSUME NEW a \in live, NEW b \in live, Past(a) <= First(b)
      PROVE  a.mem + a.bytes <= b.mem
  <2>1. Past(a) * BlockSize <= First(b) * BlockSize
    BY <1>1, <1>2, <1>3
  <2>2. /\ Past(a) * BlockSize \in Nat /\ First(b) * BlockSize \in Nat
        /\ First(a) * BlockSize \in Nat /\ StartMem \in Nat
    BY <1>1, <1>2, MemoryAssumption
  <2> QED
    BY <1>1, <2>1, <2>2
<1>4. ASSUME NEW a \in live
      PROVE  /\ StartMem + kernelblocks * BlockSize <= a.mem
             /\ a.mem + a.bytes <= StartMem + maxblocks * BlockSize
  <2>1. kernelblocks <= First(a) /\ Past(a) <= maxblocks
    BY DEF IInv, LiveApart
  <2>2. /\ kernelblocks * BlockSize <= First(a) * BlockSize
        /\ Past(a) * BlockSize <= maxblocks * BlockSize
    BY <1>1, <1>2, <2>1, LayoutNat
  <2>3. /\ kernelblocks * BlockSize \in Nat /\ First(a) * BlockSize \in Nat
        /\ Past(a) * BlockSize \in Nat /\ maxblocks * BlockSize \in Nat
        /\ StartMem \in Nat
    BY <1>1, <1>2, LayoutNat, MemoryAssumption
  <2> QED
    BY <1>1, <2>2, <2>3
<1>5. \A a, b \in live : a # b => Past(a) <= First(b) \/ Past(b) <= First(a)
  BY DEF IInv, LiveApart
<1> QED
  BY <1>3, <1>4, <1>5 DEF LiveDisjoint

(* No two allocations overlap by a byte, none reaches into the kernel's
   blocks or past the heap, whatever the heap's and the requests' sizes. *)
THEOREM AllocationsDisjoint == Spec => []LiveDisjoint
<1>1. IInv => LiveDisjoint
  BY ApartDisjoint
<1> QED
  BY <1>1, AlwaysIInv, PTL

-----------------------------------------------------------------------------
(* BlockAllocator counts a grant in bytes, the bitmap in blocks. *)
LEMMA ExtentBlocks ==
  ASSUME NEW b \in Nat
  PROVE  Promise!Extent(b) = calculateblocks(b) * BlockSize
BY MemoryAssumption DEF Promise!Extent, calculateblocks

(* A run of blocks within the heap and apart from every allocation has room
   for a grant, and the other way round. *)
LEMMA RoomInBlocks ==
  ASSUME TypeOK, NEW k \in Nat, NEW n \in Nat \ {0}
  PROVE  Promise!Room(StartMem + k * BlockSize, n * BlockSize)
           <=> /\ kernelblocks <= k /\ k + n <= maxblocks
               /\ \A a \in live : k + n <= First(a) \/ Past(a) <= k
<1>1. ASSUME NEW x \in Nat, NEW y \in Nat
      PROVE  StartMem + x * BlockSize <= StartMem + y * BlockSize <=> x <= y
  <2>1. x * BlockSize \in Nat /\ y * BlockSize \in Nat /\ StartMem \in Nat
    BY MemoryAssumption
  <2>2. x * BlockSize <= y * BlockSize <=> x <= y
    BY MemoryAssumption
  <2> QED
    BY <2>1, <2>2
<1>2. ASSUME NEW x \in Nat, NEW y \in Nat
      PROVE  StartMem + x * BlockSize + y * BlockSize = StartMem + (x + y) * BlockSize
  BY MemoryAssumption
<1>3. ASSUME NEW a \in live
      PROVE  /\ a.mem = StartMem + First(a) * BlockSize
             /\ a.mem + Promise!Extent(a.bytes) = StartMem + Past(a) * BlockSize
             /\ First(a) \in Nat /\ Past(a) \in Nat
  <2>1. /\ a.bytes \in Nat /\ First(a) \in Nat /\ Past(a) \in Nat
        /\ calculateblocks(a.bytes) \in Nat
        /\ a.mem = StartMem + First(a) * BlockSize
        /\ Past(a) = First(a) + calculateblocks(a.bytes)
    BY LiveAddress
  <2>2. Promise!Extent(a.bytes) = calculateblocks(a.bytes) * BlockSize
    BY <2>1, ExtentBlocks
  <2> QED
    BY <1>2, <2>1, <2>2
<1>4. StartMem + k * BlockSize + n * BlockSize = StartMem + (k + n) * BlockSize
  BY <1>2
<1>5. k \in Nat /\ k + n \in Nat
  OBVIOUS
<1>6. /\ StartMem + kernelblocks * BlockSize <= StartMem + k * BlockSize
            <=> kernelblocks <= k
      /\ StartMem + (k + n) * BlockSize <= StartMem + maxblocks * BlockSize
            <=> k + n <= maxblocks
  BY <1>1, <1>5, LayoutNat
<1>7. ASSUME NEW a \in live
      PROVE  /\ StartMem + (k + n) * BlockSize <= a.mem <=> k + n <= First(a)
             /\ a.mem + Promise!Extent(a.bytes) <= StartMem + k * BlockSize
                   <=> Past(a) <= k
  BY <1>1, <1>3, <1>5
<1> QED
  BY <1>4, <1>6, <1>7 DEF Promise!Room

(* A call that finds a place is a grant. *)
LEMMA KernelmallocGrants ==
  ASSUME IInv, NEW b \in Requests, kernelmalloc(b),
         findFirstFit(bitmap, calculateblocks(b)) # -1
  PROVE  ~halted => Promise!Grant(b)
<1> DEFINE n == calculateblocks(b)
           k == findFirstFit(bitmap, n)
<1>1. b \in Nat /\ n \in Nat \ {0}
  BY MemoryAssumption, BlocksCoverBytes
<1>2. k \in Blocks /\ Fits(bitmap, k, n)
  BY FirstFit
<1>3. ready /\ halted' = halted /\ live' = live \cup {[mem |-> address(k), bytes |-> b]}
  BY DEF kernelmalloc
<1> HIDE DEF n, k
<1>4. k \in Nat /\ address(k) = StartMem + k * BlockSize
  BY <1>2, LayoutNat DEF Blocks, address, findoffset
<1>5. /\ kernelblocks <= k /\ k + n <= maxblocks
      /\ \A a \in live : k + n <= First(a) \/ Past(a) <= k
  BY <1>1, <1>2, <1>3, FreePlaceApart
<1>6. Promise!Extent(b) = n * BlockSize
  BY <1>1, ExtentBlocks DEF n
<1>7. Promise!Room(address(k), Promise!Extent(b))
  BY <1>1, <1>4, <1>5, <1>6, RoomInBlocks DEF IInv
<1>8. address(k) \in (StartMem + kernelblocks * BlockSize) .. (StartMem + maxblocks * BlockSize)
  <2>1. kernelblocks <= k /\ k <= maxblocks
    BY <1>1, <1>4, <1>5, LayoutNat
  <2>2. kernelblocks * BlockSize <= k * BlockSize /\ k * BlockSize <= maxblocks * BlockSize
    BY <1>4, <2>1, LayoutNat, MemoryAssumption
  <2>3. /\ kernelblocks * BlockSize \in Nat /\ k * BlockSize \in Nat
        /\ maxblocks * BlockSize \in Nat /\ StartMem \in Nat
    BY <1>4, LayoutNat, MemoryAssumption
  <2> QED
    BY <1>4, <2>2, <2>3
<1> QED
  BY <1>3, <1>7, <1>8 DEF Promise!Grant

(* A call that panics is a refusal, which is due: a block-aligned place with
   room would have been found free in the bitmap. *)
LEMMA KernelmallocRefuses ==
  ASSUME IInv, NEW b \in Requests, kernelmalloc(b),
         findFirstFit(bitmap, calculateblocks(b)) = -1
  PROVE  ~halted => Promise!Refuse(b)
<1> DEFINE n == calculateblocks(b)
           Low == StartMem + kernelblocks * BlockSize
<1>1. b \in Nat /\ n \in Nat \ {0}
  BY MemoryAssumption, BlocksCoverBytes
<1>2. \A k \in Blocks : ~Fits(bitmap, k, n)
  BY FirstFit, LayoutNat DEF Blocks
<1>3. ready /\ halted' = TRUE /\ live' = live
  BY DEF kernelmalloc
<1> HIDE DEF n
<1>4. Promise!Extent(b) = n * BlockSize
  BY <1>1, ExtentBlocks DEF n
<1>5. ASSUME NEW d \in Nat, Promise!Room(Low + d * BlockSize, Promise!Extent(b))
      PROVE  FALSE
  <2> DEFINE k == kernelblocks + d
  <2>1. k \in Nat /\ Low + d * BlockSize = StartMem + k * BlockSize
    BY LayoutNat, MemoryAssumption
  <2>2. Promise!Room(StartMem + k * BlockSize, n * BlockSize)
    BY <1>4, <1>5, <2>1
  <2> HIDE DEF k
  <2>3. /\ kernelblocks <= k /\ k + n <= maxblocks
        /\ \A a \in live : k + n <= First(a) \/ Past(a) <= k
    BY <1>1, <2>1, <2>2, RoomInBlocks DEF IInv
  <2>4. k \in Blocks
    BY <1>1, <2>1, <2>3, LayoutNat DEF Blocks
  <2>5. ASSUME NEW j \in k .. k + n - 1
        PROVE  bitmap[j] = 0
    <3>1. j \in Blocks /\ ~(j < kernelblocks)
      BY <1>1, <2>1, <2>3, LayoutNat DEF Blocks
    <3>2. \A a \in live : j \notin Cells(a)
      <4> SUFFICES ASSUME NEW a \in live PROVE j \notin Cells(a)
        OBVIOUS
      <4>1. /\ Cells(a) = First(a) .. Past(a) - 1
            /\ First(a) \in Nat /\ Past(a) \in Nat
        BY LiveCells, LiveAddress DEF IInv
      <4> QED
        BY <1>1, <2>1, <2>3, <4>1
    <3>3. bitmap[j] # 1
      BY <1>3, <3>1, <3>2 DEF IInv, BitmapMatchesLive
    <3> QED
      BY <3>1, <3>3 DEF IInv, TypeOK, Bitmaps
  <2>6. Fits(bitmap, k, n)
    BY <2>3, <2>5 DEF Fits
  <2> QED
    BY <1>2, <2>4, <2>6
<1> QED
  BY <1>3, <1>5 DEF Promise!Refuse

(* Every step of the manager is a step of BlockAllocator or none. *)
LEMMA NextPromise == IInv /\ [Next]_vars => [Promise!Next]_(Promise!vars)
<1> SUFFICES ASSUME IInv, [Next]_vars PROVE [Promise!Next]_(Promise!vars)
  OBVIOUS
<1>1. CASE physicalmemoryinit
  BY <1>1 DEF physicalmemoryinit, Promise!vars
<1>2. ASSUME NEW b \in Requests, kernelmalloc(b)
      PROVE  Promise!Next
  <2>1. ~halted
    BY <1>2 DEF kernelmalloc
  <2>2. Promise!Grant(b) \/ Promise!Refuse(b)
    BY <1>2, <2>1, KernelmallocGrants, KernelmallocRefuses
  <2> QED
    BY <2>2 DEF Promise!Next
<1>3. ASSUME NEW a \in live, kernelfree(a)
      PROVE  Promise!Next
  BY <1>3 DEF kernelfree, Promise!Next, Promise!Return
<1>4. CASE UNCHANGED vars
  BY <1>4 DEF vars, Promise!vars
<1> QED
  BY <1>1, <1>2, <1>3, <1>4 DEF Next

(* The bitmap manager implements BlockAllocator: what kernelmalloc returns is
   room that nobody holds, and it panics only when no place has room. *)
THEOREM KeepsPromise == Spec => PromiseKept
<1>1. Init => Promise!Init
  BY DEF Init, Promise!Init
<1>2. IInv /\ [Next]_vars => [Promise!Next]_(Promise!vars)
  BY NextPromise
<1> QED
  BY <1>1, <1>2, AlwaysIInv, PTL DEF Spec, Promise!Spec, PromiseKept
=============================================================================
