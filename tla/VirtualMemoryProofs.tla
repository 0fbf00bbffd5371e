------------------------ MODULE VirtualMemoryProofs ------------------------
(***************************************************************************)
(* The safety properties of VirtualMemory, for every heap, every number of *)
(* tables and entries, and whatever callers map where, in any order.       *)
(***************************************************************************)
EXTENDS VirtualMemory, SequenceTheorems, TLAPS

(* PhysicalMemory and what is proved of it, as the memory manager below. *)
H == INSTANCE PhysicalMemoryProofs

(* The pages of the heap, and the allocation of one of them. *)
FirstPage == StartMem \div BlockSize
HeapPages == {FirstPage + k : k \in Blocks}
Page(q) == [mem |-> q * PAGE_SIZE, bytes |-> PAGE_SIZE]

DirIndices == 0 .. Tables - 1
TableIndices == 0 .. Pages - 1
Addresses == 0 .. 2 * Frames - 1
PageTables == [TableIndices -> Entries]
Directories == [DirIndices -> Entries]
Filling == {"tables", "fill", "directory"}
Entering == {"entries", "setpdir", "enablepaging"}
Places == Filling \cup Entering \cup {"done"}
Passes == 0 .. IdentityTables - 1
Inits == [pc : Places, table : Passes, i : 0 .. Pages, tables : Seq(HeapPages),
          dir : HeapPages \cup {0}]

(* The entry that virtualinit makes for a page, and the k-th table it fills. *)
PresentEntry(p) == setframe(setflag(zero), p)
IdentityTable(k) == [j \in TableIndices |-> PresentEntry(k * Pages + j)]

(* The directory is init.dir from its allocation on. *)
HasDirectory == init.pc \notin Filling
Directory == memory[init.dir]

Shapes ==
  /\ H!IInv
  /\ init \in Inits /\ paging \in BOOLEAN
  /\ memory = [q \in DOMAIN memory |-> memory[q]]
  /\ \A q \in DOMAIN memory :
       memory[q] \in IF HasDirectory /\ q = init.dir THEN Directories ELSE PageTables
  /\ tlb \in [Virtual -> Addresses \cup {Nowhere}]
  /\ asked \in [Virtual -> Addresses \cup {Nowhere}]
  /\ allocated \subseteq Virtual /\ unflushed \subseteq Virtual

(* A page with entries in it is an allocation of the heap. *)
TablesOwned ==
  \A q \in DOMAIN memory : q \in HeapPages /\ Page(q) \in live

(* The passes of the loop that is running have filled their entries. *)
PassesDone ==
  \A j \in TableIndices :
    j < init.i => memory[init.tables[init.table + 1]][j] = PresentEntry(init.table * Pages + j)

(* How far virtualinit has come. *)
Progress ==
  /\ Len(init.tables) = IF init.pc = "tables" THEN init.table ELSE IdentityTables
  /\ \A k \in DOMAIN init.tables : init.tables[k] \in DOMAIN memory
  /\ \A k, m \in DOMAIN init.tables : k # m => init.tables[k] # init.tables[m]
  /\ init.pc \in {"directory", "setpdir", "enablepaging", "done"} => init.table = 0
  /\ init.pc # "fill" => init.i = 0
  /\ init.pc = "fill" => PassesDone
  /\ paging <=> init.pc = "done"
  /\ curdir = IF init.pc \in {"enablepaging", "done"} THEN init.dir ELSE 0
  /\ ~paging => /\ \A v \in Virtual : asked[v] = Nowhere /\ tlb[v] = Nowhere
                /\ allocated = {}

(* How many tables are filled, and how many are in the directory. *)
Filled == CASE init.pc = "tables" -> 0
            [] init.pc = "fill" -> init.table
            [] OTHER -> IdentityTables
Entered == IF init.pc = "entries" THEN init.table ELSE IdentityTables

(* A table that is filled stays as it is. *)
TablesFilled ==
  \A k \in Passes : k < Filled => memory[init.tables[k + 1]] = IdentityTable(k)

(* An entry of the directory is not present, or is the only one to name a
   table; the identity tables have the first ones. *)
DirectoryKept ==
  HasDirectory =>
    /\ init.dir \in DOMAIN memory
    /\ \A k \in DOMAIN init.tables : init.tables[k] # init.dir
    /\ \A d \in DirIndices :
         /\ Directory[d].bit31 = 0
         /\ Directory[d].present => Directory[d].frame \in DOMAIN memory \ {init.dir}
         /\ \A c \in DirIndices :
              c # d /\ Directory[c].present /\ Directory[d].present
                => Directory[c].frame # Directory[d].frame
    /\ \A d \in Passes :
         d < Entered => Directory[d].present /\ Directory[d].frame = init.tables[d + 1]
    /\ ~paging => \A d \in DirIndices : d >= Entered => ~Directory[d].present

(* The table that the directory has for a page, and the entry in it. *)
Table(v) == Directory[DIR_INDEX(v)].frame
Entry(v) == memory[Table(v)][TABLE_INDEX(v)]
Tabled(v) == Directory[DIR_INDEX(v)].present

(* A page's entry is what callers have asked for, but for bit 31, which may
   be left over: setframe does not clear it. *)
EntriesAsAsked ==
  paging => \A v \in Virtual :
    /\ ~Tabled(v) => asked[v] = Nowhere
    /\ Tabled(v) => (Entry(v).present <=> asked[v] # Nowhere)
    /\ asked[v] # Nowhere => /\ Entry(v).frame = asked[v] % Frames
                             /\ asked[v] >= Frames => Entry(v).bit31 = 1

(* As long as callers map no page of the upper half, it is never set. *)
LowHalf == Physical \subseteq 0 .. Frames - 1

Bit31Clear ==
  LowHalf => /\ \A q \in DOMAIN memory : \A k \in DOMAIN memory[q] : memory[q][k].bit31 = 0
             /\ \A v \in Virtual : asked[v] # Nowhere => asked[v] < Frames

FramesOwned ==
  \A v \in allocated :
    /\ asked[v] \in HeapPages
    /\ Page(asked[v]) \in live /\ asked[v] \notin DOMAIN memory
    /\ \A u \in allocated : u # v => asked[u] # asked[v]

IInv ==
  /\ Shapes /\ TablesOwned /\ Progress /\ TablesFilled /\ DirectoryKept
  /\ EntriesAsAsked /\ Bit31Clear /\ FramesOwned /\ StaleOnlyUnflushed

-----------------------------------------------------------------------------
(* All three modules speak of the same heap. *)
LEMMA SameLayout ==
  /\ H!maxblocks = maxblocks /\ H!kernelblocks = kernelblocks
  /\ H!Blocks = Blocks /\ H!Bitmaps = Bitmaps /\ H!initialbitmap = initialbitmap
  /\ \A m : H!findindex(m) = findindex(m)
  /\ \A k : H!address(k) = address(k)
  /\ \A b : H!calculateblocks(b) = calculateblocks(b)
<1>1. H!maxblocks = maxblocks /\ H!kernelblocks = kernelblocks
  BY DEF H!maxblocks, maxblocks, H!kernelblocks, kernelblocks
<1>2. H!Blocks = Blocks
  BY <1>1 DEF H!Blocks, Blocks
<1>3. H!Bitmaps = Bitmaps /\ H!initialbitmap = initialbitmap
  BY <1>1, <1>2 DEF H!Bitmaps, Bitmaps, H!initialbitmap, initialbitmap
<1>4. /\ \A m : H!findindex(m) = findindex(m)
      /\ \A k : H!address(k) = address(k)
  BY DEF H!findindex, findindex, H!address, address, H!findoffset, findoffset
<1>5. \A b : H!calculateblocks(b) = calculateblocks(b)
  BY DEF H!calculateblocks, calculateblocks
<1> QED
  BY <1>1, <1>2, <1>3, <1>4, <1>5

LEMMA SameFits ==
  ASSUME NEW map, NEW k, NEW n
  PROVE  H!Fits(map, k, n) = Fits(map, k, n)
BY Zenon DEF H!Fits, Fits, H!Blocks, Blocks, H!maxblocks, maxblocks

LEMMA SameFirstFit ==
  ASSUME NEW map, NEW n
  PROVE  H!findFirstFit(map, n) = findFirstFit(map, n)
BY Zenon DEF H!findFirstFit, findFirstFit, H!Fits, Fits, H!Blocks, Blocks,
             H!maxblocks, maxblocks

(* So what PhysicalMemoryProofs proves of the helpers is true of these. *)
LEMMA LayoutNat == maxblocks \in Nat /\ kernelblocks \in Nat /\ kernelblocks <= maxblocks
BY H!LayoutNat, MemoryAssumption, SameLayout

LEMMA BlocksCoverBytes ==
  ASSUME NEW b \in Nat
  PROVE  /\ calculateblocks(b) \in Nat \ {0}
         /\ b <= calculateblocks(b) * BlockSize
         /\ calculateblocks(b) = 1 \/ (calculateblocks(b) - 1) * BlockSize < b
BY H!BlocksCoverBytes, MemoryAssumption, SameLayout

LEMMA FirstFit ==
  ASSUME NEW map, NEW n
  PROVE  \/ /\ findFirstFit(map, n) = -1
            /\ \A k \in Blocks : ~Fits(map, k, n)
         \/ /\ findFirstFit(map, n) \in Blocks
            /\ Fits(map, findFirstFit(map, n), n)
            /\ \A k \in Blocks : Fits(map, k, n) => findFirstFit(map, n) <= k
BY H!FirstFit, MemoryAssumption, SameLayout, SameFirstFit, SameFits

LEMMA SameInit == Manager!Init <=> H!Init
BY Zenon DEF Manager!Init, H!Init, Manager!Bitmaps, H!Bitmaps, Manager!Blocks,
             H!Blocks, Manager!maxblocks, H!maxblocks

LEMMA SamePhysicalmemoryinit == Manager!physicalmemoryinit <=> H!physicalmemoryinit
BY Zenon DEF Manager!physicalmemoryinit, H!physicalmemoryinit, Manager!initialbitmap,
             H!initialbitmap, Manager!Blocks, H!Blocks, Manager!maxblocks, H!maxblocks,
             Manager!kernelblocks, H!kernelblocks

LEMMA SameKernelmalloc ==
  ASSUME NEW b
  PROVE  Manager!kernelmalloc(b) <=> H!kernelmalloc(b)
<1>1. /\ \A map, n : Manager!findFirstFit(map, n) = H!findFirstFit(map, n)
      /\ \A n : Manager!calculateblocks(n) = H!calculateblocks(n)
      /\ \A k : Manager!address(k) = H!address(k)
  BY Zenon DEF Manager!findFirstFit, H!findFirstFit, Manager!Fits, H!Fits,
               Manager!Blocks, H!Blocks, Manager!maxblocks, H!maxblocks,
               Manager!calculateblocks, H!calculateblocks, Manager!address, H!address,
               Manager!findoffset, H!findoffset
<1>2. \A map, k, n, v : Manager!setbitmap(map, k, n, v) = H!setbitmap(map, k, n, v)
  BY Zenon DEF Manager!setbitmap, H!setbitmap, Manager!Blocks, H!Blocks,
               Manager!maxblocks, H!maxblocks
<1> QED
  BY <1>1, <1>2, Zenon DEF Manager!kernelmalloc, H!kernelmalloc

LEMMA SameKernelfree ==
  ASSUME NEW a
  PROVE  Manager!kernelfree(a) <=> H!kernelfree(a)
<1>1. /\ \A n : Manager!calculateblocks(n) = H!calculateblocks(n)
      /\ \A m : Manager!findindex(m) = H!findindex(m)
  BY Zenon DEF Manager!calculateblocks, H!calculateblocks, Manager!findindex, H!findindex
<1>2. \A map, k, n, v : Manager!setbitmap(map, k, n, v) = H!setbitmap(map, k, n, v)
  BY Zenon DEF Manager!setbitmap, H!setbitmap, Manager!Blocks, H!Blocks,
               Manager!maxblocks, H!maxblocks
<1> QED
  BY <1>1, <1>2, Zenon DEF Manager!kernelfree, H!kernelfree

LEMMA SameTypeOK == Manager!TypeOK <=> H!TypeOK
<1>1. Manager!Blocks = H!Blocks /\ Manager!Bitmaps = H!Bitmaps
  BY Zenon DEF Manager!Bitmaps, H!Bitmaps, Manager!Blocks, H!Blocks,
               Manager!maxblocks, H!maxblocks
<1>2. \A k : Manager!address(k) = H!address(k)
  BY Zenon DEF Manager!address, H!address, Manager!findoffset, H!findoffset
<1> QED
  BY <1>1, <1>2, Zenon DEF Manager!TypeOK, H!TypeOK

(* The invariant of PhysicalMemory, established and kept. *)
LEMMA ManagerStarts == Manager!Init => H!IInv
BY H!InitIInv, MemoryAssumption, SameLayout, SameInit

LEMMA ManagerKept ==
  ASSUME H!IInv,
         \/ Manager!physicalmemoryinit
         \/ \E b \in Requests : Manager!kernelmalloc(b)
         \/ \E a \in live : Manager!kernelfree(a)
         \/ UNCHANGED heap
  PROVE  H!IInv'
<1>1. [H!Next]_(H!vars)
  BY SamePhysicalmemoryinit, SameKernelmalloc, SameKernelfree, Zenon DEF H!Next, H!vars, heap
<1> QED
  BY <1>1, H!NextIInv, MemoryAssumption, SameLayout

-----------------------------------------------------------------------------
(* The pages of the heap are below the end of the identity mapping, and so
   of the lower half. *)
LEMMA HeapPageRange ==
  ASSUME NEW k \in Blocks
  PROVE  /\ FirstPage + k \in HeapPages
         /\ address(k) = (FirstPage + k) * BlockSize
         /\ PageOf(address(k)) = FirstPage + k
<1>1. FirstPage \in Nat /\ StartMem = FirstPage * BlockSize /\ k \in Nat
  BY MemoryAssumption, PagingAssumption, LayoutNat DEF FirstPage, Blocks
<1>2. address(k) = (FirstPage + k) * BlockSize
  BY <1>1, MemoryAssumption DEF address, findoffset
<1>3. ((FirstPage + k) * BlockSize) \div BlockSize = FirstPage + k
  BY <1>1, MemoryAssumption
<1> QED
  BY <1>2, <1>3 DEF HeapPages, PageOf, PAGE_SIZE

LEMMA HeapPagesLow ==
  ASSUME NEW q \in HeapPages
  PROVE  q \in Nat /\ q < Frames
<1>1. PICK k \in Blocks : q = FirstPage + k
  BY DEF HeapPages
<1>2. /\ FirstPage \in Nat /\ StartMem = FirstPage * BlockSize /\ k \in Nat
      /\ k + 1 <= maxblocks /\ maxblocks \in Nat
  BY MemoryAssumption, PagingAssumption, LayoutNat DEF FirstPage, Blocks
<1>3. maxblocks * BlockSize <= EndMem - StartMem
  BY MemoryAssumption DEF maxblocks
<1> DEFINE M == IdentityTables * Pages
<1>4. M \in Nat /\ EndMem <= M * BlockSize /\ M <= Frames /\ Frames \in Nat
  BY PagingAssumption
<1> HIDE DEF M
<1>5. (k + 1) * BlockSize <= maxblocks * BlockSize
  BY <1>2, MemoryAssumption
<1>6. (FirstPage + k + 1) * BlockSize = StartMem + (k + 1) * BlockSize
  BY <1>2, MemoryAssumption
<1>7. (FirstPage + k + 1) * BlockSize <= M * BlockSize
  BY <1>2, <1>3, <1>4, <1>5, <1>6, MemoryAssumption
<1>8. FirstPage + k + 1 <= M
  BY <1>2, <1>4, <1>7, MemoryAssumption
<1> QED
  BY <1>1, <1>2, <1>4, <1>8

(* A page is the address of its allocation. *)
LEMMA PageInjective ==
  ASSUME NEW p \in Nat, NEW q \in Nat, Page(p) = Page(q)
  PROVE  p = q
<1>1. p * BlockSize = q * BlockSize
  BY DEF Page, PAGE_SIZE
<1> QED
  BY <1>1, MemoryAssumption

(* A kernelmalloc(PAGE_SIZE) that does not panic returns a page of the heap
   that nobody holds. *)
LEMMA NewPageFree ==
  ASSUME H!IInv, Manager!kernelmalloc(PAGE_SIZE), ~halted'
  PROVE  /\ NewPage \in HeapPages
         /\ Page(NewPage) \notin live
         /\ live' = live \cup {Page(NewPage)}
<1> DEFINE n == calculateblocks(PAGE_SIZE)
           k == findFirstFit(bitmap, n)
<1>1. PAGE_SIZE \in Requests /\ PAGE_SIZE \in Nat
  BY MemoryAssumption, PagingAssumption DEF PAGE_SIZE
<1>2. H!kernelmalloc(PAGE_SIZE)
  BY SameKernelmalloc
<1>3. k # -1 /\ ready /\ ~halted /\ live' = live \cup {[mem |-> address(k), bytes |-> PAGE_SIZE]}
  BY <1>2, SameLayout, SameFirstFit DEF H!kernelmalloc
<1>4. k \in Blocks /\ Fits(bitmap, k, n)
  BY <1>3, FirstFit
<1>5. NewPage = FirstPage + k /\ NewPage \in HeapPages /\ address(k) = NewPage * PAGE_SIZE
  BY <1>4, HeapPageRange DEF NewPage, PAGE_SIZE
<1>6. [mem |-> address(k), bytes |-> PAGE_SIZE] = Page(NewPage)
  BY <1>5, Zenon DEF Page
<1>7. Page(NewPage) \notin live
  <2>1. n \in Nat \ {0} /\ k \in Nat
    BY <1>1, <1>4, BlocksCoverBytes, LayoutNat DEF Blocks
  <2>2. H!Fits(bitmap, k, n)
    BY <1>4, SameLayout DEF Fits, H!Fits
  <2>3. Page(NewPage) = [mem |-> H!address(k), bytes |-> PAGE_SIZE]
    BY <1>6, SameLayout
  <2> HIDE DEF n, k
  <2>4. \A c \in live : k + n <= H!First(c) \/ H!Past(c) <= k
    BY <1>3, <1>4, <2>1, <2>2, H!FreePlaceApart, MemoryAssumption, SameLayout
  <2>5. H!First(Page(NewPage)) = k /\ H!Past(Page(NewPage)) = k + n
    BY <1>1, <1>4, <2>1, <2>3, H!NewAllocation, MemoryAssumption, SameLayout DEF n
  <2> QED
    BY <2>1, <2>4, <2>5
<1> QED
  BY <1>3, <1>5, <1>6, <1>7

-----------------------------------------------------------------------------
(* What setting the frame and the present bit does to an entry: bit 31 stays
   set once it is. *)
LEMMA ZeroEntry ==
  /\ zero \in Entries /\ ~zero.present /\ zero.bit31 = 0
  /\ cleartable \in PageTables /\ clear \in Directories
  /\ \A k \in TableIndices : cleartable[k] = zero
  /\ \A k \in DirIndices : clear[k] = zero
<1>1. zero \in Entries /\ ~zero.present /\ zero.bit31 = 0
  BY PagingAssumption DEF zero, Entries
<1> QED
  BY <1>1, Zenon DEF cleartable, clear, PageTables, Directories, TableIndices, DirIndices

LEMMA SetFrame ==
  ASSUME NEW e \in Entries, NEW p \in Addresses
  PROVE  /\ setframe(e, p) \in Entries
         /\ setframe(e, p).present = e.present
         /\ setframe(e, p).frame = p % Frames
         /\ p < Frames => setframe(e, p).frame = p /\ setframe(e, p).bit31 = e.bit31
         /\ p >= Frames => setframe(e, p).bit31 = 1
<1>1. p % Frames \in 0 .. Frames - 1 /\ (p < Frames => p % Frames = p) /\ p \in Int /\ Frames \in Int
  BY PagingAssumption DEF Addresses
<1> DEFINE high == IF p >= Frames THEN 1 ELSE e.bit31
           f == p % Frames
           F == 0 .. Frames - 1
           B == {0, 1}
<1>2. high \in B /\ f \in F
  BY <1>1 DEF Entries
<1>3. setframe(e, p) = [e EXCEPT !.bit31 = high, !.frame = f]
  BY DEF setframe
<1>4. high = e.bit31 \/ p >= Frames
  OBVIOUS
<1>5. p >= Frames => high = 1
  OBVIOUS
<1>6. Entries = [present : BOOLEAN, bit31 : B, frame : F]
  BY DEF Entries
<1> HIDE DEF high, f, F, B
<1>7. /\ setframe(e, p) \in Entries /\ setframe(e, p).present = e.present
      /\ setframe(e, p).bit31 = high /\ setframe(e, p).frame = f
  BY <1>2, <1>3, <1>6, Zenon
<1> QED
  BY <1>1, <1>4, <1>5, <1>7 DEF f

LEMMA SetFlag ==
  ASSUME NEW e \in Entries
  PROVE  /\ setflag(e) \in Entries /\ setflag(e).present
         /\ setflag(e).bit31 = e.bit31 /\ setflag(e).frame = e.frame
         /\ delflag(e) \in Entries /\ ~delflag(e).present
         /\ delflag(e).bit31 = e.bit31 /\ delflag(e).frame = e.frame
<1> DEFINE F == 0 .. Frames - 1
           B == {0, 1}
<1>1. Entries = [present : BOOLEAN, bit31 : B, frame : F]
  BY DEF Entries
<1> HIDE DEF F, B
<1> QED
  BY <1>1, Zenon DEF setflag, delflag

(* The entry that is made for a page, from one that was not used for another:
   the order of the two calls makes no difference. *)
LEMMA MappedEntry ==
  ASSUME NEW e \in Entries, NEW p \in Addresses
  PROVE  /\ setflag(setframe(e, p)) \in Entries /\ setflag(setframe(e, p)).present
         /\ setflag(setframe(e, p)).frame = p % Frames
         /\ p < Frames => /\ setflag(setframe(e, p)).frame = p
                          /\ setflag(setframe(e, p)).bit31 = e.bit31
         /\ p >= Frames => setflag(setframe(e, p)).bit31 = 1
         /\ setframe(setflag(e), p) \in Entries /\ setframe(setflag(e), p).present
         /\ p < Frames => /\ setframe(setflag(e), p).frame = p
                          /\ setframe(setflag(e), p).bit31 = e.bit31
<1>1. setframe(e, p) \in Entries /\ setflag(e) \in Entries
  BY SetFrame, SetFlag
<1> QED
  BY <1>1, SetFrame, SetFlag

LEMMA PhysAddr ==
  ASSUME NEW e \in Entries
  PROVE  /\ physaddr(e) \in Addresses
         /\ e.bit31 = 0 => physaddr(e) = e.frame
         /\ e.bit31 = 1 => physaddr(e) = Frames + e.frame
         /\ e.bit31 = 0 \/ e.bit31 = 1
         /\ e.frame \in 0 .. Frames - 1
<1>1. e.bit31 \in {0, 1} /\ e.frame \in 0 .. Frames - 1
  BY DEF Entries
<1>2. Frames \in Nat \ {0}
  BY PagingAssumption
<1>3. e.bit31 * Frames = IF e.bit31 = 0 THEN 0 ELSE Frames
  BY <1>1, <1>2
<1> QED
  BY <1>1, <1>2, <1>3 DEF physaddr, Addresses

(* The two indices of a page. *)
LEMMA Indices ==
  ASSUME NEW v \in Nat, v < Tables * Pages
  PROVE  /\ DIR_INDEX(v) \in DirIndices /\ TABLE_INDEX(v) \in TableIndices
         /\ v = DIR_INDEX(v) * Pages + TABLE_INDEX(v)
         /\ IdentityTables * Pages <= v => DIR_INDEX(v) >= IdentityTables
         /\ v < IdentityTables * Pages => DIR_INDEX(v) < IdentityTables
<1> DEFINE d == v \div Pages
           t == v % Pages
<1>1. Pages \in Nat \ {0} /\ Tables \in Nat \ {0} /\ IdentityTables \in Nat \ {0}
  BY PagingAssumption
<1>2. d \in Nat /\ t \in TableIndices /\ v = d * Pages + t
  BY <1>1 DEF TableIndices
<1>3. ASSUME NEW n \in Nat
      PROVE  /\ v < n * Pages => d < n
             /\ n * Pages <= v => d >= n
  <2>1. t \in Nat /\ t < Pages
    BY <1>1 DEF TableIndices
  <2>2. ASSUME d >= n PROVE d * Pages >= n * Pages
    BY <2>2, <1>1, <1>2
  <2>3. ASSUME d + 1 <= n PROVE (d + 1) * Pages <= n * Pages
    BY <2>3, <1>1, <1>2
  <2>4. (d + 1) * Pages = d * Pages + Pages
    BY <1>1, <1>2
  <2>5. d * Pages \in Nat /\ n * Pages \in Nat
    BY <1>1, <1>2
  <2> HIDE DEF d, t
  <2> QED
    BY <1>1, <1>2, <2>1, <2>2, <2>3, <2>4, <2>5
<1>4. d < Tables
  BY <1>1, <1>3
<1>5. DIR_INDEX(v) = d /\ TABLE_INDEX(v) = t
  <2>1. d % Tables = d
    BY <1>1, <1>2, <1>4
  <2> QED
    BY <2>1 DEF DIR_INDEX, TABLE_INDEX
<1> HIDE DEF d, t
<1> QED
  BY <1>1, <1>2, <1>3, <1>4, <1>5 DEF DirIndices

LEMMA VirtualIndices ==
  ASSUME NEW v \in Virtual
  PROVE  /\ v \in Nat
         /\ DIR_INDEX(v) \in DirIndices /\ TABLE_INDEX(v) \in TableIndices
         /\ DIR_INDEX(v) >= IdentityTables
         /\ \A u \in Virtual : u # v => \/ DIR_INDEX(u) # DIR_INDEX(v)
                                        \/ TABLE_INDEX(u) # TABLE_INDEX(v)
<1>1. IdentityTables * Pages \in Nat /\ Tables * Pages \in Nat
  BY PagingAssumption
<1>2. \A u \in Virtual : u \in Nat /\ IdentityTables * Pages <= u /\ u < Tables * Pages
  BY <1>1, PagingAssumption
<1>3. \A u \in Virtual : u = DIR_INDEX(u) * Pages + TABLE_INDEX(u)
  BY <1>2, Indices
<1> QED
  BY <1>2, <1>3, Indices

LEMMA IdentityIndices ==
  ASSUME NEW v \in identitypages
  PROVE  /\ v \in Nat /\ v < Frames
         /\ DIR_INDEX(v) \in DirIndices /\ TABLE_INDEX(v) \in TableIndices
         /\ DIR_INDEX(v) \in Passes
         /\ v = DIR_INDEX(v) * Pages + TABLE_INDEX(v)
<1>1. IdentityTables * Pages \in Nat /\ Tables * Pages \in Nat
  BY PagingAssumption
<1>2. v \in Nat /\ v < IdentityTables * Pages
  BY <1>1 DEF identitypages
<1>3. IdentityTables * Pages <= Tables * Pages /\ IdentityTables * Pages <= Frames
  BY PagingAssumption
<1>4. v < Tables * Pages /\ v < Frames
  BY <1>1, <1>2, <1>3, PagingAssumption
<1> QED
  BY <1>1, <1>2, <1>4, Indices, PagingAssumption DEF Passes, DirIndices

(* The directory's entry for the first page of a table. *)
LEMMA FirstPageIndex ==
  ASSUME NEW k \in Passes
  PROVE  DIR_INDEX(k * Pages) = k /\ k \in DirIndices
<1>1. k \in Nat /\ k < Tables /\ Pages \in Nat \ {0} /\ Tables \in Nat \ {0}
  BY PagingAssumption DEF Passes
<1>2. (k * Pages) \div Pages = k
  BY <1>1
<1>3. k % Tables = k
  BY <1>1
<1> QED
  BY <1>1, <1>2, <1>3 DEF DIR_INDEX, DirIndices

(* The entry for a page of a table's 4 MB. *)
LEMMA EntryIndex ==
  ASSUME NEW k \in Passes, NEW j \in TableIndices
  PROVE  TABLE_INDEX(k * Pages + j) = j
<1> DEFINE p == k * Pages + j
           d == p \div Pages
           t == p % Pages
<1>1. k \in Nat /\ Pages \in Nat \ {0} /\ j \in Nat /\ j < Pages
  BY PagingAssumption DEF Passes, TableIndices
<1>2. p \in Nat /\ p = k * Pages + j
  BY <1>1
<1> HIDE DEF p
<1>3. d \in Nat /\ t \in Nat /\ t < Pages /\ p = d * Pages + t
  BY <1>1, <1>2
<1> HIDE DEF d, t
<1>4. ~(d + 1 <= k)
  <2> SUFFICES ASSUME d + 1 <= k PROVE FALSE
    OBVIOUS
  <2>1. (d + 1) * Pages <= k * Pages
    BY <1>1, <1>3
  <2>2. (d + 1) * Pages = d * Pages + Pages
    BY <1>1, <1>3
  <2> QED
    BY <1>1, <1>2, <1>3, <2>1, <2>2
<1>5. ~(k + 1 <= d)
  <2> SUFFICES ASSUME k + 1 <= d PROVE FALSE
    OBVIOUS
  <2>1. (k + 1) * Pages <= d * Pages
    BY <1>1, <1>3
  <2>2. (k + 1) * Pages = k * Pages + Pages
    BY <1>1, <1>3
  <2> QED
    BY <1>1, <1>2, <1>3, <2>1, <2>2
<1>6. d = k
  BY <1>1, <1>3, <1>4, <1>5
<1>7. t = j
  BY <1>1, <1>2, <1>3, <1>6
<1> QED
  BY <1>7 DEF TABLE_INDEX, p, t

(* A page of a table's identity mapping. *)
LEMMA IdentityEntry ==
  ASSUME NEW k \in Passes, NEW j \in TableIndices
  PROVE  /\ IdentityTable(k)[j] \in Entries
         /\ IdentityTable(k)[j].present /\ IdentityTable(k)[j].bit31 = 0
         /\ IdentityTable(k)[j].frame = k * Pages + j
<1>1. k * Pages + j \in Nat /\ k * Pages + j < Frames
  <2>1. k \in Nat /\ k + 1 <= IdentityTables /\ IdentityTables \in Nat /\ Pages \in Nat \ {0}
        /\ j \in Nat /\ j < Pages /\ Frames \in Nat
    BY PagingAssumption DEF Passes, TableIndices
  <2>2. (k + 1) * Pages <= IdentityTables * Pages
    BY <2>1
  <2>3. (k + 1) * Pages = k * Pages + Pages /\ k * Pages \in Nat
    BY <2>1
  <2> QED
    BY <2>1, <2>2, <2>3, PagingAssumption
<1>2. k * Pages + j \in Addresses
  BY <1>1, PagingAssumption DEF Addresses
<1>3. IdentityTable(k)[j] = setframe(setflag(zero), k * Pages + j)
  BY DEF IdentityTable, PresentEntry
<1> QED
  BY <1>1, <1>2, <1>3, ZeroEntry, MappedEntry

(* The two outcomes of going on to the next table. *)
LEMMA Looping ==
  ASSUME init \in Inits, NEW next \in Places
  PROVE  /\ NextTable(next) \in Inits
         /\ NextTable(next).tables = init.tables
         /\ NextTable(next).dir = init.dir
         /\ NextTable(next).i = init.i
         /\ \/ /\ init.table + 1 < IdentityTables
               /\ NextTable(next).table = init.table + 1
               /\ NextTable(next).pc = init.pc
            \/ /\ init.table + 1 = IdentityTables
               /\ NextTable(next).table = 0
               /\ NextTable(next).pc = next
<1> DEFINE T == Seq(HeapPages)
           D == HeapPages \cup {0}
           I == 0 .. Pages
           more == init.table + 1
<1>1. Inits = [pc : Places, table : Passes, i : I, tables : T, dir : D]
  BY DEF Inits
<1>2. init.table \in Passes /\ 0 \in Passes /\ (more < IdentityTables => more \in Passes)
      /\ (~(more < IdentityTables) => more = IdentityTables)
  BY PagingAssumption DEF Inits, Passes
<1>3. CASE more < IdentityTables
  <2>1. NextTable(next) = [init EXCEPT !.table = more]
    BY <1>3 DEF NextTable
  <2> HIDE DEF T, D, I, more
  <2>2. /\ NextTable(next) \in Inits
        /\ NextTable(next).tables = init.tables
        /\ NextTable(next).dir = init.dir
        /\ NextTable(next).i = init.i
        /\ NextTable(next).table = more
        /\ NextTable(next).pc = init.pc
    BY <1>1, <1>2, <1>3, <2>1, Zenon
  <2> QED
    BY <1>3, <2>2 DEF more
<1>4. CASE ~(more < IdentityTables)
  <2>1. NextTable(next) = [init EXCEPT !.table = 0, !.pc = next]
    BY <1>4 DEF NextTable
  <2> HIDE DEF T, D, I, more
  <2>2. /\ NextTable(next) \in Inits
        /\ NextTable(next).tables = init.tables
        /\ NextTable(next).dir = init.dir
        /\ NextTable(next).i = init.i
        /\ NextTable(next).table = 0
        /\ NextTable(next).pc = next
    BY <1>1, <1>2, <2>1, Zenon
  <2> QED
    BY <1>2, <1>4, <2>2 DEF more
<1> QED
  BY <1>3, <1>4

-----------------------------------------------------------------------------
LEMMA InitIInv == Init => IInv
<1> SUFFICES ASSUME Init PROVE IInv
  OBVIOUS
<1>1. /\ Manager!Init /\ memory = << >> /\ curdir = 0 /\ paging = FALSE
      /\ init = [pc |-> "tables", table |-> 0, i |-> 0, tables |-> << >>, dir |-> 0]
      /\ tlb = [v \in Virtual |-> Nowhere] /\ asked = [v \in Virtual |-> Nowhere]
      /\ allocated = {} /\ unflushed = {}
  BY DEF Init
<1>2. DOMAIN memory = {} /\ memory = [q \in DOMAIN memory |-> memory[q]]
  BY <1>1
<1>3. /\ init.pc = "tables" /\ init.table = 0 /\ init.i = 0 /\ init.tables = << >> /\ init.dir = 0
      /\ Len(init.tables) = 0 /\ DOMAIN init.tables = {}
  BY <1>1
<1>4. init \in Inits
  <2>1. 0 \in Passes /\ 0 \in 0 .. Pages /\ "tables" \in Places
    BY PagingAssumption DEF Passes, Places, Filling
  <2>2. << >> \in Seq(HeapPages)
    OBVIOUS
  <2> QED
    BY <1>1, <2>1, <2>2, Zenon DEF Inits
<1>5. Shapes
  BY <1>1, <1>2, <1>4, ManagerStarts DEF Shapes
<1>6. TablesOwned /\ Progress /\ FramesOwned
  BY <1>1, <1>2, <1>3 DEF TablesOwned, Progress, FramesOwned
<1>7. TablesFilled /\ DirectoryKept
  BY <1>3 DEF TablesFilled, Filled, Passes, DirectoryKept, HasDirectory, Filling
<1>8. EntriesAsAsked /\ Bit31Clear /\ StaleOnlyUnflushed
  BY <1>1, <1>2 DEF EntriesAsAsked, Bit31Clear, StaleOnlyUnflushed
<1> QED
  BY <1>5, <1>6, <1>7, <1>8 DEF IInv

(* A step that leaves paging alone, whatever is allocated in it. *)
LEMMA OtherStep ==
  ASSUME IInv, H!IInv', live \subseteq live',
         UNCHANGED <<memory, init, curdir, paging, tlb, ghosts>>
  PROVE  IInv'
<1>1. /\ memory' = memory /\ init' = init /\ curdir' = curdir /\ paging' = paging
      /\ tlb' = tlb /\ asked' = asked /\ allocated' = allocated /\ unflushed' = unflushed
  BY DEF ghosts
<1>2. Shapes'
  BY <1>1 DEF IInv, Shapes, HasDirectory
<1>3. TablesOwned' /\ FramesOwned'
  BY <1>1 DEF IInv, TablesOwned, FramesOwned
<1>4. Progress'
  BY <1>1 DEF IInv, Progress, PassesDone
<1>5. TablesFilled'
  BY <1>1 DEF IInv, TablesFilled, Filled
<1>6. DirectoryKept'
  BY <1>1 DEF IInv, DirectoryKept, HasDirectory, Directory, Entered
<1>7. EntriesAsAsked'
  <2>1. \A v \in Virtual : (Tabled(v)' <=> Tabled(v)) /\ Entry(v)' = Entry(v)
    BY <1>1 DEF Entry, Table, Tabled, Directory
  <2> QED
    BY <1>1, <2>1 DEF IInv, EntriesAsAsked
<1>8. Bit31Clear'
  BY <1>1 DEF IInv, Bit31Clear
<1>9. StaleOnlyUnflushed'
  BY <1>1 DEF IInv, StaleOnlyUnflushed, Walk
<1> QED
  BY <1>2, <1>3, <1>4, <1>5, <1>6, <1>7, <1>8, <1>9, Zenon DEF IInv

(* A page that was free holds no table, and holds one when it has been given
   entries. *)
LEMMA PageTaken ==
  ASSUME IInv, Manager!kernelmalloc(PAGE_SIZE), ~halted', NEW entries,
         NEW held, held = Holding(NewPage, entries), DOMAIN memory' = DOMAIN held
  PROVE  /\ H!IInv' /\ TablesOwned'
         /\ NewPage \in HeapPages /\ NewPage \in Nat /\ NewPage < Frames
         /\ NewPage \notin DOMAIN memory /\ Page(NewPage) \notin live
         /\ live' = live \cup {Page(NewPage)}
         /\ DOMAIN held = DOMAIN memory \cup {NewPage}
         /\ held = [q \in DOMAIN held |-> held[q]]
         /\ held[NewPage] = entries
         /\ \A q \in DOMAIN memory : held[q] = memory[q]
<1>1. H!IInv /\ TablesOwned
  BY DEF IInv, Shapes
<1>2. /\ NewPage \in HeapPages /\ Page(NewPage) \notin live
      /\ live' = live \cup {Page(NewPage)}
  BY <1>1, NewPageFree
<1>3. H!IInv'
  BY <1>1, PagingAssumption, ManagerKept DEF PAGE_SIZE
<1>4. NewPage \notin DOMAIN memory
  BY <1>1, <1>2 DEF TablesOwned
<1>5. /\ DOMAIN held = DOMAIN memory \cup {NewPage}
      /\ held = [q \in DOMAIN held |-> held[q]]
      /\ held[NewPage] = entries
      /\ \A q \in DOMAIN memory : held[q] = memory[q]
  BY <1>4 DEF Holding
<1>6. TablesOwned'
  BY <1>1, <1>2, <1>5 DEF TablesOwned
<1> QED
  BY <1>2, <1>3, <1>4, <1>5, <1>6, HeapPagesLow

(* Before paging is on, what callers know does not change. *)
LEMMA NotYetPaging ==
  ASSUME IInv, ~paging', UNCHANGED <<asked, allocated>>,
         ~paging, \A v \in Virtual : tlb'[v] = Nowhere
  PROVE  /\ EntriesAsAsked' /\ FramesOwned' /\ StaleOnlyUnflushed'
         /\ (\A v \in Virtual : asked'[v] = Nowhere) /\ allocated' = {}
<1>1. /\ \A v \in Virtual : asked[v] = Nowhere
      /\ allocated = {}
  BY DEF IInv, Progress
<1> QED
  BY <1>1 DEF EntriesAsAsked, FramesOwned, StaleOnlyUnflushed

(* What virtualinit's steps have in common. *)
LEMMA Initialising ==
  ASSUME IInv, NEW place \in Filling \cup Entering, At(place)
  PROVE  /\ ~paging /\ init.pc = place /\ init \in Inits
         /\ init.table \in Passes /\ init.table \in Nat /\ IdentityTables \in Nat
         /\ \A v \in Virtual : tlb[v] = Nowhere
         /\ init.tables \in Seq(HeapPages)
         /\ DOMAIN init.tables = 1 .. Len(init.tables)
<1>1. init.pc = place /\ init \in Inits /\ (paging <=> init.pc = "done")
  BY DEF At, IInv, Shapes, Progress
<1>2. ~paging
  BY <1>1 DEF Filling, Entering
<1>3. \A v \in Virtual : tlb[v] = Nowhere
  BY <1>2 DEF IInv, Progress
<1>4. init.tables \in Seq(HeapPages) /\ init.table \in Passes
  BY <1>1 DEF Inits
<1> QED
  BY <1>1, <1>2, <1>3, <1>4, PagingAssumption DEF Passes

LEMMA AllocateTableIInv ==
  ASSUME IInv, AllocateTable PROVE IInv'
<1>1. /\ At("tables") /\ Manager!kernelmalloc(PAGE_SIZE)
      /\ UNCHANGED <<curdir, paging, tlb, ghosts>>
  BY DEF AllocateTable
<1>2. H!IInv'
  BY <1>1, PagingAssumption, ManagerKept DEF PAGE_SIZE, IInv, Shapes
<1>3. CASE halted'
  <2>1. live' = live
    BY <1>1, <1>3, SameKernelmalloc DEF H!kernelmalloc
  <2>2. UNCHANGED <<memory, init>>
    BY <1>3 DEF AllocateTable
  <2> QED
    BY <1>1, <1>2, <2>1, <2>2, OtherStep
<1>4. CASE ~halted'
  <2> DEFINE q == NewPage
  <2>1. /\ memory' = Holding(NewPage, cleartable)
        /\ init' = [NextTable("fill") EXCEPT !.tables = Append(@, NewPage)]
    BY <1>4 DEF AllocateTable
  <2>2. /\ TablesOwned' /\ q \in HeapPages /\ q \notin DOMAIN memory
        /\ DOMAIN memory' = DOMAIN memory \cup {q}
        /\ memory' = [r \in DOMAIN memory' |-> memory'[r]]
        /\ memory'[q] = cleartable
        /\ \A r \in DOMAIN memory : memory'[r] = memory[r]
    BY <1>1, <1>4, <2>1, PageTaken
  <2> HIDE DEF q
  <2>3. /\ ~paging /\ init.pc = "tables" /\ init \in Inits
        /\ init.table \in Passes /\ init.table \in Nat /\ IdentityTables \in Nat
        /\ \A v \in Virtual : tlb[v] = Nowhere
        /\ init.tables \in Seq(HeapPages) /\ DOMAIN init.tables = 1 .. Len(init.tables)
    BY <1>1, Initialising DEF Filling
  <2>4. /\ init' \in Inits /\ init'.tables = Append(init.tables, q) /\ init'.dir = init.dir
        /\ init'.i = init.i
        /\ \/ /\ init.table + 1 < IdentityTables /\ init'.table = init.table + 1 /\ init'.pc = "tables"
           \/ /\ init.table + 1 = IdentityTables /\ init'.table = 0 /\ init'.pc = "fill"
    <3> DEFINE l == NextTable("fill")
               T == Seq(HeapPages)
               D == HeapPages \cup {0}
               I == 0 .. Pages
               t == Append(init.tables, q)
    <3>1. "fill" \in Places
      BY DEF Places, Filling
    <3>2. /\ l \in Inits /\ l.tables = init.tables /\ l.dir = init.dir
          /\ \/ init.table + 1 < IdentityTables /\ l.table = init.table + 1 /\ l.pc = "tables"
             \/ init.table + 1 = IdentityTables /\ l.table = 0 /\ l.pc = "fill"
          /\ l.i = init.i
      BY <2>3, <3>1, Looping
    <3>3. t \in T
      BY <2>2, <2>3
    <3>4. init' = [l EXCEPT !.tables = t]
      BY <2>1, <3>2 DEF q
    <3>5. Inits = [pc : Places, table : Passes, i : I, tables : T, dir : D]
      BY DEF Inits
    <3> HIDE DEF l, T, D, I, t
    <3>6. /\ init' \in Inits /\ init'.tables = t /\ init'.dir = l.dir
          /\ init'.table = l.table /\ init'.i = l.i /\ init'.pc = l.pc
      BY <3>2, <3>3, <3>4, <3>5, Zenon
    <3> QED
      BY <3>2, <3>6 DEF t
  <2>5. ~HasDirectory /\ ~HasDirectory'
    BY <2>3, <2>4 DEF HasDirectory, Filling
  <2>6. Shapes'
    <3>1. \A r \in DOMAIN memory' : memory'[r] \in PageTables
      BY <2>2, <2>5, ZeroEntry DEF IInv, Shapes
    <3>2. /\ paging' = paging /\ tlb' = tlb /\ asked' = asked
          /\ allocated' = allocated /\ unflushed' = unflushed
      BY <1>1 DEF ghosts
    <3> QED
      BY <1>2, <2>2, <2>4, <2>5, <3>1, <3>2 DEF IInv, Shapes
  <2>7. Progress'
    <3>1. /\ Len(init.tables) = init.table
          /\ \A k \in DOMAIN init.tables : init.tables[k] \in DOMAIN memory
          /\ \A k, m \in DOMAIN init.tables : k # m => init.tables[k] # init.tables[m]
          /\ curdir = 0 /\ allocated = {} /\ init.i = 0
          /\ \A v \in Virtual : asked[v] = Nowhere /\ tlb[v] = Nowhere
      BY <2>3 DEF IInv, Progress
    <3>2. /\ Len(init'.tables) = init.table + 1
          /\ DOMAIN init'.tables = 1 .. init.table + 1
          /\ init'.tables[init.table + 1] = q
          /\ \A k \in 1 .. init.table : init'.tables[k] = init.tables[k]
      BY <2>2, <2>3, <2>4, <3>1
    <3>3. Len(init'.tables) = IF init'.pc = "tables" THEN init'.table ELSE IdentityTables
      BY <2>4, <3>2
    <3>4. \A k \in 1 .. init.table + 1 : k = init.table + 1 \/ k \in 1 .. init.table
      BY <2>3
    <3>5. \A k \in DOMAIN init'.tables : init'.tables[k] \in DOMAIN memory'
      BY <2>2, <2>3, <3>1, <3>2, <3>4
    <3>6. \A k, m \in DOMAIN init'.tables : k # m => init'.tables[k] # init'.tables[m]
      <4> TAKE k, m \in DOMAIN init'.tables
      <4>1. HAVE k # m
      <4>2. /\ k \in 1 .. init.table => init'.tables[k] = init.tables[k] /\ init.tables[k] # q
            /\ m \in 1 .. init.table => init'.tables[m] = init.tables[m] /\ init.tables[m] # q
        BY <2>2, <2>3, <3>1, <3>2
      <4>3. /\ k = init.table + 1 \/ k \in 1 .. init.table
            /\ m = init.table + 1 \/ m \in 1 .. init.table
        BY <3>2, <3>4
      <4>4. DOMAIN init.tables = 1 .. init.table
        BY <2>3, <3>1
      <4> QED
        BY <3>1, <3>2, <4>1, <4>2, <4>3, <4>4
    <3>7. /\ paging' = paging /\ tlb' = tlb /\ asked' = asked /\ curdir' = curdir
          /\ allocated' = allocated
      BY <1>1 DEF ghosts
    <3>8. init'.i = 0 /\ PassesDone'
      BY <2>4, <3>1 DEF PassesDone, TableIndices
    <3> QED
      BY <2>3, <2>4, <3>1, <3>3, <3>5, <3>6, <3>7, <3>8 DEF Progress
  <2>8. TablesFilled' /\ DirectoryKept'
    BY <2>4, <2>5 DEF TablesFilled, Filled, Passes, DirectoryKept
  <2>9. EntriesAsAsked' /\ FramesOwned' /\ StaleOnlyUnflushed'
        /\ \A v \in Virtual : asked'[v] = Nowhere
    BY <1>1, <2>3, NotYetPaging DEF ghosts
  <2>10. Bit31Clear'
    <3>1. \A k \in DOMAIN cleartable : cleartable[k].bit31 = 0
      BY ZeroEntry DEF cleartable
    <3> QED
      BY <2>2, <2>9, <3>1 DEF IInv, Bit31Clear
  <2> QED
    BY <2>2, <2>6, <2>7, <2>8, <2>9, <2>10, Zenon DEF IInv
<1> QED
  BY <1>3, <1>4

LEMMA FillEntryIInv ==
  ASSUME IInv, FillEntry PROVE IInv'
<1> DEFINE n == init.table
           t == init.tables[n + 1]
           x == init.i
           e == IdentityTable(n)[x]
<1>1. /\ At("fill") /\ x < Pages
      /\ memory' = [memory EXCEPT ![t][TABLE_INDEX(n * Pages + x)] =
                      PresentEntry(n * Pages + x)]
      /\ init' = [init EXCEPT !.i = x + 1]
      /\ UNCHANGED <<heap, curdir, paging, tlb, ghosts>>
  BY DEF FillEntry, InLoop, PresentEntry
<1>2. /\ ~paging /\ init.pc = "fill" /\ init \in Inits
      /\ n \in Passes /\ n \in Nat /\ IdentityTables \in Nat /\ n < IdentityTables
      /\ \A v \in Virtual : tlb[v] = Nowhere
      /\ DOMAIN init.tables = 1 .. Len(init.tables)
  BY <1>1, Initialising DEF Filling, Passes
<1>3. /\ Len(init.tables) = IdentityTables
      /\ \A k \in DOMAIN init.tables : init.tables[k] \in DOMAIN memory
      /\ \A k, m \in DOMAIN init.tables : k # m => init.tables[k] # init.tables[m]
      /\ curdir = 0 /\ allocated = {} /\ PassesDone
      /\ \A v \in Virtual : asked[v] = Nowhere /\ tlb[v] = Nowhere
  BY <1>2 DEF IInv, Progress
<1>4. \A k \in Passes : k + 1 \in DOMAIN init.tables
  BY <1>2, <1>3 DEF Passes
<1>5. x \in TableIndices /\ x \in Nat /\ x + 1 \in 0 .. Pages
  BY <1>1, <1>2, PagingAssumption DEF Inits, TableIndices
<1>6. t \in DOMAIN memory /\ memory[t] \in PageTables
  <2>1. t \in DOMAIN memory /\ ~HasDirectory
    BY <1>2, <1>3, <1>4 DEF HasDirectory, Filling
  <2> QED
    BY <2>1 DEF IInv, Shapes
<1>7. e = PresentEntry(n * Pages + x) /\ e \in Entries /\ e.bit31 = 0
  BY <1>2, <1>5, IdentityEntry DEF IdentityTable
<1>8. memory' = [memory EXCEPT ![t] = [memory[t] EXCEPT ![x] = e]]
  BY <1>1, <1>2, <1>5, <1>7, EntryIndex
<1> HIDE DEF e
<1>9. /\ DOMAIN memory' = DOMAIN memory
      /\ memory' = [q \in DOMAIN memory' |-> memory'[q]]
      /\ memory'[t] = [memory[t] EXCEPT ![x] = e]
      /\ \A q \in DOMAIN memory : q # t => memory'[q] = memory[q]
  BY <1>6, <1>8, Zenon DEF IInv, Shapes
<1>10. /\ memory'[t] \in PageTables /\ memory'[t][x] = e
       /\ \A j \in TableIndices : j # x => memory'[t][j] = memory[t][j]
  BY <1>5, <1>6, <1>7, <1>9 DEF PageTables
<1>11. /\ init' \in Inits /\ init'.pc = "fill" /\ init'.table = n /\ init'.i = x + 1
       /\ init'.tables = init.tables /\ init'.dir = init.dir
  <2> DEFINE T == Seq(HeapPages)
             D == HeapPages \cup {0}
             I == 0 .. Pages
             next == x + 1
  <2>1. Inits = [pc : Places, table : Passes, i : I, tables : T, dir : D]
    BY DEF Inits
  <2>2. next \in I /\ init' = [init EXCEPT !.i = next]
    BY <1>1, <1>5
  <2> HIDE DEF T, D, I, next
  <2>3. /\ init' \in Inits /\ init'.pc = "fill" /\ init'.table = n /\ init'.i = next
        /\ init'.tables = init.tables /\ init'.dir = init.dir
    BY <1>2, <2>1, <2>2, Zenon
  <2> QED
    BY <2>3 DEF next
<1>12. /\ live' = live /\ paging' = paging /\ tlb' = tlb /\ asked' = asked
       /\ allocated' = allocated /\ unflushed' = unflushed /\ curdir' = curdir
  BY <1>1 DEF ghosts, heap
<1>13. ~HasDirectory /\ ~HasDirectory'
  BY <1>2, <1>11 DEF HasDirectory, Filling
<1>14. Shapes'
  <2>1. H!IInv'
    BY <1>1, ManagerKept DEF IInv, Shapes
  <2>2. \A q \in DOMAIN memory' : memory'[q] \in PageTables
    BY <1>9, <1>10, <1>13 DEF IInv, Shapes
  <2> QED
    BY <1>9, <1>11, <1>12, <1>13, <2>1, <2>2 DEF IInv, Shapes
<1>15. TablesOwned'
  BY <1>9, <1>12 DEF IInv, TablesOwned
<1>16. PassesDone'
  <2> SUFFICES ASSUME NEW j \in TableIndices, j < x + 1
               PROVE  memory'[t][j] = PresentEntry(n * Pages + j)
    BY <1>11 DEF PassesDone
  <2>1. CASE j = x
    BY <1>7, <1>10, <2>1
  <2>2. CASE j # x
    <3>1. j < x
      BY <1>5, <2>2 DEF TableIndices
    <3>2. memory[t][j] = PresentEntry(n * Pages + j)
      BY <1>3, <3>1 DEF PassesDone
    <3> QED
      BY <1>10, <2>2, <3>2
  <2> QED
    BY <2>1, <2>2
<1>17. Progress'
  <2>1. /\ Len(init'.tables) = IdentityTables /\ ~paging' /\ curdir' = 0
        /\ \A k \in DOMAIN init'.tables : init'.tables[k] \in DOMAIN memory'
        /\ \A k, m \in DOMAIN init'.tables : k # m => init'.tables[k] # init'.tables[m]
    BY <1>2, <1>3, <1>9, <1>11, <1>12
  <2>2. (\A v \in Virtual : asked'[v] = Nowhere /\ tlb'[v] = Nowhere) /\ allocated' = {}
    BY <1>3, <1>12
  <2> QED
    BY <1>11, <1>16, <2>1, <2>2 DEF Progress
<1>18. TablesFilled'
  <2> SUFFICES ASSUME NEW k \in Passes, (k < Filled)'
               PROVE  memory'[init'.tables[k + 1]] = IdentityTable(k)
    BY DEF TablesFilled
  <2>1. k < n
    BY <1>11 DEF Filled
  <2>2. memory[init.tables[k + 1]] = IdentityTable(k)
    BY <1>2, <2>1 DEF IInv, TablesFilled, Filled
  <2>3. k + 1 # n + 1
    BY <1>2, <2>1 DEF Passes
  <2>4. init.tables[k + 1] # t /\ init.tables[k + 1] \in DOMAIN memory
    BY <1>2, <1>3, <1>4, <2>3
  <2> QED
    BY <1>9, <1>11, <2>2, <2>4
<1>19. DirectoryKept'
  BY <1>13 DEF DirectoryKept
<1>20. EntriesAsAsked' /\ FramesOwned' /\ StaleOnlyUnflushed'
       /\ \A v \in Virtual : asked'[v] = Nowhere
  BY <1>2, <1>12, NotYetPaging
<1>21. Bit31Clear'
  <2> SUFFICES ASSUME LowHalf, NEW q \in DOMAIN memory', NEW k \in DOMAIN memory'[q]
               PROVE  memory'[q][k].bit31 = 0
    BY <1>20 DEF Bit31Clear, LowHalf
  <2>1. \A r \in DOMAIN memory : \A j \in DOMAIN memory[r] : memory[r][j].bit31 = 0
    BY DEF IInv, Bit31Clear
  <2>2. CASE q # t
    BY <1>9, <2>1, <2>2
  <2>3. CASE q = t
    <3>1. k \in TableIndices /\ DOMAIN memory[t] = TableIndices
      BY <1>6, <1>10, <2>3 DEF PageTables
    <3> QED
      BY <1>6, <1>7, <1>10, <2>1, <2>3, <3>1
  <2> QED
    BY <2>2, <2>3
<1> QED
  BY <1>14, <1>15, <1>17, <1>18, <1>19, <1>20, <1>21, Zenon DEF IInv

LEMMA LeaveLoopIInv ==
  ASSUME IInv, LeaveLoop PROVE IInv'
<1> DEFINE n == init.table
           t == init.tables[n + 1]
<1>1. /\ At("fill") /\ ~(init.i < Pages)
      /\ init' = [NextTable("directory") EXCEPT !.i = 0]
      /\ UNCHANGED <<heap, memory, curdir, paging, tlb, ghosts>>
  BY DEF LeaveLoop, InLoop
<1>2. /\ ~paging /\ init.pc = "fill" /\ init \in Inits
      /\ n \in Passes /\ n \in Nat /\ IdentityTables \in Nat /\ n < IdentityTables
      /\ \A v \in Virtual : tlb[v] = Nowhere
      /\ DOMAIN init.tables = 1 .. Len(init.tables)
  BY <1>1, Initialising DEF Filling, Passes
<1>3. /\ Len(init.tables) = IdentityTables
      /\ \A k \in DOMAIN init.tables : init.tables[k] \in DOMAIN memory
      /\ \A k, m \in DOMAIN init.tables : k # m => init.tables[k] # init.tables[m]
      /\ curdir = 0 /\ allocated = {} /\ PassesDone
      /\ \A v \in Virtual : asked[v] = Nowhere /\ tlb[v] = Nowhere
  BY <1>2 DEF IInv, Progress
<1>4. t \in DOMAIN memory /\ ~HasDirectory
  BY <1>2, <1>3 DEF HasDirectory, Filling
<1>5. memory[t] = IdentityTable(n)
  <2>1. memory[t] \in PageTables
    BY <1>4 DEF IInv, Shapes
  <2>2. ASSUME NEW j \in TableIndices PROVE memory[t][j] = PresentEntry(n * Pages + j)
    <3>1. j < init.i
      BY <1>1, <1>2, PagingAssumption DEF TableIndices, Inits
    <3> QED
      BY <1>3, <3>1 DEF PassesDone
  <2> HIDE DEF t
  <2> QED
    BY <2>1, <2>2 DEF PageTables, IdentityTable
<1>6. /\ init' \in Inits /\ init'.tables = init.tables /\ init'.dir = init.dir
      /\ init'.i = 0
      /\ \/ n + 1 < IdentityTables /\ init'.table = n + 1 /\ init'.pc = "fill"
         \/ n + 1 = IdentityTables /\ init'.table = 0 /\ init'.pc = "directory"
  <2> DEFINE l == NextTable("directory")
             T == Seq(HeapPages)
             D == HeapPages \cup {0}
             I == 0 .. Pages
  <2>1. "directory" \in Places /\ 0 \in I
    BY PagingAssumption DEF Places, Filling
  <2>2. /\ l \in Inits /\ l.tables = init.tables /\ l.dir = init.dir
        /\ \/ n + 1 < IdentityTables /\ l.table = n + 1 /\ l.pc = "fill"
           \/ n + 1 = IdentityTables /\ l.table = 0 /\ l.pc = "directory"
    BY <1>2, <2>1, Looping
  <2>3. Inits = [pc : Places, table : Passes, i : I, tables : T, dir : D]
    BY DEF Inits
  <2>4. init' = [l EXCEPT !.i = 0]
    BY <1>1
  <2> HIDE DEF l, T, D, I
  <2>5. /\ init' \in Inits /\ init'.tables = l.tables /\ init'.dir = l.dir
        /\ init'.table = l.table /\ init'.pc = l.pc /\ init'.i = 0
    BY <2>1, <2>2, <2>3, <2>4, Zenon
  <2> QED
    BY <2>2, <2>5
<1>7. /\ live' = live /\ paging' = paging /\ tlb' = tlb /\ asked' = asked
      /\ allocated' = allocated /\ unflushed' = unflushed /\ curdir' = curdir
      /\ memory' = memory
  BY <1>1 DEF ghosts, heap
<1>8. ~HasDirectory'
  BY <1>6 DEF HasDirectory, Filling
<1>9. Shapes'
  <2>1. H!IInv'
    BY <1>1, ManagerKept DEF IInv, Shapes
  <2> QED
    BY <1>4, <1>6, <1>7, <1>8, <2>1 DEF IInv, Shapes
<1>10. TablesOwned'
  BY <1>7 DEF IInv, TablesOwned
<1>11. Progress'
  <2>1. init'.i = 0 /\ PassesDone'
    BY <1>6 DEF PassesDone, TableIndices
  <2>2. /\ init'.pc # "tables" /\ init'.pc # "done"
        /\ init'.pc \notin {"enablepaging", "done"}
        /\ init'.pc \in {"directory", "setpdir", "enablepaging", "done"} => init'.table = 0
    BY <1>6
  <2>3. /\ Len(init'.tables) = IdentityTables /\ ~paging' /\ curdir' = 0
        /\ \A k \in DOMAIN init'.tables : init'.tables[k] \in DOMAIN memory'
        /\ \A k, m \in DOMAIN init'.tables : k # m => init'.tables[k] # init'.tables[m]
    BY <1>2, <1>3, <1>6, <1>7
  <2>4. (\A v \in Virtual : asked'[v] = Nowhere /\ tlb'[v] = Nowhere) /\ allocated' = {}
    BY <1>3, <1>7
  <2> QED
    BY <2>1, <2>2, <2>3, <2>4 DEF Progress
<1>12. TablesFilled'
  <2> SUFFICES ASSUME NEW k \in Passes, (k < Filled)'
               PROVE  memory'[init'.tables[k + 1]] = IdentityTable(k)
    BY DEF TablesFilled
  <2>1. k \in Nat /\ k < n + 1
    BY <1>2, <1>6 DEF Filled, Passes
  <2>2. CASE k = n
    BY <1>5, <1>6, <1>7, <2>2
  <2>3. CASE k < n
    BY <1>2, <1>6, <1>7, <2>3 DEF IInv, TablesFilled, Filled
  <2> QED
    BY <1>2, <2>1, <2>2, <2>3
<1>13. DirectoryKept'
  BY <1>8 DEF DirectoryKept
<1>14. EntriesAsAsked' /\ FramesOwned' /\ StaleOnlyUnflushed'
       /\ \A v \in Virtual : asked'[v] = Nowhere
  BY <1>2, <1>7, NotYetPaging
<1>15. Bit31Clear'
  BY <1>7 DEF IInv, Bit31Clear
<1> QED
  BY <1>9, <1>10, <1>11, <1>12, <1>13, <1>14, <1>15, Zenon DEF IInv

LEMMA AllocateDirectoryIInv ==
  ASSUME IInv, AllocateDirectory PROVE IInv'
<1>1. /\ At("directory") /\ Manager!kernelmalloc(PAGE_SIZE)
      /\ UNCHANGED <<curdir, paging, tlb, ghosts>>
  BY DEF AllocateDirectory
<1>2. H!IInv'
  BY <1>1, PagingAssumption, ManagerKept DEF PAGE_SIZE, IInv, Shapes
<1>3. CASE halted'
  <2>1. live' = live
    BY <1>1, <1>3, SameKernelmalloc DEF H!kernelmalloc
  <2>2. UNCHANGED <<memory, init>>
    BY <1>3 DEF AllocateDirectory
  <2> QED
    BY <1>1, <1>2, <2>1, <2>2, OtherStep
<1>4. CASE ~halted'
  <2> DEFINE q == NewPage
  <2>1. /\ memory' = Holding(NewPage, clear)
        /\ init' = [init EXCEPT !.pc = "entries", !.dir = q]
    BY <1>4 DEF AllocateDirectory
  <2>2. /\ TablesOwned' /\ q \in HeapPages /\ q \notin DOMAIN memory
        /\ DOMAIN memory' = DOMAIN memory \cup {q}
        /\ memory' = [r \in DOMAIN memory' |-> memory'[r]]
        /\ memory'[q] = clear
        /\ \A r \in DOMAIN memory : memory'[r] = memory[r]
    BY <1>1, <1>4, <2>1, PageTaken
  <2> HIDE DEF q
  <2>3. /\ ~paging /\ init.pc = "directory" /\ init \in Inits
        /\ init.table \in Passes /\ IdentityTables \in Nat
        /\ \A v \in Virtual : tlb[v] = Nowhere
        /\ DOMAIN init.tables = 1 .. Len(init.tables)
    BY <1>1, Initialising DEF Filling
  <2>4. /\ init' \in Inits /\ init'.pc = "entries" /\ init'.dir = q
        /\ init'.tables = init.tables /\ init'.table = init.table /\ init'.i = init.i
    <3> DEFINE T == Seq(HeapPages)
               D == HeapPages \cup {0}
               I == 0 .. Pages
    <3>1. Inits = [pc : Places, table : Passes, i : I, tables : T, dir : D]
      BY DEF Inits
    <3>2. q \in D /\ "entries" \in Places
      BY <2>2 DEF Places, Entering
    <3> HIDE DEF T, D, I
    <3> QED
      BY <2>1, <2>3, <3>1, <3>2, Zenon
  <2>5. ~HasDirectory /\ HasDirectory'
    BY <2>3, <2>4 DEF HasDirectory, Filling
  <2>6. /\ Len(init.tables) = IdentityTables
        /\ \A k \in DOMAIN init.tables : init.tables[k] \in DOMAIN memory
        /\ \A k, m \in DOMAIN init.tables : k # m => init.tables[k] # init.tables[m]
        /\ init.table = 0 /\ init.i = 0 /\ curdir = 0 /\ allocated = {}
        /\ \A v \in Virtual : asked[v] = Nowhere /\ tlb[v] = Nowhere
    BY <2>3 DEF IInv, Progress
  <2>7. /\ paging' = paging /\ tlb' = tlb /\ asked' = asked /\ curdir' = curdir
        /\ allocated' = allocated /\ unflushed' = unflushed
    BY <1>1 DEF ghosts
  <2>8. Shapes'
    <3>1. \A r \in DOMAIN memory' :
            memory'[r] \in IF r = q THEN Directories ELSE PageTables
      BY <2>2, <2>5, ZeroEntry DEF IInv, Shapes
    <3> QED
      BY <1>2, <2>2, <2>4, <2>5, <2>7, <3>1 DEF IInv, Shapes
  <2>9. Progress'
    BY <2>2, <2>3, <2>4, <2>6, <2>7 DEF Progress
  <2>10. TablesFilled'
    <3> SUFFICES ASSUME NEW k \in Passes
                 PROVE  memory'[init'.tables[k + 1]] = IdentityTable(k)
      BY DEF TablesFilled
    <3>1. k < IdentityTables /\ k + 1 \in DOMAIN init.tables
      BY <2>3, <2>6 DEF Passes
    <3>2. memory[init.tables[k + 1]] = IdentityTable(k)
      BY <2>3, <3>1 DEF IInv, TablesFilled, Filled
    <3> QED
      BY <2>2, <2>4, <2>6, <3>1, <3>2
  <2>11. DirectoryKept'
    <3>1. Directory' = clear
      BY <2>2, <2>4 DEF Directory
    <3>2. \A d \in DirIndices : ~clear[d].present /\ clear[d].bit31 = 0
      BY ZeroEntry
    <3>3. Entered' = 0
      BY <2>4, <2>6 DEF Entered
    <3>4. \A d \in Passes : ~(d < 0)
      BY DEF Passes
    <3>5. init'.dir \in DOMAIN memory' /\ \A k \in DOMAIN init'.tables : init'.tables[k] # init'.dir
      BY <2>2, <2>4, <2>6
    <3> QED
      BY <3>1, <3>2, <3>3, <3>4, <3>5 DEF DirectoryKept
  <2>12. EntriesAsAsked' /\ FramesOwned' /\ StaleOnlyUnflushed'
        /\ \A v \in Virtual : asked'[v] = Nowhere
    BY <2>3, <2>7, NotYetPaging
  <2>13. Bit31Clear'
    <3>1. \A k \in DOMAIN clear : clear[k].bit31 = 0
      BY ZeroEntry DEF clear
    <3> QED
      BY <2>2, <2>12, <3>1 DEF IInv, Bit31Clear
  <2> QED
    BY <2>2, <2>8, <2>9, <2>10, <2>11, <2>12, <2>13, Zenon DEF IInv
<1> QED
  BY <1>3, <1>4

(* The tables that are filled, and what they may be used for, when the
   directory has been allocated. *)
LEMMA DirectoryFacts ==
  ASSUME IInv, HasDirectory
  PROVE  /\ Directory \in Directories
         /\ \A d \in DirIndices : Directory[d] \in Entries
         /\ init.dir \in DOMAIN memory /\ init.dir \in HeapPages
         /\ \A q \in DOMAIN memory : q # init.dir => memory[q] \in PageTables
         /\ Len(init.tables) = IdentityTables
         /\ \A k \in Passes : /\ k + 1 \in DOMAIN init.tables
                              /\ init.tables[k + 1] \in DOMAIN memory
                              /\ init.tables[k + 1] # init.dir
                              /\ init.tables[k + 1] \in HeapPages
<1>1. init \in Inits /\ init.tables \in Seq(HeapPages) /\ init.pc # "tables"
  BY DEF IInv, Shapes, Inits, HasDirectory, Filling
<1>2. Len(init.tables) = IdentityTables /\ DOMAIN init.tables = 1 .. IdentityTables
  BY <1>1 DEF IInv, Progress
<1>3. \A k \in Passes : k + 1 \in DOMAIN init.tables
  BY <1>2, PagingAssumption DEF Passes
<1>4. init.dir \in DOMAIN memory /\ \A k \in DOMAIN init.tables : init.tables[k] # init.dir
  BY DEF IInv, DirectoryKept
<1>5. /\ Directory \in Directories
      /\ \A q \in DOMAIN memory : q # init.dir => memory[q] \in PageTables
  BY <1>4 DEF IInv, Shapes, Directory
<1>6. \A k \in DOMAIN init.tables : init.tables[k] \in DOMAIN memory
  BY DEF IInv, Progress
<1>7. \A q \in DOMAIN memory : q \in HeapPages
  BY DEF IInv, TablesOwned
<1> QED
  BY <1>2, <1>3, <1>4, <1>5, <1>6, <1>7 DEF Directories

LEMMA EnterTableIInv ==
  ASSUME IInv, EnterTable PROVE IInv'
<1> DEFINE n == init.table
           t == init.tables[n + 1]
           e == setframe(setflag(Directory[n]), t)
<1>1. /\ At("entries") /\ init' = NextTable("setpdir")
      /\ UNCHANGED <<heap, curdir, paging, tlb, ghosts>>
  BY DEF EnterTable
<1>2. /\ ~paging /\ init.pc = "entries" /\ init \in Inits
      /\ n \in Passes /\ n \in Nat /\ IdentityTables \in Nat /\ n < IdentityTables
      /\ \A v \in Virtual : tlb[v] = Nowhere
      /\ DOMAIN init.tables = 1 .. Len(init.tables)
  BY <1>1, Initialising DEF Entering, Passes
<1>3. DIR_INDEX(n * Pages) = n /\ n \in DirIndices
  BY <1>2, FirstPageIndex
<1>4. HasDirectory
  BY <1>2 DEF HasDirectory, Filling
<1>5. /\ Directory \in Directories
      /\ \A d \in DirIndices : Directory[d] \in Entries
      /\ init.dir \in DOMAIN memory
      /\ \A q \in DOMAIN memory : q # init.dir => memory[q] \in PageTables
      /\ Len(init.tables) = IdentityTables
      /\ \A k \in Passes : /\ k + 1 \in DOMAIN init.tables
                           /\ init.tables[k + 1] \in DOMAIN memory
                           /\ init.tables[k + 1] # init.dir
                           /\ init.tables[k + 1] \in HeapPages
  BY <1>4, DirectoryFacts
<1>6. /\ init' \in Inits /\ init'.tables = init.tables /\ init'.dir = init.dir
      /\ init'.i = init.i
      /\ \/ n + 1 < IdentityTables /\ init'.table = n + 1 /\ init'.pc = "entries"
         \/ n + 1 = IdentityTables /\ init'.table = 0 /\ init'.pc = "setpdir"
  <2>1. "setpdir" \in Places
    BY DEF Places, Entering
  <2> QED
    BY <1>1, <1>2, <2>1, Looping
<1>7. memory' = [memory EXCEPT ![init.dir] = [Directory EXCEPT ![n] = e]]
  BY <1>1, <1>3, Zenon DEF EnterTable, Directory
<1>8. /\ DOMAIN memory' = DOMAIN memory
      /\ memory' = [q \in DOMAIN memory' |-> memory'[q]]
      /\ memory'[init.dir] = [Directory EXCEPT ![n] = e]
      /\ \A q \in DOMAIN memory : q # init.dir => memory'[q] = memory[q]
  BY <1>5, <1>7, Zenon DEF IInv, Shapes
<1>9. /\ Directory' = [Directory EXCEPT ![n] = e]
      /\ Directory'[n] = e
      /\ \A d \in DirIndices : d # n => Directory'[d] = Directory[d]
  <2>1. Directory' = [Directory EXCEPT ![n] = e]
    BY <1>6, <1>8 DEF Directory
  <2> QED
    BY <1>3, <1>5, <2>1 DEF Directories
<1>10. /\ live' = live /\ paging' = paging /\ tlb' = tlb /\ asked' = asked
       /\ allocated' = allocated /\ unflushed' = unflushed /\ curdir' = curdir
  BY <1>1 DEF ghosts, heap
<1>11. t \in DOMAIN memory /\ t # init.dir /\ t \in Nat /\ t < Frames /\ t \in Addresses
  <2>1. t \in DOMAIN memory /\ t # init.dir /\ t \in HeapPages
    BY <1>2, <1>5
  <2> HIDE DEF t
  <2>2. t \in Nat /\ t < Frames
    BY <2>1, HeapPagesLow
  <2> QED
    BY <2>1, <2>2, PagingAssumption DEF Addresses
<1>12. Directory[n].bit31 = 0
  BY <1>3, <1>4 DEF IInv, DirectoryKept
<1>13. e \in Entries /\ e.present /\ e.frame = t /\ e.bit31 = 0
  BY <1>3, <1>5, <1>11, <1>12, MappedEntry
<1>14. HasDirectory'
  BY <1>6 DEF HasDirectory, Filling
<1> HIDE DEF e
<1>15. Directory' \in Directories
  BY <1>3, <1>5, <1>9, <1>13 DEF Directories
<1>16. Shapes'
  <2>1. H!IInv'
    BY <1>1, ManagerKept DEF IInv, Shapes
  <2>2. \A q \in DOMAIN memory' :
          memory'[q] \in IF q = init'.dir THEN Directories ELSE PageTables
    BY <1>5, <1>6, <1>8, <1>9, <1>15
  <2> QED
    BY <1>6, <1>8, <1>10, <1>14, <2>1, <2>2 DEF IInv, Shapes
<1>17. TablesOwned'
  BY <1>8, <1>10 DEF IInv, TablesOwned
<1>18. /\ Len(init.tables) = IdentityTables
       /\ \A k \in DOMAIN init.tables : init.tables[k] \in DOMAIN memory
       /\ \A k, m \in DOMAIN init.tables : k # m => init.tables[k] # init.tables[m]
       /\ curdir = 0 /\ allocated = {} /\ init.i = 0
       /\ \A v \in Virtual : asked[v] = Nowhere /\ tlb[v] = Nowhere
  BY <1>2 DEF IInv, Progress
<1>19. Progress'
  BY <1>2, <1>6, <1>8, <1>10, <1>18 DEF Progress
<1>20. TablesFilled'
  <2> SUFFICES ASSUME NEW k \in Passes
               PROVE  memory'[init'.tables[k + 1]] = IdentityTable(k)
    BY DEF TablesFilled
  <2>1. memory[init.tables[k + 1]] = IdentityTable(k)
    BY <1>2 DEF IInv, TablesFilled, Filled, Passes
  <2> QED
    BY <1>5, <1>6, <1>8, <2>1
<1>21. DirectoryKept'
  <2>1. Entered = n /\ Entered' = n + 1
    BY <1>2, <1>6 DEF Entered
  <2>2. /\ \A d \in Passes : d < n => /\ Directory[d].present
                                      /\ Directory[d].frame = init.tables[d + 1]
        /\ \A d \in DirIndices : d >= n => ~Directory[d].present
        /\ \A d \in DirIndices :
             /\ Directory[d].bit31 = 0
             /\ Directory[d].present => Directory[d].frame \in DOMAIN memory \ {init.dir}
             /\ \A c \in DirIndices :
                  c # d /\ Directory[c].present /\ Directory[d].present
                    => Directory[c].frame # Directory[d].frame
        /\ \A k \in DOMAIN init.tables : init.tables[k] # init.dir
    BY <1>2, <1>4, <2>1 DEF IInv, DirectoryKept
  <2>3. ASSUME NEW c \in DirIndices, Directory[c].present
        PROVE  c # n /\ Directory[c].frame # t
    <3>1. c \in Passes /\ c < n
      BY <1>2, <2>2, <2>3 DEF DirIndices, Passes
    <3>2. Directory[c].frame = init.tables[c + 1]
      BY <2>2, <3>1
    <3>3. c + 1 \in DOMAIN init.tables /\ n + 1 \in DOMAIN init.tables /\ c + 1 # n + 1
      BY <1>2, <1>5, <3>1 DEF Passes
    <3> QED
      BY <1>18, <3>1, <3>2, <3>3
  <2>4. \A d \in DirIndices :
          /\ Directory'[d].bit31 = 0
          /\ Directory'[d].present => Directory'[d].frame \in DOMAIN memory' \ {init'.dir}
    BY <1>6, <1>8, <1>9, <1>11, <1>13, <2>2
  <2>5. \A c, d \in DirIndices :
          c # d /\ Directory'[c].present /\ Directory'[d].present
            => Directory'[c].frame # Directory'[d].frame
    <3> TAKE c, d \in DirIndices
    <3>1. CASE c = n
      BY <1>9, <1>13, <2>3, <3>1
    <3>2. CASE d = n
      BY <1>9, <1>13, <2>3, <3>2
    <3>3. CASE c # n /\ d # n
      BY <1>9, <2>2, <3>3
    <3> QED
      BY <3>1, <3>2, <3>3
  <2>6. ASSUME NEW d \in Passes, d < n + 1
        PROVE  Directory'[d].present /\ Directory'[d].frame = init'.tables[d + 1]
    <3>1. CASE d = n
      BY <1>6, <1>9, <1>13, <3>1
    <3>2. CASE d # n
      <4>1. d < n /\ d \in DirIndices
        BY <1>2, <2>6, <3>2, PagingAssumption DEF Passes, DirIndices
      <4> QED
        BY <1>6, <1>9, <2>2, <3>2, <4>1
    <3> QED
      BY <3>1, <3>2
  <2>7. \A d \in DirIndices : d >= n + 1 => ~Directory'[d].present
    BY <1>2, <1>9, <2>2 DEF DirIndices
  <2>8. init'.dir \in DOMAIN memory' /\ \A k \in DOMAIN init'.tables : init'.tables[k] # init'.dir
    BY <1>5, <1>6, <1>8, <2>2
  <2> QED
    BY <2>1, <2>4, <2>5, <2>6, <2>7, <2>8 DEF DirectoryKept
<1>22. EntriesAsAsked' /\ FramesOwned' /\ StaleOnlyUnflushed'
      /\ \A v \in Virtual : asked'[v] = Nowhere
  BY <1>2, <1>10, NotYetPaging
<1>23. Bit31Clear'
  <2> SUFFICES ASSUME LowHalf, NEW q \in DOMAIN memory', NEW k \in DOMAIN memory'[q]
               PROVE  memory'[q][k].bit31 = 0
    BY <1>22 DEF Bit31Clear
  <2>1. CASE q # init.dir
    BY <1>8, <2>1 DEF IInv, Bit31Clear
  <2>2. CASE q = init.dir
    <3>1. memory'[q] = Directory' /\ k \in DirIndices
      BY <1>6, <1>8, <1>9, <1>15, <2>2 DEF Directories
    <3> QED
      BY <1>9, <1>13, <1>4, <3>1 DEF IInv, DirectoryKept
  <2> QED
    BY <2>1, <2>2
<1> QED
  BY <1>16, <1>17, <1>19, <1>20, <1>21, <1>22, <1>23, Zenon DEF IInv

LEMMA SetpdirIInv ==
  ASSUME IInv, setpdir PROVE IInv'
<1>1. /\ At("setpdir") /\ curdir' = init.dir /\ tlb' = [v \in Virtual |-> Nowhere]
      /\ init' = [init EXCEPT !.pc = "enablepaging"]
      /\ UNCHANGED <<heap, memory, paging, ghosts>>
  BY DEF setpdir
<1>2. ~paging /\ init.pc = "setpdir" /\ init \in Inits
  BY <1>1, Initialising DEF Entering
<1>3. /\ init' \in Inits /\ init'.pc = "enablepaging" /\ init'.dir = init.dir
      /\ init'.tables = init.tables /\ init'.table = init.table /\ init'.i = init.i
  <2> DEFINE T == Seq(HeapPages)
             D == HeapPages \cup {0}
             I == 0 .. Pages
  <2>1. Inits = [pc : Places, table : Passes, i : I, tables : T, dir : D]
    BY DEF Inits
  <2>2. "enablepaging" \in Places
    BY DEF Places, Entering
  <2> HIDE DEF T, D, I
  <2> QED
    BY <1>1, <1>2, <2>1, <2>2, Zenon
<1>4. /\ live' = live /\ paging' = paging /\ asked' = asked /\ memory' = memory
      /\ allocated' = allocated /\ unflushed' = unflushed
      /\ \A v \in Virtual : tlb'[v] = Nowhere
  BY <1>1 DEF ghosts, heap
<1>5. HasDirectory /\ HasDirectory'
  BY <1>2, <1>3 DEF HasDirectory, Filling
<1>6. Shapes'
  <2>1. H!IInv'
    BY <1>1, ManagerKept DEF IInv, Shapes
  <2> QED
    BY <1>1, <1>3, <1>4, <1>5, <2>1 DEF IInv, Shapes
<1>7. TablesOwned' /\ TablesFilled'
  BY <1>2, <1>3, <1>4 DEF IInv, TablesOwned, TablesFilled, Filled
<1>8. Progress'
  BY <1>1, <1>2, <1>3, <1>4 DEF IInv, Progress
<1>9. DirectoryKept'
  BY <1>2, <1>3, <1>4, <1>5 DEF IInv, DirectoryKept, Directory, Entered
<1>10. EntriesAsAsked' /\ FramesOwned' /\ StaleOnlyUnflushed'
  BY <1>2, <1>4, NotYetPaging
<1>11. Bit31Clear'
  BY <1>4 DEF IInv, Bit31Clear
<1> QED
  BY <1>6, <1>7, <1>8, <1>9, <1>10, <1>11, Zenon DEF IInv

LEMMA EnablepagingIInv ==
  ASSUME IInv, enablepaging PROVE IInv'
<1>1. /\ At("enablepaging") /\ paging' = TRUE
      /\ init' = [init EXCEPT !.pc = "done"]
      /\ UNCHANGED <<heap, memory, curdir, tlb, ghosts>>
  BY DEF enablepaging
<1>2. ~paging /\ init.pc = "enablepaging" /\ init \in Inits
  BY <1>1, Initialising DEF Entering
<1>3. /\ init' \in Inits /\ init'.pc = "done" /\ init'.dir = init.dir
      /\ init'.tables = init.tables /\ init'.table = init.table /\ init'.i = init.i
  <2> DEFINE T == Seq(HeapPages)
             D == HeapPages \cup {0}
             I == 0 .. Pages
  <2>1. Inits = [pc : Places, table : Passes, i : I, tables : T, dir : D]
    BY DEF Inits
  <2>2. "done" \in Places
    BY DEF Places
  <2> HIDE DEF T, D, I
  <2> QED
    BY <1>1, <1>2, <2>1, <2>2, Zenon
<1>4. /\ live' = live /\ asked' = asked /\ memory' = memory /\ curdir' = curdir
      /\ allocated' = allocated /\ unflushed' = unflushed /\ tlb' = tlb
  BY <1>1 DEF ghosts, heap
<1>5. HasDirectory /\ HasDirectory'
  BY <1>2, <1>3 DEF HasDirectory, Filling
<1>6. Shapes'
  <2>1. H!IInv'
    BY <1>1, ManagerKept DEF IInv, Shapes
  <2> QED
    BY <1>1, <1>3, <1>4, <1>5, <2>1 DEF IInv, Shapes
<1>7. TablesOwned' /\ TablesFilled'
  BY <1>2, <1>3, <1>4 DEF IInv, TablesOwned, TablesFilled, Filled
<1>8. Progress'
  BY <1>1, <1>2, <1>3, <1>4 DEF IInv, Progress
<1>9. DirectoryKept'
  BY <1>1, <1>2, <1>3, <1>4, <1>5 DEF IInv, DirectoryKept, Directory, Entered
<1>10. /\ \A v \in Virtual : asked[v] = Nowhere /\ tlb[v] = Nowhere
       /\ allocated = {}
  BY <1>2 DEF IInv, Progress
<1>11. ASSUME NEW v \in Virtual PROVE ~Directory[DIR_INDEX(v)].present
  <2>1. Entered = IdentityTables
    BY <1>2 DEF Entered
  <2> QED
    BY <1>2, <1>5, <2>1, VirtualIndices DEF IInv, DirectoryKept
<1>12. EntriesAsAsked'
  BY <1>3, <1>4, <1>10, <1>11 DEF EntriesAsAsked, Tabled, Directory
<1>13. FramesOwned' /\ StaleOnlyUnflushed'
  BY <1>4, <1>10 DEF FramesOwned, StaleOnlyUnflushed
<1>14. Bit31Clear'
  BY <1>4 DEF IInv, Bit31Clear
<1> QED
  BY <1>6, <1>7, <1>8, <1>9, <1>12, <1>13, <1>14, Zenon DEF IInv

-----------------------------------------------------------------------------
(* The interface.  What is known of the directory when paging is on. *)
LEMMA PagingFacts ==
  ASSUME IInv, paging
  PROVE  /\ init.pc = "done" /\ HasDirectory /\ curdir = init.dir
         /\ Entered = IdentityTables /\ Filled = IdentityTables
<1>1. init.pc = "done"
  BY DEF IInv, Progress
<1> QED
  BY <1>1 DEF IInv, Progress, HasDirectory, Filling, Entered, Filled

(* A table of the directory is a page of its own, and no identity table is
   one that a page outside the identity mapping is entered in. *)
LEMMA TableFacts ==
  ASSUME IInv, paging, NEW v \in Virtual
  PROVE  /\ DIR_INDEX(v) \in DirIndices /\ TABLE_INDEX(v) \in TableIndices
         /\ DirectoryEntry(v) = Directory[DIR_INDEX(v)]
         /\ DirectoryEntry(v) \in Entries
         /\ DirectoryEntry(v).present <=> Tabled(v)
         /\ Tabled(v) =>
              /\ TableOf(v) = Table(v) /\ EntryOf(v) = Entry(v)
              /\ Table(v) \in DOMAIN memory /\ Table(v) # init.dir
              /\ memory[Table(v)] \in PageTables /\ Entry(v) \in Entries
              /\ \A k \in Passes : Table(v) # init.tables[k + 1]
<1> DEFINE d == DIR_INDEX(v)
<1>1. /\ d \in DirIndices /\ TABLE_INDEX(v) \in TableIndices /\ d >= IdentityTables
  BY VirtualIndices
<1>2. HasDirectory /\ curdir = init.dir /\ Entered = IdentityTables
  BY PagingFacts
<1>3. /\ Directory[d] \in Entries
      /\ \A q \in DOMAIN memory : q # init.dir => memory[q] \in PageTables
  BY <1>1, <1>2, DirectoryFacts
<1>4. DirectoryEntry(v) = Directory[d]
  BY <1>2 DEF DirectoryEntry, Directory
<1>5. Directory[d].bit31 = 0
  BY <1>1, <1>2 DEF IInv, DirectoryKept
<1>6. physaddr(Directory[d]) = Directory[d].frame
  BY <1>3, <1>5, PhysAddr
<1>7. TableOf(v) = Table(v) /\ EntryOf(v) = Entry(v)
  BY <1>4, <1>6 DEF TableOf, Table, EntryOf, Entry
<1>8. ASSUME Tabled(v)
      PROVE  /\ Table(v) \in DOMAIN memory /\ Table(v) # init.dir
             /\ \A k \in Passes : Table(v) # init.tables[k + 1]
  <2>1. Table(v) \in DOMAIN memory /\ Table(v) # init.dir
    BY <1>1, <1>2, <1>8 DEF IInv, DirectoryKept, Table, Tabled
  <2>2. ASSUME NEW k \in Passes PROVE Table(v) # init.tables[k + 1]
    <3>1. k < IdentityTables /\ k \in DirIndices /\ k # d
      BY <1>1, PagingAssumption DEF Passes, DirIndices
    <3>2. Directory[k].present /\ Directory[k].frame = init.tables[k + 1]
      BY <1>2, <3>1 DEF IInv, DirectoryKept
    <3>3. Directory[k].frame # Directory[d].frame
      BY <1>1, <1>2, <1>8, <3>1, <3>2 DEF IInv, DirectoryKept, Tabled
    <3> QED
      BY <3>2, <3>3 DEF Table
  <2> QED
    BY <2>1, <2>2
<1>9. Tabled(v) => memory[Table(v)] \in PageTables /\ Entry(v) \in Entries
  BY <1>1, <1>3, <1>8 DEF PageTables, Entry
<1> QED
  BY <1>1, <1>3, <1>4, <1>7, <1>8, <1>9 DEF Tabled

(* Two pages are entered in different places. *)
LEMMA TablesApart ==
  ASSUME IInv, paging, NEW v \in Virtual, NEW u \in Virtual, Tabled(v), Tabled(u), u # v
  PROVE  Table(u) # Table(v) \/ TABLE_INDEX(u) # TABLE_INDEX(v)
<1>1. DIR_INDEX(u) \in DirIndices /\ DIR_INDEX(v) \in DirIndices
  BY VirtualIndices
<1>2. DIR_INDEX(u) # DIR_INDEX(v) => Table(u) # Table(v)
  BY <1>1, PagingFacts DEF IInv, DirectoryKept, Tabled, Table
<1> QED
  BY <1>2, VirtualIndices

(* The walk through the tables. *)
WalkResult(v) == IF Tabled(v) /\ Entry(v).present THEN physaddr(Entry(v)) ELSE Nowhere

LEMMA WalkFollowsTables ==
  ASSUME IInv, paging, NEW v \in Virtual
  PROVE  Walk(v) = WalkResult(v)
<1>1. /\ DirectoryEntry(v).present <=> Tabled(v)
      /\ Tabled(v) => EntryOf(v) = Entry(v)
  BY TableFacts
<1>2. Walk(v) = IF DirectoryEntry(v).present /\ EntryOf(v).present
                THEN physaddr(EntryOf(v)) ELSE Nowhere
  BY DEF Walk, DirectoryEntry, EntryOf, TableOf
<1> QED
  BY <1>1, <1>2 DEF WalkResult

(* What remains when pages are only added to those with entries, and the
   directory and the identity tables keep theirs. *)
LEMMA DirectoryExtended ==
  ASSUME IInv, paging, UNCHANGED <<init, curdir, paging>>,
         DOMAIN memory \subseteq DOMAIN memory',
         \A k \in Passes : memory'[init.tables[k + 1]] = memory[init.tables[k + 1]]
  PROVE  Progress' /\ TablesFilled'
<1>1. init' = init /\ curdir' = curdir /\ paging' = paging
  OBVIOUS
<1>2. Progress'
  BY <1>1 DEF IInv, Progress
<1>3. TablesFilled'
  BY <1>1 DEF IInv, TablesFilled, Filled
<1> QED
  BY <1>2, <1>3

(* An entry of a table is changed, and no other. *)
LEMMA EntryChanged ==
  ASSUME IInv, paging, UNCHANGED <<init, curdir, paging>>,
         NEW v \in Virtual, Tabled(v), NEW e \in Entries,
         memory' = [memory EXCEPT ![TableOf(v)][TABLE_INDEX(v)] = e]
  PROVE  /\ DOMAIN memory' = DOMAIN memory
         /\ memory' = [q \in DOMAIN memory' |-> memory'[q]]
         /\ \A q \in DOMAIN memory' :
              memory'[q] \in IF (HasDirectory /\ q = init.dir)' THEN Directories ELSE PageTables
         /\ \A q \in DOMAIN memory' : \A k \in DOMAIN memory'[q] :
              memory'[q][k] = e \/ (k \in DOMAIN memory[q] /\ memory'[q][k] = memory[q][k])
         /\ Directory' = Directory
         /\ Progress' /\ TablesFilled' /\ DirectoryKept'
         /\ Tabled(v)' /\ Entry(v)' = e
         /\ \A u \in Virtual : Tabled(u)' <=> Tabled(u)
         /\ \A u \in Virtual : u # v /\ Tabled(u) => Entry(u)' = Entry(u)
<1> DEFINE t == Table(v)
           x == TABLE_INDEX(v)
<1>1. /\ x \in TableIndices /\ TableOf(v) = t /\ t \in DOMAIN memory /\ t # init.dir
      /\ memory[t] \in PageTables /\ \A k \in Passes : t # init.tables[k + 1]
  BY TableFacts
<1>2. HasDirectory /\ curdir = init.dir
  BY PagingFacts
<1>3. /\ init.dir \in DOMAIN memory
      /\ \A q \in DOMAIN memory : q # init.dir => memory[q] \in PageTables
      /\ \A k \in Passes : init.tables[k + 1] \in DOMAIN memory
      /\ Directory \in Directories
  BY <1>2, DirectoryFacts
<1>4. memory = [q \in DOMAIN memory |-> memory[q]]
  BY DEF IInv, Shapes
<1> HIDE DEF t, x
<1>5. memory' = [memory EXCEPT ![t] = [memory[t] EXCEPT ![x] = e]]
  BY <1>1, <1>4, Zenon DEF t, x
<1>6. /\ DOMAIN memory' = DOMAIN memory
      /\ memory' = [q \in DOMAIN memory' |-> memory'[q]]
      /\ memory'[t] = [memory[t] EXCEPT ![x] = e]
      /\ \A q \in DOMAIN memory : q # t => memory'[q] = memory[q]
  BY <1>1, <1>4, <1>5, Zenon
<1>7. /\ memory'[t] \in PageTables /\ memory'[t][x] = e
      /\ \A k \in TableIndices : k # x => memory'[t][k] = memory[t][k]
  BY <1>1, <1>6 DEF PageTables
<1>8. Directory' = Directory
  BY <1>1, <1>3, <1>6 DEF Directory
<1>9. HasDirectory' <=> HasDirectory
  BY DEF HasDirectory
<1>10. \A q \in DOMAIN memory' :
         memory'[q] \in IF (HasDirectory /\ q = init.dir)' THEN Directories ELSE PageTables
  BY <1>1, <1>2, <1>3, <1>6, <1>7, <1>9 DEF Directory
<1>11. \A q \in DOMAIN memory' : \A k \in DOMAIN memory'[q] :
         memory'[q][k] = e \/ (k \in DOMAIN memory[q] /\ memory'[q][k] = memory[q][k])
  BY <1>1, <1>6, <1>7 DEF PageTables
<1>12. Progress' /\ TablesFilled'
  BY <1>1, <1>3, <1>6, DirectoryExtended
<1>13. DirectoryKept'
  <2>1. Entered' = Entered
    BY DEF Entered
  <2> QED
    BY <1>6, <1>8, <1>9, <2>1 DEF IInv, DirectoryKept
<1>14. \A u \in Virtual : (Tabled(u)' <=> Tabled(u)) /\ Table(u)' = Table(u)
  BY <1>8 DEF Tabled, Table
<1>15. Entry(v)' = e
  BY <1>7, <1>14 DEF Entry, t, x
<1>16. ASSUME NEW u \in Virtual, u # v, Tabled(u) PROVE Entry(u)' = Entry(u)
  <2>1. Table(u) # t \/ TABLE_INDEX(u) # x
    BY <1>16, TablesApart DEF t, x
  <2>2. Table(u) \in DOMAIN memory /\ TABLE_INDEX(u) \in TableIndices
    BY <1>16, TableFacts
  <2>3. memory'[Table(u)][TABLE_INDEX(u)] = memory[Table(u)][TABLE_INDEX(u)]
    BY <1>6, <1>7, <2>1, <2>2
  <2> QED
    BY <1>14, <2>3 DEF Entry
<1> QED
  BY <1>6, <1>8, <1>10, <1>11, <1>12, <1>13, <1>14, <1>15, <1>16

(* A new table is entered in the directory, with one entry in it. *)
LEMMA TableEntered ==
  ASSUME IInv, paging, UNCHANGED <<init, curdir, paging>>,
         Manager!kernelmalloc(PAGE_SIZE), ~halted',
         NEW v \in Virtual, ~Tabled(v), NEW e \in Entries,
         memory' = [Holding(NewPage, [cleartable EXCEPT ![TABLE_INDEX(v)] = e])
                    EXCEPT ![curdir][DIR_INDEX(v)] = setframe(setflag(@), NewPage)]
  PROVE  /\ H!IInv' /\ TablesOwned'
         /\ live' = live \cup {Page(NewPage)} /\ Page(NewPage) \notin live
         /\ DOMAIN memory' = DOMAIN memory \cup {NewPage}
         /\ memory' = [q \in DOMAIN memory' |-> memory'[q]]
         /\ \A q \in DOMAIN memory' :
              memory'[q] \in IF (HasDirectory /\ q = init.dir)' THEN Directories ELSE PageTables
         /\ \A q \in DOMAIN memory' : \A k \in DOMAIN memory'[q] :
              \/ memory'[q][k] = e \/ memory'[q][k].bit31 = 0
              \/ q \in DOMAIN memory /\ k \in DOMAIN memory[q] /\ memory'[q][k] = memory[q][k]
         /\ Progress' /\ TablesFilled' /\ DirectoryKept'
         /\ Tabled(v)' /\ Entry(v)' = e
         /\ \A u \in Virtual : Tabled(u) => Tabled(u)' /\ Entry(u)' = Entry(u)
         /\ \A u \in Virtual : u # v /\ ~Tabled(u) => ~Tabled(u)' \/ Entry(u)' = zero
<1> DEFINE n == NewPage
           d == DIR_INDEX(v)
           x == TABLE_INDEX(v)
           T == [cleartable EXCEPT ![x] = e]
           held == Holding(n, T)
           g == setframe(setflag(Directory[d]), n)
           D == [Directory EXCEPT ![d] = g]
<1>1. d \in DirIndices /\ x \in TableIndices
  BY VirtualIndices
<1>2. HasDirectory /\ curdir = init.dir
  BY PagingFacts
<1>3. /\ init.dir \in DOMAIN memory
      /\ \A q \in DOMAIN memory : q # init.dir => memory[q] \in PageTables
      /\ \A k \in Passes : /\ init.tables[k + 1] \in DOMAIN memory
                           /\ init.tables[k + 1] # init.dir
      /\ Directory \in Directories
  BY <1>2, DirectoryFacts
<1>4. memory' = [held EXCEPT ![init.dir][d] = setframe(setflag(@), n)]
  BY <1>2
<1>5. DOMAIN memory' = DOMAIN held
  BY <1>4 DEF Holding
<1>6. /\ H!IInv' /\ TablesOwned'
      /\ n \in HeapPages /\ n \in Nat /\ n < Frames
      /\ n \notin DOMAIN memory /\ Page(n) \notin live /\ live' = live \cup {Page(n)}
      /\ DOMAIN held = DOMAIN memory \cup {n}
      /\ held = [q \in DOMAIN held |-> held[q]]
      /\ held[n] = T
      /\ \A q \in DOMAIN memory : held[q] = memory[q]
  BY <1>5, PageTaken, Zenon
<1>7. T \in PageTables /\ T[x] = e /\ \A k \in TableIndices : k # x => T[k] = zero
  BY <1>1, ZeroEntry DEF PageTables
<1>8. g \in Entries /\ g.present /\ g.frame = n /\ g.bit31 = 0
  <2>1. n \in Addresses
    BY <1>6, PagingAssumption DEF Addresses
  <2>2. Directory[d] \in Entries /\ Directory[d].bit31 = 0
    BY <1>1, <1>2, <1>3 DEF Directories, IInv, DirectoryKept
  <2> QED
    BY <1>6, <2>1, <2>2, MappedEntry
<1>9. held[init.dir] = Directory
  BY <1>3, <1>6 DEF Directory
<1> HIDE DEF held, T, n, d, x
<1>10. memory' = [held EXCEPT ![init.dir] = D]
  BY <1>4, <1>9, Zenon
<1> HIDE DEF g
<1>11. D \in Directories /\ D[d] = g /\ \A c \in DirIndices : c # d => D[c] = Directory[c]
  BY <1>1, <1>3, <1>8 DEF Directories
<1> HIDE DEF D
<1>12. /\ DOMAIN memory' = DOMAIN memory \cup {n}
       /\ memory' = [q \in DOMAIN memory' |-> memory'[q]]
       /\ memory'[init.dir] = D
       /\ memory'[n] = T
       /\ \A q \in DOMAIN memory : q # init.dir => memory'[q] = memory[q]
  BY <1>3, <1>6, <1>10, Zenon
<1>13. Directory' = D
  BY <1>12 DEF Directory
<1>14. init' = init /\ HasDirectory' /\ Entered' = Entered /\ init.dir # n
  BY <1>2, <1>3, <1>6 DEF HasDirectory, Entered
<1>15. \A q \in DOMAIN memory' :
         memory'[q] \in IF (HasDirectory /\ q = init.dir)' THEN Directories ELSE PageTables
  <2> TAKE q \in DOMAIN memory'
  <2>1. CASE q = init.dir
    <3>1. memory'[q] \in Directories /\ init'.dir = q /\ HasDirectory'
      BY <1>11, <1>12, <1>14, <2>1, Zenon
    <3> QED
      BY <3>1
  <2>2. CASE q = n
    <3>1. memory'[q] \in PageTables /\ init'.dir # q
      BY <1>7, <1>12, <1>14, <2>2, Zenon
    <3> QED
      BY <3>1
  <2>3. CASE q # n /\ q # init.dir
    <3>1. q \in DOMAIN memory /\ memory'[q] = memory[q]
      BY <1>12, <2>3
    <3>2. memory'[q] \in PageTables
      BY <1>3, <2>3, <3>1
    <3>3. init'.dir = init.dir
      BY <1>14
    <3> QED
      BY <2>3, <3>2, <3>3
  <2> QED
    BY <2>1, <2>2, <2>3
<1>16. ASSUME NEW q \in DOMAIN memory', NEW k \in DOMAIN memory'[q]
       PROVE  \/ memory'[q][k] = e \/ memory'[q][k].bit31 = 0
              \/ q \in DOMAIN memory /\ k \in DOMAIN memory[q] /\ memory'[q][k] = memory[q][k]
  <2>1. CASE q = n
    <3>1. memory'[q] = T /\ k \in TableIndices
      BY <1>7, <1>12, <2>1 DEF PageTables
    <3> QED
      BY <1>7, <3>1, ZeroEntry
  <2>2. CASE q = init.dir
    <3>1. memory'[q] = D /\ k \in DirIndices
      BY <1>11, <1>12, <2>2 DEF Directories
    <3>2. \A c \in DirIndices : Directory[c].bit31 = 0
      BY <1>2 DEF IInv, DirectoryKept
    <3> QED
      BY <1>8, <1>11, <3>1, <3>2
  <2>3. CASE q # n /\ q # init.dir
    BY <1>12, <2>3
  <2> QED
    BY <2>1, <2>2, <2>3
<1>17. Progress' /\ TablesFilled'
  BY <1>3, <1>12, DirectoryExtended
<1>18. DirectoryKept'
  <2>1. /\ \A k \in DOMAIN init.tables : init.tables[k] # init.dir
        /\ \A c \in DirIndices :
             /\ Directory[c].bit31 = 0
             /\ Directory[c].present => Directory[c].frame \in DOMAIN memory \ {init.dir}
             /\ \A b \in DirIndices :
                  b # c /\ Directory[b].present /\ Directory[c].present
                    => Directory[b].frame # Directory[c].frame
        /\ \A k \in Passes :
             k < Entered => Directory[k].present /\ Directory[k].frame = init.tables[k + 1]
    BY <1>2 DEF IInv, DirectoryKept
  <2>2. ~Directory[d].present
    BY DEF Tabled, d
  <2>3. \A c \in DirIndices :
          /\ D[c].bit31 = 0
          /\ D[c].present => D[c].frame \in DOMAIN memory' \ {init.dir}
    <3> TAKE c \in DirIndices
    <3>1. CASE c = d
      BY <1>8, <1>11, <1>12, <1>14, <3>1
    <3>2. CASE c # d
      BY <1>11, <1>12, <2>1, <3>2
    <3> QED
      BY <3>1, <3>2
  <2>4. \A b, c \in DirIndices :
          b # c /\ D[b].present /\ D[c].present => D[b].frame # D[c].frame
    <3> TAKE b, c \in DirIndices
    <3>1. CASE b = d
      BY <1>6, <1>8, <1>11, <2>1, <3>1
    <3>2. CASE c = d
      BY <1>6, <1>8, <1>11, <2>1, <3>2
    <3>3. CASE b # d /\ c # d
      BY <1>11, <2>1, <3>3
    <3> QED
      BY <3>1, <3>2, <3>3
  <2>5. \A k \in Passes : k < Entered => D[k].present /\ D[k].frame = init.tables[k + 1]
    <3> TAKE k \in Passes
    <3>1. k \in DirIndices
      BY PagingAssumption DEF Passes, DirIndices
    <3> QED
      BY <1>11, <2>1, <2>2, <3>1
  <2>6. init.dir \in DOMAIN memory'
    BY <1>3, <1>12
  <2> QED
    BY <1>13, <1>14, <2>1, <2>3, <2>4, <2>5, <2>6 DEF DirectoryKept
<1>19. Tabled(v)' /\ Table(v)' = n /\ Entry(v)' = e
  <2>1. Tabled(v)' /\ Table(v)' = n
    BY <1>8, <1>11, <1>13 DEF Tabled, Table, d
  <2> QED
    BY <1>7, <1>12, <2>1 DEF Entry, x
<1>20. ASSUME NEW u \in Virtual
       PROVE  /\ Tabled(u) => Tabled(u)' /\ Entry(u)' = Entry(u)
              /\ u # v /\ ~Tabled(u) => ~Tabled(u)' \/ Entry(u)' = zero
  <2>1. DIR_INDEX(u) \in DirIndices /\ TABLE_INDEX(u) \in TableIndices
        /\ (u # v => DIR_INDEX(u) # d \/ TABLE_INDEX(u) # x)
    BY VirtualIndices DEF d, x
  <2>2. CASE DIR_INDEX(u) = d
    <3>1. ~Tabled(u)
      BY <2>2 DEF Tabled, d
    <3>2. Table(u)' = n
      BY <1>8, <1>11, <1>13, <2>2 DEF Table
    <3>3. u # v => memory'[n][TABLE_INDEX(u)] = zero
      BY <1>7, <1>12, <2>1, <2>2
    <3> QED
      BY <3>1, <3>2, <3>3 DEF Entry
  <2>3. CASE DIR_INDEX(u) # d
    <3>1. Directory'[DIR_INDEX(u)] = Directory[DIR_INDEX(u)]
      BY <1>11, <1>13, <2>1, <2>3
    <3>2. (Tabled(u)' <=> Tabled(u)) /\ Table(u)' = Table(u)
      BY <3>1 DEF Tabled, Table
    <3>3. Tabled(u) => Entry(u)' = Entry(u)
      <4>1. Tabled(u) => Table(u) \in DOMAIN memory /\ Table(u) # init.dir
        BY TableFacts
      <4> QED
        BY <1>12, <3>2, <4>1 DEF Entry
    <3> QED
      BY <3>2, <3>3
  <2> QED
    BY <2>2, <2>3
<1> QED
  BY <1>6, <1>12, <1>15, <1>16, <1>17, <1>18, <1>19, <1>20 DEF n

(* What is recorded of a change. *)
LEMMA ChangeRecorded ==
  ASSUME Shapes, NEW v \in Virtual, NEW p \in Addresses \cup {Nowhere}, Changed(v, p)
  PROVE  /\ asked' \in [Virtual -> Addresses \cup {Nowhere}]
         /\ asked'[v] = p
         /\ \A u \in Virtual : u # v => asked'[u] = asked[u]
         /\ unflushed' \subseteq Virtual /\ unflushed \subseteq unflushed'
         /\ asked[v] # Nowhere /\ asked[v] # p => v \in unflushed'
BY DEF Shapes, Changed

(* A change of one page's mapping: its entry is as asked for, and only an
   unflushed translation of it can be outdated. *)
LEMMA MappingChanged ==
  ASSUME IInv, paging, UNCHANGED <<init, curdir, paging, tlb>>,
         NEW v \in Virtual, NEW p \in Addresses \cup {Nowhere}, Changed(v, p),
         NEW e \in Entries, e.present <=> p # Nowhere,
         p # Nowhere => /\ e.frame = p % Frames
                        /\ p >= Frames => e.bit31 = 1
                        /\ p < Frames /\ Tabled(v) => e.bit31 = Entry(v).bit31,
         Tabled(v)', Entry(v)' = e,
         \A u \in Virtual : u # v /\ Tabled(u) => Tabled(u)' /\ Entry(u)' = Entry(u),
         \A u \in Virtual : u # v /\ ~Tabled(u) => ~Tabled(u)' \/ Entry(u)' = zero,
         \A u \in Virtual : Walk(u)' = WalkResult(u)'
  PROVE  EntriesAsAsked' /\ StaleOnlyUnflushed'
<1>1. /\ asked \in [Virtual -> Addresses \cup {Nowhere}]
      /\ asked'[v] = p /\ \A u \in Virtual : u # v => asked'[u] = asked[u]
      /\ unflushed \subseteq unflushed'
      /\ asked[v] # Nowhere /\ asked[v] # p => v \in unflushed'
  BY ChangeRecorded DEF IInv, Shapes
<1>2. ASSUME NEW u \in Virtual
      PROVE  /\ ~Tabled(u) => asked[u] = Nowhere
             /\ Tabled(u) => (Entry(u).present <=> asked[u] # Nowhere)
             /\ asked[u] # Nowhere => /\ Entry(u).frame = asked[u] % Frames
                                      /\ asked[u] >= Frames => Entry(u).bit31 = 1
  BY DEF IInv, EntriesAsAsked
<1>3. ASSUME NEW u \in Virtual
      PROVE  /\ ~Tabled(u)' => asked'[u] = Nowhere
             /\ Tabled(u)' => (Entry(u)'.present <=> asked'[u] # Nowhere)
             /\ asked'[u] # Nowhere => /\ Entry(u)'.frame = asked'[u] % Frames
                                       /\ asked'[u] >= Frames => Entry(u)'.bit31 = 1
  <2>1. CASE u = v
    BY <1>1, <2>1
  <2>2. CASE u # v /\ Tabled(u)
    <3>1. Tabled(u)' /\ Entry(u)' = Entry(u) /\ asked'[u] = asked[u]
      BY <1>1, <2>2
    <3> QED
      BY <1>2, <2>2, <3>1
  <2>3. CASE u # v /\ ~Tabled(u)
    <3>1. asked'[u] = asked[u] /\ asked[u] = Nowhere /\ (~Tabled(u)' \/ Entry(u)' = zero)
      BY <1>1, <1>2, <2>3
    <3> QED
      BY <3>1, ZeroEntry
  <2> QED
    BY <2>1, <2>2, <2>3
<1>4. EntriesAsAsked'
  BY <1>3, Zenon DEF EntriesAsAsked
<1>5. ASSUME NEW u \in Virtual, u \notin unflushed', tlb'[u] # Nowhere
      PROVE  tlb'[u] = Walk(u)'
  <2>1. tlb' = tlb /\ Walk(u)' = WalkResult(u)' /\ Walk(u) = WalkResult(u)
    BY WalkFollowsTables
  <2>2. tlb[u] = WalkResult(u)
    BY <1>1, <1>5, <2>1 DEF IInv, StaleOnlyUnflushed
  <2>3. Tabled(u) /\ Entry(u).present
    BY <1>5, <2>1, <2>2 DEF WalkResult
  <2>4. WalkResult(u) = physaddr(Entry(u))
    BY <2>3 DEF WalkResult
  <2>5. CASE u # v
    <3>1. Tabled(u)' /\ Entry(u)' = Entry(u)
      BY <2>3, <2>5
    <3>2. WalkResult(u)' = physaddr(Entry(u)')
      BY <2>3, <3>1 DEF WalkResult, physaddr
    <3> QED
      BY <2>1, <2>2, <2>4, <3>1, <3>2
  <2>6. CASE u = v
    <3>1. asked[v] # Nowhere /\ asked[v] = p
      BY <1>1, <1>2, <1>5, <2>3, <2>6
    <3>2. e.frame = Entry(v).frame
      BY <1>2, <2>6, <3>1
    <3>3. e.bit31 = Entry(v).bit31
      <4>1. p \in Addresses
        BY <3>1
      <4>2. p < Frames \/ p >= Frames
        BY <4>1, PagingAssumption DEF Addresses
      <4> QED
        BY <1>2, <2>3, <2>6, <3>1, <4>2
    <3>4. WalkResult(u)' = physaddr(e)
      <4>1. Tabled(u)' /\ Entry(u)' = e /\ e.present
        BY <2>6, <3>1
      <4> QED
        BY <4>1 DEF WalkResult, physaddr
    <3> QED
      BY <2>1, <2>2, <2>4, <2>6, <3>2, <3>3, <3>4 DEF physaddr
  <2> QED
    BY <2>5, <2>6
<1>6. StaleOnlyUnflushed'
  BY <1>5, Zenon DEF StaleOnlyUnflushed
<1> QED
  BY <1>4, <1>6

LEMMA WalkFollowsTablesNext ==
  ASSUME Shapes', Progress', DirectoryKept', paging', NEW v \in Virtual
  PROVE  Walk(v)' = WalkResult(v)'
<1> DEFINE d == DIR_INDEX(v)
<1>1. d \in DirIndices
  BY VirtualIndices
<1>2. HasDirectory' /\ curdir' = init'.dir
  BY DEF Progress, HasDirectory, Filling
<1>3. init'.dir \in DOMAIN memory' /\ Directory'[d].bit31 = 0
  BY <1>1, <1>2 DEF DirectoryKept
<1>4. Directory' \in Directories
  BY <1>2, <1>3 DEF Shapes, Directory
<1>5. Directory'[d] \in Entries
  BY <1>1, <1>4 DEF Directories
<1>6. physaddr(Directory'[d]) = Directory'[d].frame
  BY <1>3, <1>5, PhysAddr
<1> QED
  BY <1>2, <1>6 DEF Walk, WalkResult, Tabled, Entry, Table, Directory, physaddr

LEMMA MapIntoTableIInv ==
  ASSUME IInv, NEW p \in Physical, NEW v \in Virtual,
         paging, ~halted, v \notin allocated, MapIntoTable(p, v),
         Changed(v, p), UNCHANGED <<allocated, halted, init, curdir, paging, tlb>>
  PROVE  IInv'
<1> DEFINE e == setflag(setframe(EntryOf(v), p))
<1>1. /\ DirectoryEntry(v).present /\ UNCHANGED heap
      /\ memory' = [memory EXCEPT ![TableOf(v)][TABLE_INDEX(v)] = e]
  BY DEF MapIntoTable, EntryOf
<1>2. Tabled(v) /\ EntryOf(v) = Entry(v) /\ Entry(v) \in Entries
  BY <1>1, TableFacts
<1>3. p \in Addresses
  BY PagingAssumption DEF Addresses
<1>4. /\ e \in Entries /\ e.present /\ e.frame = p % Frames
      /\ p < Frames => e.bit31 = Entry(v).bit31
      /\ p >= Frames => e.bit31 = 1
  BY <1>2, <1>3, MappedEntry
<1> HIDE DEF e
<1>5. /\ DOMAIN memory' = DOMAIN memory
      /\ memory' = [q \in DOMAIN memory' |-> memory'[q]]
      /\ \A q \in DOMAIN memory' :
           memory'[q] \in IF (HasDirectory /\ q = init.dir)' THEN Directories ELSE PageTables
      /\ \A q \in DOMAIN memory' : \A k \in DOMAIN memory'[q] :
           memory'[q][k] = e \/ (k \in DOMAIN memory[q] /\ memory'[q][k] = memory[q][k])
      /\ Progress' /\ TablesFilled' /\ DirectoryKept'
      /\ Tabled(v)' /\ Entry(v)' = e
      /\ \A u \in Virtual : Tabled(u)' <=> Tabled(u)
      /\ \A u \in Virtual : u # v /\ Tabled(u) => Entry(u)' = Entry(u)
  <2>1. UNCHANGED <<init, curdir, paging>>
    OBVIOUS
  <2> QED
    BY <1>1, <1>2, <1>4, <2>1, EntryChanged, Zenon
<1>6. p \in Addresses \cup {Nowhere} /\ p # Nowhere
  BY <1>3 DEF Addresses, Nowhere
<1>7. /\ asked' \in [Virtual -> Addresses \cup {Nowhere}]
      /\ asked'[v] = p /\ \A u \in Virtual : u # v => asked'[u] = asked[u]
      /\ unflushed' \subseteq Virtual
  BY <1>6, ChangeRecorded DEF IInv
<1>8. init' = init /\ live' = live /\ paging' = paging /\ tlb' = tlb /\ allocated' = allocated
  BY <1>1 DEF heap
<1>9. Shapes'
  <2>1. H!IInv'
    BY <1>1, ManagerKept DEF IInv, Shapes
  <2> QED
    BY <1>5, <1>7, <1>8, <2>1 DEF IInv, Shapes
<1>10. TablesOwned'
  BY <1>5, <1>8 DEF IInv, TablesOwned
<1>11. \A u \in Virtual : Walk(u)' = WalkResult(u)'
  BY <1>5, <1>8, <1>9, WalkFollowsTablesNext
<1>12. EntriesAsAsked' /\ StaleOnlyUnflushed'
  BY <1>4, <1>5, <1>6, <1>11, MappingChanged
<1>13. Bit31Clear'
  <2> SUFFICES ASSUME LowHalf PROVE Bit31Clear'
    BY DEF Bit31Clear
  <2>1. /\ \A q \in DOMAIN memory : \A k \in DOMAIN memory[q] : memory[q][k].bit31 = 0
        /\ \A u \in Virtual : asked[u] # Nowhere => asked[u] < Frames
    BY DEF IInv, Bit31Clear
  <2>2. p < Frames
    BY PagingAssumption DEF LowHalf
  <2>3. Entry(v).bit31 = 0
    BY <1>2, <2>1, TableFacts DEF Entry, PageTables
  <2>4. \A q \in DOMAIN memory' : \A k \in DOMAIN memory'[q] : memory'[q][k].bit31 = 0
    BY <1>4, <1>5, <2>1, <2>2, <2>3
  <2>5. \A u \in Virtual : asked'[u] # Nowhere => asked'[u] < Frames
    BY <1>7, <2>1, <2>2
  <2> QED
    BY <2>4, <2>5 DEF Bit31Clear
<1>14. FramesOwned'
  BY <1>5, <1>7, <1>8 DEF IInv, FramesOwned, Shapes
<1> QED
  BY <1>5, <1>9, <1>10, <1>12, <1>13, <1>14, Zenon DEF IInv

LEMMA MapIntoNewTableIInv ==
  ASSUME IInv, NEW p \in Physical, NEW v \in Virtual,
         paging, v \notin allocated, MapIntoNewTable(p, v), ~halted',
         Changed(v, p), UNCHANGED <<allocated, init, curdir, paging, tlb>>
  PROVE  IInv'
<1> DEFINE e == setflag(setframe(zero, p))
<1>1. /\ ~DirectoryEntry(v).present /\ Manager!kernelmalloc(PAGE_SIZE)
      /\ memory' =
           [Holding(NewPage, [cleartable EXCEPT ![TABLE_INDEX(v)] = setflag(setframe(@, p))])
            EXCEPT ![curdir][DIR_INDEX(v)] = setframe(setflag(@), NewPage)]
  BY DEF MapIntoNewTable
<1>2. ~Tabled(v) /\ TABLE_INDEX(v) \in TableIndices
  BY <1>1, TableFacts
<1>3. p \in Addresses
  BY PagingAssumption DEF Addresses
<1>4. /\ e \in Entries /\ e.present /\ e.frame = p % Frames
      /\ p < Frames => e.bit31 = 0
      /\ p >= Frames => e.bit31 = 1
  BY <1>3, MappedEntry, ZeroEntry
<1>5. cleartable[TABLE_INDEX(v)] = zero
  BY <1>2, ZeroEntry
<1>6. memory' = [Holding(NewPage, [cleartable EXCEPT ![TABLE_INDEX(v)] = e])
                 EXCEPT ![curdir][DIR_INDEX(v)] = setframe(setflag(@), NewPage)]
  BY <1>1, <1>5, Zenon
<1> HIDE DEF e
<1>7. /\ H!IInv' /\ TablesOwned'
      /\ live' = live \cup {Page(NewPage)} /\ Page(NewPage) \notin live
      /\ DOMAIN memory' = DOMAIN memory \cup {NewPage}
      /\ memory' = [q \in DOMAIN memory' |-> memory'[q]]
      /\ \A q \in DOMAIN memory' :
           memory'[q] \in IF (HasDirectory /\ q = init.dir)' THEN Directories ELSE PageTables
      /\ \A q \in DOMAIN memory' : \A k \in DOMAIN memory'[q] :
           \/ memory'[q][k] = e \/ memory'[q][k].bit31 = 0
           \/ q \in DOMAIN memory /\ k \in DOMAIN memory[q] /\ memory'[q][k] = memory[q][k]
      /\ Progress' /\ TablesFilled' /\ DirectoryKept'
      /\ Tabled(v)' /\ Entry(v)' = e
      /\ \A u \in Virtual : Tabled(u) => Tabled(u)' /\ Entry(u)' = Entry(u)
      /\ \A u \in Virtual : u # v /\ ~Tabled(u) => ~Tabled(u)' \/ Entry(u)' = zero
  <2>1. UNCHANGED <<init, curdir, paging>>
    OBVIOUS
  <2>2. /\ IInv /\ paging /\ Manager!kernelmalloc(PAGE_SIZE) /\ ~halted' /\ ~Tabled(v)
        /\ v \in Virtual /\ e \in Entries
    BY <1>1, <1>2, <1>4
  <2> QED
    BY <1>6, <2>1, <2>2, TableEntered, Zenon
<1>8. p \in Addresses \cup {Nowhere} /\ p # Nowhere
  BY <1>3 DEF Addresses, Nowhere
<1>9. /\ asked' \in [Virtual -> Addresses \cup {Nowhere}]
      /\ asked'[v] = p /\ \A u \in Virtual : u # v => asked'[u] = asked[u]
      /\ unflushed' \subseteq Virtual
  BY <1>8, ChangeRecorded DEF IInv
<1>10. init' = init /\ paging' = paging /\ tlb' = tlb /\ allocated' = allocated
  OBVIOUS
<1>11. Shapes'
  BY <1>7, <1>9, <1>10 DEF IInv, Shapes
<1>12. \A u \in Virtual : Walk(u)' = WalkResult(u)'
  BY <1>7, <1>10, <1>11, WalkFollowsTablesNext
<1>13. EntriesAsAsked' /\ StaleOnlyUnflushed'
  BY <1>2, <1>4, <1>7, <1>8, <1>12, MappingChanged
<1>14. Bit31Clear'
  <2> SUFFICES ASSUME LowHalf PROVE Bit31Clear'
    BY DEF Bit31Clear
  <2>1. /\ \A q \in DOMAIN memory : \A k \in DOMAIN memory[q] : memory[q][k].bit31 = 0
        /\ \A u \in Virtual : asked[u] # Nowhere => asked[u] < Frames
    BY DEF IInv, Bit31Clear
  <2>2. p < Frames
    BY PagingAssumption DEF LowHalf
  <2>3. \A q \in DOMAIN memory' : \A k \in DOMAIN memory'[q] : memory'[q][k].bit31 = 0
    BY <1>4, <1>7, <2>1, <2>2
  <2>4. \A u \in Virtual : asked'[u] # Nowhere => asked'[u] < Frames
    BY <1>9, <2>1, <2>2
  <2> QED
    BY <2>3, <2>4 DEF Bit31Clear
<1>15. FramesOwned'
  <2>1. \A u \in allocated : u # v /\ u \in Virtual /\ asked'[u] = asked[u]
    BY <1>9 DEF IInv, Shapes
  <2>2. \A u \in allocated : Page(asked[u]) \in live /\ asked[u] # NewPage
    BY <1>7 DEF IInv, FramesOwned
  <2> QED
    BY <1>7, <1>10, <2>1, <2>2 DEF IInv, FramesOwned
<1> QED
  BY <1>7, <1>11, <1>13, <1>14, <1>15, Zenon DEF IInv

LEMMA MapPageIInv ==
  ASSUME IInv, NEW p \in Physical, NEW v \in Virtual, mapPage(p, v) PROVE IInv'
<1>1. /\ paging /\ ~halted /\ v \notin allocated
      /\ UNCHANGED <<init, curdir, paging, tlb>>
      /\ ~halted' => Changed(v, p) /\ UNCHANGED allocated
      /\ halted' => UNCHANGED ghosts
  BY DEF mapPage
<1>2. CASE MapIntoTable(p, v)
  <2>1. ~halted' /\ UNCHANGED halted
    BY <1>1, <1>2 DEF MapIntoTable, heap
  <2> QED
    BY <1>1, <1>2, <2>1, MapIntoTableIInv
<1>3. CASE MapIntoNewTable(p, v) /\ ~halted'
  BY <1>1, <1>3, MapIntoNewTableIInv
<1>4. CASE MapIntoNewTable(p, v) /\ halted'
  <2>1. Manager!kernelmalloc(PAGE_SIZE) /\ UNCHANGED memory
    BY <1>4 DEF MapIntoNewTable
  <2>2. H!IInv' /\ live' = live
    <3>1. H!IInv'
      BY <2>1, PagingAssumption, ManagerKept DEF PAGE_SIZE, IInv, Shapes
    <3>2. live' = live
      BY <1>1, <1>4, <2>1, SameKernelmalloc DEF H!kernelmalloc
    <3> QED
      BY <3>1, <3>2
  <2> QED
    BY <1>1, <1>4, <2>1, <2>2, OtherStep
<1> QED
  BY <1>2, <1>3, <1>4 DEF mapPage

LEMMA PageallocIInv ==
  ASSUME IInv, NEW v \in Virtual, pagealloc(v) PROVE IInv'
<1>1. /\ paging /\ DirectoryEntry(v).present /\ ~EntryOf(v).present
      /\ Manager!kernelmalloc(PAGE_SIZE)
      /\ UNCHANGED <<init, curdir, paging, tlb>>
  BY DEF pagealloc
<1>2. H!IInv'
  BY <1>1, PagingAssumption, ManagerKept DEF PAGE_SIZE, IInv, Shapes
<1>3. CASE halted'
  <2>1. live' = live
    BY <1>1, <1>3, SameKernelmalloc DEF H!kernelmalloc
  <2>2. UNCHANGED <<memory, ghosts>>
    BY <1>3 DEF pagealloc
  <2> QED
    BY <1>1, <1>2, <2>1, <2>2, OtherStep
<1>4. CASE ~halted'
  <2> DEFINE p == NewPage
             e == setflag(setframe(EntryOf(v), p))
  <2>1. /\ memory' = [memory EXCEPT ![TableOf(v)][TABLE_INDEX(v)] = e]
        /\ Changed(v, p) /\ allocated' = allocated \cup {v}
    BY <1>4 DEF pagealloc, EntryOf
  <2>2. /\ p \in HeapPages /\ Page(p) \notin live /\ live' = live \cup {Page(p)}
    BY <1>1, <1>4, NewPageFree DEF IInv, Shapes
  <2>3. /\ p \in Nat /\ p < Frames /\ p \in Addresses /\ p \in Addresses \cup {Nowhere}
        /\ p # Nowhere
    <3>1. p \in Nat /\ p < Frames
      BY <2>2, HeapPagesLow
    <3> HIDE DEF p
    <3> QED
      BY <3>1, PagingAssumption DEF Addresses, Nowhere
  <2>4. Tabled(v) /\ EntryOf(v) = Entry(v) /\ Entry(v) \in Entries
    BY <1>1, TableFacts
  <2>5. /\ e \in Entries /\ e.present /\ e.frame = p % Frames
        /\ e.bit31 = Entry(v).bit31 /\ ~(p >= Frames)
    <3> HIDE DEF p
    <3> QED
      BY <2>3, <2>4, MappedEntry, PagingAssumption
  <2> HIDE DEF e, p
  <2>6. /\ DOMAIN memory' = DOMAIN memory
        /\ memory' = [q \in DOMAIN memory' |-> memory'[q]]
        /\ \A q \in DOMAIN memory' :
             memory'[q] \in IF (HasDirectory /\ q = init.dir)' THEN Directories ELSE PageTables
        /\ \A q \in DOMAIN memory' : \A k \in DOMAIN memory'[q] :
             memory'[q][k] = e \/ (k \in DOMAIN memory[q] /\ memory'[q][k] = memory[q][k])
        /\ Progress' /\ TablesFilled' /\ DirectoryKept'
        /\ Tabled(v)' /\ Entry(v)' = e
        /\ \A u \in Virtual : Tabled(u)' <=> Tabled(u)
        /\ \A u \in Virtual : u # v /\ Tabled(u) => Entry(u)' = Entry(u)
    <3>1. UNCHANGED <<init, curdir, paging>>
      BY <1>1
    <3>2. paging /\ Tabled(v) /\ e \in Entries
      BY <1>1, <2>4, <2>5
    <3> QED
      BY <2>1, <3>1, <3>2, EntryChanged, Zenon
  <2>7. /\ asked' \in [Virtual -> Addresses \cup {Nowhere}]
        /\ asked'[v] = p /\ \A u \in Virtual : u # v => asked'[u] = asked[u]
        /\ unflushed' \subseteq Virtual
    BY <2>1, <2>3, ChangeRecorded DEF IInv
  <2>8. init' = init /\ paging' = paging /\ tlb' = tlb
    BY <1>1
  <2>9. Shapes'
    BY <1>2, <2>1, <2>6, <2>7, <2>8 DEF IInv, Shapes
  <2>10. TablesOwned'
    BY <2>2, <2>6 DEF IInv, TablesOwned
  <2>11. \A u \in Virtual : Walk(u)' = WalkResult(u)'
    BY <1>1, <2>6, <2>8, <2>9, WalkFollowsTablesNext
  <2>12. EntriesAsAsked' /\ StaleOnlyUnflushed'
    BY <1>1, <2>1, <2>3, <2>5, <2>6, <2>11, MappingChanged
  <2>13. Bit31Clear'
    <3> SUFFICES ASSUME LowHalf PROVE Bit31Clear'
      BY DEF Bit31Clear
    <3>1. /\ \A q \in DOMAIN memory : \A k \in DOMAIN memory[q] : memory[q][k].bit31 = 0
          /\ \A u \in Virtual : asked[u] # Nowhere => asked[u] < Frames
      BY DEF IInv, Bit31Clear
    <3>2. Entry(v).bit31 = 0
      BY <1>1, <2>4, <3>1, TableFacts DEF Entry, PageTables
    <3>3. \A q \in DOMAIN memory' : \A k \in DOMAIN memory'[q] : memory'[q][k].bit31 = 0
      BY <2>5, <2>6, <3>1, <3>2
    <3>4. \A u \in Virtual : asked'[u] # Nowhere => asked'[u] < Frames
      BY <2>3, <2>7, <3>1
    <3> QED
      BY <3>3, <3>4 DEF Bit31Clear
  <2>14. FramesOwned'
    <3>1. asked[v] = Nowhere
      BY <1>1, <2>4 DEF IInv, EntriesAsAsked
    <3>2. \A u \in allocated :
            /\ u \in Virtual /\ asked[u] \in HeapPages /\ Page(asked[u]) \in live
            /\ asked[u] \notin DOMAIN memory
            /\ \A w \in allocated : w # u => asked[w] # asked[u]
      BY DEF IInv, FramesOwned, Shapes
    <3>3. \A u \in allocated : asked[u] # p
      BY <2>2, <3>2
    <3>4. v \notin allocated
      BY <3>1, <3>2, HeapPagesLow DEF Nowhere
    <3>5. \A u \in allocated : asked'[u] = asked[u]
      BY <2>7, <3>2, <3>4
    <3>6. p \notin DOMAIN memory
      BY <2>2 DEF IInv, TablesOwned
    <3>7. ASSUME NEW u \in allocated'
          PROVE  /\ asked'[u] \in HeapPages
                 /\ Page(asked'[u]) \in live' /\ asked'[u] \notin DOMAIN memory'
                 /\ \A w \in allocated' : w # u => asked'[w] # asked'[u]
      <4>1. CASE u = v
        BY <2>1, <2>2, <2>6, <2>7, <3>3, <3>5, <3>6, <4>1
      <4>2. CASE u \in allocated
        BY <2>1, <2>2, <2>6, <2>7, <3>2, <3>3, <3>5, <4>2
      <4> QED
        BY <2>1, <4>1, <4>2
    <3> QED
      BY <3>7 DEF FramesOwned, Page, PAGE_SIZE
  <2> QED
    BY <2>6, <2>9, <2>10, <2>12, <2>13, <2>14, Zenon DEF IInv
<1> QED
  BY <1>3, <1>4

(* The page that pagefree takes from an entry is the one that pagealloc put
   there, whatever bit 31 of the entry is. *)
LEMMA FreedFrame ==
  ASSUME IInv, paging, NEW v \in allocated
  PROVE  /\ Tabled(v) /\ EntryOf(v) = Entry(v) /\ Entry(v) \in Entries
         /\ frame(EntryOf(v)) = asked[v] /\ asked[v] \in Nat /\ asked[v] # Nowhere
<1>1. v \in Virtual /\ asked[v] \in HeapPages
  BY DEF IInv, Shapes, FramesOwned
<1>2. asked[v] \in Nat /\ asked[v] < Frames /\ asked[v] # Nowhere
  BY <1>1, HeapPagesLow DEF Nowhere
<1>3. Tabled(v) /\ Entry(v).frame = asked[v] % Frames
  BY <1>1, <1>2 DEF IInv, EntriesAsAsked
<1>4. asked[v] % Frames = asked[v]
  BY <1>2, PagingAssumption
<1> QED
  BY <1>1, <1>2, <1>3, <1>4, TableFacts DEF frame

LEMMA PagefreeIInv ==
  ASSUME IInv, NEW v \in Virtual, pagefree(v) PROVE IInv'
<1> DEFINE e == delflag(EntryOf(v))
           a == Page(frame(EntryOf(v)))
<1>1. /\ paging /\ v \in allocated /\ Manager!kernelfree(a)
      /\ memory' = [memory EXCEPT ![TableOf(v)][TABLE_INDEX(v)] = e]
      /\ Changed(v, Nowhere) /\ allocated' = allocated \ {v}
      /\ UNCHANGED <<init, curdir, paging, tlb>>
  BY DEF pagefree, EntryOf, Page
<1>2. /\ Tabled(v) /\ EntryOf(v) = Entry(v) /\ Entry(v) \in Entries
      /\ frame(EntryOf(v)) = asked[v] /\ asked[v] \in Nat /\ asked[v] # Nowhere
  BY <1>1, FreedFrame
<1>3. a = Page(asked[v]) /\ a \in live
  BY <1>1, <1>2 DEF IInv, FramesOwned
<1>4. live' = live \ {Page(asked[v])} /\ H!IInv'
  <2>1. live' = live \ {a}
    BY <1>1, SameKernelfree DEF H!kernelfree
  <2>2. H!IInv'
    BY <1>1, <1>3, ManagerKept DEF IInv, Shapes
  <2> QED
    BY <1>3, <2>1, <2>2
<1>5. e \in Entries /\ ~e.present /\ e.bit31 = Entry(v).bit31
  BY <1>2, SetFlag
<1> HIDE DEF e, a
<1>6. /\ DOMAIN memory' = DOMAIN memory
      /\ memory' = [q \in DOMAIN memory' |-> memory'[q]]
      /\ \A q \in DOMAIN memory' :
           memory'[q] \in IF (HasDirectory /\ q = init.dir)' THEN Directories ELSE PageTables
      /\ \A q \in DOMAIN memory' : \A k \in DOMAIN memory'[q] :
           memory'[q][k] = e \/ (k \in DOMAIN memory[q] /\ memory'[q][k] = memory[q][k])
      /\ Progress' /\ TablesFilled' /\ DirectoryKept'
      /\ Tabled(v)' /\ Entry(v)' = e
      /\ \A u \in Virtual : Tabled(u)' <=> Tabled(u)
      /\ \A u \in Virtual : u # v /\ Tabled(u) => Entry(u)' = Entry(u)
  <2>1. UNCHANGED <<init, curdir, paging>>
    BY <1>1
  <2> QED
    BY <1>1, <1>2, <1>5, <2>1, EntryChanged, Zenon
<1>7. /\ asked' \in [Virtual -> Addresses \cup {Nowhere}]
      /\ asked'[v] = Nowhere /\ \A u \in Virtual : u # v => asked'[u] = asked[u]
      /\ unflushed' \subseteq Virtual
  BY <1>1, ChangeRecorded DEF IInv
<1>8. init' = init /\ paging' = paging /\ tlb' = tlb
  BY <1>1
<1>9. Shapes'
  BY <1>1, <1>4, <1>6, <1>7, <1>8 DEF IInv, Shapes
<1>10. \A u \in allocated :
         /\ u \in Virtual /\ asked[u] \in HeapPages /\ asked[u] \in Nat
         /\ Page(asked[u]) \in live /\ asked[u] \notin DOMAIN memory
         /\ \A w \in allocated : w # u => asked[w] # asked[u]
  BY HeapPagesLow DEF IInv, FramesOwned, Shapes
<1>11. TablesOwned'
  <2> SUFFICES ASSUME NEW q \in DOMAIN memory
               PROVE  q \in HeapPages /\ Page(q) \in live'
    BY <1>6 DEF TablesOwned, Page, PAGE_SIZE
  <2>1. q \in HeapPages /\ q \in Nat /\ Page(q) \in live /\ q # asked[v]
    BY <1>1, <1>10, HeapPagesLow DEF IInv, TablesOwned
  <2>2. Page(q) # Page(asked[v])
    BY <1>2, <2>1, PageInjective
  <2> QED
    BY <1>4, <2>1, <2>2
<1>12. \A u \in Virtual : Walk(u)' = WalkResult(u)'
  BY <1>1, <1>6, <1>8, <1>9, WalkFollowsTablesNext
<1>13. EntriesAsAsked' /\ StaleOnlyUnflushed'
  BY <1>1, <1>5, <1>6, <1>12, MappingChanged
<1>14. Bit31Clear'
  <2> SUFFICES ASSUME LowHalf PROVE Bit31Clear'
    BY DEF Bit31Clear
  <2>1. /\ \A q \in DOMAIN memory : \A k \in DOMAIN memory[q] : memory[q][k].bit31 = 0
        /\ \A u \in Virtual : asked[u] # Nowhere => asked[u] < Frames
    BY DEF IInv, Bit31Clear
  <2>2. Entry(v).bit31 = 0
    BY <1>1, <1>2, <2>1, TableFacts DEF Entry, PageTables
  <2>3. \A q \in DOMAIN memory' : \A k \in DOMAIN memory'[q] : memory'[q][k].bit31 = 0
    BY <1>5, <1>6, <2>1, <2>2
  <2>4. \A u \in Virtual : asked'[u] # Nowhere => asked'[u] < Frames
    BY <1>7, <2>1
  <2> QED
    BY <2>3, <2>4 DEF Bit31Clear
<1>15. FramesOwned'
  <2>1. \A u \in allocated' : u \in allocated /\ u # v /\ asked'[u] = asked[u]
    BY <1>1, <1>7, <1>10
  <2>2. ASSUME NEW u \in allocated' PROVE Page(asked[u]) \in live'
    <3>1. asked[u] # asked[v]
      BY <1>1, <1>10, <2>1
    <3>2. Page(asked[u]) # Page(asked[v])
      BY <1>2, <1>10, <2>1, <3>1, PageInjective
    <3> QED
      BY <1>4, <1>10, <2>1, <3>2
  <2> QED
    BY <1>6, <1>10, <2>1, <2>2 DEF FramesOwned, Page, PAGE_SIZE
<1> QED
  BY <1>6, <1>9, <1>11, <1>13, <1>14, <1>15, Zenon DEF IInv

(* The processor's own steps change the TLB, and what is known of it. *)
LEMMA TlbStep ==
  ASSUME IInv, paging, UNCHANGED <<heap, memory, init, curdir, paging, asked, allocated>>,
         unflushed' \subseteq Virtual, tlb' \in [Virtual -> Addresses \cup {Nowhere}],
         \A v \in Virtual \ unflushed' : tlb'[v] # Nowhere => tlb'[v] = Walk(v)
  PROVE  IInv'
<1>1. /\ memory' = memory /\ init' = init /\ curdir' = curdir /\ paging' = paging
      /\ asked' = asked /\ allocated' = allocated /\ live' = live
  BY DEF heap
<1>2. Shapes'
  <2>1. H!IInv'
    BY ManagerKept DEF IInv, Shapes
  <2> QED
    BY <1>1, <2>1 DEF IInv, Shapes, HasDirectory
<1>3. TablesOwned' /\ FramesOwned'
  BY <1>1 DEF IInv, TablesOwned, FramesOwned
<1>4. Progress'
  BY <1>1 DEF IInv, Progress, PassesDone
<1>5. TablesFilled'
  BY <1>1 DEF IInv, TablesFilled, Filled
<1>6. DirectoryKept'
  BY <1>1 DEF IInv, DirectoryKept, HasDirectory, Directory, Entered
<1>7. EntriesAsAsked'
  <2>1. \A v \in Virtual : (Tabled(v)' <=> Tabled(v)) /\ Entry(v)' = Entry(v)
    BY <1>1 DEF Entry, Table, Tabled, Directory
  <2> QED
    BY <1>1, <2>1 DEF IInv, EntriesAsAsked
<1>8. Bit31Clear'
  BY <1>1 DEF IInv, Bit31Clear
<1>9. StaleOnlyUnflushed'
  BY <1>1 DEF StaleOnlyUnflushed, Walk
<1> QED
  BY <1>2, <1>3, <1>4, <1>5, <1>6, <1>7, <1>8, <1>9, Zenon DEF IInv

LEMMA FlushIInv ==
  ASSUME IInv, NEW v \in Virtual, flush(v) PROVE IInv'
<1>1. /\ paging /\ tlb' = [tlb EXCEPT ![v] = Nowhere] /\ unflushed' = unflushed \ {v}
      /\ UNCHANGED <<heap, memory, init, curdir, paging, asked, allocated>>
  BY DEF flush
<1>2. tlb \in [Virtual -> Addresses \cup {Nowhere}] /\ unflushed \subseteq Virtual
  BY DEF IInv, Shapes
<1>3. tlb' \in [Virtual -> Addresses \cup {Nowhere}] /\ unflushed' \subseteq Virtual
  BY <1>1, <1>2
<1>4. \A u \in Virtual \ unflushed' : tlb'[u] # Nowhere => tlb'[u] = Walk(u)
  BY <1>1, <1>2 DEF IInv, StaleOnlyUnflushed
<1> QED
  BY <1>1, <1>3, <1>4, TlbStep

LEMMA WalkRange ==
  ASSUME IInv, paging, NEW v \in Virtual
  PROVE  Walk(v) \in Addresses \cup {Nowhere}
BY WalkFollowsTables, TableFacts, PhysAddr DEF WalkResult

LEMMA AccessIInv ==
  ASSUME IInv, NEW v \in Virtual, Access(v) PROVE IInv'
<1>1. /\ paging /\ tlb' = [tlb EXCEPT ![v] = Walk(v)]
      /\ UNCHANGED <<heap, memory, init, curdir, paging, ghosts>>
  BY DEF Access
<1>2. tlb \in [Virtual -> Addresses \cup {Nowhere}] /\ unflushed \subseteq Virtual
  BY DEF IInv, Shapes
<1>3. /\ tlb' \in [Virtual -> Addresses \cup {Nowhere}]
      /\ unflushed' = unflushed /\ UNCHANGED <<asked, allocated>>
  BY <1>1, <1>2, WalkRange DEF ghosts
<1>4. \A u \in Virtual \ unflushed' : tlb'[u] # Nowhere => tlb'[u] = Walk(u)
  BY <1>1, <1>2, <1>3 DEF IInv, StaleOnlyUnflushed
<1> QED
  BY <1>1, <1>2, <1>3, <1>4, TlbStep

LEMMA HeapStep ==
  ASSUME IInv, physicalmemoryinit \/ initNIC \/ UNCHANGED vars
  PROVE  IInv'
<1>1. CASE physicalmemoryinit
  <2>1. H!IInv'
    BY <1>1, ManagerKept DEF physicalmemoryinit, IInv, Shapes
  <2>2. live' = live
    BY <1>1, SamePhysicalmemoryinit DEF physicalmemoryinit, H!physicalmemoryinit
  <2> QED
    BY <1>1, <2>1, <2>2, OtherStep DEF physicalmemoryinit
<1>2. CASE initNIC
  <2>1. PICK b \in Requests : Manager!kernelmalloc(b)
    BY <1>2 DEF initNIC
  <2>2. H!IInv'
    BY <2>1, ManagerKept DEF IInv, Shapes
  <2>3. live \subseteq live'
    BY <2>1, SameKernelmalloc DEF H!kernelmalloc
  <2> QED
    BY <1>2, <2>2, <2>3, OtherStep DEF initNIC
<1>3. CASE UNCHANGED vars
  <2>1. H!IInv'
    <3>1. UNCHANGED heap
      BY <1>3 DEF vars
    <3> QED
      BY <3>1, ManagerKept DEF IInv, Shapes
  <2> QED
    <3>1. live' = live /\ UNCHANGED <<memory, init, curdir, paging, tlb, ghosts>>
      BY <1>3 DEF vars, heap, ghosts
    <3> QED
      BY <2>1, <3>1, OtherStep
<1> QED
  BY <1>1, <1>2, <1>3

LEMMA NextIInv == IInv /\ [Next]_vars => IInv'
<1> SUFFICES ASSUME IInv, [Next]_vars PROVE IInv'
  OBVIOUS
<1>1. CASE physicalmemoryinit \/ initNIC \/ UNCHANGED vars
  BY <1>1, HeapStep
<1>2. CASE virtualinit
  BY <1>2, AllocateTableIInv, FillEntryIInv, LeaveLoopIInv, AllocateDirectoryIInv,
     EnterTableIInv, SetpdirIInv, EnablepagingIInv DEF virtualinit
<1>3. ASSUME NEW v \in Virtual, NEW p \in Physical, mapPage(p, v) PROVE IInv'
  BY <1>3, MapPageIInv
<1>4. ASSUME NEW v \in Virtual, pagealloc(v) PROVE IInv'
  BY <1>4, PageallocIInv
<1>5. ASSUME NEW v \in Virtual, pagefree(v) PROVE IInv'
  BY <1>5, PagefreeIInv
<1>6. ASSUME NEW v \in Virtual, flush(v) PROVE IInv'
  BY <1>6, FlushIInv
<1>7. ASSUME NEW v \in Virtual, Access(v) PROVE IInv'
  BY <1>7, AccessIInv
<1> QED
  BY <1>1, <1>2, <1>3, <1>4, <1>5, <1>6, <1>7 DEF Next

LEMMA AlwaysIInv == Spec => []IInv
BY InitIInv, NextIInv, PTL DEF Spec

-----------------------------------------------------------------------------
(* Every variable has its type: the tables that virtualinit has allocated and
   the directory are pages with entries in them, and no entry or translation
   is past what 32 bits can say. *)
THEOREM TypeCorrect == Spec => []TypeOK
<1>1. IInv => TypeOK
  <2> SUFFICES ASSUME IInv PROVE TypeOK
    OBVIOUS
  <2>1. Manager!TypeOK
    BY SameTypeOK DEF IInv, Shapes, H!IInv
  <2>2. \A page \in DOMAIN memory : \A k \in DOMAIN memory[page] : memory[page][k] \in Entries
    BY DEF IInv, Shapes, PageTables, Directories
  <2>3. init.table \in Passes /\ init.i \in 0 .. Pages /\ init.tables \in Seq(HeapPages)
    BY DEF IInv, Shapes, Inits
  <2>4. init.tables \in Seq(DOMAIN memory)
    <3>1. \A k \in 1 .. Len(init.tables) : init.tables[k] \in DOMAIN memory
      BY <2>3 DEF IInv, Progress
    <3> QED
      BY <2>3, <3>1
  <2>5. curdir \in DOMAIN memory \cup {0} /\ paging \in BOOLEAN
    BY DEF IInv, Shapes, Progress, DirectoryKept, HasDirectory, Filling
  <2>6. Addresses \cup {Nowhere} \subseteq -1 .. 2 * Frames - 1
    BY PagingAssumption DEF Addresses, Nowhere
  <2>7. /\ tlb \in [Virtual -> -1 .. 2 * Frames - 1]
        /\ asked \in [Virtual -> -1 .. 2 * Frames - 1]
        /\ allocated \subseteq Virtual /\ unflushed \subseteq Virtual
    BY <2>6 DEF IInv, Shapes
  <2> QED
    BY <2>1, <2>2, <2>3, <2>4, <2>5, <2>7 DEF TypeOK, Passes
<1> QED
  BY <1>1, AlwaysIInv, PTL

(* From the moment paging is on, the identity mapping is there: no call of the
   interface, and no frame that is allocated and freed, ever changes it. *)
THEOREM IdentityMapped == Spec => []IdentityKept
<1>1. IInv => IdentityKept
  <2> SUFFICES ASSUME IInv, paging, NEW v \in identitypages PROVE Walk(v) = v
    BY DEF IdentityKept
  <2> DEFINE d == DIR_INDEX(v)
             x == TABLE_INDEX(v)
             t == init.tables[d + 1]
  <2>1. /\ d \in DirIndices /\ d \in Passes /\ d < IdentityTables /\ x \in TableIndices
        /\ v = d * Pages + x
    BY IdentityIndices, PagingAssumption DEF Passes
  <2>2. /\ HasDirectory /\ curdir = init.dir
        /\ Entered = IdentityTables /\ Filled = IdentityTables
    BY PagingFacts
  <2>3. Directory[d].present /\ Directory[d].frame = t /\ Directory[d].bit31 = 0
    BY <2>1, <2>2 DEF IInv, DirectoryKept
  <2>4. Directory[d] \in Entries
    BY <2>1, <2>2, DirectoryFacts
  <2>5. physaddr(Directory[d]) = t
    BY <2>3, <2>4, PhysAddr
  <2>6. memory[t] = IdentityTable(d)
    BY <2>1, <2>2 DEF IInv, TablesFilled
  <2> DEFINE e == IdentityTable(d)[x]
  <2>7. e \in Entries /\ e.present /\ e.bit31 = 0 /\ e.frame = v
    BY <2>1, IdentityEntry
  <2>8. memory[t][x] = e
    BY <2>6
  <2>9. physaddr(e) = v
    BY <2>7, PhysAddr
  <2>10. memory[curdir][d] = Directory[d]
    BY <2>2 DEF Directory
  <2> HIDE DEF d, x, t, e
  <2> QED
    BY <2>3, <2>5, <2>7, <2>8, <2>9, <2>10 DEF Walk, d, x
<1> QED
  BY <1>1, AlwaysIInv, PTL

(* A frame belongs to the page that pagealloc gave it to, and to no table. *)
THEOREM FramesOwnedOnce == Spec => []FramesApart
<1>1. IInv => FramesApart
  BY DEF IInv, FramesOwned, FramesApart, Page
<1> QED
  BY <1>1, AlwaysIInv, PTL

(* The processor uses an outdated translation only of a page that has been
   mapped elsewhere, or freed, without a flush since. *)
THEOREM FlushSuffices == Spec => []StaleOnlyUnflushed
<1>1. IInv => StaleOnlyUnflushed
  BY DEF IInv
<1> QED
  BY <1>1, AlwaysIInv, PTL

(* As long as callers map nothing to the upper half of memory, where PFRAME
   lacks a bit, a page is mapped to what was asked for, and to nothing else. *)
THEOREM TranslationsRight ==
  ASSUME Physical \subseteq 0 .. Frames - 1
  PROVE  Spec => []TranslationAsAsked
<1>1. IInv => TranslationAsAsked
  <2> SUFFICES ASSUME IInv, paging, NEW v \in Virtual PROVE Walk(v) = asked[v]
    BY DEF TranslationAsAsked
  <2>1. LowHalf
    BY DEF LowHalf
  <2>2. /\ ~Tabled(v) => asked[v] = Nowhere
        /\ Tabled(v) => (Entry(v).present <=> asked[v] # Nowhere)
        /\ asked[v] # Nowhere => Entry(v).frame = asked[v] % Frames
    BY DEF IInv, EntriesAsAsked
  <2>3. Walk(v) = WalkResult(v)
    BY WalkFollowsTables
  <2>4. CASE asked[v] = Nowhere
    BY <2>2, <2>3, <2>4 DEF WalkResult
  <2>5. CASE asked[v] # Nowhere
    <3>1. asked[v] \in Nat /\ asked[v] < Frames
      BY <2>1, <2>5 DEF IInv, Bit31Clear, Shapes, Addresses
    <3>2. asked[v] % Frames = asked[v]
      BY <3>1, PagingAssumption
    <3>3. Tabled(v) /\ Entry(v).present /\ Entry(v).frame = asked[v]
      BY <2>2, <2>5, <3>2
    <3>4. Entry(v) \in Entries /\ Entry(v).bit31 = 0
      BY <2>1, <3>3, TableFacts DEF IInv, Bit31Clear, Entry, PageTables
    <3> QED
      BY <2>3, <3>3, <3>4, PhysAddr DEF WalkResult
  <2> QED
    BY <2>4, <2>5
<1> QED
  BY <1>1, AlwaysIInv, PTL
=============================================================================
