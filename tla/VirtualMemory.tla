---------------------------- MODULE VirtualMemory ----------------------------
(***************************************************************************)
(* Paging, Kernel/memory/virtualmemory.c: virtualinit builds a directory   *)
(* and the tables of an identity mapping; mapPage, pagealloc, pagefree and *)
(* flush are what it offers to later code, which does not exist yet.  The  *)
(* memory manager below it is PhysicalMemory.                              *)
(*                                                                         *)
(* Addresses are page numbers.  Of an entry's flags only the present bit   *)
(* is kept: the kernel runs in ring 0 with write protection off, where no  *)
(* other one has an effect.                                                *)
(***************************************************************************)
EXTENDS HeapLayout, Sequences

CONSTANTS
  Pages,           \* PAGES: entries of a table (1024)
  Tables,          \* TABLES: entries of the directory (1024)
  IdentityTables,  \* tables that virtualinit fills (4)
  Frames,          \* pages that PFRAME and TFRAME tell apart (2^19)
  Virtual,         \* virtual pages that callers map
  Physical         \* physical pages that callers map them to

identitypages == 0 .. IdentityTables * Pages - 1

(* The heap starts at a page, and ends where the identity mapping does or
   before; callers keep off the identity mapping, in which the kernel runs. *)
ASSUME PagingAssumption ==
  /\ {Pages, Tables, IdentityTables, Frames} \subseteq Nat \ {0}
  /\ StartMem % BlockSize = 0 /\ BlockSize \in Requests
  /\ EndMem <= IdentityTables * Pages * BlockSize
  /\ IdentityTables <= Tables /\ IdentityTables * Pages <= Frames
  /\ Virtual \subseteq IdentityTables * Pages .. Tables * Pages - 1
  /\ Physical \subseteq 0 .. 2 * Frames - 1

VARIABLES
  bitmap, ready, live, halted,  \* as in PhysicalMemory
  memory,     \* the entries of each page that is a table or the directory
  init,       \* virtualinit: its next statement pc and the table this is
              \* for, its loop's i, its table pointers, and dir
  curdir,     \* the directory's page; CR3 holds the same
  paging,     \* the paging bit of CR0
  tlb,        \* what the processor has cached of the mapping of Virtual
  asked,      \* the mapping of Virtual that callers have asked for
  allocated,  \* those of Virtual that pagealloc gave a frame
  unflushed   \* those changed since flush was last called for them

heap == <<bitmap, ready, live, halted>>
vars == <<heap, memory, init, curdir, paging, tlb, asked, allocated, unflushed>>
ghosts == <<asked, allocated, unflushed>>

Manager == INSTANCE PhysicalMemory

PAGE_SIZE == BlockSize
PageOf(mem) == mem \div PAGE_SIZE
Nowhere == -1

DIR_INDEX(v) == (v \div Pages) % Tables
TABLE_INDEX(v) == v % Pages

(* Bit 31 of an entry is in neither PFRAME nor TFRAME: pt_setframe and
   pd_setframe clear the frame that they replace, but only add to bit 31. *)
Entries == [present : BOOLEAN, bit31 : {0, 1}, frame : 0 .. Frames - 1]
zero == [present |-> FALSE, bit31 |-> 0, frame |-> 0]
setflag(e) == [e EXCEPT !.present = TRUE]
delflag(e) == [e EXCEPT !.present = FALSE]

setframe(e, p) ==
  [e EXCEPT !.bit31 = IF p >= Frames THEN 1 ELSE @, !.frame = p % Frames]

(* PHYS_ADDR, and what the processor reads; pt_frame leaves bit 31 out. *)
physaddr(e) == e.bit31 * Frames + e.frame
frame(e) == e.frame

clear == [i \in 0 .. Tables - 1 |-> zero]
cleartable == [i \in 0 .. Pages - 1 |-> zero]

-----------------------------------------------------------------------------
(* What the processor finds for a virtual page when it walks the tables. *)
Walk(v) ==
  LET d == memory[curdir][DIR_INDEX(v)]
      e == memory[physaddr(d)][TABLE_INDEX(v)]
  IN  IF d.present /\ e.present THEN physaddr(e) ELSE Nowhere

Init ==
  /\ Manager!Init
  /\ memory = << >> /\ curdir = 0 /\ paging = FALSE
  /\ init = [pc |-> "tables", table |-> 0, i |-> 0, tables |-> << >>, dir |-> 0]
  /\ tlb = [v \in Virtual |-> Nowhere]
  /\ asked = [v \in Virtual |-> Nowhere] /\ allocated = {} /\ unflushed = {}

physicalmemoryinit ==
  /\ Manager!physicalmemoryinit
  /\ UNCHANGED <<memory, init, curdir, paging, tlb, ghosts>>

(* The page that a kernelmalloc(PAGE_SIZE) of this step returns. *)
NewPage == PageOf(address(findFirstFit(bitmap, calculateblocks(PAGE_SIZE))))

Holding(page, entries) ==
  [q \in DOMAIN memory \cup {page} |-> IF q = page THEN entries ELSE memory[q]]

-----------------------------------------------------------------------------
(* virtualinit. *)
At(place) == ~halted /\ ready /\ init.pc = place

(* The code has its statements once for each table of IdentityTables: from
   those for one to those for the next, or to what follows the last. *)
NextTable(next) ==
  IF init.table + 1 < IdentityTables THEN [init EXCEPT !.table = @ + 1]
  ELSE [init EXCEPT !.table = 0, !.pc = next]

(* A table is allocated and cleared for each 4 MB, ... *)
AllocateTable ==
  /\ At("tables")
  /\ Manager!kernelmalloc(PAGE_SIZE)
  /\ IF halted' THEN UNCHANGED <<memory, init>>
     ELSE /\ memory' = Holding(NewPage, cleartable)
          /\ init' = [NextTable("fill") EXCEPT !.tables = Append(@, NewPage)]
  /\ UNCHANGED <<curdir, paging, tlb, ghosts>>

(* Mutant: i <= 1024. *)
InLoopInclusive == init.i <= Pages

(* The condition of the loop that fills a table. *)
InLoop == init.i < Pages

(* Mutant: the loops for the second table and those after it start at page 0
   as well. *)
FillEntryFromZero ==
  /\ At("fill") /\ InLoop
  /\ memory' = [memory EXCEPT ![init.tables[init.table + 1]][TABLE_INDEX(init.i)] =
                  setframe(setflag(zero), init.i)]
  /\ init' = [init EXCEPT !.i = @ + 1]
  /\ UNCHANGED <<heap, curdir, paging, tlb, ghosts>>

(* ... then filled with the pages of these 4 MB, ... *)
FillEntry ==
  /\ At("fill") /\ InLoop
  /\ LET page == init.table * Pages + init.i
     IN  memory' = [memory EXCEPT ![init.tables[init.table + 1]][TABLE_INDEX(page)] =
                      setframe(setflag(zero), page)]
  /\ init' = [init EXCEPT !.i = @ + 1]
  /\ UNCHANGED <<heap, curdir, paging, tlb, ghosts>>

LeaveLoop ==
  /\ At("fill") /\ ~InLoop
  /\ init' = [NextTable("directory") EXCEPT !.i = 0]
  /\ UNCHANGED <<heap, memory, curdir, paging, tlb, ghosts>>

AllocateDirectory ==
  /\ At("directory")
  /\ Manager!kernelmalloc(PAGE_SIZE)
  /\ IF halted' THEN UNCHANGED <<memory, init>>
     ELSE /\ memory' = Holding(NewPage, clear)
          /\ init' = [init EXCEPT !.pc = "entries", !.dir = NewPage]
  /\ UNCHANGED <<curdir, paging, tlb, ghosts>>

(* ... and entered into the directory. *)
EnterTable ==
  /\ At("entries")
  /\ memory' = [memory EXCEPT ![init.dir][DIR_INDEX(init.table * Pages)] =
                  setframe(setflag(@), init.tables[init.table + 1])]
  /\ init' = NextTable("setpdir")
  /\ UNCHANGED <<heap, curdir, paging, tlb, ghosts>>

(* Loading CR3 empties the TLB. *)
setpdir ==
  /\ At("setpdir")
  /\ curdir' = init.dir
  /\ tlb' = [v \in Virtual |-> Nowhere]
  /\ init' = [init EXCEPT !.pc = "enablepaging"]
  /\ UNCHANGED <<heap, memory, paging, ghosts>>

enablepaging ==
  /\ At("enablepaging")
  /\ paging' = TRUE
  /\ init' = [init EXCEPT !.pc = "done"]
  /\ UNCHANGED <<heap, memory, curdir, tlb, ghosts>>

virtualinit ==
  \/ AllocateTable \/ FillEntry \/ LeaveLoop \/ AllocateDirectory \/ EnterTable
  \/ setpdir \/ enablepaging

-----------------------------------------------------------------------------
(* The interface.  A caller calls pagealloc with an entry that is not present,
   which ptablelookup has given it, and pagefree with one from pagealloc. *)

DirectoryEntry(v) == memory[curdir][DIR_INDEX(v)]
TableOf(v) == physaddr(DirectoryEntry(v))
EntryOf(v) == memory[TableOf(v)][TABLE_INDEX(v)]

(* What callers and TLB know of a page after a change of its mapping. *)
Changed(v, p) ==
  /\ asked' = [asked EXCEPT ![v] = p]
  /\ unflushed' = IF asked[v] = Nowhere \/ asked[v] = p THEN unflushed
                  ELSE unflushed \cup {v}

MapIntoTable(p, v) ==
  /\ DirectoryEntry(v).present
  /\ memory' = [memory EXCEPT ![TableOf(v)][TABLE_INDEX(v)] = setflag(setframe(@, p))]
  /\ UNCHANGED heap

(* Mutant: the table's page is not cleared, and holds what was there. *)
MapIntoNewTableUncleared(p, v) ==
  /\ ~DirectoryEntry(v).present
  /\ Manager!kernelmalloc(PAGE_SIZE)
  /\ memory' =
       IF halted' THEN memory
       ELSE [Holding(NewPage, [k \in 0 .. Pages - 1 |->
                                 setframe(setflag(zero),
                                          IF k = TABLE_INDEX(v) THEN p ELSE k)])
             EXCEPT ![curdir][DIR_INDEX(v)] = setframe(setflag(@), NewPage)]

MapIntoNewTable(p, v) ==
  /\ ~DirectoryEntry(v).present
  /\ Manager!kernelmalloc(PAGE_SIZE)
  /\ memory' =
       IF halted' THEN memory
       ELSE [Holding(NewPage, [cleartable EXCEPT ![TABLE_INDEX(v)] = setflag(setframe(@, p))])
             EXCEPT ![curdir][DIR_INDEX(v)] = setframe(setflag(@), NewPage)]

mapPage(p, v) ==
  /\ paging /\ ~halted /\ v \notin allocated
  /\ MapIntoTable(p, v) \/ MapIntoNewTable(p, v)
  /\ IF halted' THEN UNCHANGED ghosts ELSE Changed(v, p) /\ UNCHANGED allocated
  /\ UNCHANGED <<init, curdir, paging, tlb>>

pagealloc(v) ==
  /\ paging /\ DirectoryEntry(v).present /\ ~EntryOf(v).present
  /\ Manager!kernelmalloc(PAGE_SIZE)
  /\ IF halted' THEN UNCHANGED <<memory, ghosts>>
     ELSE /\ memory' = [memory EXCEPT ![TableOf(v)][TABLE_INDEX(v)] =
                          setflag(setframe(@, NewPage))]
          /\ Changed(v, NewPage)
          /\ allocated' = allocated \cup {v}
  /\ UNCHANGED <<init, curdir, paging, tlb>>

(* Mutant: the frame is freed with a byte count of one page and a byte. *)
pagefreeLonger(v) ==
  /\ paging /\ v \in allocated
  /\ ~halted
  /\ bitmap' = setbitmap(bitmap, findindex(frame(EntryOf(v)) * PAGE_SIZE),
                         calculateblocks(PAGE_SIZE + 1), 0)
  /\ live' = live \ {[mem |-> frame(EntryOf(v)) * PAGE_SIZE, bytes |-> PAGE_SIZE]}
  /\ memory' = [memory EXCEPT ![TableOf(v)][TABLE_INDEX(v)] = delflag(@)]
  /\ Changed(v, Nowhere) /\ allocated' = allocated \ {v}
  /\ UNCHANGED <<ready, halted, init, curdir, paging, tlb>>

pagefree(v) ==
  /\ paging /\ v \in allocated
  /\ Manager!kernelfree([mem |-> frame(EntryOf(v)) * PAGE_SIZE, bytes |-> PAGE_SIZE])
  /\ memory' = [memory EXCEPT ![TableOf(v)][TABLE_INDEX(v)] = delflag(@)]
  /\ Changed(v, Nowhere) /\ allocated' = allocated \ {v}
  /\ UNCHANGED <<init, curdir, paging, tlb>>

(* Mutant: the page below the one that was named is invalidated. *)
flushWrong(v) ==
  /\ paging /\ ~halted
  /\ tlb' = [u \in Virtual |-> IF u = v - 1 THEN Nowhere ELSE tlb[u]]
  /\ unflushed' = unflushed \ {v}
  /\ UNCHANGED <<heap, memory, init, curdir, paging, asked, allocated>>

(* The cli and sti around invlpg, which leave interrupts on for a caller that
   had them off, are left out: nothing here reads the interrupt flag. *)
flush(v) ==
  /\ paging /\ ~halted
  /\ tlb' = [tlb EXCEPT ![v] = Nowhere]
  /\ unflushed' = unflushed \ {v}
  /\ UNCHANGED <<heap, memory, init, curdir, paging, asked, allocated>>

(* The processor caches a translation that it has walked to, and never that a
   page is not present. *)
Access(v) ==
  /\ paging /\ ~halted
  /\ tlb[v] = Nowhere /\ Walk(v) # Nowhere
  /\ tlb' = [tlb EXCEPT ![v] = Walk(v)]
  /\ UNCHANGED <<heap, memory, init, curdir, paging, ghosts>>

-----------------------------------------------------------------------------
(* initNIC follows virtualinit and keeps what it allocates.  recvpacket returns
   its memory before kernel_main goes on, and so is no step of its own. *)
initNIC ==
  /\ init.pc = "done"
  /\ \E b \in Requests : Manager!kernelmalloc(b)
  /\ UNCHANGED <<memory, init, curdir, paging, tlb, ghosts>>

Next ==
  \/ physicalmemoryinit \/ virtualinit \/ initNIC
  \/ \E v \in Virtual : \/ \E p \in Physical : mapPage(p, v)
                        \/ pagealloc(v) \/ pagefree(v) \/ flush(v) \/ Access(v)

Spec == Init /\ [][Next]_vars

-----------------------------------------------------------------------------
TypeOK ==
  /\ Manager!TypeOK
  /\ \A page \in DOMAIN memory : \A i \in DOMAIN memory[page] : memory[page][i] \in Entries
  /\ init.table \in 0 .. IdentityTables - 1 /\ init.i \in 0 .. Pages
  /\ init.tables \in Seq(DOMAIN memory)
  /\ curdir \in DOMAIN memory \cup {0} /\ paging \in BOOLEAN
  /\ tlb \in [Virtual -> -1 .. 2 * Frames - 1] /\ asked \in [Virtual -> -1 .. 2 * Frames - 1]
  /\ allocated \subseteq Virtual /\ unflushed \subseteq Virtual

(* virtualmemory.c:148, "Identity maping first 16mb": from the moment paging
   is on, every page of it is mapped to itself, whatever is mapped elsewhere.
   The kernel's code, its stack, and the tables that mapPage reaches through
   their physical addresses are there. *)
IdentityKept == paging => \A v \in identitypages : Walk(v) = v

(* A page is mapped to what the last mapPage or pagealloc of it asked for, and
   to nothing if there was none, or pagefree since: a new table brings no other
   mapping with it. *)
TranslationAsAsked == paging => \A v \in Virtual : Walk(v) = asked[v]

(* A frame from pagealloc is its page's alone: it is allocated, mapped by no
   other page that pagealloc served, and no table is in it. *)
FramesApart ==
  \A v \in allocated :
    /\ [mem |-> asked[v] * PAGE_SIZE, bytes |-> PAGE_SIZE] \in live
    /\ asked[v] \notin DOMAIN memory
    /\ \A u \in allocated : u # v => asked[u] # asked[v]

(* The processor uses an outdated translation only of a page whose mapping has
   been replaced or taken away without a flush since; a page that is mapped
   for the first time needs none. *)
StaleOnlyUnflushed ==
  \A v \in Virtual \ unflushed : tlb[v] # Nowhere => tlb[v] = Walk(v)
=============================================================================
