---------------------------- MODULE KernelProofs ----------------------------
(***************************************************************************)
(* The safety properties of Kernel, for every heap, every number of page   *)
(* tables, every set of packet lengths, interrupt lines and exceptions,    *)
(* and any number of interrupts, key presses and packets.                  *)
(***************************************************************************)
EXTENDS Kernel, FiniteSetTheorems, TLAPS

(* PhysicalMemory and what is proved of it, as the kernel's memory manager. *)
H == INSTANCE PhysicalMemoryProofs WITH halted <- outofmemory

(* The statements of kernel_main that are over before sti, those that come
   before its first kernelmalloc, and those with a kernelmalloc of their own. *)
BeforeSti == {"initIDT", "ISR_init", "PICremap", "keyboardDriver", "enableinterrupts"}
BeforeHeap == BeforeSti \cup {"physicalmemoryinit"}
Allocating == {"virtualinit", "recvbuffer", "transmitbuffer"}
PciAccess == {"readpci", "readpci data", "writepci", "writepci data", "second readpci"}
AfterBuffers == {"INTMASK", "RCMD", "console"}
Places == BeforeHeap \cup Allocating \cup PciAccess \cup {"reset", "RST?", "RBUFFER"} \cup AfterBuffers

(* Where a handler is before the first EOI, and where only the card's is. *)
InNicHandler == {"acknowledge", "recvpacket", "free", "NICISR43handler"}
InHandler == InNicHandler \cup {"ISRHANDLER", "EOI"}

Steps == InHandler \cup {"none", "slave EOI", "iret"}
Allocations == [mem : {address(i) : i \in Blocks}, bytes : Requests]

(* The records and what their fields may be. *)
Gates == {{}, 0 .. 255}
Vectors == {NoVector} \cup 0 .. 255
Packets == Allocations \cup {NoPacket}
Statuses == SUBSET StatusBits
Masks == SUBSET {"ROK", "TOK"}
Mains == [pc : Places, searched : BOOLEAN, index : Blocks \cup {0, -1}, pages : Nat]
Cpus == [intflag : BOOLEAN, idt : BOOLEAN, gates : Gates, vector : Vectors,
         at : Steps, status : Statuses, packet : Packets]
Pics == [irr : SUBSET Irqs, master : SUBSET (0 .. 7), slave : SUBSET (8 .. 15),
         remapped : BOOLEAN, raises : 0 .. MaxRaises]
Kbds == [buffer : {"empty", "letter", "enter", "ack"}, typed : 0 .. CommandLength,
         keys : 0 .. MaxKeys, config : SUBSET ConfigBits]
Pcis == [latch : {"absent", "nic command"}, command : SUBSET CommandBits,
         t : SUBSET CommandBits]
Nics == [resetting : BOOLEAN, rbuf : Int, mask : Masks, receiving : BOOLEAN, isr : Statuses,
         events : 0 .. MaxPackets]

Shapes ==
  /\ main \in Mains /\ cpu \in Cpus /\ pic \in Pics
  /\ kbd \in Kbds /\ pci \in Pcis /\ nic \in Nics
  /\ halted \in BOOLEAN /\ recvbuffer \in Int

(* What kernel_main has set up by the time it is past a statement. *)
BootOrder ==
  /\ main.pc # "initIDT" => cpu.idt
  /\ main.pc \notin {"initIDT", "ISR_init"} => cpu.gates = 0 .. 255
  /\ main.pc \notin {"initIDT", "ISR_init", "PICremap"} => pic.remapped
  /\ cpu.intflag => main.pc \notin BeforeSti
  /\ cpu.vector # NoVector => cpu.idt /\ cpu.gates = 0 .. 255
  /\ cpu.vector >= 32 => main.pc \notin BeforeSti
  /\ ready <=> main.pc \notin BeforeHeap

(* One handler at a time, and what is in service is what it still has to
   finish: before its EOIs its own lines, then the slave's, then none. *)
InService ==
  \/ /\ cpu.vector = NoVector /\ cpu.at = "none"
     /\ pic.master = {} /\ pic.slave = {}
  \/ cpu.vector \in Exceptions /\ cpu.at = "ISRHANDLER" /\ ~cpu.intflag
  \/ \E irq \in Irqs :
       /\ cpu.vector = 32 + irq /\ ~cpu.intflag
       /\ \/ /\ cpu.at \in InHandler
             /\ pic.master = {MasterLine(irq)}
             /\ pic.slave = IF irq >= 8 THEN {irq} ELSE {}
          \/ /\ cpu.at = "slave EOI" /\ irq >= 8
             /\ pic.master = {} /\ pic.slave = {irq}
          \/ cpu.at = "iret" /\ pic.master = {} /\ pic.slave = {}

(* The card's handler has something to do only once kernel_main is in its loop. *)
NicQuiet ==
  /\ nic.receiving => main.pc = "console"
  /\ nic.isr # {} => nic.receiving
  /\ cpu.at \in InNicHandler => cpu.vector = 43 /\ main.pc = "console"
  /\ cpu.packet \in live \cup {NoPacket}
  /\ cpu.at = "free" => cpu.packet \in live

(* The byte count of kernel_main's kernelmalloc at a statement. *)
BytesAt(place) ==
  CASE place = "virtualinit" -> PageBytes
    [] place = "recvbuffer" -> ReceiveBytes
    [] place = "transmitbuffer" -> TransmitBytes
    [] OTHER -> 0

(* Between search and marking the place that was found stays the one to take. *)
CallPending ==
  main.searched => /\ main.pc \in Allocating
                   /\ main.index = findFirstFit(bitmap, calculateblocks(BytesAt(main.pc)))

(* The driver's buffer is allocated before the card is told of it, and no packet
   in flight is mistaken for it. *)
ReceiveBuffer ==
  LET buffer == [mem |-> recvbuffer, bytes |-> ReceiveBytes]
  IN  /\ main.pc \in {"RBUFFER", "transmitbuffer"} \cup AfterBuffers =>
           /\ buffer \in live
           /\ cpu.at = "free" => cpu.packet # buffer
      /\ main.pc \in {"transmitbuffer"} \cup AfterBuffers => nic.rbuf = recvbuffer

(* kernel_main's allocations so far, but for the page tables and the directory. *)
Buffers == CASE main.pc \in {"RBUFFER", "transmitbuffer"} -> 1
             [] main.pc \in AfterBuffers -> 2
             [] OTHER -> 0

(* All that is allocated is kernel_main's, and the packet in flight. *)
LiveCounted ==
  /\ main.pc \in BeforeHeap => main.pages = 0
  /\ main.pc = "virtualinit" => main.pages <= PageTables
  /\ main.pc \notin BeforeHeap \cup {"virtualinit"} => main.pages = PageTables + 1
  /\ IsFiniteSet(live)
  /\ cpu.vector \notin Exceptions =>
       Cardinality(live) = main.pages + Buffers + (IF cpu.at = "free" THEN 1 ELSE 0)

IInv ==
  /\ Shapes /\ BootOrder /\ InService /\ NicQuiet
  /\ H!IInv /\ CallPending /\ ReceiveBuffer /\ LiveCounted

-----------------------------------------------------------------------------
(* Both modules speak of the same heap. *)
LEMMA SameLayout ==
  /\ H!maxblocks = maxblocks /\ H!kernelblocks = kernelblocks
  /\ H!Blocks = Blocks /\ H!Bitmaps = Bitmaps /\ H!initialbitmap = initialbitmap
  /\ \A m : H!findindex(m) = findindex(m)
  /\ \A k : H!address(k) = address(k)
  /\ \A b : H!calculateblocks(b) = calculateblocks(b)
<1>1. H!maxblocks = maxblocks /\ H!kernelblocks = kernelblocks
  BY DEF H!maxblocks, maxblocks, H!kernelblocks, kernelblocks
<1>2. H!Blocks = Blocks
  BY <1>1 DEF H!Blocks, Blocks
<1>3. H!Bitmaps = Bitmaps /\ H!initialbitmap = initialbitmap
  BY <1>1, <1>2 DEF H!Bitmaps, Bitmaps, H!initialbitmap, initialbitmap
<1>4. /\ \A m : H!findindex(m) = findindex(m)
      /\ \A k : H!address(k) = address(k)
  BY DEF H!findindex, findindex, H!address, address, H!findoffset, findoffset
<1>5. \A b : H!calculateblocks(b) = calculateblocks(b)
  BY DEF H!calculateblocks, calculateblocks
<1> QED
  BY <1>1, <1>2, <1>3, <1>4, <1>5

LEMMA SameSetbitmap ==
  ASSUME NEW map, NEW k, NEW n, NEW v
  PROVE  H!setbitmap(map, k, n, v) = setbitmap(map, k, n, v)
BY SameLayout, Zenon DEF H!setbitmap, setbitmap

LEMMA SameFits ==
  ASSUME NEW map, NEW k, NEW n
  PROVE  H!Fits(map, k, n) = Fits(map, k, n)
BY Zenon DEF H!Fits, Fits, H!Blocks, Blocks, H!maxblocks, maxblocks

LEMMA SameFirstFit ==
  ASSUME NEW map, NEW n
  PROVE  H!findFirstFit(map, n) = findFirstFit(map, n)
BY Zenon DEF H!findFirstFit, findFirstFit, H!Fits, Fits, H!Blocks, Blocks,
             H!maxblocks, maxblocks

(* So what PhysicalMemoryProofs proves of the helpers is true of these. *)
LEMMA LayoutNat == maxblocks \in Nat /\ kernelblocks \in Nat /\ kernelblocks <= maxblocks
BY H!LayoutNat, MemoryAssumption, SameLayout

LEMMA BlocksCoverBytes ==
  ASSUME NEW b \in Nat
  PROVE  /\ calculateblocks(b) \in Nat \ {0}
         /\ b <= calculateblocks(b) * BlockSize
         /\ calculateblocks(b) = 1 \/ (calculateblocks(b) - 1) * BlockSize < b
BY H!BlocksCoverBytes, MemoryAssumption, SameLayout

LEMMA FirstFit ==
  ASSUME NEW map, NEW n
  PROVE  \/ /\ findFirstFit(map, n) = -1
            /\ \A k \in Blocks : ~Fits(map, k, n)
         \/ /\ findFirstFit(map, n) \in Blocks
            /\ Fits(map, findFirstFit(map, n), n)
            /\ \A k \in Blocks : Fits(map, k, n) => findFirstFit(map, n) <= k
BY H!FirstFit, MemoryAssumption, SameLayout, SameFirstFit, SameFits

(* The invariant of PhysicalMemory, established and kept. *)
LEMMA ManagerStarts == H!Init => H!IInv
BY H!InitIInv, MemoryAssumption, SameLayout

LEMMA ManagerKept == H!IInv /\ [H!Next]_(H!vars) => H!IInv'
BY H!NextIInv, MemoryAssumption, SameLayout

LEMMA ManagerStutter ==
  ASSUME H!IInv, UNCHANGED heap, outofmemory' = outofmemory
  PROVE  H!IInv' /\ [H!Next]_(H!vars)
<1>1. [H!Next]_(H!vars)
  BY DEF H!vars, heap
<1> QED
  BY <1>1, ManagerKept

(* Shapes and the place of the packet give TypeOK. *)
LEMMA ShapesType == IInv => TypeOK
<1> SUFFICES ASSUME IInv PROVE TypeOK
  OBVIOUS
<1>1. /\ bitmap \in Bitmaps /\ ready \in BOOLEAN
      /\ live \subseteq [mem : {address(i) : i \in Blocks}, bytes : Requests]
  BY SameLayout DEF IInv, H!IInv, H!TypeOK
<1>2. main.pages \in 0 .. PageTables + 1
  BY KernelAssumption DEF IInv, LiveCounted, Shapes, Mains
<1>3. /\ main.searched \in BOOLEAN /\ main.index \in Blocks \cup {0, -1}
      /\ halted \in BOOLEAN
  BY DEF IInv, Shapes, Mains
<1>4. /\ cpu.intflag \in BOOLEAN /\ cpu.idt \in BOOLEAN /\ cpu.gates \in {{}, 0 .. 255}
      /\ cpu.vector \in {NoVector} \cup 0 .. 255
      /\ cpu.status \subseteq StatusBits /\ cpu.packet \in live \cup {NoPacket}
  <2>1. /\ cpu.intflag \in BOOLEAN /\ cpu.idt \in BOOLEAN /\ cpu.gates \in Gates
        /\ cpu.vector \in Vectors /\ cpu.status \in Statuses
    BY DEF IInv, Shapes, Cpus
  <2> QED
    BY <2>1, Zenon DEF IInv, NicQuiet, Gates, Vectors, Statuses
<1>5. /\ pic.irr \subseteq Irqs /\ pic.master \subseteq 0 .. 7
      /\ pic.slave \subseteq 8 .. 15 /\ pic.remapped \in BOOLEAN /\ pic.raises \in 0 .. MaxRaises
  BY DEF IInv, Shapes, Pics
<1>6. /\ kbd.buffer \in {"empty", "letter", "enter", "ack"}
      /\ kbd.typed \in 0 .. CommandLength /\ kbd.keys \in 0 .. MaxKeys
      /\ kbd.config \subseteq ConfigBits
  BY DEF IInv, Shapes, Kbds
<1>7. /\ pci.latch \in {"absent", "nic command"}
      /\ pci.command \subseteq CommandBits /\ pci.t \subseteq CommandBits
  BY DEF IInv, Shapes, Pcis
<1>8. /\ nic.mask \subseteq {"ROK", "TOK"} /\ nic.isr \subseteq StatusBits
      /\ {nic.resetting, nic.receiving} \subseteq BOOLEAN /\ nic.events \in 0 .. MaxPackets
  <2>1. /\ nic.mask \in Masks /\ nic.isr \in Statuses
        /\ nic.resetting \in BOOLEAN /\ nic.receiving \in BOOLEAN
        /\ nic.events \in 0 .. MaxPackets
    BY DEF IInv, Shapes, Nics
  <2> QED
    BY <2>1, Zenon DEF Masks, Statuses
<1> QED
  BY <1>1, <1>2, <1>3, <1>4, <1>5, <1>6, <1>7, <1>8, Zenon DEF TypeOK

-----------------------------------------------------------------------------
LEMMA InitIInv == Init => IInv /\ H!Init
<1> SUFFICES ASSUME Init PROVE IInv /\ H!Init
  OBVIOUS
<1>1. /\ main.pc = "initIDT" /\ main.searched = FALSE /\ main.pages = 0
      /\ cpu.intflag = FALSE /\ cpu.vector = NoVector /\ cpu.at = "none"
      /\ cpu.packet = NoPacket /\ pic.master = {} /\ pic.slave = {}
      /\ nic.receiving = FALSE /\ nic.isr = {}
      /\ ready = FALSE /\ live = {} /\ halted = FALSE /\ recvbuffer = 0
      /\ bitmap \in InitialBitmaps
  BY DEF Init
<1>2. outofmemory = FALSE
  BY <1>1 DEF outofmemory
<1>3. H!Init
  BY <1>1, <1>2, KernelAssumption, SameLayout DEF H!Init
<1>4. H!IInv
  BY <1>3, ManagerStarts
<1>5. main \in Mains
  BY DEF Init, Mains, Places, BeforeHeap, BeforeSti
<1>6. cpu \in Cpus
  <2>1. /\ {} \in Gates /\ NoVector \in Vectors /\ "none" \in Steps
        /\ {} \in Statuses /\ NoPacket \in Packets
    BY Zenon DEF Gates, Vectors, Steps, Statuses, Packets
  <2>2. cpu = [intflag |-> FALSE, idt |-> FALSE, gates |-> {}, vector |-> NoVector,
               at |-> "none", status |-> {}, packet |-> NoPacket]
    BY DEF Init
  <2> QED
    BY <2>1, <2>2, Zenon DEF Cpus
<1>7. pic \in Pics
  BY KernelAssumption DEF Init, Pics
<1>8. kbd \in Kbds
  BY KernelAssumption DEF Init, Kbds, ConfigBits
<1>9. pci \in Pcis
  BY DEF Init, Pcis, CommandBits
<1>10. nic \in Nics
  <2>1. {} \in Masks /\ {} \in Statuses /\ 0 \in Int /\ 0 \in 0 .. MaxPackets
    BY KernelAssumption DEF Masks, Statuses
  <2>2. nic = [resetting |-> FALSE, rbuf |-> 0, mask |-> {}, receiving |-> FALSE,
             isr |-> {}, events |-> 0]
    BY DEF Init
  <2> QED
    BY <2>1, <2>2, Zenon DEF Nics
<1>11. Shapes
  <2>1. halted \in BOOLEAN
    BY <1>1
  <2>2. recvbuffer \in Int
    BY <1>1
  <2> QED
    BY <2>1, <2>2, <1>5, <1>6, <1>7, <1>8, <1>9, <1>10 DEF Shapes
<1>12. BootOrder
  BY <1>1 DEF BootOrder, BeforeHeap, BeforeSti, NoVector
<1>13. InService /\ NicQuiet
  BY <1>1 DEF InService, NicQuiet, InNicHandler
<1>14. CallPending /\ ReceiveBuffer
  BY <1>1 DEF CallPending, ReceiveBuffer, AfterBuffers
<1>15. LiveCounted
  BY <1>1, FS_EmptySet DEF LiveCounted, Buffers, BeforeHeap, BeforeSti, AfterBuffers
<1> QED
  BY <1>3, <1>4, <1>11, <1>12, <1>13, <1>14, <1>15, Zenon DEF IInv

(* The lines of the controllers, and their vectors once they are moved. *)
LEMMA IrqRange ==
  ASSUME NEW irq \in Irqs
  PROVE  irq \in Nat /\ irq <= 15 /\ 32 + irq # NoVector /\ 32 + irq \notin Exceptions
<1>1. irq \in {0, 1, 11} \/ irq \in 3 .. 15
  BY KernelAssumption DEF Irqs, NicIrq
<1>2. irq \in Nat /\ irq <= 15
  BY <1>1
<1>3. \A v \in Exceptions : v \in Nat /\ v < 32
  BY KernelAssumption
<1> QED
  BY <1>2, <1>3 DEF NoVector

(* Without a vector no handler is on its way. *)
LEMMA Idle ==
  ASSUME InService, cpu.vector = NoVector
  PROVE  /\ cpu.at = "none" /\ pic.master = {} /\ pic.slave = {}
         /\ cpu.vector \notin Exceptions
<1>1. \A v \in Exceptions : v \in Nat /\ v # NoVector
  BY KernelAssumption DEF NoVector
<1>2. \A irq \in Irqs : cpu.vector # 32 + irq
  BY IrqRange
<1> QED
  BY <1>1, <1>2 DEF InService

(* A statement of kernel_main that allocates nothing. *)
LEMMA MainFrame ==
  ASSUME IInv, NEW from, NEW to, At(from), Goto(to),
         \/ from \in BeforeSti /\ to \in BeforeHeap
         \/ /\ from \in PciAccess \cup {"reset", "RST?"}
            /\ to \in PciAccess \cup {"reset", "RST?", "recvbuffer"}
         \/ from = "RBUFFER" /\ to = "transmitbuffer"
         \/ from \in AfterBuffers /\ to \in AfterBuffers,
         UNCHANGED <<heap, halted, recvbuffer>>,
         cpu'.vector = cpu.vector, cpu'.at = cpu.at, cpu'.packet = cpu.packet,
         pic'.master = {} \/ pic'.master = pic.master,
         pic'.slave = {} \/ pic'.slave = pic.slave,
         from = "RBUFFER" => nic'.rbuf = recvbuffer,
         from \in AfterBuffers => nic'.rbuf = nic.rbuf
  PROVE  /\ main' \in Mains /\ main.pc = from /\ main'.pc = to
         /\ cpu.vector = NoVector /\ cpu.at = "none"
         /\ [H!Next]_(H!vars)
         /\ H!IInv' /\ InService' /\ CallPending' /\ ReceiveBuffer' /\ LiveCounted'
         /\ from \notin BeforeSti /\ UNCHANGED <<cpu, pic, kbd>>
              => BootOrder'
<1>1. /\ Shapes /\ H!IInv /\ InService /\ CallPending /\ ReceiveBuffer /\ LiveCounted
  BY DEF IInv
<1>2. main.pc = from /\ cpu.vector = NoVector /\ ~halted
  BY DEF At
<1>3. to \in Places
  BY Zenon DEF Places, Allocating
<1>4. /\ main'.pc = to /\ main'.searched = main.searched
      /\ main'.index = main.index /\ main'.pages = main.pages
      /\ main' \in Mains
  BY <1>1, <1>3 DEF Shapes, Mains, Goto
<1>5. cpu.at = "none" /\ pic.master = {} /\ pic.slave = {}
  BY <1>1, <1>2, Idle DEF Shapes
<1>6. InService'
  BY <1>2, <1>5 DEF InService
<1>7. H!IInv' /\ [H!Next]_(H!vars)
  <2>1. outofmemory' = outofmemory
    BY DEF outofmemory
  <2> QED
    BY <1>1, <2>1, ManagerStutter
<1>8. from \notin Allocating
  BY DEF Allocating, BeforeSti, PciAccess, AfterBuffers
<1>9. CallPending'
  BY <1>1, <1>2, <1>4, <1>8 DEF CallPending
<1>10. ReceiveBuffer'
  BY <1>1, <1>2, <1>4, <1>5
     DEF ReceiveBuffer, BeforeHeap, BeforeSti, PciAccess, AfterBuffers, heap
<1>11. LiveCounted'
  BY <1>1, <1>2, <1>4, <1>5
     DEF LiveCounted, Buffers, BeforeHeap, BeforeSti, PciAccess, AfterBuffers, heap
<1>12. ASSUME from \notin BeforeSti, UNCHANGED <<cpu, pic, kbd>>
       PROVE  BootOrder'
  <2>1. BootOrder
    BY DEF IInv
  <2>2. from \notin BeforeHeap /\ to \notin BeforeHeap
    BY <1>12, Zenon DEF BeforeHeap, BeforeSti, PciAccess, AfterBuffers
  <2>3. BootOrder'
    BY <1>2, <1>4, <1>12, <2>1, <2>2 DEF BootOrder, BeforeHeap, BeforeSti, heap
  <2> QED
    BY <2>3
<1> QED
  BY <1>2, <1>4, <1>5, <1>6, <1>7, <1>9, <1>10, <1>11, <1>12

(* A step of a handler or of a device that allocates and frees nothing. *)
LEMMA HandlerFrame ==
  ASSUME IInv, UNCHANGED <<heap, main, recvbuffer>>, outofmemory' = outofmemory,
         nic'.rbuf = nic.rbuf, cpu'.packet = cpu.packet,
         \/ cpu'.at = cpu.at /\ cpu'.vector = cpu.vector
         \/ cpu.at # "free" /\ cpu'.at # "free" /\ cpu.vector \notin Exceptions
         \/ cpu'.at # "free" /\ cpu'.vector \in Exceptions
  PROVE  /\ [H!Next]_(H!vars)
         /\ H!IInv' /\ CallPending' /\ ReceiveBuffer' /\ LiveCounted'
<1>1. H!IInv /\ CallPending /\ ReceiveBuffer /\ LiveCounted
  BY DEF IInv
<1>2. H!IInv' /\ [H!Next]_(H!vars)
  BY <1>1, ManagerStutter
<1>3. CallPending'
  BY <1>1 DEF CallPending, heap
<1>4. ReceiveBuffer'
  BY <1>1 DEF ReceiveBuffer, heap
<1>5. LiveCounted'
  BY <1>1 DEF LiveCounted, Buffers, heap
<1> QED
  BY <1>2, <1>3, <1>4, <1>5

-----------------------------------------------------------------------------
(* kernel_main up to sti. *)
LEMMA InitIDTStep == ASSUME IInv, initIDT PROVE IInv' /\ [H!Next]_(H!vars)
<1>1. Shapes /\ BootOrder /\ NicQuiet
  BY DEF IInv
<1>2. /\ cpu'.idt = TRUE /\ cpu'.intflag = cpu.intflag /\ cpu'.gates = cpu.gates
      /\ cpu'.vector = cpu.vector /\ cpu'.at = cpu.at /\ cpu'.packet = cpu.packet
      /\ cpu' \in Cpus
  <2>1. cpu \in Cpus /\ cpu' = [cpu EXCEPT !.idt = TRUE]
    BY <1>1 DEF initIDT, Shapes
  <2> QED
    BY <2>1, Zenon DEF Cpus
<1>3. /\ At("initIDT") /\ Goto("ISR_init")
      /\ UNCHANGED <<heap, halted, pic, kbd, pci, nic, recvbuffer>>
  BY DEF initIDT
<1>4. /\ main' \in Mains /\ main.pc = "initIDT" /\ main'.pc = "ISR_init"
      /\ cpu.vector = NoVector /\ cpu.at = "none" /\ [H!Next]_(H!vars)
      /\ H!IInv' /\ InService' /\ CallPending' /\ ReceiveBuffer' /\ LiveCounted'
  BY <1>2, <1>3, MainFrame DEF BeforeHeap, BeforeSti, AfterBuffers
<1>5. Shapes'
  BY <1>1, <1>2, <1>3, <1>4 DEF Shapes
<1>6. BootOrder'
  BY <1>1, <1>2, <1>3, <1>4
     DEF BootOrder, BeforeHeap, BeforeSti, heap, NoVector
<1>7. NicQuiet'
  BY <1>1, <1>2, <1>3, <1>4 DEF NicQuiet, InNicHandler, heap
<1> QED
  BY <1>4, <1>5, <1>6, <1>7, Zenon DEF IInv

LEMMA ISR_initStep == ASSUME IInv, ISR_init PROVE IInv' /\ [H!Next]_(H!vars)
<1>1. Shapes /\ BootOrder /\ NicQuiet
  BY DEF IInv
<1>2. /\ cpu'.idt = cpu.idt /\ cpu'.intflag = cpu.intflag /\ cpu'.gates = 0 .. 255
      /\ cpu'.vector = cpu.vector /\ cpu'.at = cpu.at /\ cpu'.packet = cpu.packet
      /\ cpu' \in Cpus
  <2> DEFINE all == 0 .. 255
  <2>1. all \in Gates
    BY Zenon DEF Gates
  <2>2. cpu \in Cpus /\ cpu' = [cpu EXCEPT !.gates = all]
    BY <1>1 DEF ISR_init, Shapes
  <2>3. all = 0 .. 255
    OBVIOUS
  <2> HIDE DEF all
  <2>4. /\ cpu'.idt = cpu.idt /\ cpu'.intflag = cpu.intflag /\ cpu'.gates = all
        /\ cpu'.vector = cpu.vector /\ cpu'.at = cpu.at /\ cpu'.packet = cpu.packet
        /\ cpu' \in Cpus
    BY <2>1, <2>2, Zenon DEF Cpus
  <2> QED
    BY <2>3, <2>4
<1>3. /\ At("ISR_init") /\ Goto("PICremap")
      /\ UNCHANGED <<heap, halted, pic, kbd, pci, nic, recvbuffer>>
  BY DEF ISR_init
<1>4. /\ main' \in Mains /\ main.pc = "ISR_init" /\ main'.pc = "PICremap"
      /\ cpu.vector = NoVector /\ cpu.at = "none" /\ [H!Next]_(H!vars)
      /\ H!IInv' /\ InService' /\ CallPending' /\ ReceiveBuffer' /\ LiveCounted'
  BY <1>2, <1>3, MainFrame DEF BeforeHeap, BeforeSti, AfterBuffers
<1>5. Shapes'
  BY <1>1, <1>2, <1>3, <1>4 DEF Shapes
<1>6. BootOrder'
  BY <1>1, <1>2, <1>3, <1>4
     DEF BootOrder, BeforeHeap, BeforeSti, heap, NoVector
<1>7. NicQuiet'
  BY <1>1, <1>2, <1>3, <1>4 DEF NicQuiet, InNicHandler, heap
<1> QED
  BY <1>4, <1>5, <1>6, <1>7, Zenon DEF IInv

LEMMA PICremapStep == ASSUME IInv, PICremap PROVE IInv' /\ [H!Next]_(H!vars)
<1>1. Shapes /\ BootOrder /\ NicQuiet
  BY DEF IInv
<1>2. pic'.master = {} /\ pic'.slave = {} /\ pic'.remapped = TRUE /\ pic' \in Pics
  BY <1>1 DEF PICremap, Shapes, Pics
<1>3. /\ At("PICremap") /\ Goto("keyboardDriver")
      /\ UNCHANGED <<heap, halted, cpu, kbd, pci, nic, recvbuffer>>
  BY DEF PICremap
<1>4. /\ main' \in Mains /\ main.pc = "PICremap" /\ main'.pc = "keyboardDriver"
      /\ cpu.vector = NoVector /\ cpu.at = "none" /\ [H!Next]_(H!vars)
      /\ H!IInv' /\ InService' /\ CallPending' /\ ReceiveBuffer' /\ LiveCounted'
  BY <1>2, <1>3, MainFrame DEF BeforeHeap, BeforeSti, AfterBuffers
<1>5. Shapes'
  BY <1>1, <1>2, <1>3, <1>4 DEF Shapes
<1>6. BootOrder'
  BY <1>1, <1>2, <1>3, <1>4
     DEF BootOrder, BeforeHeap, BeforeSti, heap, NoVector
<1>7. NicQuiet'
  BY <1>1, <1>3, <1>4 DEF NicQuiet, InNicHandler, heap
<1> QED
  BY <1>4, <1>5, <1>6, <1>7, Zenon DEF IInv

(* Whatever byte is read, what is written back enables the keyboard. *)
LEMMA KeyboardDriverStep == ASSUME IInv, keyboardDriver PROVE IInv' /\ [H!Next]_(H!vars)
<1>1. Shapes /\ BootOrder /\ NicQuiet
  BY DEF IInv
<1>2. kbd' \in Kbds
  <2>1. NewConfig(ConfigRead) \in SUBSET ConfigBits
    BY <1>1 DEF NewConfig, ConfigRead, Shapes, Kbds, ConfigBits
  <2> QED
    BY <1>1, <2>1 DEF keyboardDriver, Shapes, Kbds
<1>3. /\ pic'.master = pic.master /\ pic'.slave = pic.slave
      /\ pic'.remapped = pic.remapped /\ pic' \in Pics
  <2>1. 1 \in Irqs
    BY DEF Irqs
  <2> QED
    BY <1>1, <2>1 DEF keyboardDriver, Shapes, Pics
<1>4. /\ At("keyboardDriver") /\ Goto("enableinterrupts")
      /\ UNCHANGED <<heap, halted, cpu, pci, nic, recvbuffer>>
  BY DEF keyboardDriver
<1>5. /\ main' \in Mains /\ main.pc = "keyboardDriver" /\ main'.pc = "enableinterrupts"
      /\ cpu.vector = NoVector /\ cpu.at = "none" /\ [H!Next]_(H!vars)
      /\ H!IInv' /\ InService' /\ CallPending' /\ ReceiveBuffer' /\ LiveCounted'
  BY <1>3, <1>4, MainFrame DEF BeforeHeap, BeforeSti, AfterBuffers
<1>6. Shapes'
  BY <1>1, <1>2, <1>3, <1>4, <1>5 DEF Shapes
<1>7. BootOrder'
  BY <1>1, <1>3, <1>4, <1>5 DEF BootOrder, BeforeHeap, BeforeSti, heap, NoVector
<1>8. NicQuiet'
  BY <1>1, <1>4, <1>5 DEF NicQuiet, InNicHandler, heap
<1> QED
  BY <1>5, <1>6, <1>7, <1>8, Zenon DEF IInv

LEMMA EnableinterruptsStep ==
  ASSUME IInv, enableinterrupts PROVE IInv' /\ [H!Next]_(H!vars)
<1>1. Shapes /\ BootOrder /\ NicQuiet
  BY DEF IInv
<1>2. /\ cpu'.idt = cpu.idt /\ cpu'.intflag = TRUE /\ cpu'.gates = cpu.gates
      /\ cpu'.vector = cpu.vector /\ cpu'.at = cpu.at /\ cpu'.packet = cpu.packet
      /\ cpu' \in Cpus
  <2>1. cpu \in Cpus /\ cpu' = [cpu EXCEPT !.intflag = TRUE]
    BY <1>1 DEF enableinterrupts, Shapes
  <2> QED
    BY <2>1, Zenon DEF Cpus
<1>3. /\ At("enableinterrupts") /\ Goto("physicalmemoryinit")
      /\ UNCHANGED <<heap, halted, pic, kbd, pci, nic, recvbuffer>>
  BY DEF enableinterrupts
<1>4. /\ main' \in Mains /\ main.pc = "enableinterrupts" /\ main'.pc = "physicalmemoryinit"
      /\ cpu.vector = NoVector /\ cpu.at = "none" /\ [H!Next]_(H!vars)
      /\ H!IInv' /\ InService' /\ CallPending' /\ ReceiveBuffer' /\ LiveCounted'
  BY <1>2, <1>3, MainFrame DEF BeforeHeap, BeforeSti, AfterBuffers
<1>5. Shapes'
  BY <1>1, <1>2, <1>3, <1>4 DEF Shapes
<1>6. BootOrder'
  BY <1>1, <1>2, <1>3, <1>4
     DEF BootOrder, BeforeHeap, BeforeSti, heap, NoVector
<1>7. NicQuiet'
  BY <1>1, <1>2, <1>3, <1>4 DEF NicQuiet, InNicHandler, heap
<1> QED
  BY <1>4, <1>5, <1>6, <1>7, Zenon DEF IInv

(* A statement of initNIC that allocates nothing. *)
LEMMA InitNICFrame ==
  ASSUME IInv, NEW from, NEW to, At(from), Goto(to),
         \/ /\ from \in PciAccess \cup {"reset", "RST?"}
            /\ to \in PciAccess \cup {"reset", "RST?", "recvbuffer"}
         \/ from = "RBUFFER" /\ to = "transmitbuffer"
         \/ from \in {"INTMASK", "RCMD"} /\ to \in {"RCMD", "console"},
         UNCHANGED <<heap, halted, cpu, pic, kbd, recvbuffer>>,
         pci' \in Pcis, nic' \in Nics,
         nic'.receiving => to = "console", nic'.isr \in {{}, nic.isr},
         from = "RBUFFER" => nic'.rbuf = recvbuffer,
         from \in {"INTMASK", "RCMD"} => nic'.rbuf = nic.rbuf
  PROVE  IInv' /\ [H!Next]_(H!vars)
<1>1. Shapes /\ NicQuiet
  BY DEF IInv
<1>2. main.pc = from
  BY DEF At
<1>3. \/ from \in BeforeSti /\ to \in BeforeHeap
      \/ /\ from \in PciAccess \cup {"reset", "RST?"}
            /\ to \in PciAccess \cup {"reset", "RST?", "recvbuffer"}
      \/ from = "RBUFFER" /\ to = "transmitbuffer"
      \/ from \in AfterBuffers /\ to \in AfterBuffers
  BY Zenon DEF AfterBuffers
<1>4. from \in AfterBuffers => from \in {"INTMASK", "RCMD"}
  BY Zenon DEF AfterBuffers, PciAccess
<1>5. from \notin BeforeSti /\ from # "console"
  BY Zenon DEF BeforeSti, PciAccess
<1>6. /\ main' \in Mains /\ main'.pc = to /\ cpu.vector = NoVector /\ cpu.at = "none"
      /\ H!IInv' /\ InService' /\ CallPending' /\ ReceiveBuffer' /\ LiveCounted'
      /\ [H!Next]_(H!vars) /\ BootOrder'
  BY <1>3, <1>4, <1>5, MainFrame
<1>7. Shapes'
  BY <1>1, <1>6 DEF Shapes
<1>8. NicQuiet'
  <2>1. nic.isr = {}
    BY <1>1, <1>2, <1>5 DEF NicQuiet
  <2> QED
    BY <1>1, <1>6, <2>1 DEF NicQuiet, InNicHandler, heap
<1> QED
  BY <1>6, <1>7, <1>8, Zenon DEF IInv

(* Up to the last statement the card is not receiving. *)
LEMMA NotReceiving ==
  ASSUME IInv, main.pc # "console"
  PROVE  nic \in Nics /\ pci \in Pcis /\ ~nic.receiving /\ nic.isr = {}
BY DEF IInv, Shapes, NicQuiet

LEMMA PciAddressStep ==
  ASSUME IInv, NEW place, NEW to, PciAddress(place, to),
         place \in PciAccess, to \in PciAccess \cup {"reset"}
  PROVE  IInv' /\ [H!Next]_(H!vars)
<1>1. /\ At(place) /\ Goto(to) /\ UNCHANGED nic
      /\ UNCHANGED <<heap, halted, cpu, pic, kbd, recvbuffer>>
  BY DEF PciAddress
<1>2. main.pc # "console" /\ place \notin {"RBUFFER", "INTMASK", "RCMD"}
  BY <1>1, Zenon DEF At, PciAccess
<1>3. pci' \in Pcis
  BY <1>2, NotReceiving DEF PciAddress, Pcis
<1> QED
  BY <1>1, <1>2, <1>3, NotReceiving, InitNICFrame

LEMMA ReadpciStep == ASSUME IInv, readpci PROVE IInv' /\ [H!Next]_(H!vars)
<1>1. CASE PciAddress("readpci", "readpci data")
  BY <1>1, PciAddressStep DEF PciAccess
<1>2. CASE /\ At("readpci data") /\ Goto("writepci")
           /\ pci' = [pci EXCEPT !.t = DataPort \cup {"master"}]
           /\ UNCHANGED <<heap, halted, cpu, pic, kbd, nic, recvbuffer>>
  <2>1. main.pc # "console"
    BY <1>2 DEF At
  <2>2. DataPort \cup {"master"} \in SUBSET CommandBits
    BY <2>1, NotReceiving DEF DataPort, Pcis, CommandBits
  <2>3. pci' \in Pcis
    BY <1>2, <2>1, <2>2, NotReceiving DEF Pcis
  <2> QED
    BY <1>2, <2>1, <2>3, NotReceiving, InitNICFrame DEF PciAccess
<1> QED
  BY <1>1, <1>2 DEF readpci

LEMMA WritepciStep == ASSUME IInv, writepci PROVE IInv' /\ [H!Next]_(H!vars)
<1>1. CASE PciAddress("writepci", "writepci data")
  BY <1>1, PciAddressStep DEF PciAccess
<1>2. CASE /\ At("writepci data") /\ Goto("second readpci")
           /\ pci' = [pci EXCEPT !.command = IF pci.latch = "nic command" THEN pci.t ELSE @]
           /\ UNCHANGED <<heap, halted, cpu, pic, kbd, nic, recvbuffer>>
  <2>1. main.pc # "console"
    BY <1>2 DEF At
  <2>2. pci' \in Pcis
    BY <1>2, <2>1, NotReceiving DEF Pcis
  <2> QED
    BY <1>2, <2>1, <2>2, NotReceiving, InitNICFrame DEF PciAccess
<1> QED
  BY <1>1, <1>2 DEF writepci

LEMMA SecondreadpciStep == ASSUME IInv, secondreadpci PROVE IInv' /\ [H!Next]_(H!vars)
BY PciAddressStep DEF secondreadpci, PciAccess

LEMMA ResetStep == ASSUME IInv, reset PROVE IInv' /\ [H!Next]_(H!vars)
<1>1. /\ At("reset") /\ Goto("RST?") /\ UNCHANGED pci
      /\ UNCHANGED <<heap, halted, cpu, pic, kbd, recvbuffer>>
  BY DEF reset
<1>2. main.pc # "console"
  BY <1>1 DEF At
<1>3. nic' = [nic EXCEPT !.resetting = TRUE, !.mask = {}, !.receiving = FALSE,
                        !.isr = {}, !.rbuf = 0]
  BY DEF reset
<1>4. nic' \in Nics /\ ~nic'.receiving /\ nic'.isr = {}
  <2>1. {} \in Masks /\ {} \in Statuses /\ 0 \in Int /\ nic \in Nics
    BY <1>2, NotReceiving DEF Masks, Statuses
  <2> QED
    BY <1>3, <2>1, Zenon DEF Nics
<1> QED
  BY <1>1, <1>2, <1>4, NotReceiving, InitNICFrame

LEMMA PollresetStep == ASSUME IInv, pollreset PROVE IInv' /\ [H!Next]_(H!vars)
<1>1. /\ At("RST?") /\ Goto("recvbuffer") /\ UNCHANGED <<pci, nic>>
      /\ UNCHANGED <<heap, halted, cpu, pic, kbd, recvbuffer>>
  BY DEF pollreset
<1>2. main.pc # "console"
  BY <1>1 DEF At
<1> QED
  BY <1>1, <1>2, NotReceiving, InitNICFrame

LEMMA WriteRBUFFERStep == ASSUME IInv, writeRBUFFER PROVE IInv' /\ [H!Next]_(H!vars)
<1>1. /\ At("RBUFFER") /\ Goto("transmitbuffer") /\ UNCHANGED pci
      /\ UNCHANGED <<heap, halted, cpu, pic, kbd, recvbuffer>>
  BY DEF writeRBUFFER
<1>2. main.pc # "console"
  BY <1>1 DEF At
<1>3. /\ nic' \in Nics /\ nic'.receiving = nic.receiving /\ nic'.isr = nic.isr
      /\ nic'.rbuf = recvbuffer
  <2>1. nic \in Nics /\ recvbuffer \in Int /\ nic' = [nic EXCEPT !.rbuf = recvbuffer]
    BY <1>2, NotReceiving DEF writeRBUFFER, IInv, Shapes
  <2> QED
    BY <2>1, Zenon DEF Nics
<1> QED
  BY <1>1, <1>2, <1>3, NotReceiving, InitNICFrame

LEMMA WriteINTMASKStep == ASSUME IInv, writeINTMASK PROVE IInv' /\ [H!Next]_(H!vars)
<1>1. /\ At("INTMASK") /\ Goto("RCMD") /\ UNCHANGED pci
      /\ UNCHANGED <<heap, halted, cpu, pic, kbd, recvbuffer>>
  BY DEF writeINTMASK
<1>2. main.pc # "console"
  BY <1>1 DEF At
<1>3. /\ nic' \in Nics /\ nic'.receiving = nic.receiving /\ nic'.isr = nic.isr
      /\ nic'.rbuf = nic.rbuf
  <2>1. {"ROK", "TOK"} \in Masks
    BY DEF Masks
  <2>2. nic \in Nics /\ nic' = [nic EXCEPT !.mask = {"ROK", "TOK"}]
    BY <1>2, NotReceiving DEF writeINTMASK
  <2> QED
    BY <2>1, <2>2, Zenon DEF Nics
<1> QED
  BY <1>1, <1>2, <1>3, NotReceiving, InitNICFrame

LEMMA WriteRCMDStep == ASSUME IInv, writeRCMD PROVE IInv' /\ [H!Next]_(H!vars)
<1>1. /\ At("RCMD") /\ Goto("console") /\ UNCHANGED pci
      /\ UNCHANGED <<heap, halted, cpu, pic, kbd, recvbuffer>>
  BY DEF writeRCMD
<1>2. main.pc # "console"
  BY <1>1 DEF At
<1>3. nic' \in Nics /\ nic'.isr = nic.isr /\ nic'.rbuf = nic.rbuf
  <2>1. nic \in Nics /\ nic' = [nic EXCEPT !.receiving = TRUE]
    BY <1>2, NotReceiving DEF writeRCMD
  <2> QED
    BY <2>1, Zenon DEF Nics
<1> QED
  BY <1>1, <1>2, <1>3, NotReceiving, InitNICFrame

-----------------------------------------------------------------------------
(* The memory manager is called. *)
LEMMA BytesRequested ==
  /\ PageBytes \in Requests /\ ReceiveBytes \in Requests /\ TransmitBytes \in Requests
  /\ ReceiveBytes \in Nat
BY SizeAssumption, MemoryAssumption

(* What kernelmalloc returns nobody holds yet. *)
LEMMA FreshAllocation ==
  ASSUME H!IInv, ready, NEW bytes \in Requests, NEW k,
         k = findFirstFit(bitmap, calculateblocks(bytes)), k # -1
  PROVE  /\ k \in Blocks /\ Allocation(k, bytes) \in Allocations
         /\ Allocation(k, bytes) \notin live
<1> DEFINE n == calculateblocks(bytes)
           a == Allocation(k, bytes)
<1>1. n \in Nat \ {0}
  BY BlocksCoverBytes, MemoryAssumption
<1>2. k \in Blocks /\ Fits(bitmap, k, n) /\ k \in Nat
  BY FirstFit, LayoutNat DEF Blocks
<1>3. H!Fits(bitmap, k, n)
  BY <1>2, SameLayout DEF Fits, H!Fits
<1>4. a = [mem |-> H!address(k), bytes |-> bytes]
  BY SameLayout DEF Allocation
<1> HIDE DEF n, a
<1>5. \A c \in live : k + n <= H!First(c) \/ H!Past(c) <= k
  BY <1>1, <1>2, <1>3, H!FreePlaceApart, MemoryAssumption, SameLayout
<1>6. H!First(a) = k /\ H!Past(a) = k + n
  BY <1>2, <1>4, H!NewAllocation, MemoryAssumption, SameLayout DEF n
<1>7. a \notin live
  BY <1>1, <1>2, <1>5, <1>6
<1> QED
  BY <1>2, <1>7 DEF a, Allocation, Allocations

LEMMA PhysicalmemoryinitStep ==
  ASSUME IInv, physicalmemoryinit PROVE IInv' /\ [H!Next]_(H!vars)
<1>1. /\ main.pc = "physicalmemoryinit" /\ cpu.vector = NoVector /\ ~halted
      /\ bitmap' = initialbitmap /\ ready' = TRUE
      /\ UNCHANGED <<live, halted, cpu, pic, kbd, pci, nic, recvbuffer>>
  BY DEF physicalmemoryinit, At
<1>2. /\ Shapes /\ BootOrder /\ InService /\ NicQuiet /\ CallPending
      /\ ReceiveBuffer /\ LiveCounted /\ H!IInv
  BY DEF IInv
<1>3. "virtualinit" \in Places
  BY DEF Places, Allocating
<1>4. /\ main' \in Mains /\ main'.pc = "virtualinit" /\ main'.searched = main.searched
      /\ main'.pages = main.pages
  BY <1>2, <1>3 DEF physicalmemoryinit, Goto, Shapes, Mains
<1>5. ~ready /\ ~main.searched
  BY <1>1, <1>2 DEF BootOrder, CallPending, BeforeHeap, BeforeSti, Allocating, Shapes, Mains
<1>6. outofmemory' = outofmemory
  BY <1>1 DEF outofmemory
<1>7. H!physicalmemoryinit
  BY <1>1, <1>5, <1>6, SameLayout DEF H!physicalmemoryinit
<1>8. [H!Next]_(H!vars)
  BY <1>7 DEF H!Next
<1>9. H!IInv'
  BY <1>2, <1>8, ManagerKept
<1>10. Shapes'
  BY <1>1, <1>2, <1>4 DEF Shapes
<1>11. BootOrder'
  BY <1>1, <1>2, <1>4
     DEF BootOrder, BeforeHeap, BeforeSti, NoVector
<1>12. InService' /\ NicQuiet'
  BY <1>1, <1>2, <1>4, Idle DEF InService, NicQuiet, InNicHandler
<1>13. CallPending' /\ ReceiveBuffer'
  BY <1>4, <1>5 DEF CallPending, ReceiveBuffer, AfterBuffers
<1>14. LiveCounted'
  BY <1>1, <1>2, <1>4, KernelAssumption
     DEF LiveCounted, Buffers, BeforeHeap, BeforeSti, AfterBuffers
<1> QED
  BY <1>8, <1>9, <1>10, <1>11, <1>12, <1>13, <1>14, Zenon DEF IInv

(* The first half of a kernelmalloc of kernel_main. *)
LEMMA SearchesStep ==
  ASSUME IInv, NEW place \in Allocating, Searches(place, BytesAt(place)),
         UNCHANGED <<cpu, pic, kbd, pci, nic>>
  PROVE  IInv' /\ [H!Next]_(H!vars)
<1> DEFINE k == findFirstFit(bitmap, calculateblocks(BytesAt(place)))
<1>1. /\ main.pc = place /\ cpu.vector = NoVector
      /\ main' = [main EXCEPT !.searched = TRUE, !.index = k]
      /\ UNCHANGED <<heap, halted, recvbuffer>>
  BY DEF Searches, At
<1>2. /\ Shapes /\ BootOrder /\ InService /\ NicQuiet
      /\ ReceiveBuffer /\ LiveCounted /\ H!IInv
  BY DEF IInv
<1>3. k \in Blocks \cup {0, -1}
  BY FirstFit
<1> HIDE DEF k
<1>4. main' \in Mains
  BY <1>1, <1>2, <1>3, Zenon DEF Shapes, Mains
<1>5. /\ main'.pc = place /\ main'.searched = TRUE /\ main'.index = k
      /\ main'.pages = main.pages
  BY <1>1, <1>2 DEF Shapes, Mains
<1>6. outofmemory' = outofmemory
  BY <1>1 DEF outofmemory
<1>7. H!IInv' /\ [H!Next]_(H!vars)
  BY <1>1, <1>2, <1>6, ManagerStutter
<1>8. Shapes'
  BY <1>1, <1>2, <1>4 DEF Shapes
<1>9. BootOrder' /\ InService' /\ NicQuiet'
  <2>1. BootOrder'
    BY <1>1, <1>2, <1>5, Zenon DEF BootOrder, heap
  <2>3. InService'
    BY <1>1, <1>2, Idle DEF InService
  <2>4. NicQuiet'
    BY <1>1, <1>2, <1>5 DEF NicQuiet, heap
  <2> QED
    BY <2>1, <2>3, <2>4
<1>10. CallPending'
  BY <1>1, <1>5 DEF CallPending, heap, k
<1>11. ReceiveBuffer'
  BY <1>1, <1>2, <1>5 DEF ReceiveBuffer, heap
<1>12. LiveCounted'
  BY <1>1, <1>2, <1>5 DEF LiveCounted, Buffers, heap
<1> QED
  BY <1>7, <1>8, <1>9, <1>10, <1>11, <1>12, Zenon DEF IInv

(* The second half: an allocation as PhysicalMemory has it, since the place has
   stayed the one that first fit would find. *)
LEMMA MarksStep ==
  ASSUME IInv, NEW place \in Allocating, NEW to, Marks(place, to, BytesAt(place)),
         \/ /\ place = "virtualinit" /\ recvbuffer' = recvbuffer
            /\ to = IF main.pages = PageTables THEN "readpci" ELSE "virtualinit"
         \/ place = "recvbuffer" /\ to = "RBUFFER" /\ recvbuffer' = address(main.index)
         \/ place = "transmitbuffer" /\ to = "INTMASK" /\ recvbuffer' = recvbuffer,
         UNCHANGED <<cpu, pic, kbd, pci, nic>>
  PROVE  IInv' /\ [H!Next]_(H!vars)
<1> DEFINE b == BytesAt(place)
           k == findFirstFit(bitmap, calculateblocks(b))
           a == Allocation(k, b)
<1>1. /\ main.pc = place /\ cpu.vector = NoVector /\ ~halted
      /\ main.searched /\ main.index # -1
      /\ bitmap' = setbitmap(bitmap, main.index, calculateblocks(b), 1)
      /\ live' = live \cup {Allocation(main.index, b)}
      /\ main' = [main EXCEPT !.searched = FALSE, !.pc = to,
                          !.pages = IF place = "virtualinit" THEN @ + 1 ELSE @]
      /\ UNCHANGED <<ready, halted>>
  BY DEF Marks, At
<1>2. /\ Shapes /\ BootOrder /\ InService /\ NicQuiet /\ CallPending
      /\ ReceiveBuffer /\ LiveCounted /\ H!IInv
  BY DEF IInv
<1>3. main.index = k
  BY <1>1, <1>2 DEF CallPending
<1>4. b \in Requests
  BY BytesRequested DEF BytesAt, Allocating
<1>5. place \notin BeforeHeap /\ to \notin BeforeHeap /\ to \in Places
  BY Zenon DEF Allocating, BeforeHeap, BeforeSti, Places, PciAccess, AfterBuffers
<1>6. ready
  BY <1>1, <1>2, <1>5 DEF BootOrder
<1>7. /\ k \in Blocks /\ a \in Allocations /\ a \notin live
  BY <1>1, <1>2, <1>3, <1>4, <1>6, FreshAllocation
<1>8. cpu.at = "none" /\ pic.master = {} /\ pic.slave = {} /\ cpu.vector \notin Exceptions
  BY <1>1, <1>2, Idle
<1>9. H!kernelmalloc(b)
  <2>1. outofmemory' = outofmemory /\ ~outofmemory
    BY <1>1 DEF outofmemory
  <2>2. /\ bitmap' = H!setbitmap(bitmap, k, H!calculateblocks(b), 1)
        /\ live' = live \cup {[mem |-> H!address(k), bytes |-> b]}
        /\ k = H!findFirstFit(bitmap, H!calculateblocks(b))
    BY <1>1, <1>3, SameLayout, SameSetbitmap, SameFirstFit DEF Allocation
  <2> HIDE DEF k, b, a
  <2> QED
    BY <1>1, <1>3, <1>6, <2>1, <2>2, Zenon DEF H!kernelmalloc
<1> HIDE DEF k, b, a
<1>10. [H!Next]_(H!vars)
  BY <1>4, <1>9, SameLayout DEF H!Next
<1>11. H!IInv'
  BY <1>2, <1>10, ManagerKept
<1>12. /\ main'.searched = FALSE /\ main'.pc = to /\ main'.index = main.index
       /\ main'.pages = (IF place = "virtualinit" THEN main.pages + 1 ELSE main.pages)
  BY <1>1, <1>2 DEF Shapes, Mains
<1>13. main' \in Mains
  <2> DEFINE pages == IF place = "virtualinit" THEN main.pages + 1 ELSE main.pages
  <2>1. pages \in Nat
    BY <1>2 DEF Shapes, Mains
  <2>2. main' = [main EXCEPT !.searched = FALSE, !.pc = to, !.pages = pages]
    BY <1>1
  <2> HIDE DEF pages
  <2> QED
    BY <1>2, <1>5, <2>1, <2>2, Zenon DEF Shapes, Mains
<1>14. Shapes'
  <2>1. recvbuffer' \in Int
    BY <1>1, <1>2, <1>3, <1>7, LayoutNat, MemoryAssumption
       DEF Shapes, address, findoffset, Blocks
  <2> QED
    BY <1>1, <1>2, <1>13, <2>1 DEF Shapes
<1>15. BootOrder'
  BY <1>1, <1>2, <1>5, <1>8, <1>12 DEF BootOrder, BeforeHeap, BeforeSti
<1>17. InService'
  BY <1>1, <1>8 DEF InService
<1>18. NicQuiet'
  <2>1. main.pc # "console"
    BY <1>1 DEF Allocating
  <2> QED
    BY <1>1, <1>2, <1>8, <2>1 DEF NicQuiet, InNicHandler
<1>19. CallPending'
  BY <1>12 DEF CallPending
<1>20. ReceiveBuffer'
  <2>1. CASE place = "virtualinit"
    BY <1>12, <2>1 DEF ReceiveBuffer, AfterBuffers
  <2>2. CASE place = "recvbuffer"
    <3>1. recvbuffer' = address(k) /\ b = ReceiveBytes /\ a \in live'
      BY <1>1, <1>3, <2>2 DEF b, BytesAt, a
    <3>2. [mem |-> recvbuffer', bytes |-> ReceiveBytes] \in live'
      BY <3>1 DEF a, Allocation
    <3> QED
      BY <1>8, <1>12, <2>2, <3>2 DEF ReceiveBuffer, AfterBuffers
  <2>3. CASE place = "transmitbuffer"
    BY <1>1, <1>2, <1>8, <1>12, <2>3 DEF ReceiveBuffer, AfterBuffers
  <2> QED
    BY <2>1, <2>2, <2>3 DEF Allocating
<1>21. LiveCounted'
  <2>1. IsFiniteSet(live') /\ Cardinality(live') = Cardinality(live) + 1
    BY <1>1, <1>2, <1>3, <1>7, FS_AddElement DEF LiveCounted, a
  <2>2. Cardinality(live) = main.pages + Buffers /\ main.pages \in Nat
    BY <1>2, <1>8 DEF LiveCounted, Shapes, Mains, Buffers
  <2>3. CASE place = "virtualinit"
    BY <1>1, <1>2, <1>5, <1>8, <1>12, <2>1, <2>2, <2>3, KernelAssumption
       DEF LiveCounted, Buffers, BeforeHeap, BeforeSti, AfterBuffers
  <2>4. CASE place # "virtualinit"
    BY <1>1, <1>2, <1>5, <1>8, <1>12, <2>1, <2>2, <2>4, KernelAssumption
       DEF LiveCounted, Buffers, BeforeHeap, BeforeSti, AfterBuffers
  <2> QED
    BY <2>3, <2>4
<1> QED
  BY <1>10, <1>11, <1>14, <1>15, <1>17, <1>18, <1>19, <1>20, <1>21, Zenon DEF IInv

LEMMA VirtualinitStep == ASSUME IInv, virtualinit PROVE IInv' /\ [H!Next]_(H!vars)
<1>1. "virtualinit" \in Allocating /\ BytesAt("virtualinit") = PageBytes
  BY DEF Allocating, BytesAt
<1>2. UNCHANGED <<cpu, pic, kbd, pci, nic>>
  BY DEF virtualinit
<1>3. CASE Searches("virtualinit", PageBytes)
  BY <1>1, <1>2, <1>3, SearchesStep
<1>4. CASE /\ Marks("virtualinit",
                    IF main.pages = PageTables THEN "readpci" ELSE "virtualinit",
                    PageBytes)
           /\ UNCHANGED recvbuffer
  BY <1>1, <1>2, <1>4, MarksStep
<1> QED
  BY <1>3, <1>4 DEF virtualinit

LEMMA AllocaterecvbufferStep ==
  ASSUME IInv, allocaterecvbuffer PROVE IInv' /\ [H!Next]_(H!vars)
<1>1. "recvbuffer" \in Allocating /\ BytesAt("recvbuffer") = ReceiveBytes
  BY DEF Allocating, BytesAt
<1>2. UNCHANGED <<cpu, pic, kbd, pci, nic>>
  BY DEF allocaterecvbuffer
<1>3. CASE Searches("recvbuffer", ReceiveBytes)
  BY <1>1, <1>2, <1>3, SearchesStep
<1>4. CASE /\ Marks("recvbuffer", "RBUFFER", ReceiveBytes)
           /\ recvbuffer' = address(main.index)
  BY <1>1, <1>2, <1>4, MarksStep
<1> QED
  BY <1>3, <1>4 DEF allocaterecvbuffer

LEMMA AllocatetransmitbufferStep ==
  ASSUME IInv, allocatetransmitbuffer PROVE IInv' /\ [H!Next]_(H!vars)
<1>1. "transmitbuffer" \in Allocating /\ BytesAt("transmitbuffer") = TransmitBytes
  BY DEF Allocating, BytesAt
<1>2. UNCHANGED <<cpu, pic, kbd, pci, nic>>
  BY DEF allocatetransmitbuffer
<1>3. CASE Searches("transmitbuffer", TransmitBytes)
  BY <1>1, <1>2, <1>3, SearchesStep
<1>4. CASE Marks("transmitbuffer", "INTMASK", TransmitBytes) /\ UNCHANGED recvbuffer
  BY <1>1, <1>2, <1>4, MarksStep
<1> QED
  BY <1>3, <1>4 DEF allocatetransmitbuffer

(* Every part of the invariant but the manager's own survives a panic. *)
LEMMA HaltKeeps ==
  ASSUME IInv, halted' = TRUE, H!IInv',
         UNCHANGED <<heap, main, cpu, pic, kbd, pci, nic, recvbuffer>>
  PROVE  IInv'
<1>1. /\ Shapes /\ BootOrder /\ InService /\ NicQuiet /\ CallPending
      /\ ReceiveBuffer /\ LiveCounted
  BY DEF IInv
<1>2. UNCHANGED <<bitmap, ready, live>>
  BY DEF heap
<1>3. Shapes'
  BY <1>1 DEF Shapes
<1>4. BootOrder'
  BY <1>1, <1>2, Zenon DEF BootOrder
<1>5. InService'
  BY <1>1, Zenon DEF InService
<1>6. NicQuiet' /\ CallPending'
  BY <1>1, <1>2, Zenon DEF NicQuiet, CallPending
<1>7. ReceiveBuffer'
  BY <1>1, <1>2, Zenon DEF ReceiveBuffer
<1>8. LiveCounted'
  BY <1>1, <1>2, Zenon DEF LiveCounted, Buffers
<1> QED
  BY <1>3, <1>4, <1>5, <1>6, <1>7, <1>8, Zenon DEF IInv

(* A kernelmalloc that finds no room is the manager's refusal. *)
LEMMA RefusalIsManagers ==
  ASSUME IInv, ready, ~halted, cpu.vector \notin Exceptions, NEW b \in Requests,
         findFirstFit(bitmap, calculateblocks(b)) = -1,
         halted' = TRUE, UNCHANGED <<heap, cpu>>
  PROVE  H!IInv' /\ [H!Next]_(H!vars)
<1>1. outofmemory' = TRUE /\ ~outofmemory
  BY DEF outofmemory
<1>2. UNCHANGED <<bitmap, ready, live>>
  BY DEF heap
<1>3. H!findFirstFit(bitmap, H!calculateblocks(b)) = -1
  BY SameLayout, SameFirstFit
<1>4. H!kernelmalloc(b)
  BY <1>1, <1>2, <1>3, Zenon DEF H!kernelmalloc
<1>5. [H!Next]_(H!vars)
  BY <1>4, SameLayout DEF H!Next
<1> QED
  BY <1>5, ManagerKept DEF IInv

LEMMA MallocFailsStep == ASSUME IInv, MallocFails PROVE IInv' /\ [H!Next]_(H!vars)
<1>1. /\ cpu.vector = NoVector /\ ~halted /\ main.searched /\ main.index = -1
      /\ halted' = TRUE
      /\ UNCHANGED <<heap, main, cpu, pic, kbd, pci, nic, recvbuffer>>
  BY DEF MallocFails, At
<1>2. BootOrder /\ InService /\ CallPending
  BY DEF IInv
<1> DEFINE b == BytesAt(main.pc)
<1>3. main.pc \in Allocating /\ findFirstFit(bitmap, calculateblocks(b)) = -1
  BY <1>1, <1>2 DEF CallPending
<1>4. b \in Requests
  BY <1>3, BytesRequested DEF BytesAt, Allocating
<1>5. ready
  BY <1>2, <1>3 DEF BootOrder, Allocating, BeforeHeap, BeforeSti
<1>6. cpu.vector \notin Exceptions
  BY <1>1, <1>2, Idle
<1> HIDE DEF b
<1>7. H!IInv' /\ [H!Next]_(H!vars)
  BY <1>1, <1>3, <1>4, <1>5, <1>6, RefusalIsManagers
<1> QED
  BY <1>1, <1>7, HaltKeeps

LEMMA StutterStep == ASSUME IInv, UNCHANGED vars PROVE IInv' /\ [H!Next]_(H!vars)
<1>1. /\ UNCHANGED <<bitmap, ready, live, halted, main, cpu, pic, kbd, pci, nic, recvbuffer>>
  BY DEF vars, heap
<1>2. /\ Shapes /\ BootOrder /\ InService /\ NicQuiet /\ CallPending
      /\ ReceiveBuffer /\ LiveCounted /\ H!IInv
  BY DEF IInv
<1>3. H!IInv' /\ [H!Next]_(H!vars)
  <2>1. UNCHANGED heap /\ outofmemory' = outofmemory
    BY <1>1 DEF heap, outofmemory
  <2> QED
    BY <1>2, <2>1, ManagerStutter
<1>4. Shapes' /\ BootOrder'
  BY <1>1, <1>2, Zenon DEF Shapes, BootOrder
<1>5. InService'
  BY <1>1, <1>2, Zenon DEF InService
<1>6. NicQuiet' /\ CallPending'
  BY <1>1, <1>2, Zenon DEF NicQuiet, CallPending
<1>7. ReceiveBuffer'
  BY <1>1, <1>2, Zenon DEF ReceiveBuffer
<1>8. LiveCounted'
  BY <1>1, <1>2, Zenon DEF LiveCounted, Buffers
<1> QED
  BY <1>3, <1>4, <1>5, <1>6, <1>7, <1>8, Zenon DEF IInv

LEMMA KernelMainStep == ASSUME IInv, kernel_main PROVE IInv' /\ [H!Next]_(H!vars)
<1>1. CASE initNIC
  BY <1>1, ReadpciStep, WritepciStep, SecondreadpciStep, ResetStep, PollresetStep,
     AllocaterecvbufferStep, WriteRBUFFERStep, AllocatetransmitbufferStep, WriteINTMASKStep, WriteRCMDStep
     DEF initNIC
<1>2. CASE console
  BY <1>2, StutterStep DEF console
<1> QED
  BY <1>1, <1>2, InitIDTStep, ISR_initStep, PICremapStep, KeyboardDriverStep,
     EnableinterruptsStep, PhysicalmemoryinitStep, VirtualinitStep, MallocFailsStep
     DEF kernel_main

-----------------------------------------------------------------------------
(* Interrupts and their handlers.  None of them undoes what the boot has set up. *)
LEMMA HandlerBoot ==
  ASSUME IInv, UNCHANGED <<main, ready>>,
         cpu'.idt = cpu.idt, cpu'.gates = cpu.gates, pic'.remapped = pic.remapped,
         \/ cpu'.intflag = cpu.intflag /\ cpu'.vector = cpu.vector
         \/ cpu.intflag /\ ~cpu'.intflag
         \/ cpu.vector >= 32 /\ cpu'.vector = NoVector
         \/ cpu.idt /\ cpu.gates # {} /\ ~cpu'.intflag /\ cpu'.vector \in Exceptions
  PROVE  BootOrder'
<1>1. BootOrder /\ cpu.gates \in {{}, 0 .. 255}
  <2>1. cpu.gates \in Gates
    BY DEF IInv, Shapes, Cpus
  <2> QED
    BY <2>1, Zenon DEF IInv, Gates
<1>3. \A v \in Exceptions : v \in Nat /\ ~(v >= 32)
  BY KernelAssumption
<1>4. ~(NoVector >= 32)
  BY DEF NoVector
<1>5. cpu.idt /\ cpu.gates # {} => cpu.gates = 0 .. 255
  BY <1>1
<1>6. main.pc \notin BeforeSti =>
        main.pc \notin {"initIDT", "ISR_init", "PICremap"}
  BY DEF BeforeSti
<1>7. /\ cpu'.intflag => main.pc \notin BeforeSti
      /\ cpu'.vector # NoVector => cpu.idt /\ cpu.gates = 0 .. 255
      /\ cpu'.vector >= 32 => main.pc \notin BeforeSti
  <2>1. CASE cpu'.intflag = cpu.intflag /\ cpu'.vector = cpu.vector
    BY <1>1, <2>1 DEF BootOrder
  <2>2. CASE cpu.intflag /\ ~cpu'.intflag
    BY <1>1, <1>6, <2>2 DEF BootOrder
  <2>3. CASE cpu.vector >= 32 /\ cpu'.vector = NoVector
    BY <1>1, <1>4, <2>3 DEF BootOrder
  <2>4. CASE cpu.idt /\ cpu.gates # {} /\ ~cpu'.intflag /\ cpu'.vector \in Exceptions
    BY <1>3, <1>5, <2>4
  <2> QED
    BY <2>1, <2>2, <2>3, <2>4
<1>8. BootOrder'
  BY <1>1, <1>7 DEF BootOrder
<1> QED
  BY <1>8

(* What runs at a vector of the controllers is no exception. *)
LEMMA ServesIrq ==
  ASSUME IInv, cpu.vector # NoVector, cpu.vector >= 32 \/ cpu.at # "ISRHANDLER"
  PROVE  /\ cpu.vector \notin Exceptions
         /\ \E irq \in Irqs : cpu.vector = 32 + irq
         /\ cpu.vector >= 32
<1>1. \A v \in Exceptions : ~(v >= 32)
  BY KernelAssumption
<1>2. \E irq \in Irqs : cpu.vector = 32 + irq
  BY <1>1 DEF IInv, InService
<1> QED
  BY <1>2, IrqRange

(* A step of a handler up to its EOIs that has no effect on the heap. *)
LEMMA HandlerStep ==
  ASSUME IInv, UNCHANGED <<heap, halted, main, pic, recvbuffer>>,
         cpu.vector # NoVector, cpu.vector >= 32,
         cpu.at \in InHandler \ {"free"}, cpu'.at \in InHandler \ {"free"},
         cpu' \in Cpus, cpu'.idt = cpu.idt, cpu'.gates = cpu.gates,
         cpu'.intflag = cpu.intflag, cpu'.vector = cpu.vector, cpu'.packet = cpu.packet,
         kbd' \in Kbds,
         pci' \in Pcis,
         nic' \in Nics, nic'.rbuf = nic.rbuf, nic'.receiving = nic.receiving,
         nic'.isr \subseteq nic.isr,
         cpu'.at \in InNicHandler => cpu.vector = 43 /\ main.pc = "console"
  PROVE  IInv' /\ [H!Next]_(H!vars)
<1>1. Shapes /\ InService /\ NicQuiet
  BY DEF IInv
<1>2. cpu.vector \notin Exceptions /\ \E irq \in Irqs : cpu.vector = 32 + irq
  BY ServesIrq
<1>3. outofmemory' = outofmemory
  BY DEF outofmemory
<1>4. /\ [H!Next]_(H!vars)
      /\ H!IInv' /\ CallPending' /\ ReceiveBuffer' /\ LiveCounted'
  BY <1>2, <1>3, HandlerFrame
<1>5. BootOrder'
  BY HandlerBoot DEF heap
<1>6. Shapes'
  BY <1>1 DEF Shapes
<1>7. InService'
  <2>1. /\ cpu.at \notin {"slave EOI", "iret"}
        /\ cpu'.at \in InHandler
    BY Zenon DEF InHandler, InNicHandler
  <2>2. PICK irq \in Irqs :
          /\ cpu.vector = 32 + irq /\ ~cpu.intflag
          /\ pic.master = {MasterLine(irq)}
          /\ pic.slave = IF irq >= 8 THEN {irq} ELSE {}
    BY <1>1, <1>2, <2>1, Zenon DEF InService
  <2>3. /\ cpu'.vector = 32 + irq /\ ~cpu'.intflag
        /\ pic'.master = {MasterLine(irq)}
        /\ pic'.slave = IF irq >= 8 THEN {irq} ELSE {}
    BY <2>2, Zenon
  <2> QED
    BY <2>1, <2>3, Zenon DEF InService
<1>8. NicQuiet'
  BY <1>1 DEF NicQuiet, heap
<1> QED
  BY <1>4, <1>5, <1>6, <1>7, <1>8, Zenon DEF IInv

(* A step of a device. *)
LEMMA DeviceStep ==
  ASSUME IInv, UNCHANGED <<heap, halted, main, cpu, pci, recvbuffer>>,
         pic' \in Pics, pic'.master = pic.master, pic'.slave = pic.slave,
         pic'.remapped = pic.remapped,
         kbd' \in Kbds,
         nic' \in Nics, nic'.rbuf = nic.rbuf, nic'.receiving = nic.receiving,
         nic'.isr = nic.isr \/ nic.receiving
  PROVE  IInv' /\ [H!Next]_(H!vars)
<1>1. Shapes /\ InService /\ NicQuiet
  BY DEF IInv
<1>2. outofmemory' = outofmemory
  BY DEF outofmemory
<1>3. /\ [H!Next]_(H!vars)
      /\ H!IInv' /\ CallPending' /\ ReceiveBuffer' /\ LiveCounted'
  BY <1>2, HandlerFrame
<1>4. BootOrder'
  BY HandlerBoot DEF heap
<1>5. Shapes'
  BY <1>1 DEF Shapes
<1>6. InService'
  BY <1>1, Zenon DEF InService
<1>7. NicQuiet'
  BY <1>1 DEF NicQuiet, heap
<1> QED
  BY <1>3, <1>4, <1>5, <1>6, <1>7, Zenon DEF IInv

LEMMA RaiseStep ==
  ASSUME IInv, NEW irq \in {0} \cup OtherIrqs, Raise(irq)
  PROVE  IInv' /\ [H!Next]_(H!vars)
<1>1. Shapes
  BY DEF IInv
<1>2. irq \in Irqs
  BY DEF Irqs
<1>3. /\ pic' \in Pics /\ pic'.master = pic.master /\ pic'.slave = pic.slave
      /\ pic'.remapped = pic.remapped
  <2>1. pic.raises + 1 \in 0 .. MaxRaises /\ pic.irr \cup {irq} \in SUBSET Irqs
    BY <1>1, <1>2, KernelAssumption DEF Raise, Shapes, Pics
  <2> QED
    BY <1>1, <2>1 DEF Raise, Shapes, Pics
<1>4. UNCHANGED <<heap, halted, main, cpu, kbd, pci, nic, recvbuffer>>
  BY DEF Raise
<1> QED
  BY <1>1, <1>3, <1>4, DeviceStep DEF Shapes

LEMMA KeyPressStep ==
  ASSUME IInv, NEW key \in {"letter", "enter"}, KeyPress(key)
  PROVE  IInv' /\ [H!Next]_(H!vars)
<1>1. Shapes
  BY DEF IInv
<1>2. /\ pic' \in Pics /\ pic'.master = pic.master /\ pic'.slave = pic.slave
      /\ pic'.remapped = pic.remapped
  <2>1. pic.irr \cup {1} \in SUBSET Irqs
    BY <1>1 DEF Shapes, Pics, Irqs
  <2> QED
    BY <1>1, <2>1 DEF KeyPress, Shapes, Pics
<1>3. /\ kbd' \in Kbds
  <2>1. kbd.keys + 1 \in 0 .. MaxKeys
    BY <1>1, KernelAssumption DEF KeyPress, Shapes, Kbds
  <2> QED
    BY <1>1, <2>1 DEF KeyPress, Shapes, Kbds
<1>4. UNCHANGED <<heap, halted, main, cpu, pci, nic, recvbuffer>>
  BY DEF KeyPress
<1> QED
  BY <1>1, <1>2, <1>3, <1>4, DeviceStep DEF Shapes

LEMMA NicEventStep ==
  ASSUME IInv, NEW bit \in StatusBits, NicEvent(bit)
  PROVE  IInv' /\ [H!Next]_(H!vars)
<1>1. Shapes
  BY DEF IInv
<1>2. /\ nic' \in Nics /\ nic'.rbuf = nic.rbuf /\ nic'.receiving = nic.receiving
      /\ nic.receiving
  <2>1. nic.events \in 0 .. MaxPackets /\ nic.isr \in Statuses
    BY <1>1 DEF Shapes, Nics
  <2>2. nic.events + 1 \in 0 .. MaxPackets /\ nic.isr \cup {bit} \in Statuses
    BY <2>1, KernelAssumption DEF NicEvent, Statuses
  <2>3. /\ nic \in Nics /\ nic.receiving
        /\ nic' = [nic EXCEPT !.isr = nic.isr \cup {bit}, !.events = nic.events + 1]
    BY <1>1 DEF NicEvent, Shapes
  <2> QED
    BY <2>2, <2>3, Zenon DEF Nics
<1>3. UNCHANGED <<heap, halted, main, cpu, pic, kbd, pci, recvbuffer>>
  BY DEF NicEvent
<1> QED
  BY <1>1, <1>2, <1>3, DeviceStep DEF Shapes

LEMMA ResetDoneStep == ASSUME IInv, ResetDone PROVE IInv' /\ [H!Next]_(H!vars)
<1>1. nic \in Nics /\ nic' = [nic EXCEPT !.resetting = FALSE]
  BY DEF ResetDone, IInv, Shapes
<1>2. /\ nic' \in Nics /\ nic'.rbuf = nic.rbuf /\ nic'.receiving = nic.receiving
      /\ nic'.isr = nic.isr
  BY <1>1, Zenon DEF Nics
<1>3. UNCHANGED <<heap, halted, main, cpu, pic, kbd, pci, recvbuffer>>
  BY DEF ResetDone
<1> QED
  BY <1>2, <1>3, DeviceStep DEF IInv, Shapes

(* sti comes after PICremap, so the vector is past the exceptions. *)
LEMMA AcceptStep ==
  ASSUME IInv, NEW irq \in Irqs, Accept(irq)
  PROVE  IInv' /\ [H!Next]_(H!vars)
<1>1. Shapes /\ BootOrder /\ InService /\ NicQuiet
  BY DEF IInv
<1>2. /\ cpu.intflag /\ cpu.vector = NoVector
      /\ UNCHANGED <<heap, halted, main, kbd, pci, nic, recvbuffer>>
  BY DEF Accept
<1>3. cpu.at = "none" /\ pic.master = {} /\ pic.slave = {} /\ cpu.vector \notin Exceptions
  BY <1>1, <1>2, Idle
<1>4. irq \in Nat /\ irq <= 15 /\ 32 + irq \in 0 .. 255 /\ 32 + irq \notin Exceptions
  BY IrqRange
<1>5. VectorOf(irq) = 32 + irq
  BY <1>1, <1>2 DEF BootOrder, VectorOf, BeforeSti
<1>6. /\ cpu'.vector = 32 + irq /\ cpu'.at = "ISRHANDLER" /\ cpu'.intflag = FALSE
      /\ cpu'.idt = cpu.idt /\ cpu'.gates = cpu.gates /\ cpu'.packet = cpu.packet
      /\ cpu' \in Cpus
  <2>1. "ISRHANDLER" \in Steps /\ 32 + irq \in Vectors
    BY <1>4, Zenon DEF Steps, InHandler, Vectors
  <2>2. /\ cpu' = [cpu EXCEPT !.intflag = FALSE, !.vector = 32 + irq,
                              !.at = "ISRHANDLER"]
        /\ cpu \in Cpus
    BY <1>1, <1>5 DEF Accept, Shapes
  <2> QED
    BY <2>1, <2>2, Zenon DEF Cpus
<1>7. /\ pic'.master = {MasterLine(irq)}
      /\ pic'.slave = (IF irq >= 8 THEN {irq} ELSE {})
      /\ pic'.remapped = pic.remapped
  BY <1>1, <1>3, <1>4 DEF Accept, Shapes, Pics
<1>8. pic' \in Pics
  <2>1. MasterLine(irq) \in 0 .. 7
    BY <1>4 DEF MasterLine
  <2>2. pic.slave \cup {irq} \in SUBSET (8 .. 15) \/ irq < 8
    BY <1>1, <1>4 DEF Shapes, Pics
  <2> QED
    BY <1>1, <2>1, <2>2 DEF Accept, Shapes, Pics
<1>9. outofmemory' = outofmemory
  BY <1>2, <1>3, <1>4, <1>6 DEF outofmemory
<1>10. /\ [H!Next]_(H!vars)
       /\ H!IInv' /\ CallPending' /\ ReceiveBuffer' /\ LiveCounted'
  BY <1>2, <1>3, <1>6, <1>9, HandlerFrame
<1>11. BootOrder'
  BY <1>2, <1>6, <1>7, HandlerBoot DEF heap
<1>12. Shapes'
  BY <1>1, <1>2, <1>6, <1>8 DEF Shapes
<1>13. InService'
  <2>1. cpu'.at \in InHandler
    BY <1>6 DEF InHandler
  <2>2. ~cpu'.intflag
    BY <1>6
  <2> QED
    BY <1>6, <1>7, <2>1, <2>2, Zenon DEF InService
<1>14. NicQuiet'
  BY <1>1, <1>2, <1>6 DEF NicQuiet, InNicHandler, heap
<1> QED
  BY <1>10, <1>11, <1>12, <1>13, <1>14, Zenon DEF IInv

LEMMA ExceptStep ==
  ASSUME IInv, NEW v \in Exceptions, Except(v)
  PROVE  IInv' /\ [H!Next]_(H!vars)
<1>1. Shapes /\ NicQuiet
  BY DEF IInv
<1>2. /\ ~halted /\ cpu.idt /\ cpu.gates # {}
      /\ UNCHANGED <<heap, halted, main, pic, kbd, pci, nic, recvbuffer>>
  BY DEF Except
<1>3. /\ cpu'.vector = v /\ cpu'.at = "ISRHANDLER" /\ cpu'.intflag = FALSE
      /\ cpu'.idt = cpu.idt /\ cpu'.gates = cpu.gates /\ cpu'.packet = cpu.packet
      /\ cpu' \in Cpus
  <2>1. "ISRHANDLER" \in Steps
    BY DEF Steps, InHandler
  <2>2. v \in Vectors
    BY KernelAssumption DEF Vectors
  <2>3. /\ cpu' = [cpu EXCEPT !.intflag = FALSE, !.vector = v, !.at = "ISRHANDLER"]
        /\ cpu \in Cpus
    BY <1>1 DEF Except, Shapes
  <2> QED
    BY <2>1, <2>2, <2>3, Zenon DEF Cpus
<1>4. outofmemory' = outofmemory
  BY <1>2 DEF outofmemory
<1>5. /\ [H!Next]_(H!vars)
      /\ H!IInv' /\ CallPending' /\ ReceiveBuffer' /\ LiveCounted'
  BY <1>2, <1>3, <1>4, HandlerFrame
<1>6. BootOrder'
  BY <1>2, <1>3, HandlerBoot DEF heap
<1>7. Shapes'
  BY <1>1, <1>2, <1>3 DEF Shapes
<1>8. InService'
  BY <1>3 DEF InService
<1>9. NicQuiet'
  BY <1>1, <1>2, <1>3 DEF NicQuiet, InNicHandler, heap
<1> QED
  BY <1>5, <1>6, <1>7, <1>8, <1>9, Zenon DEF IInv

LEMMA HandleExceptionStep ==
  ASSUME IInv, HandleException PROVE IInv' /\ [H!Next]_(H!vars)
<1>1. /\ cpu.vector # NoVector /\ cpu.vector < 32 /\ halted' = TRUE
      /\ UNCHANGED <<heap, main, cpu, pic, kbd, pci, nic, recvbuffer>>
  BY DEF HandleException, Handles
<1>2. cpu.vector \in Exceptions
  <2>1. \A irq \in Irqs : cpu.vector # 32 + irq
    BY <1>1, IrqRange
  <2> QED
    BY <1>1, <2>1 DEF IInv, InService
<1>3. outofmemory' = outofmemory
  BY <1>1, <1>2 DEF outofmemory
<1>4. H!IInv' /\ [H!Next]_(H!vars)
  BY <1>1, <1>3, ManagerStutter DEF IInv
<1> QED
  BY <1>1, <1>4, HaltKeeps

LEMMA KeyboardHandlerStep ==
  ASSUME IInv, keyboardHandler PROVE IInv' /\ [H!Next]_(H!vars)
<1>1. Shapes
  BY DEF IInv
<1>2. /\ cpu.vector = 33 /\ cpu.at = "ISRHANDLER" /\ cpu.vector # NoVector
      /\ UNCHANGED <<heap, halted, main, pic, nic, recvbuffer>>
  BY DEF keyboardHandler, Handles
<1>3. /\ cpu' \in Cpus /\ cpu'.idt = cpu.idt /\ cpu'.gates = cpu.gates
      /\ cpu'.intflag = cpu.intflag /\ cpu'.vector = cpu.vector
      /\ cpu'.packet = cpu.packet /\ cpu'.at = "EOI"
  <2>1. "EOI" \in Steps
    BY DEF Steps, InHandler
  <2>2. cpu \in Cpus /\ cpu' = [cpu EXCEPT !.at = "EOI"]
    BY <1>1 DEF keyboardHandler, Continue, Shapes
  <2> QED
    BY <2>1, <2>2, Zenon DEF Cpus
<1>4. kbd' \in Kbds
  <2> DEFINE typed == CASE kbd.buffer = "enter" -> 0
                        [] kbd.buffer = "letter" /\ kbd.typed < CommandLength -> kbd.typed + 1
                        [] OTHER -> kbd.typed
  <2>1. kbd' = [kbd EXCEPT !.buffer = "empty", !.typed = typed]
    BY DEF keyboardHandler
  <2>2. typed \in 0 .. CommandLength
    BY <1>1, KernelAssumption DEF Shapes, Kbds
  <2> HIDE DEF typed
  <2> QED
    BY <1>1, <2>1, <2>2 DEF Shapes, Kbds
<1>5. pci' \in Pcis
  BY <1>1 DEF keyboardHandler, Shapes, Pcis
<1>6. /\ cpu.at \in InHandler \ {"free"} /\ cpu'.at \in InHandler \ {"free"}
      /\ cpu'.at \notin InNicHandler
  BY <1>2, <1>3 DEF InHandler, InNicHandler
<1>7. cpu.vector >= 32
  BY <1>2
<1> QED
  BY <1>1, <1>2, <1>3, <1>4, <1>5, <1>6, <1>7, HandlerStep DEF Shapes

LEMMA HandleOtherStep == ASSUME IInv, HandleOther PROVE IInv' /\ [H!Next]_(H!vars)
<1>1. Shapes
  BY DEF IInv
<1>2. /\ cpu.vector >= 32 /\ cpu.at = "ISRHANDLER" /\ cpu.vector # NoVector
      /\ UNCHANGED <<heap, halted, main, pic, kbd, pci, nic, recvbuffer>>
  BY DEF HandleOther, Handles
<1>3. /\ cpu' \in Cpus /\ cpu'.idt = cpu.idt /\ cpu'.gates = cpu.gates
      /\ cpu'.intflag = cpu.intflag /\ cpu'.vector = cpu.vector
      /\ cpu'.packet = cpu.packet /\ cpu'.at = "EOI"
  <2>1. "EOI" \in Steps
    BY DEF Steps, InHandler
  <2>2. cpu \in Cpus /\ cpu' = [cpu EXCEPT !.at = "EOI"]
    BY <1>1 DEF HandleOther, Continue, Shapes
  <2> QED
    BY <2>1, <2>2, Zenon DEF Cpus
<1>4. /\ cpu.at \in InHandler \ {"free"} /\ cpu'.at \in InHandler \ {"free"}
      /\ cpu'.at \notin InNicHandler
  BY <1>2, <1>3 DEF InHandler, InNicHandler
<1> QED
  BY <1>1, <1>2, <1>3, <1>4, HandlerStep DEF Shapes

(* The card's handler at work: vector 43, and kernel_main in its loop. *)
LEMMA NicHandlerRuns ==
  ASSUME IInv, cpu.at \in InNicHandler
  PROVE  /\ cpu.vector = 43 /\ cpu.vector >= 32 /\ main.pc = "console"
         /\ cpu.vector # NoVector
<1>1. cpu.vector = 43 /\ main.pc = "console"
  BY DEF IInv, NicQuiet
<1> QED
  BY <1>1 DEF NoVector

LEMMA ReadStatusStep == ASSUME IInv, ReadStatus PROVE IInv' /\ [H!Next]_(H!vars)
<1>1. Shapes /\ NicQuiet
  BY DEF IInv
<1>2. /\ cpu.at \in {"ISRHANDLER", "NICISR43handler"} /\ cpu.vector # NoVector
      /\ cpu.at = "ISRHANDLER" => cpu.vector = 43
      /\ UNCHANGED <<heap, halted, main, pic, kbd, pci, nic, recvbuffer>>
      /\ cpu' = [cpu EXCEPT !.status = nic.isr,
                            !.at = IF nic.isr = {} THEN "EOI" ELSE "acknowledge"]
  BY DEF ReadStatus, Handles
<1>3. cpu.vector = 43 /\ cpu.vector >= 32
  BY <1>2, NicHandlerRuns DEF InNicHandler
<1> DEFINE to == IF nic.isr = {} THEN "EOI" ELSE "acknowledge"
<1>4. to \in InHandler \ {"free"} /\ to \in Steps /\ cpu.at \in InHandler \ {"free"}
  BY <1>2 DEF InHandler, InNicHandler, Steps
<1>5. to \in InNicHandler => main.pc = "console"
  BY <1>1 DEF NicQuiet, InNicHandler
<1> HIDE DEF to
<1>6. /\ cpu' \in Cpus /\ cpu'.idt = cpu.idt /\ cpu'.gates = cpu.gates
      /\ cpu'.intflag = cpu.intflag /\ cpu'.vector = cpu.vector
      /\ cpu'.packet = cpu.packet /\ cpu'.at = to
  <2>1. cpu' = [cpu EXCEPT !.status = nic.isr, !.at = to]
    BY <1>2 DEF to
  <2>2. nic.isr \in Statuses /\ cpu \in Cpus
    BY <1>1 DEF Shapes, Nics
  <2> QED
    BY <1>4, <2>1, <2>2, Zenon DEF Cpus
<1> QED
  BY <1>1, <1>2, <1>3, <1>4, <1>5, <1>6, HandlerStep DEF Shapes

LEMMA AcknowledgeStep == ASSUME IInv, Acknowledge PROVE IInv' /\ [H!Next]_(H!vars)
<1>1. Shapes
  BY DEF IInv
<1>2. /\ cpu.at = "acknowledge" /\ cpu.vector # NoVector
      /\ UNCHANGED <<heap, halted, main, pic, kbd, pci, recvbuffer>>
      /\ nic' = [nic EXCEPT !.isr = @ \ cpu.status]
      /\ cpu' = [cpu EXCEPT !.at = IF cpu.status = {"ROK"} THEN "recvpacket"
                                                           ELSE "NICISR43handler"]
  BY DEF Acknowledge, Handles, Continue
<1>3. cpu.vector = 43 /\ cpu.vector >= 32 /\ main.pc = "console"
  BY <1>2, NicHandlerRuns DEF InNicHandler
<1> DEFINE to == IF cpu.status = {"ROK"} THEN "recvpacket" ELSE "NICISR43handler"
<1>4. to \in InHandler \ {"free"} /\ to \in Steps /\ cpu.at \in InHandler \ {"free"}
  BY <1>2 DEF InHandler, InNicHandler, Steps
<1> HIDE DEF to
<1>5. /\ cpu' \in Cpus /\ cpu'.idt = cpu.idt /\ cpu'.gates = cpu.gates
      /\ cpu'.intflag = cpu.intflag /\ cpu'.vector = cpu.vector
      /\ cpu'.packet = cpu.packet /\ cpu'.at = to
  <2>1. cpu \in Cpus /\ cpu' = [cpu EXCEPT !.at = to]
    BY <1>1, <1>2 DEF to, Shapes
  <2> QED
    BY <1>4, <2>1, Zenon DEF Cpus
<1>6. /\ nic' \in Nics /\ nic'.rbuf = nic.rbuf /\ nic'.receiving = nic.receiving
      /\ nic'.isr \subseteq nic.isr
  <2>1. nic \in Nics /\ nic.isr \ cpu.status \in Statuses
    BY <1>1 DEF Shapes, Nics, Statuses
  <2>2. nic' = [nic EXCEPT !.isr = nic.isr \ cpu.status]
    BY <1>2
  <2> QED
    BY <2>1, <2>2, Zenon DEF Nics
<1> QED
  BY <1>1, <1>2, <1>3, <1>4, <1>5, <1>6, HandlerStep DEF Shapes

LEMMA ReceiveFailsStep ==
  ASSUME IInv, NEW b \in PacketLengths, ReceiveFails(b)
  PROVE  IInv' /\ [H!Next]_(H!vars)
<1>1. /\ ~halted /\ cpu.vector # NoVector /\ cpu.at = "recvpacket"
      /\ findFirstFit(bitmap, calculateblocks(b)) = -1 /\ halted' = TRUE
      /\ UNCHANGED <<heap, main, cpu, pic, kbd, pci, nic, recvbuffer>>
  BY DEF ReceiveFails, Handles
<1>2. main.pc = "console" /\ cpu.vector \notin Exceptions
  BY <1>1, NicHandlerRuns, ServesIrq DEF InNicHandler
<1>3. ready
  BY <1>2 DEF IInv, BootOrder, BeforeHeap, BeforeSti
<1>4. b \in Requests
  BY KernelAssumption
<1>5. H!IInv' /\ [H!Next]_(H!vars)
  BY <1>1, <1>2, <1>3, <1>4, RefusalIsManagers
<1> QED
  BY <1>1, <1>5, HaltKeeps

(* The copy is no packet that is held already, and not the driver's buffer. *)
LEMMA ReceiveCopiesStep ==
  ASSUME IInv, NEW b \in PacketLengths, ReceiveCopies(b)
  PROVE  IInv' /\ [H!Next]_(H!vars)
<1> DEFINE k == findFirstFit(bitmap, calculateblocks(b))
           a == Allocation(k, b)
<1>1. /\ ~halted /\ cpu.vector # NoVector /\ cpu.at = "recvpacket" /\ k # -1
      /\ bitmap' = setbitmap(bitmap, k, calculateblocks(b), 1)
      /\ live' = live \cup {a}
      /\ cpu' = [cpu EXCEPT !.packet = a, !.at = "free"]
      /\ UNCHANGED <<ready, halted, main, pic, kbd, pci, nic, recvbuffer>>
  BY DEF ReceiveCopies, Handles
<1>2. /\ Shapes /\ BootOrder /\ InService /\ NicQuiet /\ CallPending
      /\ ReceiveBuffer /\ LiveCounted /\ H!IInv
  BY DEF IInv
<1>3. main.pc = "console" /\ cpu.vector \notin Exceptions /\ cpu.vector = 43
  BY <1>1, NicHandlerRuns, ServesIrq DEF InNicHandler
<1>4. ready
  BY <1>2, <1>3 DEF BootOrder, BeforeHeap, BeforeSti
<1>5. b \in Requests
  BY KernelAssumption
<1>6. k \in Blocks /\ a \in Allocations /\ a \notin live
  BY <1>1, <1>2, <1>4, <1>5, FreshAllocation
<1>7. H!kernelmalloc(b)
  <2>1. outofmemory' = outofmemory /\ ~outofmemory
    <3>1. ~halted' /\ ~halted
      BY <1>1
    <3> QED
      BY <3>1 DEF outofmemory
  <2>2. /\ bitmap' = H!setbitmap(bitmap, k, H!calculateblocks(b), 1)
        /\ live' = live \cup {[mem |-> H!address(k), bytes |-> b]}
        /\ k = H!findFirstFit(bitmap, H!calculateblocks(b))
    BY <1>1, SameLayout, SameSetbitmap, SameFirstFit DEF Allocation
  <2> HIDE DEF k, a
  <2> QED
    BY <1>1, <1>4, <2>1, <2>2, Zenon DEF H!kernelmalloc
<1> HIDE DEF k, a
<1>8. [H!Next]_(H!vars)
  BY <1>5, <1>7, SameLayout DEF H!Next
<1>9. H!IInv'
  BY <1>2, <1>8, ManagerKept
<1>10. /\ cpu'.idt = cpu.idt /\ cpu'.gates = cpu.gates /\ cpu'.intflag = cpu.intflag
       /\ cpu'.vector = cpu.vector /\ cpu'.packet = a /\ cpu'.at = "free"
       /\ cpu' \in Cpus
  <2>1. "free" \in Steps /\ a \in Packets
    BY <1>6, Zenon DEF Steps, InHandler, InNicHandler, Packets
  <2>2. cpu \in Cpus /\ cpu' = [cpu EXCEPT !.packet = a, !.at = "free"]
    BY <1>1, <1>2 DEF Shapes
  <2> QED
    BY <2>1, <2>2, Zenon DEF Cpus
<1>12. Shapes'
  BY <1>1, <1>2, <1>10 DEF Shapes
<1>13. BootOrder'
  BY <1>1, <1>10, HandlerBoot
<1>14. InService'
  <2>1. PICK irq \in Irqs :
          /\ cpu.vector = 32 + irq /\ ~cpu.intflag
          /\ pic.master = {MasterLine(irq)}
          /\ pic.slave = IF irq >= 8 THEN {irq} ELSE {}
    BY <1>1, <1>2, <1>3 DEF InService
  <2>2. /\ cpu'.vector = 32 + irq /\ ~cpu'.intflag
        /\ pic'.master = {MasterLine(irq)}
        /\ pic'.slave = IF irq >= 8 THEN {irq} ELSE {}
    BY <1>1, <1>10, <2>1, Zenon
  <2>3. cpu'.at \in InHandler
    BY <1>10 DEF InHandler, InNicHandler
  <2> QED
    BY <2>2, <2>3, Zenon DEF InService
<1>15. NicQuiet'
  BY <1>1, <1>2, <1>3, <1>10 DEF NicQuiet
<1>16. CallPending'
  BY <1>1, <1>2, <1>3 DEF CallPending, Allocating
<1>17. ReceiveBuffer'
  BY <1>1, <1>2, <1>3, <1>6, <1>10 DEF ReceiveBuffer, AfterBuffers
<1>18. LiveCounted'
  <2>1. IsFiniteSet(live') /\ Cardinality(live') = Cardinality(live) + 1
    BY <1>1, <1>2, <1>6, FS_AddElement DEF LiveCounted
  <2>2. Cardinality(live) = main.pages + 2 /\ main.pages \in Nat
    BY <1>1, <1>2, <1>3 DEF LiveCounted, Shapes, Mains, Buffers, AfterBuffers
  <2>3. Cardinality(live') = main.pages + 2 + 1
    BY <2>1, <2>2
  <2> QED
    BY <1>1, <1>2, <1>3, <1>10, <2>1, <2>3
       DEF LiveCounted, Buffers, BeforeHeap, BeforeSti, AfterBuffers
<1> QED
  BY <1>8, <1>9, <1>12, <1>13, <1>14, <1>15, <1>16, <1>17, <1>18, Zenon DEF IInv

(* The packet that is freed is the one that was allocated. *)
LEMMA ReceiveFreesStep == ASSUME IInv, ReceiveFrees PROVE IInv' /\ [H!Next]_(H!vars)
<1> DEFINE a == cpu.packet
<1>1. /\ ~halted /\ cpu.vector # NoVector /\ cpu.at = "free"
      /\ bitmap' = setbitmap(bitmap, findindex(a.mem), calculateblocks(a.bytes), 0)
      /\ live' = live \ {a}
      /\ cpu' = [cpu EXCEPT !.packet = NoPacket, !.at = "NICISR43handler"]
      /\ UNCHANGED <<ready, halted, main, pic, kbd, pci, nic, recvbuffer>>
  BY DEF ReceiveFrees, Handles
<1>2. /\ Shapes /\ BootOrder /\ InService /\ NicQuiet /\ CallPending
      /\ ReceiveBuffer /\ LiveCounted /\ H!IInv
  BY DEF IInv
<1>3. main.pc = "console" /\ cpu.vector \notin Exceptions /\ cpu.vector = 43
  BY <1>1, NicHandlerRuns, ServesIrq DEF InNicHandler
<1>4. ready
  BY <1>2, <1>3 DEF BootOrder, BeforeHeap, BeforeSti
<1>5. a \in live
  BY <1>1, <1>2 DEF NicQuiet
<1> HIDE DEF a
<1>6. H!kernelfree(a)
  <2>1. outofmemory' = outofmemory /\ ~outofmemory
    <3>1. ~halted' /\ ~halted
      BY <1>1
    <3> QED
      BY <3>1 DEF outofmemory
  <2>2. bitmap' = H!setbitmap(bitmap, H!findindex(a.mem), H!calculateblocks(a.bytes), 0)
    BY <1>1, SameLayout, SameSetbitmap
  <2> QED
    BY <1>1, <1>4, <2>1, <2>2, Zenon DEF H!kernelfree
<1>7. [H!Next]_(H!vars)
  BY <1>5, <1>6 DEF H!Next
<1>8. H!IInv'
  BY <1>2, <1>7, ManagerKept
<1>9. /\ cpu'.idt = cpu.idt /\ cpu'.gates = cpu.gates /\ cpu'.intflag = cpu.intflag
      /\ cpu'.vector = cpu.vector /\ cpu'.packet = NoPacket
      /\ cpu'.at = "NICISR43handler"
      /\ cpu' \in Cpus
  <2>1. "NICISR43handler" \in Steps /\ NoPacket \in Packets
    BY Zenon DEF Steps, InHandler, InNicHandler, Packets
  <2>2. /\ cpu' = [cpu EXCEPT !.packet = NoPacket, !.at = "NICISR43handler"]
        /\ cpu \in Cpus
    BY <1>1, <1>2 DEF Shapes
  <2> QED
    BY <2>1, <2>2, Zenon DEF Cpus
<1>11. Shapes'
  BY <1>1, <1>2, <1>9 DEF Shapes
<1>12. BootOrder'
  BY <1>1, <1>9, HandlerBoot
<1>13. InService'
  <2>1. PICK irq \in Irqs :
          /\ cpu.vector = 32 + irq /\ ~cpu.intflag
          /\ pic.master = {MasterLine(irq)}
          /\ pic.slave = IF irq >= 8 THEN {irq} ELSE {}
    BY <1>1, <1>2, <1>3 DEF InService
  <2>2. /\ cpu'.vector = 32 + irq /\ ~cpu'.intflag
        /\ pic'.master = {MasterLine(irq)}
        /\ pic'.slave = IF irq >= 8 THEN {irq} ELSE {}
    BY <1>1, <1>9, <2>1, Zenon
  <2>3. cpu'.at \in InHandler
    BY <1>9 DEF InHandler, InNicHandler
  <2> QED
    BY <2>2, <2>3, Zenon DEF InService
<1>14. NicQuiet'
  BY <1>1, <1>2, <1>3, <1>9 DEF NicQuiet
<1>15. CallPending'
  BY <1>1, <1>2, <1>3 DEF CallPending, Allocating
<1>16. ReceiveBuffer'
  BY <1>1, <1>2, <1>3, <1>9 DEF ReceiveBuffer, AfterBuffers, a
<1>17. LiveCounted'
  <2>1. IsFiniteSet(live') /\ Cardinality(live') = Cardinality(live) - 1
    BY <1>1, <1>2, <1>5, FS_RemoveElement DEF LiveCounted
  <2>2. Cardinality(live) = main.pages + 2 + 1 /\ main.pages \in Nat
    BY <1>1, <1>2, <1>3 DEF LiveCounted, Shapes, Mains, Buffers, AfterBuffers
  <2>3. Cardinality(live') = main.pages + 2 + 0
    BY <2>1, <2>2
  <2> QED
    BY <1>1, <1>2, <1>3, <1>9, <2>1, <2>3
       DEF LiveCounted, Buffers, BeforeHeap, BeforeSti, AfterBuffers
<1> QED
  BY <1>7, <1>8, <1>11, <1>12, <1>13, <1>14, <1>15, <1>16, <1>17, Zenon DEF IInv

(* The line in service is the only one, so the EOIs leave none. *)
LEMMA FinishedOnly == ASSUME NEW i \in Nat PROVE Finished({i}) = {}
BY DEF Finished

LEMMA EndOfInterruptStep ==
  ASSUME IInv, EndOfInterrupt PROVE IInv' /\ [H!Next]_(H!vars)
<1>1. Shapes /\ InService /\ NicQuiet
  BY DEF IInv
<1>2. /\ cpu.at \in {"EOI", "slave EOI"} /\ cpu.vector # NoVector
      /\ UNCHANGED <<heap, halted, main, kbd, pci, nic, recvbuffer>>
  BY DEF EndOfInterrupt, Handles
<1>3. /\ cpu'.at \in {"slave EOI", "iret"}
      /\ cpu' \in Cpus /\ cpu'.idt = cpu.idt /\ cpu'.gates = cpu.gates
      /\ cpu'.intflag = cpu.intflag /\ cpu'.vector = cpu.vector
      /\ cpu'.packet = cpu.packet
  <2>1. PICK to \in {"slave EOI", "iret"} : cpu' = [cpu EXCEPT !.at = to]
    BY Zenon DEF EndOfInterrupt, Continue
  <2>2. to \in Steps
    BY Zenon DEF Steps
  <2>3. cpu \in Cpus
    BY <1>1 DEF Shapes
  <2> QED
    BY <2>1, <2>2, <2>3, Zenon DEF Cpus
<1>4. cpu.vector \notin Exceptions
  BY <1>2, ServesIrq
<1>5. outofmemory' = outofmemory
  BY <1>2, <1>3 DEF outofmemory
<1>6. /\ [H!Next]_(H!vars)
      /\ H!IInv' /\ CallPending' /\ ReceiveBuffer' /\ LiveCounted'
  BY <1>2, <1>3, <1>4, <1>5, HandlerFrame
<1>7. PICK irq \in Irqs :
        /\ cpu.vector = 32 + irq /\ ~cpu.intflag
        /\ \/ /\ cpu.at \in InHandler
              /\ pic.master = {MasterLine(irq)}
              /\ pic.slave = IF irq >= 8 THEN {irq} ELSE {}
           \/ /\ cpu.at = "slave EOI" /\ irq >= 8
              /\ pic.master = {} /\ pic.slave = {irq}
           \/ cpu.at = "iret" /\ pic.master = {} /\ pic.slave = {}
  BY <1>1, <1>2, <1>4 DEF InService
<1>8. irq \in Nat /\ MasterLine(irq) \in Nat /\ (cpu.vector >= 40 <=> irq >= 8)
  <2>1. irq \in Nat
    BY IrqRange
  <2>2. MasterLine(irq) \in Nat
    BY <2>1 DEF MasterLine
  <2>3. cpu.vector = 32 + irq
    BY <1>7
  <2> QED
    BY <2>1, <2>2, <2>3
<1>9. Finished({irq}) = {} /\ Finished({MasterLine(irq)}) = {}
  BY <1>8, FinishedOnly
<1>10. ASSUME Handles("EOI")
       PROVE  InService' /\ pic' \in Pics /\ pic'.remapped = pic.remapped
  <2>1. cpu.at = "EOI"
    BY <1>10 DEF Handles
  <2>2. /\ pic' = [pic EXCEPT !.master = Finished(@)]
        /\ cpu'.at = (IF cpu.vector >= 40 THEN "slave EOI" ELSE "iret")
    <3> DEFINE to == IF cpu.vector >= 40 THEN "slave EOI" ELSE "iret"
    <3>1. ~Handles("slave EOI")
      BY <2>1 DEF Handles
    <3>2. /\ pic' = [pic EXCEPT !.master = Finished(@)]
          /\ cpu' = [cpu EXCEPT !.at = to]
      BY <3>1, Zenon DEF EndOfInterrupt, Continue
    <3>3. to \in Steps
      BY Zenon DEF Steps
    <3> HIDE DEF to
    <3>4. cpu'.at = to
      <4>1. cpu \in Cpus
        BY <1>1 DEF Shapes
      <4> QED
        BY <3>2, <3>3, <4>1, Zenon DEF Cpus
    <3> QED
      BY <3>2, <3>4 DEF to
  <2>3. /\ pic.master = {MasterLine(irq)}
        /\ pic.slave = IF irq >= 8 THEN {irq} ELSE {}
    BY <1>7, <2>1
  <2>4. /\ pic'.master = {} /\ pic'.slave = (IF irq >= 8 THEN {irq} ELSE {})
        /\ pic'.remapped = pic.remapped /\ pic' \in Pics
    BY <1>1, <1>9, <2>2, <2>3 DEF Shapes, Pics
  <2>5. InService'
    <3>1. cpu'.vector = 32 + irq /\ ~cpu'.intflag
      BY <1>3, <1>7
    <3>2. CASE irq >= 8
      BY <1>8, <2>2, <2>4, <3>1, <3>2 DEF InService
    <3>3. CASE ~(irq >= 8)
      BY <1>8, <2>2, <2>4, <3>1, <3>3 DEF InService
    <3> QED
      BY <3>2, <3>3
  <2> QED
    BY <2>4, <2>5
<1>11. ASSUME Handles("slave EOI")
       PROVE  InService' /\ pic' \in Pics /\ pic'.remapped = pic.remapped
  <2>1. cpu.at = "slave EOI"
    BY <1>11 DEF Handles
  <2>2. pic' = [pic EXCEPT !.slave = Finished(@)] /\ cpu'.at = "iret"
    <3>1. ~Handles("EOI")
      BY <2>1 DEF Handles
    <3>2. /\ pic' = [pic EXCEPT !.slave = Finished(@)]
          /\ cpu' = [cpu EXCEPT !.at = "iret"]
      BY <3>1, Zenon DEF EndOfInterrupt, Continue
    <3>3. "iret" \in Steps
      BY Zenon DEF Steps
    <3>4. cpu \in Cpus
      BY <1>1 DEF Shapes
    <3> QED
      BY <3>2, <3>3, <3>4, Zenon DEF Cpus
  <2>3. pic.master = {} /\ pic.slave = {irq}
    BY <1>7, <2>1 DEF InHandler, InNicHandler
  <2>4. /\ pic'.master = {} /\ pic'.slave = {}
        /\ pic'.remapped = pic.remapped /\ pic' \in Pics
    BY <1>1, <1>9, <2>2, <2>3 DEF Shapes, Pics
  <2>5. InService'
    BY <1>3, <1>7, <2>2, <2>4 DEF InService
  <2> QED
    BY <2>4, <2>5
<1>12. /\ InService' /\ pic' \in Pics /\ pic'.remapped = pic.remapped
  BY <1>10, <1>11 DEF EndOfInterrupt
<1>13. BootOrder'
  BY <1>2, <1>3, <1>12, HandlerBoot DEF heap
<1>14. Shapes'
  BY <1>1, <1>2, <1>3, <1>12 DEF Shapes
<1>15. NicQuiet'
  BY <1>1, <1>2, <1>3 DEF NicQuiet, InNicHandler, heap
<1> QED
  BY <1>6, <1>12, <1>13, <1>14, <1>15, Zenon DEF IInv

LEMMA IretStep == ASSUME IInv, Iret PROVE IInv' /\ [H!Next]_(H!vars)
<1>1. Shapes /\ InService /\ NicQuiet
  BY DEF IInv
<1>2. /\ cpu.at = "iret" /\ cpu.vector # NoVector
      /\ cpu' = [cpu EXCEPT !.intflag = TRUE, !.vector = NoVector, !.at = "none",
                            !.status = {}]
      /\ UNCHANGED <<heap, halted, main, pic, kbd, pci, nic, recvbuffer>>
  BY DEF Iret, Handles
<1>3. cpu.vector \notin Exceptions /\ cpu.vector >= 32
  BY <1>2, ServesIrq
<1>4. /\ cpu'.idt = cpu.idt /\ cpu'.gates = cpu.gates /\ cpu'.packet = cpu.packet
      /\ cpu'.vector = NoVector /\ cpu'.at = "none" /\ cpu' \in Cpus
  <2>1. "none" \in Steps /\ NoVector \in Vectors /\ {} \in Statuses
    BY Zenon DEF Steps, Vectors, Statuses
  <2>2. cpu \in Cpus
    BY <1>1 DEF Shapes
  <2> QED
    BY <1>2, <2>1, <2>2, Zenon DEF Cpus
<1>6. NoVector \notin Exceptions
  BY KernelAssumption DEF NoVector
<1>7. outofmemory' = outofmemory
  BY <1>2, <1>3, <1>4, <1>6 DEF outofmemory
<1>8. /\ [H!Next]_(H!vars)
      /\ H!IInv' /\ CallPending' /\ ReceiveBuffer' /\ LiveCounted'
  BY <1>2, <1>3, <1>4, <1>7, HandlerFrame
<1>9. BootOrder'
  BY <1>2, <1>3, <1>4, HandlerBoot DEF heap
<1>10. Shapes'
  BY <1>1, <1>2, <1>4 DEF Shapes
<1>11. pic.master = {} /\ pic.slave = {}
  BY <1>1, <1>2, <1>3 DEF InService, InHandler, InNicHandler
<1>12. InService'
  BY <1>2, <1>4, <1>11 DEF InService
<1>13. NicQuiet'
  BY <1>1, <1>2, <1>4 DEF NicQuiet, InNicHandler, heap
<1> QED
  BY <1>8, <1>9, <1>10, <1>12, <1>13, Zenon DEF IInv

-----------------------------------------------------------------------------
LEMMA NextStep == IInv /\ [Next]_vars => IInv' /\ [H!Next]_(H!vars)
<1> SUFFICES ASSUME IInv, [Next]_vars PROVE IInv' /\ [H!Next]_(H!vars)
  OBVIOUS
<1>1. CASE kernel_main
  BY <1>1, KernelMainStep
<1>2. CASE \E irq \in Irqs : Accept(irq)
  BY <1>2, AcceptStep
<1>3. CASE ISRHANDLER
  <2>1. CASE NICISR43handler
    BY <2>1, ReadStatusStep, AcknowledgeStep, ReceiveFailsStep, ReceiveCopiesStep,
       ReceiveFreesStep DEF NICISR43handler
  <2> QED
    BY <1>3, <2>1, HandleExceptionStep, KeyboardHandlerStep, HandleOtherStep,
       EndOfInterruptStep, IretStep DEF ISRHANDLER
<1>4. CASE Devices
  BY <1>4, RaiseStep, KeyPressStep, NicEventStep, ResetDoneStep, ExceptStep DEF Devices
<1>5. CASE UNCHANGED vars
  BY <1>5, StutterStep
<1> QED
  BY <1>1, <1>2, <1>3, <1>4, <1>5 DEF Next

LEMMA AlwaysIInv == Spec => []IInv
<1>1. Init => IInv
  BY InitIInv
<1>2. IInv /\ [Next]_vars => IInv'
  BY NextStep
<1> QED
  BY <1>1, <1>2, PTL DEF Spec

(* Every variable keeps its type, however many interrupts come in. *)
THEOREM TypeCorrect == Spec => []TypeOK
BY ShapesType, AlwaysIInv, PTL

(* sti follows lidt, the gates and the move of the vectors, so that no line of
   the controllers is ever taken for an exception of the processor. *)
THEOREM GatesBeforeIrqs == Spec => []IrqsReachGates
<1>1. IInv => IrqsReachGates
  <2> SUFFICES ASSUME IInv, cpu.vector # NoVector
               PROVE  /\ cpu.idt /\ cpu.vector \in cpu.gates
                      /\ cpu.vector >= 32 \/ cpu.vector \in Exceptions
    BY DEF IrqsReachGates
  <2>1. cpu.vector \in Vectors
    BY DEF IInv, Shapes, Cpus
  <2>2. cpu.idt /\ cpu.gates = 0 .. 255 /\ cpu.vector \in 0 .. 255
    BY <2>1, Zenon DEF IInv, BootOrder, Vectors
  <2>3. cpu.vector \in Exceptions \/ \E irq \in Irqs : cpu.vector = 32 + irq
    BY DEF IInv, InService
  <2> QED
    BY <2>2, <2>3, IrqRange
<1> QED
  BY <1>1, AlwaysIInv, PTL

(* Every path through ISRHANDLER ends with the EOIs that its vector needs,
   whichever line it was and whatever it interrupted. *)
THEOREM EoisMatch == Spec => []NothingLeftInService
<1>1. IInv => NothingLeftInService
  BY Idle DEF IInv, NothingLeftInService
<1> QED
  BY <1>1, AlwaysIInv, PTL

(* The card writes only to a buffer that is the driver's, and still is however
   many packets have been allocated and freed since. *)
THEOREM DmaOwned == Spec => []DmaIntoOwnBuffer
<1>1. IInv => DmaIntoOwnBuffer
  <2> SUFFICES ASSUME IInv, nic.receiving
               PROVE  \E a \in live : a.mem = nic.rbuf /\ a.bytes >= ReceiveBytes
    BY DEF DmaIntoOwnBuffer
  <2> DEFINE buffer == [mem |-> recvbuffer, bytes |-> ReceiveBytes]
  <2>1. main.pc = "console"
    BY DEF IInv, NicQuiet
  <2>2. buffer \in live /\ nic.rbuf = recvbuffer
    BY <2>1 DEF IInv, ReceiveBuffer, AfterBuffers
  <2>3. ReceiveBytes >= ReceiveBytes
    BY BytesRequested
  <2> QED
    BY <2>2, <2>3
<1> QED
  BY <1>1, AlwaysIInv, PTL

(* However many packets have come in, recvpacket has freed them. *)
THEOREM MemoryReturned == Spec => []HandlersReturnMemory
<1>1. IInv => HandlersReturnMemory
  <2> SUFFICES ASSUME IInv, main.pc = "console", cpu.vector = NoVector
               PROVE  Cardinality(live) = PageTables + 3
    BY DEF HandlersReturnMemory
  <2>1. cpu.at = "none" /\ cpu.vector \notin Exceptions
    BY Idle DEF IInv
  <2>2. main.pages = PageTables + 1 /\ Cardinality(live) = main.pages + 2 + 0
    BY <2>1 DEF IInv, LiveCounted, Buffers, BeforeHeap, BeforeSti, AfterBuffers
  <2> QED
    BY <2>2, KernelAssumption
<1> QED
  BY <1>1, AlwaysIInv, PTL

-----------------------------------------------------------------------------
(* The specification that CallsAtomic names is the one that was proved about. *)
LEMMA SameSpecification ==
  /\ H!Init <=> Heap!Init
  /\ [H!Next]_(H!vars) <=> [Heap!Next]_(Heap!vars)
<1>1. H!Init <=> Heap!Init
  BY DEF H!Init, Heap!Init, H!Bitmaps, Heap!Bitmaps, H!Blocks, Heap!Blocks,
         H!maxblocks, Heap!maxblocks
<1>2. H!physicalmemoryinit <=> Heap!physicalmemoryinit
  BY DEF H!physicalmemoryinit, Heap!physicalmemoryinit, H!initialbitmap,
         Heap!initialbitmap, H!Blocks, Heap!Blocks, H!maxblocks, Heap!maxblocks,
         H!kernelblocks, Heap!kernelblocks
<1>3. ASSUME NEW b \in Requests
      PROVE  H!kernelmalloc(b) <=> Heap!kernelmalloc(b)
  BY Zenon DEF H!kernelmalloc, Heap!kernelmalloc, H!findFirstFit, Heap!findFirstFit,
         H!Fits, Heap!Fits, H!setbitmap, Heap!setbitmap, H!address, Heap!address,
         H!findoffset, Heap!findoffset, H!calculateblocks, Heap!calculateblocks,
         H!Blocks, Heap!Blocks, H!maxblocks, Heap!maxblocks
<1>4. ASSUME NEW a \in live
      PROVE  H!kernelfree(a) <=> Heap!kernelfree(a)
  BY Zenon DEF H!kernelfree, Heap!kernelfree, H!findindex, Heap!findindex,
         H!setbitmap, Heap!setbitmap, H!calculateblocks, Heap!calculateblocks,
         H!Blocks, Heap!Blocks, H!maxblocks, Heap!maxblocks
<1>5. H!Next <=> Heap!Next
  BY <1>2, <1>3, <1>4 DEF H!Next, Heap!Next
<1> QED
  BY <1>1, <1>5 DEF H!vars, Heap!vars

(* kernel_main's interruptible calls of the memory manager, and those of the
   card's handler between them, implement PhysicalMemory, where a call is one
   step: what was proved there holds of the running kernel. *)
THEOREM CallsAreAtomic == Spec => CallsAtomic
<1>1. Init => Heap!Init
  BY InitIInv, SameSpecification
<1>2. IInv /\ [Next]_vars => [Heap!Next]_(Heap!vars)
  BY NextStep, SameSpecification
<1> QED
  BY <1>1, <1>2, AlwaysIInv, PTL DEF Spec, Heap!Spec, CallsAtomic
=============================================================================
