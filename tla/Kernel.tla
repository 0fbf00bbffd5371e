------------------------------- MODULE Kernel -------------------------------
(***************************************************************************)
(* kernel_main from its first line to the console loop, with the interrupt *)
(* handlers that may run between any two of its steps once it has executed *)
(* sti, and the hardware around them: the two interrupt controllers, the   *)
(* keyboard's output buffer, the latch of the PCI configuration ports and  *)
(* the interrupt and DMA side of the network card.                         *)
(*                                                                         *)
(* The memory manager is that of PhysicalMemory, except that kernel_main   *)
(* is interruptible inside kernelmalloc: findFirstFit and setbitmap are    *)
(* two steps.  Printing has no effect on any of this and is left out, and  *)
(* so are the page tables: they map every address to itself.               *)
(***************************************************************************)
EXTENDS HeapLayout, FiniteSets

CONSTANTS
  PageTables,      \* page tables that virtualinit allocates (4 in the code)
  InitialBitmaps,  \* what the uncleared .bss may hold
  PacketLengths,   \* lengths in the headers of received packets
  OtherIrqs,       \* lines that nothing but the EOI answers
  Exceptions,      \* exceptions that the processor may raise
  CommandLength,   \* keystrokes of the command "devices" (7)
  MaxRaises,       \* bound on interrupts of the timer and of OtherIrqs
  MaxKeys,         \* bound on key presses
  MaxPackets       \* bound on status events of the card

ASSUME KernelAssumption ==
  /\ PageTables \in Nat /\ CommandLength \in Nat
  /\ MaxRaises \in Nat /\ MaxKeys \in Nat /\ MaxPackets \in Nat
  /\ InitialBitmaps \subseteq Bitmaps
  /\ PacketLengths \subseteq Requests
  /\ OtherIrqs \subseteq 3 .. 15
  /\ Exceptions \subseteq 0 .. 31

VARIABLES
  bitmap, ready, live,   \* as in PhysicalMemory
  halted,                \* panic: cli and hlt
  main,   \* kernel_main: its next statement pc, inside kernelmalloc the flag
          \* searched and index, and the count pages of virtualinit
  cpu,    \* the interrupt flag, whether the IDT is loaded, the vectors whose
          \* gate is present, the vector being handled, its handler's place at,
          \* and the handler's locals status and packet
  pic,    \* latched edges irr, in-service registers master and slave, whether
          \* the vectors have been moved away from the BIOS's, raises so far
  kbd,    \* output buffer, letters of "devices" typed, key presses so far, and
          \* the controller's configuration byte
  pci,    \* address port latch, the card's command register, local t
  nic,    \* RST bit of RCMD, RBSTART register, interrupt mask, receiver enabled,
          \* interrupt status, status events so far
  recvbuffer             \* the driver's pointer

heap == <<bitmap, ready, live>>
vars == <<heap, halted, main, cpu, pic, kbd, pci, nic, recvbuffer>>

NoVector == -1
NicIrq == 11
Irqs == {0, 1, NicIrq} \cup OtherIrqs

(* Bits of a PCI command register, and of the card's status. *)
CommandBits == {"io", "memory", "master", "rest"}
StatusBits == {"ROK", "RXOVW"}

(* Of the keyboard controller's configuration byte: bits 0, 4 and 6. *)
ConfigBits == {"interrupt", "disabled", "translation"}

ReceiveBytes == 8192 + 16 + 1500
TransmitBytes == 1536
PageBytes == 4096

ASSUME SizeAssumption == {ReceiveBytes, TransmitBytes, PageBytes} \subseteq Requests

Allocation(index, bytes) == [mem |-> address(index), bytes |-> bytes]
NoPacket == [mem |-> 0, bytes |-> 0]

Init ==
  /\ bitmap \in InitialBitmaps /\ ready = FALSE /\ live = {} /\ halted = FALSE
  /\ main = [pc |-> "initIDT", searched |-> FALSE, index |-> 0, pages |-> 0]
  /\ cpu = [intflag |-> FALSE, idt |-> FALSE, gates |-> {}, vector |-> NoVector,
            at |-> "none", status |-> {}, packet |-> NoPacket]
  /\ pic = [irr |-> {}, master |-> {}, slave |-> {}, remapped |-> FALSE,
            raises |-> 0]
  /\ \E bit \in {"interrupt", "disabled"} :
       kbd = [buffer |-> "empty", typed |-> 0, keys |-> 0,
              config |-> {"translation", bit}]
  /\ pci = [latch |-> "absent", command |-> {"io", "memory"}, t |-> {}]
  /\ nic = [resetting |-> FALSE, rbuf |-> 0, mask |-> {}, receiving |-> FALSE,
            isr |-> {}, events |-> 0]
  /\ recvbuffer = 0

-----------------------------------------------------------------------------
(* kernel_main.  It runs when no handler does.  instalTSS, its first call, has
   no effect on what is modelled. *)

At(place) == ~halted /\ cpu.vector = NoVector /\ main.pc = place
Goto(place) == main' = [main EXCEPT !.pc = place]

initIDT ==
  /\ At("initIDT") /\ Goto("ISR_init")
  /\ cpu' = [cpu EXCEPT !.idt = TRUE]
  /\ UNCHANGED <<heap, halted, pic, kbd, pci, nic, recvbuffer>>

(* Every entry is set, then made present. *)
ISR_init ==
  /\ At("ISR_init") /\ Goto("PICremap")
  /\ cpu' = [cpu EXCEPT !.gates = 0 .. 255]
  /\ UNCHANGED <<heap, halted, pic, kbd, pci, nic, recvbuffer>>

(* Mutant: the controllers keep the vectors of the BIOS. *)
PICremapOldVectors ==
  /\ At("PICremap") /\ Goto("keyboardDriver")
  /\ pic' = [pic EXCEPT !.irr = {}, !.master = {}, !.slave = {}]
  /\ UNCHANGED <<heap, halted, cpu, kbd, pci, nic, recvbuffer>>

(* ICW1 forgets the edges that were latched; every line ends up unmasked. *)
PICremap ==
  /\ At("PICremap") /\ Goto("keyboardDriver")
  /\ pic' = [pic EXCEPT !.irr = {}, !.master = {}, !.slave = {}, !.remapped = TRUE]
  /\ UNCHANGED <<heap, halted, cpu, kbd, pci, nic, recvbuffer>>

(* 0xAE has enabled the keyboard by then.  The loop that should empty the buffer
   runs while the status is 0x1, and other bits of the status are always set: a
   scan code that is still there is read in place of the configuration, and
   those of letters and of Enter have no bit 6. *)
ConfigRead == IF kbd.buffer = "empty" THEN kbd.config \ {"disabled"} ELSE {}

(* (byte | 1) & ~0x10 *)
NewConfig(config) == (config \cup {"interrupt"}) \ {"disabled"}

(* Mutant: the data port is not read. *)
keyboardDriverNoRead ==
  /\ At("keyboardDriver") /\ Goto("enableinterrupts")
  /\ IF kbd.buffer = "empty"
     THEN /\ kbd' = [kbd EXCEPT !.buffer = "ack", !.config = NewConfig({})]
          /\ pic' = [pic EXCEPT !.irr = @ \cup {1}]
     ELSE UNCHANGED <<kbd, pic>>
  /\ UNCHANGED <<heap, halted, cpu, pci, nic, recvbuffer>>

(* Takes a byte out of the output buffer; the keyboard acknowledges 0xF4. *)
keyboardDriver ==
  /\ At("keyboardDriver") /\ Goto("enableinterrupts")
  /\ kbd' = [kbd EXCEPT !.buffer = "ack", !.config = NewConfig(ConfigRead)]
  /\ pic' = IF "interrupt" \in kbd'.config THEN [pic EXCEPT !.irr = @ \cup {1}] ELSE pic
  /\ UNCHANGED <<heap, halted, cpu, pci, nic, recvbuffer>>

enableinterrupts ==
  /\ At("enableinterrupts") /\ Goto("physicalmemoryinit")
  /\ cpu' = [cpu EXCEPT !.intflag = TRUE]
  /\ UNCHANGED <<heap, halted, pic, kbd, pci, nic, recvbuffer>>

physicalmemoryinit ==
  /\ At("physicalmemoryinit") /\ Goto("virtualinit")
  /\ bitmap' = initialbitmap
  /\ ready' = TRUE
  /\ UNCHANGED <<live, halted, cpu, pic, kbd, pci, nic, recvbuffer>>

(* A kernelmalloc of kernel_main at its two steps, then back at to. *)
Searches(place, bytes) ==
  /\ At(place) /\ ~main.searched
  /\ main' = [main EXCEPT !.searched = TRUE,
                          !.index = findFirstFit(bitmap, calculateblocks(bytes))]
  /\ UNCHANGED <<heap, halted, recvbuffer>>

(* Mutant: the -1 of findFirstFit is not checked. *)
MarksUnchecked(place, to, bytes) ==
  /\ At(place) /\ main.searched
  /\ bitmap' = setbitmap(bitmap, main.index, calculateblocks(bytes), 1)
  /\ live' = live \cup {Allocation(main.index, bytes)}
  /\ main' = [main EXCEPT !.searched = FALSE, !.pc = to,
                          !.pages = IF place = "virtualinit" THEN @ + 1 ELSE @]
  /\ UNCHANGED <<ready, halted>>

(* Mutant: the place is not the one found, but the block after it. *)
MarksNext(place, to, bytes) ==
  /\ At(place) /\ main.searched /\ main.index # -1
  /\ bitmap' = setbitmap(bitmap, main.index + 1, calculateblocks(bytes), 1)
  /\ live' = live \cup {Allocation(main.index, bytes)}
  /\ main' = [main EXCEPT !.searched = FALSE, !.pc = to,
                          !.pages = IF place = "virtualinit" THEN @ + 1 ELSE @]
  /\ UNCHANGED <<ready, halted>>

Marks(place, to, bytes) ==
  /\ At(place) /\ main.searched /\ main.index # -1
  /\ bitmap' = setbitmap(bitmap, main.index, calculateblocks(bytes), 1)
  /\ live' = live \cup {Allocation(main.index, bytes)}
  /\ main' = [main EXCEPT !.searched = FALSE, !.pc = to,
                          !.pages = IF place = "virtualinit" THEN @ + 1 ELSE @]
  /\ UNCHANGED <<ready, halted>>

MallocFails ==
  /\ At(main.pc) /\ main.searched /\ main.index = -1
  /\ halted' = TRUE
  /\ UNCHANGED <<heap, main, cpu, pic, kbd, pci, nic, recvbuffer>>

(* Mutant: one page too many. *)
virtualinitExtra ==
  /\ \/ Searches("virtualinit", PageBytes)
     \/ /\ Marks("virtualinit",
                 IF main.pages = PageTables + 1 THEN "readpci" ELSE "virtualinit",
                 PageBytes)
        /\ UNCHANGED recvbuffer
  /\ UNCHANGED <<cpu, pic, kbd, pci, nic>>

(* The page tables, then the directory. *)
virtualinit ==
  /\ \/ Searches("virtualinit", PageBytes)
     \/ /\ Marks("virtualinit",
                 IF main.pages = PageTables THEN "readpci" ELSE "virtualinit",
                 PageBytes)
        /\ UNCHANGED recvbuffer
  /\ UNCHANGED <<cpu, pic, kbd, pci, nic>>

-----------------------------------------------------------------------------
(* initNIC.  readpci and writepci write the address port, then use the data
   port for whatever register the latch names by then. *)
PciAddress(place, to) ==
  /\ At(place) /\ Goto(to)
  /\ pci' = [pci EXCEPT !.latch = "nic command"]
  /\ UNCHANGED <<heap, halted, cpu, pic, kbd, nic, recvbuffer>>

(* Nothing answers at an absent device: its registers read as all ones. *)
DataPort == IF pci.latch = "nic command" THEN pci.command ELSE CommandBits

readpci ==
  \/ PciAddress("readpci", "readpci data")
  \/ /\ At("readpci data") /\ Goto("writepci")
     /\ pci' = [pci EXCEPT !.t = DataPort \cup {"master"}]
     /\ UNCHANGED <<heap, halted, cpu, pic, kbd, nic, recvbuffer>>

writepci ==
  \/ PciAddress("writepci", "writepci data")
  \/ /\ At("writepci data") /\ Goto("second readpci")
     /\ pci' = [pci EXCEPT !.command = IF pci.latch = "nic command" THEN pci.t ELSE @]
     /\ UNCHANGED <<heap, halted, cpu, pic, kbd, nic, recvbuffer>>

(* The value that the second readpci returns is not used. *)
secondreadpci == PciAddress("second readpci", "reset")

(* RST: the receiver is off, and no interrupt is enabled or pending.  The card
   clears the bit when it is done (ResetDone); an absent one reads as all ones. *)
reset ==
  /\ At("reset") /\ Goto("RST?")
  /\ nic' = [nic EXCEPT !.resetting = TRUE, !.mask = {}, !.receiving = FALSE,
                        !.isr = {}, !.rbuf = 0]
  /\ UNCHANGED <<heap, halted, cpu, pic, kbd, pci, recvbuffer>>

(* The loop that reads RCMD until the bit is clear has no other way out. *)
pollreset ==
  /\ At("RST?") /\ ~nic.resetting /\ Goto("recvbuffer")
  /\ UNCHANGED <<heap, halted, cpu, pic, kbd, pci, nic, recvbuffer>>

allocaterecvbuffer ==
  /\ \/ Searches("recvbuffer", ReceiveBytes)
     \/ /\ Marks("recvbuffer", "RBUFFER", ReceiveBytes)
        /\ recvbuffer' = address(main.index)
  /\ UNCHANGED <<cpu, pic, kbd, pci, nic>>

(* Mutant: the card is not told where the buffer is. *)
writeRBUFFERSkipped ==
  /\ At("RBUFFER") /\ Goto("transmitbuffer")
  /\ UNCHANGED <<heap, halted, cpu, pic, kbd, pci, nic, recvbuffer>>

writeRBUFFER ==
  /\ At("RBUFFER") /\ Goto("transmitbuffer")
  /\ nic' = [nic EXCEPT !.rbuf = recvbuffer]
  /\ UNCHANGED <<heap, halted, cpu, pic, kbd, pci, recvbuffer>>

allocatetransmitbuffer ==
  /\ \/ Searches("transmitbuffer", TransmitBytes)
     \/ Marks("transmitbuffer", "INTMASK", TransmitBytes) /\ UNCHANGED recvbuffer
  /\ UNCHANGED <<cpu, pic, kbd, pci, nic>>

writeINTMASK ==
  /\ At("INTMASK") /\ Goto("RCMD")
  /\ nic' = [nic EXCEPT !.mask = {"ROK", "TOK"}]
  /\ UNCHANGED <<heap, halted, cpu, pic, kbd, pci, recvbuffer>>

(* Receiver and transmitter on; RCR, just before, says to accept everything. *)
writeRCMD ==
  /\ At("RCMD") /\ Goto("console")
  /\ nic' = [nic EXCEPT !.receiving = TRUE]
  /\ UNCHANGED <<heap, halted, cpu, pic, kbd, pci, recvbuffer>>

initNIC ==
  \/ readpci \/ writepci \/ secondreadpci \/ reset \/ pollreset
  \/ allocaterecvbuffer \/ writeRBUFFER \/ allocatetransmitbuffer
  \/ writeINTMASK \/ writeRCMD

(* The loop that kernel_main ends in only prints the prompt. *)
console ==
  /\ At("console")
  /\ UNCHANGED vars

kernel_main ==
  \/ initIDT \/ ISR_init \/ PICremap \/ keyboardDriver \/ enableinterrupts
  \/ physicalmemoryinit \/ virtualinit \/ initNIC \/ MallocFails \/ console

-----------------------------------------------------------------------------
(* Interrupt delivery.  The card's line is held while an enabled status bit
   is set; the other lines are edges, latched in irr. *)
Pending == pic.irr \cup (IF nic.isr \cap nic.mask = {} THEN {} ELSE {NicIrq})

MasterLine(irq) == IF irq < 8 THEN irq ELSE 2

(* No request of the same or a higher priority is in service or pending. *)
Deliverable(irq) ==
  /\ irq \in Pending
  /\ \A m \in pic.master : MasterLine(irq) < m
  /\ irq >= 8 => \A s \in pic.slave : irq < s
  /\ \A q \in Pending : \/ MasterLine(irq) < MasterLine(q)
                        \/ MasterLine(irq) = MasterLine(q) /\ irq <= q

VectorOf(irq) ==
  IF pic.remapped THEN 32 + irq ELSE IF irq < 8 THEN 8 + irq ELSE 104 + irq

(* The gates are interrupt gates: the flag is cleared on the way in.  The
   stubs of ISR.asm save the registers and hand the vector to ISRHANDLER. *)
Accept(irq) ==
  /\ ~halted /\ cpu.intflag /\ cpu.vector = NoVector
  /\ Deliverable(irq)
  /\ pic' = [pic EXCEPT !.irr = @ \ {irq},
                        !.master = @ \cup {MasterLine(irq)},
                        !.slave = IF irq < 8 THEN @ ELSE @ \cup {irq}]
  /\ cpu' = [cpu EXCEPT !.intflag = FALSE, !.vector = VectorOf(irq),
                        !.at = "ISRHANDLER"]
  /\ UNCHANGED <<heap, halted, main, kbd, pci, nic, recvbuffer>>

-----------------------------------------------------------------------------
(* ISRHANDLER. *)

Handles(place) == ~halted /\ cpu.vector # NoVector /\ cpu.at = place
Continue(place) == cpu' = [cpu EXCEPT !.at = place]

HandleException ==
  /\ Handles("ISRHANDLER") /\ cpu.vector < 32
  /\ halted' = TRUE
  /\ UNCHANGED <<heap, main, cpu, pic, kbd, pci, nic, recvbuffer>>

(* Enter runs the command that has been typed: enumeratedevices leaves the
   latch at the last device of the last bus, where nothing is. *)
keyboardHandler ==
  /\ Handles("ISRHANDLER") /\ cpu.vector = 33 /\ Continue("EOI")
  /\ kbd' = [kbd EXCEPT !.buffer = "empty",
                        !.typed = CASE kbd.buffer = "enter" -> 0
                                    [] kbd.buffer = "letter" /\ @ < CommandLength -> @ + 1
                                    [] OTHER -> @]
  /\ pci' = IF kbd.buffer = "enter" /\ kbd.typed = CommandLength
            THEN [pci EXCEPT !.latch = "absent"] ELSE pci
  /\ UNCHANGED <<heap, halted, main, pic, nic, recvbuffer>>

HandleOther ==
  /\ Handles("ISRHANDLER") /\ cpu.vector >= 32 /\ cpu.vector \notin {33, 43}
  /\ Continue("EOI")
  /\ UNCHANGED <<heap, halted, main, pic, kbd, pci, nic, recvbuffer>>

(* NICISR43handler reads the status until there is none, ... *)
ReadStatus ==
  /\ \/ Handles("ISRHANDLER") /\ cpu.vector = 43
     \/ Handles("NICISR43handler")
  /\ cpu' = [cpu EXCEPT !.status = nic.isr,
                        !.at = IF nic.isr = {} THEN "EOI" ELSE "acknowledge"]
  /\ UNCHANGED <<heap, halted, main, pic, kbd, pci, nic, recvbuffer>>

(* ... writes it back, which clears what was read, and receives on ROK. *)
Acknowledge ==
  /\ Handles("acknowledge")
  /\ nic' = [nic EXCEPT !.isr = @ \ cpu.status]
  /\ Continue(IF cpu.status = {"ROK"} THEN "recvpacket" ELSE "NICISR43handler")
  /\ UNCHANGED <<heap, halted, main, pic, kbd, pci, recvbuffer>>

(* recvpacket: a copy of the packet is allocated, dispatched and freed. *)
ReceiveFails(bytes) ==
  /\ Handles("recvpacket")
  /\ findFirstFit(bitmap, calculateblocks(bytes)) = -1
  /\ halted' = TRUE
  /\ UNCHANGED <<heap, main, cpu, pic, kbd, pci, nic, recvbuffer>>

ReceiveCopies(bytes) ==
  LET blocks == calculateblocks(bytes)
      index  == findFirstFit(bitmap, blocks)
  IN  /\ Handles("recvpacket") /\ index # -1
      /\ bitmap' = setbitmap(bitmap, index, blocks, 1)
      /\ live' = live \cup {Allocation(index, bytes)}
      /\ cpu' = [cpu EXCEPT !.packet = Allocation(index, bytes), !.at = "free"]
      /\ UNCHANGED <<ready, halted, main, pic, kbd, pci, nic, recvbuffer>>

(* Mutant: the packet is not freed. *)
ReceiveFreesNot ==
  /\ Handles("free")
  /\ cpu' = [cpu EXCEPT !.packet = NoPacket, !.at = "NICISR43handler"]
  /\ UNCHANGED <<heap, halted, main, pic, kbd, pci, nic, recvbuffer>>

ReceiveFrees ==
  /\ Handles("free")
  /\ bitmap' = setbitmap(bitmap, findindex(cpu.packet.mem),
                         calculateblocks(cpu.packet.bytes), 0)
  /\ live' = live \ {cpu.packet}
  /\ cpu' = [cpu EXCEPT !.packet = NoPacket, !.at = "NICISR43handler"]
  /\ UNCHANGED <<ready, halted, main, pic, kbd, pci, nic, recvbuffer>>

NICISR43handler ==
  \/ ReadStatus \/ Acknowledge
  \/ \E n \in PacketLengths : ReceiveFails(n) \/ ReceiveCopies(n)
  \/ ReceiveFrees

(* A non-specific EOI ends the service of the highest priority. *)
Finished(inservice) == inservice \ {i \in inservice : \A j \in inservice : i <= j}

(* Mutant: the slave's vectors are taken to start at 48. *)
EndOfInterruptLate ==
  \/ /\ Handles("EOI")
     /\ pic' = [pic EXCEPT !.master = Finished(@)]
     /\ Continue(IF cpu.vector >= 48 THEN "slave EOI" ELSE "iret")
     /\ UNCHANGED <<heap, halted, main, kbd, pci, nic, recvbuffer>>
  \/ /\ Handles("slave EOI")
     /\ pic' = [pic EXCEPT !.slave = Finished(@)]
     /\ Continue("iret")
     /\ UNCHANGED <<heap, halted, main, kbd, pci, nic, recvbuffer>>

(* The master is told first, the slave when the vector is one of its own. *)
EndOfInterrupt ==
  \/ /\ Handles("EOI")
     /\ pic' = [pic EXCEPT !.master = Finished(@)]
     /\ Continue(IF cpu.vector >= 40 THEN "slave EOI" ELSE "iret")
     /\ UNCHANGED <<heap, halted, main, kbd, pci, nic, recvbuffer>>
  \/ /\ Handles("slave EOI")
     /\ pic' = [pic EXCEPT !.slave = Finished(@)]
     /\ Continue("iret")
     /\ UNCHANGED <<heap, halted, main, kbd, pci, nic, recvbuffer>>

(* The end of ISRCOMMON: the interrupted program has its flag back. *)
Iret ==
  /\ Handles("iret")
  /\ cpu' = [cpu EXCEPT !.intflag = TRUE, !.vector = NoVector, !.at = "none",
                        !.status = {}]
  /\ UNCHANGED <<heap, halted, main, pic, kbd, pci, nic, recvbuffer>>

ISRHANDLER ==
  \/ HandleException \/ keyboardHandler \/ HandleOther \/ NICISR43handler
  \/ EndOfInterrupt \/ Iret

-----------------------------------------------------------------------------
(* The devices. *)

(* An exception is taken whether or not the flag is set; its handler does not
   return.  Without gates the machine would reset, which is not modelled. *)
Except(v) ==
  /\ ~halted /\ cpu.idt /\ cpu.gates # {}
  /\ cpu.vector \notin Exceptions
  /\ cpu' = [cpu EXCEPT !.intflag = FALSE, !.vector = v, !.at = "ISRHANDLER"]
  /\ UNCHANGED <<heap, halted, main, pic, kbd, pci, nic, recvbuffer>>

(* The timer, and lines that no driver of the kernel listens to. *)
Raise(irq) ==
  /\ pic.raises < MaxRaises
  /\ pic' = [pic EXCEPT !.irr = @ \cup {irq}, !.raises = @ + 1]
  /\ UNCHANGED <<heap, halted, main, cpu, kbd, pci, nic, recvbuffer>>

KeyPress(key) ==
  /\ kbd.buffer = "empty" /\ kbd.keys < MaxKeys /\ "disabled" \notin kbd.config
  /\ kbd' = [kbd EXCEPT !.buffer = key, !.keys = @ + 1]
  /\ pic' = IF "interrupt" \in kbd.config THEN [pic EXCEPT !.irr = @ \cup {1}] ELSE pic
  /\ UNCHANGED <<heap, halted, main, cpu, pci, nic, recvbuffer>>

(* The receiver has put a packet into the buffer, or found no room for it. *)
NicEvent(bit) ==
  /\ nic.receiving /\ nic.events < MaxPackets
  /\ nic' = [nic EXCEPT !.isr = @ \cup {bit}, !.events = @ + 1]
  /\ UNCHANGED <<heap, halted, main, cpu, pic, kbd, pci, recvbuffer>>

(* Nothing says when, or whether at all. *)
ResetDone ==
  /\ nic.resetting
  /\ nic' = [nic EXCEPT !.resetting = FALSE]
  /\ UNCHANGED <<heap, halted, main, cpu, pic, kbd, pci, recvbuffer>>

Devices ==
  \/ \E irq \in {0} \cup OtherIrqs : Raise(irq)
  \/ \E key \in {"letter", "enter"} : KeyPress(key)
  \/ ResetDone
  \/ \E bit \in StatusBits : NicEvent(bit)
  \/ \E v \in Exceptions : Except(v)

Next ==
  \/ kernel_main
  \/ \E irq \in Irqs : Accept(irq)
  \/ ISRHANDLER
  \/ Devices

Spec == Init /\ [][Next]_vars

(* The processor goes on executing, and takes an interrupt that is there for
   it.  The bounds make the interrupts end: the real ones are rarer than their
   handlers are long, but nothing in the code keeps a flood of them from
   starving kernel_main and the lines of lower priority. *)
Fairness ==
  /\ WF_vars(ISRHANDLER)
  /\ WF_vars(kernel_main)
  /\ \A irq \in Irqs : WF_vars(Accept(irq))

FairSpec == Spec /\ Fairness
-----------------------------------------------------------------------------
(* Every variable has its type; the IDT has either no entry or all of them. *)
TypeOK ==
  /\ bitmap \in Bitmaps /\ ready \in BOOLEAN /\ halted \in BOOLEAN
  /\ live \subseteq [mem : {address(i) : i \in Blocks}, bytes : Requests]
  /\ main.searched \in BOOLEAN /\ main.index \in Blocks \cup {0, -1}
  /\ main.pages \in 0 .. PageTables + 1
  /\ cpu.intflag \in BOOLEAN /\ cpu.idt \in BOOLEAN /\ cpu.gates \in {{}, 0 .. 255}
  /\ cpu.vector \in {NoVector} \cup 0 .. 255
  /\ cpu.status \subseteq StatusBits /\ cpu.packet \in live \cup {NoPacket}
  /\ pic.irr \subseteq Irqs /\ pic.master \subseteq 0 .. 7
  /\ pic.slave \subseteq 8 .. 15 /\ pic.remapped \in BOOLEAN /\ pic.raises \in 0 .. MaxRaises
  /\ kbd.buffer \in {"empty", "letter", "enter", "ack"}
  /\ kbd.typed \in 0 .. CommandLength /\ kbd.keys \in 0 .. MaxKeys
  /\ kbd.config \subseteq ConfigBits
  /\ pci.latch \in {"absent", "nic command"}
  /\ pci.command \subseteq CommandBits /\ pci.t \subseteq CommandBits
  /\ nic.mask \subseteq {"ROK", "TOK"} /\ nic.isr \subseteq StatusBits
  /\ {nic.resetting, nic.receiving} \subseteq BOOLEAN /\ nic.events \in 0 .. MaxPackets

(* A hardware interrupt reaches a gate that is present, at a vector past the
   processor's exceptions: the timer is never taken for a double fault
   (kernel.c orders ISR_init and PICremap before sti). *)
IrqsReachGates ==
  cpu.vector # NoVector => /\ cpu.idt /\ cpu.vector \in cpu.gates
                           /\ cpu.vector >= 32 \/ cpu.vector \in Exceptions

(* While the card may write to memory, it writes to a buffer that the memory
   manager has given to the driver and to nobody else, as large as the ring
   with its overhang (rtl8139.c:46 before :65). *)
DmaIntoOwnBuffer ==
  nic.receiving => \E a \in live : a.mem = nic.rbuf /\ a.bytes >= ReceiveBytes

(* When no handler runs, no interrupt is in service, so no line is blocked
   for good: each path of ISRHANDLER ends with the EOIs its vector needs. *)
NothingLeftInService ==
  cpu.vector = NoVector => pic.master = {} /\ pic.slave = {}

(* Once the kernel is in its console loop, what is allocated is the page
   tables, the directory and the card's two buffers, however many packets
   have come in: recvpacket frees what it allocates. *)
HandlersReturnMemory ==
  main.pc = "console" /\ cpu.vector = NoVector => Cardinality(live) = PageTables + 3

(* The calls of the memory manager are as if each were one step: although
   sti precedes physicalmemoryinit and every kernelmalloc of kernel_main, no
   handler leaves an allocation behind between the search of such a call and
   its marking. *)
outofmemory == halted /\ cpu.vector \notin Exceptions
Heap == INSTANCE PhysicalMemory WITH halted <- outofmemory
CallsAtomic == Heap!Spec

(* PCI.c:3, "Read/write data to/from PCI->bus->device->function->offset", and
   rtl8139.c:24, "writing the command back to the register": when the card is
   made to receive, writepci has made it a bus master. *)
BusMasterSet == nic.receiving => "master" \in pci.command

(* The boot ends in the console loop, whatever interrupts come in between, unless
   the card never says that its reset is done: then it ends in polling RCMD, and
   nowhere else (rtl8139.c:41). *)
BootCompletes ==
  <>(main.pc = "console") \/ <>[](main.pc = "RST?" /\ nic.resetting)

(* A latched edge is delivered, and a status bit of the card is acknowledged
   when it is one of those that interrupt, unless there is no room for a packet
   and the kernel panics. *)
InterruptsServed ==
  /\ \A irq \in Irqs : irq \in pic.irr ~> irq \notin pic.irr \/ halted
  /\ "ROK" \in nic.isr ~> "ROK" \notin nic.isr \/ halted

(* A scan code never stays in the output buffer, where it would keep every
   later one out, short of a panic: one that the BIOS's vectors missed, and whose
   edge PICremap has forgotten, is taken by keyboardDriver. *)
KeysTaken == kbd.buffer # "empty" ~> kbd.buffer = "empty" \/ halted
=============================================================================
