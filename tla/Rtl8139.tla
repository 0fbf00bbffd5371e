------------------------------ MODULE Rtl8139 ------------------------------
(***************************************************************************)
(* Receiving with Kernel/Network/rtl8139.c, from the moment initNIC has    *)
(* switched the receiver on: the card writes packets into a ring, the      *)
(* driver's interrupt handler reads them, and the two share the interrupt  *)
(* status register and the read pointer CAPR.  Only the card runs between  *)
(* the steps of the handler, which has interrupts disabled.                *)
(*                                                                         *)
(* Offsets and lengths are the real ones, in bytes.  A packet in the ring  *)
(* is a header of four bytes and length bytes of data, CRC included; what  *)
(* is read as a header where none is may be any of JunkLengths.            *)
(***************************************************************************)
EXTENDS HeapLayout, Sequences

CONSTANTS
  RecBufferSize,   \* RECBUFFERSIZE; the card has rings of 8, 16, 32 and 64 KB
  Lengths,         \* lengths of the packets that come in, CRC included
  JunkLengths,     \* what bytes that are not a header may say as a length
  MaxPackets       \* bound on the packets that come in

ASSUME RingAssumption ==
  /\ RecBufferSize \in Nat /\ RecBufferSize >= 8192
  /\ RecBufferSize % 4 = 0 /\ 65536 % RecBufferSize = 0

(* The ring is of whole blocks, and a block is longer than a packet. *)
ASSUME BlockAssumption ==
  RecBufferSize % BlockSize = 0 /\ BlockSize >= 1518

(* What sixteen bits hold. *)
uint16 == {n \in Nat : n < 65536}

ASSUME PacketAssumption ==
  /\ \A length \in Lengths : length \in Nat /\ length <= 1518
  /\ JunkLengths \subseteq uint16
  /\ MaxPackets \in Nat

VARIABLES
  ring,         \* packets intact in the buffer: records [at, length, id]
  cbr,          \* where the card writes the next one
  readpointer,  \* where the card believes the driver to read
  isr,          \* interrupt status register
  arrived,      \* packets that have come in
  accepted,     \* ids of those that are or were in the ring, in order
  merged,       \* packets whose ROK was set already: one bit stands for several
  mixed,        \* ROKs that were acknowledged together with another bit
  at,           \* place in NICISR43handler, "idle" outside
  status, packetlength, packet,  \* locals: the packet read is an id or "junk"
  curpacket,    \* the driver's offset into the ring
  dispatched    \* what ethernethandlerecv has been given, in order

card == <<ring, cbr, readpointer, isr, arrived, accepted, merged, mixed>>
driver == <<at, status, packetlength, packet, curpacket, dispatched>>
vars == <<card, driver>>

Junk == 0    \* in place of an id: the bytes are no packet

(* The mask that initNIC writes: receive and transmit OK. *)
IntMask == {"ROK", "TOK"}

Init ==
  /\ ring = {} /\ cbr = 0 /\ readpointer = 0 /\ isr = {}
  /\ arrived = 0 /\ accepted = <<>> /\ merged = 0 /\ mixed = 0
  /\ at = "idle" /\ status = {} /\ packetlength = 0 /\ packet = Junk
  /\ curpacket = 0 /\ dispatched = <<>>

(* Mutant: no rounding. *)
AlignedNot(x) == x

(* x & RPMASK *)
Aligned(x) == x - (x % 4)

(* Mutant: the ring without the overhang that WRAP needs. *)
recvbufferBytesRing == RecBufferSize

recvbufferBytes == RecBufferSize + 16 + 1500

-----------------------------------------------------------------------------
(* The card.  It counts the room from cbr up to the read pointer, takes equal
   pointers for an empty ring, and with WRAP set writes a packet past the end
   of the ring rather than in two parts. *)

Size(length) == Aligned(length + 4 + 3)
RoomFor(length) ==
  LET room == (readpointer - cbr) % RecBufferSize
  IN  room = 0 \/ Size(length) < room

Overlap(p, from, length) ==
  p.at < from + 4 + length /\ from < p.at + 4 + p.length

Receive(length) ==
  /\ arrived < MaxPackets /\ RoomFor(length)
  /\ arrived' = arrived + 1
  /\ ring' = {p \in ring : ~Overlap(p, cbr, length)}
               \cup {[at |-> cbr, length |-> length, id |-> arrived']}
  /\ cbr' = (cbr + Size(length)) % RecBufferSize
  /\ isr' = isr \cup {"ROK"}
  /\ accepted' = Append(accepted, arrived')
  /\ merged' = IF "ROK" \in isr THEN merged + 1 ELSE merged
  /\ UNCHANGED <<readpointer, mixed, driver>>

Overflow(length) ==
  /\ arrived < MaxPackets /\ ~RoomFor(length)
  /\ arrived' = arrived + 1
  /\ isr' = isr \cup {"RXOVW"}
  /\ UNCHANGED <<ring, cbr, readpointer, accepted, merged, mixed, driver>>

-----------------------------------------------------------------------------
(* The driver. *)

Interrupt ==
  /\ at = "idle" /\ isr \cap IntMask # {}
  /\ at' = "INTSTATUS"
  /\ UNCHANGED <<card, status, packetlength, packet, curpacket, dispatched>>

ReadStatus ==
  /\ at = "INTSTATUS"
  /\ status' = isr
  /\ at' = IF isr = {} THEN "idle" ELSE "acknowledge"
  /\ UNCHANGED <<card, packetlength, packet, curpacket, dispatched>>

(* Mutant: the status is not written back. *)
AcknowledgeNot ==
  /\ at = "acknowledge"
  /\ at' = IF status = {"ROK"} THEN "recvpacket" ELSE "INTSTATUS"
  /\ UNCHANGED <<card, status, packetlength, packet, curpacket, dispatched>>

(* Mutant: only the bit that the driver looks for is written back. *)
AcknowledgeReceive ==
  /\ at = "acknowledge"
  /\ isr' = isr \ (status \cap {"ROK"})
  /\ at' = IF status = {"ROK"} THEN "recvpacket" ELSE "INTSTATUS"
  /\ mixed' = IF "ROK" \in status /\ status # {"ROK"} THEN mixed + 1 ELSE mixed
  /\ UNCHANGED <<ring, cbr, readpointer, arrived, accepted, merged, status,
                 packetlength, packet, curpacket, dispatched>>

(* Writing the status back clears what was read; ROK and nothing else is the
   sign for recvpacket. *)
Acknowledge ==
  /\ at = "acknowledge"
  /\ isr' = isr \ status
  /\ at' = IF status = {"ROK"} THEN "recvpacket" ELSE "INTSTATUS"
  /\ mixed' = IF "ROK" \in status /\ status # {"ROK"} THEN mixed + 1 ELSE mixed
  /\ UNCHANGED <<ring, cbr, readpointer, arrived, accepted, merged, status,
                 packetlength, packet, curpacket, dispatched>>

(* Mutant: the four bytes of the header are skipped once too often. *)
HeaderOffsetSkips == 4 * curpacket + 4

(* recvbuffer + curpacket, where recvbuffer points to uint32. *)
HeaderOffset == 4 * curpacket

(* The length is taken from the header. *)
ReadHeader ==
  /\ at = "recvpacket"
  /\ \/ \E p \in ring : /\ p.at = HeaderOffset
                        /\ packetlength' = p.length /\ packet' = p.id
     \/ /\ \A p \in ring : p.at # HeaderOffset
        /\ packetlength' \in JunkLengths /\ packet' = Junk
  /\ at' = "copy"
  /\ UNCHANGED <<card, status, curpacket, dispatched>>

(* The copy is what is at that place now. *)
CopyAndDispatch ==
  /\ at = "copy"
  /\ packet' = IF \E p \in ring : p.at = HeaderOffset /\ p.id = packet
               THEN packet ELSE Junk
  /\ dispatched' = Append(dispatched, packet')
  /\ at' = "advance"
  /\ UNCHANGED <<card, status, packetlength, curpacket>>

(* write16bitport(CAPR, curpacket - 0x10), and what the card makes of it. *)
capr(offset) == (offset - 16) % 65536

Advance ==
  LET next == Aligned(curpacket + packetlength + 4 + 3)
  IN  /\ at = "advance"
      /\ curpacket' = IF next > RecBufferSize THEN next - RecBufferSize ELSE next
      /\ readpointer' = (capr(curpacket') + 16) % RecBufferSize
      /\ at' = "INTSTATUS"
      /\ UNCHANGED <<ring, cbr, isr, arrived, accepted, merged, mixed, status,
                     packetlength, packet, dispatched>>

NICISR43handler ==
  ReadStatus \/ Acknowledge \/ ReadHeader \/ CopyAndDispatch \/ Advance

Next ==
  \/ \E length \in Lengths : Receive(length) \/ Overflow(length)
  \/ Interrupt
  \/ NICISR43handler

Spec == Init /\ [][Next]_vars

-----------------------------------------------------------------------------
(* Every variable has its type. *)
TypeOK ==
  /\ \A p \in ring : /\ p.at \in 0 .. RecBufferSize - 1 /\ p.at % 4 = 0
                     /\ p.length \in Lengths /\ p.id \in 1 .. MaxPackets
  /\ cbr \in 0 .. RecBufferSize - 1 /\ readpointer \in 0 .. RecBufferSize - 1
  /\ isr \subseteq {"ROK", "RXOVW"} /\ status \subseteq {"ROK", "RXOVW"}
  /\ arrived \in 0 .. MaxPackets
  /\ merged \in 0 .. MaxPackets /\ mixed \in 0 .. MaxPackets
  /\ accepted \in Seq(1 .. MaxPackets)
  /\ at \in {"idle", "INTSTATUS", "acknowledge", "recvpacket", "copy", "advance"}
  /\ packetlength \in uint16 /\ packet \in 0 .. MaxPackets
  /\ curpacket \in Nat /\ curpacket % 4 = 0
  /\ dispatched \in Seq(0 .. MaxPackets)

(* A ROK that no handler has taken yet, an overflow likewise, and a call of
   recvpacket that has not dispatched anything yet. *)
waiting == IF "ROK" \in isr THEN 1 ELSE 0
overflowing == IF "RXOVW" \in isr THEN 1 ELSE 0
called == IF at \in {"recvpacket", "copy"} THEN 1 ELSE 0

(* recvpacket is called, and dispatches something, exactly once for each ROK
   that was set by a packet and acknowledged without another bit
   (rtl8139.c:131-134), whatever comes in between the read of INTSTATUS and the
   write that clears it: no ROK is taken twice, and none is cleared unseen.
   This counts the calls.  What they find, HeaderIsHeader asks. *)
CallsAccounted ==
  Len(accepted) = Len(dispatched) + called + waiting + merged + mixed

(* A ROK comes together with another bit, and is passed over, at most once for
   each packet that the card had to refuse. *)
LossNeedsOverflow == Len(accepted) + mixed + overflowing <= arrived

(* The first packet reaches ethernethandlerecv whole, whatever comes in while
   the handler is on its way to it: the card does not write over it. *)
FirstPacketIntact == dispatched # <<>> => dispatched[1] = 1

(* The card writes within the blocks that kernelmalloc(8192+16+1500) takes.
   In bytes the request is two short of a packet of 1518 at offset 8188. *)
DmaWithinBlocks ==
  \A p \in ring : p.at + 4 + p.length <= calculateblocks(recvbufferBytes) * BlockSize

(* rtl8139.c:89-90, "second 16 bits is packet length", "get packet length from
   packet header": what recvpacket takes for a header is one. *)
HeaderIsHeader == at = "copy" => packet # Junk
=============================================================================
