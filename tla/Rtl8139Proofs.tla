---------------------------- MODULE Rtl8139Proofs ----------------------------
(***************************************************************************)
(* The invariants of Rtl8139, for every ring that the card has, every set  *)
(* of packet lengths, whatever bytes that are no header say as a length,   *)
(* and any number of packets.                                              *)
(***************************************************************************)
EXTENDS Rtl8139, SequenceTheorems, TLAPS

(* What the handler has read of the status stays set until it is written back:
   in between the card only adds to it. *)
StatusStaysSet == at = "acknowledge" => status \subseteq isr

(* Until the first packet is dispatched the driver is at the start of the ring,
   and that packet lies there, before the place where the card goes on. *)
FirstPacketAtStart ==
  dispatched = <<>> =>
    /\ curpacket = 0 /\ at # "advance"
    /\ accepted = <<>> => arrived = 0 /\ cbr = 0 /\ ring = {}
    /\ accepted # <<>> => /\ 0 < cbr
                          /\ \E p \in ring : p.at = 0 /\ p.length + 4 <= cbr
    /\ \A p \in ring : p.at = 0 => p.id = 1
    /\ at = "copy" => packet = 1

(* What the driver writes to CAPR, 16 less and in 16 bits, tells the card the
   offset that it goes on from. *)
PointersAgree == readpointer = curpacket % RecBufferSize

(* The inductive invariant.  That a call of recvpacket finds a packet while none
   has been dispatched follows from the count in CallsAccounted, and that the
   card does not come round to the start of the ring from PointersAgree. *)
IInv ==
  /\ TypeOK
  /\ CallsAccounted
  /\ PointersAgree
  /\ LossNeedsOverflow
  /\ cbr % 4 = 0
  /\ StatusStaysSet
  /\ FirstPacketAtStart
  /\ FirstPacketIntact

-----------------------------------------------------------------------------
(* Remainders: a multiple of the divisor more or less makes no difference. *)
LEMMA RemainderUnique ==
  ASSUME NEW d \in Nat \ {0}, NEW q \in Int, NEW r \in 0 .. d - 1
  PROVE  (q * d + r) % d = r
<1> DEFINE x == q * d + r
           p == x \div d
<1>1. x \in Int /\ p \in Int /\ x % d \in 0 .. d - 1 /\ x = (p * d) + (x % d)
  OBVIOUS
<1>2. (x % d) - r = (q - p) * d
  BY <1>1
<1>3. q - p \in Int /\ (x % d) - r < d /\ -d < (x % d) - r
  BY <1>1
<1> DEFINE k == q - p
<1> HIDE DEF x, p
<1>4. CASE k >= 1
  <2>1. k * d >= d
    BY <1>3, <1>4
  <2> QED
    BY <1>2, <1>3, <2>1
<1>5. CASE k <= -1
  <2>1. k * d <= -d
    BY <1>3, <1>5
  <2> QED
    BY <1>2, <1>3, <2>1
<1>6. CASE k = 0
  BY <1>1, <1>2, <1>6 DEF x
<1> QED
  BY <1>3, <1>4, <1>5, <1>6

LEMMA RemainderShift ==
  ASSUME NEW d \in Nat \ {0}, NEW x \in Int, NEW k \in Int
  PROVE  (x + k * d) % d = x % d
<1> DEFINE q == x \div d
           r == x % d
<1>1. q \in Int /\ r \in 0 .. d - 1 /\ x = q * d + r
  OBVIOUS
<1> HIDE DEF q, r
<1>2. q + k \in Int /\ x + k * d = (q + k) * d + r
  BY <1>1
<1>3. ((q + k) * d + r) % d = r
  BY <1>1, <1>2, RemainderUnique
<1> QED
  BY <1>2, <1>3 DEF r

(* A remainder by a multiple of four of a multiple of four is one. *)
LEMMA RemainderAligned ==
  ASSUME NEW d \in Nat \ {0}, NEW x \in Nat, d % 4 = 0, x % 4 = 0
  PROVE  x % d \in 0 .. d - 1 /\ (x % d) % 4 = 0
<1>1. PICK e \in Nat : d = 4 * e
  <2>1. d \div 4 \in Nat /\ d = 4 * (d \div 4)
    OBVIOUS
  <2> QED
    BY <2>1
<1>2. PICK y \in Nat : x = 4 * y
  <2>1. x \div 4 \in Nat /\ x = 4 * (x \div 4)
    OBVIOUS
  <2> QED
    BY <2>1
<1> DEFINE q == x \div d
           r == x % d
<1>3. q \in Int /\ r \in 0 .. d - 1 /\ x = q * d + r
  OBVIOUS
<1> HIDE DEF q, r
<1>4. y - q * e \in Int /\ r = 4 * (y - q * e)
  BY <1>1, <1>2, <1>3
<1>5. r % 4 = 0
  BY <1>4
<1> QED
  BY <1>3, <1>5 DEF r

(* RPMASK rounds down to a multiple of four. *)
LEMMA AlignedRounds ==
  ASSUME NEW x \in Nat
  PROVE  Aligned(x) \in Nat /\ Aligned(x) % 4 = 0 /\ x - 3 <= Aligned(x) /\ Aligned(x) <= x
BY DEF Aligned

(* What a packet takes in the ring: its header, its data, and the rounding. *)
LEMMA SizeCovers ==
  ASSUME NEW length \in Lengths
  PROVE  /\ length \in Nat /\ length <= 1518
         /\ Size(length) \in Nat /\ Size(length) % 4 = 0
         /\ length + 4 <= Size(length) /\ Size(length) <= 1525
<1>1. length \in Nat /\ length <= 1518
  BY PacketAssumption
<1>2. /\ Size(length) \in Nat /\ Size(length) % 4 = 0
      /\ (length + 4 + 3) - 3 <= Size(length) /\ Size(length) <= length + 4 + 3
  <2> DEFINE x == length + 4 + 3
  <2>1. x \in Nat /\ Size(length) = Aligned(x)
    BY <1>1 DEF Size
  <2> HIDE DEF x
  <2>2. /\ Aligned(x) \in Nat /\ Aligned(x) % 4 = 0
        /\ x - 3 <= Aligned(x) /\ Aligned(x) <= x
    BY <2>1, AlignedRounds
  <2> QED
    BY <2>1, <2>2 DEF x
<1> QED
  BY <1>1, <1>2

(* The card gives CAPR the meaning that the driver intends: the 16 that is taken
   off is put on again, and 16 bits are enough for every ring. *)
LEMMA CaprInverse ==
  ASSUME NEW x \in Int
  PROVE  (capr(x) + 16) % RecBufferSize = x % RecBufferSize
<1> DEFINE q == (x - 16) \div 65536
           r == (x - 16) % 65536
           k == 65536 \div RecBufferSize
<1>1. RecBufferSize \in Nat \ {0} /\ 65536 % RecBufferSize = 0
  BY RingAssumption
<1>2. k \in Int /\ 65536 = k * RecBufferSize
  BY <1>1
<1>3. q \in Int /\ r \in Int /\ x - 16 = q * 65536 + r
  OBVIOUS
<1> DEFINE m == q * k
<1> HIDE DEF q, r, k
<1>4. m \in Int
  BY <1>2, <1>3
<1>5. q * 65536 = m * RecBufferSize
  BY <1>1, <1>2, <1>3
<1> DEFINE z == r + 16
<1>6. z \in Int /\ x = z + m * RecBufferSize
  BY <1>3, <1>5
<1> HIDE DEF m, z
<1>7. RecBufferSize \in Nat \ {0}
  BY RingAssumption
<1>8. (z + m * RecBufferSize) % RecBufferSize = z % RecBufferSize
  BY <1>4, <1>6, <1>7, RemainderShift, Zenon
<1> QED
  BY <1>6, <1>8 DEF r, z, capr

(* The room that the card counts from a place past the start of the ring, with
   the driver at the start. *)
LEMMA RoomToStart ==
  ASSUME NEW c \in 1 .. RecBufferSize - 1
  PROVE  (0 - c) % RecBufferSize = RecBufferSize - c
<1>1. RecBufferSize \in Nat \ {0} /\ RecBufferSize - c \in 0 .. RecBufferSize - 1
  BY RingAssumption
<1>2. 0 - c = (-1) * RecBufferSize + (RecBufferSize - c)
  BY <1>1
<1> QED
  BY <1>1, <1>2, RemainderUnique

-----------------------------------------------------------------------------
(* The invariant holds at the start, and the card and the handler keep it. *)
LEMMA InitIInv == Init => IInv
<1> SUFFICES ASSUME Init PROVE IInv
  OBVIOUS
<1>1. TypeOK
  BY RingAssumption, PacketAssumption DEF Init, TypeOK, Junk, uint16
<1>2. CallsAccounted /\ LossNeedsOverflow
  BY DEF Init, CallsAccounted, LossNeedsOverflow, called, waiting, overflowing
<1>3. PointersAgree
  BY RingAssumption DEF Init, PointersAgree
<1> QED
  BY <1>1, <1>2, <1>3
     DEF Init, IInv, StatusStaysSet, FirstPacketAtStart, FirstPacketIntact

(* A packet that comes in has its ROK set, alone or with one that is waiting;
   while the driver has not read the first one, there is no room over it. *)
LEMMA ReceiveIInv ==
  ASSUME IInv, NEW length \in Lengths, Receive(length)
  PROVE  IInv'
<1> DEFINE p == [at |-> cbr, length |-> length, id |-> arrived']
<1>1. /\ length \in Nat /\ Size(length) \in Nat /\ Size(length) % 4 = 0
      /\ length + 4 <= Size(length) /\ Size(length) <= 1525
  BY SizeCovers
<1>2. /\ TypeOK /\ CallsAccounted /\ PointersAgree /\ LossNeedsOverflow
      /\ StatusStaysSet /\ FirstPacketAtStart /\ FirstPacketIntact
  BY DEF IInv
<1>3. cbr \in 0 .. RecBufferSize - 1 /\ cbr % 4 = 0
  BY DEF IInv, TypeOK
<1>4. RecBufferSize \in Nat /\ RecBufferSize >= 8192
  BY RingAssumption
<1>5. /\ arrived \in Nat /\ arrived < MaxPackets /\ MaxPackets \in Nat
      /\ arrived' = arrived + 1 /\ arrived' \in 1 .. MaxPackets
      /\ accepted' = Append(accepted, arrived')
      /\ merged' = IF "ROK" \in isr THEN merged + 1 ELSE merged
      /\ isr' = isr \cup {"ROK"}
  BY <1>2, PacketAssumption DEF Receive, TypeOK
<1>6. ring' = {q \in ring : ~Overlap(q, cbr, length)} \cup {p}
  BY DEF Receive
<1>7. cbr' = (cbr + Size(length)) % RecBufferSize
  BY DEF Receive
<1>8. UNCHANGED <<readpointer, mixed, at, status, packetlength, packet, curpacket, dispatched>>
  BY DEF Receive, driver
<1>9. cbr' \in 0 .. RecBufferSize - 1 /\ cbr' % 4 = 0
  <2> DEFINE x == cbr + Size(length)
  <2>1. x \in Nat /\ x % 4 = 0
    BY <1>1, <1>3, <1>4
  <2> HIDE DEF x
  <2>2. RecBufferSize \in Nat \ {0} /\ RecBufferSize % 4 = 0
    BY RingAssumption
  <2>3. x % RecBufferSize \in 0 .. RecBufferSize - 1 /\ (x % RecBufferSize) % 4 = 0
    BY <2>1, <2>2, RemainderAligned, Zenon
  <2> QED
    BY <1>7, <2>3 DEF x
<1>10. accepted' \in Seq(1 .. MaxPackets) /\ Len(accepted') = Len(accepted) + 1
  BY <1>2, <1>5 DEF TypeOK
<1>11. /\ Len(accepted) \in Nat /\ Len(dispatched) \in Nat
       /\ merged \in Nat /\ mixed \in Nat
       /\ called \in {0, 1} /\ overflowing \in {0, 1}
  BY <1>2 DEF TypeOK, called, overflowing
<1>12. called' = called /\ waiting' = 1 /\ overflowing' = overflowing
  BY <1>5, <1>8 DEF called, waiting, overflowing
<1>13. Len(accepted) = Len(dispatched) + called + waiting + merged + mixed
  BY <1>2 DEF CallsAccounted
<1>14. CallsAccounted' /\ LossNeedsOverflow' /\ merged' \in 0 .. MaxPackets
  <2>1. merged' \in Nat
    BY <1>5, <1>11
  <2>2. Len(accepted') = Len(dispatched') + called + 1 + merged' + mixed'
    <3>1. Len(dispatched') = Len(dispatched) /\ mixed' = mixed
      BY <1>8
    <3>2. CASE "ROK" \in isr
      <4>1. waiting = 1 /\ merged' = merged + 1
        BY <1>5, <3>2 DEF waiting
      <4> QED
        BY <1>10, <1>11, <1>13, <3>1, <4>1
    <3>3. CASE "ROK" \notin isr
      <4>1. waiting = 0 /\ merged' = merged
        BY <1>5, <3>3 DEF waiting
      <4> QED
        BY <1>10, <1>11, <1>13, <3>1, <4>1
    <3> QED
      BY <3>2, <3>3
  <2>3. CallsAccounted'
    BY <1>12, <2>2, Zenon DEF CallsAccounted
  <2>4. Len(accepted') \in Nat /\ Len(dispatched') \in Nat
    BY <1>8, <1>10, <1>11
  <2>5. Len(accepted) + mixed + overflowing <= arrived
    BY <1>2 DEF LossNeedsOverflow
  <2>6. Len(accepted') + mixed' + overflowing' <= arrived'
    BY <1>5, <1>8, <1>10, <1>11, <1>12, <2>5
  <2>7. merged' <= arrived'
    BY <1>5, <1>8, <1>11, <1>12, <2>1, <2>2, <2>4, <2>6
  <2>8. LossNeedsOverflow'
    BY <2>6 DEF LossNeedsOverflow
  <2> QED
    BY <1>5, <2>1, <2>3, <2>7, <2>8
<1>15. TypeOK'
  <2>1. \A q \in ring : /\ q.at \in 0 .. RecBufferSize - 1 /\ q.at % 4 = 0
                        /\ q.length \in Lengths /\ q.id \in 1 .. MaxPackets
    BY <1>2 DEF TypeOK
  <2>2. /\ p.at \in 0 .. RecBufferSize - 1 /\ p.at % 4 = 0
        /\ p.length \in Lengths /\ p.id \in 1 .. MaxPackets
    BY <1>3, <1>5
  <2> HIDE DEF p
  <2>3. \A q \in ring' : /\ q.at \in 0 .. RecBufferSize - 1 /\ q.at % 4 = 0
                         /\ q.length \in Lengths /\ q.id \in 1 .. MaxPackets
    BY <1>6, <2>1, <2>2
  <2> QED
    BY <1>2, <1>5, <1>8, <1>9, <1>10, <1>14, <2>3 DEF TypeOK
<1>16. FirstPacketAtStart'
  <2> SUFFICES ASSUME dispatched = <<>> PROVE FirstPacketAtStart'
    BY <1>8 DEF FirstPacketAtStart
  <2>1. /\ curpacket = 0 /\ at # "advance"
        /\ \A q \in ring : q.at = 0 => q.id = 1
        /\ at = "copy" => packet = 1
    BY <1>2 DEF FirstPacketAtStart
  <2>2. accepted' # <<>>
    BY <1>2, <1>10 DEF TypeOK
  <2>3. CASE accepted = <<>>
    <3>1. arrived = 0 /\ cbr = 0 /\ ring = {}
      BY <1>2, <2>3 DEF FirstPacketAtStart
    <3>2. p \in ring' /\ p.at = 0 /\ p.length = length /\ \A q \in ring' : q.id = 1
      BY <1>5, <1>6, <3>1
    <3>3. Size(length) % RecBufferSize = Size(length)
      BY <1>1, <1>4
    <3>4. cbr' = Size(length) /\ 0 < cbr'
      BY <1>1, <1>7, <3>1, <3>3
    <3>5. \E q \in ring' : q.at = 0 /\ q.length + 4 <= cbr'
      BY <1>1, <3>2, <3>4
    <3> QED
      BY <1>8, <2>1, <2>2, <3>2, <3>4, <3>5 DEF FirstPacketAtStart
  <2>4. CASE accepted # <<>>
    <3>1. 0 < cbr /\ \E q \in ring : q.at = 0 /\ q.length + 4 <= cbr
      BY <1>2, <2>4 DEF FirstPacketAtStart
    <3>2. PICK q \in ring : q.at = 0 /\ q.length + 4 <= cbr
      BY <3>1
    <3>3. readpointer = 0
      BY <1>2, <1>4, <2>1 DEF PointersAgree
    <3>4. (0 - cbr) % RecBufferSize = RecBufferSize - cbr
      BY <1>3, <3>1, RoomToStart
    <3>5. LET room == RecBufferSize - cbr IN room = 0 \/ Size(length) < room
      BY <3>3, <3>4 DEF Receive, RoomFor
    <3>6. cbr + Size(length) \in 0 .. RecBufferSize - 1
      BY <1>1, <1>3, <1>4, <3>5
    <3>7. (cbr + Size(length)) % RecBufferSize = cbr + Size(length)
      BY <1>4, <3>6
    <3>8. cbr' = cbr + Size(length)
      BY <1>7, <3>7
    <3>9. q.length \in Nat
      BY <1>2, PacketAssumption DEF TypeOK
    <3>10. ~Overlap(q, cbr, length)
      BY <1>3, <3>2, <3>9 DEF Overlap
    <3>11. q \in ring' /\ q.length + 4 <= cbr' /\ 0 < cbr'
      BY <1>1, <1>3, <1>6, <3>1, <3>2, <3>8, <3>9, <3>10
    <3>12. \A x \in ring' : x.at = 0 => x.id = 1
      BY <1>6, <2>1, <3>1
    <3> QED
      BY <1>8, <2>1, <2>2, <3>2, <3>11, <3>12 DEF FirstPacketAtStart
  <2> QED
    BY <2>3, <2>4
<1>17. PointersAgree' /\ StatusStaysSet' /\ FirstPacketIntact'
  BY <1>2, <1>5, <1>8 DEF PointersAgree, StatusStaysSet, FirstPacketIntact
<1> QED
  BY <1>9, <1>14, <1>15, <1>16, <1>17, Zenon DEF IInv

(* There is always room for the first packet: an overflow is not the first. *)
LEMMA OverflowIInv ==
  ASSUME IInv, NEW length \in Lengths, Overflow(length)
  PROVE  IInv'
<1>1. /\ TypeOK /\ CallsAccounted /\ PointersAgree /\ LossNeedsOverflow
      /\ cbr % 4 = 0
      /\ StatusStaysSet /\ FirstPacketAtStart /\ FirstPacketIntact
  BY DEF IInv
<1>2. /\ arrived' = arrived + 1 /\ arrived < MaxPackets
      /\ isr' = isr \cup {"RXOVW"}
      /\ UNCHANGED <<ring, cbr, readpointer, accepted, merged, mixed>>
      /\ UNCHANGED <<at, status, packetlength, packet, curpacket, dispatched>>
  BY DEF Overflow, driver
<1>3. TypeOK'
  BY <1>1, <1>2, PacketAssumption DEF TypeOK
<1>4. CallsAccounted'
  <2>1. called' = called /\ waiting' = waiting
    BY <1>2 DEF called, waiting
  <2> QED
    BY <1>1, <1>2, <2>1 DEF CallsAccounted
<1>5. LossNeedsOverflow'
  <2>1. Len(accepted) \in Nat /\ mixed \in Nat /\ arrived \in Nat
    BY <1>1 DEF TypeOK
  <2>2. overflowing' = 1 /\ overflowing \in {0, 1}
    BY <1>2 DEF overflowing
  <2>3. Len(accepted) + mixed + overflowing <= arrived
    BY <1>1 DEF LossNeedsOverflow
  <2>4. Len(accepted') + mixed' + overflowing' <= arrived'
    BY <1>2, <2>1, <2>2, <2>3
  <2> QED
    BY <2>4 DEF LossNeedsOverflow
<1>6. dispatched = <<>> => accepted # <<>>
  <2> SUFFICES ASSUME dispatched = <<>>, accepted = <<>> PROVE FALSE
    OBVIOUS
  <2>1. cbr = 0 /\ curpacket = 0
    BY <1>1 DEF FirstPacketAtStart
  <2>2. RecBufferSize \in Nat \ {0} /\ 0 % RecBufferSize = 0
    BY RingAssumption
  <2>3. readpointer = 0
    BY <1>1, <2>1, <2>2 DEF PointersAgree
  <2>4. (readpointer - cbr) % RecBufferSize = 0
    BY <2>1, <2>2, <2>3
  <2> QED
    BY <2>4 DEF Overflow, RoomFor
<1>7. FirstPacketAtStart'
  BY <1>1, <1>2, <1>6 DEF FirstPacketAtStart
<1>8. PointersAgree' /\ StatusStaysSet' /\ FirstPacketIntact' /\ cbr' % 4 = 0
  BY <1>1, <1>2 DEF PointersAgree, StatusStaysSet, FirstPacketIntact
<1> QED
  BY <1>3, <1>4, <1>5, <1>7, <1>8 DEF IInv

(* The handler's own reading: no packet, no status and no pointer is touched. *)
LEMMA InterruptIInv == ASSUME IInv, Interrupt PROVE IInv'
<1>1. /\ TypeOK /\ CallsAccounted /\ PointersAgree /\ LossNeedsOverflow
      /\ cbr % 4 = 0
      /\ StatusStaysSet /\ FirstPacketAtStart /\ FirstPacketIntact
  BY DEF IInv
<1>2. /\ at = "idle" /\ at' = "INTSTATUS"
      /\ UNCHANGED <<ring, cbr, readpointer, isr, arrived, accepted, merged, mixed>>
      /\ UNCHANGED <<status, packetlength, packet, curpacket, dispatched>>
  BY DEF Interrupt, card
<1>3. called' = called /\ waiting' = waiting
  BY <1>2 DEF called, waiting
<1>4. TypeOK'
  BY <1>1, <1>2 DEF TypeOK
<1>5. CallsAccounted' /\ LossNeedsOverflow' /\ cbr' % 4 = 0
  BY <1>1, <1>2, <1>3 DEF CallsAccounted, LossNeedsOverflow, overflowing
<1>6. PointersAgree' /\ StatusStaysSet' /\ FirstPacketAtStart' /\ FirstPacketIntact'
  BY <1>1, <1>2 DEF PointersAgree, StatusStaysSet, FirstPacketAtStart, FirstPacketIntact
<1> QED
  BY <1>4, <1>5, <1>6, Zenon DEF IInv

LEMMA ReadStatusIInv == ASSUME IInv, ReadStatus PROVE IInv'
<1>1. /\ TypeOK /\ CallsAccounted /\ PointersAgree /\ LossNeedsOverflow
      /\ cbr % 4 = 0
      /\ StatusStaysSet /\ FirstPacketAtStart /\ FirstPacketIntact
  BY DEF IInv
<1>2. /\ at = "INTSTATUS" /\ at' \in {"idle", "acknowledge"} /\ status' = isr
      /\ UNCHANGED <<ring, cbr, readpointer, isr, arrived, accepted, merged, mixed>>
      /\ UNCHANGED <<packetlength, packet, curpacket, dispatched>>
  BY DEF ReadStatus, card
<1>3. called' = called /\ waiting' = waiting
  BY <1>2 DEF called, waiting
<1>4. TypeOK'
  BY <1>1, <1>2 DEF TypeOK
<1>5. CallsAccounted' /\ LossNeedsOverflow' /\ cbr' % 4 = 0
  BY <1>1, <1>2, <1>3 DEF CallsAccounted, LossNeedsOverflow, overflowing
<1>6. PointersAgree' /\ StatusStaysSet' /\ FirstPacketAtStart' /\ FirstPacketIntact'
  BY <1>1, <1>2 DEF PointersAgree, StatusStaysSet, FirstPacketAtStart, FirstPacketIntact
<1> QED
  BY <1>4, <1>5, <1>6, Zenon DEF IInv

(* Writing the status back takes a waiting ROK away, and passes it on to
   recvpacket, or passes it over: then an overflow goes with it. *)
LEMMA AcknowledgeIInv == ASSUME IInv, Acknowledge PROVE IInv'
<1>1. /\ TypeOK /\ CallsAccounted /\ PointersAgree /\ LossNeedsOverflow
      /\ cbr % 4 = 0
      /\ StatusStaysSet /\ FirstPacketAtStart /\ FirstPacketIntact
  BY DEF IInv
<1>2. /\ at = "acknowledge" /\ isr' = isr \ status
      /\ at' = IF status = {"ROK"} THEN "recvpacket" ELSE "INTSTATUS"
      /\ mixed' = IF "ROK" \in status /\ status # {"ROK"} THEN mixed + 1 ELSE mixed
      /\ UNCHANGED <<ring, cbr, readpointer, arrived, accepted, merged>>
      /\ UNCHANGED <<status, packetlength, packet, curpacket, dispatched>>
  BY DEF Acknowledge
<1>3. status \subseteq isr /\ isr \subseteq {"ROK", "RXOVW"}
  BY <1>1, <1>2 DEF StatusStaysSet, TypeOK
<1>4. /\ Len(accepted) = Len(dispatched) + called + waiting + merged + mixed
      /\ Len(accepted) + mixed + overflowing <= arrived
  BY <1>1 DEF CallsAccounted, LossNeedsOverflow
<1>5. /\ Len(accepted) \in Nat /\ Len(dispatched) \in Nat
      /\ merged \in Nat /\ mixed \in Nat
      /\ arrived \in Nat /\ arrived <= MaxPackets /\ MaxPackets \in Nat
      /\ called = 0 /\ waiting \in {0, 1}
      /\ overflowing \in {0, 1} /\ overflowing' \in {0, 1} /\ overflowing' <= overflowing
  BY <1>1, <1>2, PacketAssumption DEF TypeOK, called, waiting, overflowing
<1>6. CallsAccounted' /\ LossNeedsOverflow' /\ mixed' \in 0 .. MaxPackets
  <2>1. CASE "ROK" \notin status
    <3>1. called' = called /\ waiting' = waiting /\ mixed' = mixed
      BY <1>2, <2>1 DEF called, waiting
    <3>2. Len(accepted') + mixed' + overflowing' <= arrived'
      BY <1>2, <1>4, <1>5, <3>1
    <3> QED
      BY <1>1, <1>2, <3>1, <3>2 DEF CallsAccounted, LossNeedsOverflow, TypeOK
  <2>2. CASE status = {"ROK"}
    <3>1. called' = 1 /\ waiting' = 0 /\ mixed' = mixed /\ waiting = 1
      BY <1>2, <1>3, <2>2 DEF called, waiting
    <3>2. /\ Len(accepted') = Len(dispatched') + 1 + 0 + merged' + mixed'
          /\ Len(accepted') + mixed' + overflowing' <= arrived'
      BY <1>2, <1>4, <1>5, <3>1
    <3>3. CallsAccounted' /\ LossNeedsOverflow'
      BY <3>1, <3>2, Zenon DEF CallsAccounted, LossNeedsOverflow
    <3> QED
      BY <1>1, <3>1, <3>3 DEF TypeOK
  <2>3. CASE "ROK" \in status /\ status # {"ROK"}
    <3>1. "RXOVW" \in status
      BY <1>3, <2>3
    <3>2. /\ called' = 0 /\ waiting' = 0 /\ mixed' = mixed + 1 /\ waiting = 1
          /\ overflowing = 1 /\ overflowing' = 0
      BY <1>2, <1>3, <2>3, <3>1 DEF called, waiting, overflowing
    <3>3. /\ Len(accepted') = Len(dispatched') + 0 + 0 + merged' + mixed'
          /\ Len(accepted') + mixed' + overflowing' <= arrived'
      BY <1>2, <1>4, <1>5, <3>2
    <3>4. CallsAccounted' /\ LossNeedsOverflow'
      BY <3>2, <3>3, Zenon DEF CallsAccounted, LossNeedsOverflow
    <3>5. mixed + 1 \in 0 .. MaxPackets
      BY <1>4, <1>5, <3>2
    <3> QED
      BY <3>2, <3>4, <3>5
  <2> QED
    BY <2>1, <2>2, <2>3
<1>7. TypeOK'
  BY <1>1, <1>2, <1>6 DEF TypeOK
<1>8. /\ cbr' % 4 = 0
      /\ PointersAgree' /\ StatusStaysSet' /\ FirstPacketAtStart' /\ FirstPacketIntact'
  BY <1>1, <1>2 DEF PointersAgree, StatusStaysSet, FirstPacketAtStart, FirstPacketIntact
<1> QED
  BY <1>6, <1>7, <1>8, Zenon DEF IInv

(* recvpacket is not called without a packet: the first call has the first
   packet before it. *)
LEMMA FirstCallHasPacket ==
  ASSUME IInv, at \in {"recvpacket", "copy"}, dispatched = <<>>
  PROVE  \E p \in ring : p.at = HeaderOffset /\ p.id = 1
<1>1. TypeOK /\ CallsAccounted /\ FirstPacketAtStart
  BY DEF IInv
<1>2. Len(accepted) = Len(dispatched) + called + waiting + merged + mixed
  BY <1>1 DEF CallsAccounted
<1>3. Len(dispatched) = 0 /\ called = 1 /\ waiting \in {0, 1} /\ merged \in Nat /\ mixed \in Nat
  BY <1>1 DEF TypeOK, called, waiting
<1>4. Len(accepted) # 0
  BY <1>2, <1>3
<1>5. accepted # <<>>
  BY <1>4
<1>6. curpacket = 0
  BY <1>1 DEF FirstPacketAtStart
<1>7. HeaderOffset = 0
  BY <1>6 DEF HeaderOffset
<1> QED
  BY <1>1, <1>5, <1>7 DEF FirstPacketAtStart

LEMMA ReadHeaderIInv == ASSUME IInv, ReadHeader PROVE IInv'
<1>1. /\ TypeOK /\ CallsAccounted /\ PointersAgree /\ LossNeedsOverflow
      /\ cbr % 4 = 0
      /\ StatusStaysSet /\ FirstPacketAtStart /\ FirstPacketIntact
  BY DEF IInv
<1>2. /\ at = "recvpacket" /\ at' = "copy"
      /\ UNCHANGED <<ring, cbr, readpointer, isr, arrived, accepted, merged, mixed>>
      /\ UNCHANGED <<status, curpacket, dispatched>>
  BY DEF ReadHeader, card
<1>3. called' = called /\ waiting' = waiting
  BY <1>2 DEF called, waiting
<1>4. packetlength' \in uint16 /\ packet' \in 0 .. MaxPackets
  <2>1. CASE \E p \in ring : /\ p.at = HeaderOffset
                             /\ packetlength' = p.length /\ packet' = p.id
    <3>1. PICK p \in ring : packetlength' = p.length /\ packet' = p.id
      BY <2>1
    <3>2. p.length \in Lengths /\ p.id \in 1 .. MaxPackets
      BY <1>1 DEF TypeOK
    <3>3. p.length \in uint16 /\ p.id \in 0 .. MaxPackets
      BY <3>2, PacketAssumption DEF uint16
    <3> QED
      BY <3>1, <3>3
  <2>2. CASE packetlength' \in JunkLengths /\ packet' = Junk
    BY <2>2, PacketAssumption DEF Junk
  <2> QED
    BY <2>1, <2>2 DEF ReadHeader
<1>5. TypeOK'
  BY <1>1, <1>2, <1>4 DEF TypeOK
<1>6. CallsAccounted' /\ LossNeedsOverflow' /\ cbr' % 4 = 0
  BY <1>1, <1>2, <1>3 DEF CallsAccounted, LossNeedsOverflow, overflowing
<1>7. dispatched = <<>> => packet' = 1
  <2> SUFFICES ASSUME dispatched = <<>> PROVE packet' = 1
    OBVIOUS
  <2>1. \E p \in ring : p.at = HeaderOffset /\ p.id = 1
    BY <1>2, FirstCallHasPacket
  <2>2. HeaderOffset = 0
    BY <1>1 DEF FirstPacketAtStart, HeaderOffset
  <2>3. \A p \in ring : p.at = 0 => p.id = 1
    BY <1>1 DEF FirstPacketAtStart
  <2> QED
    BY <2>1, <2>2, <2>3 DEF ReadHeader
<1>8. PointersAgree' /\ StatusStaysSet' /\ FirstPacketAtStart' /\ FirstPacketIntact'
  BY <1>1, <1>2, <1>7
     DEF PointersAgree, StatusStaysSet, FirstPacketAtStart, FirstPacketIntact
<1> QED
  BY <1>5, <1>6, <1>8, Zenon DEF IInv

LEMMA CopyAndDispatchIInv == ASSUME IInv, CopyAndDispatch PROVE IInv'
<1>1. /\ TypeOK /\ CallsAccounted /\ PointersAgree /\ LossNeedsOverflow
      /\ cbr % 4 = 0
      /\ StatusStaysSet /\ FirstPacketAtStart /\ FirstPacketIntact
  BY DEF IInv
<1>2. /\ at = "copy" /\ at' = "advance"
      /\ dispatched' = Append(dispatched, packet')
      /\ UNCHANGED <<ring, cbr, readpointer, isr, arrived, accepted, merged, mixed>>
      /\ UNCHANGED <<status, packetlength, curpacket>>
  BY DEF CopyAndDispatch, card
<1>3. packet' \in {packet, Junk} /\ packet' \in 0 .. MaxPackets
  BY <1>1, PacketAssumption DEF CopyAndDispatch, TypeOK, Junk
<1>4. /\ dispatched \in Seq(0 .. MaxPackets) /\ dispatched' \in Seq(0 .. MaxPackets)
      /\ Len(dispatched') = Len(dispatched) + 1 /\ dispatched' # <<>>
  <2> DEFINE Ids == 0 .. MaxPackets
  <2>1. dispatched \in Seq(Ids) /\ packet' \in Ids
    BY <1>1, <1>3 DEF TypeOK
  <2> HIDE DEF Ids
  <2>2. /\ Append(dispatched, packet') \in Seq(Ids) /\ Append(dispatched, packet') # <<>>
        /\ Len(Append(dispatched, packet')) = Len(dispatched) + 1
    BY <2>1, AppendProperties, Zenon
  <2>3. /\ dispatched \in Seq(Ids) /\ dispatched' \in Seq(Ids)
        /\ Len(dispatched') = Len(dispatched) + 1 /\ dispatched' # <<>>
    BY <1>2, <2>1, <2>2, Zenon
  <2> QED
    BY <2>3 DEF Ids
<1>5. TypeOK'
  BY <1>1, <1>2, <1>3, <1>4 DEF TypeOK
<1>6. CallsAccounted'
  <2>1. Len(accepted) = Len(dispatched) + called + waiting + merged + mixed
    BY <1>1 DEF CallsAccounted
  <2>2. /\ called = 1 /\ called' = 0 /\ waiting' = waiting /\ waiting \in {0, 1}
        /\ Len(accepted) \in Nat /\ Len(dispatched) \in Nat /\ merged \in Nat /\ mixed \in Nat
    BY <1>1, <1>2 DEF TypeOK, called, waiting
  <2>3. Len(accepted') = Len(dispatched') + 0 + waiting + merged' + mixed'
    BY <1>2, <1>4, <2>1, <2>2
  <2>4. Len(accepted') = Len(dispatched') + called' + waiting' + merged' + mixed'
    BY <2>2, <2>3
  <2> QED
    BY <2>4, Zenon DEF CallsAccounted
<1>7. FirstPacketIntact'
  <2>1. CASE dispatched = <<>>
    <3>1. \E p \in ring : p.at = HeaderOffset /\ p.id = 1
      BY <1>2, <2>1, FirstCallHasPacket
    <3>2. packet = 1
      BY <1>1, <1>2, <2>1 DEF FirstPacketAtStart
    <3>3. packet' = 1
      BY <3>1, <3>2 DEF CopyAndDispatch
    <3> QED
      BY <1>2, <1>4, <2>1, <3>3 DEF FirstPacketIntact
  <2>2. CASE dispatched # <<>>
    <3>1. dispatched'[1] = dispatched[1]
      BY <1>2, <1>3, <1>4, <2>2
    <3> QED
      BY <1>1, <2>2, <3>1 DEF FirstPacketIntact
  <2> QED
    BY <2>1, <2>2
<1>8. /\ LossNeedsOverflow' /\ cbr' % 4 = 0
      /\ PointersAgree' /\ StatusStaysSet' /\ FirstPacketAtStart'
  BY <1>1, <1>2, <1>4
     DEF LossNeedsOverflow, overflowing, PointersAgree, StatusStaysSet, FirstPacketAtStart
<1> QED
  BY <1>5, <1>6, <1>7, <1>8, Zenon DEF IInv

(* The driver goes on to a multiple of four, and tells the card of that place. *)
LEMMA AdvanceIInv == ASSUME IInv, Advance PROVE IInv'
<1>1. /\ TypeOK /\ CallsAccounted /\ PointersAgree /\ LossNeedsOverflow
      /\ cbr % 4 = 0
      /\ StatusStaysSet /\ FirstPacketAtStart /\ FirstPacketIntact
  BY DEF IInv
<1>2. /\ at = "advance" /\ at' = "INTSTATUS"
      /\ UNCHANGED <<ring, cbr, isr, arrived, accepted, merged, mixed>>
      /\ UNCHANGED <<status, packetlength, packet, dispatched>>
  BY DEF Advance
<1> DEFINE next == Aligned(curpacket + packetlength + 4 + 3)
<1>3. curpacket' = IF next > RecBufferSize THEN next - RecBufferSize ELSE next
  BY DEF Advance
<1>4. next \in Nat /\ next % 4 = 0
  <2> DEFINE x == curpacket + packetlength + 4 + 3
  <2>1. x \in Nat
    BY <1>1 DEF TypeOK, uint16
  <2> HIDE DEF x
  <2>2. Aligned(x) \in Nat /\ Aligned(x) % 4 = 0
    BY <2>1, AlignedRounds
  <2> QED
    BY <2>2 DEF x
<1> HIDE DEF next
<1>5. curpacket' \in Nat /\ curpacket' % 4 = 0
  <2>1. RecBufferSize \in Nat /\ RecBufferSize % 4 = 0
    BY RingAssumption
  <2> QED
    BY <1>3, <1>4, <2>1
<1>6. readpointer' = curpacket' % RecBufferSize
  BY <1>5, CaprInverse DEF Advance
<1>7. readpointer' \in 0 .. RecBufferSize - 1
  <2>1. RecBufferSize \in Nat \ {0} /\ RecBufferSize % 4 = 0
    BY RingAssumption
  <2> QED
    BY <1>5, <1>6, <2>1, RemainderAligned, Zenon
<1>8. TypeOK'
  BY <1>1, <1>2, <1>5, <1>7, Zenon DEF TypeOK
<1>9. called' = called /\ waiting' = waiting
  BY <1>2 DEF called, waiting
<1>10. dispatched # <<>>
  BY <1>1, <1>2 DEF FirstPacketAtStart
<1>11. /\ CallsAccounted' /\ LossNeedsOverflow' /\ cbr' % 4 = 0
       /\ StatusStaysSet' /\ FirstPacketAtStart' /\ FirstPacketIntact'
  BY <1>1, <1>2, <1>9, <1>10
     DEF CallsAccounted, LossNeedsOverflow, overflowing,
         StatusStaysSet, FirstPacketAtStart, FirstPacketIntact
<1>12. PointersAgree'
  BY <1>6 DEF PointersAgree
<1> QED
  BY <1>8, <1>11, <1>12, Zenon DEF IInv

LEMMA StutterIInv == ASSUME IInv, UNCHANGED vars PROVE IInv'
<1>1. /\ UNCHANGED <<ring, cbr, readpointer, isr, arrived, accepted, merged, mixed>>
      /\ UNCHANGED <<at, status, packetlength, packet, curpacket, dispatched>>
  BY DEF vars, card, driver
<1>2. called' = called /\ waiting' = waiting /\ overflowing' = overflowing
  BY <1>1 DEF called, waiting, overflowing
<1> QED
  BY <1>1, <1>2 DEF IInv, TypeOK, CallsAccounted, LossNeedsOverflow, PointersAgree, StatusStaysSet,
                    FirstPacketAtStart, FirstPacketIntact

LEMMA NextIInv == IInv /\ [Next]_vars => IInv'
<1> SUFFICES ASSUME IInv, [Next]_vars PROVE IInv'
  OBVIOUS
<1>1. CASE \E length \in Lengths : Receive(length)
  BY <1>1, ReceiveIInv
<1>2. CASE \E length \in Lengths : Overflow(length)
  BY <1>2, OverflowIInv
<1>3. CASE Interrupt
  BY <1>3, InterruptIInv
<1>4. CASE ReadStatus
  BY <1>4, ReadStatusIInv
<1>5. CASE Acknowledge
  BY <1>5, AcknowledgeIInv
<1>6. CASE ReadHeader
  BY <1>6, ReadHeaderIInv
<1>7. CASE CopyAndDispatch
  BY <1>7, CopyAndDispatchIInv
<1>8. CASE Advance
  BY <1>8, AdvanceIInv
<1>9. CASE UNCHANGED vars
  BY <1>9, StutterIInv
<1> QED
  BY <1>1, <1>2, <1>3, <1>4, <1>5, <1>6, <1>7, <1>8, <1>9 DEF Next, NICISR43handler

LEMMA AlwaysIInv == Spec => []IInv
BY InitIInv, NextIInv, PTL DEF Spec

-----------------------------------------------------------------------------
(* Every variable of the card and of the driver keeps its type (rtl8139.c). *)
THEOREM TypeCorrect == Spec => []TypeOK
<1>1. IInv => TypeOK
  BY DEF IInv
<1> QED
  BY AlwaysIInv, <1>1, PTL

(* Each ROK that a packet set and that was acknowledged by itself is one call of
   recvpacket, and there is no other call (rtl8139.c:126-134). *)
THEOREM CallsMatchRoks == Spec => []CallsAccounted
<1>1. IInv => CallsAccounted
  BY DEF IInv
<1> QED
  BY AlwaysIInv, <1>1, PTL

(* A ROK is passed over for the sake of another bit at most once for each packet
   that had to be refused, however fast packets come (rtl8139.c:131-134). *)
THEOREM LossesBounded == Spec => []LossNeedsOverflow
<1>1. IInv => LossNeedsOverflow
  BY DEF IInv
<1> QED
  BY AlwaysIInv, <1>1, PTL

(* The first packet reaches ethernethandlerecv as it came in, whatever comes
   in between the interrupt and the copy (rtl8139.c:83-116). *)
THEOREM FirstPacketWhole == Spec => []FirstPacketIntact
<1>1. IInv => FirstPacketIntact
  BY DEF IInv
<1> QED
  BY AlwaysIInv, <1>1, PTL

(* calculateblocks returns a number of blocks that holds the bytes (the loop of
   physicalmemory.c:30). *)
LEMMA BlocksCoverBytes ==
  ASSUME NEW b \in Nat
  PROVE  calculateblocks(b) \in Nat \ {0} /\ b <= calculateblocks(b) * BlockSize
<1>1. CASE b <= BlockSize
  BY <1>1, MemoryAssumption DEF calculateblocks
<1>2. CASE b > BlockSize
  <2> DEFINE n == (b + BlockSize - 1) \div BlockSize
  <2>1. calculateblocks(b) = n
    BY <1>2, MemoryAssumption DEF calculateblocks
  <2>2. n \in Nat \ {0} /\ b <= n * BlockSize
    BY <1>2, MemoryAssumption
  <2> QED
    BY <2>1, <2>2
<1> QED
  BY <1>1, <1>2, MemoryAssumption

(* The blocks of the receive buffer hold a longest packet at the last place of
   the ring: the rounding up to blocks gives the two bytes that the request of
   rtl8139.c:158 is short of. *)
LEMMA BlocksHoldOverhang ==
  RecBufferSize + 1518 <= calculateblocks(recvbufferBytes) * BlockSize
<1> DEFINE n == calculateblocks(recvbufferBytes)
           r == RecBufferSize \div BlockSize
<1>1. /\ RecBufferSize \in Nat /\ BlockSize \in Nat \ {0}
      /\ RecBufferSize % BlockSize = 0 /\ BlockSize >= 1518
  BY RingAssumption, BlockAssumption, MemoryAssumption
<1>2. r \in Nat /\ RecBufferSize = r * BlockSize
  BY <1>1
<1>3. recvbufferBytes \in Nat /\ recvbufferBytes = RecBufferSize + 1516
  BY <1>1 DEF recvbufferBytes
<1>4. n \in Nat /\ RecBufferSize + 1516 <= n * BlockSize
  BY <1>3, BlocksCoverBytes
<1> HIDE DEF n, r
<1>5. r < n
  <2> SUFFICES ASSUME n <= r PROVE FALSE
    BY <1>2, <1>4
  <2>1. r = n + (r - n) /\ r - n \in Nat
    BY <1>2, <1>4
  <2>2. r * BlockSize = (n * BlockSize) + ((r - n) * BlockSize) /\ (r - n) * BlockSize \in Nat
    BY <1>1, <1>2, <1>4, <2>1
  <2>3. n * BlockSize \in Nat
    BY <1>1, <1>4
  <2> QED
    BY <1>1, <1>2, <1>4, <2>2, <2>3
<1>6. n * BlockSize >= (r * BlockSize) + BlockSize
  <2>1. n = (r + 1) + (n - r - 1) /\ n - r - 1 \in Nat
    BY <1>2, <1>4, <1>5
  <2>2. /\ n * BlockSize = ((r * BlockSize) + BlockSize) + ((n - r - 1) * BlockSize)
        /\ (n - r - 1) * BlockSize \in Nat /\ r * BlockSize \in Nat
    BY <1>1, <1>2, <1>4, <2>1
  <2> QED
    BY <1>1, <2>2
<1>7. n * BlockSize \in Nat /\ r * BlockSize \in Nat
  BY <1>1, <1>2, <1>4
<1> QED
  BY <1>1, <1>2, <1>6, <1>7 DEF n

(* No packet reaches past the blocks that initNIC's kernelmalloc has taken,
   wherever in the ring it begins (rtl8139.c:158, :178). *)
THEOREM CardStaysInBlocks == Spec => []DmaWithinBlocks
<1>1. IInv => DmaWithinBlocks
  <2> SUFFICES ASSUME IInv, NEW p \in ring
               PROVE  p.at + 4 + p.length <= calculateblocks(recvbufferBytes) * BlockSize
    BY DEF DmaWithinBlocks
  <2> DEFINE room == calculateblocks(recvbufferBytes) * BlockSize
  <2>1. p.at \in 0 .. RecBufferSize - 1 /\ p.at % 4 = 0 /\ p.length \in Lengths
    BY DEF IInv, TypeOK
  <2>2. p.length \in Nat /\ p.length <= 1518
    BY <2>1, PacketAssumption
  <2>3. RecBufferSize \in Nat /\ RecBufferSize % 4 = 0
    BY RingAssumption
  <2>4. p.at <= RecBufferSize - 4
    BY <2>1, <2>3
  <2>5. room \in Nat
    BY <2>3, BlocksCoverBytes, MemoryAssumption DEF recvbufferBytes
  <2>6. RecBufferSize + 1518 <= room
    BY BlocksHoldOverhang
  <2> HIDE DEF room
  <2>7. p.at + 4 + p.length <= room
    BY <2>1, <2>2, <2>3, <2>4, <2>5, <2>6
  <2> QED
    BY <2>7 DEF room
<1> QED
  BY AlwaysIInv, <1>1, PTL
=============================================================================
