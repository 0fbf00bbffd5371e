------------------------------ MODULE MCKernel ------------------------------
(* Heaps of eight blocks and fewer: the kernel's one, a page table and the
   directory, three for the receive buffer, one for the transmit buffer, and
   one for the packet in flight.  A length of 5000 is what recvpacket may read
   from the wrong place; there is no room for it. *)
EXTENDS Kernel

MCInitialBitmaps == {[i \in Blocks |-> v] : v \in {0, 1}}
MCRequests == {PageBytes, ReceiveBytes, TransmitBytes, 64, 5000}
=============================================================================
