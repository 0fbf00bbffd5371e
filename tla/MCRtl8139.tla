----------------------------- MODULE MCRtl8139 -----------------------------
(* The real ring.  Five packets of the greatest length and one of 564 bytes
   bring the card to 8188, the last offset of the ring, where the next packet
   reaches past its end.  What is no header says nothing, the length of another
   packet, or the greatest number there is. *)
EXTENDS Rtl8139

MCLengths == {564, 1518}
MCJunkLengths == {0, 1518, 65535}
=============================================================================
