--------------------------- MODULE BlockAllocator ---------------------------
(***************************************************************************)
(* What the physical memory manager promises the rest of the kernel,       *)
(* without its bitmap: a request for b bytes is granted a range of the     *)
(* heap that no other holder has, or is refused, and it is refused only    *)
(* when no grain-aligned place of the heap has room for it.                *)
(***************************************************************************)
EXTENDS Integers

CONSTANTS
  Low,       \* first address handed out
  High,      \* first address past the heap
  Grain,     \* the unit in which memory is handed out
  Requests   \* the byte counts that callers ask for

VARIABLES
  held,      \* the grants not returned yet: records [mem, bytes]
  stopped    \* a request was refused; the kernel is halted

vars == <<held, stopped>>

(* A grant of b bytes takes whole grains, and at least one. *)
Extent(b) == IF b <= Grain THEN Grain ELSE ((b + Grain - 1) \div Grain) * Grain

(* The n bytes from m on are in the heap and belong to no grant. *)
Room(m, n) ==
  /\ Low <= m /\ m + n <= High
  /\ \A h \in held : m + n <= h.mem \/ h.mem + Extent(h.bytes) <= m

Init ==
  /\ held = {}
  /\ stopped = FALSE

Grant(b) ==
  /\ ~stopped
  /\ \E m \in Low .. High :
       /\ Room(m, Extent(b))
       /\ held' = held \cup {[mem |-> m, bytes |-> b]}
  /\ UNCHANGED stopped

Refuse(b) ==
  /\ ~stopped
  /\ \A k \in 0 .. (High - Low) : ~Room(Low + k * Grain, Extent(b))
  /\ stopped' = TRUE
  /\ UNCHANGED held

Return(h) ==
  /\ ~stopped
  /\ held' = held \ {h}
  /\ UNCHANGED stopped

Next ==
  \/ \E b \in Requests : Grant(b) \/ Refuse(b)
  \/ \E h \in held : Return(h)

Spec == Init /\ [][Next]_vars
=============================================================================
