---------------------------------- MODULE Pci ----------------------------------
(***************************************************************************)
(* The enumeration of the PCI bus: Kernel/PCI/PCI.c.  Every access writes  *)
(* the address register and then uses the data register, which the model   *)
(* keeps as the latch.  What another program does to the latch between the *)
(* two is in Kernel; the enumeration runs in the keyboard's handler, with  *)
(* interrupts off.                                                         *)
(***************************************************************************)
EXTENDS Integers, SequencesExt

CONSTANTS
  BusCount, DeviceCount,  \* 8 and 32 in enumeratedevices
  Machines                \* by bus and device, the functions that answer and
                          \* their registers; none if there is no device

MaxFunctions == 8
MaxBars == 6

Places == (0 .. BusCount - 1) \X (0 .. DeviceCount - 1)

(* The registers of a function: those that the code reads. *)
IsFunction(registers) ==
  /\ registers.vendor \in Nat /\ 0 < registers.vendor /\ registers.vendor < 65535
  /\ registers.cacheline \in Nat /\ registers.cacheline < 256
  /\ registers.header \in Nat /\ registers.header < 256
  /\ registers.bars \in [0 .. MaxBars - 1 -> Nat]

(* A device that answers has a function 0. *)
IsDevice(functions) ==
  /\ DOMAIN functions \subseteq 0 .. MaxFunctions - 1
  /\ DOMAIN functions = {} \/ 0 \in DOMAIN functions
  /\ \A f \in DOMAIN functions : IsFunction(functions[f])

ASSUME PciAssumption ==
  /\ BusCount \in Nat \ {0} /\ DeviceCount \in Nat \ {0}
  /\ \A m \in Machines : \A place \in Places : IsDevice(m[place])

VARIABLES
  machine,
  pc,                                        \* "check", "function", "bar" or "done"
  bus, device, function, numfunctions, b,    \* locals of enumeratedevices
  portbase,                                  \* d.portbase
  latch,                                     \* the address register
  listed                                     \* the functions printed

vars == <<machine, pc, bus, device, function, numfunctions, b, portbase, latch, listed>>

(* A value that nobody has stored, from the stack. *)
Indeterminate == -1

(* No device drives the bus: every bit reads as one. *)
AllOnes == -1

(* The register of four bytes that an address selects, of those whose value is
   used. *)
Register(address) ==
  LET functions == machine[<<address.bus, address.device>>]
      registers == functions[address.function]
      offset    == address.offset
  IN  IF address.function \notin DOMAIN functions THEN AllOnes
      ELSE IF offset = 0 THEN registers.vendor
      ELSE IF offset = 12 THEN registers.cacheline + 65536 * registers.header
      ELSE registers.bars[(offset - 16) \div 4]

(* offset & 0xFC *)
Address(atFunction, offset) ==
  [bus |-> bus, device |-> device, function |-> atFunction, offset |-> offset - (offset % 4)]

readpci(atFunction, offset) == latch' = Address(atFunction, offset)
Value(atFunction, offset) == Register(Address(atFunction, offset))

Init ==
  /\ machine \in Machines /\ pc = "check"
  /\ bus = 0 /\ device = 0 /\ function = 0 /\ numfunctions = 0 /\ b = 0
  /\ portbase = Indeterminate /\ listed = <<>>
  /\ latch = [bus |-> 0, device |-> 0, function |-> 0, offset |-> 0]

(* Offset 0x0E, of which readpci takes 0x0C: bit 7 is one of the cache line size. *)
devicefunctioninfo == (Value(0, 14) \div 128) % 2 = 1

checkfunctions ==
  /\ pc = "check"
  /\ readpci(0, 14)
  /\ numfunctions' = IF devicefunctioninfo THEN MaxFunctions ELSE 1
  /\ function' = 0 /\ pc' = "function"
  /\ UNCHANGED <<machine, bus, device, b, portbase, listed>>

(* Mutant: what has no vendor is not skipped. *)
noVendorUnchecked == FALSE

noVendor == Value(function, 0) % 65536 \in {0, 65535}

(* The last register that getdeviceinfo reads is the interrupt line. *)
getdeviceinfo ==
  /\ pc = "function" /\ function < numfunctions
  /\ IF noVendor
     THEN function' = function + 1 /\ UNCHANGED <<pc, b, portbase>>
     ELSE pc' = "bar" /\ b' = 0 /\ portbase' = Indeterminate /\ UNCHANGED function
  /\ readpci(function, 60)
  /\ UNCHANGED <<machine, bus, device, numfunctions, listed>>

max == 6 - 4 * (Value(function, 14) % 128)

(* Mutant: base address registers are two bytes apart. *)
barOffsetShort == 16 + 2 * b

barOffset == 16 + 4 * b

(* Past max nothing of br is written, and its type may read as I/O. *)
Getdeviceaddr ==
  /\ pc = "bar" /\ b < MaxBars
  /\ b' = b + 1
  /\ IF b >= max
     THEN readpci(function, 14) /\ portbase' \in {portbase, Indeterminate}
     ELSE /\ readpci(function, barOffset)
          /\ LET bv == Value(function, barOffset)
             IN  portbase' = IF bv % 2 = 1 /\ bv > 3 THEN bv - (bv % 4) ELSE portbase
  /\ UNCHANGED <<machine, pc, bus, device, function, numfunctions, listed>>

kernelprint ==
  /\ pc = "bar" /\ b = MaxBars
  /\ listed' = Append(listed, <<bus, device, function>>)
  /\ function' = function + 1 /\ pc' = "function"
  /\ UNCHANGED <<machine, bus, device, numfunctions, b, portbase, latch>>

(* Mutant: device <= 32. *)
lastDeviceAbove == device = DeviceCount

lastDevice == device = DeviceCount - 1

nextdevice ==
  /\ pc = "function" /\ function = numfunctions
  /\ IF ~lastDevice
     THEN device' = device + 1 /\ pc' = "check" /\ UNCHANGED bus
     ELSE /\ device' = 0 /\ bus' = bus + 1
          /\ pc' = IF bus < BusCount - 1 THEN "check" ELSE "done"
  /\ UNCHANGED <<machine, function, numfunctions, b, portbase, latch, listed>>

Next == checkfunctions \/ getdeviceinfo \/ Getdeviceaddr \/ kernelprint \/ nextdevice

Spec == Init /\ [][Next]_vars

-----------------------------------------------------------------------------
(* Every variable has its type. *)
TypeOK ==
  /\ pc \in {"check", "function", "bar", "done"}
  /\ bus \in 0 .. BusCount /\ device \in 0 .. DeviceCount - 1
  /\ function \in 0 .. MaxFunctions /\ numfunctions \in {0, 1, MaxFunctions} /\ b \in 0 .. MaxBars
  /\ portbase \in Nat \cup {Indeterminate}
  /\ latch \in [bus : 0 .. BusCount - 1, device : 0 .. DeviceCount - 1,
                function : 0 .. MaxFunctions - 1, offset : 0 .. 60]

(* Bit 7 of the header type says that a device has further functions.  A device
   without it may answer to any function number as if it were 0. *)
FunctionsOf(place) ==
  IF DOMAIN machine[place] # {} /\ machine[place][0].header < 128 THEN {0}
  ELSE DOMAIN machine[place]
AllFunctions == {<<p[1], p[2], f>> : p \in Places, f \in 0 .. MaxFunctions - 1}
Existing == {l \in AllFunctions : l[3] \in FunctionsOf(<<l[1], l[2]>>)}

(* The bit that devicefunctioninfo tests happens to be the one it should test. *)
SizeTellsFunctions ==
  \A place \in Places : DOMAIN machine[place] # {} =>
    (machine[place][0].cacheline >= 128 <=> machine[place][0].header >= 128)

Before(l, m) ==
  \/ l[1] < m[1]
  \/ l[1] = m[1] /\ l[2] < m[2]
  \/ l[1] = m[1] /\ l[2] = m[2] /\ l[3] < m[3]

(* enumeratedevices prints no function twice, goes by bus, device and function,
   and prints nothing that does not answer: neither the absent devices, of which
   it probes all eight functions, nor the gaps (line 92).  In the end every
   device is in the list, at least with its function 0; and the list is that of
   the machine's functions, where the cache line size happens to have the bit
   that the header type should have. *)
ListedAsPresent ==
  /\ \A i, j \in DOMAIN listed : i < j => Before(listed[i], listed[j])
  /\ \A l \in Range(listed) : l[3] \in DOMAIN machine[<<l[1], l[2]>>]
  /\ pc = "done" =>
       /\ \A place \in Places :
            DOMAIN machine[place] # {} => <<place[1], place[2], 0>> \in Range(listed)
       /\ SizeTellsFunctions => Range(listed) = Existing

(* A function with a cache line size of 0 has, when it is printed, the base of
   its last I/O register as its port base, whatever its other registers are and
   whatever the stack held for the fields that Getdeviceaddr leaves alone; if it
   has no such register the port base has not been stored at all. *)
PortbaseFromBar ==
  (pc = "bar" /\ b = MaxBars) =>
    LET registers == machine[<<bus, device>>][function]
        ports     == {i \in 0 .. MaxBars - 1 : registers.bars[i] % 2 = 1 /\ registers.bars[i] > 3}
    IN  registers.cacheline = 0 =>
          IF ports = {} THEN portbase = Indeterminate
          ELSE portbase = LET bar == registers.bars[Max(ports)] IN bar - (bar % 4)
=============================================================================
