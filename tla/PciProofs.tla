------------------------------ MODULE PciProofs ------------------------------
(***************************************************************************)
(* What enumeratedevices lists, for every number of buses and devices and  *)
(* every machine.                                                          *)
(***************************************************************************)
EXTENDS Pci, SequenceTheorems, TLAPS

Functions == 0 .. MaxFunctions - 1
Bars == 0 .. MaxBars - 1
Here == <<bus, device>>
Registers(place, f) == machine[place][f]

(* The functions that are probed at a place: of an absent device all of them,
   since all ones have the bit that is tested. *)
Probed(place) ==
  IF 0 \in DOMAIN machine[place] /\ machine[place][0].cacheline < 128 THEN 1 ELSE MaxFunctions

(* The loops have passed a function. *)
Passed(l) ==
  \/ l[1] < bus
  \/ l[1] = bus /\ l[2] < device
  \/ l[1] = bus /\ l[2] = device /\ pc \in {"function", "bar"} /\ l[3] < function

(* What they list of the functions they have passed. *)
Answering(l) == l[3] < Probed(<<l[1], l[2]>>) /\ l[3] \in DOMAIN machine[<<l[1], l[2]>>]

IsPort(bar) == bar % 2 = 1 /\ bar > 3
BaseOf(bar) == bar - (bar % 4)

Counters ==
  /\ machine \in Machines
  /\ pc = "done" <=> bus = BusCount
  /\ pc \in {"function", "bar"} => numfunctions = Probed(Here) /\ function <= numfunctions
  /\ pc = "bar" => function < numfunctions /\ function \in DOMAIN machine[Here]

Listed ==
  /\ listed \in Seq(AllFunctions)
  /\ Range(listed) = {l \in AllFunctions : Passed(l) /\ Answering(l)}
  /\ \A i, j \in DOMAIN listed : i < j => Before(listed[i], listed[j])

(* The port base is that of the last port so far, or has not been stored. *)
PortbaseSoFar ==
  pc = "bar" /\ Registers(Here, function).cacheline = 0 =>
    LET bars == Registers(Here, function).bars
    IN  \/ portbase = Indeterminate /\ \A k \in 0 .. b - 1 : ~IsPort(bars[k])
        \/ \E k \in 0 .. b - 1 :
             /\ IsPort(bars[k]) /\ portbase = BaseOf(bars[k])
             /\ \A m \in k + 1 .. b - 1 : ~IsPort(bars[m])

IInv == TypeOK /\ Counters /\ Listed /\ PortbaseSoFar

-----------------------------------------------------------------------------
LEMMA CountTypes == BusCount \in Nat \ {0} /\ DeviceCount \in Nat \ {0}
BY PciAssumption, Zenon

(* A function of a machine, and the place of a tuple that names one. *)
LEMMA FunctionTypes ==
  ASSUME machine \in Machines, NEW place \in Places, NEW f \in DOMAIN machine[place]
  PROVE  /\ f \in Functions /\ f \in Nat /\ 0 \in DOMAIN machine[place]
         /\ Registers(place, f).vendor \in Nat /\ Registers(place, f).vendor > 0
         /\ Registers(place, f).vendor < 65535
         /\ Registers(place, f).cacheline \in Nat /\ Registers(place, f).cacheline < 256
         /\ Registers(place, f).header \in Nat /\ Registers(place, f).header < 256
         /\ Registers(place, f).bars \in [Bars -> Nat]
<1>1. IsDevice(machine[place])
  BY PciAssumption, Zenon
<1> HIDE DEF IsDevice
<1>2. f \in 0 .. MaxFunctions - 1 /\ 0 \in DOMAIN machine[place] /\ IsFunction(machine[place][f])
  BY <1>1, Zenon DEF IsDevice
<1>3. f \in Functions /\ f \in Nat
  BY <1>2 DEF Functions
<1>4. IsFunction(Registers(place, f))
  BY <1>2, Zenon DEF Registers
<1> QED
  BY <1>2, <1>3, <1>4 DEF IsFunction, Bars

LEMMA Tuples ==
  ASSUME NEW l
  PROVE  l \in AllFunctions <=>
           \E x \in 0 .. BusCount - 1, y \in 0 .. DeviceCount - 1, f \in Functions : l = <<x, y, f>>
<1>1. ASSUME l \in AllFunctions
      PROVE  \E x \in 0 .. BusCount - 1, y \in 0 .. DeviceCount - 1, f \in Functions : l = <<x, y, f>>
  <2>1. PICK p \in Places, f \in Functions : l = <<p[1], p[2], f>>
    BY <1>1 DEF AllFunctions, Functions
  <2>2. p[1] \in 0 .. BusCount - 1 /\ p[2] \in 0 .. DeviceCount - 1
    BY DEF Places
  <2> QED
    BY <2>1, <2>2, Zenon
<1>2. ASSUME NEW x \in 0 .. BusCount - 1, NEW y \in 0 .. DeviceCount - 1, NEW f \in Functions,
             l = <<x, y, f>>
      PROVE  l \in AllFunctions
  <2>1. <<x, y>> \in Places /\ l = <<<<x, y>>[1], <<x, y>>[2], f>>
    BY <1>2 DEF Places
  <2> QED
    BY <2>1 DEF AllFunctions, Functions
<1> QED
  BY <1>1, <1>2

LEMMA TupleTypes ==
  ASSUME NEW l \in AllFunctions
  PROVE  /\ l[1] \in 0 .. BusCount - 1 /\ l[2] \in 0 .. DeviceCount - 1
         /\ l[3] \in Functions /\ l[3] \in Nat /\ l = <<l[1], l[2], l[3]>>
         /\ <<l[1], l[2]>> \in Places
<1>1. PICK x \in 0 .. BusCount - 1, y \in 0 .. DeviceCount - 1, f \in Functions : l = <<x, y, f>>
  BY Tuples
<1>2. <<x, y>> \in Places
  BY DEF Places
<1> QED
  BY <1>1, <1>2 DEF Functions

LEMMA ProbedRange ==
  ASSUME NEW place
  PROVE  /\ Probed(place) \in {1, MaxFunctions} /\ Probed(place) \in Nat
         /\ Probed(place) >= 1 /\ Probed(place) <= 8
BY DEF Probed, MaxFunctions

(* The place that the loops are at, until they end. *)
LEMMA HereTypes ==
  ASSUME TypeOK, Counters, pc # "done"
  PROVE  /\ bus \in 0 .. BusCount - 1 /\ device \in 0 .. DeviceCount - 1
         /\ Here \in Places /\ bus \in Nat /\ device \in Nat /\ function \in Nat
<1>1. bus \in 0 .. BusCount - 1
  BY CountTypes DEF TypeOK, Counters
<1> QED
  BY <1>1 DEF TypeOK, Here, Places

(* What an access reads. *)
LEMMA Values ==
  ASSUME NEW f, NEW offset \in Nat
  PROVE  /\ f \notin DOMAIN machine[Here] => Value(f, offset) = AllOnes
         /\ f \in DOMAIN machine[Here] =>
              /\ offset = 0 => Value(f, offset) = Registers(Here, f).vendor
              /\ offset = 14 => Value(f, offset) = Registers(Here, f).cacheline
                                                     + 65536 * Registers(Here, f).header
              /\ \A k \in Bars : offset = 16 + 4 * k
                   => Value(f, offset) = Registers(Here, f).bars[k]
<1> DEFINE a == Address(f, offset)
<1>1. /\ a.bus = bus /\ a.device = device /\ a.function = f
      /\ a.offset = offset - (offset % 4)
  BY DEF Address
<1>2. <<a.bus, a.device>> = Here
  BY <1>1 DEF Here
<1>3. Value(f, offset) = Register(a)
  BY DEF Value
<1> HIDE DEF a
<1>4. CASE f \notin DOMAIN machine[Here]
  BY <1>1, <1>2, <1>3, <1>4 DEF Register
<1>5. CASE f \in DOMAIN machine[Here]
  <2> DEFINE r == Registers(Here, f)
             o == a.offset
  <2>1. Register(a) = IF o = 0 THEN r.vendor
                      ELSE IF o = 12 THEN r.cacheline + 65536 * r.header
                      ELSE r.bars[(o - 16) \div 4]
    BY <1>1, <1>2, <1>5 DEF Register, Registers
  <2> HIDE DEF r
  <2>2. offset = 0 => Register(a) = r.vendor
    BY <1>1, <2>1
  <2>3. offset = 14 => Register(a) = r.cacheline + 65536 * r.header
    BY <1>1, <2>1
  <2>4. ASSUME NEW k \in Bars, offset = 16 + 4 * k
        PROVE  Register(a) = r.bars[k]
    <3>1. o = 16 + 4 * k /\ k \in 0 .. 5
      BY <1>1, <2>4 DEF Bars, MaxBars
    <3>2. ~(o = 0) /\ ~(o = 12) /\ (o - 16) \div 4 = k
      BY <3>1
    <3> HIDE DEF o
    <3> QED
      BY <2>1, <3>2
  <2> QED
    BY <1>3, <1>5, <2>2, <2>3, <2>4 DEF r
<1> QED
  BY <1>4, <1>5

(* The three tests: a function with a vendor is there, the bit that is tested
   is one of the cache line size, and that size of 0 lets every register of a
   function be read. *)
LEMMA Tests ==
  ASSUME TypeOK, Counters, pc # "done"
  PROVE  /\ devicefunctioninfo <=> Probed(Here) = MaxFunctions
         /\ ~noVendor <=> function \in DOMAIN machine[Here]
         /\ function \in DOMAIN machine[Here] /\ Registers(Here, function).cacheline = 0
              => max = 6
<1>1. Here \in Places /\ machine \in Machines
  BY HereTypes DEF Counters
<1>2. devicefunctioninfo <=> Probed(Here) = MaxFunctions
  <2>1. CASE 0 \notin DOMAIN machine[Here]
    <3>1. Value(0, 14) = -1
      BY <2>1, Values DEF AllOnes
    <3> QED
      BY <2>1, <3>1 DEF devicefunctioninfo, Probed
  <2>2. CASE 0 \in DOMAIN machine[Here]
    <3> DEFINE c == Registers(Here, 0).cacheline
               h == Registers(Here, 0).header
    <3>1. c \in Nat /\ c < 256 /\ h \in Nat /\ h < 256
      BY <1>1, <2>2, FunctionTypes
    <3>2. Value(0, 14) = c + 65536 * h
      BY <2>2, Values
    <3>3. Probed(Here) = IF c < 128 THEN 1 ELSE MaxFunctions
      BY <2>2 DEF Probed, Registers
    <3> HIDE DEF c, h
    <3>4. (c + 65536 * h) \div 128 = 512 * h + c \div 128
      BY <3>1
    <3>5. c \div 128 = IF c < 128 THEN 0 ELSE 1
      BY <3>1
    <3>6. devicefunctioninfo <=> c >= 128
      BY <3>1, <3>2, <3>4, <3>5 DEF devicefunctioninfo
    <3> QED
      BY <3>1, <3>3, <3>6 DEF MaxFunctions
  <2> QED
    BY <2>1, <2>2
<1>3. ~noVendor <=> function \in DOMAIN machine[Here]
  <2>1. CASE function \notin DOMAIN machine[Here]
    <3>1. Value(function, 0) = -1
      BY <2>1, Values DEF AllOnes
    <3> QED
      BY <2>1, <3>1 DEF noVendor
  <2>2. CASE function \in DOMAIN machine[Here]
    <3>1. Value(function, 0) \in Nat /\ 0 < Value(function, 0) /\ Value(function, 0) < 65535
      BY <1>1, <2>2, Values, FunctionTypes
    <3> QED
      BY <2>2, <3>1 DEF noVendor
  <2> QED
    BY <2>1, <2>2
<1>4. ASSUME function \in DOMAIN machine[Here], Registers(Here, function).cacheline = 0
      PROVE  max = 6
  <2>1. Registers(Here, function).header \in Nat
    BY <1>1, <1>4, FunctionTypes
  <2>2. Value(function, 14) = 0 + 65536 * Registers(Here, function).header
    BY <1>4, Values
  <2>3. Value(function, 14) % 128 = 0
    BY <2>1, <2>2
  <2> QED
    BY <2>3 DEF max
<1> QED
  BY <1>2, <1>3, <1>4

(* The range of a list with one more element. *)
LEMMA RangeAppend ==
  ASSUME NEW S, NEW s \in Seq(S), NEW e \in S
  PROVE  Range(Append(s, e)) = Range(s) \cup {e}
<1>1. /\ DOMAIN s = 1 .. Len(s) /\ DOMAIN Append(s, e) = 1 .. Len(s) + 1
      /\ Append(s, e)[Len(s) + 1] = e /\ Len(s) \in Nat
      /\ \A k \in 1 .. Len(s) : Append(s, e)[k] = s[k]
  OBVIOUS
<1>2. 1 .. Len(s) + 1 = 1 .. Len(s) \cup {Len(s) + 1}
  BY <1>1
<1> QED
  BY <1>1, <1>2 DEF Range

(* The address register after an access. *)
LEMMA LatchType ==
  ASSUME TypeOK, Counters, pc # "done", NEW f \in Functions, NEW offset \in 0 .. 60
  PROVE  Address(f, offset) \in [bus : 0 .. BusCount - 1, device : 0 .. DeviceCount - 1,
                                 function : 0 .. MaxFunctions - 1, offset : 0 .. 60]
<1>1. offset - (offset % 4) \in 0 .. 60
  OBVIOUS
<1> QED
  BY <1>1, HereTypes DEF Address, Functions

(* A step that prints nothing and passes nothing that answers. *)
LEMMA ListedKept ==
  ASSUME Listed, UNCHANGED <<machine, listed>>,
         \A l \in AllFunctions : Answering(l) => (Passed(l)' <=> Passed(l))
  PROVE  Listed'
<1>1. \A l : Answering(l)' <=> Answering(l)
  BY DEF Answering, Probed
<1>2. {l \in AllFunctions : Passed(l)' /\ Answering(l)'}
        = {l \in AllFunctions : Passed(l) /\ Answering(l)}
  BY <1>1
<1>3. listed' = listed
  OBVIOUS
<1> QED
  BY <1>2, <1>3, Zenon DEF Listed

LEMMA InitIInv == Init => IInv
<1> SUFFICES ASSUME Init PROVE IInv
  OBVIOUS
<1>1. TypeOK
  BY CountTypes DEF Init, TypeOK, MaxFunctions, MaxBars, Indeterminate
<1>2. Counters
  BY CountTypes DEF Init, Counters
<1>3. Listed
  <2>1. listed = <<>> /\ listed \in Seq(AllFunctions) /\ DOMAIN listed = {}
    BY DEF Init
  <2>2. Range(listed) = {}
    BY <2>1 DEF Range
  <2>3. ASSUME NEW l \in AllFunctions
        PROVE  ~Passed(l)
    <3>1. l[1] \in 0 .. BusCount - 1 /\ l[2] \in 0 .. DeviceCount - 1
      BY <2>3, TupleTypes, Zenon
    <3> QED
      BY <3>1, CountTypes DEF Init, Passed
  <2> QED
    BY <2>1, <2>2, <2>3 DEF Listed
<1>4. PortbaseSoFar
  BY DEF Init, PortbaseSoFar
<1> QED
  BY <1>1, <1>2, <1>3, <1>4 DEF IInv

LEMMA CheckKeeps == ASSUME IInv, checkfunctions PROVE IInv'
<1> USE DEF IInv
<1>1. pc = "check" /\ pc # "done" /\ pc' = "function" /\ function' = 0
      /\ UNCHANGED <<machine, bus, device, b, portbase, listed>>
  BY DEF checkfunctions
<1>2. numfunctions' = Probed(Here) /\ numfunctions' \in {1, MaxFunctions}
  BY <1>1, Tests, ProbedRange DEF checkfunctions, MaxFunctions
<1>3. TypeOK'
  <2>1. latch' \in [bus : 0 .. BusCount - 1, device : 0 .. DeviceCount - 1,
                    function : 0 .. MaxFunctions - 1, offset : 0 .. 60]
    <3>1. 0 \in Functions /\ 14 \in 0 .. 60
      BY DEF Functions, MaxFunctions
    <3>2. latch' = Address(0, 14)
      BY DEF checkfunctions, readpci
    <3> QED
      BY <1>1, <3>1, <3>2, LatchType, Zenon
  <2> QED
    BY <1>1, <1>2, <2>1 DEF TypeOK, MaxFunctions
<1>4. Counters'
  <2>1. Probed(Here)' = Probed(Here)
    BY <1>1 DEF Probed, Here
  <2> QED
    BY <1>1, <1>2, <2>1 DEF Counters, MaxFunctions
<1>5. Listed'
  <2>1. ASSUME NEW l \in AllFunctions
        PROVE  Passed(l)' <=> Passed(l)
    <3>1. l[3] \in Nat
      BY <2>1, TupleTypes, Zenon
    <3> QED
      BY <1>1, <3>1 DEF Passed
  <2> QED
    BY <1>1, <2>1, ListedKept
<1>6. PortbaseSoFar'
  BY <1>1 DEF PortbaseSoFar
<1> QED
  BY <1>3, <1>4, <1>5, <1>6

LEMMA InfoKeeps == ASSUME IInv, getdeviceinfo PROVE IInv'
<1> USE DEF IInv
<1>1. pc = "function" /\ pc # "done" /\ function < numfunctions
      /\ UNCHANGED <<machine, bus, device, numfunctions, listed>>
  BY DEF getdeviceinfo
<1>2. function \in Functions /\ function \in Nat /\ numfunctions = Probed(Here)
      /\ numfunctions \in Nat
  BY <1>1, ProbedRange, HereTypes DEF Counters, Functions, MaxFunctions
<1>3. \/ /\ function \notin DOMAIN machine[Here] /\ function' = function + 1
         /\ UNCHANGED <<pc, b, portbase>>
      \/ /\ function \in DOMAIN machine[Here] /\ pc' = "bar" /\ b' = 0
         /\ portbase' = Indeterminate /\ function' = function
  BY <1>1, Tests DEF getdeviceinfo
<1>4. TypeOK'
  <2>1. latch' \in [bus : 0 .. BusCount - 1, device : 0 .. DeviceCount - 1,
                    function : 0 .. MaxFunctions - 1, offset : 0 .. 60]
    <3>1. 60 \in 0 .. 60 /\ latch' = Address(function, 60)
      BY DEF getdeviceinfo, readpci
    <3> QED
      BY <1>1, <1>2, <3>1, LatchType, Zenon
  <2>2. function' \in 0 .. MaxFunctions
    BY <1>2, <1>3 DEF Functions, MaxFunctions
  <2>3. /\ pc' \in {"check", "function", "bar", "done"}
        /\ b' \in 0 .. MaxBars /\ portbase' \in Nat \cup {Indeterminate}
    BY <1>3 DEF TypeOK, MaxBars
  <2> QED
    BY <1>1, <2>1, <2>2, <2>3 DEF TypeOK
<1>5. Counters'
  <2>1. Here' = Here /\ Probed(Here)' = Probed(Here)
    BY <1>1 DEF Probed, Here
  <2> QED
    <3>1. machine' \in Machines /\ (pc' = "done" <=> bus' = BusCount)
      BY <1>1, <1>3 DEF Counters
    <3>2. numfunctions' = Probed(Here)' /\ function' <= numfunctions'
      BY <1>1, <1>2, <1>3, <2>1
    <3>3. pc' = "bar" => function' < numfunctions' /\ function' \in DOMAIN machine'[Here']
      BY <1>1, <1>2, <1>3, <2>1
    <3> QED
      BY <3>1, <3>2, <3>3 DEF Counters
<1>6. Listed'
  <2>1. ASSUME NEW l \in AllFunctions, Answering(l)
        PROVE  Passed(l)' <=> Passed(l)
    <3>1. CASE function \in DOMAIN machine[Here]
      BY <1>1, <1>3, <3>1 DEF Passed
    <3>2. CASE function \notin DOMAIN machine[Here]
      <4>1. l[1] = bus /\ l[2] = device => l[3] # function
        BY <2>1, <3>2 DEF Answering, Here
      <4>2. l[3] \in Nat /\ function \in Nat
        BY <1>2, <2>1, TupleTypes, Zenon
      <4> QED
        BY <1>1, <1>3, <3>2, <4>1, <4>2 DEF Passed
    <3> QED
      BY <3>1, <3>2
  <2> QED
    BY <1>1, <2>1, ListedKept
<1>7. PortbaseSoFar'
  <2>1. CASE pc' = "bar"
    <3>1. portbase' = Indeterminate /\ 0 .. b' - 1 = {}
      BY <1>1, <1>3, <2>1
    <3> QED
      BY <3>1 DEF PortbaseSoFar
  <2>2. CASE pc' # "bar"
    BY <2>2 DEF PortbaseSoFar
  <2> QED
    BY <2>1, <2>2
<1> QED
  BY <1>4, <1>5, <1>6, <1>7

LEMMA DeviceaddrKeeps == ASSUME IInv, Getdeviceaddr PROVE IInv'
<1> USE DEF IInv
<1> DEFINE r == Registers(Here, function)
<1>1. pc = "bar" /\ pc # "done" /\ b < MaxBars /\ b' = b + 1
      /\ UNCHANGED <<machine, pc, bus, device, function, numfunctions, listed>>
  BY DEF Getdeviceaddr
<1>2. /\ function \in Functions /\ function \in Nat /\ numfunctions = Probed(Here)
      /\ function \in DOMAIN machine[Here] /\ b \in Bars /\ b \in Nat
  BY <1>1, ProbedRange, HereTypes DEF Counters, Functions, MaxFunctions, TypeOK, Bars, MaxBars
<1>3. r.bars \in [Bars -> Nat] /\ r.bars[b] \in Nat
  BY <1>1, <1>2, HereTypes, FunctionTypes DEF Counters
<1>4. Value(function, barOffset) = r.bars[b]
  BY <1>2, Values DEF barOffset
<1>5. \/ b >= max /\ latch' = Address(function, 14) /\ portbase' \in {portbase, Indeterminate}
      \/ /\ ~(b >= max) /\ latch' = Address(function, barOffset)
         /\ portbase' = IF IsPort(r.bars[b]) THEN BaseOf(r.bars[b]) ELSE portbase
  BY <1>4 DEF Getdeviceaddr, readpci, IsPort, BaseOf
<1> HIDE DEF r
<1>6. BaseOf(r.bars[b]) \in Nat
  BY <1>3 DEF BaseOf
<1>7. TypeOK'
  <2>1. latch' \in [bus : 0 .. BusCount - 1, device : 0 .. DeviceCount - 1,
                    function : 0 .. MaxFunctions - 1, offset : 0 .. 60]
    <3>1. 14 \in 0 .. 60 /\ barOffset \in 0 .. 60
      BY <1>2 DEF barOffset, Bars, MaxBars
    <3>2. /\ TypeOK /\ Counters /\ pc # "done" /\ function \in Functions
          /\ (latch' = Address(function, 14) \/ latch' = Address(function, barOffset))
      BY <1>1, <1>2, <1>5, Zenon
    <3> HIDE DEF IInv
    <3>3. CASE latch' = Address(function, 14)
      BY <3>1, <3>2, <3>3, LatchType, Zenon
    <3>4. CASE latch' = Address(function, barOffset)
      BY <3>1, <3>2, <3>4, LatchType, Zenon
    <3> QED
      BY <3>2, <3>3, <3>4, Zenon
  <2>2. portbase' \in Nat \cup {Indeterminate}
    BY <1>5, <1>6 DEF TypeOK
  <2>3. b' \in 0 .. MaxBars
    BY <1>1, <1>2 DEF Bars, MaxBars
  <2> QED
    BY <1>1, <2>1, <2>2, <2>3 DEF TypeOK
<1>8. Counters'
  <2>1. Here' = Here /\ Probed(Here)' = Probed(Here)
    BY <1>1 DEF Probed, Here
  <2> QED
    BY <1>1, <2>1 DEF Counters
<1>9. Listed'
  <2>1. ASSUME NEW l \in AllFunctions
        PROVE  Passed(l)' <=> Passed(l)
    BY <1>1 DEF Passed
  <2> QED
    BY <1>1, <2>1, ListedKept
<1>10. PortbaseSoFar'
  <2>1. Registers(Here, function)' = r
    BY <1>1 DEF Registers, Here, r
  <2> DEFINE bars == r.bars
  <2>2. ASSUME r.cacheline = 0
        PROVE  \/ portbase' = Indeterminate /\ \A k \in 0 .. b : ~IsPort(bars[k])
               \/ \E k \in 0 .. b :
                    /\ IsPort(bars[k]) /\ portbase' = BaseOf(bars[k])
                    /\ \A m \in k + 1 .. b : ~IsPort(bars[m])
    <3>1. portbase' = IF IsPort(bars[b]) THEN BaseOf(bars[b]) ELSE portbase
      <4>1. max = 6
        BY <1>1, <1>2, <2>2, Tests DEF r
      <4> QED
        BY <1>2, <1>5, <4>1 DEF Bars, MaxBars
    <3>2. \/ portbase = Indeterminate /\ \A k \in 0 .. b - 1 : ~IsPort(bars[k])
          \/ \E k \in 0 .. b - 1 :
               /\ IsPort(bars[k]) /\ portbase = BaseOf(bars[k])
               /\ \A m \in k + 1 .. b - 1 : ~IsPort(bars[m])
      BY <1>1, <2>2 DEF PortbaseSoFar, r
    <3> HIDE DEF bars
    <3>3. CASE IsPort(bars[b])
      <4>1. b \in 0 .. b /\ b + 1 .. b = {}
        BY <1>2
      <4> QED
        BY <3>1, <3>3, <4>1
    <3>4. CASE ~IsPort(bars[b])
      <4>1. CASE portbase = Indeterminate /\ \A k \in 0 .. b - 1 : ~IsPort(bars[k])
        <5>1. 0 .. b = 0 .. b - 1 \cup {b}
          BY <1>2
        <5> QED
          BY <3>1, <3>4, <4>1, <5>1
      <4>2. ASSUME NEW k \in 0 .. b - 1,
                   IsPort(bars[k]), portbase = BaseOf(bars[k]),
                   \A m \in k + 1 .. b - 1 : ~IsPort(bars[m])
            PROVE  \E n \in 0 .. b :
                     /\ IsPort(bars[n]) /\ portbase' = BaseOf(bars[n])
                     /\ \A m \in n + 1 .. b : ~IsPort(bars[m])
        <5>1. k \in 0 .. b /\ k + 1 .. b = k + 1 .. b - 1 \cup {b}
          BY <1>2
        <5> QED
          BY <3>1, <3>4, <4>2, <5>1
      <4> QED
        BY <3>2, <4>1, <4>2
    <3> QED
      BY <3>3, <3>4
  <2>3. b' - 1 = b
    BY <1>1, <1>2
  <2> QED
    BY <2>1, <2>2, <2>3 DEF PortbaseSoFar
<1> QED
  BY <1>7, <1>8, <1>9, <1>10

LEMMA PrintKeeps == ASSUME IInv, kernelprint PROVE IInv'
<1> USE DEF IInv
<1> DEFINE here == <<bus, device, function>>
<1>1. pc = "bar" /\ pc # "done" /\ listed' = Append(listed, here)
      /\ function' = function + 1 /\ pc' = "function"
      /\ UNCHANGED <<machine, bus, device, numfunctions, b, portbase, latch>>
  BY DEF kernelprint
<1>2. /\ function \in Functions /\ function \in Nat /\ numfunctions = Probed(Here)
      /\ function \in DOMAIN machine[Here] /\ function < numfunctions /\ numfunctions \in Nat
  BY <1>1, ProbedRange, HereTypes DEF Counters, Functions, MaxFunctions
<1>3. here \in AllFunctions
  BY <1>1, <1>2, HereTypes, Tuples
<1>4. TypeOK'
  BY <1>1, <1>2 DEF TypeOK, Functions, MaxFunctions
<1>5. Counters'
  <2>1. Here' = Here /\ Probed(Here)' = Probed(Here)
    BY <1>1 DEF Probed, Here
  <2> QED
    BY <1>1, <1>2, <2>1 DEF Counters
<1>6. Listed'
  <2>1. listed \in Seq(AllFunctions) /\ listed' \in Seq(AllFunctions)
    BY <1>1, <1>3 DEF Listed
  <2>2. Range(listed') = Range(listed) \cup {here}
    BY <1>1, <1>3, <2>1, RangeAppend
  <2>3. ASSUME NEW l \in AllFunctions
        PROVE  Passed(l)' /\ Answering(l)' <=> (Passed(l) /\ Answering(l)) \/ l = here
    <3>1. Answering(l)' <=> Answering(l)
      BY <1>1 DEF Answering, Probed
    <3>2. Passed(l)' <=> Passed(l) \/ l = here
      <4>1. l[3] \in Nat /\ l = <<l[1], l[2], l[3]>>
        BY <2>3, TupleTypes, Zenon
      <4>2. l = here <=> l[1] = bus /\ l[2] = device /\ l[3] = function
        BY <4>1
      <4> HIDE DEF here
      <4> QED
        BY <1>1, <1>2, <4>1, <4>2 DEF Passed
    <3>3. l = here => Answering(l)
      BY <1>2 DEF Answering, Here
    <3> QED
      BY <3>1, <3>2, <3>3
  <2>4. Range(listed)' = {l \in AllFunctions : Passed(l)' /\ Answering(l)'}
    <3>1. Range(listed) = {l \in AllFunctions : Passed(l) /\ Answering(l)}
      BY DEF Listed
    <3> HIDE DEF here
    <3> QED
      BY <1>3, <2>2, <2>3, <3>1
  <2>5. ASSUME NEW i \in DOMAIN listed', NEW j \in DOMAIN listed', i < j
        PROVE  Before(listed'[i], listed'[j])
    <3> DEFINE n == Len(listed)
    <3>1. n \in Nat /\ DOMAIN listed = 1 .. n /\ DOMAIN listed' = 1 .. n + 1
          /\ listed'[n + 1] = here /\ \A k \in 1 .. n : listed'[k] = listed[k]
      <4> HIDE DEF here
      <4> QED
        BY <1>1, <1>3, <2>1
    <3> HIDE DEF n
    <3>2. CASE j = n + 1
      <4>1. i \in 1 .. n /\ listed'[i] = listed[i] /\ listed[i] \in Range(listed)
        BY <2>5, <3>1, <3>2 DEF Range
      <4>2. Passed(listed[i])
        BY <4>1, Zenon DEF Listed
      <4> QED
        BY <1>1, <3>1, <3>2, <4>1, <4>2 DEF Passed, Before
    <3>3. CASE j # n + 1
      <4>1. i \in DOMAIN listed /\ j \in DOMAIN listed
            /\ listed'[i] = listed[i] /\ listed'[j] = listed[j]
        BY <2>5, <3>1, <3>3
      <4> QED
        BY <2>5, <4>1 DEF Listed
    <3> QED
      BY <3>2, <3>3
  <2> QED
    BY <2>1, <2>4, <2>5, Zenon DEF Listed
<1>7. PortbaseSoFar'
  BY <1>1 DEF PortbaseSoFar
<1> QED
  BY <1>4, <1>5, <1>6, <1>7

LEMMA NextdeviceKeeps == ASSUME IInv, nextdevice PROVE IInv'
<1> USE DEF IInv
<1>1. pc = "function" /\ pc # "done" /\ function = numfunctions
      /\ UNCHANGED <<machine, function, numfunctions, b, portbase, latch, listed>>
  BY DEF nextdevice
<1>2. numfunctions = Probed(Here) /\ function \in Nat /\ BusCount \in Nat
  BY <1>1, HereTypes, CountTypes DEF Counters
<1>3. bus \in 0 .. BusCount - 1 /\ device \in 0 .. DeviceCount - 1
  BY <1>1, HereTypes
<1>4. \/ device # DeviceCount - 1 /\ device' = device + 1 /\ pc' = "check" /\ bus' = bus
      \/ /\ device = DeviceCount - 1 /\ device' = 0 /\ bus' = bus + 1
         /\ pc' = IF bus < BusCount - 1 THEN "check" ELSE "done"
  BY DEF nextdevice, lastDevice
<1>5. TypeOK'
  <2>1. /\ pc' \in {"check", "function", "bar", "done"}
        /\ bus' \in 0 .. BusCount /\ device' \in 0 .. DeviceCount - 1
    BY <1>3, <1>4, CountTypes
  <2> QED
    BY <1>1, <2>1 DEF TypeOK
<1>6. Counters'
  BY <1>1, <1>2, <1>3, <1>4 DEF Counters
<1>7. Listed'
  <2>1. ASSUME NEW l \in AllFunctions, Answering(l)
        PROVE  Passed(l)' <=> Passed(l)
    <3>1. l[1] \in 0 .. BusCount - 1 /\ l[2] \in 0 .. DeviceCount - 1
      BY <2>1, TupleTypes, Zenon
    <3>2. l[1] = bus /\ l[2] = device => l[3] < function
      BY <1>1, <1>2, <2>1 DEF Answering, Here
    <3>3. Passed(l) <=> l[1] < bus \/ (l[1] = bus /\ l[2] <= device)
      BY <1>1, <1>3, <3>1, <3>2 DEF Passed
    <3>4. Passed(l)' <=> l[1] < bus' \/ (l[1] = bus' /\ l[2] < device')
      BY <1>4 DEF Passed
    <3> QED
      BY <1>3, <1>4, <3>1, <3>3, <3>4
  <2> QED
    BY <1>1, <2>1, ListedKept
<1>8. PortbaseSoFar'
  BY <1>4 DEF PortbaseSoFar
<1> QED
  BY <1>5, <1>6, <1>7, <1>8

LEMMA StutterKeeps == ASSUME IInv, UNCHANGED vars PROVE IInv'
<1>1. /\ machine' = machine /\ pc' = pc /\ bus' = bus /\ device' = device
      /\ function' = function /\ numfunctions' = numfunctions /\ b' = b
      /\ portbase' = portbase /\ latch' = latch /\ listed' = listed
  BY DEF vars
<1>2. TypeOK'
  BY <1>1 DEF IInv, TypeOK
<1>3. Counters'
  BY <1>1 DEF IInv, Counters, Probed, Here
<1>4. Listed'
  <2>1. \A l \in AllFunctions : Passed(l)' <=> Passed(l)
    BY <1>1 DEF Passed
  <2> QED
    BY <1>1, <2>1, ListedKept DEF IInv
<1>5. PortbaseSoFar'
  BY <1>1 DEF IInv, PortbaseSoFar, Registers, Here
<1> QED
  BY <1>2, <1>3, <1>4, <1>5 DEF IInv

LEMMA AlwaysIInv == Spec => []IInv
<1>1. IInv /\ [Next]_vars => IInv'
  <2> SUFFICES ASSUME IInv, [Next]_vars PROVE IInv'
    OBVIOUS
  <2>1. CASE checkfunctions
    BY <2>1, CheckKeeps
  <2>2. CASE getdeviceinfo
    BY <2>2, InfoKeeps
  <2>3. CASE Getdeviceaddr
    BY <2>3, DeviceaddrKeeps
  <2>4. CASE kernelprint
    BY <2>4, PrintKeeps
  <2>5. CASE nextdevice
    BY <2>5, NextdeviceKeeps
  <2>6. CASE UNCHANGED vars
    BY <2>6, StutterKeeps
  <2> QED
    BY <2>1, <2>2, <2>3, <2>4, <2>5, <2>6 DEF Next
<1> QED
  BY <1>1, InitIInv, PTL DEF Spec

-----------------------------------------------------------------------------
(* The variables of enumeratedevices keep their types: it probes no place past
   the last one and no function or register past the last. *)
THEOREM TypeCorrect == Spec => []TypeOK
<1>1. IInv => TypeOK
  BY DEF IInv
<1> QED
  BY <1>1, AlwaysIInv, PTL

(* What is listed in the end. *)
LEMMA AllPassed ==
  ASSUME IInv, pc = "done"
  PROVE  Range(listed) = {l \in AllFunctions : Answering(l)}
<1>1. bus = BusCount
  BY DEF IInv, Counters
<1>2. ASSUME NEW l \in AllFunctions PROVE Passed(l)
  <2>1. l[1] \in 0 .. BusCount - 1
    BY <1>2, TupleTypes, Zenon
  <2> QED
    BY <1>1, <2>1, CountTypes DEF Passed
<1> QED
  BY <1>2 DEF IInv, Listed

(* enumeratedevices lists functions in the order of bus, device and function,
   none twice and none that does not answer, and in the end at least function 0
   of every device; if the bits that it tests agree with the header types, it
   lists the functions that there are. *)
THEOREM ListingRight == Spec => []ListedAsPresent
<1>1. IInv => ListedAsPresent
  <2> SUFFICES ASSUME IInv PROVE ListedAsPresent
    OBVIOUS
  <2>1. machine \in Machines
    BY DEF IInv, Counters
  <2>2. \A i, j \in DOMAIN listed : i < j => Before(listed[i], listed[j])
    BY DEF IInv, Listed
  <2>3. ASSUME NEW l \in Range(listed)
        PROVE  l[3] \in DOMAIN machine[<<l[1], l[2]>>]
    BY DEF IInv, Listed, Answering
  <2>4. ASSUME pc = "done", NEW place \in Places, DOMAIN machine[place] # {}
        PROVE  <<place[1], place[2], 0>> \in Range(listed)
    <3> DEFINE l == <<place[1], place[2], 0>>
    <3>1. /\ place[1] \in 0 .. BusCount - 1 /\ place[2] \in 0 .. DeviceCount - 1
          /\ place = <<place[1], place[2]>>
      BY DEF Places
    <3>2. l \in AllFunctions
      BY <3>1, Tuples DEF Functions, MaxFunctions
    <3>3. 0 \in DOMAIN machine[place]
      BY <2>1, <2>4, FunctionTypes
    <3>4. l[3] = 0 /\ <<l[1], l[2]>> = place
      BY <3>1
    <3>5. Answering(l)
      BY <3>3, <3>4, ProbedRange DEF Answering
    <3> QED
      BY <2>4, <3>2, <3>5, AllPassed
  <2>5. ASSUME pc = "done", SizeTellsFunctions
        PROVE  Range(listed) = Existing
    <3>1. ASSUME NEW l \in AllFunctions
          PROVE  Answering(l) <=> l[3] \in FunctionsOf(<<l[1], l[2]>>)
      <4> DEFINE place == <<l[1], l[2]>>
                 f == l[3]
      <4>1. place \in Places /\ f \in Functions /\ f \in Nat
        BY <3>1, TupleTypes, Zenon
      <4>2. Answering(l) <=> f < Probed(place) /\ f \in DOMAIN machine[place]
        BY DEF Answering
      <4>3. f < MaxFunctions
        BY <4>1 DEF Functions, MaxFunctions
      <4> HIDE DEF place, f
      <4>4. ASSUME DOMAIN machine[place] = {}
            PROVE  Answering(l) <=> f \in FunctionsOf(place)
        BY <4>2, <4>4 DEF FunctionsOf
      <4>5. ASSUME DOMAIN machine[place] # {}
            PROVE  Answering(l) <=> f \in FunctionsOf(place)
        <5>1. 0 \in DOMAIN machine[place]
          BY <2>1, <4>1, <4>5, FunctionTypes
        <5> DEFINE r == machine[place][0]
        <5>2. /\ r.cacheline \in Nat /\ r.cacheline < 256
              /\ r.header \in Nat /\ r.header < 256
          BY <2>1, <4>1, <5>1, FunctionTypes DEF Registers
        <5>3. r.cacheline >= 128 <=> r.header >= 128
          BY <2>5, <4>1, <4>5 DEF SizeTellsFunctions
        <5>4. Probed(place) = IF r.cacheline < 128 THEN 1 ELSE MaxFunctions
          BY <5>1 DEF Probed
        <5>5. FunctionsOf(place) = IF r.header < 128 THEN {0} ELSE DOMAIN machine[place]
          BY <4>5 DEF FunctionsOf
        <5> HIDE DEF r
        <5> QED
          BY <4>1, <4>2, <4>3, <5>1, <5>2, <5>3, <5>4, <5>5
      <4> QED
        BY <4>4, <4>5 DEF place, f
    <3>2. Existing = {l \in AllFunctions : Answering(l)}
      BY <3>1, Zenon DEF Existing
    <3> QED
      BY <2>5, <3>2, AllPassed
  <2> QED
    BY <2>2, <2>3, <2>4, <2>5, Zenon DEF ListedAsPresent
<1> QED
  BY <1>1, AlwaysIInv, PTL

(* The port base printed with a function whose cache line size is 0 is the base
   of its last I/O register, and nothing has stored it if there is none. *)
THEOREM PortbaseRight == Spec => []PortbaseFromBar
<1>1. IInv => PortbaseFromBar
  <2> SUFFICES ASSUME IInv, pc = "bar", b = MaxBars,
                      Registers(Here, function).cacheline = 0
               PROVE  LET bars  == Registers(Here, function).bars
                          ports == {i \in 0 .. MaxBars - 1 : IsPort(bars[i])}
                      IN  IF ports = {} THEN portbase = Indeterminate
                          ELSE portbase = BaseOf(bars[Max(ports)])
    BY DEF PortbaseFromBar, Registers, Here, IsPort, BaseOf
  <2> DEFINE bars == Registers(Here, function).bars
             ports == {i \in 0 .. MaxBars - 1 : IsPort(bars[i])}
  <2>1. \/ portbase = Indeterminate /\ \A k \in 0 .. MaxBars - 1 : ~IsPort(bars[k])
        \/ \E k \in 0 .. MaxBars - 1 :
             /\ IsPort(bars[k]) /\ portbase = BaseOf(bars[k])
             /\ \A m \in k + 1 .. MaxBars - 1 : ~IsPort(bars[m])
    BY DEF IInv, PortbaseSoFar
  <2> HIDE DEF bars
  <2>2. ASSUME portbase = Indeterminate, \A k \in 0 .. MaxBars - 1 : ~IsPort(bars[k])
        PROVE  ports = {} /\ portbase = Indeterminate
    BY <2>2
  <2>3. ASSUME NEW k \in 0 .. MaxBars - 1, IsPort(bars[k]), portbase = BaseOf(bars[k]),
               \A m \in k + 1 .. MaxBars - 1 : ~IsPort(bars[m])
        PROVE  ports # {} /\ portbase = BaseOf(bars[Max(ports)])
    <3>1. k \in ports /\ \A y \in ports : k >= y
      BY <2>3 DEF MaxBars
    <3>2. \A x \in ports : (\A y \in ports : x >= y) => x = k
      BY <3>1 DEF MaxBars
    <3> HIDE DEF ports
    <3>3. Max(ports) = k
      BY <3>1, <3>2, Zenon DEF Max
    <3> QED
      BY <2>3, <3>1, <3>3
  <2>4. IF ports = {} THEN portbase = Indeterminate
        ELSE portbase = BaseOf(bars[Max(ports)])
    BY <2>1, <2>2, <2>3
  <2> QED
    BY <2>4, Zenon DEF bars
<1> QED
  BY <1>1, AlwaysIInv, PTL
=============================================================================
