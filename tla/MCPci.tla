-------------------------------- MODULE MCPci --------------------------------
(* Devices with one function and with several, with gaps, with a device that
   answers to all of its function numbers, and with cache line sizes that agree
   with the header type or do not. *)
EXTENDS Pci

MCBars == {[i \in 0 .. 5 |-> 0],
           [i \in 0 .. 5 |-> IF i = 0 THEN 49153 ELSE IF i = 1 THEN 57344 ELSE 0],
           [i \in 0 .. 5 |-> IF i = 5 THEN 49409 ELSE 1]}

MCRegisters(cacheline, header, bars) ==
  [vendor |-> 4332, cacheline |-> cacheline, header |-> header, bars |-> bars]

MCDevices ==
  {<< >>}
    \cup {[f \in functions |-> MCRegisters(cacheline, header, bars)]
            : functions \in {{0}, {0, 2, 7}, 0 .. 7}, cacheline \in {0, 1, 128},
              header \in {0, 128}, bars \in MCBars}

(* Two buses: what is on the first is one device of any kind or two of a few. *)
MCPlaced(first, second, third) ==
  [place \in (0 .. 1) \X (0 .. 1) |->
     IF place = <<0, 0>> THEN first
     ELSE IF place = <<0, 1>> THEN second ELSE IF place = <<1, 1>> THEN third ELSE << >>]

MCFew == {d \in MCDevices : \A f \in DOMAIN d : d[f].bars[0] = 49153 /\ d[f].cacheline # 1}

MCMachines == {MCPlaced(d[1], d[2], d[3]) : d \in MCDevices \X MCFew \X {<< >>, CHOOSE e \in MCFew : e # << >>}}
=============================================================================
