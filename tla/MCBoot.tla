-------------------------------- MODULE MCBoot --------------------------------
(* Floppies whose files are on clusters of even and odd numbers, two of them
   (341 and 682) with an entry that lies in two sectors of the FAT. *)
EXTENDS Boot

MCClusters == {2, 3, 341, 682, 2848}

(* A stage 2 that ends here has its header clear a byte of entry 15
   of the root directory: of the name, and of the first cluster. *)
MCRootClusters == {1007, 1024, 1025}

Chains(lengths) ==
  {chain \in UNION {[1 .. n -> MCClusters] : n \in lengths} : IsInjective(chain)}

MCStage2Chains == Chains({2}) \cup {<<2, last>> : last \in MCRootClusters}

MCDisks ==
  {[f \in Files \cup {"mark"} |->
      IF f = "mark" THEN mark
      ELSE IF f = "STAGE2  BIN" THEN [entry |-> at[1], chain |-> first]
      ELSE [entry |-> at[2], chain |-> second]]
     : mark \in {4088, 4095}, at \in {<<1, 15>>, <<1, 16>>, <<16, 15>>},
       <<first, second>> \in {c \in MCStage2Chains \X Chains({1, 3}) :
                                Range(c[1]) \cap Range(c[2]) = {}}}
=============================================================================
