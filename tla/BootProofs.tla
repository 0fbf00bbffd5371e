----------------------------- MODULE BootProofs -----------------------------
(***************************************************************************)
(* What is in memory when stage 2 and the kernel are started, for every    *)
(* floppy: wherever its files are, whatever their lengths, and whichever   *)
(* reads fail.                                                             *)
(***************************************************************************)
EXTENDS Boot, SequenceTheorems, TLAPS

Stage2File == "STAGE2  BIN"
KernelFile == "KERNEL  BIN"
Chain(file) == disk[file].chain

Drives == BootDrives \cup {0}
Sectors == 0 .. totalsectors - 1
Copies == [at : Nat, sector : Drives \X Sectors]
Copy(at, drive, lba) == [at |-> at, sector |-> <<drive, lba>>]

(* Sectors that overlap, of the memory that they are in. *)
Apart(a, b) == a + bytespersector <= b \/ b + bytespersector <= a

(* The labels of stage 1 up to the FAT, from there on, and those of stage 2. *)
BeforeFat == {"bootloader", "findLBA_root_dir", "file_search", "file_found"}
Loading == {"loadfile", "nextcluster"}
Jumped == {"header", "entry"}
KernelLoading == {"while", "copy", "FindNextCluster", "kernel"}
Labels == BeforeFat \cup Loading \cup Jumped \cup KernelLoading
            \cup {"disk_read_error", "search_error"}

(* Where a cluster goes, and the sectors that stage 2 asks for: those of its
   files, or those that it may come to from a wrong cluster. *)
Places == Stage2At .. Stage2At + bytespersector * MaxReads
            \cup KernelAt .. KernelAt + bytespersector * MaxReads
Addresses == {0} \cup 33 .. totalsectors - 1
Astray == {0} \cup 31 .. 4087 + 31

Types ==
  /\ disk \in Disks /\ drivenumber \in BootDrives
  /\ pc \in Labels /\ res \in {0, 1} /\ failed \in BOOLEAN
  /\ logicalcluster \in {0} \cup Clusters /\ cleared \in Nat

Ranges ==
  \/ to \in Places /\ LBA \in Addresses
  \/ Misdirected /\ to \in Nat /\ to >= Stage2At /\ LBA \in Astray

(* Memory holds no two sectors that overlap. *)
IsMemory(sectors) ==
  /\ sectors \subseteq Copies
  /\ \A r, s \in sectors : r = s \/ Apart(r.at, s.at)
Memory == IsMemory(ram)

(* The first FAT stays where it was loaded. *)
FatLoaded ==
  pc \in Loading \cup Jumped \cup KernelLoading =>
    \A k \in 0 .. sectorsperFAT - 1 :
      Copy(FatAt + bytespersector * k, drivenumber, reservedsectors + k) \in ram

(* The first n clusters of a file, in memory from an address on. *)
Beginning(from, drive, file, n) ==
  {Copy(from + bytespersector * (k - 1), drive, Chain(file)[k] + 31) : k \in 1 .. n}

(* Stage 1 is at the i-th cluster of stage 2. *)
AtCluster(i) ==
  /\ to = Stage2At + bytespersector * (i - 1)
  /\ logicalcluster = Chain(Stage2File)[i]
  /\ Beginning(Stage2At, drivenumber, Stage2File, IF pc = "loadfile" THEN i - 1 ELSE i)
       \subseteq ram

Stage1Progress ==
  /\ pc \in BeforeFat => to = Stage2At
  /\ pc = "file_found" => logicalcluster = Chain(Stage2File)[1]
  /\ pc \in Loading => \E i \in 1 .. Len(Chain(Stage2File)) : AtCluster(i)
  /\ pc \in BeforeFat \cup Loading \cup Jumped =>
       /\ ~failed /\ LBA = 0 /\ res = 1
       /\ \A r \in ram : r.at + bytespersector <= KernelAt
  /\ pc \in BeforeFat \cup Loading \cup {"header"} => cleared = 0

AboveKernelAt == {r \in ram : r.at >= KernelAt}
KernelSectors(n) == Beginning(KernelAt, 0, KernelFile, n)
KernelLength == Len(Chain(KernelFile))

(* What follows the place that is written next, or was written last, is not
   the kernel's if a read has failed. *)
KernelBefore(address) ==
  \A r \in AboveKernelAt : r.at < address => r \in KernelSectors(KernelLength)

(* Stage 2 is at the i-th cluster of the kernel, or past the last one. *)
AtKernelCluster(i) ==
  /\ to = KernelAt + bytespersector * (i - 1)
  /\ IF i <= KernelLength THEN LBA = Chain(KernelFile)[i] + 31
     ELSE LBA = 0 /\ pc \in {"while", "kernel"}
  /\ res = 1 => ~failed /\ AboveKernelAt = KernelSectors(IF pc = "FindNextCluster" THEN i ELSE i - 1)
  /\ res = 0 => failed
  /\ pc = "copy" /\ res = 1 => Copy(BufferAt, 0, LBA) \in ram
  /\ pc = "copy" /\ res = 0 => AboveKernelAt = KernelSectors(i - 1)
  /\ pc = "FindNextCluster" /\ res = 0 => KernelBefore(to)
  /\ pc \in {"while", "kernel"} /\ res = 0 => KernelBefore(to - bytespersector)

(* From a wrong cluster there is no telling where stage 2 is. *)
Wandering ==
  /\ to >= KernelAt
  /\ pc \in {"copy", "FindNextCluster"} => LBA # 0

Stage2Progress ==
  /\ pc \in KernelLoading =>
       IF Misdirected THEN Wandering
       ELSE \E i \in 1 .. KernelLength + 1 : AtKernelCluster(i)
  /\ pc = "kernel" => res = 0 \/ LBA = 0

IInv ==
  /\ Types /\ Ranges /\ Memory /\ FatLoaded
  /\ Stage1Progress /\ Stage2Progress /\ Stage2Complete

-----------------------------------------------------------------------------
(* Sector and cluster numbers. *)
LEMMA SectorRange ==
  /\ \A x \in Sectors : x \in Nat /\ x < 2880
  /\ \A x \in Nat : x < 2880 => x \in Sectors
BY DEF Sectors, totalsectors

LEMMA ClusterRange ==
  /\ \A x \in Clusters : x \in Nat /\ 2 <= x /\ x <= 2848
  /\ \A x \in Nat : 2 <= x /\ x <= 2848 => x \in Clusters
BY DEF Clusters, totalsectors

LEMMA PlaceIs ==
  ASSUME NEW n \in Nat, n <= MaxReads
  PROVE  Stage2At + bytespersector * n \in Places /\ KernelAt + bytespersector * n \in Places
<1>1. MaxReads \in Nat
  BY BootAssumption, Zenon
<1> QED
  BY <1>1 DEF Places, Stage2At, KernelAt, bytespersector

LEMMA AddressRange ==
  0 \in Addresses /\ \A x \in Nat : 33 <= x /\ x < 2880 => x \in Addresses
BY DEF Addresses, totalsectors

LEMMA AstrayRange ==
  0 \in Astray /\ \A x \in Nat : 31 <= x /\ x <= 4118 => x \in Astray
BY DEF Astray

(* What the floppy is known to be. *)
LEMMA Floppy ==
  ASSUME disk \in Disks
  PROVE  /\ IsFloppy(disk)
         /\ Stage2At + bytespersector * Len(Chain(Stage2File)) <= StackAt
<1>1. IsFloppy(disk) /\ FitsBelowStack(disk)
  BY BootAssumption, Zenon
<1> QED
  BY <1>1, Zenon DEF FitsBelowStack, Chain, Stage2File

LEMMA ChainType ==
  ASSUME disk \in Disks, NEW file \in Files
  PROVE  /\ Chain(file) \in Seq(Clusters)
         /\ Len(Chain(file)) \in Nat /\ Len(Chain(file)) >= 1 /\ Len(Chain(file)) <= MaxReads
         /\ DOMAIN Chain(file) = 1 .. Len(Chain(file))
         /\ \A i \in 1 .. Len(Chain(file)) : Chain(file)[i] \in Clusters
         /\ \A i, j \in 1 .. Len(Chain(file)) : Chain(file)[i] = Chain(file)[j] => i = j
<1>1. /\ Chain(file) \in Seq(Clusters) /\ IsInjective(Chain(file))
      /\ Len(Chain(file)) \in 1 .. MaxReads
  <2>1. IsFloppy(disk)
    BY Floppy, Zenon
  <2>2. \A f \in Files :
          disk[f].chain \in Seq(Clusters) /\ IsInjective(disk[f].chain)
            /\ Len(disk[f].chain) \in 1 .. MaxReads
    BY <2>1 DEF IsFloppy
  <2> QED
    BY <2>2, Zenon DEF Chain
<1>2. Len(Chain(file)) \in Nat /\ Len(Chain(file)) >= 1 /\ Len(Chain(file)) <= MaxReads
  BY <1>1, BootAssumption
<1>3. DOMAIN Chain(file) = 1 .. Len(Chain(file))
  BY <1>1
<1>4. \A i \in 1 .. Len(Chain(file)) : Chain(file)[i] \in Clusters
  BY <1>1
<1>5. \A i, j \in 1 .. Len(Chain(file)) : Chain(file)[i] = Chain(file)[j] => i = j
  BY <1>1, <1>3, Zenon DEF IsInjective
<1> QED
  BY <1>1, <1>2, <1>3, <1>4, <1>5, Zenon

(* No cluster is in both files. *)
LEMMA ChainsDisjoint ==
  ASSUME disk \in Disks, NEW f \in Files, NEW g \in Files,
         NEW i \in 1 .. Len(Chain(f)), NEW j \in 1 .. Len(Chain(g)), Chain(f)[i] = Chain(g)[j]
  PROVE  f = g
<1>1. Range(Chain(Stage2File)) \cap Range(Chain(KernelFile)) = {}
  <2>1. IsFloppy(disk)
    BY Floppy, Zenon
  <2> QED
    BY <2>1 DEF IsFloppy, Chain, Stage2File, KernelFile
<1>2. Chain(f)[i] \in Range(Chain(f)) /\ Chain(f)[i] \in Range(Chain(g))
  BY ChainType DEF Range
<1>3. f \in {Stage2File, KernelFile} /\ g \in {Stage2File, KernelFile}
  BY DEF Files, Stage2File, KernelFile
<1>4. ~(f = Stage2File /\ g = KernelFile)
  BY <1>1, <1>2
<1>5. ~(f = KernelFile /\ g = Stage2File)
  BY <1>1, <1>2
<1> QED
  BY <1>3, <1>4, <1>5

(* LBAtoCHS gives the sector that the BIOS will go for. *)
LEMMA ChsInverse ==
  ASSUME NEW lba \in Nat
  PROVE  Addressed(LBAtoCHS(lba)) = lba
<1> DEFINE t == lba \div 18
<1>1. t \in Nat /\ lba = 18 * t + (lba % 18)
  OBVIOUS
<1>2. t = 2 * (t \div 2) + (t % 2)
  BY <1>1
<1>3. Addressed(LBAtoCHS(lba)) = ((t \div 2) * 2 + (t % 2)) * 18 + ((lba % 18) + 1) - 1
  BY DEF Addressed, LBAtoCHS, headspercylinder, sectorspertrack
<1> QED
  BY <1>1, <1>2, <1>3

(* A read that succeeds. *)
Written(from, drive, lba, count) ==
  {Copy(from + bytespersector * k, drive, lba + k) : k \in 0 .. count - 1}

LEMMA PlacedIs ==
  ASSUME NEW from \in Nat, NEW drive, NEW lba \in Nat, NEW count \in Nat
  PROVE  Placed(from, SectorsFrom(drive, lba, count))
           = Keep(from, bytespersector * count) \cup Written(from, drive, lba, count)
<1> DEFINE s == SectorsFrom(drive, lba, count)
<1>1. /\ DOMAIN s = 1 .. count /\ Len(s) = count
      /\ \A i \in 1 .. count : s[i] = <<drive, lba + (i - 1)>>
  <2>1. s = [i \in 1 .. count |-> <<drive, lba + i - 1>>]
    BY ChsInverse DEF SectorsFrom
  <2> HIDE DEF s
  <2> QED
    BY <2>1
<1> HIDE DEF s
<1>2. {[at |-> from + bytespersector * (i - 1), sector |-> s[i]] : i \in DOMAIN s}
        = Written(from, drive, lba, count)
  <2>1. ASSUME NEW i \in DOMAIN s
        PROVE  [at |-> from + bytespersector * (i - 1), sector |-> s[i]]
                 \in Written(from, drive, lba, count)
    <3>1. i - 1 \in 0 .. count - 1 /\ s[i] = <<drive, lba + (i - 1)>>
      BY <1>1
    <3> QED
      BY <3>1, Zenon DEF Written, Copy
  <2>2. ASSUME NEW k \in 0 .. count - 1
        PROVE  Copy(from + bytespersector * k, drive, lba + k)
                 \in {[at |-> from + bytespersector * (i - 1), sector |-> s[i]] : i \in DOMAIN s}
    <3>1. /\ k + 1 \in DOMAIN s /\ s[k + 1] = <<drive, lba + ((k + 1) - 1)>>
          /\ (k + 1) - 1 = k
      BY <1>1
    <3>2. Copy(from + bytespersector * k, drive, lba + k)
            = [at |-> from + bytespersector * ((k + 1) - 1), sector |-> s[k + 1]]
      BY <3>1, Zenon DEF Copy
    <3> QED
      BY <3>1, <3>2, Zenon
  <2> QED
    BY <2>1, <2>2, Zenon DEF Written
<1>3. Placed(from, s) = Keep(from, bytespersector * Len(s))
        \cup {[at |-> from + bytespersector * (i - 1), sector |-> s[i]] : i \in DOMAIN s}
  BY DEF Placed
<1>4. Placed(from, s)
        = Keep(from, bytespersector * count) \cup Written(from, drive, lba, count)
  BY <1>1, <1>2, <1>3, Zenon
<1> QED
  BY <1>4, Zenon DEF s

-----------------------------------------------------------------------------
(* What a write leaves. *)
LEMMA CopyType ==
  ASSUME NEW r \in Copies
  PROVE  /\ r.at \in Nat /\ r.sector \in Drives \X Sectors
         /\ r.sector[2] \in Nat /\ r.sector[2] < 2880
         /\ r = [at |-> r.at, sector |-> r.sector]
<1>1. r.at \in Nat /\ r.sector \in Drives \X Sectors /\ r = [at |-> r.at, sector |-> r.sector]
  BY DEF Copies
<1>2. r.sector[2] \in Sectors
  BY <1>1
<1> QED
  BY <1>1, <1>2, SectorRange

LEMMA CopyIs ==
  ASSUME NEW at \in Nat, NEW drive \in Drives, NEW lba \in Nat, lba < 2880
  PROVE  /\ Copy(at, drive, lba) \in Copies /\ Copy(at, drive, lba).at = at
         /\ Copy(at, drive, lba).sector = <<drive, lba>>
<1>1. lba \in Sectors
  BY SectorRange
<1> QED
  BY <1>1 DEF Copy, Copies

LEMMA Kept ==
  ASSUME NEW from, NEW bytes, NEW r
  PROVE  r \in Keep(from, bytes)
           <=> r \in ram /\ (r.at + bytespersector <= from \/ from + bytes <= r.at)
BY Zenon DEF Keep

(* Sectors that are written where nothing is kept overlap nothing. *)
LEMMA Added ==
  ASSUME Memory, NEW from \in Nat, NEW bytes \in Nat, NEW new, IsMemory(new),
         \A r \in new : from <= r.at /\ r.at + bytespersector <= from + bytes
  PROVE  IsMemory(Keep(from, bytes) \cup new)
<1>1. ram \subseteq Copies /\ new \subseteq Copies
  BY DEF Memory, IsMemory
<1>2. Keep(from, bytes) \cup new \subseteq Copies
  BY <1>1, Kept
<1>3. ASSUME NEW r \in Keep(from, bytes), NEW s \in new
      PROVE  Apart(r.at, s.at) /\ Apart(s.at, r.at)
  <2>1. r.at \in Nat /\ s.at \in Nat
    BY <1>1, Kept, CopyType
  <2>2. r.at + bytespersector <= from \/ from + bytes <= r.at
    BY Kept, Zenon
  <2>3. from <= s.at /\ s.at + bytespersector <= from + bytes
    OBVIOUS
  <2> QED
    BY <2>1, <2>2, <2>3 DEF Apart, bytespersector
<1>4. \A r, s \in Keep(from, bytes) \cup new : r = s \/ Apart(r.at, s.at)
  <2>1. \A r, s \in Keep(from, bytes) : r = s \/ Apart(r.at, s.at)
    BY Kept, Zenon DEF Memory, IsMemory
  <2>2. \A r, s \in new : r = s \/ Apart(r.at, s.at)
    BY Zenon DEF IsMemory
  <2> QED
    BY <1>3, <2>1, <2>2, Zenon
<1> QED
  BY <1>2, <1>4, Zenon DEF IsMemory

LEMMA WrittenIs ==
  ASSUME NEW from \in Nat, NEW drive \in Drives, NEW lba \in Nat, NEW count \in Nat,
         OnDisk(lba, count)
  PROVE  /\ IsMemory(Written(from, drive, lba, count))
         /\ \A r \in Written(from, drive, lba, count) :
              from <= r.at /\ r.at + bytespersector <= from + bytespersector * count
<1>1. ASSUME NEW k \in 0 .. count - 1
      PROVE  /\ k \in Nat /\ lba + k \in Nat /\ lba + k < 2880
             /\ from + bytespersector * k \in Nat
             /\ Copy(from + bytespersector * k, drive, lba + k) \in Copies
             /\ Copy(from + bytespersector * k, drive, lba + k).at = from + bytespersector * k
             /\ bytespersector * k + bytespersector <= bytespersector * count
  <2>1. /\ k \in Nat /\ lba + k \in Nat /\ lba + k < 2880
        /\ from + bytespersector * k \in Nat
        /\ bytespersector * k + bytespersector <= bytespersector * count
    BY DEF OnDisk, totalsectors, bytespersector
  <2> QED
    BY <2>1, CopyIs
<1>2. Written(from, drive, lba, count) \subseteq Copies
  BY <1>1 DEF Written
<1>3. ASSUME NEW r \in Written(from, drive, lba, count)
      PROVE  from <= r.at /\ r.at + bytespersector <= from + bytespersector * count
  <2>1. PICK k \in 0 .. count - 1 : r = Copy(from + bytespersector * k, drive, lba + k)
    BY Zenon DEF Written
  <2>2. r.at = from + bytespersector * k /\ k \in Nat
        /\ bytespersector * k + bytespersector <= bytespersector * count
    BY <2>1, <1>1
  <2> QED
    BY <2>2 DEF bytespersector
<1>4. ASSUME NEW r \in Written(from, drive, lba, count),
             NEW s \in Written(from, drive, lba, count)
      PROVE  r = s \/ Apart(r.at, s.at)
  <2>1. PICK k \in 0 .. count - 1 : r = Copy(from + bytespersector * k, drive, lba + k)
    BY Zenon DEF Written
  <2>2. PICK j \in 0 .. count - 1 : s = Copy(from + bytespersector * j, drive, lba + j)
    BY Zenon DEF Written
  <2>3. /\ r.at = from + bytespersector * k /\ k \in Nat
        /\ s.at = from + bytespersector * j /\ j \in Nat
    BY <2>1, <2>2, <1>1
  <2>4. CASE k = j
    BY <2>1, <2>2, <2>4, Zenon
  <2>5. CASE k # j
    BY <2>3, <2>5 DEF Apart, bytespersector
  <2> QED
    BY <2>4, <2>5
<1> QED
  BY <1>2, <1>3, <1>4, Zenon DEF IsMemory

LEMMA PlacedMemory ==
  ASSUME Memory, NEW from \in Nat, NEW drive \in Drives, NEW lba \in Nat, NEW count \in Nat,
         OnDisk(lba, count)
  PROVE  IsMemory(Placed(from, SectorsFrom(drive, lba, count)))
<1>1. bytespersector * count \in Nat
  BY DEF bytespersector
<1> DEFINE new == Written(from, drive, lba, count)
<1>2. /\ IsMemory(new)
      /\ \A r \in new : from <= r.at /\ r.at + bytespersector <= from + bytespersector * count
  BY WrittenIs, Zenon
<1>3. Placed(from, SectorsFrom(drive, lba, count)) = Keep(from, bytespersector * count) \cup new
  BY PlacedIs
<1> HIDE DEF new
<1>4. IsMemory(Keep(from, bytespersector * count) \cup new)
  BY <1>1, <1>2, Added, Zenon
<1> QED
  BY <1>3, <1>4, Zenon

(* What a read that succeeds leaves in memory. *)
AfterRead(m, from, drive, lba, count) ==
  /\ \A r \in ram : r.at + bytespersector <= from \/ from + bytespersector * count <= r.at
                      => r \in m
  /\ \A k \in 0 .. count - 1 : Copy(from + bytespersector * k, drive, lba + k) \in m
  /\ \A r \in m : r \in ram \/ r \in Written(from, drive, lba, count)

LEMMA ReadIs ==
  ASSUME NEW from \in Nat, NEW drive, NEW lba \in Nat, NEW count \in Nat
  PROVE  AfterRead(Placed(from, SectorsFrom(drive, lba, count)), from, drive, lba, count)
<1> DEFINE m == Placed(from, SectorsFrom(drive, lba, count))
<1>1. m = Keep(from, bytespersector * count) \cup Written(from, drive, lba, count)
  BY PlacedIs
<1> HIDE DEF m
<1>2. \A k \in 0 .. count - 1 :
        Copy(from + bytespersector * k, drive, lba + k) \in Written(from, drive, lba, count)
  BY Zenon DEF Written
<1>3. AfterRead(m, from, drive, lba, count)
  BY <1>1, <1>2, Kept, Zenon DEF AfterRead
<1> QED
  BY <1>3, Zenon DEF m

-----------------------------------------------------------------------------
(* What the FAT says of a cluster. *)
LEMMA InClusters ==
  ASSUME disk \in Disks, NEW file \in Files, NEW i \in 1 .. Len(Chain(file))
  PROVE  Chain(file)[i] \in ClustersOf(disk)
<1>1. Chain(file)[i] \in Range(Chain(file))
  BY ChainType, Zenon DEF Range
<1> QED
  BY <1>1, Zenon DEF ClustersOf, Chain

LEMMA OfAFile ==
  ASSUME disk \in Disks, NEW c \in ClustersOf(disk)
  PROVE  \E file \in Files : \E i \in 1 .. Len(Chain(file)) : c = Chain(file)[i]
<1>1. PICK file \in Files : c \in Range(disk[file].chain)
  BY Zenon DEF ClustersOf
<1>2. PICK i \in DOMAIN Chain(file) : c = Chain(file)[i]
  BY <1>1, Zenon DEF Chain, Range
<1> QED
  BY <1>2, ChainType, Zenon

LEMMA ClusterInFile ==
  ASSUME disk \in Disks, NEW file \in Files, NEW i \in 1 .. Len(Chain(file))
  PROVE  FatEntry(Chain(file)[i])
           = IF EndsFile(Chain(file)[i]) THEN disk.mark ELSE Successor(Chain(file)[i])
<1> DEFINE c == Chain(file)[i]
<1>1. c \in ClustersOf(disk) /\ c \in Nat /\ c >= 2
  BY InClusters, ChainType, ClusterRange
<1> HIDE DEF c
<1>2. FatEntry(c) = IF EndsFile(c) THEN disk.mark ELSE Successor(c)
  BY <1>1 DEF FatEntry
<1> QED
  BY <1>2, Zenon DEF c

LEMMA LastIs ==
  ASSUME disk \in Disks, NEW file \in Files
  PROVE  /\ Len(Chain(file)) \in 1 .. Len(Chain(file))
         /\ Last(disk[file].chain) = Chain(file)[Len(Chain(file))]
<1>1. Len(Chain(file)) \in 1 .. Len(Chain(file))
  BY ChainType
<1>2. Last(disk[file].chain) = Chain(file)[Len(Chain(file))]
  BY Zenon DEF Last, Chain
<1> QED
  BY <1>1, <1>2, Zenon

LEMMA EndsAtLast ==
  ASSUME disk \in Disks, NEW file \in Files, NEW i \in 1 .. Len(Chain(file))
  PROVE  EndsFile(Chain(file)[i]) <=> i = Len(Chain(file))
<1>1. ASSUME EndsFile(Chain(file)[i])
      PROVE  i = Len(Chain(file))
  <2>1. PICK g \in Files : Last(disk[g].chain) = Chain(file)[i]
    BY <1>1, Zenon DEF EndsFile
  <2>2. Chain(g)[Len(Chain(g))] = Chain(file)[i] /\ Len(Chain(g)) \in 1 .. Len(Chain(g))
    BY <2>1, LastIs, Zenon
  <2>3. g = file
    BY <2>2, ChainsDisjoint, Zenon
  <2> QED
    BY <2>2, <2>3, ChainType, Zenon
<1>2. ASSUME i = Len(Chain(file))
      PROVE  EndsFile(Chain(file)[i])
  BY <1>2, LastIs, Zenon DEF EndsFile
<1> QED
  BY <1>1, <1>2, Zenon

LEMMA SuccessorIs ==
  ASSUME disk \in Disks, NEW file \in Files, NEW i \in 1 .. Len(Chain(file)) - 1
  PROVE  Successor(Chain(file)[i]) = Chain(file)[i + 1]
<1> DEFINE Follows(c, next) == \E f \in Files : \E j \in 1 .. Len(disk[f].chain) - 1 :
                                 disk[f].chain[j] = c /\ disk[f].chain[j + 1] = next
<1>1. i \in 1 .. Len(Chain(file)) /\ i + 1 \in 1 .. Len(Chain(file))
  BY ChainType
<1>2. Chain(file)[i + 1] \in ClustersOf(disk)
  BY <1>1, InClusters, Zenon
<1>3. Follows(Chain(file)[i], Chain(file)[i + 1])
  BY Zenon DEF Chain
<1>4. ASSUME NEW next \in ClustersOf(disk), Follows(Chain(file)[i], next)
      PROVE  next = Chain(file)[i + 1]
  <2>0. PICK f \in Files : \E j \in 1 .. Len(Chain(f)) - 1 :
          Chain(f)[j] = Chain(file)[i] /\ Chain(f)[j + 1] = next
    BY <1>4, Zenon DEF Chain
  <2>1. PICK j \in 1 .. Len(Chain(f)) - 1 :
          Chain(f)[j] = Chain(file)[i] /\ Chain(f)[j + 1] = next
    BY <2>0, Zenon
  <2>2. j \in 1 .. Len(Chain(f))
    BY ChainType
  <2>3. f = file
    BY <1>1, <2>1, <2>2, ChainsDisjoint, Zenon
  <2>4. j = i
    BY <1>1, <2>1, <2>2, <2>3, ChainType, Zenon
  <2> QED
    BY <2>1, <2>3, <2>4, Zenon
<1>5. Successor(Chain(file)[i])
        = CHOOSE next \in ClustersOf(disk) : Follows(Chain(file)[i], next)
  BY Zenon DEF Successor
<1> HIDE DEF Follows
<1> QED
  BY <1>2, <1>3, <1>4, <1>5

(* The entry of a cluster is the next one of its file, or the mark. *)
LEMMA FatFollows ==
  ASSUME disk \in Disks, NEW file \in Files, NEW i \in 1 .. Len(Chain(file))
  PROVE  IF i = Len(Chain(file)) THEN FatEntry(Chain(file)[i]) = disk.mark
         ELSE i + 1 \in 1 .. Len(Chain(file)) /\ FatEntry(Chain(file)[i]) = Chain(file)[i + 1]
<1>1. CASE i = Len(Chain(file))
  BY <1>1, EndsAtLast, ClusterInFile, Zenon
<1>2. CASE i # Len(Chain(file))
  <2>1. i \in 1 .. Len(Chain(file)) - 1 /\ i + 1 \in 1 .. Len(Chain(file))
    BY <1>2, ChainType
  <2>2. ~EndsFile(Chain(file)[i])
    BY <1>2, EndsAtLast, Zenon
  <2>3. FatEntry(Chain(file)[i]) = Successor(Chain(file)[i])
    BY <2>2, ClusterInFile, Zenon
  <2>4. Successor(Chain(file)[i]) = Chain(file)[i + 1]
    BY <2>1, SuccessorIs, Zenon
  <2> QED
    BY <1>2, <2>1, <2>3, <2>4, Zenon
<1> QED
  BY <1>1, <1>2, Zenon

LEMMA MarkRange ==
  ASSUME disk \in Disks
  PROVE  disk.mark \in Nat /\ disk.mark >= 4088 /\ disk.mark <= 4095
<1>1. disk.mark \in EndMarks
  BY Floppy, Zenon DEF IsFloppy
<1> QED
  BY <1>1 DEF EndMarks

LEMMA EntryRange ==
  ASSUME disk \in Disks, NEW c \in Nat
  PROVE  FatEntry(c) \in Nat /\ FatEntry(c) < 4096
<1>1. CASE c \in ClustersOf(disk)
  <2>1. PICK file \in Files : \E i \in 1 .. Len(Chain(file)) : c = Chain(file)[i]
    BY <1>1, OfAFile, Zenon
  <2>2. PICK i \in 1 .. Len(Chain(file)) : c = Chain(file)[i]
    BY <2>1, Zenon
  <2>3. \/ FatEntry(c) = disk.mark
        \/ FatEntry(c) \in Clusters
    <3>1. CASE i = Len(Chain(file))
      BY <2>2, <3>1, FatFollows, Zenon
    <3>2. CASE i # Len(Chain(file))
      <4>1. i + 1 \in 1 .. Len(Chain(file)) /\ FatEntry(c) = Chain(file)[i + 1]
        <5>1. i + 1 \in 1 .. Len(Chain(file)) /\ FatEntry(Chain(file)[i]) = Chain(file)[i + 1]
          BY <3>2, FatFollows, Zenon
        <5> QED
          BY <5>1, <2>2, Zenon
      <4>2. Chain(file)[i + 1] \in Clusters
        BY <4>1, ChainType, Zenon
      <4> QED
        BY <4>1, <4>2, Zenon
    <3> QED
      BY <3>1, <3>2, Zenon
  <2>4. disk.mark \in Nat /\ disk.mark < 4096
    BY MarkRange
  <2>5. \A x \in Clusters : x \in Nat /\ x < 4096
    BY ClusterRange
  <2> QED
    BY <2>3, <2>4, <2>5
<1>2. CASE c \notin ClustersOf(disk)
  <2>1. FatEntry(c) = 4080 \/ FatEntry(c) = 4095 \/ FatEntry(c) = 0
    BY <1>2 DEF FatEntry
  <2> QED
    BY <2>1
<1> QED
  BY <1>1, <1>2

-----------------------------------------------------------------------------
(* Two entries are in three bytes: what entryOf takes out of them. *)
LEMMA FatByteOf ==
  ASSUME NEW m \in Nat
  PROVE  /\ FatByte(3 * m) = FatEntry(2 * m) % 256
         /\ FatByte(3 * m + 1) = (FatEntry(2 * m) \div 256) + 16 * (FatEntry(2 * m + 1) % 16)
         /\ FatByte(3 * m + 2) = FatEntry(2 * m + 1) \div 16
<1>1. /\ (3 * m) \div 3 = m /\ (3 * m) % 3 = 0
      /\ (3 * m + 1) \div 3 = m /\ (3 * m + 1) % 3 = 1
      /\ (3 * m + 2) \div 3 = m /\ (3 * m + 2) % 3 = 2
  OBVIOUS
<1>2. FatByte(3 * m) = FatEntry(2 * m) % 256
  BY <1>1 DEF FatByte
<1>3. FatByte(3 * m + 1) = (FatEntry(2 * m) \div 256) + 16 * (FatEntry(2 * m + 1) % 16)
  BY <1>1 DEF FatByte
<1>4. FatByte(3 * m + 2) = FatEntry(2 * m + 1) \div 16
  BY <1>1 DEF FatByte
<1> QED
  BY <1>2, <1>3, <1>4, Zenon

LEMMA EvenEntry ==
  ASSUME NEW e \in Nat, e < 4096, NEW o \in Nat
  PROVE  ((e % 256) + 256 * ((e \div 256) + 16 * (o % 16))) % 4096 = e
<1>1. e = 256 * (e \div 256) + (e % 256)
  OBVIOUS
<1>2. (e % 256) + 256 * ((e \div 256) + 16 * (o % 16)) = e + 4096 * (o % 16)
  BY <1>1
<1>3. o % 16 \in Nat
  OBVIOUS
<1>4. \A q \in Nat : (e + 4096 * q) % 4096 = e
  OBVIOUS
<1> QED
  BY <1>2, <1>3, <1>4

LEMMA OddEntry ==
  ASSUME NEW e \in Nat, e < 4096, NEW o \in Nat
  PROVE  (((e \div 256) + 16 * (o % 16)) + 256 * (o \div 16)) \div 16 = o
<1>1. o = 16 * (o \div 16) + (o % 16)
  OBVIOUS
<1>2. e \div 256 \in Nat /\ e \div 256 < 16
  OBVIOUS
<1>3. ((e \div 256) + 16 * (o % 16)) + 256 * (o \div 16) = 16 * o + (e \div 256)
  BY <1>1
<1>4. \A q \in Nat : q < 16 => (16 * o + q) \div 16 = o
  OBVIOUS
<1> QED
  BY <1>2, <1>3, <1>4

-----------------------------------------------------------------------------
(* What is in memory where the first FAT is. *)
LEMMA FatInMemory ==
  ASSUME Types, Memory, NEW x \in Nat, x < sectorsperFAT * bytespersector,
         \A k \in 0 .. sectorsperFAT - 1 :
           Copy(FatAt + bytespersector * k, drivenumber, reservedsectors + k) \in ram
  PROVE  Byte(FatAt + x) = FatByte(x)
<1> DEFINE holds(r) ==
             /\ r.at <= FatAt + x /\ FatAt + x < r.at + bytespersector
             /\ r.sector[2] \in reservedsectors .. reservedsectors + numberofFATs * sectorsperFAT - 1
           k == x \div 512
           fat == Copy(FatAt + bytespersector * k, drivenumber, reservedsectors + k)
           value(r) == FatByte(((r.sector[2] - reservedsectors) % sectorsperFAT) * bytespersector
                                 + (FatAt + x) - r.at)
<1>1. /\ k \in 0 .. sectorsperFAT - 1 /\ k \in Nat /\ k < 9
      /\ 512 * k <= x /\ x < 512 * k + 512
  BY DEF sectorsperFAT, bytespersector
<1>2. fat \in ram
  BY <1>1
<1> HIDE DEF k
<1>3. fat.at = FatAt + 512 * k /\ fat.sector[2] = 1 + k
  <2>1. drivenumber \in Drives /\ FatAt + bytespersector * k \in Nat
        /\ reservedsectors + k \in Nat /\ reservedsectors + k < 2880
        /\ FatAt + bytespersector * k = FatAt + 512 * k /\ reservedsectors + k = 1 + k
    BY <1>1 DEF Types, Drives, FatAt, bytespersector, reservedsectors
  <2>2. fat.at = FatAt + bytespersector * k /\ fat.sector = <<drivenumber, reservedsectors + k>>
    BY <2>1, CopyIs
  <2> QED
    BY <2>1, <2>2
<1>4. holds(fat)
  BY <1>1, <1>3 DEF FatAt, bytespersector, reservedsectors, numberofFATs, sectorsperFAT
<1>5. ASSUME NEW r \in ram, holds(r)
      PROVE  r = fat
  <2>1. r.at \in Nat
    BY CopyType DEF Memory, IsMemory
  <2>2. ~Apart(r.at, fat.at)
    BY <2>1, <1>1, <1>3, <1>5 DEF Apart, FatAt, bytespersector
  <2> QED
    BY <1>2, <2>2, Zenon DEF Memory, IsMemory
<1>6. value(fat) = FatByte(x)
  <2>1. ((fat.sector[2] - reservedsectors) % sectorsperFAT) * bytespersector
          + (FatAt + x) - fat.at = x
    BY <1>1, <1>3 DEF FatAt, bytespersector, reservedsectors, sectorsperFAT
  <2> QED
    BY <2>1, Zenon
<1>7. Byte(FatAt + x)
        = IF \E r \in ram : holds(r) THEN value(CHOOSE s \in ram : holds(s)) ELSE 0
  BY Zenon DEF Byte
<1> HIDE DEF holds, fat, value
<1>8. (CHOOSE s \in ram : holds(s)) = fat
  BY <1>2, <1>4, <1>5
<1> QED
  BY <1>2, <1>4, <1>6, <1>7, <1>8, Zenon

(* entryOf takes the entry of a cluster out of the first FAT. *)
LEMMA EntryIs ==
  ASSUME Types, Memory, NEW c \in Nat, c < totalsectors,
         \A k \in 0 .. sectorsperFAT - 1 :
           Copy(FatAt + bytespersector * k, drivenumber, reservedsectors + k) \in ram
  PROVE  entryOf(c) = FatEntry(c)
<1> DEFINE m == c \div 2
<1>1. m \in Nat /\ m < 1500 /\ (c = 2 * m \/ c = 2 * m + 1)
  BY DEF totalsectors
<1> HIDE DEF m
<1> DEFINE e == FatEntry(2 * m)
           o == FatEntry(2 * m + 1)
<1>2. e \in Nat /\ e < 4096 /\ o \in Nat /\ o < 4096
  BY <1>1, EntryRange DEF Types
<1>3. /\ Byte(FatAt + 3 * m) = e % 256
      /\ Byte(FatAt + (3 * m + 1)) = (e \div 256) + 16 * (o % 16)
      /\ Byte(FatAt + (3 * m + 2)) = o \div 16
  <2>1. /\ 3 * m \in Nat /\ 3 * m < sectorsperFAT * bytespersector
        /\ 3 * m + 1 \in Nat /\ 3 * m + 1 < sectorsperFAT * bytespersector
        /\ 3 * m + 2 \in Nat /\ 3 * m + 2 < sectorsperFAT * bytespersector
    BY <1>1 DEF sectorsperFAT, bytespersector
  <2> QED
    BY <1>1, <2>1, FatInMemory, FatByteOf
<1> HIDE DEF e, o
<1>4. CASE c = 2 * m
  <2>1. /\ c % 2 = 0 /\ FatAt + ((c * 3) \div 2) = FatAt + 3 * m
        /\ FatAt + ((c * 3) \div 2) + 1 = FatAt + (3 * m + 1)
    BY <1>1, <1>4 DEF FatAt
  <2>2. entryOf(c) = (Byte(FatAt + 3 * m) + 256 * Byte(FatAt + (3 * m + 1))) % 4096
    BY <2>1 DEF entryOf
  <2> QED
    BY <1>2, <1>3, <1>4, <2>2, EvenEntry DEF e
<1>5. CASE c = 2 * m + 1
  <2>1. /\ c % 2 # 0 /\ FatAt + ((c * 3) \div 2) = FatAt + (3 * m + 1)
        /\ FatAt + ((c * 3) \div 2) + 1 = FatAt + (3 * m + 2)
    BY <1>1, <1>5 DEF FatAt
  <2>2. entryOf(c) = (Byte(FatAt + (3 * m + 1)) + 256 * Byte(FatAt + (3 * m + 2))) \div 16
    BY <2>1 DEF entryOf
  <2> QED
    BY <1>2, <1>3, <1>5, <2>2, OddEntry DEF o
<1> QED
  BY <1>1, <1>4, <1>5

-----------------------------------------------------------------------------
(* A file from an address on. *)
LEMMA BeginningIs ==
  ASSUME disk \in Disks, NEW from \in Nat, NEW drive \in Drives, NEW file \in Files,
         NEW n \in Nat, n <= Len(Chain(file))
  PROVE  \A r \in Beginning(from, drive, file, n) :
           /\ r \in Copies
           /\ r.at >= from /\ r.at + bytespersector <= from + bytespersector * n
<1> TAKE r \in Beginning(from, drive, file, n)
<1>1. PICK k \in 1 .. n : r = Copy(from + bytespersector * (k - 1), drive, Chain(file)[k] + 31)
  BY Zenon DEF Beginning
<1>2. k \in 1 .. Len(Chain(file))
  BY ChainType
<1>3. Chain(file)[k] + 31 \in Nat /\ Chain(file)[k] + 31 < 2880
  <2>1. Chain(file)[k] \in Clusters
    BY <1>2, ChainType, Zenon
  <2> QED
    BY <2>1, ClusterRange
<1>4. from + bytespersector * (k - 1) \in Nat
  BY DEF bytespersector
<1>5. r.at = from + bytespersector * (k - 1) /\ r \in Copies
  BY <1>1, <1>3, <1>4, CopyIs
<1>6. r.at >= from /\ r.at + bytespersector <= from + bytespersector * n
  BY <1>5 DEF bytespersector
<1> QED
  BY <1>5, <1>6, Zenon

(* One cluster more. *)
OneMore(from, drive, file, n) ==
  Beginning(from, drive, file, n + 1)
    = Beginning(from, drive, file, n)
        \cup {Copy(from + bytespersector * n, drive, Chain(file)[n + 1] + 31)}

LEMMA BeginningNext ==
  ASSUME NEW from, NEW drive, NEW file, NEW n \in Nat
  PROVE  OneMore(from, drive, file, n)
<1>1. ASSUME NEW k \in 1 .. n + 1
      PROVE  k \in 1 .. n \/ (k = n + 1 /\ k - 1 = n)
  OBVIOUS
<1>2. \A k \in 1 .. n : k \in 1 .. n + 1
  OBVIOUS
<1>3. n + 1 \in 1 .. n + 1 /\ (n + 1) - 1 = n
  OBVIOUS
<1>4. ASSUME NEW r \in Beginning(from, drive, file, n + 1)
      PROVE  r \in Beginning(from, drive, file, n)
               \cup {Copy(from + bytespersector * n, drive, Chain(file)[n + 1] + 31)}
  <2>1. PICK k \in 1 .. n + 1 :
          r = Copy(from + bytespersector * (k - 1), drive, Chain(file)[k] + 31)
    BY Zenon DEF Beginning
  <2>2. CASE k \in 1 .. n
    BY <2>1, <2>2, Zenon DEF Beginning
  <2>3. CASE k = n + 1 /\ k - 1 = n
    BY <2>1, <2>3, Zenon
  <2> QED
    BY <1>1, <2>2, <2>3, Zenon
<1>5. Beginning(from, drive, file, n) \subseteq Beginning(from, drive, file, n + 1)
  BY <1>2, Zenon DEF Beginning
<1>6. Copy(from + bytespersector * n, drive, Chain(file)[n + 1] + 31)
        \in Beginning(from, drive, file, n + 1)
  <2>1. Copy(from + bytespersector * ((n + 1) - 1), drive, Chain(file)[n + 1] + 31)
          \in Beginning(from, drive, file, n + 1)
    BY <1>3, Zenon DEF Beginning
  <2> QED
    BY <2>1, <1>3, Zenon
<1> QED
  BY <1>4, <1>5, <1>6, Zenon DEF OneMore

LEMMA BeginningNone ==
  ASSUME NEW from, NEW drive, NEW file
  PROVE  Beginning(from, drive, file, 0) = {}
<1>1. \A k : k \notin 1 .. 0
  OBVIOUS
<1> QED
  BY <1>1, Zenon DEF Beginning

LEMMA ImageIs ==
  ASSUME disk \in Disks, NEW from, NEW drive, NEW file \in Files
  PROVE  ImageAt(from, drive, file) = Beginning(from, drive, file, Len(Chain(file)))
<1>1. DOMAIN disk[file].chain = 1 .. Len(Chain(file))
  BY ChainType, Zenon DEF Chain
<1> QED
  BY <1>1, Zenon DEF ImageAt, Beginning, Copy, Chain

LEMMA TheFiles == Stage2File \in Files /\ KernelFile \in Files
BY DEF Files, Stage2File, KernelFile

(* The floppy stays. *)
LEMMA SameFloppy ==
  ASSUME UNCHANGED <<disk, drivenumber>>
  PROVE  /\ \A file : Chain(file)' = Chain(file)
         /\ \A from, drive, file, n :
              Beginning(from, drive, file, n)' = Beginning(from, drive, file, n)
         /\ \A from, drive, file : ImageAt(from, drive, file)' = ImageAt(from, drive, file)
<1>1. disk' = disk
  OBVIOUS
<1>2. \A file : Chain(file)' = Chain(file)
  BY <1>1, Zenon DEF Chain
<1>3. \A from, drive, file, n :
        Beginning(from, drive, file, n)' = Beginning(from, drive, file, n)
  BY <1>1, Zenon DEF Beginning, Chain
<1>4. \A from, drive, file : ImageAt(from, drive, file)' = ImageAt(from, drive, file)
  BY <1>1, Zenon DEF ImageAt
<1> QED
  BY <1>2, <1>3, <1>4, Zenon

-----------------------------------------------------------------------------
(* Which cluster of the kernel is taken for its first. *)
LEMMA SameFirst ==
  ASSUME UNCHANGED <<disk, cleared>>
  PROVE  Misdirected' <=> Misdirected
BY Zenon DEF Misdirected, FirstCluster, EntryAt

LEMMA EntryAtIs ==
  ASSUME disk \in Disks, NEW file \in Files
  PROVE  EntryAt(file) \in Nat /\ EntryAt(file) >= RootAt
<1>1. disk[file].entry \in 0 .. rootentries - 1
  <2>1. \A f \in Files : disk[f].entry \in 0 .. rootentries - 1
    BY Floppy, Zenon DEF IsFloppy
  <2> QED
    BY <2>1, Zenon
<1> QED
  BY <1>1 DEF EntryAt, RootAt, rootentries

LEMMA NothingCleared ==
  ASSUME disk \in Disks, cleared = 0, NEW file \in Files
  PROVE  FirstCluster(file) = Chain(file)[1] /\ ~Misdirected
<1>1. ASSUME NEW f \in Files
      PROVE  FirstCluster(f) = Chain(f)[1]
  <2>1. cleared # EntryAt(f) + 26 /\ cleared # EntryAt(f) + 27
    BY EntryAtIs DEF RootAt
  <2> QED
    BY <2>1, Zenon DEF FirstCluster, Chain
<1> QED
  BY <1>1, TheFiles, Zenon DEF Misdirected, KernelFile, Chain

(* Half of the number of a cluster may be left of it. *)
LEMMA FirstClusterIs ==
  ASSUME disk \in Disks, NEW file \in Files
  PROVE  FirstCluster(file) \in Nat /\ FirstCluster(file) <= 2848
<1> DEFINE first == Chain(file)[1]
<1>1. first \in Nat /\ first <= 2848
  <2>1. 1 \in 1 .. Len(Chain(file))
    BY ChainType
  <2> QED
    BY <2>1, ChainType, ClusterRange
<1>2. \/ FirstCluster(file) = first
      \/ FirstCluster(file) = first - (first % 256)
      \/ FirstCluster(file) = first % 256
  BY Zenon DEF FirstCluster, Chain
<1> HIDE DEF first
<1> QED
  BY <1>1, <1>2

LEMMA RangesStay ==
  ASSUME Ranges, UNCHANGED <<disk, cleared, to, LBA>>
  PROVE  Ranges'
BY SameFirst, Zenon DEF Ranges

LEMMA RangesAre ==
  ASSUME to' \in Places, LBA' \in Addresses
  PROVE  Ranges'
BY Zenon DEF Ranges

-----------------------------------------------------------------------------
(* Nothing is said of memory when the machine stands still. *)
LEMMA ErrorKeeps ==
  ASSUME Types, Ranges, Memory',
         UNCHANGED <<disk, cleared, drivenumber, logicalcluster, to, LBA, res>>,
         failed' \in BOOLEAN, pc' \in {"disk_read_error", "search_error"}
  PROVE  IInv'
<1>1. Types'
  BY DEF Types, Labels
<1>2. /\ pc' \notin Loading \cup Jumped \cup KernelLoading /\ pc' \notin BeforeFat
      /\ pc' # "file_found" /\ pc' # "header" /\ pc' # "kernel"
  BY DEF Loading, KernelLoading, BeforeFat, Jumped
<1>7. Ranges'
  BY RangesStay, Zenon
<1>3. FatLoaded'
  BY <1>2, Zenon DEF FatLoaded
<1>4. Stage1Progress'
  BY <1>2, Zenon DEF Stage1Progress
<1>5. Stage2Progress'
  BY <1>2, Zenon DEF Stage2Progress
<1>6. Stage2Complete'
  BY <1>2 DEF Stage2Complete, KernelLoading
<1> QED
  BY <1>1, <1>3, <1>4, <1>5, <1>6, <1>7, Zenon DEF IInv

(* A read of stage 1: it stops, or goes on with what it wanted. *)
LEMMA ReadDiskIs ==
  ASSUME Types, Ranges, Memory, NEW lba \in Nat, NEW count \in Nat, NEW from \in Nat, NEW next,
         ReadDisk(lba, count, from, next),
         UNCHANGED <<disk, cleared, drivenumber, logicalcluster, to, LBA, res>>
  PROVE  \/ IInv'
         \/ /\ pc' = next /\ failed' = failed /\ Memory'
            /\ \A r \in ram : r.at + bytespersector <= from
                                \/ from + bytespersector * count <= r.at => r \in ram'
            /\ \A k \in 0 .. count - 1 :
                 Copy(from + bytespersector * k, drivenumber, lba + k) \in ram'
            /\ \A r \in ram' :
                 r \in ram \/ (from <= r.at
                                /\ r.at + bytespersector <= from + bytespersector * count)
<1>1. drivenumber \in Drives
  BY DEF Types, Drives
<1>2. CASE /\ OnDisk(lba, count)
           /\ ram' = Placed(from, SectorsFrom(drivenumber, lba, count))
           /\ pc' = next /\ UNCHANGED failed
  <2>1. Memory'
    BY <1>1, <1>2, PlacedMemory, Zenon DEF Memory
  <2>2. /\ \A r \in ram : r.at + bytespersector <= from
                            \/ from + bytespersector * count <= r.at => r \in ram'
        /\ \A k \in 0 .. count - 1 :
             Copy(from + bytespersector * k, drivenumber, lba + k) \in ram'
        /\ \A r \in ram' : r \in ram \/ r \in Written(from, drivenumber, lba, count)
    <3>1. AfterRead(Placed(from, SectorsFrom(drivenumber, lba, count)),
                    from, drivenumber, lba, count)
      BY ReadIs
    <3> QED
      BY <1>2, <3>1, Zenon DEF AfterRead
  <2>3. \A r \in Written(from, drivenumber, lba, count) :
          from <= r.at /\ r.at + bytespersector <= from + bytespersector * count
    BY <1>1, <1>2, WrittenIs, Zenon
  <2> QED
    BY <1>2, <2>1, <2>2, <2>3, Zenon
<1>3. CASE /\ pc' = "disk_read_error" /\ failed' = (failed \/ OnDisk(lba, count))
           /\ UNCHANGED ram
  <2>1. Memory'
    BY <1>3, Zenon DEF Memory
  <2>2. failed' \in BOOLEAN
    BY <1>3, Zenon
  <2> QED
    BY <1>3, <2>1, <2>2, ErrorKeeps
<1> QED
  BY <1>2, <1>3, Zenon DEF ReadDisk

-----------------------------------------------------------------------------
(* The initial states, and the steps one by one. *)
LEMMA InitIInv == Init => IInv
<1> SUFFICES ASSUME Init
             PROVE  IInv
  OBVIOUS
<1>1. Types
  <2>1. pc \in Labels /\ res \in {0, 1} /\ failed \in BOOLEAN
    BY DEF Init, Labels, BeforeFat
  <2>2. logicalcluster \in {0} \cup Clusters /\ cleared \in Nat
    BY DEF Init
  <2>3. disk \in Disks /\ drivenumber \in BootDrives
    BY Zenon DEF Init
  <2> QED
    BY <2>1, <2>2, <2>3, Zenon DEF Types
<1>6. Ranges
  <2>1. to \in Places /\ LBA \in Addresses
    <3>1. 0 \in Nat /\ 0 <= MaxReads /\ Stage2At + bytespersector * 0 = Stage2At
      <4>1. MaxReads \in Nat
        BY BootAssumption, Zenon
      <4> QED
        BY <4>1 DEF Stage2At, bytespersector
    <3>2. Stage2At \in Places
      BY <3>1, PlaceIs
    <3> QED
      BY <3>2, AddressRange DEF Init
  <2> QED
    BY <2>1, Zenon DEF Ranges
<1>2. Memory
  BY DEF Init, Memory, IsMemory
<1>3. FatLoaded
  BY DEF Init, FatLoaded, Loading, Jumped, KernelLoading
<1>4. Stage1Progress
  BY DEF Init, Stage1Progress, BeforeFat, Loading
<1>5. Stage2Progress /\ Stage2Complete
  BY DEF Init, Stage2Progress, Stage2Complete, KernelLoading
<1> QED
  BY <1>1, <1>2, <1>3, <1>4, <1>5, <1>6, Zenon DEF IInv

(* Before the FAT is in memory, only stage 1's own variables matter. *)
LEMMA EarlyKeeps ==
  ASSUME Types', Ranges', Memory', pc' \in BeforeFat, to' = Stage2At, cleared' = 0,
         pc' = "file_found" => logicalcluster' = Chain(Stage2File)'[1],
         ~failed', LBA' = 0, res' = 1,
         \A r \in ram' : r.at + bytespersector <= KernelAt
  PROVE  IInv'
<1>1. pc' \notin Loading \cup Jumped \cup KernelLoading /\ pc' # "kernel"
  BY DEF Loading, KernelLoading, BeforeFat, Jumped
<1>2. FatLoaded' /\ Stage2Progress'
  BY <1>1, Zenon DEF FatLoaded, Stage2Progress
<1>3. Stage1Progress'
  BY <1>1, Zenon DEF Stage1Progress
<1>4. Stage2Complete'
  BY <1>1 DEF Stage2Complete, Jumped, KernelLoading
<1> QED
  BY <1>2, <1>3, <1>4, Zenon DEF IInv

LEMMA bootloaderKeeps ==
  ASSUME IInv, bootloader
  PROVE  IInv'
<1>0. Types /\ Ranges /\ Memory
  BY Zenon DEF IInv
<1>1. /\ pc = "bootloader" /\ ReadDisk(1, 1, RootAt, "findLBA_root_dir")
      /\ UNCHANGED <<disk, cleared, drivenumber, logicalcluster, to, LBA, res>>
  BY Zenon DEF bootloader
<1>2. RootAt \in Nat /\ RootAt + bytespersector * 1 <= KernelAt
  BY DEF RootAt, KernelAt, bytespersector
<1>3. CASE /\ pc' = "findLBA_root_dir" /\ failed' = failed /\ Memory'
           /\ \A r \in ram' : r \in ram \/ (RootAt <= r.at
                /\ r.at + bytespersector <= RootAt + bytespersector * 1)
  <2>1. Types'
    BY <1>1, <1>3 DEF IInv, Types, Labels, BeforeFat
  <2>2. pc \in BeforeFat /\ pc' \in BeforeFat /\ pc' # "file_found"
    BY <1>1, <1>3 DEF BeforeFat
  <2>3. /\ to' = Stage2At /\ ~failed' /\ LBA' = 0 /\ res' = 1 /\ cleared' = 0
        /\ \A r \in ram : r.at + bytespersector <= KernelAt
    BY <1>1, <1>3, <2>2, Zenon DEF IInv, Stage1Progress
  <2>4. \A r \in ram' : r.at + bytespersector <= KernelAt
    <3>1. \A r \in ram' : r.at \in Nat
      BY <1>3, CopyType DEF Memory, IsMemory
    <3> QED
      BY <1>2, <1>3, <2>3, <3>1 DEF RootAt, KernelAt, bytespersector
  <2> QED
    BY <1>0, <1>1, <1>3, <2>1, <2>2, <2>3, <2>4, RangesStay, EarlyKeeps, Zenon
<1>4. 1 \in Nat
  OBVIOUS
<1> QED
  BY <1>0, <1>1, <1>2, <1>3, <1>4, ReadDiskIs, Zenon


LEMMA read_rootKeeps ==
  ASSUME IInv, read_root
  PROVE  IInv'
<1>0. Types /\ Ranges /\ Memory
  BY Zenon DEF IInv
<1> DEFINE lba == findLBA_root_dir
           count == size_root_dir
<1>1. /\ pc = "findLBA_root_dir" /\ ReadDisk(lba, count, RootAt, "file_search")
      /\ UNCHANGED <<disk, cleared, drivenumber, logicalcluster, to, LBA, res>>
  BY Zenon DEF read_root
<1>2. lba \in Nat /\ count \in Nat /\ RootAt \in Nat
      /\ RootAt + bytespersector * count <= KernelAt
  BY DEF findLBA_root_dir, size_root_dir, sectorsperFAT, numberofFATs, reservedsectors,
         RootAt, KernelAt, bytespersector
<1> HIDE DEF lba, count
<1>3. CASE /\ pc' = "file_search" /\ failed' = failed /\ Memory'
           /\ \A r \in ram' : r \in ram \/ (RootAt <= r.at
                /\ r.at + bytespersector <= RootAt + bytespersector * count)
  <2>1. Types'
    BY <1>1, <1>3 DEF IInv, Types, Labels, BeforeFat
  <2>2. pc \in BeforeFat /\ pc' \in BeforeFat /\ pc' # "file_found"
    BY <1>1, <1>3 DEF BeforeFat
  <2>3. /\ to' = Stage2At /\ ~failed' /\ LBA' = 0 /\ res' = 1 /\ cleared' = 0
        /\ \A r \in ram : r.at + bytespersector <= KernelAt
    BY <1>1, <1>3, <2>2, Zenon DEF IInv, Stage1Progress
  <2>4. \A r \in ram' : r.at + bytespersector <= KernelAt
    <3>1. \A r \in ram' : r.at \in Nat
      BY <1>3, CopyType DEF Memory, IsMemory
    <3> QED
      BY <1>2, <1>3, <2>3, <3>1 DEF RootAt, KernelAt, bytespersector
  <2> QED
    BY <1>0, <1>1, <1>3, <2>1, <2>2, <2>3, <2>4, RangesStay, EarlyKeeps, Zenon
<1> QED
  BY <1>0, <1>1, <1>2, <1>3, ReadDiskIs, Zenon

LEMMA file_searchKeeps ==
  ASSUME IInv, file_search
  PROVE  IInv'
<1>1. /\ pc = "file_search" /\ pc' = "file_found"
      /\ logicalcluster' = FirstCluster(Stage2File)
      /\ UNCHANGED <<disk, cleared, drivenumber, ram, to, LBA, res, failed>>
  BY Zenon DEF file_search, Stage2File
<1>0. /\ pc \in BeforeFat /\ pc' \in BeforeFat
      /\ cleared = 0 /\ cleared' = 0 /\ Types /\ Ranges /\ disk \in Disks
  <2>1. pc \in BeforeFat /\ pc' \in BeforeFat
    BY <1>1 DEF BeforeFat
  <2> QED
    BY <1>1, <2>1, Zenon DEF IInv, Stage1Progress, Types
<1>2. logicalcluster' = Chain(Stage2File)[1] /\ Chain(Stage2File)' = Chain(Stage2File)
  <2>1. FirstCluster(Stage2File) = Chain(Stage2File)[1]
    BY <1>0, NothingCleared, TheFiles, Zenon
  <2> QED
    BY <1>1, <2>1, Zenon DEF Chain
<1>3. logicalcluster' \in Clusters
  <2>1. 1 \in 1 .. Len(Chain(Stage2File))
    BY ChainType, TheFiles DEF IInv, Types
  <2> QED
    BY <1>2, <2>1, ChainType, TheFiles, Zenon DEF IInv, Types
<1>4. Types'
  BY <1>1, <1>3 DEF IInv, Types, Labels, BeforeFat
<1>5. Memory'
  BY <1>1, Zenon DEF IInv, Memory
<1>6. Ranges'
  BY <1>0, <1>1, RangesStay, Zenon
<1>7. /\ to' = Stage2At /\ ~failed' /\ LBA' = 0 /\ res' = 1
      /\ \A r \in ram' : r.at + bytespersector <= KernelAt
  BY <1>0, <1>1, Zenon DEF IInv, Stage1Progress
<1> QED
  BY <1>0, <1>2, <1>4, <1>5, <1>6, <1>7, EarlyKeeps, Zenon

LEMMA search_errorKeeps ==
  ASSUME IInv, NEW label, NEW file, search_error(label, file)
  PROVE  IInv'
<1>1. /\ pc' = "search_error"
      /\ UNCHANGED <<disk, cleared, drivenumber, ram, logicalcluster, to, LBA, res, failed>>
  BY Zenon DEF search_error
<1>2. Memory' /\ Types /\ Ranges
  BY <1>1, Zenon DEF IInv, Memory
<1>3. failed' \in BOOLEAN
  BY <1>1, Zenon DEF IInv, Types
<1> QED
  BY <1>1, <1>2, <1>3, ErrorKeeps

(* From here on the first FAT is in memory, below everything that is written. *)
FatIsIn(m) ==
  \A k \in 0 .. sectorsperFAT - 1 :
    Copy(FatAt + bytespersector * k, drivenumber, reservedsectors + k) \in m

LEMMA FatStays ==
  ASSUME FatIsIn(ram), drivenumber' = drivenumber, NEW from \in Nat, from >= BufferAt,
         \A r \in ram : r.at + bytespersector <= from => r \in ram'
  PROVE  FatIsIn(ram)' /\ FatLoaded'
<1>1. ASSUME NEW k \in 0 .. sectorsperFAT - 1
      PROVE  Copy(FatAt + bytespersector * k, drivenumber, reservedsectors + k) \in ram'
  <2>1. Copy(FatAt + bytespersector * k, drivenumber, reservedsectors + k).at
          = FatAt + bytespersector * k
    BY DEF Copy
  <2>2. FatAt + bytespersector * k + bytespersector <= from
    BY DEF FatAt, BufferAt, bytespersector, sectorsperFAT
  <2> QED
    BY <2>1, <2>2 DEF FatIsIn
<1>2. FatIsIn(ram)'
  BY <1>1, Zenon DEF FatIsIn
<1> QED
  BY <1>2, Zenon DEF FatIsIn, FatLoaded

LEMMA FatThere ==
  ASSUME IInv, pc \in Loading \cup Jumped \cup KernelLoading
  PROVE  FatIsIn(ram)
BY Zenon DEF IInv, FatLoaded, FatIsIn

(* While stage 2 is loaded, and when it has been. *)
LEMMA LoadingKeeps ==
  ASSUME Types', Ranges', Memory', FatIsIn(ram)', pc' \in Loading, cleared' = 0,
         NEW i \in 1 .. Len(Chain(Stage2File)'), AtCluster(i)',
         ~failed', LBA' = 0, res' = 1,
         \A r \in ram' : r.at + bytespersector <= KernelAt
  PROVE  IInv'
<1>1. /\ pc' \notin BeforeFat /\ pc' # "file_found" /\ pc' \notin Jumped /\ pc' # "kernel"
      /\ pc' \notin KernelLoading
  BY DEF Loading, KernelLoading, BeforeFat, Jumped
<1>2. FatLoaded'
  BY Zenon DEF FatLoaded, FatIsIn
<1>3. Stage2Progress'
  BY <1>1, Zenon DEF Stage2Progress
<1>4. Stage1Progress'
  BY <1>1, Zenon DEF Stage1Progress
<1>5. Stage2Complete'
  BY <1>1 DEF Stage2Complete, Jumped, KernelLoading
<1> QED
  BY <1>2, <1>3, <1>4, <1>5, Zenon DEF IInv

LEMMA file_foundKeeps ==
  ASSUME IInv, file_found
  PROVE  IInv'
<1>0. Types /\ Ranges /\ Memory
  BY Zenon DEF IInv
<1> DEFINE count == 18
<1>1. /\ pc = "file_found" /\ ReadDisk(reservedsectors, count, FatAt, "loadfile")
      /\ UNCHANGED <<disk, cleared, drivenumber, logicalcluster, to, LBA, res>>
  BY Zenon DEF file_found
<1>2. reservedsectors \in Nat /\ count \in Nat /\ FatAt \in Nat
      /\ FatAt + bytespersector * count <= KernelAt
      /\ \A k \in 0 .. sectorsperFAT - 1 : k \in 0 .. count - 1
  BY DEF reservedsectors, FatAt, KernelAt, bytespersector, sectorsperFAT
<1> HIDE DEF count
<1>3. CASE /\ pc' = "loadfile" /\ failed' = failed /\ Memory'
           /\ \A k \in 0 .. count - 1 :
                Copy(FatAt + bytespersector * k, drivenumber, reservedsectors + k) \in ram'
           /\ \A r \in ram' : r \in ram \/ (FatAt <= r.at
                /\ r.at + bytespersector <= FatAt + bytespersector * count)
  <2>1. Types'
    BY <1>1, <1>3 DEF IInv, Types, Labels, Loading
  <2>2. pc \in BeforeFat /\ pc' \in Loading
    BY <1>1, <1>3 DEF BeforeFat, Loading
  <2>3. /\ to = Stage2At /\ logicalcluster = Chain(Stage2File)[1]
        /\ ~failed' /\ LBA' = 0 /\ res' = 1 /\ cleared' = 0
        /\ \A r \in ram : r.at + bytespersector <= KernelAt
    BY <1>1, <1>3, <2>2, Zenon DEF IInv, Stage1Progress
  <2>4. \A r \in ram' : r.at + bytespersector <= KernelAt
    <3>1. \A r \in ram' : r.at \in Nat
      BY <1>3, CopyType DEF Memory, IsMemory
    <3> QED
      BY <1>2, <1>3, <2>3, <3>1 DEF FatAt, KernelAt, bytespersector
  <2>5. FatIsIn(ram)'
    BY <1>1, <1>2, <1>3, Zenon DEF FatIsIn
  <2>6. Chain(Stage2File)' = Chain(Stage2File) /\ 1 \in 1 .. Len(Chain(Stage2File))
    BY <1>1, SameFloppy, ChainType, TheFiles DEF IInv, Types
  <2>7. AtCluster(1)'
    <3>1. to' = Stage2At + bytespersector * (1 - 1)
      BY <1>1, <2>3 DEF Stage2At, bytespersector
    <3>2. logicalcluster' = Chain(Stage2File)'[1]
      BY <1>1, <2>3, <2>6, Zenon
    <3>3. Beginning(Stage2At, drivenumber, Stage2File, 0)' = {}
      BY <1>1, SameFloppy, BeginningNone
    <3>4. (IF pc' = "loadfile" THEN 1 - 1 ELSE 1) = 0
      BY <1>3
    <3> QED
      BY <3>1, <3>2, <3>3, <3>4 DEF AtCluster
  <2> QED
    BY <1>0, <1>1, <1>3, <2>1, <2>2, <2>3, <2>4, <2>5, <2>6, <2>7, RangesStay, LoadingKeeps, Zenon
<1> QED
  BY <1>0, <1>1, <1>2, <1>3, ReadDiskIs, Zenon


LEMMA ClusterBounds ==
  ASSUME Types, NEW i \in 1 .. Len(Chain(Stage2File)), to = Stage2At + bytespersector * (i - 1)
  PROVE  /\ to \in Nat /\ to >= Stage2At /\ to + bytespersector <= StackAt
         /\ to + bytespersector <= KernelAt /\ to >= BufferAt
<1>1. Stage2At + bytespersector * Len(Chain(Stage2File)) <= StackAt
  BY Floppy, Zenon DEF Types
<1>2. Len(Chain(Stage2File)) \in Nat /\ i \in Nat /\ i >= 1 /\ i <= Len(Chain(Stage2File))
  BY ChainType, TheFiles DEF Types
<1> QED
  BY <1>1, <1>2 DEF Stage2At, StackAt, KernelAt, BufferAt, bytespersector

LEMMA loadfileKeeps ==
  ASSUME IInv, loadfile
  PROVE  IInv'
<1>0. Types /\ Ranges /\ Memory
  BY Zenon DEF IInv
<1> DEFINE lba == logicalcluster + 31
           count == 1
<1>1. /\ pc = "loadfile" /\ ReadDisk(lba, count, to, "nextcluster")
      /\ UNCHANGED <<disk, cleared, drivenumber, logicalcluster, to, LBA, res>>
  BY Zenon DEF loadfile
<1>2. pc \in Loading
  BY <1>1 DEF Loading
<1>3. PICK i \in 1 .. Len(Chain(Stage2File)) : AtCluster(i)
  BY <1>2, Zenon DEF IInv, Stage1Progress
<1>4. /\ to = Stage2At + bytespersector * (i - 1) /\ logicalcluster = Chain(Stage2File)[i]
      /\ Beginning(Stage2At, drivenumber, Stage2File, i - 1) \subseteq ram
  BY <1>1, <1>3 DEF AtCluster
<1>5. Types /\ Memory /\ disk \in Disks
  BY Zenon DEF IInv, Types
<1>6. lba \in Nat /\ count \in Nat /\ i \in Nat /\ i - 1 \in Nat /\ (i - 1) + 1 = i
      /\ i - 1 <= Len(Chain(Stage2File)) /\ 0 \in 0 .. count - 1 /\ lba + 0 = lba
      /\ lba = Chain(Stage2File)[i] + 31
  <2>1. logicalcluster \in Nat
    BY <1>4, <1>5, ChainType, TheFiles, ClusterRange
  <2>2. Len(Chain(Stage2File)) \in Nat
    BY <1>5, ChainType, TheFiles
  <2> QED
    BY <1>4, <2>1, <2>2
<1>7. /\ to \in Nat /\ to >= Stage2At /\ to + bytespersector <= StackAt
      /\ to + bytespersector <= KernelAt /\ to >= BufferAt
  BY <1>4, <1>5, ClusterBounds
<1>8. to + bytespersector * 0 = to /\ to + bytespersector * count = to + bytespersector
  BY <1>7 DEF bytespersector
<1> HIDE DEF lba, count
<1>9. CASE /\ pc' = "nextcluster" /\ failed' = failed /\ Memory'
           /\ \A r \in ram : r.at + bytespersector <= to
                               \/ to + bytespersector * count <= r.at => r \in ram'
           /\ \A k \in 0 .. count - 1 :
                Copy(to + bytespersector * k, drivenumber, lba + k) \in ram'
           /\ \A r \in ram' : r \in ram \/ (to <= r.at
                /\ r.at + bytespersector <= to + bytespersector * count)
  <2>1. Types'
    BY <1>1, <1>9 DEF IInv, Types, Labels, Loading
  <2>2. pc' \in Loading
    BY <1>9 DEF Loading
  <2>3. /\ ~failed' /\ LBA' = 0 /\ res' = 1 /\ cleared' = 0
        /\ \A r \in ram : r.at + bytespersector <= KernelAt
    BY <1>1, <1>2, <1>9, Zenon DEF IInv, Stage1Progress
  <2>4. \A r \in ram' : r.at + bytespersector <= KernelAt
    <3>1. \A r \in ram' : r.at \in Nat
      BY <1>9, CopyType DEF Memory, IsMemory
    <3> QED
      BY <1>7, <1>8, <1>9, <2>3, <3>1 DEF KernelAt, bytespersector
  <2>5. FatIsIn(ram)'
    BY <1>1, <1>2, <1>7, <1>9, FatThere, FatStays, Zenon
  <2>6. Chain(Stage2File)' = Chain(Stage2File)
    BY <1>1, SameFloppy
  <2>7. AtCluster(i)'
    <3>1. to' = Stage2At + bytespersector * (i - 1) /\ logicalcluster' = Chain(Stage2File)'[i]
      BY <1>1, <1>4, <2>6, Zenon
    <3>2. Beginning(Stage2At, drivenumber, Stage2File, i - 1) \subseteq ram'
      <4>1. ASSUME NEW r \in Beginning(Stage2At, drivenumber, Stage2File, i - 1)
            PROVE  r.at + bytespersector <= to
        <5>1. Stage2At \in Nat
          BY DEF Stage2At
        <5> DEFINE n == i - 1
        <5>2. n \in Nat /\ n <= Len(Chain(Stage2File)) /\ to = Stage2At + bytespersector * n
              /\ r \in Beginning(Stage2At, drivenumber, Stage2File, n)
          BY <1>4, <1>6
        <5> HIDE DEF n
        <5>3. disk \in Disks /\ drivenumber \in Drives /\ Stage2File \in Files
          BY <1>5, TheFiles, Zenon DEF Types, Drives
        <5>4. \A s \in Beginning(Stage2At, drivenumber, Stage2File, n) :
                s.at + bytespersector <= Stage2At + bytespersector * n
          BY <5>1, <5>2, <5>3, BeginningIs, Zenon
        <5>5. r.at + bytespersector <= Stage2At + bytespersector * n
          BY <5>2, <5>4, Zenon
        <5> QED
          BY <5>2, <5>5, Zenon
      <4> QED
        BY <1>4, <1>9, <4>1, Zenon
    <3>3. Copy(Stage2At + bytespersector * (i - 1), drivenumber, Chain(Stage2File)[i] + 31)
            \in ram'
      <4>1. Copy(to + bytespersector * 0, drivenumber, lba + 0) \in ram'
        BY <1>6, <1>9, Zenon
      <4> QED
        BY <1>4, <1>6, <1>8, <4>1, Zenon
    <3>4. Beginning(Stage2At, drivenumber, Stage2File, i) \subseteq ram'
      <4>1. Beginning(Stage2At, drivenumber, Stage2File, (i - 1) + 1)
              = Beginning(Stage2At, drivenumber, Stage2File, i - 1)
                  \cup {Copy(Stage2At + bytespersector * (i - 1), drivenumber,
                             Chain(Stage2File)[(i - 1) + 1] + 31)}
        <5> DEFINE n == i - 1
        <5>1. n \in Nat
          BY <1>6
        <5> HIDE DEF n
        <5>2. Beginning(Stage2At, drivenumber, Stage2File, n + 1)
                = Beginning(Stage2At, drivenumber, Stage2File, n)
                    \cup {Copy(Stage2At + bytespersector * n, drivenumber,
                               Chain(Stage2File)[n + 1] + 31)}
          <6>1. OneMore(Stage2At, drivenumber, Stage2File, n)
            BY <5>1, BeginningNext, Zenon
          <6> QED
            BY <6>1, Zenon DEF OneMore
        <5> QED
          BY <5>2, Zenon DEF n
      <4> QED
        BY <1>6, <3>2, <3>3, <4>1, Zenon
    <3>5. Beginning(Stage2At, drivenumber, Stage2File, i)' \subseteq ram'
      BY <1>1, <3>4, SameFloppy
    <3>6. pc' # "loadfile"
      BY <1>9
    <3> QED
      BY <3>1, <3>5, <3>6 DEF AtCluster
  <2>8. i \in 1 .. Len(Chain(Stage2File)')
    BY <2>6
  <2> QED
    BY <1>0, <1>1, <1>9, <2>1, <2>2, <2>3, <2>4, <2>5, <2>7, <2>8, RangesStay, LoadingKeeps, Zenon
<1> QED
  BY <1>0, <1>1, <1>6, <1>7, <1>9, ReadDiskIs, Zenon

(* What entryOf finds at a cluster of a file. *)
LEMMA NextIs ==
  ASSUME Types, Memory, FatIsIn(ram), NEW file \in Files, NEW i \in 1 .. Len(Chain(file))
  PROVE  IF i = Len(Chain(file)) THEN endOfFile(entryOf(Chain(file)[i]))
         ELSE /\ ~endOfFile(entryOf(Chain(file)[i]))
              /\ entryOf(Chain(file)[i]) = Chain(file)[i + 1] /\ i + 1 \in 1 .. Len(Chain(file))
<1> DEFINE c == Chain(file)[i]
<1>1. disk \in Disks
  BY Zenon DEF Types
<1>2. c \in Nat /\ c < totalsectors
  BY <1>1, ChainType, ClusterRange DEF totalsectors
<1>3. entryOf(c) = FatEntry(c)
  <2> HIDE DEF c
  <2> QED
    BY <1>2, EntryIs, Zenon DEF FatIsIn
<1>4. CASE i = Len(Chain(file))
  <2>1. entryOf(c) = disk.mark
    BY <1>1, <1>3, <1>4, FatFollows, Zenon
  <2> QED
    BY <1>1, <1>4, <2>1, MarkRange DEF endOfFile
<1>5. CASE i # Len(Chain(file))
  <2>1. i + 1 \in 1 .. Len(Chain(file)) /\ entryOf(c) = Chain(file)[i + 1]
    BY <1>1, <1>3, <1>5, FatFollows, Zenon
  <2>2. Chain(file)[i + 1] \in Clusters
    BY <1>1, <2>1, ChainType, Zenon
  <2> QED
    BY <1>5, <2>1, <2>2, ClusterRange DEF endOfFile
<1> QED
  BY <1>4, <1>5, Zenon


(* Stage 2 has been loaded. *)
LEMMA JumpedKeeps ==
  ASSUME Types', Ranges', Memory', FatIsIn(ram)', pc' \in Jumped,
         pc' = "header" => cleared' = 0,
         ImageAt(Stage2At, drivenumber, Stage2File)' \subseteq ram',
         ~failed', LBA' = 0, res' = 1,
         \A r \in ram' : r.at + bytespersector <= KernelAt
  PROVE  IInv'
<1>1. /\ pc' \notin BeforeFat /\ pc' # "file_found" /\ pc' # "kernel"
      /\ pc' \notin KernelLoading /\ pc' \notin Loading
  BY DEF Loading, KernelLoading, BeforeFat, Jumped
<1>2. FatLoaded'
  BY Zenon DEF FatLoaded, FatIsIn
<1>3. Stage2Progress'
  BY <1>1, Zenon DEF Stage2Progress
<1>4. Stage1Progress'
  <2>1. pc' \in {"header"} => cleared' = 0
    OBVIOUS
  <2> QED
    BY <1>1, <2>1, Zenon DEF Stage1Progress
<1>5. Stage2Complete'
  BY Zenon DEF Stage2Complete, Stage2File
<1> QED
  BY <1>2, <1>3, <1>4, <1>5, Zenon DEF IInv

LEMMA nextclusterKeeps ==
  ASSUME IInv, nextcluster
  PROVE  IInv'
<1> DEFINE next == entryOf(logicalcluster)
<1>1. /\ pc = "nextcluster" /\ to' = to + bytespersector
      /\ UNCHANGED <<disk, cleared, drivenumber, ram, LBA, res, failed>>
      /\ IF endOfFile(next) THEN pc' = "header" /\ UNCHANGED logicalcluster
         ELSE pc' = "loadfile" /\ logicalcluster' = next
  BY Zenon DEF nextcluster
<1>2. pc \in Loading /\ pc # "loadfile"
  BY <1>1 DEF Loading
<1>3. PICK i \in 1 .. Len(Chain(Stage2File)) : AtCluster(i)
  BY <1>2, Zenon DEF IInv, Stage1Progress
<1>4. /\ to = Stage2At + bytespersector * (i - 1) /\ logicalcluster = Chain(Stage2File)[i]
      /\ Beginning(Stage2At, drivenumber, Stage2File, i) \subseteq ram
  BY <1>2, <1>3 DEF AtCluster
<1>5. Types /\ Memory /\ disk \in Disks
  BY Zenon DEF IInv, Types
<1>6. FatIsIn(ram) /\ FatIsIn(ram)' /\ Memory'
  <2>1. FatIsIn(ram)
    BY <1>2, FatThere, Zenon
  <2> QED
    BY <1>1, <1>5, <2>1, Zenon DEF FatIsIn, Memory
<1>7. IF i = Len(Chain(Stage2File)) THEN endOfFile(next)
      ELSE ~endOfFile(next) /\ next = Chain(Stage2File)[i + 1]
             /\ i + 1 \in 1 .. Len(Chain(Stage2File))
  BY <1>4, <1>5, <1>6, NextIs, TheFiles, Zenon
<1> HIDE DEF next
<1>8. /\ to \in Nat /\ to >= Stage2At /\ to + bytespersector <= StackAt
      /\ to + bytespersector <= KernelAt /\ to >= BufferAt
  BY <1>4, <1>5, ClusterBounds
<1>9. /\ ~failed' /\ LBA' = 0 /\ res' = 1 /\ cleared' = 0
      /\ \A r \in ram' : r.at + bytespersector <= KernelAt
  BY <1>1, <1>2, Zenon DEF IInv, Stage1Progress
<1>10. Chain(Stage2File)' = Chain(Stage2File)
  BY <1>1, SameFloppy
<1>11. Ranges'
  <2>1. i \in Nat /\ i <= MaxReads
    <3>1. Len(Chain(Stage2File)) \in Nat /\ Len(Chain(Stage2File)) <= MaxReads
      BY <1>5, ChainType, TheFiles
    <3>2. MaxReads \in Nat
      BY BootAssumption, Zenon
    <3> QED
      BY <3>1, <3>2
  <2>2. to' = Stage2At + bytespersector * i
    BY <1>1, <1>4 DEF Stage2At, bytespersector
  <2>3. LBA' \in Addresses
    BY <1>9, AddressRange, Zenon
  <2> QED
    BY <2>1, <2>2, <2>3, PlaceIs, RangesAre, Zenon
<1>12. CASE i = Len(Chain(Stage2File))
  <2>1. pc' = "header" /\ logicalcluster' = logicalcluster
    BY <1>1, <1>7, <1>12, Zenon
  <2>2. Types' /\ pc' \in Jumped
    BY <1>1, <2>1 DEF IInv, Types, Labels, Jumped
  <2>3. ImageAt(Stage2At, drivenumber, Stage2File)' \subseteq ram'
    <3>1. ImageAt(Stage2At, drivenumber, Stage2File)
            = Beginning(Stage2At, drivenumber, Stage2File, Len(Chain(Stage2File)))
      BY <1>5, ImageIs, TheFiles
    <3>2. ImageAt(Stage2At, drivenumber, Stage2File) \subseteq ram
      BY <1>4, <1>12, <3>1, Zenon
    <3> QED
      BY <1>1, <3>2, SameFloppy
  <2> QED
    BY <1>6, <1>9, <1>11, <2>2, <2>3, JumpedKeeps, Zenon
<1>13. CASE i # Len(Chain(Stage2File))
  <2>1. /\ pc' = "loadfile" /\ logicalcluster' = Chain(Stage2File)[i + 1]
        /\ i + 1 \in 1 .. Len(Chain(Stage2File))
    BY <1>1, <1>7, <1>13, Zenon
  <2>2. logicalcluster' \in Clusters
    BY <1>5, <2>1, ChainType, TheFiles, Zenon
  <2>3. Types' /\ pc' \in Loading
    BY <1>1, <2>1, <2>2 DEF IInv, Types, Labels, Loading
  <2>4. AtCluster(i + 1)'
    <3>1. to' = Stage2At + bytespersector * ((i + 1) - 1)
      BY <1>1, <1>4 DEF Stage2At, bytespersector
    <3>2. logicalcluster' = Chain(Stage2File)'[i + 1]
      BY <1>10, <2>1, Zenon
    <3>3. Beginning(Stage2At, drivenumber, Stage2File, i)' \subseteq ram'
      BY <1>1, <1>4, SameFloppy
    <3>4. (IF pc' = "loadfile" THEN (i + 1) - 1 ELSE i + 1) = i
      BY <2>1
    <3> QED
      BY <3>1, <3>2, <3>3, <3>4 DEF AtCluster
  <2>5. i + 1 \in 1 .. Len(Chain(Stage2File)')
    BY <1>10, <2>1, Zenon
  <2> QED
    BY <1>6, <1>9, <1>11, <2>3, <2>4, <2>5, LoadingKeeps, Zenon
<1> QED
  BY <1>12, <1>13, Zenon

LEMMA headerKeeps ==
  ASSUME IInv, header
  PROVE  IInv'
<1>1. /\ pc = "header" /\ pc' = "entry"
      /\ UNCHANGED <<disk, drivenumber, ram, logicalcluster, to, LBA, res, failed>>
  BY DEF header
<1>2. pc \in Jumped /\ pc' \in Jumped /\ pc' # "header"
  BY <1>1 DEF Jumped
<1>3. Types /\ Ranges /\ Memory /\ disk \in Disks
  BY Zenon DEF IInv, Types
<1>4. /\ ~failed' /\ LBA' = 0 /\ res' = 1 /\ cleared = 0
      /\ \A r \in ram' : r.at + bytespersector <= KernelAt
  BY <1>1, <1>2, Zenon DEF IInv, Stage1Progress
<1>5. cleared' \in Nat
  <2>1. logicalcluster \in Nat
    BY <1>3, ClusterRange DEF Types
  <2>2. (logicalcluster * 3) \div 2 \in Nat
    BY <2>1
  <2> QED
    BY <2>2 DEF header, Stage2At, FatAt
<1>6. Types'
  BY <1>1, <1>2, <1>3, <1>5 DEF Types, Labels
<1>7. Ranges'
  <2>1. to \in Places /\ LBA \in Addresses
    BY <1>3, <1>4, NothingCleared, TheFiles, Zenon DEF Ranges
  <2> QED
    BY <1>1, <2>1, RangesAre, Zenon
<1>8. FatIsIn(ram)' /\ Memory'
  <2>1. FatIsIn(ram)
    BY <1>2, FatThere, Zenon
  <2> QED
    BY <1>1, <1>3, <2>1, Zenon DEF FatIsIn, Memory
<1>9. ImageAt(Stage2At, drivenumber, Stage2File)' \subseteq ram'
  <2>1. ImageAt(Stage2At, drivenumber, Stage2File) \subseteq ram
    BY <1>1, Zenon DEF IInv, Stage2Complete, Stage2File
  <2> QED
    BY <1>1, <2>1, SameFloppy
<1> QED
  BY <1>2, <1>4, <1>6, <1>7, <1>8, <1>9, JumpedKeeps, Zenon

-----------------------------------------------------------------------------
(* Stage 2 stays where it is, whatever is written to the buffer or above. *)
LEMMA Stage2Stays ==
  ASSUME Types, UNCHANGED <<disk, drivenumber>>,
         ImageAt(Stage2At, drivenumber, Stage2File) \subseteq ram,
         \A r \in ram : r.at >= Stage2At /\ r.at + bytespersector <= StackAt => r \in ram'
  PROVE  ImageAt(Stage2At, drivenumber, Stage2File)' \subseteq ram'
<1> DEFINE n == Len(Chain(Stage2File))
<1>1. disk \in Disks /\ drivenumber \in Drives /\ Stage2At \in Nat
  BY DEF Types, Drives, Stage2At
<1>2. n \in Nat /\ n <= n /\ Stage2At + bytespersector * n <= StackAt
  BY <1>1, ChainType, TheFiles, Floppy
<1>3. ImageAt(Stage2At, drivenumber, Stage2File) = Beginning(Stage2At, drivenumber, Stage2File, n)
  BY <1>1, ImageIs, TheFiles
<1> HIDE DEF n
<1>4. \A r \in Beginning(Stage2At, drivenumber, Stage2File, n) :
        /\ r \in Copies
        /\ r.at >= Stage2At /\ r.at + bytespersector <= Stage2At + bytespersector * n
  <2>1. n <= Len(Chain(Stage2File))
    BY <1>2 DEF n
  <2> QED
    BY <1>1, <1>2, <2>1, BeginningIs, TheFiles, Zenon
<1>5. \A r \in Beginning(Stage2At, drivenumber, Stage2File, n) :
        r.at >= Stage2At /\ r.at + bytespersector <= StackAt
  BY <1>2, <1>4, CopyType DEF bytespersector, Stage2At, StackAt
<1>6. ImageAt(Stage2At, drivenumber, Stage2File) \subseteq ram'
  BY <1>3, <1>5, Zenon
<1> QED
  BY <1>6, SameFloppy

LEMMA Stage2Keeps ==
  ASSUME Types', Ranges', Memory', FatIsIn(ram)', pc' \in KernelLoading,
         ImageAt(Stage2At, drivenumber, Stage2File)' \subseteq ram', Stage2Progress'
  PROVE  IInv'
<1>1. /\ pc' \notin BeforeFat /\ pc' # "file_found" /\ pc' \notin Jumped /\ pc' # "header"
      /\ pc' \notin Loading
  BY DEF Loading, KernelLoading, BeforeFat, Jumped
<1>2. FatLoaded'
  BY Zenon DEF FatLoaded, FatIsIn
<1>3. Stage1Progress'
  <2>1. pc' \notin {"header"}
    BY <1>1
  <2> QED
    BY <1>1, <2>1, Zenon DEF Stage1Progress
<1>4. Stage2Complete'
  BY Zenon DEF Stage2Complete, Stage2File
<1> QED
  BY <1>2, <1>3, <1>4, Zenon DEF IInv

LEMMA KernelKeeps ==
  ASSUME Types', Ranges', Memory', FatIsIn(ram)', pc' \in KernelLoading,
         ImageAt(Stage2At, drivenumber, Stage2File)' \subseteq ram', ~Misdirected',
         NEW i \in 1 .. (KernelLength + 1)', AtKernelCluster(i)',
         pc' = "kernel" => res' = 0 \/ LBA' = 0
  PROVE  IInv'
<1>1. Stage2Progress'
  BY Zenon DEF Stage2Progress
<1> QED
  BY <1>1, Stage2Keeps, Zenon

LEMMA WanderingKeeps ==
  ASSUME Types', Memory', FatIsIn(ram)', pc' \in KernelLoading,
         ImageAt(Stage2At, drivenumber, Stage2File)' \subseteq ram', Misdirected',
         to' \in Nat, to' >= KernelAt, LBA' \in Astray,
         pc' \in {"copy", "FindNextCluster"} => LBA' # 0,
         pc' = "kernel" => res' = 0 \/ LBA' = 0
  PROVE  IInv'
<1>1. Stage2Progress'
  BY Zenon DEF Stage2Progress, Wandering
<1>2. to' >= Stage2At
  BY DEF KernelAt, Stage2At
<1>3. Ranges'
  BY <1>2, Zenon DEF Ranges
<1> QED
  BY <1>1, <1>3, Stage2Keeps, Zenon

LEMMA entryKeeps ==
  ASSUME IInv, entry
  PROVE  IInv'
<1>1. /\ pc = "entry" /\ to' = KernelAt /\ res' = 1 /\ pc' = "while"
      /\ UNCHANGED <<disk, cleared, drivenumber, ram, logicalcluster, failed>>
  BY Zenon DEF entry
<1>2. /\ LBA' = FirstCluster(KernelFile) + 31 /\ Chain(KernelFile)' = Chain(KernelFile)
      /\ (Misdirected' <=> Misdirected)
  BY <1>1, SameFloppy, SameFirst, Zenon DEF entry, KernelFile
<1>3. Types /\ Memory /\ disk \in Disks
  BY Zenon DEF IInv, Types
<1>4. 1 \in 1 .. KernelLength /\ KernelLength \in Nat /\ 1 <= KernelLength
  BY <1>3, ChainType, TheFiles DEF KernelLength
<1>6. Types'
  BY <1>1 DEF IInv, Types, Labels, KernelLoading
<1>7. Memory'
  BY <1>1, <1>3, Zenon DEF Memory
<1>8. FatIsIn(ram)'
  <2>1. FatIsIn(ram)
    BY <1>1, FatThere DEF Jumped
  <2> QED
    BY <1>1, <2>1, Zenon DEF FatIsIn
<1>9. ImageAt(Stage2At, drivenumber, Stage2File)' \subseteq ram'
  <2>1. ImageAt(Stage2At, drivenumber, Stage2File) \subseteq ram
    BY <1>1, Zenon DEF IInv, Stage2Complete, Stage2File
  <2> QED
    BY <1>1, <2>1, SameFloppy
<1>10. ~failed /\ \A r \in ram : r.at + bytespersector <= KernelAt
  BY <1>1 DEF IInv, Stage1Progress, Jumped
<1>11. AboveKernelAt' = {}
  <2>1. \A r \in ram' : r.at \in Nat
    BY <1>7, CopyType DEF Memory, IsMemory
  <2> QED
    BY <1>1, <1>10, <2>1 DEF AboveKernelAt, KernelAt, bytespersector
<1>12. KernelSectors(0)' = {}
  BY BeginningNone, SameFloppy, <1>1 DEF KernelSectors
<1>15. pc' \in KernelLoading /\ pc' # "kernel" /\ pc' \notin {"copy", "FindNextCluster"}
  BY <1>1 DEF KernelLoading
<1>16. CASE ~Misdirected
  <2>1. LBA' = Chain(KernelFile)[1] + 31
    BY <1>2, <1>16, Zenon DEF Misdirected, KernelFile, Chain
  <2>2. LBA' \in Addresses
    <3>1. Chain(KernelFile)[1] \in Clusters
      BY <1>3, <1>4, ChainType, TheFiles, Zenon DEF KernelLength
    <3> QED
      BY <2>1, <3>1, ClusterRange, AddressRange
  <2>3. to' \in Places /\ to' = KernelAt + bytespersector * (1 - 1)
    <3>1. 0 \in Nat /\ 0 <= MaxReads
      BY BootAssumption
    <3>2. KernelAt + bytespersector * 0 = KernelAt /\ 1 - 1 = 0
      BY DEF KernelAt, bytespersector
    <3> QED
      BY <1>1, <3>1, <3>2, PlaceIs
  <2>4. AtKernelCluster(1)'
    <3>1. 1 <= KernelLength'
      BY <1>2, <1>4, Zenon DEF KernelLength
    <3>2. LBA' = Chain(KernelFile)'[1] + 31
      BY <1>2, <2>1, Zenon
    <3>3. res' # 0 /\ pc' # "copy" /\ pc' # "FindNextCluster" /\ ~failed'
      BY <1>1, <1>10
    <3>4. (IF pc' = "FindNextCluster" THEN 1 ELSE 1 - 1) = 0
      BY <1>1
    <3> QED
      BY <1>11, <1>12, <2>3, <3>1, <3>2, <3>3, <3>4, Zenon DEF AtKernelCluster
  <2>5. 1 \in 1 .. (KernelLength + 1)'
    BY <1>2, <1>4 DEF KernelLength
  <2>6. Ranges' /\ ~Misdirected'
    BY <1>2, <1>16, <2>2, <2>3, RangesAre, Zenon
  <2> QED
    BY <1>6, <1>7, <1>8, <1>9, <1>15, <2>4, <2>5, <2>6, KernelKeeps, Zenon
<1>17. CASE Misdirected
  <2>1. LBA' \in Astray
    <3>1. FirstCluster(KernelFile) \in Nat /\ FirstCluster(KernelFile) <= 2848
      BY <1>3, FirstClusterIs, TheFiles
    <3> QED
      BY <1>2, <3>1, AstrayRange
  <2>2. to' \in Nat /\ to' >= KernelAt
    BY <1>1 DEF KernelAt
  <2>3. Misdirected'
    BY <1>2, <1>17, Zenon
  <2> QED
    BY <1>6, <1>7, <1>8, <1>9, <1>15, <2>1, <2>2, <2>3, WanderingKeeps, Zenon
<1> QED
  BY <1>16, <1>17, Zenon

(* What is known while the kernel is loaded. *)
LEMMA KernelThere ==
  ASSUME IInv, pc \in KernelLoading
  PROVE  /\ Types /\ Ranges /\ Memory /\ disk \in Disks /\ FatIsIn(ram)
         /\ ImageAt(Stage2At, drivenumber, Stage2File) \subseteq ram
         /\ KernelLength \in Nat /\ 1 <= KernelLength
         /\ IF Misdirected
            THEN to \in Nat /\ LBA \in Astray /\ Wandering
            ELSE \E i \in 1 .. KernelLength + 1 : AtKernelCluster(i)
<1>1. Types /\ Ranges /\ Memory /\ disk \in Disks
  BY Zenon DEF IInv, Types
<1>2. FatIsIn(ram)
  BY FatThere, Zenon
<1>3. ImageAt(Stage2At, drivenumber, Stage2File) \subseteq ram
  BY DEF IInv, Stage2Complete, Stage2File, KernelLoading
<1>4. KernelLength \in Nat /\ 1 <= KernelLength
  BY <1>1, ChainType, TheFiles DEF KernelLength
<1>5. IF Misdirected THEN Wandering ELSE \E i \in 1 .. KernelLength + 1 : AtKernelCluster(i)
  BY Zenon DEF IInv, Stage2Progress
<1>6. to \in Nat /\ LBA \in Astray
  <2>1. to \in Places => to \in Nat
    <3>1. MaxReads \in Nat
      BY BootAssumption, Zenon
    <3> QED
      BY <3>1 DEF Places, Stage2At, KernelAt, bytespersector
  <2>2. LBA \in Addresses => LBA \in Astray
    BY DEF Addresses, Astray, totalsectors
  <2> QED
    BY <1>1, <2>1, <2>2, Zenon DEF Ranges
<1> QED
  BY <1>1, <1>2, <1>3, <1>4, <1>5, <1>6, Zenon

LEMMA SameKernel ==
  ASSUME UNCHANGED <<disk, drivenumber>>
  PROVE  /\ KernelLength' = KernelLength
         /\ \A n : KernelSectors(n)' = KernelSectors(n)
         /\ Chain(KernelFile)' = Chain(KernelFile)
<1>1. Chain(KernelFile)' = Chain(KernelFile)
  BY SameFloppy
<1>2. KernelLength' = KernelLength
  BY <1>1, Zenon DEF KernelLength
<1>3. ASSUME NEW n
      PROVE  KernelSectors(n)' = KernelSectors(n)
  BY SameFloppy DEF KernelSectors
<1> QED
  BY <1>1, <1>2, <1>3, Zenon

(* A cluster of the kernel is a sector of the floppy, and not sector 0. *)
LEMMA KernelClusterIs ==
  ASSUME disk \in Disks, NEW i \in 1 .. KernelLength
  PROVE  /\ Chain(KernelFile)[i] \in Nat /\ Chain(KernelFile)[i] + 31 \in Nat
         /\ Chain(KernelFile)[i] + 31 \in Addresses
         /\ Chain(KernelFile)[i] + 31 # 0 /\ OnDisk(Chain(KernelFile)[i] + 31, 1)
         /\ (Chain(KernelFile)[i] + 31) - 31 = Chain(KernelFile)[i]
<1>1. Chain(KernelFile)[i] \in Clusters
  BY ChainType, TheFiles, Zenon DEF KernelLength
<1> QED
  BY <1>1, ClusterRange, AddressRange DEF OnDisk, totalsectors

(* The sectors of the kernel up to one of its clusters. *)
LEMMA KernelSectorsAre ==
  ASSUME disk \in Disks, NEW n \in Nat, n <= KernelLength
  PROVE  \A r \in KernelSectors(n) :
           r \in Copies /\ r.at >= KernelAt
             /\ r.at + bytespersector <= KernelAt + bytespersector * n
<1>1. KernelAt \in Nat /\ 0 \in Drives
  BY DEF KernelAt, Drives
<1>2. n <= Len(Chain(KernelFile))
  BY Zenon DEF KernelLength
<1> QED
  BY <1>1, <1>2, BeginningIs, TheFiles, Zenon DEF KernelSectors

LEMMA KernelSectorsNext ==
  ASSUME NEW n \in Nat
  PROVE  KernelSectors(n + 1)
           = KernelSectors(n)
               \cup {Copy(KernelAt + bytespersector * n, 0, Chain(KernelFile)[n + 1] + 31)}
<1>1. OneMore(KernelAt, 0, KernelFile, n)
  BY BeginningNext, Zenon
<1> QED
  BY <1>1, Zenon DEF OneMore, KernelSectors

LEMMA KernelSectorsGrow ==
  ASSUME NEW n \in Nat, NEW m \in Nat, n <= m
  PROVE  KernelSectors(n) \subseteq KernelSectors(m)
<1>1. \A k \in 1 .. n : k \in 1 .. m
  OBVIOUS
<1> QED
  BY <1>1, Zenon DEF KernelSectors, Beginning

(* What is written below the kernel leaves the kernel as it is. *)
LEMMA AboveStays ==
  ASSUME \A r \in ram : r.at >= KernelAt => r \in ram',
         \A r \in ram' : r \in ram \/ ~(r.at >= KernelAt)
  PROVE  AboveKernelAt' = AboveKernelAt
BY Zenon DEF AboveKernelAt

LEMMA ReadFromDiskKeeps ==
  ASSUME IInv, ~Misdirected, ReadFromDisk
  PROVE  IInv'
<1>1. /\ pc = "while" /\ res = 1 /\ LBA # 0 /\ pc' = "copy"
      /\ UNCHANGED <<disk, cleared, drivenumber, logicalcluster, to, LBA>>
  BY Zenon DEF ReadFromDisk
<1>2. pc \in KernelLoading /\ pc' \in KernelLoading /\ pc' # "kernel"
  BY <1>1 DEF KernelLoading
<1>3. /\ Types /\ Ranges /\ Memory /\ disk \in Disks /\ FatIsIn(ram)
      /\ ImageAt(Stage2At, drivenumber, Stage2File) \subseteq ram
      /\ KernelLength \in Nat /\ 1 <= KernelLength
  BY <1>2, KernelThere, Zenon
<1>4. PICK i \in 1 .. KernelLength + 1 : AtKernelCluster(i)
  BY <1>2, KernelThere, Zenon
<1>5. i <= KernelLength /\ LBA = Chain(KernelFile)[i] + 31
  BY <1>1, <1>4, Zenon DEF AtKernelCluster
<1>6. i \in 1 .. KernelLength /\ i \in Nat
  BY <1>3, <1>5
<1>7. ~failed /\ to = KernelAt + bytespersector * (i - 1) /\ AboveKernelAt = KernelSectors(i - 1)
  <2>1. pc # "FindNextCluster"
    BY <1>1
  <2>2. (IF pc = "FindNextCluster" THEN i ELSE i - 1) = i - 1
    BY <2>1, Zenon
  <2> QED
    BY <1>1, <1>4, <2>2, Zenon DEF AtKernelCluster
<1>8. LBA \in Nat /\ OnDisk(LBA, 1)
  BY <1>3, <1>5, <1>6, KernelClusterIs, Zenon
<1>9. BufferAt \in Nat /\ 1 \in Nat /\ bytespersector \in Nat /\ 0 \in Drives /\ 0 \in 0 .. 1 - 1
      /\ bytespersector * 1 = bytespersector /\ BufferAt + bytespersector * 0 = BufferAt
  BY DEF BufferAt, bytespersector, Drives
(* What both outcomes have in common. *)
<1> DEFINE Below ==
      /\ Memory'
      /\ \A r \in ram : r.at + bytespersector <= BufferAt
                          \/ BufferAt + bytespersector <= r.at => r \in ram'
      /\ \A r \in ram' : r \in ram \/ r.at + bytespersector <= BufferAt + bytespersector
<1>10. ASSUME Below, res' \in {0, 1}, failed' \in BOOLEAN,
              res' = 1 => ~failed' /\ Copy(BufferAt, 0, LBA) \in ram',
              res' = 0 => failed'
       PROVE  IInv'
  <2>1. Types'
    BY <1>1, <1>3, <1>10 DEF Types, Labels, KernelLoading
  <2>2. /\ \A r \in ram : r.at \in Nat
        /\ \A r \in ram' : r.at \in Nat
    BY <1>3, <1>10, CopyType DEF Memory, IsMemory
  <2>3. AboveKernelAt' = AboveKernelAt
    <3>1. \A r \in ram : r.at >= KernelAt => r \in ram'
      BY <1>10, <2>2 DEF KernelAt, BufferAt, bytespersector
    <3>2. \A r \in ram' : r \in ram \/ ~(r.at >= KernelAt)
      BY <1>10, <2>2 DEF KernelAt, BufferAt, bytespersector
    <3> QED
      BY <3>1, <3>2, AboveStays, Zenon
  <2>4. FatIsIn(ram)'
    <3>1. BufferAt >= BufferAt
      BY <1>9
    <3> QED
      BY <1>1, <1>3, <1>9, <1>10, <3>1, FatStays, Zenon
  <2>5. ImageAt(Stage2At, drivenumber, Stage2File)' \subseteq ram'
    <3>1. \A r \in ram : r.at >= Stage2At /\ r.at + bytespersector <= StackAt => r \in ram'
      BY <1>10, <2>2 DEF Stage2At, BufferAt, bytespersector
    <3> QED
      BY <1>1, <1>3, <3>1, Stage2Stays, Zenon
  <2>6. AtKernelCluster(i)'
    <3>1. KernelLength' = KernelLength /\ Chain(KernelFile)' = Chain(KernelFile)
          /\ KernelSectors(i - 1)' = KernelSectors(i - 1)
      BY <1>1, SameKernel
    <3>2. AboveKernelAt' = KernelSectors(i - 1)'
      BY <1>7, <2>3, <3>1, Zenon
    <3>3. pc' # "FindNextCluster" /\ pc' # "while" /\ pc' # "kernel"
      BY <1>1
    <3>4. (IF pc' = "FindNextCluster" THEN i ELSE i - 1) = i - 1 /\ pc' \notin {"while", "kernel"}
      BY <3>3
    <3>5. to' = KernelAt + bytespersector * (i - 1) /\ i <= KernelLength'
          /\ LBA' = Chain(KernelFile)'[i] + 31
      BY <1>1, <1>5, <1>7, <3>1, Zenon
    <3>6. res' = 1 => Copy(BufferAt, 0, LBA)' \in ram'
      BY <1>1, <1>10, Zenon DEF Copy
    <3> QED
      BY <1>10, <3>2, <3>3, <3>4, <3>5, <3>6, Zenon DEF AtKernelCluster
  <2>7. i \in 1 .. (KernelLength + 1)'
    BY <1>1, SameKernel
  <2>8. Ranges' /\ ~Misdirected'
    BY <1>1, <1>3, RangesStay, SameFirst, Zenon
  <2> QED
    BY <1>2, <1>10, <2>1, <2>4, <2>5, <2>6, <2>7, <2>8, KernelKeeps, Zenon
<1>11. CASE /\ OnDisk(LBA, 1) /\ ram' = Placed(BufferAt, SectorsFrom(0, LBA, 1))
            /\ UNCHANGED <<res, failed>>
  <2>1. Memory'
    BY <1>3, <1>8, <1>9, <1>11, PlacedMemory, Zenon DEF Memory
  <2>2. /\ \A r \in ram : r.at + bytespersector <= BufferAt
                            \/ BufferAt + bytespersector <= r.at => r \in ram'
        /\ Copy(BufferAt + bytespersector * 0, 0, LBA + 0) \in ram'
        /\ \A r \in ram' : r \in ram \/ r \in Written(BufferAt, 0, LBA, 1)
    <3>1. /\ \A r \in ram : r.at + bytespersector <= BufferAt
                               \/ BufferAt + bytespersector * 1 <= r.at => r \in ram'
          /\ \A k \in 0 .. 1 - 1 : Copy(BufferAt + bytespersector * k, 0, LBA + k) \in ram'
          /\ \A r \in ram' : r \in ram \/ r \in Written(BufferAt, 0, LBA, 1)
      <4>1. AfterRead(Placed(BufferAt, SectorsFrom(0, LBA, 1)), BufferAt, 0, LBA, 1)
        BY <1>8, <1>9, ReadIs
      <4> QED
        BY <1>11, <4>1, Zenon DEF AfterRead
    <3> QED
      BY <1>9, <3>1, Zenon
  <2>3. \A r \in Written(BufferAt, 0, LBA, 1) :
          r.at + bytespersector <= BufferAt + bytespersector
    BY <1>8, <1>9, WrittenIs
  <2>4. Copy(BufferAt, 0, LBA) \in ram'
    BY <1>8, <1>9, <2>2
  <2>5. res' = 1 /\ ~failed' /\ res' # 0 /\ res' \in {0, 1} /\ failed' \in BOOLEAN
    BY <1>1, <1>3, <1>7, <1>11 DEF Types
  <2>6. Below
    BY <2>1, <2>2, <2>3, Zenon
  <2> QED
    BY <1>10, <2>4, <2>5, <2>6, Zenon
<1>12. CASE /\ ram' \in {ram, Keep(BufferAt, bytespersector)}
            /\ res' = 0 /\ failed' = (failed \/ OnDisk(LBA, 1))
  <2>1. failed' /\ failed' \in BOOLEAN /\ res' # 1 /\ res' \in {0, 1}
    <3>1. failed' = TRUE
      BY <1>7, <1>8, <1>12, Zenon
    <3> QED
      BY <1>12, <3>1
  <2>0. ram' = ram \/ ram' = Keep(BufferAt, bytespersector)
    BY <1>12, Zenon
  <2>2. ram' \subseteq ram
    <3>1. CASE ram' = ram
      BY <3>1, Zenon
    <3>2. CASE ram' = Keep(BufferAt, bytespersector)
      BY <3>2, Kept, Zenon
    <3> QED
      BY <2>0, <3>1, <3>2, Zenon
  <2>3. Memory'
    BY <1>3, <2>2, Zenon DEF Memory, IsMemory
  <2>4. \A r \in ram : r.at + bytespersector <= BufferAt
                         \/ BufferAt + bytespersector <= r.at => r \in ram'
    <3>1. CASE ram' = ram
      BY <3>1, Zenon
    <3>2. CASE ram' = Keep(BufferAt, bytespersector)
      BY <3>2, Kept, Zenon
    <3> QED
      BY <2>0, <3>1, <3>2, Zenon
  <2>5. Below
    BY <2>2, <2>3, <2>4, Zenon
  <2> QED
    BY <1>10, <1>12, <2>1, <2>5, Zenon
<1> QED
  BY <1>11, <1>12, Zenon DEF ReadFromDisk


(* What is copied out of the buffer: one sector, or nothing. *)
Copied == {[at |-> to, sector |-> r.sector] : r \in {b \in ram : b.at = BufferAt}}

LEMMA CopiedIs ==
  ASSUME Memory, to \in Nat
  PROVE  /\ IsMemory(Copied) /\ \A r \in Copied : r.at = to
         /\ \A lba : Copy(BufferAt, 0, lba) \in ram => Copied = {Copy(to, 0, lba)}
<1> DEFINE buffer == {b \in ram : b.at = BufferAt}
<1>1. \A b \in buffer : b \in ram /\ b \in Copies /\ b.at = BufferAt
  BY DEF Memory, IsMemory
<1>2. ASSUME NEW b \in buffer, NEW c \in buffer
      PROVE  b = c
  <2>1. ~Apart(b.at, c.at)
    BY <1>1 DEF Apart, BufferAt, bytespersector
  <2> QED
    BY <1>1, <2>1, Zenon DEF Memory, IsMemory
<1>3. ASSUME NEW r \in Copied
      PROVE  \E b \in buffer : r = [at |-> to, sector |-> b.sector]
  BY Zenon DEF Copied
<1>4. ASSUME NEW r \in Copied
      PROVE  r.at = to /\ r \in Copies
  <2>1. PICK b \in buffer : r = [at |-> to, sector |-> b.sector]
    BY <1>3, Zenon
  <2>2. b.sector \in Drives \X Sectors
    <3>1. b \in Copies
      BY <1>1, Zenon
    <3> QED
      BY <3>1 DEF Copies
  <2> HIDE DEF buffer
  <2> QED
    BY <2>1, <2>2 DEF Copies
<1>5. ASSUME NEW r \in Copied, NEW s \in Copied
      PROVE  r = s
  <2>1. PICK b \in buffer : r = [at |-> to, sector |-> b.sector]
    BY <1>3, Zenon
  <2>2. PICK c \in buffer : s = [at |-> to, sector |-> c.sector]
    BY <1>3, Zenon
  <2> HIDE DEF buffer
  <2> QED
    BY <1>2, <2>1, <2>2, Zenon
<1>6. ASSUME NEW lba, Copy(BufferAt, 0, lba) \in ram
      PROVE  Copied = {Copy(to, 0, lba)}
  <2>1. Copy(BufferAt, 0, lba).at = BufferAt /\ Copy(BufferAt, 0, lba).sector = <<0, lba>>
    BY DEF Copy
  <2>2. Copy(BufferAt, 0, lba) \in buffer
    BY <1>6, <2>1, Zenon
  <2>3. [at |-> to, sector |-> Copy(BufferAt, 0, lba).sector] \in Copied
    BY <2>2, Zenon DEF Copied
  <2>4. Copy(to, 0, lba) \in Copied
    BY <2>1, <2>3, Zenon DEF Copy
  <2> QED
    BY <1>5, <2>4, Zenon
<1> QED
  BY <1>4, <1>5, <1>6, Zenon DEF IsMemory

LEMMA copyKeeps ==
  ASSUME IInv, ~Misdirected, copy
  PROVE  IInv'
<1>1. /\ pc = "copy" /\ pc' = "FindNextCluster"
      /\ UNCHANGED <<disk, cleared, drivenumber, logicalcluster, to, LBA, res, failed>>
  BY Zenon DEF copy
<1>2. ram' = Keep(to, bytespersector) \cup Copied
  BY Zenon DEF copy, Copied
<1>3. pc \in KernelLoading /\ pc' \in KernelLoading /\ pc' # "kernel"
  BY <1>1 DEF KernelLoading
<1>4. /\ Types /\ Ranges /\ Memory /\ disk \in Disks /\ FatIsIn(ram)
      /\ ImageAt(Stage2At, drivenumber, Stage2File) \subseteq ram
      /\ KernelLength \in Nat /\ 1 <= KernelLength
  BY <1>3, KernelThere, Zenon
<1>5. PICK i \in 1 .. KernelLength + 1 : AtKernelCluster(i)
  BY <1>3, KernelThere, Zenon
<1>6. /\ i <= KernelLength /\ LBA = Chain(KernelFile)[i] + 31
      /\ to = KernelAt + bytespersector * (i - 1)
      /\ AboveKernelAt = KernelSectors(i - 1)
      /\ res = 1 => ~failed /\ Copy(BufferAt, 0, LBA) \in ram
      /\ res = 0 => failed
  <2>1. pc \notin {"while", "kernel"} /\ pc # "FindNextCluster"
    BY <1>1
  <2>2. (IF pc = "FindNextCluster" THEN i ELSE i - 1) = i - 1
    BY <2>1, Zenon
  <2>3. res = 0 \/ res = 1
    BY <1>4 DEF Types
  <2> QED
    BY <1>1, <1>5, <2>1, <2>2, <2>3, Zenon DEF AtKernelCluster
<1>7. i \in 1 .. KernelLength /\ i \in Nat /\ i - 1 \in Nat /\ i - 1 <= KernelLength
      /\ (i - 1) + 1 = i /\ i <= KernelLength
  BY <1>4, <1>6
<1>8. to \in Nat /\ to >= KernelAt /\ bytespersector \in Nat
  BY <1>6, <1>7 DEF KernelAt, bytespersector
<1>9. /\ IsMemory(Copied) /\ \A r \in Copied : r.at = to
      /\ \A lba : Copy(BufferAt, 0, lba) \in ram => Copied = {Copy(to, 0, lba)}
  BY <1>4, <1>8, CopiedIs, Zenon
<1>10. Memory'
  <2>1. \A r \in Copied : to <= r.at /\ r.at + bytespersector <= to + bytespersector
    BY <1>8, <1>9
  <2> QED
    BY <1>2, <1>4, <1>8, <1>9, <2>1, Added, Zenon DEF Memory
<1>11. \A r \in ram : r.at + bytespersector <= to => r \in ram'
  BY <1>2, Kept, Zenon
<1>12. /\ \A r \in ram : r.at \in Nat
       /\ \A r \in ram' : r.at \in Nat
  BY <1>4, <1>10, CopyType DEF Memory, IsMemory
<1>13. Types'
  BY <1>1, <1>3, <1>4 DEF Types, Labels
<1>14. FatIsIn(ram)'
  <2>1. to >= BufferAt
    BY <1>8 DEF KernelAt, BufferAt
  <2> QED
    BY <1>1, <1>4, <1>8, <1>11, <2>1, FatStays, Zenon
<1>15. ImageAt(Stage2At, drivenumber, Stage2File)' \subseteq ram'
  <2>1. \A r \in ram : r.at >= Stage2At /\ r.at + bytespersector <= StackAt => r \in ram'
    BY <1>8, <1>11, <1>12 DEF StackAt, KernelAt, bytespersector
  <2> QED
    BY <1>1, <1>4, <2>1, Stage2Stays, Zenon
(* What was above is below the copy. *)
<1>16. \A r \in KernelSectors(i - 1) : r.at >= KernelAt /\ r.at + bytespersector <= to
  <2> DEFINE n == i - 1
  <2>1. n \in Nat /\ n <= KernelLength
    BY <1>7
  <2> HIDE DEF n
  <2>2. \A r \in KernelSectors(n) :
          r \in Copies /\ r.at >= KernelAt
            /\ r.at + bytespersector <= KernelAt + bytespersector * n
    BY <1>4, <2>1, KernelSectorsAre, Zenon
  <2> QED
    BY <1>6, <2>2, Zenon DEF n
<1>17. AboveKernelAt' = KernelSectors(i - 1) \cup Copied
  <2>1. ASSUME NEW r \in AboveKernelAt'
        PROVE  r \in KernelSectors(i - 1) \cup Copied
    <3>1. r \in ram' /\ r.at >= KernelAt
      BY Zenon DEF AboveKernelAt
    <3>2. r \in Copied \/ r \in ram
      BY <1>2, <3>1, Kept, Zenon
    <3> QED
      BY <1>6, <3>1, <3>2, Zenon DEF AboveKernelAt
  <2>2. ASSUME NEW r \in KernelSectors(i - 1)
        PROVE  r \in AboveKernelAt'
    BY <1>6, <1>11, <1>16, Zenon DEF AboveKernelAt
  <2>3. ASSUME NEW r \in Copied
        PROVE  r \in AboveKernelAt'
    BY <1>2, <1>8, <1>9, Zenon DEF AboveKernelAt
  <2> QED
    BY <2>1, <2>2, <2>3, Zenon
<1>18. KernelLength' = KernelLength /\ Chain(KernelFile)' = Chain(KernelFile)
       /\ \A n : KernelSectors(n)' = KernelSectors(n)
  BY <1>1, SameKernel, Zenon
<1>19. res' = 1 => ~failed' /\ AboveKernelAt' = KernelSectors(i)'
  <2> SUFFICES ASSUME res = 1
               PROVE  ~failed /\ AboveKernelAt' = KernelSectors(i)
    BY <1>1, <1>18, Zenon
  <2>1. Copied = {Copy(to, 0, Chain(KernelFile)[i] + 31)}
    BY <1>6, <1>9, Zenon
  <2>2. KernelSectors(i) = KernelSectors(i - 1) \cup {Copy(to, 0, Chain(KernelFile)[i] + 31)}
    <3> DEFINE n == i - 1
    <3>1. n \in Nat /\ n + 1 = i
      BY <1>7
    <3>2. to = KernelAt + bytespersector * n
      BY <1>6
    <3> HIDE DEF n
    <3>3. KernelSectors(n + 1)
            = KernelSectors(n) \cup {Copy(KernelAt + bytespersector * n, 0, Chain(KernelFile)[n + 1] + 31)}
      BY <3>1, KernelSectorsNext, Zenon
    <3> QED
      BY <3>1, <3>2, <3>3, Zenon DEF n
  <2> QED
    BY <1>6, <1>17, <2>1, <2>2, Zenon
<1>20. KernelBefore(to)'
  <2>1. ASSUME NEW r \in AboveKernelAt', r.at < to
        PROVE  r \in KernelSectors(KernelLength)'
    <3>1. r \notin Copied
      BY <1>8, <1>9, <2>1
    <3>2. r \in KernelSectors(i - 1)
      BY <1>17, <3>1, Zenon
    <3>3. KernelSectors(i - 1) \subseteq KernelSectors(KernelLength)
      BY <1>4, <1>7, KernelSectorsGrow
    <3> QED
      BY <1>18, <3>2, <3>3, Zenon
  <2> QED
    BY <1>1, <2>1, Zenon DEF KernelBefore
<1>21. AtKernelCluster(i)'
  <2>1. pc' # "copy" /\ pc' # "while" /\ pc' # "kernel" /\ pc' \notin {"while", "kernel"}
    BY <1>1
  <2>2. (IF pc' = "FindNextCluster" THEN i ELSE i - 1) = i
    BY <1>1, Zenon
  <2>3. to' = KernelAt + bytespersector * (i - 1) /\ i <= KernelLength'
        /\ LBA' = Chain(KernelFile)'[i] + 31 /\ (res' = 0 => failed')
    BY <1>1, <1>6, <1>18, Zenon
  <2> QED
    BY <1>19, <1>20, <2>1, <2>2, <2>3, Zenon DEF AtKernelCluster
<1>22. i \in 1 .. (KernelLength + 1)'
  BY <1>18
<1>23. Ranges' /\ ~Misdirected'
  BY <1>1, <1>4, RangesStay, SameFirst, Zenon
<1> QED
  BY <1>3, <1>10, <1>13, <1>14, <1>15, <1>21, <1>22, <1>23, KernelKeeps, Zenon


LEMMA FindNextClusterKeeps ==
  ASSUME IInv, ~Misdirected, FindNextCluster
  PROVE  IInv'
<1>1. /\ pc = "FindNextCluster" /\ pc' = "while" /\ to' = to + bytespersector
      /\ UNCHANGED <<disk, cleared, drivenumber, ram, logicalcluster, res, failed>>
  BY Zenon DEF FindNextCluster
<1>2. LBA' = IF endOfFile(entryOf(LBA - 31)) THEN 0 ELSE entryOf(LBA - 31) + 31
  BY Zenon DEF FindNextCluster
<1>3. pc \in KernelLoading /\ pc' \in KernelLoading /\ pc' # "kernel"
  BY <1>1 DEF KernelLoading
<1>4. /\ Types /\ Ranges /\ Memory /\ disk \in Disks /\ FatIsIn(ram)
      /\ ImageAt(Stage2At, drivenumber, Stage2File) \subseteq ram
      /\ KernelLength \in Nat /\ 1 <= KernelLength
  BY <1>3, KernelThere, Zenon
<1>5. PICK i \in 1 .. KernelLength + 1 : AtKernelCluster(i)
  BY <1>3, KernelThere, Zenon
<1>6. /\ i <= KernelLength /\ LBA = Chain(KernelFile)[i] + 31
      /\ to = KernelAt + bytespersector * (i - 1)
      /\ res = 1 => ~failed /\ AboveKernelAt = KernelSectors(i)
      /\ res = 0 => failed /\ KernelBefore(to)
  <2>1. pc \notin {"while", "kernel"}
    BY <1>1
  <2>2. (IF pc = "FindNextCluster" THEN i ELSE i - 1) = i
    BY <1>1, Zenon
  <2> QED
    BY <1>1, <1>5, <2>1, <2>2, Zenon DEF AtKernelCluster
<1>7. i \in 1 .. KernelLength /\ i \in Nat /\ (i + 1) - 1 = i /\ i + 1 \in 1 .. KernelLength + 1
  BY <1>4, <1>6
<1>8. LBA - 31 = Chain(KernelFile)[i]
  BY <1>4, <1>6, <1>7, KernelClusterIs, Zenon
<1>9. IF i = KernelLength THEN endOfFile(entryOf(LBA - 31))
      ELSE /\ ~endOfFile(entryOf(LBA - 31))
           /\ entryOf(LBA - 31) = Chain(KernelFile)[i + 1] /\ i + 1 \in 1 .. KernelLength
  <2>1. i \in 1 .. Len(Chain(KernelFile))
    BY <1>7, Zenon DEF KernelLength
  <2> QED
    BY <1>4, <1>8, <2>1, NextIs, TheFiles, Zenon DEF KernelLength
<1>10. KernelLength' = KernelLength /\ Chain(KernelFile)' = Chain(KernelFile)
       /\ \A n : KernelSectors(n)' = KernelSectors(n)
  BY <1>1, SameKernel, Zenon
(* At the next cluster, or past the last. *)
<1>11. /\ LBA' \in Addresses
       /\ IF i + 1 <= KernelLength THEN LBA' = Chain(KernelFile)[i + 1] + 31 ELSE LBA' = 0
  <2>1. CASE i = KernelLength
    <3>1. LBA' = 0 /\ ~(i + 1 <= KernelLength)
      BY <1>2, <1>4, <1>9, <2>1
    <3> QED
      BY <3>1, AddressRange
  <2>2. CASE i # KernelLength
    <3>1. LBA' = Chain(KernelFile)[i + 1] + 31 /\ i + 1 \in 1 .. KernelLength
      BY <1>2, <1>9, <2>2, Zenon
    <3>2. LBA' \in Addresses
      BY <1>4, <3>1, KernelClusterIs, Zenon
    <3>3. i + 1 <= KernelLength
      BY <3>1
    <3> QED
      BY <3>1, <3>2, <3>3, Zenon
  <2> QED
    BY <2>1, <2>2, Zenon
<1>12. to' \in Places /\ to' - bytespersector = to
       /\ to' = KernelAt + bytespersector * ((i + 1) - 1)
  <2>1. to' - bytespersector = to /\ to' = KernelAt + bytespersector * i
    BY <1>1, <1>6, <1>7 DEF KernelAt, bytespersector
  <2>2. i <= MaxReads
    <3>1. KernelLength <= MaxReads /\ MaxReads \in Nat
      BY <1>4, ChainType, TheFiles, BootAssumption, Zenon DEF KernelLength
    <3> QED
      BY <1>4, <1>6, <1>7, <3>1
  <2> QED
    BY <1>7, <2>1, <2>2, PlaceIs, Zenon
<1>13. Types'
  BY <1>1, <1>3, <1>4 DEF Types, Labels
<1>14. Memory' /\ FatIsIn(ram)'
  BY <1>1, <1>4, Zenon DEF Memory, FatIsIn
<1>15. ImageAt(Stage2At, drivenumber, Stage2File)' \subseteq ram'
  BY <1>1, <1>4, SameFloppy
<1>16. AtKernelCluster(i + 1)'
  <2>1. pc' # "copy" /\ pc' # "FindNextCluster" /\ pc' \in {"while", "kernel"}
    BY <1>1
  <2>2. (IF pc' = "FindNextCluster" THEN i + 1 ELSE (i + 1) - 1) = i
    BY <1>7, <2>1, Zenon
  <2>3. res' = 1 => ~failed' /\ AboveKernelAt' = KernelSectors(i)'
    BY <1>1, <1>6, <1>10, Zenon DEF AboveKernelAt
  <2>4. res' = 0 => failed' /\ KernelBefore(to - bytespersector)'
    <3> SUFFICES ASSUME res = 0
                 PROVE  failed /\ KernelBefore(to - bytespersector)'
      BY <1>1, Zenon
    <3>1. failed /\ KernelBefore(to)
      BY <1>6, Zenon
    <3>2. \A r \in AboveKernelAt' :
            r.at < to' - bytespersector => r \in KernelSectors(KernelLength)'
      BY <1>1, <1>10, <1>12, <3>1, Zenon DEF KernelBefore, AboveKernelAt
    <3> QED
      BY <3>1, <3>2, Zenon DEF KernelBefore
  <2>5. IF i + 1 <= KernelLength' THEN LBA' = Chain(KernelFile)'[i + 1] + 31
        ELSE LBA' = 0 /\ pc' \in {"while", "kernel"}
    BY <1>10, <1>11, <2>1, Zenon
  <2> QED
    BY <1>12, <2>1, <2>2, <2>3, <2>4, <2>5, Zenon DEF AtKernelCluster
<1>17. i + 1 \in 1 .. (KernelLength + 1)'
  BY <1>7, <1>10, Zenon
<1>18. Ranges' /\ ~Misdirected'
  BY <1>1, <1>11, <1>12, RangesAre, SameFirst, Zenon
<1> QED
  BY <1>3, <1>13, <1>14, <1>15, <1>16, <1>17, <1>18, KernelKeeps, Zenon

LEMMA kernelStartKeeps ==
  ASSUME IInv, ~Misdirected, kernelStart
  PROVE  IInv'
<1>1. /\ pc = "while" /\ pc' = "kernel" /\ (res = 0 \/ LBA = 0)
      /\ UNCHANGED <<disk, cleared, drivenumber, ram, logicalcluster, to, LBA, res, failed>>
  BY Zenon DEF kernelStart
<1>2. pc \in KernelLoading /\ pc' \in KernelLoading
  BY <1>1 DEF KernelLoading
<1>3. /\ Types /\ Ranges /\ Memory /\ disk \in Disks /\ FatIsIn(ram)
      /\ ImageAt(Stage2At, drivenumber, Stage2File) \subseteq ram
      /\ KernelLength \in Nat /\ 1 <= KernelLength
  BY <1>2, KernelThere, Zenon
<1>4. PICK i \in 1 .. KernelLength + 1 : AtKernelCluster(i)
  BY <1>2, KernelThere, Zenon
<1>5. KernelLength' = KernelLength /\ Chain(KernelFile)' = Chain(KernelFile)
      /\ \A n : KernelSectors(n)' = KernelSectors(n)
  BY <1>1, SameKernel, Zenon
<1>6. Types'
  BY <1>1, <1>2, <1>3 DEF Types, Labels
<1>7. Memory' /\ FatIsIn(ram)'
  BY <1>1, <1>3, Zenon DEF Memory, FatIsIn
<1>8. ImageAt(Stage2At, drivenumber, Stage2File)' \subseteq ram'
  BY <1>1, <1>3, SameFloppy
<1>9. AtKernelCluster(i)'
  <2>1. /\ pc \in {"while", "kernel"} /\ pc # "copy" /\ pc # "FindNextCluster"
        /\ pc' # "copy" /\ pc' # "FindNextCluster" /\ pc' \in {"while", "kernel"}
    BY <1>1
  <2>2. /\ (IF pc = "FindNextCluster" THEN i ELSE i - 1) = i - 1
        /\ (IF pc' = "FindNextCluster" THEN i ELSE i - 1) = i - 1
    BY <2>1, Zenon
  <2>3. AboveKernelAt' = AboveKernelAt
    BY <1>1, Zenon DEF AboveKernelAt
  <2>4. /\ to = KernelAt + bytespersector * (i - 1)
        /\ IF i <= KernelLength THEN LBA = Chain(KernelFile)[i] + 31 ELSE LBA = 0
        /\ res = 1 => ~failed /\ AboveKernelAt = KernelSectors(i - 1)
        /\ res = 0 => failed /\ KernelBefore(to - bytespersector)
    BY <1>4, <2>1, <2>2, Zenon DEF AtKernelCluster
  <2>5. res' = 0 => KernelBefore(to - bytespersector)'
    BY <1>1, <1>5, <2>4, Zenon DEF KernelBefore, AboveKernelAt
  <2>6. res' = 1 => ~failed' /\ AboveKernelAt' = KernelSectors(i - 1)'
    BY <1>1, <1>5, <2>3, <2>4, Zenon
  <2>7. res' = 0 => failed'
    BY <1>1, <2>4, Zenon
  <2>8. IF i <= KernelLength' THEN LBA' = Chain(KernelFile)'[i] + 31
        ELSE LBA' = 0 /\ pc' \in {"while", "kernel"}
    BY <1>1, <1>5, <2>1, <2>4, Zenon
  <2>9. to' = KernelAt + bytespersector * (i - 1) /\ to' = to
    BY <1>1, <2>4, Zenon
  <2> QED
    BY <2>1, <2>2, <2>5, <2>6, <2>7, <2>8, <2>9, Zenon DEF AtKernelCluster
<1>10. i \in 1 .. (KernelLength + 1)'
  BY <1>5, Zenon
<1>11. res' = 0 \/ LBA' = 0
  BY <1>1, Zenon
<1>12. Ranges' /\ ~Misdirected'
  BY <1>1, <1>3, RangesStay, SameFirst, Zenon
<1> QED
  BY <1>2, <1>6, <1>7, <1>8, <1>9, <1>10, <1>11, <1>12, KernelKeeps, Zenon


-----------------------------------------------------------------------------
(* From a wrong cluster: the FAT and stage 2 stay where they are all the same,
   and no entry of the FAT names more than a sector of twelve bits. *)
LEMMA FatByteRange ==
  ASSUME disk \in Disks, NEW x \in Nat
  PROVE  FatByte(x) \in Nat /\ FatByte(x) < 256
<1> DEFINE m == x \div 3
<1>1. m \in Nat /\ (x = 3 * m \/ x = 3 * m + 1 \/ x = 3 * m + 2)
  OBVIOUS
<1> HIDE DEF m
<1> DEFINE e == FatEntry(2 * m)
           o == FatEntry(2 * m + 1)
<1>2. e \in Nat /\ e < 4096 /\ o \in Nat /\ o < 4096
  BY <1>1, EntryRange
<1>3. FatByte(x) \in {e % 256, (e \div 256) + 16 * (o % 16), o \div 16}
  BY <1>1, FatByteOf
<1> HIDE DEF e, o
<1>4. /\ e % 256 \in Nat /\ e % 256 < 256
      /\ o \div 16 \in Nat /\ o \div 16 < 256
      /\ e \div 256 \in Nat /\ e \div 256 < 16 /\ o % 16 \in Nat /\ o % 16 < 16
  BY <1>2
<1> QED
  BY <1>3, <1>4

LEMMA ByteRange ==
  ASSUME disk \in Disks, Memory, NEW address \in Nat
  PROVE  Byte(address) \in Nat /\ Byte(address) < 256
<1> DEFINE holds(r) ==
             /\ r.at <= address /\ address < r.at + bytespersector
             /\ r.sector[2] \in reservedsectors
                                  .. reservedsectors + numberofFATs * sectorsperFAT - 1
           offset(r) == ((r.sector[2] - reservedsectors) % sectorsperFAT) * bytespersector
                          + address - r.at
<1>1. Byte(address)
        = IF \E r \in ram : holds(r) THEN FatByte(offset(CHOOSE s \in ram : holds(s))) ELSE 0
  BY Zenon DEF Byte
<1>2. ASSUME NEW r \in ram, holds(r)
      PROVE  offset(r) \in Nat
  <2>1. r.at \in Nat /\ r.sector[2] \in Nat
    BY CopyType DEF Memory, IsMemory
  <2>2. (r.sector[2] - reservedsectors) % sectorsperFAT \in Nat
    BY <2>1 DEF reservedsectors, sectorsperFAT
  <2> QED
    BY <1>2, <2>1, <2>2 DEF bytespersector
<1> HIDE DEF holds, offset
<1>3. CASE \E r \in ram : holds(r)
  <2>1. (CHOOSE s \in ram : holds(s)) \in ram /\ holds(CHOOSE s \in ram : holds(s))
    BY <1>3, Zenon
  <2>2. offset(CHOOSE s \in ram : holds(s)) \in Nat
    BY <1>2, <2>1, Zenon
  <2> QED
    BY <1>1, <1>3, <2>2, FatByteRange, Zenon
<1>4. CASE ~\E r \in ram : holds(r)
  BY <1>1, <1>4
<1> QED
  BY <1>3, <1>4

LEMMA EntryOfRange ==
  ASSUME disk \in Disks, Memory, NEW c \in Nat
  PROVE  entryOf(c) \in Nat /\ (~endOfFile(entryOf(c)) => entryOf(c) <= 4087)
<1> DEFINE at == FatAt + ((c * 3) \div 2)
<1>1. at \in Nat /\ at + 1 \in Nat
  BY DEF FatAt
<1>2. entryOf(c) \in {(Byte(at) + 256 * Byte(at + 1)) % 4096, (Byte(at) + 256 * Byte(at + 1)) \div 16}
  BY DEF entryOf
<1> HIDE DEF at
<1>3. /\ Byte(at) \in Nat /\ Byte(at) < 256
      /\ Byte(at + 1) \in Nat /\ Byte(at + 1) < 256
  BY <1>1, ByteRange
<1>4. entryOf(c) \in Nat
  BY <1>2, <1>3
<1> QED
  BY <1>4 DEF endOfFile

(* What a read from a wrong cluster, or a copy of it, keeps. *)
LEMMA WrittenFromBuffer ==
  ASSUME IInv, pc \in KernelLoading, Memory', UNCHANGED <<disk, drivenumber>>,
         NEW from \in Nat, from >= KernelAt \/ from = BufferAt,
         \A r \in ram : r.at + bytespersector <= from
                            \/ from + bytespersector <= r.at => r \in ram'
  PROVE  FatIsIn(ram)' /\ ImageAt(Stage2At, drivenumber, Stage2File)' \subseteq ram'
<1>1. /\ Types /\ Memory /\ FatIsIn(ram)
      /\ ImageAt(Stage2At, drivenumber, Stage2File) \subseteq ram
  BY KernelThere, Zenon
<1>2. \A r \in ram : r.at \in Nat
  BY <1>1, CopyType DEF Memory, IsMemory
<1>3. from >= BufferAt
  BY DEF KernelAt, BufferAt
<1>4. FatIsIn(ram)'
  BY <1>1, <1>3, FatStays, Zenon
<1>5. \A r \in ram : r.at >= Stage2At /\ r.at + bytespersector <= StackAt => r \in ram'
  BY <1>2 DEF Stage2At, StackAt, KernelAt, BufferAt, bytespersector
<1> QED
  BY <1>1, <1>4, <1>5, Stage2Stays, Zenon

LEMMA ReadFromDiskWanders ==
  ASSUME IInv, Misdirected, ReadFromDisk
  PROVE  IInv'
<1>1. /\ pc = "while" /\ res = 1 /\ LBA # 0 /\ pc' = "copy"
      /\ UNCHANGED <<disk, cleared, drivenumber, logicalcluster, to, LBA>>
  BY Zenon DEF ReadFromDisk
<1>2. pc \in KernelLoading /\ pc' \in KernelLoading /\ pc' # "kernel"
  BY <1>1 DEF KernelLoading
<1>3. Types /\ Memory /\ disk \in Disks /\ to \in Nat /\ to >= KernelAt /\ LBA \in Astray
  BY <1>2, KernelThere, Zenon DEF Wandering
<1>4. BufferAt \in Nat /\ 1 \in Nat /\ bytespersector * 1 = bytespersector
      /\ LBA \in Nat /\ 0 \in Drives /\ BufferAt + bytespersector * 0 = BufferAt
  BY <1>3 DEF BufferAt, bytespersector, Drives, Astray
<1>5. /\ Memory' /\ res' \in {0, 1} /\ failed' \in BOOLEAN
      /\ \A r \in ram : r.at + bytespersector <= BufferAt
                            \/ BufferAt + bytespersector <= r.at => r \in ram'
  <2>1. CASE /\ OnDisk(LBA, 1) /\ ram' = Placed(BufferAt, SectorsFrom(0, LBA, 1))
             /\ UNCHANGED <<res, failed>>
    <3>1. Memory'
      BY <1>3, <1>4, <2>1, PlacedMemory, Zenon DEF Memory
    <3>2. AfterRead(Placed(BufferAt, SectorsFrom(0, LBA, 1)), BufferAt, 0, LBA, 1)
      BY <1>4, ReadIs
    <3>3. \A r \in ram : r.at + bytespersector <= BufferAt
                             \/ BufferAt + bytespersector <= r.at => r \in ram'
      BY <1>4, <2>1, <3>2, Zenon DEF AfterRead
    <3> QED
      BY <1>3, <2>1, <3>1, <3>3, Zenon DEF Types
  <2>2. CASE /\ ram' \in {ram, Keep(BufferAt, bytespersector)}
             /\ res' = 0 /\ failed' = (failed \/ OnDisk(LBA, 1))
    <3>1. CASE ram' = ram
      BY <1>3, <2>2, <3>1, Zenon DEF Memory
    <3>2. CASE ram' = Keep(BufferAt, bytespersector)
      <4>1. ram' \subseteq ram
        BY <3>2, Kept, Zenon
      <4> QED
        BY <1>3, <2>2, <3>2, <4>1, Kept, Zenon DEF Memory, IsMemory
    <3> QED
      BY <2>2, <3>1, <3>2, Zenon
  <2> QED
    BY <2>1, <2>2, Zenon DEF ReadFromDisk
<1>6. Types'
  BY <1>1, <1>2, <1>3, <1>5 DEF Types, Labels
<1>7. FatIsIn(ram)' /\ ImageAt(Stage2At, drivenumber, Stage2File)' \subseteq ram'
  BY <1>1, <1>2, <1>4, <1>5, WrittenFromBuffer, Zenon
<1>8. Misdirected'
  BY <1>1, SameFirst, Zenon
<1> QED
  BY <1>1, <1>2, <1>3, <1>5, <1>6, <1>7, <1>8, WanderingKeeps, Zenon

LEMMA copyWanders ==
  ASSUME IInv, Misdirected, copy
  PROVE  IInv'
<1>1. /\ pc = "copy" /\ pc' = "FindNextCluster"
      /\ UNCHANGED <<disk, cleared, drivenumber, logicalcluster, to, LBA, res, failed>>
  BY Zenon DEF copy
<1>2. ram' = Keep(to, bytespersector) \cup Copied
  BY Zenon DEF copy, Copied
<1>3. /\ pc \in KernelLoading /\ pc' \in KernelLoading /\ pc' # "kernel"
      /\ pc \in {"copy", "FindNextCluster"}
  BY <1>1 DEF KernelLoading
<1>4. /\ Types /\ Memory /\ disk \in Disks /\ to \in Nat /\ to >= KernelAt
      /\ LBA \in Astray /\ LBA # 0
  BY <1>3, KernelThere, Zenon DEF Wandering
<1>5. /\ IsMemory(Copied) /\ \A r \in Copied : r.at = to
  BY <1>4, CopiedIs, Zenon
<1>6. Memory'
  <2>1. \A r \in Copied : to <= r.at /\ r.at + bytespersector <= to + bytespersector
    BY <1>4, <1>5 DEF bytespersector
  <2>2. bytespersector \in Nat
    BY DEF bytespersector
  <2> QED
    BY <1>2, <1>4, <1>5, <2>1, <2>2, Added, Zenon DEF Memory
<1>7. \A r \in ram : r.at + bytespersector <= to
                         \/ to + bytespersector <= r.at => r \in ram'
  BY <1>2, Kept, Zenon
<1>8. Types'
  BY <1>1, <1>3, <1>4 DEF Types, Labels
<1>9. FatIsIn(ram)' /\ ImageAt(Stage2At, drivenumber, Stage2File)' \subseteq ram'
  BY <1>1, <1>3, <1>4, <1>6, <1>7, WrittenFromBuffer, Zenon
<1>10. Misdirected'
  BY <1>1, SameFirst, Zenon
<1> QED
  BY <1>1, <1>3, <1>4, <1>6, <1>8, <1>9, <1>10, WanderingKeeps, Zenon

LEMMA FindNextClusterWanders ==
  ASSUME IInv, Misdirected, FindNextCluster
  PROVE  IInv'
<1>1. /\ pc = "FindNextCluster" /\ pc' = "while" /\ to' = to + bytespersector
      /\ UNCHANGED <<disk, cleared, drivenumber, ram, logicalcluster, res, failed>>
  BY Zenon DEF FindNextCluster
<1>2. LBA' = IF endOfFile(entryOf(LBA - 31)) THEN 0 ELSE entryOf(LBA - 31) + 31
  BY Zenon DEF FindNextCluster
<1>3. /\ pc \in KernelLoading /\ pc' \in KernelLoading /\ pc' # "kernel"
      /\ pc \in {"copy", "FindNextCluster"} /\ pc' \notin {"copy", "FindNextCluster"}
  BY <1>1 DEF KernelLoading
<1>4. /\ Types /\ Memory /\ disk \in Disks /\ FatIsIn(ram) /\ to \in Nat /\ to >= KernelAt
      /\ LBA \in Astray /\ LBA # 0
      /\ ImageAt(Stage2At, drivenumber, Stage2File) \subseteq ram
  BY <1>3, KernelThere, Zenon DEF Wandering
<1>5. LBA - 31 \in Nat
  BY <1>4 DEF Astray
<1>6. /\ entryOf(LBA - 31) \in Nat
      /\ ~endOfFile(entryOf(LBA - 31)) => entryOf(LBA - 31) <= 4087
  BY <1>4, <1>5, EntryOfRange
<1>7. LBA' \in Astray
  BY <1>2, <1>6, AstrayRange
<1>8. to' \in Nat /\ to' >= KernelAt
  BY <1>1, <1>4 DEF KernelAt, bytespersector
<1>9. Types'
  BY <1>1, <1>3, <1>4 DEF Types, Labels
<1>10. Memory' /\ FatIsIn(ram)'
  BY <1>1, <1>4, Zenon DEF Memory, FatIsIn
<1>11. ImageAt(Stage2At, drivenumber, Stage2File)' \subseteq ram'
  BY <1>1, <1>4, SameFloppy
<1>12. Misdirected'
  BY <1>1, SameFirst, Zenon
<1> QED
  BY <1>3, <1>7, <1>8, <1>9, <1>10, <1>11, <1>12, WanderingKeeps, Zenon

LEMMA kernelStartWanders ==
  ASSUME IInv, Misdirected, kernelStart
  PROVE  IInv'
<1>1. /\ pc = "while" /\ pc' = "kernel" /\ (res = 0 \/ LBA = 0)
      /\ UNCHANGED <<disk, cleared, drivenumber, ram, logicalcluster, to, LBA, res, failed>>
  BY Zenon DEF kernelStart
<1>2. /\ pc \in KernelLoading /\ pc' \in KernelLoading
      /\ pc' \notin {"copy", "FindNextCluster"}
  BY <1>1 DEF KernelLoading
<1>3. /\ Types /\ Memory /\ disk \in Disks /\ FatIsIn(ram) /\ to \in Nat /\ to >= KernelAt
      /\ LBA \in Astray /\ ImageAt(Stage2At, drivenumber, Stage2File) \subseteq ram
  BY <1>2, KernelThere, Zenon DEF Wandering
<1>4. Types'
  BY <1>1, <1>2, <1>3 DEF Types, Labels
<1>5. Memory' /\ FatIsIn(ram)'
  BY <1>1, <1>3, Zenon DEF Memory, FatIsIn
<1>6. ImageAt(Stage2At, drivenumber, Stage2File)' \subseteq ram'
  BY <1>1, <1>3, SameFloppy
<1>7. Misdirected'
  BY <1>1, SameFirst, Zenon
<1> QED
  BY <1>1, <1>2, <1>3, <1>4, <1>5, <1>6, <1>7, WanderingKeeps, Zenon

-----------------------------------------------------------------------------
LEMMA StutterKeeps ==
  ASSUME IInv, UNCHANGED vars
  PROVE  IInv'
<1>1. UNCHANGED <<disk, cleared, drivenumber, ram, pc, logicalcluster, to, LBA, res, failed>>
  BY Zenon DEF vars
<1>2. /\ KernelLength' = KernelLength /\ \A file : Chain(file)' = Chain(file)
      /\ \A n : KernelSectors(n)' = KernelSectors(n)
      /\ \A from, drive, file, n :
           Beginning(from, drive, file, n)' = Beginning(from, drive, file, n)
  BY <1>1, SameFloppy, SameKernel
<1>3. Types' /\ Ranges' /\ Memory' /\ FatLoaded' /\ (Misdirected' <=> Misdirected)
  BY <1>1, SameFirst, RangesStay, Zenon DEF IInv, Types, Memory, FatLoaded
<1>4. Stage2Complete'
  BY <1>1 DEF IInv, Stage2Complete, ImageAt
<1>5. Stage1Progress'
  <2>1. ASSUME NEW i, AtCluster(i)
        PROVE  AtCluster(i)'
    BY <1>1, <1>2, <2>1 DEF AtCluster
  <2>2. Chain(Stage2File)' = Chain(Stage2File)
    BY <1>2, Zenon
  <2> QED
    BY <1>1, <2>1, <2>2, Zenon DEF IInv, Stage1Progress
<1>6. Stage2Progress'
  <2>1. /\ AboveKernelAt' = AboveKernelAt /\ Chain(KernelFile)' = Chain(KernelFile)
        /\ \A a : KernelBefore(a)' <=> KernelBefore(a)
    BY <1>1, <1>2, Zenon DEF AboveKernelAt, KernelBefore
  <2>2. KernelBefore(to)' <=> KernelBefore(to)
    BY <1>1, <1>2, <2>1, Zenon DEF KernelBefore
  <2>3. KernelBefore(to - bytespersector)' <=> KernelBefore(to - bytespersector)
    BY <1>1, <1>2, <2>1, Zenon DEF KernelBefore
  <2>4. Copy(BufferAt, 0, LBA)' = Copy(BufferAt, 0, LBA)
    BY <1>1, Zenon DEF Copy
  <2>5. ASSUME NEW i, AtKernelCluster(i)
        PROVE  AtKernelCluster(i)'
    <3>1. /\ KernelSectors(i - 1)' = KernelSectors(i - 1) /\ KernelSectors(i)' = KernelSectors(i)
          /\ KernelSectors(IF pc = "FindNextCluster" THEN i ELSE i - 1)'
               = KernelSectors(IF pc = "FindNextCluster" THEN i ELSE i - 1)
      BY <1>1, <1>2
    <3> QED
      BY <1>1, <1>2, <2>1, <2>2, <2>3, <2>4, <2>5, <3>1 DEF AtKernelCluster
  <2>6. 1 .. KernelLength' + 1 = 1 .. KernelLength + 1
    BY <1>2, Zenon
  <2>7. Wandering => Wandering'
    BY <1>1, Zenon DEF Wandering
  <2> QED
    BY <1>1, <1>2, <1>3, <2>5, <2>6, <2>7, Zenon DEF IInv, Stage2Progress
<1> QED
  BY <1>3, <1>4, <1>5, <1>6, Zenon DEF IInv

LEMMA NextKeeps ==
  ASSUME IInv, [Next]_vars
  PROVE  IInv'
<1>1. CASE stage1
  BY <1>1, bootloaderKeeps, read_rootKeeps, file_searchKeeps, search_errorKeeps,
     file_foundKeeps, loadfileKeeps, nextclusterKeeps, Zenon DEF stage1
<1>2. CASE stage2
  <2>1. CASE Misdirected
    BY <1>2, <2>1, headerKeeps, entryKeeps, search_errorKeeps, ReadFromDiskWanders, copyWanders,
       FindNextClusterWanders, kernelStartWanders, Zenon DEF stage2
  <2>2. CASE ~Misdirected
    BY <1>2, <2>2, headerKeeps, entryKeeps, search_errorKeeps, ReadFromDiskKeeps, copyKeeps,
       FindNextClusterKeeps, kernelStartKeeps, Zenon DEF stage2
  <2> QED
    BY <2>1, <2>2
<1>3. CASE UNCHANGED vars
  BY <1>3, StutterKeeps, Zenon
<1> QED
  BY <1>1, <1>2, <1>3, Zenon DEF Next

LEMMA AlwaysIInv == Spec => []IInv
<1>1. Init => IInv
  BY InitIInv, Zenon
<1>2. IInv /\ [Next]_vars => IInv'
  BY NextKeeps, Zenon
<1> QED
  BY <1>1, <1>2, PTL DEF Spec

-----------------------------------------------------------------------------
(* Every variable has its type: on no floppy, and after no error, does the
   loader follow a number that is not a cluster's, ask for a sector that the
   floppy has not, or go on after the last cluster of a file, but from a first
   cluster that the header has damaged; and from there it asks for no sector
   beyond those that twelve bits name. *)
THEOREM TypeCorrect == Spec => []TypeOK
<1>1. IInv => TypeOK
  <2> SUFFICES ASSUME IInv
               PROVE  TypeOK
    OBVIOUS
  <2>1. Types /\ Memory
    BY Zenon DEF IInv
  <2>2. \A r \in ram : r.at \in Nat /\ r.sector[2] \in 0 .. totalsectors - 1
    <3> TAKE r \in ram
    <3>1. r \in Copies
      BY <2>1, Zenon DEF Memory, IsMemory
    <3>2. r.at \in Nat /\ r.sector \in Drives \X Sectors
      BY <3>1 DEF Copies
    <3>3. r.sector[2] \in Sectors
      BY <3>2
    <3> QED
      BY <3>2, <3>3, Zenon DEF Sectors
  <2>3. logicalcluster \in 0 .. totalsectors - 32
    BY <2>1, ClusterRange DEF Types, totalsectors
  <2>4. IF Misdirected THEN to \in Nat /\ to >= Stage2At /\ LBA \in Astray
        ELSE to \in Places /\ LBA \in Addresses
    <3>1. to \in Places => to \in Nat /\ to >= Stage2At
      <4>1. MaxReads \in Nat
        BY BootAssumption, Zenon
      <4> QED
        BY <4>1 DEF Places, Stage2At, KernelAt, bytespersector
    <3>2. LBA \in Addresses => LBA \in Astray
      BY DEF Addresses, Astray, totalsectors
    <3> QED
      BY <3>1, <3>2, Zenon DEF IInv, Ranges
  <2> QED
    BY <2>1, <2>2, <2>3, <2>4, Zenon DEF TypeOK, Types, Places, Addresses, Astray
<1> QED
  BY <1>1, AlwaysIInv, PTL

(* From the jump on, STAGE2.BIN is in memory, whole and in the order of its
   chain, and neither the FAT, nor the buffer, nor the kernel goes over it:
   for every length that ends below the stack, on every floppy, and whichever
   reads fail. *)
THEOREM Stage2Whole == Spec => []Stage2Complete
<1>1. IInv => Stage2Complete
  BY Zenon DEF IInv
<1> QED
  BY <1>1, AlwaysIInv, PTL

(* The kernel is started with all of KERNEL.BIN, and nothing else, in memory
   when no read has failed, and when one has, with a beginning of it and no more
   than one sector after that: on every floppy, when the header of stage 2 has
   left the number of the kernel's first cluster as it was. *)
THEOREM KernelWhole == Spec => []KernelComplete
<1>1. IInv => KernelComplete
  <2> SUFFICES ASSUME IInv, pc = "kernel", drivenumber = 0, ~Misdirected
               PROVE  IF failed
                      THEN \A r \in Started :
                             r.at < to - bytespersector => r \in ImageAt(KernelAt, 0, KernelFile)
                      ELSE Started = ImageAt(KernelAt, 0, KernelFile)
    BY Zenon DEF KernelComplete, KernelFile
  <2>1. pc \in KernelLoading
    BY DEF KernelLoading
  <2>2. /\ Types /\ disk \in Disks /\ KernelLength \in Nat /\ 1 <= KernelLength
        /\ \E i \in 1 .. KernelLength + 1 : AtKernelCluster(i)
    BY <2>1, KernelThere, Zenon
  <2>3. PICK i \in 1 .. KernelLength + 1 : AtKernelCluster(i)
    BY <2>2, Zenon
  <2>4. ImageAt(KernelAt, 0, KernelFile) = KernelSectors(KernelLength)
    BY <2>2, ImageIs, TheFiles DEF KernelSectors, KernelLength
  <2>5. res = 0 \/ LBA = 0
    BY DEF IInv, Stage2Progress
  <2>6. /\ i <= KernelLength => LBA = Chain(KernelFile)[i] + 31
        /\ res = 1 => ~failed /\ AboveKernelAt = KernelSectors(i - 1)
        /\ res = 0 => failed /\ KernelBefore(to - bytespersector)
    BY <2>3 DEF AtKernelCluster
  <2>7. CASE res = 0
    <3>1. failed /\ KernelBefore(to - bytespersector)
      BY <2>6, <2>7, Zenon
    <3> QED
      BY <2>4, <3>1, Zenon DEF KernelBefore, AboveKernelAt, Started
  <2>8. CASE res = 1
    <3>1. LBA = 0 /\ ~failed /\ AboveKernelAt = KernelSectors(i - 1)
      BY <2>5, <2>6, <2>8
    <3>2. ~(i <= KernelLength)
      <4> SUFFICES ASSUME i <= KernelLength
                   PROVE  FALSE
        OBVIOUS
      <4>1. i \in 1 .. KernelLength
        BY <2>2
      <4> QED
        BY <2>2, <2>6, <3>1, <4>1, KernelClusterIs, Zenon
    <3>3. i - 1 = KernelLength
      BY <2>2, <3>2
    <3> QED
      BY <2>4, <3>1, <3>3, Zenon DEF AboveKernelAt, Started
  <2> QED
    BY <2>2, <2>7, <2>8 DEF Types
<1> QED
  BY <1>1, AlwaysIInv, PTL
=============================================================================
