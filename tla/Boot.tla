--------------------------------- MODULE Boot ---------------------------------
(***************************************************************************)
(* The boot loader: Bootloader/Stage1/BootloaderStage1.asm, which finds    *)
(* STAGE2.BIN on a FAT12 floppy and loads it, and stage 2                  *)
(* (BootloaderSTAGE2.asm, Disk.asm, Disk.h, stage2.c), which does the same *)
(* with KERNEL.BIN from protected mode and starts it.                      *)
(*                                                                         *)
(* Addresses, sector numbers and the arithmetic of FAT12 are the real      *)
(* ones.  Memory is the set of sectors that it holds copies of, each at    *)
(* the address of its first byte; what overlaps a later one is gone.       *)
(***************************************************************************)
EXTENDS Integers, SequencesExt

CONSTANTS
  Disks,        \* floppies: the entry of each file in the root directory, its
                \* chain of clusters, and the mark that ends a chain
  BootDrives,   \* the drives that the BIOS may start from
  MaxReads      \* bound on the kernel's sectors, and on stage 2's

Files == {"STAGE2  BIN", "KERNEL  BIN"}

(* The header of the floppy. *)
bytespersector == 512
reservedsectors == 1
numberofFATs == 2
rootentries == 224
totalsectors == 2880
sectorsperFAT == 9
sectorspertrack == 18
headspercylinder == 2

RootAt == 32256         \* 0x7E00
FatAt == 42751          \* 0xA6FF
BufferAt == 52477       \* 0xCCFD
Stage2At == 54013       \* LOAD_OFFSET, 0xD2FD
StackAt == 65520        \* 0xFFF0
KernelAt == 1048576     \* 0x100000

Clusters == 2 .. totalsectors - 32
EndMarks == 4088 .. 4095
ClustersOf(floppy) == UNION {Range(floppy[file].chain) : file \in Files}

(* What mkfs and mcopy make.  A cluster is one sector. *)
IsFloppy(floppy) ==
  /\ DOMAIN floppy = Files \cup {"mark"} /\ floppy.mark \in EndMarks
  /\ \A file \in Files :
       /\ floppy[file].entry \in 0 .. rootentries - 1
       /\ floppy[file].chain \in Seq(Clusters) /\ IsInjective(floppy[file].chain)
       /\ Len(floppy[file].chain) \in 1 .. MaxReads
  /\ floppy["STAGE2  BIN"].entry # floppy["KERNEL  BIN"].entry
  /\ Range(floppy["STAGE2  BIN"].chain) \cap Range(floppy["KERNEL  BIN"].chain) = {}

(* Stage 2 ends below its stack, at 0xFFF0. *)
FitsBelowStack(floppy) ==
  Stage2At + bytespersector * Len(floppy["STAGE2  BIN"].chain) <= StackAt

ASSUME BootAssumption ==
  /\ MaxReads \in Nat /\ BootDrives \subseteq Nat
  /\ \A floppy \in Disks : IsFloppy(floppy) /\ FitsBelowStack(floppy)

VARIABLES
  disk, drivenumber,  \* the floppy, and the drive that it is in
  ram,                \* sectors in memory: records [at, sector]
  cleared,            \* address of the byte of memory that header clears, or 0
  pc,                 \* label of the next step
  logicalcluster,     \* of stage 1
  to,                 \* where the next cluster goes: es:bx, then kernel_buffer
  LBA, res,           \* locals of stage2()
  failed              \* the drive has not read a sector that it has

vars == <<disk, drivenumber, ram, cleared, pc, logicalcluster, to, LBA, res, failed>>

Init ==
  /\ disk \in Disks /\ drivenumber \in BootDrives
  /\ ram = {} /\ cleared = 0 /\ pc = "bootloader" /\ logicalcluster = 0 /\ to = Stage2At
  /\ LBA = 0 /\ res = 1 /\ failed = FALSE

-----------------------------------------------------------------------------
(* What is on the floppy. *)

EndsFile(cluster) == \E file \in Files : Last(disk[file].chain) = cluster
Successor(cluster) ==
  CHOOSE next \in ClustersOf(disk) :
    \E file \in Files : \E i \in 1 .. Len(disk[file].chain) - 1 :
      disk[file].chain[i] = cluster /\ disk[file].chain[i + 1] = next

FatEntry(cluster) ==
  IF cluster = 0 THEN 4080
  ELSE IF cluster = 1 THEN 4095
  ELSE IF cluster \notin ClustersOf(disk) THEN 0
  ELSE IF EndsFile(cluster) THEN disk.mark ELSE Successor(cluster)

(* Two entries of twelve bits are in three bytes. *)
FatByte(offset) ==
  LET even == FatEntry(2 * (offset \div 3))
      odd  == FatEntry(2 * (offset \div 3) + 1)
  IN  IF offset % 3 = 0 THEN even % 256
      ELSE IF offset % 3 = 1 THEN (even \div 256) + 16 * (odd % 16)
      ELSE odd \div 16

-----------------------------------------------------------------------------
(* Sectors and memory. *)

Keep(from, bytes) == {r \in ram : r.at + bytespersector <= from \/ from + bytes <= r.at}

Placed(from, sectors) ==
  Keep(from, bytespersector * Len(sectors))
    \cup {[at |-> from + bytespersector * (i - 1), sector |-> sectors[i]]
            : i \in DOMAIN sectors}

(* A byte of memory that holds the FAT, by its address. *)
Byte(address) ==
  LET holds(r) == /\ r.at <= address /\ address < r.at + bytespersector
                  /\ r.sector[2] \in reservedsectors
                                       .. reservedsectors + numberofFATs * sectorsperFAT - 1
  IN  IF \E r \in ram : holds(r)
      THEN LET r == CHOOSE s \in ram : holds(s)
           IN  FatByte(((r.sector[2] - reservedsectors) % sectorsperFAT) * bytespersector
                         + address - r.at)
      ELSE 0

(* The same in stage 1 and in Disk.h. *)
LBAtoCHS(lba) ==
  [sector |-> (lba % sectorspertrack) + 1,
   cylinder |-> (lba \div sectorspertrack) \div headspercylinder,
   head |-> (lba \div sectorspertrack) % headspercylinder]

(* Where the BIOS goes for it. *)
Addressed(chs) ==
  (chs.cylinder * headspercylinder + chs.head) * sectorspertrack + chs.sector - 1

SectorsFrom(drive, lba, count) == [i \in 1 .. count |-> <<drive, Addressed(LBAtoCHS(lba)) + i - 1>>]
OnDisk(lba, count) == lba + count <= totalsectors

-----------------------------------------------------------------------------
(* Stage 1. *)

(* int 0x13 in stage 1; an error is shown, and the machine stands still. *)
ReadDisk(lba, count, from, next) ==
  \/ /\ OnDisk(lba, count)
     /\ ram' = Placed(from, SectorsFrom(drivenumber, lba, count))
     /\ pc' = next /\ UNCHANGED failed
  \/ /\ pc' = "disk_read_error" /\ failed' = (failed \/ OnDisk(lba, count))
     /\ UNCHANGED ram

(* A first sector of the FAT, which the root directory will overwrite. *)
bootloader ==
  /\ pc = "bootloader"
  /\ ReadDisk(1, 1, RootAt, "findLBA_root_dir")
  /\ UNCHANGED <<disk, cleared, drivenumber, logicalcluster, to, LBA, res>>

findLBA_root_dir == sectorsperFAT * numberofFATs + reservedsectors

(* Mutant: the remainder is dropped. *)
size_root_dirFloor == (32 * sectorsperFAT) \div bytespersector

(* From sectorsperFAT, not from rootentries: one sector. *)
size_root_dir == (32 * sectorsperFAT + bytespersector - 1) \div bytespersector

read_root ==
  /\ pc = "findLBA_root_dir"
  /\ ReadDisk(findLBA_root_dir, size_root_dir, RootAt, "file_search")
  /\ UNCHANGED <<disk, cleared, drivenumber, logicalcluster, to, LBA, res>>

(* An entry is of 32 bytes, the first eleven of them the file's name. *)
EntryAt(file) == RootAt + 32 * disk[file].entry
NameCleared(file) == EntryAt(file) <= cleared /\ cleared <= EntryAt(file) + 10

(* The search compares all rootentries entries with memory from RootAt on.  A
   sector has sixteen; what follows those that were read matches no name. *)
Found(file) ==
  LET sector == disk[file].entry \div 16
  IN  /\ [at |-> RootAt + bytespersector * sector,
          sector |-> <<drivenumber, findLBA_root_dir + sector>>] \in ram
      /\ ~NameCleared(file)

(* [di + 26]: two bytes of the entry that was found. *)
FirstCluster(file) ==
  LET first == disk[file].chain[1]
  IN  IF cleared = EntryAt(file) + 26 THEN first - (first % 256)
      ELSE IF cleared = EntryAt(file) + 27 THEN first % 256
      ELSE first

search_error(label, file) ==
  /\ pc = label /\ ~Found(file)
  /\ pc' = "search_error"
  /\ UNCHANGED <<disk, cleared, drivenumber, ram, logicalcluster, to, LBA, res, failed>>

file_search ==
  /\ pc = "file_search" /\ Found("STAGE2  BIN")
  /\ logicalcluster' = FirstCluster("STAGE2  BIN")
  /\ pc' = "file_found"
  /\ UNCHANGED <<disk, cleared, drivenumber, ram, to, LBA, res, failed>>

(* Both copies of the FAT. *)
file_found ==
  /\ pc = "file_found"
  /\ ReadDisk(reservedsectors, 18, FatAt, "loadfile")
  /\ UNCHANGED <<disk, cleared, drivenumber, logicalcluster, to, LBA, res>>

loadfile ==
  /\ pc = "loadfile"
  /\ ReadDisk(logicalcluster + 31, 1, to, "nextcluster")
  /\ UNCHANGED <<disk, cleared, drivenumber, logicalcluster, to, LBA, res>>

(* Mutant: the halves of three bytes are taken the other way round. *)
entryOfSwapped(cluster) ==
  LET at   == FatAt + (cluster * 3) \div 2
      word == Byte(at) + 256 * Byte(at + 1)
  IN  IF cluster % 2 = 1 THEN word % 4096 ELSE word \div 16

entryOf(cluster) ==
  LET at   == FatAt + (cluster * 3) \div 2
      word == Byte(at) + 256 * Byte(at + 1)
  IN  IF cluster % 2 = 0 THEN word % 4096 ELSE word \div 16

(* Mutant: only one mark ends a file. *)
endOfFileLast(next) == next >= 4095

endOfFile(next) == next >= 4088

nextcluster ==
  /\ pc = "nextcluster"
  /\ to' = to + bytespersector
  /\ IF endOfFile(entryOf(logicalcluster))
     THEN pc' = "header" /\ UNCHANGED logicalcluster
     ELSE pc' = "loadfile" /\ logicalcluster' = entryOf(logicalcluster)
  /\ UNCHANGED <<disk, cleared, drivenumber, ram, LBA, res, failed>>

-----------------------------------------------------------------------------
(* Stage 2, in memory at Stage2At. *)

(* The jump is to the first byte of STAGE2.BIN, and the linker puts the section
   .entry there: LBA, kernel and rootentries, fifteen bytes of data before
   entry.  They are run.  One of the instructions that they make is
   "and [bx+si],ah", with ah = 0: bx is Stage2At and si where nextcluster has
   looked in the FAT, each less one.  The others change registers that entry
   sets, and two bytes of the stack.  The byte that is cleared is below the
   FAT; for a last cluster in 687 .. 1027 it is in the root directory. *)
header ==
  /\ pc = "header"
  /\ cleared' = ((Stage2At - 1) + (FatAt + (logicalcluster * 3) \div 2 - 1)) % 65536
  /\ pc' = "entry"
  /\ UNCHANGED <<disk, drivenumber, ram, logicalcluster, to, LBA, res, failed>>

entry ==
  /\ pc = "entry" /\ Found("KERNEL  BIN")
  /\ LBA' = FirstCluster("KERNEL  BIN") + 31
  /\ to' = KernelAt /\ res' = 1
  /\ pc' = "while"
  /\ UNCHANGED <<disk, cleared, drivenumber, ram, logicalcluster, failed>>

(* Drive 0, whatever the drive of stage 1.  A read that fails may have changed
   the buffer. *)
ReadFromDisk ==
  /\ pc = "while" /\ res = 1 /\ LBA # 0
  /\ pc' = "copy"
  /\ \/ /\ OnDisk(LBA, 1)
        /\ ram' = Placed(BufferAt, SectorsFrom(0, LBA, 1))
        /\ UNCHANGED <<res, failed>>
     \/ /\ ram' \in {ram, Keep(BufferAt, bytespersector)}
        /\ res' = 0 /\ failed' = (failed \/ OnDisk(LBA, 1))
  /\ UNCHANGED <<disk, cleared, drivenumber, logicalcluster, to, LBA>>

(* The buffer is copied even if the read has failed. *)
copy ==
  /\ pc = "copy"
  /\ ram' = Keep(to, bytespersector)
              \cup {[at |-> to, sector |-> r.sector] : r \in {b \in ram : b.at = BufferAt}}
  /\ pc' = "FindNextCluster"
  /\ UNCHANGED <<disk, cleared, drivenumber, logicalcluster, to, LBA, res, failed>>

(* Mutant: the kernel's next sector goes over the last. *)
FindNextClusterInPlace ==
  /\ pc = "FindNextCluster"
  /\ LET next == entryOf(LBA - 31)
     IN  LBA' = IF endOfFile(next) THEN 0 ELSE next + 31
  /\ pc' = "while"
  /\ UNCHANGED <<disk, cleared, drivenumber, ram, logicalcluster, to, res, failed>>

FindNextCluster ==
  /\ pc = "FindNextCluster"
  /\ LET next == entryOf(LBA - 31)
     IN  LBA' = IF endOfFile(next) THEN 0 ELSE next + 31
  /\ to' = to + bytespersector
  /\ pc' = "while"
  /\ UNCHANGED <<disk, cleared, drivenumber, ram, logicalcluster, res, failed>>

kernelStart ==
  /\ pc = "while" /\ (res = 0 \/ LBA = 0)
  /\ pc' = "kernel"
  /\ UNCHANGED <<disk, cleared, drivenumber, ram, logicalcluster, to, LBA, res, failed>>

stage1 ==
  \/ bootloader \/ read_root \/ file_search \/ search_error("file_search", "STAGE2  BIN")
  \/ file_found \/ loadfile \/ nextcluster

stage2 ==
  \/ header \/ entry \/ search_error("entry", "KERNEL  BIN")
  \/ ReadFromDisk \/ copy \/ FindNextCluster \/ kernelStart

Next == stage1 \/ stage2

Spec == Init /\ [][Next]_vars

(* Nothing but the drive delays the loader, and the BIOS reports a drive that
   does not answer. *)
FairSpec == Spec /\ WF_vars(Next)

-----------------------------------------------------------------------------
(* The cluster of the kernel that stage 2 starts from is not its first: header
   has cleared a byte of it. *)
Misdirected == FirstCluster("KERNEL  BIN") # disk["KERNEL  BIN"].chain[1]

(* Every variable has its type; no cluster number leaves the floppy, and the
   loader does not run past its files.  A stage 2 that starts from the wrong
   cluster may ask for any sector that an entry of the FAT can name. *)
TypeOK ==
  /\ drivenumber \in BootDrives /\ cleared \in Nat
  /\ \A r \in ram : r.at \in Nat /\ r.sector[2] \in 0 .. totalsectors - 1
  /\ logicalcluster \in 0 .. totalsectors - 32
  /\ IF Misdirected THEN to \in Nat /\ to >= Stage2At /\ LBA \in {0} \cup 31 .. 4087 + 31
     ELSE /\ to \in Stage2At .. Stage2At + bytespersector * MaxReads
                  \cup KernelAt .. KernelAt + bytespersector * MaxReads
          /\ LBA \in {0} \cup 33 .. totalsectors - 1
  /\ res \in {0, 1} /\ failed \in BOOLEAN

ImageAt(from, drive, file) ==
  {[at |-> from + bytespersector * (i - 1), sector |-> <<drive, disk[file].chain[i] + 31>>]
     : i \in DOMAIN disk[file].chain}

(* From the jump to stage 2 on, all of STAGE2.BIN is in memory, in the order of
   its chain, whatever the marks and wherever its clusters are, and whatever
   reads have failed: neither the FAT, nor the buffer, nor the kernel goes over
   it while it runs. *)
Stage2Complete ==
  pc \in {"header", "entry", "while", "copy", "FindNextCluster", "kernel"}
    => ImageAt(Stage2At, drivenumber, "STAGE2  BIN") \subseteq ram

Started == {r \in ram : r.at >= KernelAt}

(* The kernel is started with all of KERNEL.BIN, and nothing else, in memory,
   when the header has left its first cluster alone, the drive has failed no
   read and is the one that stage 2 reads.  When a read has failed what is
   started is a beginning of KERNEL.BIN, in order, followed by no more than one
   sector, what the buffer held at the time. *)
KernelComplete ==
  (pc = "kernel" /\ drivenumber = 0 /\ ~Misdirected) =>
    LET image == ImageAt(KernelAt, 0, "KERNEL  BIN")
    IN  IF failed THEN \A r \in Started : r.at < to - bytespersector => r \in image
        ELSE Started = image

(* README.md:9 says that stage 2 "loads the entire kernel" before it jumps to
   it.  It does not when the data that stage 1 jumps to clears a byte of the
   kernel's first cluster in the root directory, though no read has failed. *)
EntireKernel ==
  (pc = "kernel" /\ drivenumber = 0 /\ ~failed) =>
    ImageAt(KernelAt, 0, "KERNEL  BIN") \subseteq ram

(* The loader ends in the kernel, unless the drive has failed, one of the files
   is not among the sixteen entries of the root directory that are read, or the
   header has cleared a byte of the kernel's name. *)
Boots ==
  <>(\/ pc = "kernel"
     \/ pc = "disk_read_error" /\ failed
     \/ pc = "search_error" /\ \E file \in Files : disk[file].entry >= 16
     \/ pc = "search_error" /\ NameCleared("KERNEL  BIN"))
=============================================================================
