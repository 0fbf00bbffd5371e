# TwistedOS in TLA+

TwistedOS is a 32-bit x86 kernel in C and assembly with its own two-stage boot
loader. It runs one program, `kernel_main`, and interrupt handlers; there are no
processes yet. What is hard in it is what an interrupt may do between two
statements, and arithmetic on offsets and blocks. The modules here model those
parts, TLC checks them on small instances, and TLAPS proves the safety properties of
the memory manager, start-up and interrupts, the receive ring, paging, the PCI
enumeration, the boot loader and the line buffer of the console for every instance.

## Parts of the system

All paths are below `src/`.

| part | source | state | operations | correct when |
|---|---|---|---|---|
| physical memory manager | `Kernel/memory/physicalmemory.c` | a bitmap with a cell per 4096-byte block | `physicalmemoryinit`, `kernelmalloc`, `kernelfree` | allocations are disjoint, the bitmap agrees with them, a refusal (panic) is due |
| virtual memory | `Kernel/memory/virtualmemory.c` | page tables, directory, CR3 | `virtualinit`; `mapPage`, `pagealloc`, `pagefree`, `flush` without callers | the identity mapping covers what the kernel touches; a frame has one owner |
| start-up | `Kernel/kernel.c` | place in `kernel_main` | the calls of `kernel_main`, the console loop | what a handler needs is there before its interrupts are |
| interrupt handling | `Kernel/IDT`, `Kernel/PIC/PIC.h` | IDT, the controllers' vectors and in-service registers, the interrupt flag | `initIDT`, `ISR_init`, `PICremap`, `ISRCOMMON`, `ISRHANDLER` | each interrupt finds its handler, each service is ended, nothing is left blocked |
| network card driver | `Kernel/Network/rtl8139.c` | `recvbuffer`, `curpacket`, the card's registers | `initNIC`, `NICISR43handler`, `recvpacket`; `sendpacket`, `readMAC` without callers | the card writes into memory of its own; a packet that interrupts is received once, whole |
| PCI access | `Kernel/PCI/PCI.c` | the address latch of the configuration ports | `readpci`, `writepci`, `enumeratedevices`; `getdevice` without callers | data goes to the register that was addressed; every function is listed, once |
| keyboard | `Kernel/keyboard/keyboardDriver.c` | output buffer, the controller's configuration, `inputbuffer`, `charcount` | `keyboardDriver`, `keyboardHandler`, `command` | no scan code shuts the keyboard; its configuration is kept; the line stays in its buffer |
| terminal | `Kernel/Terminal/Terminal.c` | `cursor_col`, `cursor_row`, the VGA memory | `kernelprint`, `console`, `clearscreen`, `int_to_string` | output stays on the screen and in order |
| Ethernet layer | `Kernel/Network/ethernet.c` | none | `ethernethandlerecv`, `handleARPrecv` | the type is read in network order |
| TSS | `Kernel/TSS/TSS.h` | the task state segment | `instalTSS` | unused while the kernel stays in ring 0 |
| boot loader | `Bootloader` | FAT12 table, sector buffer | search, cluster chain, load, change to protected mode | the kernel that is started is the file that was stored |

The boot loader runs alone, before the rest, and leaves the kernel in memory. The
other parts interact by calls, by shared memory and by interrupts. `kernel_main`
executes `sti` before it initialises memory and the card. All gates are
interrupt gates, so handlers do not nest, and a handler runs to its `iret` while
`kernel_main` stands still; but `kernel_main` may be interrupted anywhere. The
keyboard handler prints and, for the command `devices`, uses the PCI ports; the
card's handler allocates and frees memory. The devices act at any time: the card
writes to memory and to its status register between any two steps of either.

`PROJECT.json` lists the hazards with the lines where they bite and the
properties that watch them.

## Modules

| module | models | builds on |
|---|---|---|
| `BlockAllocator` | what the memory manager promises: grants that do not overlap, refused only when no place has room | |
| `HeapLayout` | constants of `physicalmemory.h`, and the helpers as operators | |
| `PhysicalMemory` | the memory manager, a step per call | `HeapLayout`; implements `BlockAllocator` |
| `AllocatorLoops` | the same with a step for each pass of each loop | `HeapLayout`; implements `PhysicalMemory` |
| `Kernel` | `kernel_main`, interrupt delivery, `ISRHANDLER` and the handlers, the devices | `HeapLayout`; implements `PhysicalMemory` |
| `Rtl8139` | the card's receive ring and the driver's receive path | `HeapLayout` |
| `VirtualMemory` | `virtualinit` and the interface to page tables, with the processor's TLB | `HeapLayout`, `PhysicalMemory` |
| `Console` | the terminal and the line typed at it, shared by `kernel_main` and the handlers | |
| `Boot` | both stages of the boot loader, with the floppy's FAT12 table and a drive that fails | |
| `Pci` | the enumeration of the PCI bus over the configuration space of a machine | |
| `PhysicalMemoryProofs` | proofs, and the lemmas on the operators of `HeapLayout` | `PhysicalMemory`, `BlockAllocator` |
| `AllocatorLoopsProofs`, `KernelProofs`, `VirtualMemoryProofs` | proofs | the module of the name, and `PhysicalMemoryProofs` for the memory manager |
| `Rtl8139Proofs`, `PciProofs`, `BootProofs`, `ConsoleProofs` | proofs | the module of the name |
| `MC...` | values of the constants for TLC | |

In every module a definition whose comment begins with "Mutant" is not the
code's. It is a slip of the kind a change to the code could make, and the
property that has to notice it is named in `PROJECT.json`.

### The memory manager

`bitmap`, `ready` and `halted` are the array, whether `physicalmemoryinit` has
run, and whether `panic` has stopped the machine. `live` is an auxiliary
variable: the pointers that callers hold, each with the byte count asked for,
since `kernelfree` is told the count again. The array is in `.bss`, which the
linker script leaves out of the image and nobody clears, so it starts with any
content. Requests are non-negative: every caller passes a constant or a 16-bit
length. A caller frees what it holds, with the size it asked for, as `recvpacket`
does; `pagefree` does too, if its entry is present.

`AllocatorLoops` has the locals `total`, `count`, `blocks`, `index` and `i` of
`calculateblocks`, `findFirstFit` and `setbitmap`, and the same variables map to
`PhysicalMemory`: a call takes effect there when `findFirstFit` returns (or when
`calculateblocks` does, for a free), and the bitmap is mapped to what it will be
when `setbitmap` has finished.

### Start-up and interrupts

`Kernel` follows `kernel_main` from `initIDT` on; `instalTSS` before it has no
effect on what is modelled. A `kernelmalloc` is two steps, the search and the
marking; `readpci` and `writepci` are two steps, the address and the data. The
handlers are split where the card can act in between: the read of INTSTATUS, the
write that acknowledges it, and the allocation and the release in `recvpacket`.
The controllers keep their own in-service registers, priorities and fully nested
mode; the card's line is a level, the others are edges. The start is what the
boot loader leaves: interrupts off, the BIOS's vectors, the keyboard enabled,
memory and the address latch with any content. The reset of the card takes as long as
the card likes (`resetting`), and `initNIC` polls RCMD in a step of its own, which is
not enabled before the card is done (`pollreset`, `ResetDone`).

`kbd` has the bits of the keyboard controller's configuration that matter: interrupt,
disabled, translation. The loop of `keyboardDriver` that should empty the output
buffer compares the whole status with 0x1; other bits of it are always set, so the
loop never runs, and a scan code that is in the buffer is read in place of the
configuration (`ConfigRead`).

A key is abstracted to the next letter of `devices` or Enter, and a letter typed
wrong is not modelled: it only makes the command less likely. Printing is not
modelled there, but in `Console`.

### The network card

`Rtl8139` has the real sizes, in bytes: the 8192-byte ring, the overhang of 16 +
1500, a header of four bytes. A packet is where it starts, its length and its
number. The card writes as its data sheet says: it compares its own offset with
the read pointer that the driver gives it by CAPR, refuses a packet that does not
fit, wraps its offset at the ring's size, and with WRAP set lets a packet run
past the end. The driver adds `curpacket` to a pointer to `uint32`, so it reads
at four times its offset; what it then takes for a length is one of
`JunkLengths`, and what it dispatches is `Junk`. `arrived`, `merged` and `mixed` count
the packets that came in, those whose ROK was set already, and the ROKs that were
acknowledged together with another bit.

### Virtual memory

`VirtualMemory` takes `kernelmalloc` and `kernelfree` from `PhysicalMemory`. Its
variable `memory` holds the entries of each page that is a table or the directory,
by page number; an entry is its present bit, its bit 31 and the frame that `PFRAME`
masks. `virtualinit` is a step for each table that it allocates and clears, one for each
pass of the four loops that fill the tables (1024 entries in the code) and one to leave
each, then the directory, its four entries, `setpdir` and `enablepaging`. The code repeats
its statements for each of four tables; `init.table` says for which one they are executed
(`NextTable`), and `init.i` is the loops' `i` (`InLoop`). `mapPage`, `pagealloc`, `pagefree` and `flush` have no caller yet, so
their callers are modelled by what the interface allows: they stay off the identity
mapping, call `pagealloc` for an entry that is not present and `pagefree` for one
that `pagealloc` filled. `asked`, `allocated` and `unflushed` record what they have
asked for. The walk through the tables and the TLB, which caches only translations
that exist, are the processor's. `flush` executes `cli` and `sti` around `invlpg`; the
interrupt flag is left out, since nothing in this module reads it.

### The console

In `Console` the string, `col`, `offset` and `count` of a `kernelprint` that
`kernel_main` executes are in `main`, with a register for the value between a load
and a store, as the makefile asks for no optimisation. `console` takes a step for
each condition and each store. `keyboardHandler` and the card's message are single
steps: interrupt gates keep handlers from being interrupted. `terminal` is the VGA
memory and the cursor. `typed` is the line as the user has typed and edited it;
`astray` says that `charcount` was wrong when the line began, or has been negative,
and `raced` that a handler has come while `kernel_main` was at work on the screen, or
the card has printed into the line. Messages are a few characters with the line
breaks and numbers of the real ones. `charcount` and the cursor start with what
memory holds, within the limits stated at `Init`. The handler stores at
`inputbuffer[-1]` and below when `charcount` is negative; the compiler that
`CrossCompiler/CC.txt` builds puts 28 bytes of padding there (`Padding`), and `Backspace`
is modelled down to its beginning. A key without a character, as Shift, Tab or an arrow,
is `NUL`: it is stored and prints nothing. `unseen` says that a backspace has taken back
such a key, but blanked a letter.

### The boot loader

`Boot` has a step for each label of stage 1 and each statement of the loop of
`stage2`. `pc` is the next label. The addresses, the numbers of sectors, the layout
of the table in twelve-bit entries and the arithmetic of both stages are the real
ones. `ram` holds which sectors of the floppy are in memory and where; what a later
read overlaps is gone, so that the order of the loads and their addresses matter. A
name is found in the root directory if the sector that has its entry is in memory at
the time of the search. `int 0x13` reads what it is asked for or fails, at any read;
stage 1 then stops with an error, stage 2 copies its buffer all the same. `failed`
remembers that a sector of the floppy was not read. Stage 1 jumps to the first byte of
STAGE2.BIN, where the linker has put three data items, not `entry`; `header` is the step
in which they run as instructions. All that lasts of it is one byte that is set to 0, at
an address that depends on the last cluster of STAGE2.BIN (`cleared`); if it is in the
directory sector, it may be a character of KERNEL.BIN's name (`NameCleared`) or a byte of
its first cluster (`FirstCluster`). The changes of the processor's
mode, the screen and the A20 gate are left out.

### The PCI bus

`Pci` goes through the loops of `enumeratedevices` with the address register as
`latch`. A machine gives, for each bus and device, the functions that answer and
their registers; what is absent reads as all ones, which is -1 here. `Getdeviceaddr`
returns a struct that it has not filled when the register's number is past its `max`;
what the caller then makes of it is left open. Nothing else runs meanwhile: the
command `devices` is run by a handler. What that does to `kernel_main` is in `Kernel`.

## Runs

| run | question | bounds |
|---|---|---|
| `PhysicalMemory` | is the bitmap right after any sequence of calls, and the promise kept? | six blocks of four bytes, one for the kernel, requests of 0, 1, 4, 5 and 12 bytes |
| `AllocatorLoops` | do the loops compute what the calls are said to do, and end? | the same heap, requests of 0, 5 and 12 bytes |
| `Kernel` | is start-up safe against interrupts and packets that do not fit, does it end, and is every interrupt served? | eight blocks, one page table, two interrupts of the timer and of line 14, two keys, two status events, packets of 64 and 5000 bytes |
| `KernelHeapFull` | and when the heap is too small for start-up, with exceptions? | six blocks, packets of 64 bytes, exception 14 |
| `Rtl8139` | do the ring and the handler keep their pointers and the memory around them? | seven packets of 564 or 1518 bytes |
| `VirtualMemory` | does paging map what it was asked to, and the kernel to itself? | four entries in a table, five in the directory, three identity tables, three pages to map in two tables, four free blocks |
| `Console` | are the buffer and the screen the line that is typed, and does the cursor come back to the screen? | 5 by 2 cells, a line of 3, a prompt of 2, four keys or packets, one letter, one key without a character, commands of one and two letters; the cursor starts off the screen, the count at 0 or 1 |
| `Boot` | is what is started what is stored, and is it started? | clusters 2, 3, 341, 682, 2848, and 1007, 1024, 1025 as the last of stage 2; stage 2 of two sectors, a kernel of one or three, in every order; end marks 4088 and 4095; entries 1, 15 and 16; drives 0 and 1 |
| `Pci` | what does the enumeration list? | two buses of two devices; one function, three with gaps, or eight; cache line sizes 0, 1 and 128 |
| `KernelPciLatch` | violated | as `Kernel`, three keys for a command of two letters |
| `Rtl8139Header` | violated | two packets |
| `BootHeader` | violated | as `Boot` |

Six blocks let three allocations of different sizes exist side by side, be freed
in every order, and leave holes too small for the next one; the heap has three
bytes after its last block, as the real one has 4095. Eight blocks hold exactly what
start-up allocates and one packet, so that a leak, or a packet of two blocks, is a
panic. Two events of a kind let one come in before, and one during, the handler of
another. Seven packets are what it takes to bring the card to offset 8188, the last
at which a packet can start.

Four free blocks are exhausted by two tables and two frames, and force a freed frame
to become a table. In `Console` two bytes fit beside the prompt and the third key
fills the line; backspaces bring the cursor back over the prompt to column 0, where it
is printed again while `charcount` is negative; with two rows every other line clears
the screen; and four events suffice to type, edit and enter a command. A line of the
real size never reaches the end of its row (the prompt and 64 letters are 77 columns),
and the constants keep that.

In `Boot` clusters 341 (odd) and 682 (even) have entries that lie in two sectors of the
table, and 2848 is the last cluster of the floppy; three sectors make a kernel with a
first, a middle and a last step of the loop. A stage 2 that ends at 1007, 1024 or 1025
has its header clear a byte of entry 15: of the name, and either byte of the first
cluster. In `Pci` a device is followed by another
one on the same bus and on the next, and the kinds of devices cover each combination of
the bit that is tested with the one that should be.

The runs of `PhysicalMemory`, `AllocatorLoops`, `VirtualMemory` and of `Kernel` do not
check for deadlock: `panic` stops the machine. That a boot without exceptions never
panics, and stops nowhere but in the poll of the card's reset, is `BootCompletes`. In
`Rtl8139` the bound on packets ends everything, `Boot` stops in the kernel or at an
error, and `Pci` at the end of its loops.

### What the code does otherwise than it says

* `KernelPciLatch`: `writepci` writes the address, is interrupted, and the command
  `devices`, typed during start-up, moves the address latch. The command register
  of the card is not written, and the card is made to receive without being a bus
  master.
* `Rtl8139Header`: the second packet is looked for at four times its offset.
* `BootHeader`: README.md:9 says that stage 2 loads the entire kernel. The jump at
  `BootloaderStage1.asm:217` goes to the data `LBA`, `kernel` and `rootentries`, which run
  as code. One of the instructions clears the byte at 0x79FA + 3c/2, where c is the last
  cluster of STAGE2.BIN. For c from 687 to 1027 the byte is in the root directory, and when
  it is of KERNEL.BIN's first cluster, what is loaded from there on is not the kernel. When it is
  of the name, the file is not found (`Boots`). Elsewhere the byte does no harm.

These are in the models, without a run of their own:

* `keyboardDriver.c:12` says "clear data in the keyboard buffer". The loop runs only while
  the whole status byte is 0x1, which it never is. A key that was pressed before stays
  there, is read for the configuration, and written back: the controller no longer
  translates to the scan codes that `scan_code_to_char` knows (`Kernel`, `kbd.config`).
* `PCI.c:84` says "checks if device has functions", but the bit is taken from the cache
  line size, since the offset is rounded down to four bytes. On usual machines, where that
  size is 0, only function 0 of each device is listed. `ListedAsPresent` has the condition
  under which the list is right.
* `physicalmemory.c:25` marks "kernel space as being used", but 1440000 is not a
  multiple of 4096: the last 2304 bytes of that space are in a block that the first
  `kernelmalloc` returns (`kernelblocks`).
* `PFRAME` lacks bit 31: a page that was mapped to a device in the upper half of
  memory is 2 GB too high once `mapPage` maps it below. The run `VirtualMemory` maps
  memory of the lower half only.
* README.md:29 says that the card interrupts for any packet. Two packets that share a
  ROK are one `recvpacket`: the second stays in the ring until another arrives, and the
  driver is one behind from then on. A status with RXOVW beside ROK is acknowledged and
  not received from at all. `CallsAccounted` counts the calls of `recvpacket` against the
  ROKs: none is taken twice or cleared unseen, but for those two cases, and
  `LossNeedsOverflow` bounds the second by the packets that were refused. Neither says that
  a call finds a packet: only the first does (`FirstPacketIntact`, and `Rtl8139Header`).
* README.md:34 says that the user can enter commands. A backspace on an empty line
  makes `charcount` -1, and the first letter of the next command is stored before the
  buffer. `BufferIsLine` shows that every other command is obeyed.
* A key without a character is stored as NUL and shows nothing. A backspace after it takes
  back the NUL and blanks the letter before it, which stays in the buffer; and a command
  with such a key in it is not recognised.
* A letter typed while `kernel_main` prints is overwritten by the rest of its string.
  `LineOnScreen` shows that the screen is right but for this and the item above.
* README.md:9 says that stage 2 loads the entire kernel. When a read fails, what has
  been read so far is started, with the buffer's last contents behind it
  (`KernelComplete`); and it is read from drive 0, whatever drive was started
  from. `DRIVE`, "save boot drive", is given what `dl` happens to hold.
* `BootloaderStage1.asm:97` computes the root directory's size from the sectors per
  FAT instead of the number of entries: one sector of fourteen is loaded, and a file
  whose entry is past the sixteenth is not found.
* The poll of RCMD at `rtl8139.c:41` has no bound. A card that never ends its reset, or an
  absent one, which reads as all ones, stops the boot there (`BootCompletes`).
* `int_to_string` adds 1100000000 to the number of an exception that it prints.
* Only `console` clears a full screen, and the list of devices is printed by the
  handler, past the last row (`Store`).

### Fairness

`AllocatorLoops`: weak fairness of the steps inside a call. A call runs on the
processor that entered it; interrupts only delay it.

`Kernel`: weak fairness of `kernel_main`, of `ISRHANDLER`, and of the delivery of
each line. The processor executes when it can, and takes an interrupt when the
controllers present one. Nothing is assumed of the devices, not even that the card ever
ends its reset: `BootCompletes` names that case. The bounds on events
make the interrupts stop; without them a timer faster than its handler, or a
stream of packets that keeps `NICISR43handler` in its loop, would starve the rest,
and nothing in the code prevents that.

`Console`: weak fairness of `kernel_main`. Handlers return, and the number of keys is
bounded: a user who never stops may move the cursor again after each correction.

`Boot`: weak fairness of the loader, which nothing else delays; the BIOS answers each
read with success or an error. What follows is that the chains end: the loops have no
bound of their own.

## Proofs

30 theorems, for every value of the constants that satisfies the assumptions beside
them. Each states a property that a run checks on a small instance, and each rests on
an inductive invariant `IInv` of its module: `Init => IInv`, a lemma per action that
the action keeps `IInv`, and `IInv` implies the property.

What is assumed of the constants:

| assumption | says | because |
|---|---|---|
| `MemoryAssumption` | sizes are natural numbers, a block has at least a byte, the kernel's blocks fit the heap | constants of `physicalmemory.h` |
| `KernelAssumption`, `SizeAssumption` | bounds are natural numbers, lines are 3 to 15, exceptions 0 to 31; the sizes of buffers and pages are among the requests | `initIDT`, `initNIC`, `virtualinit` |
| `RingAssumption` | the ring has at least 8192 bytes, and its size is a multiple of 4 that divides 2^16 | the four sizes that the card has |
| `BlockAssumption`, `PacketAssumption` | the ring is of whole blocks; a packet has at most 1518 bytes and is no longer than a block; what is read as a length has 16 bits | `BLOCKSIZE`; Ethernet; `uint16` |
| `PagingAssumption` | the heap starts at a page and ends within the identity tables, which fit the directory and the address space; callers stay off the identity mapping | `virtualinit` |
| `PciAssumption` | a device has a function 0 and at most eight functions, whose vendor is neither 0 nor 0xFFFF | the bus |
| `BootAssumption` | the files' chains are of clusters of the floppy, none of which is in a chain twice or in both; chains end with a mark from 0xFF8 on; the files have different entries; stage 2 ends below its stack at 0xFFF0 | `mkfs.fat` and `mcopy`; `BootloaderSTAGE2.asm:48` |
| `ConsoleAssumption` | the longest line with the prompt is shorter than a row; the commands are words of letters that fit the buffer, and NUL is no letter; the count starts within the buffer, and the padding before it has a size | `clear` and `devices`; `Init` |

### The memory manager

`PhysicalMemoryProofs`: `TypeCorrect`, `BitmapExact`, `AllocationsDisjoint`, the three
invariants of the run, and `KeepsPromise`, the refinement of `BlockAllocator`.

`LiveDisjoint` is not inductive by itself: that `kernelmalloc` returns a place that
nobody holds follows only if the bitmap marks whatever is held, and that `kernelfree`
clears nobody else's cells only if allocations are apart in blocks, not merely in
bytes. `IInv` is therefore `TypeOK`, `BitmapMatchesLive` and `LiveApart`, the
block form of disjointness. The steps are: a place that `findFirstFit` reports has
no marked cell, so it is past the kernel's blocks and apart from every allocation
(`FreePlaceApart`); a free clears exactly the cells of one allocation. From blocks
to bytes it is monotonicity of multiplication (`ApartDisjoint`). For the refinement,
`RoomInBlocks` translates between free runs of cells and room in bytes, in both
directions: one way gives that a grant is granted room, the other that a refusal is
due, since room at some block-aligned place would be a run of cells that
`findFirstFit` had reported.

The first lemmas of `PhysicalMemoryProofs`, from `LayoutNat` on, have what these and the
proofs of the other users of the heap rest on: `calculateblocks` returns the least number of
blocks that covers the bytes, `findindex` inverts `address`, and `findFirstFit`
returns the lowest place, or -1 when there is none.

`AllocatorLoopsProofs`: `TypeCorrect`, `LoopsCorrect` (`LoopInvariant`), and
`LoopsImplement`, that the loops implement `PhysicalMemory` with the bitmap as the
call in progress will leave it (`settled`). The calls' disjointness and promise
therefore hold of the loops too. `IInv` adds to `LoopInvariant` what a call in progress
still relies on (`CallInProgress`: what is freed is held until its blocks are counted,
the cells before `i` are set) and the invariant of `PhysicalMemory` itself: without it
nothing says that the cells a free clears are inside the bitmap.

### Start-up and interrupts

`KernelProofs`: `TypeCorrect`, `GatesBeforeIrqs`, `EoisMatch`, `DmaOwned`,
`MemoryReturned`, and `CallsAreAtomic`, the refinement of
`PhysicalMemory`. `IInv` has

* `BootOrder`: what is set up once `kernel_main` is past a statement. An interrupt finds
  its gate because the flag is never set before `enableinterrupts`;
* `InService`: where the handler is determines what the controllers have in service.
  `NothingLeftInService` is its case of no handler;
* `NicQuiet`: the card raises nothing, and its handler allocates nothing, before
  `kernel_main` is in its loop. This is why `CallPending` is inductive: between the
  search and the marking of its `kernelmalloc` nobody else changes the bitmap, which
  no code guards. Hence `CallsAreAtomic`;
* `ReceiveBuffer` and `LiveCounted`: the card's buffer is held and is not the packet that
  is freed, and nothing else is held but what start-up has taken;
* `H!IInv`: the invariant of `PhysicalMemory`, kept because each step is one of its steps
  or leaves its variables alone (`PhysicalMemoryProofs` is instantiated, not proved again).

### The network card

`Rtl8139Proofs`: `TypeCorrect`, `CallsMatchRoks`, `LossesBounded`, `FirstPacketWhole`,
`CardStaysInBlocks`. The sizes of the ring, lengths, number of packets and the misread
lengths are arbitrary. `CallsMatchRoks` (`CallsAccounted`) is about the calls of
`recvpacket`, not about what they find. It needs `StatusStaysSet`: the card only adds to
the status that the handler is about to acknowledge. As long as nothing has been
dispatched, a call finds a packet because the count leaves it one. The card does not come
round to the first packet before it is dispatched, since the read pointer is still at the
start of the ring (`FirstPacketAtStart`, and `PointersAgree`, which says that CAPR is
`curpacket` modulo the ring's size; `IInv` has both). The later packets are not in order in
the code; see `Rtl8139Header`.

### Virtual memory

`VirtualMemoryProofs`: `TypeCorrect`, `IdentityMapped`, `FramesOwnedOnce`,
`FlushSuffices`, `TranslationsRight`. The argument is one of ownership: a page that
`kernelmalloc` returns is held by nobody, so it is no table and no caller's frame
(`TablesOwned`, `FramesOwned`, with `H!IInv`); no two entries of the directory name one
table (`DirectoryKept`), so that a write to an entry changes the translation of one page;
and tables of the identity mapping are written only while they are filled
(`TablesFilled`; of the table whose loop is running, the entries that the passes so far
have reached: `PassesDone`). `Progress` follows `virtualinit` through its statements.

`TranslationsRight` has a hypothesis, that callers map frames of the lower half of memory
only. It is the code's defect and not the proof's: `PFRAME` lacks bit 31, and with a frame
of the upper half the theorem is false. `EntriesAsAsked` is what holds without it.

### The PCI bus

`PciProofs`: `TypeCorrect`, `ListingRight`, `PortbaseRight`. The list is exactly the
functions that the loops have passed (`Passed`), that are probed (`Probed`), and that
answer. All three conjuncts of `ListedAsPresent` follow from it and from the order of the
list. The exact list is under the condition that the tested bit of the cache line size
agrees with the header type; without it the statement is false.
`PortbaseSoFar` is the loop invariant of the six base address registers.

### The boot loader

`BootProofs`: `TypeCorrect`, `Stage2Whole`, `KernelWhole`, for any place and order of the
clusters, any length of the kernel, any length of stage 2 that ends below its stack, any
entries, and any read that fails. `KernelWhole` has the hypothesis, in `KernelComplete`,
that the header has left the kernel's first cluster alone (`~Misdirected`): without it
the statement is false (`BootHeader`). `IInv` has

* `Memory`: no two sectors in memory overlap, so that a byte is that of one sector;
* `FatLoaded`: the nine sectors of the table stay where stage 1 has put them. The twelve
  bits that either stage takes out of two bytes are then the entry of the cluster
  (`EvenEntry`, `OddEntry`, `EntryIs`), also when they lie in two sectors, and what they say
  is the cluster that follows in the chain, because chains are injective and disjoint
  (`FatFollows`);
* `Stage1Progress`: when stage 1 is at the i-th cluster of its file, those before it are
  in memory at their places (`AtCluster`). Each is put behind them and, as stage 2
  ends below its stack, below the kernel;
* `Stage2Progress`: the same for the kernel (`AtKernelCluster`), with what is known after
  a read that has failed. The loop runs on for one more pass with the buffer's old
  content, hence the one sector that may follow the beginning of the file. From a first
  cluster that the header has damaged the loop wanders over what the table says, and only
  the ranges of its variables are known (`Wandering`, `Ranges`);
* `Stage2Complete`: stage 2 stays whole because the buffer ends below it and the kernel
  is loaded above it.

### The line at the console

`ConsoleProofs`: `LineBuffered`. `BufferIsLine` has three parts: the count, the letters and
the commands. The first two are inductive with the rest of the buffer being clear
(`RestIsClear`) and the count staying below the buffer's size (`LineTypes`), which is what
the comparison in `Full` is for. The commands follow (`CommandRecognised`): a comparison
that went on past the line would meet a NUL, which no command has. A count that has gone
astray leaves `RestIsClear` true.

### Only model-checked

* Liveness (`CallsEnd`, `BootCompletes`, `InterruptsServed`, `KeysTaken`,
  `CursorSettles`, `Boots`): it needs fairness and ENABLED, which are outside the prover's
  reach.
* `TypeOK` and `LineOnScreen` of `Console`. They are about what `kernelprint` makes of the
  screen and the cursor, which is a fold over a string of any length: an induction over
  data, outside the prover's reach.
* The runs that expect a violation.

## Not modelled

Port wrappers, the TSS and the scripts, for the reasons given in `PROJECT.json`.
Functions without a caller (`sendpacket`, `readMAC`, `getdevice`, `switch_to_user_mode`,
`DisableIDTEntry`). The content of packets. `int_to_string` and the format `%d`, which
only an exception prints. In the boot loader the changes between real and protected
mode, the A20 gate and the stack of stage 2 at 0xFFF0: a stage 2 that is longer would
run into it, which `BootAssumption` excludes and no code checks.

## Plan

The order is that of importance to the running system. All of it is done.

1. `BlockAllocator`, `HeapLayout`, `PhysicalMemory`: the promise and the bitmap.
2. `AllocatorLoops`: the loops.
3. `PhysicalMemoryProofs`.
4. `Kernel`: start-up with interrupts, and the keyboard controller.
5. `Rtl8139`: the receive ring.
6. `Console`: keyboard line and terminal.
7. `VirtualMemory`: page tables, TLB, and the memory manager below.
8. `Boot`: directory search, FAT12 chain, the loading loops of both stages with reads
   that fail.
9. `Pci`: the walk over buses, devices and functions, with BARs that nobody stored.
10. Proofs of `AllocatorLoops`, `Kernel`, `Rtl8139`, `VirtualMemory` and `Pci`.
11. Proofs of `Boot` and of the line in `Console`.
