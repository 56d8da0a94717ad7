# haiirOS: models, checks and proofs

haiirOS is a small x86_64 kernel in C. This directory holds TLA+ modules that
model the parts of it that keep state and can go wrong in ways a run in a
virtual machine hardly shows, TLC configurations that check them on small
instances, and TLAPS proofs for every instance: of the frame allocator down to its
bytes and loops and of how boot sets it up, of PCI enumeration, the console,
interrupt routing, and the two drivers' data paths. Paths below are relative to
the kernel's source directory (`src/`), definitions keep the names of the C
functions, and `PROJECT.json` maps every definition to the lines it models.

## 1. Inventory

| Part | State | Operations | Called by |
|---|---|---|---|
| frame allocator, `memory/phys.c` | `bitmap`, `bitmap_size`, the hint `last_idx`, `last_idx_bit` | `init_pmm`, `pmm_alloc`, `pmm_alloc_custom`, `pmm_alloc_unmapped`, `pmm_free`, `pmm_is_free` | paging, tasks, mmap, both drivers |
| paging, `memory/paging.c` | four levels of tables in frames, the one temporary mapping at `TMP_ADDR` | `map_frame`, `map_user_frame`, `unmap_page`, `to_phys`, `create_user_pml4` | everything that maps memory |
| tasks, `proc/` | `s_tasks`, `s_tasks_count`, `s_cur_task`, cr3 | `add_task`, `start_scheduler`, `switch_task`, `get_addr_space` | `kernel_main`, system calls |
| system calls, `syscall/` | the kernel system call stack | `syscall_entry`, `mmap`, `sched_yield`, `write`; the others only print | tasks |
| console, `io/io.c` | `console.x`, `console.y`, the text buffer | `printByte` below `kprintf`, `kclear_screen` | all code, and the keyboard interrupt |
| keyboard, `interrupt/apic/apic.c`, `interrupt/pic/pic.c`, `io/input.c` | `seq` | the interrupt handler | the interrupt |
| memory map, ACPI, `memory/memory.c`, `boot/acpi.c` | `memory_info`, `madt`, `fadt` | `init_memory`, `init_acpi` | `kernel_main`; they map through paging while the allocator is set up |
| PCI, `pci/pci.c` | `pci_devs`, configuration space | `init_pci`, `get_bar` | `kernel_main`, both drivers |
| PIC and exceptions, `interrupt/pic/pic.c`, `interrupt/exceptions/` | gates, the two 8259 | `init_pic`, three handlers, twenty exception handlers | `init_interrupts` when there is no APIC |
| interrupt routing, `interrupt/apic/` | `overrides`, `io_handlers`, `allocated_io_interrupts`, the redirection entries, the local APIC | `init_apic`, install, remove, allocate and free vectors, the handler | `init_interrupts`, drivers, devices |
| xHCI driver, `driver/xhci/xhci.c` | command and event ring with their indices and cycle bits, `controllers` | bring-up, `queue_cmd`, `process_event` | `kernel_main`; shares memory with the host controller |
| AHCI driver, `driver/ahci/ahci.c` | `controllers`, command tables, registers | `bios_handoff`, port set-up, identify, `ahci_read`, `ahci_write` | `kernel_main`; shares registers with BIOS and disk |
| boot code, BIOS services, cpuid | none of their own | straight-line code | `kernel_main` |

How they interact: every allocation of more than bare frames goes through
paging, and paging takes its tables from the allocator, so the two call each
other; tasks and mmap build address spaces with both. A user address space
shares the kernel's first PML4 entry. Interrupts arrive between any two
instructions of the kernel after `init_interrupts`, and the keyboard handler
uses the console of the code it interrupts. The two drivers run concurrently
with their devices and wait by polling.

What is hard about it, and what correctness means:

* **Allocator**: byte masks for runs that start in the middle of a bitmap byte,
  a scan that starts from a hint, one retry. No frame belongs to two owners,
  none leaks, and a request fails only if it must.
* **Boot**: the bitmap has to be mapped before it can be written, and mapping
  takes frames; a temporary bitmap gives them, and what was taken must not be free
  in the real one. The memory map may be unsorted, unaligned or overlapping.
* **PCI**: a recursion over bridges, and registers that are overwritten to be
  measured.
* **Paging**: one temporary mapping serves every table of a walk; a pointer into
  it dies at the next `tmp_map`. The processor must translate each page to what
  it was last mapped to, in every address space.
* **Tasks**: a task must run in its own space with its own stack, and be reached
  by the scheduler.
* **Console**: shared with an interrupt handler without any lock.
* **Interrupt routing**: overrides chain handlers, and install and remove write
  two tables one after the other while interrupts arrive.
* **PIC**: handlers that nest, an end of interrupt that names no line and goes to
  the master only.
* **xHCI**: two rings with cycle bits, shared with a concurrent controller that
  may be late.
* **AHCI**: a hand-off protocol with the BIOS, requests split into descriptors
  and commands, 16 bit counts.

`PROJECT.json` lists the hazards one by one, at their lines, with the properties
that cover them or the reason why none does.

In the current revision `kernel_main` calls `init_xhci`, which polls for ever
once a controller is found, and then halts (`main.c:48`); the call of `init_ahci`
is commented out (`main.c:45`), and tasks are started only behind that halt. The
models treat AHCI and tasks as the code is written to be used.

## 2. Modules

| Module | Models | Variables | Actions |
|---|---|---|---|
| `FrameBitmap` | `reserve_frames`, `free_frames`, the scan, as operators on a set of frames | none | none |
| `FrameAllocator` | abstract: what an allocator of runs of frames promises | `blocks` | `Alloc`, `Free` |
| `Pmm` | `phys.c` after `init_pmm`, with its callers | `pmm` (the static variables), `live`, `failed` (history) | `pmm_alloc`, `pmm_free`; `FreeFailed` for callers that free 0x0 |
| `PmmLoop` | the same functions loop iteration by loop iteration, on bytes | the bytes, the loop variables | one per branch of the loops |
| `Paging` | `paging.c`, as operators on a machine (memory, allocator) | none | none |
| `Tasks` | composes `Paging` and `FrameBitmap` with `proc/` and `syscall/` | machine, TCBs, cr3, mode, histories | `DriverAlloc`, `DriverFree`, `add_task`, `start_scheduler`, `switch_task`, `mmap_syscall` |
| `Console` | `printByte` and `kclear_screen` load by load and store by store, and the keyboard interrupt | screen, cursor, `seq`, the kernel's position | one per group of steps; the key strokes |
| `EventQueue` | abstract: a bounded first in first out channel | `queue`, `taken` | `Report`, `Take` |
| `Xhci` | the driver and, external, the host controller | driver, rings, controller | one per function of the bring-up, `Command`, `Poll`, `TakeEvent`, `Acknowledge`; `Hc...` |
| `Ahci` | the driver and, external, BIOS and disk | registers, command, `send_rw_cmds`' variables, disk | one per step of hand-off, set-up and transfer |
| `Irq` | `interrupt/apic` and, external, the APICs | tables, entries, local APIC | the boot steps, install, remove, alloc, free, `Raise`, `Deliver`, the handlers |
| `Pic` | `interrupt/pic`, the gates of the exceptions and, external, the 8259s | gates, interrupt flag, stack of handlers, controllers | the set-up, `Eoi`, `KeyboardEnables`, `Iret`; `PicRaise`, `Acknowledge`, `SpuriousIrq` |
| `Interrupts` | composes `Irq` and `Pic` in `init_interrupts`, and the exceptions | which of the two is used, where the kernel is | `UseApic`, `UsePic`, `InitApic`, `Exception` |
| `Boot` | `init_memory`, `init_acpi` and the mapping of the APICs, with `FrameBitmap` | the allocator, one level of tables, position and index of the loops | one per step; `MapPage` is one turn of any loop over `map_frame` |
| `Pci` | `pci.c` | stack of `check_bus`, `pci_devs`, registers | one per branch of the recursion; `get_bar` is an operator |
| `KernelMain` | composes `Boot`, `Pci` and the loops of `init_ahci` and `init_xhci` | drivers still to call, their index, what they opened | `Boots`, `Enumerates`, `SkipDevice`, `NoRegion`, `OpenAhci`, `OpenXhci`, `NextDriver`, `Halt` |
| `FrameBitmapProofs` | lemmas about footprints and the scan, for any bitmap | | |
| `PmmProofs`, `PmmLoopProofs` | theorems about the allocator, as sets and as bytes and loops | | |
| `KernelMainProofs` | theorems about boot: how it sets the allocator up, ACPI tables, PCI enumeration and registers | | |
| `ConsoleProofs`, `InterruptsProofs`, `XhciProofs`, `AhciProofs` | theorems about those parts | | |
| `MC...` | values of the constants that a cfg cannot write | | |

Abstractions to know when reading them:

* A bitmap is the set of frames whose bit is set. `Footprint` is the set of bits
  that the masks of `reserve_frames` really cover, which is not always the run:
  see `pmm_shared`. `PmmLoop` keeps the bytes, shifts and masks and is shown to
  implement the set level; a byte there is the set of its bits that are 1, its
  functions `reserve_bytes` and `free_bytes` are `reserve_frames` and `free_frames`.
* In `Tasks`, a walk writes through a window on one frame (`TMP_ADDR`), as the
  code does, and the processor's own walk (`Translate`) is separate from it.
  Memory that nobody used reads as zero. When an allocation has answered 0x0, or
  `create_table` has taken a frame with old contents (it does not clear it),
  `m.lost` is set, nothing more is allocated and the properties say nothing.
  The TLB is flushed after every change in the code and is left out.
* The console's cells are blank or not; a byte is its kind. The number of values
  of a `uint8_t`, the screen size and the tab width are constants. `kclear_screen`
  blanks the screen and not the text memory behind it, so that may hold anything
  (`Leftovers`).
* In `Irq` there is one IO APIC. Trigger and polarity are one value, the kind of an
  entry (edge as on ISA, level as on PCI); a line of either kind is delivered the
  same way, and a request on a masked line is lost. Delivery modes are left out.
  Handlers are installed for lines of the IO APIC only; no caller does otherwise.
* In `Pic` a handler is three steps: all it does up to the end of interrupt, that of
  `keyboard_handler` to enable interrupts, and `iret`.
* In `Boot` a bitmap block has 2 frames, the levels of paging are one, and all is
  mapped at its own address (as everything is that this part of the kernel maps).
  Memory of the temporary bitmap starts all ones or all zeros. The order of the
  four calls of `reserve_frames` at the end of `init_pmm` does not matter, and they
  are one step. The bytes behind the bitmap that `reserve_frames` and `free_frames`
  touch are in `strays`, those that are written back with mask 0 too (`Accessed`); if
  one is not mapped, the machine faults. What is overwritten behind the bitmap, on a
  page that is mapped, is not modelled. `test_mapping`, a self-test with pages of its
  own, is left out.
* In `Pci` a register has 256 values; a machine says what configuration space
  answers. `StackDepth` activations of `check_bus` overflow the kernel's stack.
  `pci_devs` has no bound; the code's 8192 entries are not checked (`pci.c:123`).
* In `KernelMain` a machine says which AHCI controllers never let `init_ahci` return
  (`stuck`: the wait of `bios_handoff` or of `send_cmd`); `Ahci` is about how.
* In `Ahci`, addresses and lengths are in sectors; each call has a bounce buffer
  of its own; a size that wrapped below 0 is negative. The disk executes a command
  descriptor by descriptor.
* In `Xhci` a controller that does not obey within the timeout is "lost", or
  starts late; as in the code, the driver goes on all the same.

A definition whose comment begins with "Mutant of" is a variant of one that
follows it, with a plausible bug; it is part of no specification and serves to
show that a property notices the bug (`PROJECT.json`, "mutants").

## 3. Runs

| Run | Instance | Shows |
|---|---|---|
| `pmm` | 4 blocks of 3 frames, four reserved, counts 0, 1, 2, 6, 7 | `TypeOK`, `Accounting`, `NoSharedFrames`, `FailsOnlyWhenFull`, refinement of `FrameAllocator` |
| `pmm_loop` | 3 blocks of 3 frames, counts 0, 2, 4, 6 | the loops implement `Pmm` step by step (`ImplementsPmm`), stay in the bitmap, keep the accounting in bytes, and return |
| `pmm_shared` | counts 1, 3, 4, 5 | **violation**: a run of one block up to two is only partly reserved |
| `pmm_null` | callers that free the answer 0x0 | **violation**: the boot section becomes free |
| `tasks` | 32 frames, tables of 12 entries, two TCBs, three calls of `add_task`, three of drivers and mmap | tables hold what was mapped and form a tree, the running task can run, every task runs |
| `tasks_stack` | the same | **violation**: the stack is mapped one frame too high |
| `console` | 2 by 3 cells, all kinds of keys | the cursor returns to the screen, what is written or erased beyond it stays near it, a backspace undoes a letter |
| `xhci` | rings of 4, the driver's two commands, two ports | the event ring is a queue (`ImplementsEventQueue`), commands complete in order, and all complete |
| `ahci` | 10 sectors, descriptors of 2, commands of 8, counts below 4, 0 or 1 slot | reads and writes move exactly the sectors that their commands reach, and calls return |
| `ahci_handoff` | one slot | **violation**: a successful hand-off is reported as failed |
| `irq` | 3 ISA sources, 4 lines, 9 vectors, six firmwares; PICs with devices on lines 0, 1, 8, 10 | drivers get their interrupts, none runs without a handler before a removal, interrupts are taken, vectors are allocated first fit; PIC interrupts reach their handlers, each handler ends its own, requests are taken |
| `boot` | 64 machines: 6 memory maps, 2 places of the kernel, 2 framebuffers, 2 lists of ACPI tables; and 8 PCI layouts, with and without AHCI | `KeptIsReserved`, `FreeIsExactlyUsable`, `PmmStartsAsAssumed`, `InitPmmStaysInBitmap`, `MappingsSurvive`, `SdtIsReadable`, `EveryFunctionOnce`, `BarIsDecoded`, `FirstXhciIsServed` |

Why the bounds are enough to meet the interesting cases:

* `pmm`: block size 3 is the smallest in which a run can start, end and lie
  strictly inside a block; counts of less than one block and of two blocks, with
  and without a rest, exercise every mask; twelve frames make allocations fail
  for fragmentation and for lack of frames, and make the retry necessary. There
  is no bound on the number of calls.
* `tasks`: a stack of two pages, a function and data share one table, as in the
  code; a third `add_task` meets a full table of TCBs; mmap meets an existing and
  a missing table, with and without `PROT_READ`; drivers allocate and free between
  the tasks, so tables lie between blocks.
* `console`: two columns make every letter a chance to wrap; three rows let a
  backspace run through a blank line to another; with `Byte` = 7 a column below 0
  lands, as 255 does on 80 columns, three lines further down, also behind the screen
  and behind what a letter can reach. That memory starts blank, or with no blank cell.
  No bound on key strokes.
* `xhci`: port changes are unbounded, so the event ring wraps any number of times
  and fills up.
* `ahci`: requests of one descriptor, several, several commands, over the end of
  the disk, and commands larger than the count registers (of 6 and of 8 sectors, with
  counts below 4). Which sectors of a request are moved is `Reached`: of a command of
  more than `CountMod` sectors the count registers keep the remainder (`ahci.c:238`).
* `irq`: the firmwares are: no override (with the local APIC's errors masked and
  not), the usual timer override, an identity override of the level kind, two that
  chain, one out of range. `MaxRaises` and `MaxCalls` bound interrupts and calls;
  two interrupts in four calls reach a call cut in two with an interrupt in
  between and one that waits behind it. Lines 8 and 10 of the PIC are two of the
  slave, one behind the other; four interrupts (`MaxPicIrqs`) let two nest in the
  keyboard handler and two more wait.
* `boot`: every memory map meets every place of the kernel (inside the boot section
  and above), a framebuffer in memory and one above it. The maps have a hole, an
  end inside a block, an end inside a frame, entries out of order, overlapping ones,
  and an end inside the block whose byte is the last of a page. ACPI tables are inside a page, across two and across tables of pages. The
  PCI layouts have bridges two deep, a bridge back to bus 0, controllers without a
  region, without 4 KiB pages and above 4 GiB, an AHCI controller that never answers,
  and a host that looks like several.

What `boot` shows is stated for what firmware normally gives, and the run holds the
machines outside it as well. `FreeIsExactlyUsable` and `InitPmmStaysInBitmap` are
about sorted maps of whole frames, and the latter about machines where all that
is reserved lies in memory: on the others `init_pmm` frees or reserves blocks
behind its bitmap (`phys.c:151`, `phys.c:213`), and may fault. Even on a tidy machine
one byte may be on a page that `map_bitmap` has not mapped: `bitmap[size+1]`, which
`phys.c:79` writes back unchanged, if memory ends inside a block and the byte before
it is the last of its page. `EveryFunctionOnce` and
`FirstXhciIsServed` are about bridges that lead to higher buses: any other makes
the recursion overflow (`pci.c:121`). `FirstXhciIsServed` also says that an AHCI
controller that keeps `init_ahci` waiting keeps `kernel_main` there. `BarIsDecoded` is about regions below 4 GiB,
since `get_bar` never reads the high half of a 64 bit register (`pci.c:66`).
`SdtIsReadable` says what `map_sdt` may miss (`acpi.c:18`). In the same way
`PicInterruptsAreTaken` says which lines of the slave are still served
(`pic.c:62`), and `LineReachesItsDriver` says which kind a line is programmed to,
that of the source with the line's number (`ioapic.c:262`), which for a device that
is wired to another line is not its own.

Deadlock is checked except in `tasks` (the kernel halts after the last task),
`xhci` (a controller that is refused ends the driver), `ahci` (the hand-off may
hang, and a faulting write stops) and `irq` (bounded calls). In `boot` the end of
`kernel_main` is an action that changes nothing (`Stopped`).

### Fairness

Only what one processor that keeps running and working devices give:

* `Tasks`: the kernel starts the scheduler, and tasks yield, as the tasks of
  `example_tasks` do. Needed because the scheduler is cooperative; a task that
  never yields keeps the processor.
* `PmmLoop`: the loops make progress.
* `Xhci`: weak fairness of the driver and of what the controller must do to end a
  report; strong fairness of executing commands, since port changes may take the
  room in the event ring again and again. Nothing makes a late controller start:
  `CommandsComplete` starts from a controller that runs.
* `Ahci`: the driver, and a disk that is not busy for ever and executes what it is
  given. The BIOS has no fairness: it may never release the controller.
* `Interrupts`: the processor runs, takes interrupts while they are enabled, and its
  handlers return. Devices, exceptions and callers have none.
* `KernelMain`: one processor that runs `kernel_main`.
* `Pmm`, `Console`: none, their properties are safety.

### What the violations say

`PROJECT.json` quotes the line each one contradicts.

1. `phys.c:37`: `reserve_frames` and `free_frames` skip the last partial byte when
   the run has exactly one whole block; `add_task`'s 15 stack frames are such a
   run. `Accounting` still holds: what is marked is unmarked, it is just not all.
2. `ahci.c:503` and others: the answer 0x0 is not looked at and freed, which
   clears the bits of the boot section.
3. `task.c:19`: `pagesCount * PAGE_SIZE` is added and the loop counts down from
   there, so the top page of each stack is the frame after its block.
4. `ahci.c:150`: the mask `11` is decimal and contains the driver's own bit.

## 4. Proofs

Every theorem holds for all values of the constants that satisfy the named ASSUMEs
of the modules. What each assumption says of the code is given below. Each
inductive invariant was checked by TLC on the instance of its run before it was
proved.

### The allocator: `FrameBitmapProofs`, `PmmProofs`, `PmmLoopProofs`

For every block size, bitmap size, set of reserved frames that contains frame 0,
and set of counts:

* `TypeCorrect`: no bit outside the bitmap is set and the hint stays inside;
* `AccountingHolds`: the bitmap is exactly what was reserved at boot and what live
  blocks marked, and marks are disjoint;
* `NoSharing`: if every count is below one block or at least two (`ExactCounts`),
  blocks share no frame; `pmm_shared` is the counterexample without it;
* `Completeness`: a request answers 0x0 only if no run exists;
* `Refinement`: under `ExactCounts`, `Pmm` implements `FrameAllocator`.

The inductive invariant is `IInv == TypeOK /\ Accounting`. `NoSharedFrames` is
not inductive by itself: that a new block is disjoint from the old ones follows
only if every frame of an old block has its bit set, which is what `Accounting`
says; and that a free leaves the other blocks marked needs the marks to be
disjoint. The argument about the masks is in three lemmas: a footprint lies
inside its run (`FootprintInRange`), contains its first frame
(`FootprintHasStart`, so no two live blocks have the same address), and is the
run for exact counts (`FootprintExact`). The argument about the scan is in
`OnePass` and `TwoPasses`: a run found is free, and what two passes miss is
nowhere. These lemmas speak of a bitmap of any size, since boot uses two.

For the same constants, of the allocator as the C code writes it, a loop iteration
at a time (`PmmLoopProofs`):

* `LoopsImplementPmm`: the loops and masks implement `Pmm`, for every count, those
  with a partial footprint included: so modelling a call as one step on sets of
  frames, as every other module does, loses nothing;
* `ScanStaysInBounds`: no pass reads behind the bitmap or outside a byte;
* `BytesAreAccounted`, `BytesAreNotShared`: the bytes are accounted for at every
  step, and under exact counts blocks share no frame; both are theorems of
  `PmmProofs`, instantiated (`PP`) and carried over by the refinement;
* `LoopsMissNothing`: the loops return 0x0 only if no run of clear bits is long
  enough.

`MaskIsFootprint` compares the five shifted bytes of `reserve_frames` with
`Footprint` bit by bit, by the order of frames as pairs of block and offset
(`BlockOrder`). `ScanInv` is the inductive invariant: at the frame `Pos` where the
scan stands, the last `continues_frames` frames are free and no run of `count`
begins before them (`Searching`). That the start of a block is meant when a block is
entered needs `last_idx_bit` to be the first bit unless the block is the one of the
hint; that the answer of the second pass is that of `Pmm` needs to remember that the
first found nothing, and that a run found is not taken for 0x0 needs frame 0 to be
reserved (`BytesInv`).

### Boot: `KernelMainProofs`

For every machine whose last usable memory reaches beyond the boot section
(`MachineAssumption`: otherwise the bitmap does not cover the kernel itself) and
whose kernel begins at a page (which "keep bitmap page aligned", `phys.c:157`, relies
on), and boot constants that fit each other (`TmpBitmapAssumption`; in the code the
temporary bitmap has 125 blocks, 1000 of the 2048 frames of the boot section, and
its first frame, 0x201, is behind the bootloader's tables):

* `MappingsLast`: whatever was mapped stays mapped, in the tables it was put in,
  although the frames of the tables come from two bitmaps one after the other;
* `PmmIsReady`: the allocator that boot leaves is a state `Pmm` starts from. This
  is what connects the two developments: what `PmmProofs` assumes of the start, it
  gets;
* `KeptStaysReserved`: kernel, boot section, bitmap and framebuffer are never
  given out, nor is the frame of any page table;
* `FreeIsUsable`: for tidy maps, free is exactly what the map calls usable and boot
  does not keep;
* `InitPmmStaysMapped`: for tidy maps with all that is reserved in memory, whatever
  `init_pmm` reads or writes behind the counted end of the bitmap is still on a page
  that `map_bitmap` mapped, but for `bitmap[size+1]` when that begins a page and
  memory ends inside a block (`EndsBeforePage`); it faults only then;
* `SdtsAreReadable`: whatever ACPI tables there are, `init_acpi` maps each but for at
  most its last page, and that only if the table does not begin at a page;
* `EveryFunctionFound`: for every finite configuration space whose bridges lead to
  higher buses, one to each (`Ordinary`, `ConfigSpaceAssumption`), the recursion over
  bridges enters every function in `pci_devs`, and none twice;
* `BarsAreDecoded`: for every size of registers that is a multiple of 16, and
  registers wired as PCI has it (`PciAssumption`), `get_bar` finds base and size of
  a memory region below 4 GiB, and every register is left as it was found.

`BootInv` has five parts. `MappingsSurvive` needs to know that a frame given out is
no page table, so `TablesInv` says where tables are: first in the bootloader's
frames, then in the boot section, then reserved in the bitmap in use. The real
bitmap does not know the tables while it is being built, but nothing is mapped
meanwhile, and the boot section is reserved at its end. `MarksInv` is the state of
the two loops of `init_pmm`, `AllocatorInv` the hint, which survives the change of
bitmaps.

`StrayInv` says that the pages of the bitmap are asked for or still to be mapped, and
that what was touched behind the end are bytes of the areas that the map frees or the
kernel keeps. The last entry of a tidy map is the highest, so these areas end below
its end, and reach at most the byte of a rest, which the size does not count, and,
with mask 0, the one after it (`AccessedBelow`). The first of the two lies on the page
that `map_bitmap` maps in excess, the second does too unless it begins a page.
It also says that a fault is at a byte that was not mapped; that the pages of the
bitmap are mapped when `init_pmm` uses them is `MappingsSurvive`.

`EnumInv` describes the recursion by the set of buses that are finished and the stack
of `check_bus`: the stack holds ever higher buses, none of them finished; what was
visited is all of the finished buses and what each activation has passed; every
bridge visited has led to a call, every other function is in `pci_devs` once, and no
bus was called but by a bridge visited. When the stack is empty, the lowest bus that
was not called would be behind a bridge on a lower one, which was (`EveryBusIsCalled`);
the least-number principle `LeastOfIsLeast`, which follows from `WFMin`, stands in for
an induction over the tree.

`SdtInv` says of the loop of `init_acpi` that the pages of the tables before `i` were
asked for or are still to be mapped; `MappingsSurvive` does the rest, and
`SdtArithmetic` shows that the pages `map_sdt` counts are at most one too few.
`PciInv` says that no step changes a register and that what a driver opened is what
`get_bar` answers on the registers as they were at the start. That it answers right is
in `SizingRestores` (all ones, then the old value: the register is the old one) and
`BarDecodes`: a 64 bit register below 4 GiB is decoded as one of 32 bits, because the
high half of its size mask is taken to be all ones and that of its base 0. What
`PciAssumption` says of registers: a value is a multiple of the size plus the flags;
the register a driver looks at is for ports or for memory of 32 or 64 bits; and
firmware has put the region where it says, if that is below 4 GiB.

### The console: `ConsoleProofs`

For every screen size, tab width and width of the cursor above a line and a tab, and
whatever the text memory behind the screen holds (`LeftoversAssumption`):

* `CursorIsOnScreen`: outside the code that prints, the cursor is on the screen;
* `WritesStayNear`: what is written or erased when a key stroke meets the cursor
  beyond the end stays within a line and a tab of the end, with one exception: a
  backspace whose search runs past column 0 of a blank line reads the cell at column
  255 from there, and erases it if it is not blank (`io.c:63`);
* `BackspaceTakesBack`: backspaces undo letters one by one, across the end of a
  line and of the screen, for as many letters as the screen has cells
  (`HistoryAssumption`; typing over the first letter makes undoing it impossible).

The first invariant says what is known at each label of the kernel's code: the
column is in range after the first check, the row after the second, and a key
stroke, which runs both checks itself, cannot undo it. `NearInv` gives the bounds
that hold between the checks, of the registers that are loaded there too.
`UndoInv` says that the letters typed lie in consecutive cells, modulo the screen,
up to the cursor, and that none of their cells is blank: this is what makes the
backspace's search for the end of the previous line stop at the right place.

### Interrupts: `InterruptsProofs`

For every set of devices on the PICs (line 2 is the slave, `PicAssumption`):

* `HandlerIsReached`: a PIC interrupt runs the handler of its line, at the vector
  `remap_pic` gave it;
* `EachEndsItsOwn`: what the master has in service is what running handlers have
  still to end.

`PicInv`: at most one interrupt of the master is in service, that of the handler
on top of the stack, because interrupts are enabled again only by a handler that
has sent its end. So the end of interrupt, which names no line, hits the right one.

For every IO APIC and every MADT whose accepted overrides are of different sources
and to different lines (`FirmwareAssumption`; nothing in the code would sort out
two for one):

* `DriversAreReached`: a driver that was told its handler is installed has its line
  unmasked and leading to it through the chain of overrides; the line is of the kind
  that the MADT gives the source with the line's number, which is the driver's kind if
  its source has no override, and need not be otherwise;
* `FaultOnlyAfterRemove`: no interrupt is executed without a handler, unless one
  was removed.

`IrqInv` relates `overrides` and `io_handlers` (`RoutingInv`: each is the inverse
of the other on the forwarding handlers), says what the two halves of a call that
an interrupt cuts in two have done (`DriverInv`), and that all pending or unmasked
lines lead to a driver (`LiveInv`). `FollowFinds` takes the place of an induction
over the chain: a forwarding entry leads to a vector that has the driver itself, so
the sequence of vectors met is known outright.

### The drivers: `XhciProofs`, `AhciProofs`

For every ring size, list of commands and set of ports:

* `EventRingIsQueue`: the event ring implements `EventQueue`: with cycle bits and
  ERDP, as driver and controller use them, no event is lost, repeated, reordered
  or overwritten;
* `CommandOrder`: if the commands fit on the command ring (`CommandsFit`: the
  driver queues two, the ring has 32 entries), they complete in the order queued.

`CycleInv` says that an entry has the controller's cycle bit if and only if it was
written in the present pass, and that the two sides have the same bit if and only
if they are in the same pass; `RoomInv` that ERDP is behind the driver by what is
not yet acknowledged. Without `RoomInv` the controller could write over an event
that is being taken; without `CycleInv` the driver could take an old one. `OrderInv`
follows the commands through ring, queue and the list of those completed.

For every size of disk, descriptors, commands and count registers, and requests
that start on the disk and are not empty (`RequestAssumption`):

* `ReadsAreRight`: after a read of any size each sector that its commands reach is at
  its place in the buffer, and the rest of the buffer is zero;
* `WritesAreRight`: after a write of any size each sector that its commands reach
  holds the caller's data for it;
* `NothingElseIsWritten`: no request, of any size, changes a sector outside it or one
  that its commands do not reach.

A command of up to `CountMod` sectors reaches them all. With the code's constants a
command may have 64 times as many, and is cut short by the count registers
(`ahci.c:238`): the call reports the sectors that were cut off as moved.

`AhciInv` follows two loops, one inside the other: that of `send_rw_cmds` over
commands (`LoopInv`: sector and buffer advance together) and that of the disk over
descriptors (`CommandInv`: it stands at the start of a descriptor, or has moved all
that it will). Buffer and sector advance by whole commands, so that the command a
sector belongs to is the one under way (`CommandOf`, `ReachedBy`). `Descriptors` shows that the descriptors of `set_prdts` lie one behind
the other and end with the last sector; `DataInv` says where the data of the request
is up to the sector the disk is at, and that nothing behind it has been moved.

### Only model-checked

* Liveness (`CallsReturn`, `EveryTaskRuns`, `CommandsComplete`, `InterruptsAreTaken`,
  `PicInterruptsAreTaken`, `FirstXhciIsServed`): outside the reach of the provers.
* `Tasks` (`TypeOK`, `TablesMatchMappings`, `TablesAreTree`, `RunningTaskIsMapped`): its
  loops over `map_frame` are recursive functions of the machine. That such a function
  obeys its own equation is an induction over data, so the provers cannot unfold it.
* `AllocFindsFirstRun`, about vectors that a fold over the table finds.

## 5. Not modelled

* cpuid (one instruction; its answer is chosen in `Interrupts`), the boot code and
  BIOS services (straight-line assembly), `set_vbe_mode` and the VBE test, which no
  build enables.
* `find_cap`, `pci_msi_vec_count`, `pci_enable_msi`, `show_local_apics` and
  other functions without a caller; the self-test `test_mapping`.
* Several IO APICs: `get_ioapic` picks the one that holds a line; with one it is
  the only one. The local timer and LINT entries are masked at boot.
* Number formatting, colours, scan code tables, saving of registers in
  `syscall_entry`, system calls that only print a line.
* The command ring's link TRB: the driver queues two commands, and the wrap at
  `xhci.c:329` needs thirty-two.

## 6. Plan

The order of work was by importance: the allocator and its loops, paging and tasks,
the console, the drivers and interrupt routing, boot, PCI, PIC and exceptions. All of
it is modelled and checked, and all but paging and tasks is proved as far as the
provers reach. What would extend it:

1. `Paging` with its loops as steps, one `map_frame` at a time, so that the trees of
   tables can be proved about without recursive functions.
2. The link TRB of the command ring, with more commands than the ring holds, and
   several IO APICs.
3. Interrupts during paging and system calls (a handler that maps memory would
   share `TMP_ADDR`), and `write` from tasks composed with `Console`.
