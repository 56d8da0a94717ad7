-------------------------------- MODULE Boot --------------------------------
(***************************************************************************)
(* The start of kernel_main: init_memory builds the frame bitmap from the  *)
(* memory map of the bootloader, init_acpi maps the firmware's tables and  *)
(* init_apic the APICs.                                                    *)
(*                                                                         *)
(* The bitmap must be mapped before it can be written, and mapping takes   *)
(* frames for page tables; map_bitmap therefore works from a temporary     *)
(* bitmap over a part of the boot section, and its tables must survive the *)
(* change to the real one.                                                 *)
(*                                                                         *)
(* Addresses are small integers, a bitmap byte is at one address.  The     *)
(* levels of paging are one: a table holds the entries of TableSpan pages. *)
(* Everything is mapped at its own address.                                *)
(***************************************************************************)
EXTENDS FrameBitmap, Sequences, SequencesExt, FiniteSets, FiniteSetsExt, Functions

CONSTANTS FRAME_SIZE,              \* also PAGE_SIZE
          BOOT_SECTION_SIZE,
          TMP_BITMAP_FIRST_FRAME,  \* the addresses between which the temporary
          TMP_BITMAP_BASE,         \* bitmap has frames to give out
          TableSpan,
          Machines                 \* what the bootloader may report

ASSUME BootConstants ==
    /\ FRAME_SIZE \in Nat \ {0} /\ TableSpan \in Nat \ {0}
    /\ {BOOT_SECTION_SIZE, TMP_BITMAP_FIRST_FRAME, TMP_BITMAP_BASE} \subseteq Nat
    /\ 0 < TMP_BITMAP_FIRST_FRAME /\ TMP_BITMAP_FIRST_FRAME < TMP_BITMAP_BASE
    /\ TMP_BITMAP_BASE < BOOT_SECTION_SIZE

VARIABLES
    machine,   \* map, kernel, framebuffer, ACPI tables and APICs of this machine
    pc, i,     \* where init_memory and init_acpi are, and the index of their loop
    size,      \* bitmap_size of the real bitmap
    pmm,       \* the static variables of phys.c; bitmap is the one in use
    tables,    \* the frame of the table of each span of pages
    entries,   \* <<table, page>>: the entries present in the tables
    strays,    \* bytes behind the real bitmap that init_pmm has read and written
    kept,      \* madt and fadt: indices of ACPI tables, 0 for none
    pages,     \* the pages the loop over map_frame that is running has left
    asked      \* history: the pages map_frame was asked to map

bootvars == <<machine, pc, i, size, pmm, tables, entries, strays, kept, pages, asked>>

FrameOf(addr)  == addr \div FRAME_SIZE
Pages(len)     == IF len = 0 THEN 0 ELSE (len - 1) \div FRAME_SIZE + 1
FramesOf(s)    == 0 .. (s * BITMAP_BLOCK_SIZE - 1)
BootPages      == 0 .. (FrameOf(BOOT_SECTION_SIZE) - 1)
TMP_BITMAP_SIZE == TMP_BITMAP_BASE \div (FRAME_SIZE * BITMAP_BLOCK_SIZE) - 1

\* The temporary bitmap has frames of the boot section only, and its first is behind
\* the bootloader's tables.
ASSUME TmpBitmapAssumption ==
    /\ TMP_BITMAP_SIZE \in Nat /\ FramesOf(TMP_BITMAP_SIZE) \subseteq BootPages
    /\ FrameOf(TMP_BITMAP_FIRST_FRAME) \in FramesOf(TMP_BITMAP_SIZE)
    /\ \A p \in BootPages : p \div TableSpan + 1 < FrameOf(TMP_BITMAP_FIRST_FRAME)

\* The bootloader maps the boot section; its tables are the frames after the first.
Init ==
    /\ machine \in Machines
    /\ pc = "size" /\ i = 1 /\ size = 0
    /\ pmm = [bitmap |-> {}, last_idx |-> 0, last_idx_bit |-> BITMAP_BLOCK_SIZE - 1]
    /\ tables = [t \in {p \div TableSpan : p \in BootPages} |-> t + 1]
    /\ entries = {<<p \div TableSpan + 1, p>> : p \in BootPages}
    /\ strays = {} /\ kept = [APIC |-> 0, FACP |-> 0]
    /\ pages = <<>> /\ asked = BootPages

(***************************************************************************)
(* map_frame of a page to itself.  A table whose frame the bitmap calls    *)
(* free is taken for missing.  Out of frames, the table is at 0x0.         *)
(***************************************************************************)
HasTable(mem, t) == t \in DOMAIN mem.tables /\ ~pmm_is_free(mem.pmm.bitmap, mem.tables[t])

NewTable(mem, t, page, a) ==
    [pmm |-> a.pmm,
     tables |-> [u \in {t} \cup DOMAIN mem.tables |-> IF u = t THEN a.addr ELSE mem.tables[u]],
     entries |-> mem.entries \cup {<<a.addr, page>>}]

map_frame(mem, blocks, page) ==
    IF HasTable(mem, page \div TableSpan)
    THEN [mem EXCEPT !.entries = @ \cup {<<mem.tables[page \div TableSpan], page>>}]
    ELSE NewTable(mem, page \div TableSpan, page, pmm_alloc_unmapped(mem.pmm, blocks, 1))

\* One turn of a loop over map_frame.
MapPage ==
    /\ pages # <<>> /\ pages' = Tail(pages)
    /\ LET blocks == IF pc = "map" THEN TMP_BITMAP_SIZE ELSE size
           mem    == map_frame([pmm |-> pmm, tables |-> tables, entries |-> entries],
                               blocks, Head(pages))
       IN  pmm' = mem.pmm /\ tables' = mem.tables /\ entries' = mem.entries
    /\ asked' = asked \cup {Head(pages)}
    /\ UNCHANGED <<machine, pc, i, size, strays, kept>>

Mapped(page) ==
    /\ page \div TableSpan \in DOMAIN tables
    /\ <<tables[page \div TableSpan], page>> \in entries

(***************************************************************************)
(* init_pmm.                                                               *)
(***************************************************************************)
BitmapAddr ==
    machine.kernel.addr + ((machine.kernel.size + FRAME_SIZE - 1) \div FRAME_SIZE) * FRAME_SIZE

\* The end of the last usable entry, whether or not it is the highest.
last_usable_addr(map) ==
    LET usable == {j \in DOMAIN map : map[j].usable}
        last   == map[Max(usable)]
    IN  IF usable = {} THEN 0 ELSE last.base + last.len

get_bitmap_size(map) == last_usable_addr(map) \div (FRAME_SIZE * BITMAP_BLOCK_SIZE)

\* The last usable entry reaches beyond the boot section, and the kernel begins at a
\* page, which keeps the bitmap behind it aligned.
ASSUME MachineAssumption ==
    \A m \in Machines :
        /\ m.map \in Seq([base : Nat, len : Nat, usable : BOOLEAN])
        /\ BootPages \subseteq FramesOf(get_bitmap_size(m.map))
        /\ m.kernel \in [addr : Nat, size : Nat] /\ m.kernel.addr % FRAME_SIZE = 0
        /\ m.fb \in [addr : Nat, width : Nat, height : Nat, bpp : Nat]
        /\ m.sdts \in Seq([addr : Nat, len : Nat, signature : STRING])

\* init_memory_map and the first half of init_bitmap.
BitmapSize ==
    /\ pc = "size" /\ pc' = "tmp"
    /\ size' = get_bitmap_size(machine.map)
    /\ UNCHANGED <<machine, i, pmm, tables, entries, strays, kept, pages, asked>>

\* The memory of the temporary bitmap may hold anything.  The length passed to
\* free_frames is an end address; what that clears too much is behind the bitmap.
create_tmp_bitmap(junk) ==
    pmm' = [pmm EXCEPT !.bitmap =
              free_frames(reserve_frames(junk, 0, Pages(TMP_BITMAP_FIRST_FRAME)),
                          FrameOf(TMP_BITMAP_FIRST_FRAME), Pages(TMP_BITMAP_BASE - 1))
              \cap FramesOf(TMP_BITMAP_SIZE)]

\* Mutant of BitmapPages: no page more than the size needs, rounded down.
BitmapPagesRoundedDown == [k \in 1 .. Max({1, size \div FRAME_SIZE}) |-> FrameOf(BitmapAddr) + k - 1]

BitmapPages == [k \in 1 .. (size \div FRAME_SIZE + 1) |-> FrameOf(BitmapAddr) + k - 1]

\* map_bitmap up to its loop over the pages of the bitmap.
map_bitmap ==
    /\ pc = "tmp" /\ pc' = "map"
    /\ \E junk \in {{}, FramesOf(TMP_BITMAP_SIZE)} : create_tmp_bitmap(junk)
    /\ pages' = BitmapPages
    /\ UNCHANGED <<machine, i, size, tables, entries, strays, kept, asked>>

\* The end of map_bitmap, and the loop of init_bitmap: all frames reserved.  The
\* hint stays where the temporary bitmap left it.
UseBitmap ==
    /\ pc = "map" /\ pc' = "free" /\ i' = 1
    /\ pmm' = [pmm EXCEPT !.bitmap = FramesOf(size)]
    /\ UNCHANGED <<machine, size, tables, entries, strays, kept, pages, asked>>

\* What free_frames or reserve_frames do for a set of areas <<address, length>>: the
\* bits, the bytes behind the bitmap that they touch, and whether one is not mapped.
AreaMarks(a)  == Footprint(FrameOf(a[1]), Pages(a[2]))
Behind(areas) == (UNION {Accessed(FrameOf(a[1]), Pages(a[2])) : a \in areas}) \ (0 .. (size - 1))
PageOf(byte)  == FrameOf(BitmapAddr + byte)
Faults(areas) == \E b \in Behind(areas) : ~Mapped(PageOf(b))

EntryAreas(e) == IF e.usable THEN {<<e.base, e.len>>} ELSE {}

\* Mutant of FreeEntry: entries of every type are freed.
FreeEntryAll ==
    /\ pc = "free" /\ i <= Len(machine.map)
    /\ pmm' = [pmm EXCEPT !.bitmap =
                 free_frames(@, FrameOf(machine.map[i].base), Pages(machine.map[i].len))]
    /\ i' = i + 1
    /\ UNCHANGED <<machine, pc, size, tables, entries, strays, kept, pages, asked>>

\* The loop of init_pmm over the memory map.
FreeEntry ==
    /\ pc = "free" /\ i <= Len(machine.map)
    /\ LET areas == EntryAreas(machine.map[i])
       IN  /\ ~Faults(areas)
           /\ pmm' = [pmm EXCEPT !.bitmap = @ \ UNION {AreaMarks(a) : a \in areas}]
           /\ strays' = strays \cup Behind(areas)
    /\ i' = i + 1
    /\ UNCHANGED <<machine, pc, size, tables, entries, kept, pages, asked>>

\* What init_pmm reserves at its end: <<address, length>>.
KeptAreas ==
    {<<0, BOOT_SECTION_SIZE>>,
     <<machine.kernel.addr, machine.kernel.size>>,
     <<BitmapAddr, size>>,
     <<machine.fb.addr, machine.fb.width * machine.fb.height * machine.fb.bpp>>}

Reserve(areas) ==
    /\ ~Faults(areas)
    /\ pmm' = [pmm EXCEPT !.bitmap = @ \cup ((UNION {AreaMarks(a) : a \in areas}) \cap FramesOf(size))]
    /\ strays' = strays \cup Behind(areas)

\* Mutants of ReserveAreas: the boot section or the bitmap is left out.
ReserveAreasNoBoot ==
    /\ pc = "free" /\ i > Len(machine.map)
    /\ pc' = "acpi" /\ i' = 1
    /\ Reserve(KeptAreas \ {<<0, BOOT_SECTION_SIZE>>})
    /\ UNCHANGED <<machine, size, tables, entries, kept, pages, asked>>
ReserveAreasNoBitmap ==
    /\ pc = "free" /\ i > Len(machine.map)
    /\ pc' = "acpi" /\ i' = 1
    /\ Reserve(KeptAreas \ {<<BitmapAddr, size>>})
    /\ UNCHANGED <<machine, size, tables, entries, kept, pages, asked>>

ReserveAreas ==
    /\ pc = "free" /\ i > Len(machine.map)
    /\ pc' = "acpi" /\ i' = 1
    /\ Reserve(KeptAreas)
    /\ UNCHANGED <<machine, size, tables, entries, kept, pages, asked>>

\* A byte behind the bitmap is on a page that is not mapped.  There are no interrupt
\* gates yet, and the machine starts again.
Fault ==
    /\ pc = "free"
    /\ LET areas == IF i <= Len(machine.map) THEN EntryAreas(machine.map[i]) ELSE KeptAreas
       IN  Faults(areas) /\ strays' = strays \cup Behind(areas)
    /\ pc' = "fault"
    /\ UNCHANGED <<machine, i, size, pmm, tables, entries, kept, pages, asked>>

(***************************************************************************)
(* init_acpi: map the root table and the tables it lists.  The number of   *)
(* pages does not take into account where in its page a table begins.      *)
(***************************************************************************)

\* Mutant of SdtPages: a table of one page and a half has one page.
SdtPagesRoundedDown(t) == [k \in 1 .. Max({1, t.len \div FRAME_SIZE}) |-> FrameOf(t.addr) + k - 1]

\* map_sdt
SdtPages(t) == [k \in 1 .. (t.len \div FRAME_SIZE + 1) |-> FrameOf(t.addr) + k - 1]

\* init_with_rsdp and init_with_xsdp: the last table with the signature is kept.
MapTable ==
    /\ pc = "acpi" /\ i <= Len(machine.sdts)
    /\ pages' = SdtPages(machine.sdts[i])
    /\ kept' = [s \in DOMAIN kept |-> IF machine.sdts[i].signature = s THEN i ELSE kept[s]]
    /\ i' = i + 1
    /\ UNCHANGED <<machine, pc, size, pmm, tables, entries, strays, asked>>

\* init_apic maps the local APIC, and get_io_apics every IO APIC; none without one.
MapApics ==
    /\ pc = "acpi" /\ i > Len(machine.sdts)
    /\ pc' = "pci"
    /\ pages' = [k \in DOMAIN machine.apics |-> FrameOf(machine.apics[k])]
    /\ UNCHANGED <<machine, i, size, pmm, tables, entries, strays, kept, asked>>

BootStep ==
    \/ MapPage
    \/ /\ pages = <<>>
       /\ BitmapSize \/ map_bitmap \/ UseBitmap \/ FreeEntry \/ ReserveAreas \/ Fault
            \/ MapTable \/ MapApics
-----------------------------------------------------------------------------
Touched(addr, len) == IF len = 0 THEN {} ELSE FrameOf(addr) .. FrameOf(addr + len - 1)

\* The masks cover an area that begins at a frame and whose last whole block is not
\* its only one (see NoSharedFrames in Pmm).
Exact(addr, len) ==
    /\ addr % FRAME_SIZE = 0
    /\ AreaMarks(<<addr, len>>) = Touched(addr, len)

\* Entries in order, of whole frames, none inside another.
Tidy(map) ==
    /\ \A e \in Range(map) : e.len % FRAME_SIZE = 0 /\ Exact(e.base, e.len)
    /\ \A j, k \in DOMAIN map : j < k => map[j].base + map[j].len <= map[k].base

PmmReady == pc = "acpi" /\ i = 1

(***************************************************************************)
(* From init_pmm on, the boot section, the kernel, the bitmap, the         *)
(* framebuffer and every page table are reserved: what was built with the  *)
(* temporary bitmap is not given out by the real one.  (Of an area that    *)
(* the masks of reserve_frames do not cover, only what is in the boot      *)
(* section.)                                                               *)
(***************************************************************************)
KeptIsReserved ==
    pc \in {"acpi", "pci", "waiting", "polling", "hlt"} =>
        /\ \A a \in KeptAreas :
             \A f \in Touched(a[1], a[2]) \cap FramesOf(size) :
                Exact(a[1], a[2]) \/ f \in BootPages => f \in pmm.bitmap
        /\ Range(tables) \cap FramesOf(size) \subseteq pmm.bitmap

(***************************************************************************)
(* On a machine with a tidy memory map, init_pmm leaves free exactly the   *)
(* frames of usable memory that it did not reserve, up to the last whole   *)
(* block: no other frame is given out and none is lost.                    *)
(***************************************************************************)
FreeIsExactlyUsable ==
    PmmReady /\ Tidy(machine.map) /\ (\A a \in KeptAreas : Exact(a[1], a[2])) =>
        FramesOf(size) \ pmm.bitmap
          = ((UNION {Touched(e.base, e.len) : e \in {e \in Range(machine.map) : e.usable}})
              \cap FramesOf(size)) \ (UNION {Touched(a[1], a[2]) : a \in KeptAreas})

(***************************************************************************)
(* init_pmm establishes what Pmm starts from: frame 0 is reserved and the  *)
(* hint, left over from the temporary bitmap, is in the bitmap, at a       *)
(* reserved frame, if there is memory beyond the boot section.             *)
(***************************************************************************)
PmmStartsAsAssumed ==
    PmmReady /\ BootPages \subseteq FramesOf(size) =>
        /\ 0 \in pmm.bitmap /\ pmm.bitmap \subseteq FramesOf(size)
        /\ pmm.last_idx < size
        /\ ScanFrom(pmm.last_idx, pmm.last_idx_bit) \in pmm.bitmap

MemoryEnd == Max({e.base + e.len : e \in {e \in Range(machine.map) : e.usable}})

(***************************************************************************)
(* init_pmm reads and writes only bytes on pages that map_bitmap has       *)
(* mapped, if the memory map is tidy and what is to be kept is in memory:  *)
(* the last entry decides the size of the bitmap, and the byte of a rest   *)
(* at the end of memory, which the size does not count, is still on a page *)
(* of the bitmap.  The byte after it, which is written back as it was, is  *)
(* not when it begins a page: then, and only then, init_pmm may fault.     *)
(***************************************************************************)
EndsBeforePage == (size + 1) % FRAME_SIZE = 0 /\ FrameOf(MemoryEnd) % BITMAP_BLOCK_SIZE # 0

InitPmmStaysInBitmap ==
    Tidy(machine.map) /\ (\A a \in KeptAreas : a[1] + a[2] <= MemoryEnd) =>
        /\ \A b \in strays : PageOf(b) \in Range(BitmapPages) \/ (b = size + 1 /\ EndsBeforePage)
        /\ pc = "fault" => EndsBeforePage

(***************************************************************************)
(* A page that was mapped stays mapped: no table is replaced because the   *)
(* bitmap in use calls its frame free.                                     *)
(***************************************************************************)
MappingsSurvive == \A p \in asked : Mapped(p)

(***************************************************************************)
(* Of an ACPI table that init_acpi has mapped at most the last page is     *)
(* missing, and only of one that does not begin at a page.                 *)
(***************************************************************************)
SdtIsReadable ==
    \A k \in DOMAIN machine.sdts :
        LET t == machine.sdts[k]
        IN  pages = <<>> /\ (pc = "pci" \/ (pc = "acpi" /\ k < i))
            => \A p \in Touched(t.addr, t.len) :
                  ~Mapped(p) => t.addr % FRAME_SIZE # 0 /\ p = FrameOf(t.addr + t.len - 1)
=============================================================================
