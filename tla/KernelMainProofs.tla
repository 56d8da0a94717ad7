-------------------------- MODULE KernelMainProofs --------------------------
(***************************************************************************)
(* init_pmm and the mappings of kernel_main, for every memory map that     *)
(* reaches beyond the boot section and every size of frames, blocks, page  *)
(* tables and boot section; the ACPI tables, and the base address          *)
(* registers of the controllers that drivers open.                         *)
(***************************************************************************)
EXTENDS KernelMain, FrameBitmapProofs, SequenceTheorems, FiniteSetTheorems

(***************************************************************************)
(* The hand-over.  Page tables are in the boot section while the temporary *)
(* bitmap gives their frames out, and reserved in it; the real bitmap does *)
(* not know them while it is built, but nothing is mapped meanwhile, and   *)
(* the boot section is reserved at the end.  From then on a table is       *)
(* reserved because nothing is given back.                                 *)
(***************************************************************************)
Late == {"acpi", "pci", "waiting", "polling", "hlt"}

BootTypeInv ==
    /\ machine \in Machines
    /\ pc \in {"size", "tmp", "map", "free", "fault"} \cup Late
    /\ i \in Nat \ {0}
    /\ pc # "size" => size = get_bitmap_size(machine.map)
    /\ pages # <<>> => pc \in {"map", "acpi", "pci", "waiting", "polling"}
    /\ pc = "acpi" /\ i = 1 => pages = <<>>

\* The frames of the page tables.
TablesIn(ts, S) == \A t \in DOMAIN ts : ts[t] \in S

TablesInv ==
    /\ pc \in {"size", "tmp"} => TablesIn(tables, 0 .. (FrameOf(TMP_BITMAP_FIRST_FRAME) - 1))
    /\ pc \notin Late => TablesIn(tables, BootPages)
    /\ pc \in {"map"} \cup Late => TablesIn(tables, pmm.bitmap)

\* The variables of the allocator; their hint stays where the temporary bitmap had it.
AllocatorInv ==
    /\ pc \in {"size", "tmp"} => pmm.last_idx = 0 /\ pmm.last_idx_bit = BITMAP_BLOCK_SIZE - 1
    /\ pc = "map" => 0 \in pmm.bitmap /\ pmm.bitmap \subseteq BitmapFrames(TMP_BITMAP_SIZE)
    /\ pc = "free" => pmm.bitmap \subseteq BitmapFrames(size)
    /\ pc \in Late => 0 \in pmm.bitmap /\ pmm \in PmmOver(size)
    /\ pc \notin Late \/ PmmReady => /\ pmm.last_idx \in 0 .. (TMP_BITMAP_SIZE - 1)
                                     /\ pmm.last_idx_bit \in 0 .. (BITMAP_BLOCK_SIZE - 1)
    /\ pmm = [bitmap |-> pmm.bitmap, last_idx |-> pmm.last_idx, last_idx_bit |-> pmm.last_idx_bit]

\* What the loops of init_pmm have freed and reserved so far.
EntryMarks(e) == IF e.usable THEN Footprint(FrameOf(e.base), Pages(e.len)) ELSE {}
Freed(n)      == UNION {EntryMarks(machine.map[j]) : j \in 1 .. n}
Reserving     == UNION {AreaMarks(a) : a \in KeptAreas}

MarksInv ==
    /\ pc = "free" => i <= Len(machine.map) + 1 /\ pmm.bitmap = FramesOf(size) \ Freed(i - 1)
    /\ PmmReady => pmm.bitmap = (FramesOf(size) \ Freed(Len(machine.map)))
                                  \cup (Reserving \cap FramesOf(size))
    /\ pc \in Late => Reserving \cap FramesOf(size) \subseteq pmm.bitmap

BootInv == BootTypeInv /\ TablesInv /\ AllocatorInv /\ MarksInv /\ MappingsSurvive
-----------------------------------------------------------------------------
(***************************************************************************)
(* Sizes.                                                                  *)
(***************************************************************************)
LEMMA FrameDivision ==
    ASSUME NEW n \in Nat
    PROVE  /\ FrameOf(n) \in Nat
           /\ FrameOf(n) * FRAME_SIZE <= n /\ n < (FrameOf(n) + 1) * FRAME_SIZE
<1>1. FRAME_SIZE \in Nat \ {0}
  BY BootConstants
<1> QED BY <1>1, Z3 DEF FrameOf

\* The pages of a length include every whole frame of it.
LEMMA PagesCover ==
    ASSUME NEW n \in Nat
    PROVE  Pages(n) \in Nat /\ FrameOf(n) <= Pages(n)
<1> DEFINE F == FRAME_SIZE
           q == FrameOf(n)
           r == FrameOf(n - 1)
<1>1. F \in Nat \ {0}
  BY BootConstants
<1>2. q \in Nat /\ q * F <= n
  BY FrameDivision
<1>3. CASE n = 0
  <2>1. q = 0
    BY <1>1, <1>2, <1>3, Z3
  <2> QED BY <1>3, <2>1 DEF Pages
<1>4. CASE n # 0
  <2>1. n - 1 \in Nat
    BY <1>4
  <2>2. r \in Nat /\ n - 1 < (r + 1) * F
    BY <2>1, FrameDivision
  <2>3. Pages(n) = r + 1
    BY <1>4 DEF Pages, FrameOf
  <2> HIDE DEF q, r
  <2>4. q * F < (r + 1) * F + 1
    BY <1>1, <1>2, <2>2, Z3
  <2>5. q <= r + 1
    <3> SUFFICES ASSUME q >= r + 2 PROVE FALSE
      BY <1>2, <2>2
    <3>1. q * F >= (r + 2) * F
      BY <1>1, <1>2, <2>2, Z3
    <3>2. (r + 2) * F = (r + 1) * F + F
      BY <1>1, <2>2, Z3
    <3>3. q * F \in Int /\ (r + 1) * F \in Int /\ (r + 2) * F \in Int
      BY <1>1, <1>2, <2>2, Z3
    <3> QED BY <1>1, <2>4, <3>1, <3>2, <3>3
  <2> QED BY <2>2, <2>3, <2>5 DEF q
<1> QED BY <1>3, <1>4

LEMMA BitmapFramesIsFramesOf == ASSUME NEW n PROVE BitmapFrames(n) = FramesOf(n)
BY DEF BitmapFrames, FramesOf

\* The temporary bitmap is not empty, and frame 0 is in the boot section.
LEMMA TmpSize ==
    /\ TMP_BITMAP_SIZE \in Nat \ {0}
    /\ 0 \in BootPages /\ BitmapFrames(TMP_BITMAP_SIZE) \subseteq BootPages
    /\ FrameOf(TMP_BITMAP_FIRST_FRAME) \in Nat \ {0}
    /\ 0 .. (FrameOf(TMP_BITMAP_FIRST_FRAME) - 1) \subseteq BitmapFrames(TMP_BITMAP_SIZE)
<1> DEFINE f == FrameOf(TMP_BITMAP_FIRST_FRAME)
           m == TMP_BITMAP_SIZE * BITMAP_BLOCK_SIZE
<1>1. TMP_BITMAP_SIZE \in Nat /\ BITMAP_BLOCK_SIZE \in Nat
  BY TmpBitmapAssumption, BlockAssumption
<1>2. m \in Nat /\ (TMP_BITMAP_SIZE = 0 => m = 0)
  BY <1>1, Z3
<1>3. f \in 0 .. (m - 1) /\ FramesOf(TMP_BITMAP_SIZE) = 0 .. (m - 1)
  BY TmpBitmapAssumption DEF FramesOf
<1> HIDE DEF f, m
<1>4. 0 \in BootPages /\ TMP_BITMAP_SIZE # 0
  BY <1>2, <1>3, TmpBitmapAssumption
<1>5. TableSpan \in Nat \ {0} /\ 0 \div TableSpan = 0
  BY BootConstants, Z3
<1>6. f # 0
  BY <1>3, <1>4, <1>5, TmpBitmapAssumption DEF f
<1>7. 0 .. (f - 1) \subseteq FramesOf(TMP_BITMAP_SIZE)
  BY <1>2, <1>3
<1>8. f \in Nat \ {0}
  BY <1>2, <1>3, <1>6
<1>9. BitmapFrames(TMP_BITMAP_SIZE) = FramesOf(TMP_BITMAP_SIZE)
  BY BitmapFramesIsFramesOf
<1> QED BY <1>1, <1>4, <1>7, <1>8, <1>9, TmpBitmapAssumption DEF f

LEMMA RealSize ==
    ASSUME NEW n \in Nat, BootPages \subseteq FramesOf(n)
    PROVE  n \in Nat \ {0} /\ TMP_BITMAP_SIZE <= n
<1> DEFINE k == BITMAP_BLOCK_SIZE
           t == TMP_BITMAP_SIZE
<1>1. t \in Nat \ {0} /\ k \in Nat \ {0}
  BY TmpSize, BlockAssumption
<1>2. t * k \in Nat /\ t * k >= 1 /\ n * k \in Nat
  BY <1>1, Z3
<1>3. t * k - 1 \in FramesOf(t)
  BY <1>2 DEF FramesOf
<1>4. t * k - 1 \in 0 .. (n * k - 1)
  BY <1>3, TmpBitmapAssumption DEF FramesOf
<1>5. t * k <= n * k
  BY <1>2, <1>4
<1>6. t <= n
  BY <1>1, <1>5, Z3
<1> QED BY <1>1, <1>6

\* reserve_frames of the boot section covers all its pages.
LEMMA BootPagesAreMarked == BootPages \subseteq AreaMarks(<<0, BOOT_SECTION_SIZE>>)
<1>1. BOOT_SECTION_SIZE \in Nat /\ FRAME_SIZE \in Nat \ {0}
  BY BootConstants
<1>2. FrameOf(0) = 0
  BY <1>1, Z3 DEF FrameOf
<1>3. Pages(BOOT_SECTION_SIZE) \in Nat /\ FrameOf(BOOT_SECTION_SIZE) \in Nat
      /\ FrameOf(BOOT_SECTION_SIZE) <= Pages(BOOT_SECTION_SIZE)
  BY <1>1, PagesCover, FrameDivision
<1>4. BootPages \subseteq 0 .. (Pages(BOOT_SECTION_SIZE) - 1)
  BY <1>3 DEF BootPages
<1>5. 0 .. (Pages(BOOT_SECTION_SIZE) - 1) \subseteq Footprint(0, Pages(BOOT_SECTION_SIZE))
  BY <1>3, FootprintFromZero
<1>6. AreaMarks(<<0, BOOT_SECTION_SIZE>>) = Footprint(0, Pages(BOOT_SECTION_SIZE))
  BY <1>2 DEF AreaMarks
<1> QED BY <1>4, <1>5, <1>6

\* The temporary bitmap reserves everything below its first frame, whatever was in
\* its memory before.
LEMMA TmpBitmapReserves ==
    ASSUME NEW junk,
           NEW b, b = free_frames(reserve_frames(junk, 0, Pages(TMP_BITMAP_FIRST_FRAME)),
                                  FrameOf(TMP_BITMAP_FIRST_FRAME), Pages(TMP_BITMAP_BASE - 1))
                      \cap FramesOf(TMP_BITMAP_SIZE)
    PROVE  0 .. (FrameOf(TMP_BITMAP_FIRST_FRAME) - 1) \subseteq b
<1> DEFINE f == FrameOf(TMP_BITMAP_FIRST_FRAME)
           p == Pages(TMP_BITMAP_FIRST_FRAME)
           q == Pages(TMP_BITMAP_BASE - 1)
<1>1. TMP_BITMAP_FIRST_FRAME \in Nat /\ TMP_BITMAP_BASE - 1 \in Nat
  BY BootConstants
<1>2. f \in Nat /\ p \in Nat /\ f <= p /\ q \in Nat
  BY <1>1, PagesCover, FrameDivision
<1>3. 0 .. (f - 1) \subseteq FramesOf(TMP_BITMAP_SIZE)
  BY TmpSize, BitmapFramesIsFramesOf
<1>4. Footprint(f, q) \subseteq FrameRange(f, q) /\ 0 .. (p - 1) \subseteq Footprint(0, p)
  BY <1>2, FootprintInRange, FootprintFromZero
<1>5. b = ((junk \cup Footprint(0, p)) \ Footprint(f, q)) \cap FramesOf(TMP_BITMAP_SIZE)
  BY DEF free_frames, reserve_frames
<1> HIDE DEF f, p, q
<1>6. ASSUME NEW g \in 0 .. (f - 1) PROVE g \in b
  <2>1. g \in 0 .. (p - 1) /\ g \notin FrameRange(f, q)
    BY <1>2 DEF FrameRange
  <2> QED BY <1>3, <1>4, <1>5, <2>1
<1> QED BY <1>6 DEF f
-----------------------------------------------------------------------------
(***************************************************************************)
(* map_frame with a bitmap in which every table is reserved: nothing that  *)
(* was mapped is lost, and the page is mapped.                             *)
(***************************************************************************)
LEMMA MapFrame ==
    ASSUME NEW n \in Nat \ {0}, NEW P \in PmmOver(n), 0 \in P.bitmap,
           NEW T, TablesIn(T, P.bitmap), NEW E, NEW page,
           NEW r, r = map_frame([pmm |-> P, tables |-> T, entries |-> E], n, page)
    PROVE  /\ r.pmm \in PmmOver(n) /\ P.bitmap \subseteq r.pmm.bitmap
           /\ TablesIn(r.tables, r.pmm.bitmap)
           /\ \A t \in DOMAIN T : t \in DOMAIN r.tables /\ r.tables[t] = T[t]
           /\ E \subseteq r.entries
           /\ page \div TableSpan \in DOMAIN r.tables
           /\ <<r.tables[page \div TableSpan], page>> \in r.entries
<1> DEFINE mem == [pmm |-> P, tables |-> T, entries |-> E]
           t0 == page \div TableSpan
           a == pmm_alloc_unmapped(P, n, 1)
<1>1. CASE t0 \in DOMAIN T
  <2>1. HasTable(mem, t0)
    BY <1>1 DEF HasTable, pmm_is_free, TablesIn
  <2>2. r = [pmm |-> P, tables |-> T, entries |-> E \cup {<<T[t0], page>>}]
    BY <2>1 DEF map_frame
  <2> HIDE DEF t0
  <2> QED BY <1>1, <2>2 DEF t0
<1>2. CASE t0 \notin DOMAIN T
  <2>1. ~HasTable(mem, t0)
    BY <1>2 DEF HasTable
  <2>2. AllocOutcome(n, P, 1, a)
    BY TwoPasses
  <2>3. r = NewTable(mem, t0, page, a)
    BY <2>1 DEF map_frame
  <2> HIDE DEF a, t0
  <2>4. a.pmm \in PmmOver(n) /\ P.bitmap \subseteq a.pmm.bitmap /\ a.addr \in a.pmm.bitmap
    BY <2>2, FootprintOfOne DEF AllocOutcome
  <2>5. /\ r.pmm = a.pmm /\ r.entries = E \cup {<<a.addr, page>>}
        /\ r.tables = [t \in {t0} \cup DOMAIN T |-> IF t = t0 THEN a.addr ELSE T[t]]
    BY <2>3 DEF NewTable
  <2>6. DOMAIN r.tables = {t0} \cup DOMAIN T /\ r.tables[t0] = a.addr
        /\ \A t \in DOMAIN T : r.tables[t] = T[t]
    BY <1>2, <2>5
  <2>7. TablesIn(r.tables, a.pmm.bitmap)
    BY <2>4, <2>6 DEF TablesIn
  <2> QED BY <2>4, <2>5, <2>6, <2>7 DEF t0
<1> QED BY <1>1, <1>2
-----------------------------------------------------------------------------
(***************************************************************************)
(* The steps preserve the invariant.                                       *)
(***************************************************************************)
LEMMA MaxIsMax ==
    ASSUME NEW S \in SUBSET Nat, S # {}, NEW n \in Nat, \A x \in S : x <= n
    PROVE  Max(S) \in S /\ \A x \in S : Max(S) >= x
<1> DEFINE T == {b \in Nat : \A x \in S : x <= b}
           b == LeastOf(T)
<1>1. b \in T /\ \A t \in T : b <= t
  BY LeastOfIsLeast
<1> HIDE DEF b
<1>2. b \in S
  <2> SUFFICES ASSUME b \notin S PROVE FALSE
    OBVIOUS
  <2>1. \A x \in S : x \in Nat /\ x < b
    BY <1>1
  <2>2. b # 0
    <3>1. PICK x \in S : x \in Nat /\ x < b
      BY <2>1
    <3> QED BY <3>1
  <2>3. b - 1 \in T
    BY <1>1, <2>1, <2>2
  <2> QED BY <1>1, <2>3
<1>3. \A x \in S : b >= x
  BY <1>1
<1> QED BY <1>2, <1>3 DEF Max

\* The entry that decides the size of the bitmap.
Entries == [base : Nat, len : Nat, usable : BOOLEAN]
UsableIn(map) == {j \in DOMAIN map : map[j].usable}

LEMMA LastUsable ==
    ASSUME NEW map \in Seq(Entries)
    PROVE  /\ last_usable_addr(map) \in Nat
           /\ UsableIn(map) # {} =>
                /\ Max(UsableIn(map)) \in UsableIn(map)
                /\ \A j \in UsableIn(map) : j <= Max(UsableIn(map))
                /\ last_usable_addr(map) = map[Max(UsableIn(map))].base + map[Max(UsableIn(map))].len
<1> DEFINE U == UsableIn(map)
           k == Max(U)
<1>1. CASE U = {}
  BY <1>1 DEF last_usable_addr, UsableIn
<1>2. CASE U # {}
  <2>1. U \in SUBSET Nat /\ Len(map) \in Nat /\ \A x \in U : x <= Len(map)
    BY DEF UsableIn
  <2>2. k \in U /\ \A x \in U : k >= x
    BY <1>2, <2>1, MaxIsMax
  <2>3. last_usable_addr(map) = map[k].base + map[k].len
    BY <1>2 DEF last_usable_addr, UsableIn
  <2>4. map[k] \in Entries
    BY <2>2 DEF UsableIn
  <2>5. last_usable_addr(map) \in Nat
    BY <2>3, <2>4 DEF Entries
  <2>6. \A j \in U : j <= k
    BY <2>1, <2>2
  <2> QED BY <2>2, <2>3, <2>5, <2>6
<1> QED BY <1>1, <1>2

LEMMA BitmapSizeIsNat ==
    ASSUME NEW m \in Machines
    PROVE  m.map \in Seq(Entries) /\ get_bitmap_size(m.map) \in Nat
<1>1. m.map \in Seq(Entries)
  BY MachineAssumption DEF Entries
<1>2. last_usable_addr(m.map) \in Nat
  BY <1>1, LastUsable
<1>3. FRAME_SIZE * BITMAP_BLOCK_SIZE \in Nat \ {0}
  BY BootConstants, BlockAssumption, Z3
<1> DEFINE n == last_usable_addr(m.map)
           d == FRAME_SIZE * BITMAP_BLOCK_SIZE
<1> HIDE DEF n, d
<1>4. n \div d \in Nat
  BY <1>2, <1>3, Z3 DEF n, d
<1> QED BY <1>1, <1>4 DEF get_bitmap_size, n, d

LEMMA SizeFacts ==
    ASSUME BootInv, pc # "size"
    PROVE  size \in Nat \ {0} /\ TMP_BITMAP_SIZE <= size /\ BootPages \subseteq FramesOf(size)
<1>1. machine \in Machines /\ size = get_bitmap_size(machine.map)
  BY DEF BootInv, BootTypeInv
<1>2. size \in Nat /\ BootPages \subseteq FramesOf(size)
  BY <1>1, MachineAssumption, BitmapSizeIsNat
<1> QED BY <1>2, RealSize

LEMMA InitBootInv == KernelInit => BootInv
<1> SUFFICES ASSUME KernelInit PROVE BootInv
  OBVIOUS
<1> DEFINE spans == {p \div TableSpan : p \in BootPages}
<1>1. /\ machine \in Machines /\ pc = "size" /\ i = 1 /\ pages = <<>> /\ asked = BootPages
      /\ pmm = [bitmap |-> {}, last_idx |-> 0, last_idx_bit |-> BITMAP_BLOCK_SIZE - 1]
      /\ tables = [t \in spans |-> t + 1]
      /\ entries = {<<p \div TableSpan + 1, p>> : p \in BootPages}
  BY DEF KernelInit, Init
<1>2. BootTypeInv
  BY <1>1 DEF BootTypeInv, Late
<1>3. TablesIn(tables, 0 .. (FrameOf(TMP_BITMAP_FIRST_FRAME) - 1))
  <2> SUFFICES ASSUME NEW p \in BootPages
               PROVE  p \div TableSpan + 1 \in 0 .. (FrameOf(TMP_BITMAP_FIRST_FRAME) - 1)
    BY <1>1 DEF TablesIn
  <2> DEFINE q == p \div TableSpan
             f == FrameOf(TMP_BITMAP_FIRST_FRAME)
  <2>1. TableSpan \in Nat \ {0} /\ p \in Nat
    BY BootConstants DEF BootPages
  <2>2. q \in Nat
    BY <2>1, Z3
  <2>3. q + 1 < f /\ f \in Nat
    BY TmpBitmapAssumption, TmpSize
  <2> HIDE DEF q, f
  <2>4. q + 1 \in 0 .. (f - 1)
    BY <2>2, <2>3
  <2> QED BY <2>4 DEF q, f
<1>4. TablesInv
  <2>1. 0 .. (FrameOf(TMP_BITMAP_FIRST_FRAME) - 1) \subseteq BootPages
    BY TmpSize
  <2> QED BY <1>1, <1>3, <2>1 DEF TablesInv, TablesIn, Late
<1>5. AllocatorInv
  BY <1>1, TmpSize, BlockAssumption DEF AllocatorInv, Late, PmmReady
<1>6. MarksInv
  BY <1>1 DEF MarksInv, Late, PmmReady
<1>7. MappingsSurvive
  <2> SUFFICES ASSUME NEW p \in BootPages PROVE Mapped(p)
    BY <1>1 DEF MappingsSurvive
  <2>1. p \div TableSpan \in DOMAIN tables /\ tables[p \div TableSpan] = p \div TableSpan + 1
    BY <1>1
  <2>2. <<p \div TableSpan + 1, p>> \in entries
    BY <1>1
  <2> QED BY <2>1, <2>2 DEF Mapped
<1> QED BY <1>2, <1>4, <1>5, <1>6, <1>7 DEF BootInv

\* One turn of a loop over map_frame, with the temporary bitmap or with the real one.
LEMMA MapPageInv == ASSUME BootInv, MapPage PROVE BootInv'
<1> DEFINE n == IF pc = "map" THEN TMP_BITMAP_SIZE ELSE size
           page == Head(pages)
           r == map_frame([pmm |-> pmm, tables |-> tables, entries |-> entries], n, page)
<1>1. /\ pages # <<>> /\ pc \in {"map", "acpi", "pci", "waiting", "polling"}
      /\ ~PmmReady /\ ~PmmReady'
      /\ UNCHANGED <<machine, pc, i, size>>
  BY DEF MapPage, BootInv, BootTypeInv, PmmReady
<1>2. pmm' = r.pmm /\ tables' = r.tables /\ entries' = r.entries /\ asked' = asked \cup {page}
  BY DEF MapPage
<1>3. n \in Nat \ {0}
  BY <1>1, SizeFacts, TmpSize
<1>4. pmm \in PmmOver(n) /\ 0 \in pmm.bitmap /\ TablesIn(tables, pmm.bitmap)
  <2>1. CASE pc = "map"
    <3>1. /\ pmm.bitmap \in SUBSET BitmapFrames(n) /\ pmm.last_idx \in 0 .. (n - 1)
          /\ pmm.last_idx_bit \in 0 .. (BITMAP_BLOCK_SIZE - 1)
          /\ pmm = [bitmap |-> pmm.bitmap, last_idx |-> pmm.last_idx, last_idx_bit |-> pmm.last_idx_bit]
      BY <2>1 DEF BootInv, AllocatorInv, Late
    <3>2. pmm \in PmmOver(n)
      BY <3>1 DEF PmmOver
    <3> QED BY <2>1, <3>2 DEF BootInv, AllocatorInv, TablesInv
  <2>2. CASE pc # "map"
    BY <1>1, <2>2 DEF BootInv, AllocatorInv, TablesInv, Late
  <2> QED BY <2>1, <2>2
<1> HIDE DEF n
<1>5. /\ r.pmm \in PmmOver(n) /\ pmm.bitmap \subseteq r.pmm.bitmap
      /\ TablesIn(r.tables, r.pmm.bitmap)
      /\ \A t \in DOMAIN tables : t \in DOMAIN r.tables /\ r.tables[t] = tables[t]
      /\ entries \subseteq r.entries
      /\ page \div TableSpan \in DOMAIN r.tables
      /\ <<r.tables[page \div TableSpan], page>> \in r.entries
  BY <1>3, <1>4, MapFrame
<1> HIDE DEF r, page
<1>6. BootTypeInv'
  BY <1>1 DEF BootInv, BootTypeInv, PmmReady
<1>7. TablesInv'
  <2>1. ASSUME pc = "map" PROVE TablesIn(tables', BootPages)
    <3>1. r.pmm.bitmap \subseteq BootPages
      BY <1>5, <2>1, TmpSize DEF PmmOver, n
    <3> QED BY <1>2, <1>5, <3>1 DEF TablesIn
  <2>2. TablesIn(tables', pmm'.bitmap)
    BY <1>2, <1>5
  <2> QED BY <1>1, <2>1, <2>2 DEF TablesInv, Late
<1>8. AllocatorInv'
  <2>1. /\ pmm'.bitmap \subseteq BitmapFrames(n) /\ pmm'.last_idx \in 0 .. (n - 1)
        /\ pmm'.last_idx_bit \in 0 .. (BITMAP_BLOCK_SIZE - 1) /\ 0 \in pmm'.bitmap
        /\ pmm' = [bitmap |-> pmm'.bitmap, last_idx |-> pmm'.last_idx, last_idx_bit |-> pmm'.last_idx_bit]
    BY <1>2, <1>4, <1>5 DEF PmmOver
  <2>2. CASE pc = "map"
    BY <1>1, <2>1, <2>2 DEF AllocatorInv, Late, n
  <2>3. CASE pc # "map"
    BY <1>1, <1>2, <1>5, <2>1, <2>3 DEF AllocatorInv, Late, n
  <2> QED BY <2>2, <2>3
<1>9. MarksInv'
  <2>1. Reserving' = Reserving
    BY <1>1 DEF Reserving, KeptAreas, BitmapAddr
  <2>2. pmm.bitmap \subseteq pmm'.bitmap
    BY <1>2, <1>5
  <2> QED BY <1>1, <2>1, <2>2 DEF BootInv, MarksInv
<1>10. MappingsSurvive'
  <2>1. ASSUME NEW p \in asked PROVE Mapped(p)'
    BY <1>2, <1>5 DEF BootInv, MappingsSurvive, Mapped
  <2>2. ASSUME NEW p, p = page PROVE Mapped(p)'
    <3>1. p \div TableSpan \in DOMAIN tables' /\ <<tables'[p \div TableSpan], p>> \in entries'
      BY <1>2, <1>5, <2>2
    <3> QED BY <3>1 DEF Mapped
  <2> QED BY <1>2, <2>1, <2>2 DEF MappingsSurvive
<1> QED BY <1>6, <1>7, <1>8, <1>9, <1>10 DEF BootInv

LEMMA BitmapSizeInv == ASSUME BootInv, pages = <<>>, BitmapSize PROVE BootInv'
<1>1. /\ pc = "size" /\ pc' = "tmp" /\ size' = get_bitmap_size(machine.map)
      /\ UNCHANGED <<machine, i, pmm, tables, entries, pages, asked>>
  BY DEF BitmapSize
<1>2. BootTypeInv' /\ TablesInv'
  BY <1>1 DEF BootInv, BootTypeInv, TablesInv, Late
<1>3. AllocatorInv' /\ MarksInv'
  BY <1>1 DEF BootInv, AllocatorInv, MarksInv, Late, PmmReady
<1>4. MappingsSurvive'
  BY <1>1 DEF BootInv, MappingsSurvive, Mapped
<1> QED BY <1>2, <1>3, <1>4 DEF BootInv

\* The bootloader's tables are reserved in the temporary bitmap.
LEMMA MapBitmapInv == ASSUME BootInv, pages = <<>>, map_bitmap PROVE BootInv'
<1>1. /\ pc = "tmp" /\ pc' = "map" /\ UNCHANGED <<machine, i, size, tables, entries, asked>>
  BY DEF map_bitmap
<1>2. PICK junk : create_tmp_bitmap(junk)
  BY DEF map_bitmap
<1> DEFINE b == free_frames(reserve_frames(junk, 0, Pages(TMP_BITMAP_FIRST_FRAME)),
                            FrameOf(TMP_BITMAP_FIRST_FRAME), Pages(TMP_BITMAP_BASE - 1))
                \cap FramesOf(TMP_BITMAP_SIZE)
           f == FrameOf(TMP_BITMAP_FIRST_FRAME)
<1>3. pmm' = [bitmap |-> b, last_idx |-> pmm.last_idx, last_idx_bit |-> pmm.last_idx_bit]
  <2>1. pmm' = [pmm EXCEPT !.bitmap = b]
    BY <1>2 DEF create_tmp_bitmap
  <2>2. pmm = [bitmap |-> pmm.bitmap, last_idx |-> pmm.last_idx, last_idx_bit |-> pmm.last_idx_bit]
    BY DEF BootInv, AllocatorInv
  <2> HIDE DEF b
  <2> QED BY <2>1, <2>2
<1>4. 0 .. (f - 1) \subseteq b /\ b \subseteq BitmapFrames(TMP_BITMAP_SIZE)
  BY TmpBitmapReserves, BitmapFramesIsFramesOf
<1>5. f \in Nat \ {0}
  BY TmpSize
<1> HIDE DEF b, f
<1>6. TablesIn(tables, 0 .. (f - 1))
  BY <1>1 DEF BootInv, TablesInv, f
<1>7. BootTypeInv'
  BY <1>1 DEF BootInv, BootTypeInv, Late
<1>8. TablesInv'
  BY <1>1, <1>3, <1>4, <1>6 DEF BootInv, TablesInv, TablesIn, Late
<1>9. AllocatorInv'
  BY <1>1, <1>3, <1>4, <1>5 DEF BootInv, AllocatorInv, Late, PmmReady
<1>10. MarksInv' /\ MappingsSurvive'
  BY <1>1 DEF BootInv, MarksInv, MappingsSurvive, Mapped, Late, PmmReady
<1> QED BY <1>7, <1>8, <1>9, <1>10 DEF BootInv

LEMMA MapFacts ==
    ASSUME BootInv
    PROVE  Len(machine.map) \in Nat /\ DOMAIN machine.map = 1 .. Len(machine.map)
<1> DEFINE T == [base : Nat, len : Nat, usable : BOOLEAN]
<1>1. machine.map \in Seq(T)
  BY MachineAssumption DEF BootInv, BootTypeInv
<1> HIDE DEF T
<1> QED BY <1>1

\* The variables of the allocator when only the bitmap is written.
LEMMA PmmParts ==
    ASSUME BootInv, NEW b, pmm' = [pmm EXCEPT !.bitmap = b]
    PROVE  pmm' = [bitmap |-> b, last_idx |-> pmm.last_idx, last_idx_bit |-> pmm.last_idx_bit]
BY DEF BootInv, AllocatorInv

LEMMA UseBitmapInv == ASSUME BootInv, pages = <<>>, UseBitmap PROVE BootInv'
<1>1. /\ pc = "map" /\ pc' = "free" /\ i' = 1 /\ pmm' = [pmm EXCEPT !.bitmap = FramesOf(size)]
      /\ UNCHANGED <<machine, size, tables, entries, pages, asked>>
  BY DEF UseBitmap
<1>2. pmm' = [bitmap |-> FramesOf(size), last_idx |-> pmm.last_idx, last_idx_bit |-> pmm.last_idx_bit]
  BY <1>1, PmmParts
<1>3. BootTypeInv' /\ TablesInv' /\ MappingsSurvive'
  BY <1>1 DEF BootInv, BootTypeInv, TablesInv, MappingsSurvive, Mapped, Late
<1>4. AllocatorInv'
  BY <1>1, <1>2, BitmapFramesIsFramesOf DEF BootInv, AllocatorInv, Late, PmmReady
<1>5. MarksInv'
  <2>1. Len(machine.map) \in Nat
    BY MapFacts
  <2>2. Freed(i - 1)' = {}
    BY <1>1 DEF Freed
  <2> QED BY <1>1, <1>2, <2>1, <2>2 DEF MarksInv, Late, PmmReady
<1> QED BY <1>3, <1>4, <1>5 DEF BootInv

LEMMA EntryMarksOfAreas ==
    ASSUME NEW e PROVE UNION {AreaMarks(a) : a \in EntryAreas(e)} = EntryMarks(e)
<1>1. CASE e.usable
  <2>1. EntryAreas(e) = {<<e.base, e.len>>}
    BY <1>1 DEF EntryAreas
  <2>2. AreaMarks(<<e.base, e.len>>) = EntryMarks(e)
    BY <1>1 DEF AreaMarks, EntryMarks
  <2> QED BY <2>1, <2>2
<1>2. CASE ~e.usable
  BY <1>2 DEF EntryAreas, EntryMarks
<1> QED BY <1>1, <1>2

LEMMA FreeEntryInv == ASSUME BootInv, pages = <<>>, FreeEntry PROVE BootInv'
<1> DEFINE m == EntryMarks(machine.map[i])
<1>1. /\ pc = "free" /\ i \in Nat \ {0} /\ i <= Len(machine.map) /\ i' = i + 1
      /\ pmm' = [pmm EXCEPT !.bitmap = pmm.bitmap \ m]
      /\ UNCHANGED <<machine, pc, size, tables, entries, pages, asked>>
  <2>1. UNION {AreaMarks(a) : a \in EntryAreas(machine.map[i])} = m
    BY EntryMarksOfAreas
  <2> HIDE DEF m
  <2> QED BY <2>1 DEF FreeEntry, BootInv, BootTypeInv
<1>2. pmm' = [bitmap |-> pmm.bitmap \ m, last_idx |-> pmm.last_idx, last_idx_bit |-> pmm.last_idx_bit]
  BY <1>1, PmmParts
<1> HIDE DEF m
<1>3. BootTypeInv' /\ TablesInv' /\ MappingsSurvive'
  BY <1>1 DEF BootInv, BootTypeInv, TablesInv, MappingsSurvive, Mapped, Late
<1>4. AllocatorInv'
  BY <1>1, <1>2 DEF BootInv, AllocatorInv, Late, PmmReady
<1>5. MarksInv'
  <2>1. Len(machine.map) \in Nat
    BY MapFacts
  <2>2. 1 .. (i' - 1) = 1 .. (i - 1) \cup {i}
    BY <1>1
  <2>3. Freed(i - 1)' = Freed(i - 1) \cup m
    BY <1>1, <2>2 DEF Freed, m
  <2>4. pmm.bitmap = FramesOf(size) \ Freed(i - 1)
    BY <1>1 DEF BootInv, MarksInv
  <2>5. pmm'.bitmap = FramesOf(size') \ Freed(i - 1)'
    BY <1>1, <1>2, <2>3, <2>4
  <2> QED BY <1>1, <2>1, <2>5 DEF MarksInv, Late, PmmReady
<1> QED BY <1>3, <1>4, <1>5 DEF BootInv

\* A fault ends it all, with the tables where they were.
LEMMA FaultInv == ASSUME BootInv, pages = <<>>, Fault PROVE BootInv'
<1>1. /\ pc = "free" /\ pc' = "fault"
      /\ UNCHANGED <<machine, i, size, pmm, tables, entries, pages, asked>>
  BY DEF Fault
<1>2. BootTypeInv' /\ TablesInv' /\ MappingsSurvive'
  BY <1>1 DEF BootInv, BootTypeInv, TablesInv, MappingsSurvive, Mapped, Late
<1>3. AllocatorInv' /\ MarksInv'
  BY <1>1 DEF BootInv, AllocatorInv, MarksInv, Late, PmmReady
<1> QED BY <1>2, <1>3 DEF BootInv

\* The boot section is among what is reserved, and with it every table.
LEMMA ReserveAreasInv == ASSUME BootInv, pages = <<>>, ReserveAreas PROVE BootInv'
<1> DEFINE b == pmm.bitmap \cup (Reserving \cap FramesOf(size))
<1>1. /\ pc = "free" /\ i > Len(machine.map) /\ pc' = "acpi" /\ i' = 1
      /\ pmm' = [pmm EXCEPT !.bitmap = b]
      /\ UNCHANGED <<machine, size, tables, entries, pages, asked>>
  BY DEF ReserveAreas, Reserve, Reserving
<1>2. pmm' = [bitmap |-> b, last_idx |-> pmm.last_idx, last_idx_bit |-> pmm.last_idx_bit]
  BY <1>1, PmmParts
<1>3. size \in Nat \ {0} /\ TMP_BITMAP_SIZE <= size /\ BootPages \subseteq FramesOf(size)
  BY <1>1, SizeFacts
<1>4. BootPages \subseteq b
  <2>1. <<0, BOOT_SECTION_SIZE>> \in KeptAreas
    BY DEF KeptAreas
  <2>2. BootPages \subseteq Reserving
    BY <2>1, BootPagesAreMarked DEF Reserving
  <2> QED BY <1>3, <2>2
<1>5. b \subseteq BitmapFrames(size)
  BY <1>1, BitmapFramesIsFramesOf DEF BootInv, AllocatorInv
<1>6. BootTypeInv' /\ MappingsSurvive'
  BY <1>1 DEF BootInv, BootTypeInv, MappingsSurvive, Mapped, Late
<1>7. MarksInv'
  <2>1. Reserving' = Reserving /\ Freed(Len(machine.map))' = Freed(Len(machine.map))
    BY <1>1 DEF Reserving, KeptAreas, BitmapAddr, Freed
  <2>2. i - 1 = Len(machine.map)
    BY <1>1, MapFacts DEF BootInv, BootTypeInv, MarksInv
  <2>3. pmm.bitmap = FramesOf(size) \ Freed(Len(machine.map))
    BY <1>1, <2>2 DEF BootInv, MarksInv
  <2>4. pmm'.bitmap = (FramesOf(size) \ Freed(Len(machine.map))) \cup (Reserving \cap FramesOf(size))
    BY <1>2, <2>3
  <2> QED BY <1>1, <2>1, <2>4 DEF MarksInv, Late
<1> HIDE DEF b
<1>8. TablesInv'
  BY <1>1, <1>2, <1>4 DEF BootInv, TablesInv, TablesIn, Late
<1>9. AllocatorInv'
  <2>1. /\ pmm.last_idx \in 0 .. (TMP_BITMAP_SIZE - 1) /\ TMP_BITMAP_SIZE \in Nat
        /\ pmm.last_idx_bit \in 0 .. (BITMAP_BLOCK_SIZE - 1)
    BY <1>1, TmpSize DEF BootInv, AllocatorInv, Late
  <2>2. pmm.last_idx \in 0 .. (size - 1)
    BY <1>3, <2>1
  <2>3. pmm' \in PmmOver(size)
    BY <1>2, <1>5, <2>1, <2>2 DEF PmmOver
  <2>4. 0 \in pmm'.bitmap
    BY <1>2, <1>4, TmpSize
  <2> QED BY <1>1, <1>2, <2>1, <2>3, <2>4 DEF AllocatorInv, Late
<1> QED BY <1>6, <1>7, <1>8, <1>9 DEF BootInv

\* The steps after init_pmm that map nothing themselves.
LEMMA LateInv ==
    ASSUME BootInv, pages = <<>>, pc \in Late, pc' \in Late, i' \in Nat \ {0},
           UNCHANGED <<machine, size, pmm, tables, entries, asked>>,
           pages' # <<>> => pc' \in {"acpi", "pci", "waiting", "polling"},
           pc' = "acpi" => i' # 1
    PROVE  BootInv'
<1>1. Reserving' = Reserving
  BY DEF Reserving, KeptAreas, BitmapAddr
<1>2. BootTypeInv' /\ TablesInv' /\ MappingsSurvive'
  BY DEF BootInv, BootTypeInv, TablesInv, MappingsSurvive, Mapped, Late
<1>3. AllocatorInv' /\ MarksInv'
  BY <1>1 DEF BootInv, AllocatorInv, MarksInv, Late, PmmReady
<1> QED BY <1>2, <1>3 DEF BootInv

LEMMA SameBootInv == ASSUME BootInv, UNCHANGED bootvars PROVE BootInv'
<1>1. UNCHANGED <<machine, pc, i, size, pmm, tables, entries, pages, asked>>
  BY DEF bootvars
<1>2. Reserving' = Reserving /\ Freed(i - 1)' = Freed(i - 1)
      /\ Freed(Len(machine.map))' = Freed(Len(machine.map))
  BY <1>1 DEF Reserving, KeptAreas, BitmapAddr, Freed
<1>3. BootTypeInv' /\ TablesInv' /\ MappingsSurvive'
  BY <1>1 DEF BootInv, BootTypeInv, TablesInv, MappingsSurvive, Mapped
<1>4. AllocatorInv' /\ MarksInv'
  BY <1>1, <1>2 DEF BootInv, AllocatorInv, MarksInv, PmmReady
<1> QED BY <1>3, <1>4 DEF BootInv

LEMMA NextBootInv == BootInv /\ [Next]_vars => BootInv'
<1> SUFFICES ASSUME BootInv, [Next]_vars PROVE BootInv'
  OBVIOUS
<1>1. CASE BootStep
  <2>1. CASE pages = <<>> /\ MapTable
    BY <2>1, LateInv DEF MapTable, Late, BootInv, BootTypeInv
  <2>2. CASE pages = <<>> /\ MapApics
    BY <2>2, LateInv DEF MapApics, Late, BootInv, BootTypeInv
  <2> QED BY <1>1, <2>1, <2>2, MapPageInv, BitmapSizeInv, MapBitmapInv, UseBitmapInv, FreeEntryInv,
             ReserveAreasInv, FaultInv DEF BootStep
<1>2. ASSUME UNCHANGED bootvars PROVE BootInv'
  BY <1>2, SameBootInv
<1>3. CASE OpenAhci \/ OpenXhci
  <2>1. /\ pages = <<>> /\ pc = "pci" /\ pc' \in {"pci", "waiting", "polling"}
        /\ UNCHANGED <<machine, i, size, pmm, tables, entries, asked>>
    BY <1>3 DEF OpenAhci, OpenXhci, Open, Probing
  <2> QED BY <2>1, LateInv DEF Late, BootInv, BootTypeInv
<1>4. CASE Halt
  BY <1>4, LateInv DEF Halt, Late, BootInv, BootTypeInv
<1>5. BootStep \/ UNCHANGED bootvars \/ OpenAhci \/ OpenXhci \/ Halt
  BY DEF Next, Boots, Enumerates, SkipDevice, NoRegion, NextDriver, Stopped, vars
<1> QED BY <1>1, <1>2, <1>3, <1>4, <1>5

LEMMA BootInvariance == Spec => []BootInv
BY InitBootInv, NextBootInv, PTL DEF Spec
-----------------------------------------------------------------------------
(***************************************************************************)
(* No page table is taken for missing, with either bitmap: what was mapped *)
(* stays mapped, for every memory map and however few frames there are.    *)
(***************************************************************************)
THEOREM MappingsLast == Spec => []MappingsSurvive
<1>1. BootInv => MappingsSurvive
  BY DEF BootInv
<1> QED BY BootInvariance, <1>1, PTL

(***************************************************************************)
(* init_pmm leaves the allocator in a state that Pmm starts from, with the *)
(* hint of the temporary bitmap at a frame the real one has reserved.      *)
(***************************************************************************)
THEOREM PmmIsReady == Spec => []PmmStartsAsAssumed
<1>1. BootInv => PmmStartsAsAssumed
  <2> SUFFICES ASSUME BootInv, PmmReady
               PROVE  /\ 0 \in pmm.bitmap /\ pmm.bitmap \subseteq FramesOf(size)
                      /\ pmm.last_idx < size
                      /\ ScanFrom(pmm.last_idx, pmm.last_idx_bit) \in pmm.bitmap
    BY DEF PmmStartsAsAssumed
  <2>1. pc \in Late /\ pc # "size"
    BY DEF PmmReady, Late
  <2>2. size \in Nat \ {0} /\ BootPages \subseteq FramesOf(size)
    BY <2>1, SizeFacts
  <2>3. 0 \in pmm.bitmap /\ pmm.bitmap \subseteq FramesOf(size) /\ pmm.last_idx < size
    BY <2>1, <2>2, BitmapFramesIsFramesOf DEF BootInv, AllocatorInv, PmmOver
  <2>4. ScanFrom(pmm.last_idx, pmm.last_idx_bit) \in BootPages
    BY ScanFromInside, TmpSize DEF BootInv, AllocatorInv
  <2>5. BootPages \subseteq pmm.bitmap
    <3>1. <<0, BOOT_SECTION_SIZE>> \in KeptAreas
      BY DEF KeptAreas
    <3>2. BootPages \subseteq Reserving
      BY <3>1, BootPagesAreMarked DEF Reserving
    <3> QED BY <2>1, <2>2, <3>2 DEF BootInv, MarksInv
  <2> QED BY <2>3, <2>4, <2>5
<1> QED BY BootInvariance, <1>1, PTL

(***************************************************************************)
(* From init_pmm on, what it keeps is never given out, nor is the frame of *)
(* a page table, whichever bitmap it was taken from.                       *)
(***************************************************************************)
THEOREM KeptStaysReserved == Spec => []KeptIsReserved
<1>1. BootInv => KeptIsReserved
  <2> SUFFICES ASSUME BootInv, pc \in Late
               PROVE  /\ \A a \in KeptAreas :
                           \A f \in Touched(a[1], a[2]) \cap FramesOf(size) :
                              Exact(a[1], a[2]) \/ f \in BootPages => f \in pmm.bitmap
                      /\ Range(tables) \cap FramesOf(size) \subseteq pmm.bitmap
    BY DEF KeptIsReserved, Late
  <2>1. Reserving \cap FramesOf(size) \subseteq pmm.bitmap
    BY DEF BootInv, MarksInv
  <2>2. BootPages \subseteq Reserving
    <3>1. <<0, BOOT_SECTION_SIZE>> \in KeptAreas
      BY DEF KeptAreas
    <3> QED BY <3>1, BootPagesAreMarked DEF Reserving
  <2>3. ASSUME NEW a \in KeptAreas, Exact(a[1], a[2]) PROVE Touched(a[1], a[2]) \subseteq Reserving
    <3>1. a = <<a[1], a[2]>>
      BY DEF KeptAreas
    <3>2. AreaMarks(a) = Touched(a[1], a[2])
      BY <2>3, <3>1 DEF Exact
    <3> QED BY <3>2 DEF Reserving
  <2>4. Range(tables) \subseteq pmm.bitmap
    BY DEF BootInv, TablesInv, TablesIn, Range
  <2> QED BY <2>1, <2>2, <2>3, <2>4
<1> QED BY BootInvariance, <1>1, PTL

(***************************************************************************)
(* For every tidy memory map and areas that the masks cover, init_pmm      *)
(* leaves free exactly the usable frames that it did not reserve.          *)
(***************************************************************************)
THEOREM FreeIsUsable == Spec => []FreeIsExactlyUsable
<1>1. BootInv => FreeIsExactlyUsable
  <2> SUFFICES ASSUME BootInv, PmmReady, Tidy(machine.map),
                      \A a \in KeptAreas : Exact(a[1], a[2])
               PROVE  FramesOf(size) \ pmm.bitmap
                        = ((UNION {Touched(e.base, e.len) : e \in {e \in Range(machine.map) : e.usable}})
                            \cap FramesOf(size)) \ (UNION {Touched(a[1], a[2]) : a \in KeptAreas})
    BY Zenon DEF FreeIsExactlyUsable
  <2> DEFINE use  == UNION {Touched(e.base, e.len) : e \in {e \in Range(machine.map) : e.usable}}
             keep == UNION {Touched(a[1], a[2]) : a \in KeptAreas}
             n    == Len(machine.map)
  <2>1. Reserving = keep
    <3>1. ASSUME NEW a \in KeptAreas PROVE AreaMarks(a) = Touched(a[1], a[2])
      <4>1. a = <<a[1], a[2]>>
        BY DEF KeptAreas
      <4> QED BY <4>1 DEF Exact
    <3> QED BY <3>1 DEF Reserving
  <2>2. n \in Nat /\ DOMAIN machine.map = 1 .. n
    BY MapFacts
  <2>3. ASSUME NEW j \in 1 .. n, machine.map[j].usable
        PROVE  EntryMarks(machine.map[j]) = Touched(machine.map[j].base, machine.map[j].len)
    <3>1. machine.map[j] \in Range(machine.map)
      BY <2>2 DEF Range
    <3>2. Exact(machine.map[j].base, machine.map[j].len)
      BY <3>1 DEF Tidy
    <3> QED BY <2>3, <3>2 DEF Exact, AreaMarks, EntryMarks
  <2>4. Freed(n) = use
    <3>1. ASSUME NEW f \in Freed(n) PROVE f \in use
      <4>1. PICK j \in 1 .. n : f \in EntryMarks(machine.map[j])
        BY DEF Freed
      <4>2. machine.map[j].usable
        BY <4>1 DEF EntryMarks
      <4>3. machine.map[j] \in {e \in Range(machine.map) : e.usable}
        BY <2>2, <4>2 DEF Range
      <4>4. f \in Touched(machine.map[j].base, machine.map[j].len)
        BY <2>3, <4>1, <4>2
      <4> QED BY <4>3, <4>4
    <3>2. ASSUME NEW f \in use PROVE f \in Freed(n)
      <4>1. PICK e \in Range(machine.map) : e.usable /\ f \in Touched(e.base, e.len)
        OBVIOUS
      <4>2. PICK j \in 1 .. n : e = machine.map[j]
        BY <2>2 DEF Range
      <4>3. f \in EntryMarks(machine.map[j])
        BY <2>3, <4>1, <4>2
      <4> QED BY <4>3 DEF Freed
    <3> QED BY <3>1, <3>2
  <2>5. pmm.bitmap = (FramesOf(size) \ Freed(n)) \cup (Reserving \cap FramesOf(size))
    BY DEF BootInv, MarksInv
  <2> HIDE DEF use, keep, n
  <2>6. FramesOf(size) \ pmm.bitmap = (use \cap FramesOf(size)) \ keep
    BY <2>1, <2>4, <2>5
  <2> QED BY <2>6, Zenon DEF use, keep
<1> QED BY BootInvariance, <1>1, PTL
-----------------------------------------------------------------------------
(***************************************************************************)
(* Base address registers.                                                 *)
(***************************************************************************)
IsReg(reg) == reg \in [value : Nat, flags : Nat, span : Nat \ {0}] /\ Wired(reg)

LEMMA RemainderIsFlags ==
    ASSUME NEW a \in Nat, NEW n \in Nat \ {0}
    PROVE  /\ a % n \in 0 .. (n - 1)
           /\ \E c \in Nat : a = c * n + (a % n)
<1> DEFINE c == a \div n
           r == a % n
<1>1. r \in 0 .. (n - 1) /\ c \in Int /\ a = c * n + r
  BY Z3
<1> HIDE DEF c, r
<1>2. c < 0 => c * n <= -n
  BY <1>1, Z3
<1>3. c \in Nat
  BY <1>1, <1>2
<1> QED BY <1>1, <1>3 DEF r

LEMMA RemainderUnique ==
    ASSUME NEW n \in Nat \ {0}, NEW c \in Nat, NEW r \in 0 .. (n - 1)
    PROVE  (c * n + r) % n = r
<1> DEFINE a == c * n + r
           d == a \div n
           q == a % n
<1>1. a \in Nat
  BY Z3
<1>2. q \in 0 .. (n - 1) /\ d \in Int /\ a = d * n + q
  BY <1>1, Z3
<1> HIDE DEF d, q
<1>3. (d - c) * n = r - q
  BY <1>2, Z3
<1>4. d - c >= 1 => (d - c) * n >= n
  BY <1>2, Z3
<1>5. d - c <= -1 => (d - c) * n <= -n
  BY <1>2, Z3
<1>6. d = c
  BY <1>2, <1>3, <1>4, <1>5
<1>7. q = r
  BY <1>2, <1>3, <1>6, Z3
<1> QED BY <1>7 DEF q

\* Writing a register's own value back restores it, whatever was written before.
LEMMA WriteBack ==
    ASSUME NEW reg, IsReg(reg), NEW v
    PROVE  Stored(Stored(reg, v), reg.value) = reg
<1>1. /\ reg \in [value : Nat, flags : Nat, span : Nat \ {0}]
      /\ reg.value % reg.span = reg.flags
  BY DEF IsReg, Wired
<1>2. (reg.value - (reg.value % reg.span)) + reg.flags = reg.value
  BY <1>1
<1>3. Stored(Stored(reg, v), reg.value)
        = [reg EXCEPT !.value = (reg.value - (reg.value % reg.span)) + reg.flags]
  BY <1>1 DEF Stored
<1> QED BY <1>1, <1>2, <1>3

\* All ones leave the size mask.
LEMMA SizeMask ==
    ASSUME NEW reg, IsReg(reg)
    PROVE  Stored(reg, RegSize - 1).value = RegSize - reg.span + reg.flags
<1> DEFINE s == reg.span
           R == RegSize
<1>1. /\ s \in Nat \ {0} /\ R \in Nat \ {0} /\ R % s = 0
      /\ Stored(reg, R - 1).value = (R - 1) - ((R - 1) % s) + reg.flags
  BY PciAssumption DEF IsReg, Wired, Stored
<1>2. PICK c \in Nat : R = c * s
  <2>1. PICK c \in Nat : R = c * s + (R % s)
    BY <1>1, RemainderIsFlags
  <2>2. R = c * s
    BY <1>1, <2>1
  <2> QED BY <2>2
<1> HIDE DEF s, R
<1>3. c >= 1
  <2>1. c = 0 => c * s = 0
    BY <1>1
  <2> QED BY <1>1, <1>2, <2>1
<1>4. R - 1 = (c - 1) * s + (s - 1) /\ c - 1 \in Nat
  BY <1>1, <1>2, <1>3, Z3
<1>5. (R - 1) % s = s - 1
  BY <1>1, <1>4, RemainderUnique
<1>6. reg.flags \in Nat
  BY DEF IsReg
<1>7. (R - 1) - ((R - 1) % s) + reg.flags = R - s + reg.flags
  BY <1>1, <1>5, <1>6
<1> QED BY <1>1, <1>7 DEF s, R

LEMMA SizingRestores ==
    ASSUME NEW rs, rs = [r \in DOMAIN rs |-> rs[r]], \A r \in DOMAIN rs : IsReg(rs[r]), NEW r
    PROVE  /\ Sizing(rs, r).regs = rs
           /\ r \in DOMAIN rs => Sizing(rs, r).size = RegSize - rs[r].span + rs[r].flags
<1>1. CASE r \notin DOMAIN rs
  BY <1>1 DEF Sizing, pci_writed
<1>2. CASE r \in DOMAIN rs
  <2> DEFINE ones == [rs EXCEPT ![r] = Stored(rs[r], RegSize - 1)]
  <2>1. pci_writed(rs, r, RegSize - 1) = ones /\ pci_readd(rs, r) = rs[r].value
    BY <1>2 DEF pci_writed, pci_readd, Reg
  <2>2. DOMAIN ones = DOMAIN rs /\ ones[r] = Stored(rs[r], RegSize - 1)
    BY <1>2
  <2>3. pci_readd(ones, r) = RegSize - rs[r].span + rs[r].flags
    BY <1>2, <2>2, SizeMask DEF pci_readd, Reg
  <2>4. pci_writed(ones, r, rs[r].value) = [ones EXCEPT ![r] = Stored(ones[r], rs[r].value)]
    BY <1>2, <2>2 DEF pci_writed
  <2>5. Stored(ones[r], rs[r].value) = rs[r]
    BY <1>2, <2>2, WriteBack
  <2>6. [ones EXCEPT ![r] = rs[r]] = rs
    BY <1>2
  <2> HIDE DEF ones
  <2> QED BY <2>1, <2>3, <2>4, <2>5, <2>6 DEF Sizing
<1> QED BY <1>1, <1>2

LEMMA GetBarRestores ==
    ASSUME NEW rs, rs = [r \in DOMAIN rs |-> rs[r]], \A r \in DOMAIN rs : IsReg(rs[r]),
           NEW fn, NEW bar
    PROVE  get_bar(rs, fn, bar).regs = rs
<1> DEFINE low == pci_readd(rs, BarOf(fn, bar))
<1>1. Sizing(rs, BarOf(fn, bar)).regs = rs
  BY SizingRestores
<1>2. SizeHigh(low, rs, BarOf(fn, bar + 1)).regs = rs
  <2>1. Sizing(rs, BarOf(fn, bar + 1)).regs = rs
    BY SizingRestores
  <2> HIDE DEF low
  <2> QED BY <2>1 DEF SizeHigh
<1> QED BY <1>1, <1>2 DEF get_bar

LEMMA Multiple ==
    ASSUME NEW a \in Nat, NEW n \in Nat \ {0}, a % n = 0
    PROVE  \E c \in Nat : a = c * n
<1>1. PICK c \in Nat : a = c * n + (a % n)
  BY RemainderIsFlags
<1>2. a = c * n
  BY <1>1
<1> QED BY <1>2

\* The arithmetic of get_bar: low is the value of a register with flags f, R - s + f
\* its size mask, v this mask in 64 bits.
MaskOf(low, f, s, R, v, Q) ==
    /\ low \in Nat /\ f \in {0, 4, 8, 12} /\ s \in Nat \ {0} /\ R \in Nat \ {0}
    /\ s % 16 = 0 /\ R % 16 = 0 /\ R % s = 0 /\ low % s = f
    /\ v = (R - 1) * R + (R - s + f) /\ Q = R * R

Unmasked(low, f, s, v, Q) ==
    /\ low % 2 = 0 /\ (low \div 2) % 4 # 1 /\ low % 16 = f
    /\ v % 16 = f /\ v - f = Q - s /\ v \in Nat
    /\ (Q - (Q - s)) % Q = s

LEMMA BarArithmetic ==
    ASSUME NEW low, NEW f, NEW s, NEW R, NEW v, NEW Q, MaskOf(low, f, s, R, v, Q)
    PROVE  Unmasked(low, f, s, v, Q)
<1> USE DEF MaskOf
<1>1. PICK d \in Nat : s = d * 16
  BY Multiple
<1>2. PICK k \in Nat : R = k * 16
  BY Multiple
<1>3. PICK c \in Nat : low = c * s + f
  BY RemainderIsFlags
<1>4. PICK g \in Nat : R = g * s
  BY Multiple
<1> DEFINE b == c * d
           e == k * R
<1>5. low = b * 16 + f /\ b \in Nat
  <2>1. c * s = b * 16 /\ b \in Nat
    BY <1>1, Z3
  <2> QED BY <1>3, <2>1
<1>6. Q = e * 16 /\ e \in Nat
  BY <1>2, Z3
<1>7. Q \in Nat /\ Q >= 16 * R /\ v = Q - s + f
  <2>1. R >= 16
    BY <1>2
  <2> QED BY <2>1, Z3
<1>8. s <= R
  <2>1. g >= 1
    <3>1. g = 0 => g * s = 0
      OBVIOUS
    <3> QED BY <1>4, <3>1
  <2> QED BY <1>4, <2>1, Z3
<1> HIDE DEF b, e
<1>9. low % 2 = 0 /\ (low \div 2) % 4 # 1 /\ low % 16 = f
  BY <1>5, Z3
<1>10. v = (e - d) * 16 + f /\ e - d \in Nat
  BY <1>1, <1>6, <1>7, <1>8
<1>11. v % 16 = f /\ v - f = Q - s /\ v \in Nat
  BY <1>6, <1>7, <1>10, Z3
<1>12. (Q - (Q - s)) % Q = s
  <2>1. Q - (Q - s) = s /\ s < Q /\ Q \in Nat \ {0}
    BY <1>7, <1>8
  <2>2. s % Q = s
    BY <2>1, Z3
  <2> QED BY <2>1, <2>2
<1> QED BY <1>9, <1>11, <1>12, Zenon DEF Unmasked

\* What the masks of get_bar leave of a memory register of 32 bits, or of 64 with the
\* high half 0.
LEMMA BarDecodes ==
    ASSUME NEW rs, rs = [r \in DOMAIN rs |-> rs[r]], \A r \in DOMAIN rs : IsReg(rs[r]),
           NEW fn, NEW bar, BarOf(fn, bar) \in DOMAIN rs,
           NEW reg, reg = rs[BarOf(fn, bar)],
           reg.flags \in {0, 4, 8, 12}, reg.span % 16 = 0
    PROVE  /\ get_bar(rs, fn, bar).base = reg.value - reg.flags
           /\ get_bar(rs, fn, bar).size = reg.span
<1> DEFINE low == reg.value
           f == reg.flags
           s == reg.span
           R == RegSize
           v == (R - 1) * R + (R - s + f)
           Q == R * R
<1>1. /\ low \in Nat /\ f \in {0, 4, 8, 12} /\ s \in Nat \ {0} /\ R \in Nat \ {0}
      /\ s % 16 = 0 /\ R % 16 = 0 /\ R % s = 0 /\ low % s = f
  BY PciAssumption DEF IsReg, Wired
<1>2. /\ Sizing(rs, BarOf(fn, bar)).size = R - s + f /\ Sizing(rs, BarOf(fn, bar)).regs = rs
  BY SizingRestores
<1>3. pci_readd(rs, BarOf(fn, bar)) = low
  BY DEF pci_readd, Reg
<1> HIDE DEF low, f, s, R, v, Q
<1>4. Unmasked(low, f, s, v, Q)
  <2>1. v = (R - 1) * R + (R - s + f) /\ Q = R * R
    BY DEF v, Q
  <2>2. MaskOf(low, f, s, R, v, Q)
    BY <1>1, <2>1, Zenon DEF MaskOf
  <2> QED BY <2>2, BarArithmetic
<1>5. is_mmio(low) /\ ~is_64bits(low)
  BY <1>4 DEF is_mmio, is_64bits, Unmasked
<1>6. /\ get_bar(rs, fn, bar).base = Masked(low, 0 * R + low)
      /\ get_bar(rs, fn, bar).size = Negated(Masked(low, v))
  BY <1>2, <1>3, <1>5 DEF get_bar, SizeHigh, BaseHigh, R, v
<1>7. Masked(low, 0 * R + low) = low - f
  <2>1. 0 * R + low = low
    BY <1>1
  <2>2. Masked(low, low) = (low - (low % 16)) + 0
    BY <1>5 DEF Masked
  <2>3. Masked(low, low) = low - f
    BY <1>1, <1>4, <2>2 DEF Unmasked
  <2> QED BY <2>1, <2>3
<1>8. Masked(low, v) = Q - s
  <2>1. Masked(low, v) = (v - (v % 16)) + 0
    BY <1>5 DEF Masked
  <2>2. (v - (v % 16)) + 0 = v - f
    BY <1>1, <1>4 DEF Unmasked
  <2> QED BY <1>4, <2>1, <2>2 DEF Unmasked
<1>9. Negated(Q - s) = s
  BY <1>4 DEF Negated, Q, R, Unmasked
<1> QED BY <1>6, <1>7, <1>8, <1>9 DEF low, f, s

\* A register is named by its function and its number.
LEMMA FrontOfAppend ==
    ASSUME NEW S, NEW fn \in Seq(S), NEW bar \in S
    PROVE  SubSeq(Append(fn, bar), 1, Len(fn)) = fn
<1> DEFINE r == Append(fn, bar)
           p == SubSeq(r, 1, Len(fn))
<1>1. r \in Seq(S) /\ Len(r) = Len(fn) + 1 /\ \A k \in 1 .. Len(fn) : r[k] = fn[k]
  BY AppendProperties
<1> HIDE DEF r
<1>2. p \in Seq(S) /\ Len(p) = Len(fn) /\ \A k \in 1 .. Len(fn) : p[k] = r[k]
  BY <1>1
<1> HIDE DEF p
<1>3. p = fn
  BY <1>1, <1>2, SeqEqual
<1> QED BY <1>3 DEF p, r

LEMMA RegsAreWired ==
    ASSUME machine \in Machines
    PROVE  LET rs == machine.pci.bars
           IN  rs = [r \in DOMAIN rs |-> rs[r]] /\ \A r \in DOMAIN rs : IsReg(rs[r])
<1> DEFINE rs == machine.pci.bars
           T  == [value : Nat, flags : Nat, span : Nat \ {0}]
<1>1. rs \in [DOMAIN rs -> T] /\ \A r \in DOMAIN rs : Wired(rs[r])
  BY PciAssumption
<1> HIDE DEF rs
<1>2. rs = [r \in DOMAIN rs |-> rs[r]]
  BY <1>1
<1>3. \A r \in DOMAIN rs : IsReg(rs[r])
  BY <1>1 DEF IsReg
<1> QED BY <1>2, <1>3 DEF rs

\* A driver has opened only functions of config space, with the registers as they
\* were at the start.
FoundAt(o, fn, rs, bar) ==
    /\ o.reg = BarOf(fn, bar) /\ BarOf(fn, bar) \in DOMAIN rs
    /\ o.base = get_bar(rs, fn, bar).base /\ o.size = get_bar(rs, fn, bar).size

PciInv ==
    /\ regs = machine.pci.bars
    /\ pci_devs \in Seq(DOMAIN machine.pci.funcs)
    /\ \A o \in opened : \E fn \in DOMAIN machine.pci.funcs :
         FoundAt(o, fn, machine.pci.bars, BarFor(ClassOf(fn)))

LEMMA OpenPciInv ==
    ASSUME BootInv, PciInv, Probing, Head(drivers) = ClassOf(Device), dev \in Nat \ {0},
           Open(get_bar(regs, Device, BarFor(ClassOf(Device))))
    PROVE  PciInv'
<1>1. PICK fn \in DOMAIN machine.pci.funcs : fn = Device
  BY DEF PciInv, Probing, Device
<1> DEFINE bar == BarFor(ClassOf(fn))
           rs  == machine.pci.bars
           new == [reg |-> BarOf(fn, bar), base |-> get_bar(rs, fn, bar).base,
                   size |-> get_bar(rs, fn, bar).size]
<1>2. /\ ~Unusable(fn, bar) /\ regs' = get_bar(rs, fn, bar).regs /\ opened' = opened \cup {new}
      /\ UNCHANGED <<machine, pci_devs>>
  BY <1>1 DEF Open, PciInv
<1>3. BarOf(fn, bar) \in DOMAIN rs
  BY <1>2 DEF Unusable, is_bar_present, pci_readd, Reg, NoReg, PciInv
<1>4. get_bar(rs, fn, bar).regs = rs
  BY RegsAreWired, GetBarRestores DEF BootInv, BootTypeInv
<1>5. FoundAt(new, fn, rs, bar)
  BY <1>3 DEF FoundAt
<1> HIDE DEF new
<1>6. ASSUME NEW o \in opened'
      PROVE  \E g \in DOMAIN machine.pci.funcs :
               FoundAt(o, g, machine.pci.bars, BarFor(machine.pci.funcs[g].class))
  <2>1. CASE o = new
    BY <1>5, <2>1 DEF ClassOf
  <2>2. CASE o \in opened
    BY <2>2 DEF PciInv, ClassOf
  <2> QED BY <1>2, <2>1, <2>2
<1>7. regs' = machine'.pci.bars /\ pci_devs' \in Seq(DOMAIN machine'.pci.funcs)
  BY <1>2, <1>4 DEF PciInv
<1> QED BY <1>2, <1>6, <1>7 DEF PciInv, ClassOf

LEMMA NextPciInv == BootInv /\ PciInv /\ dev \in Nat \ {0} /\ [Next]_vars => PciInv'
<1> SUFFICES ASSUME BootInv, PciInv, dev \in Nat \ {0}, [Next]_vars PROVE PciInv'
  OBVIOUS
<1>1. CASE UNCHANGED <<machine, regs, pci_devs, opened>>
  BY <1>1 DEF PciInv, ClassOf
<1>2. CASE Enumerates /\ FoundDevice
  <2>1. /\ pci_devs' = Append(pci_devs, Here) /\ Here \in DOMAIN machine.pci.funcs
        /\ UNCHANGED <<machine, regs, opened>>
    BY <1>2 DEF Enumerates, FoundDevice, Present, bootvars, drivervars
  <2>2. pci_devs' \in Seq(DOMAIN machine.pci.funcs)
    BY <2>1 DEF PciInv
  <2> QED BY <2>1, <2>2 DEF PciInv, ClassOf
<1>3. CASE OpenAhci
  BY <1>3, OpenPciInv DEF OpenAhci, BarFor
<1>4. CASE OpenXhci
  BY <1>4, OpenPciInv DEF OpenXhci, BarFor
<1>5. CASE Boots
  <2>1. UNCHANGED machine
    BY <1>5 DEF Boots, BootStep, MapPage, BitmapSize, map_bitmap, UseBitmap, FreeEntry,
                ReserveAreas, Fault, MapTable, MapApics
  <2>2. UNCHANGED <<regs, pci_devs, opened>>
    BY <1>5 DEF Boots, configvars, drivervars
  <2> QED BY <1>1, <2>1, <2>2
<1>6. CASE Enumerates /\ ~FoundDevice
  BY <1>1, <1>6 DEF Enumerates, EnumerationStep, init_pci, NextHost, ReturnFromBus, NoFunction,
                    FoundBridge, bootvars, drivervars
<1>7. CASE SkipDevice \/ NoRegion \/ NextDriver \/ Halt \/ Stopped \/ UNCHANGED vars
  BY <1>1, <1>7 DEF SkipDevice, NoRegion, NextDriver, Halt, Stopped, bootvars, configvars,
                    drivervars, vars
<1> QED BY <1>2, <1>3, <1>4, <1>5, <1>6, <1>7 DEF Next

LEMMA NextDev == dev \in Nat \ {0} /\ [Next]_vars => dev' \in Nat \ {0}
<1> SUFFICES ASSUME dev \in Nat \ {0}, [Next]_vars PROVE dev' \in Nat \ {0}
  OBVIOUS
<1>1. dev' \in {dev, dev + 1, 1}
  BY DEF Next, Boots, Enumerates, SkipDevice, NoRegion, OpenAhci, OpenXhci, NextDriver, Halt,
         Stopped, drivervars, vars
<1> QED BY <1>1

(***************************************************************************)
(* For every size of registers and every configuration space wired as PCI  *)
(* has it, get_bar finds the memory region of a controller if it is below  *)
(* 4 GiB, though it never takes a register for one of 64 bits; and no      *)
(* register is left with the ones that were written to size it.            *)
(***************************************************************************)
THEOREM BarsAreDecoded == Spec => []BarIsDecoded
<1> DEFINE Inv == BootInv /\ PciInv /\ dev \in Nat \ {0}
<1>1. KernelInit => Inv
  BY InitBootInv DEF KernelInit, PciInit, PciInv
<1>2. Inv /\ [Next]_vars => Inv'
  BY NextBootInv, NextPciInv, NextDev
<1>3. Inv => BarIsDecoded
  <2> SUFFICES ASSUME BootInv, PciInv, NEW o \in opened,
                      is_mmio(machine.pci.bars[o.reg].flags),
                      machine.pci.at[SubSeq(o.reg, 1, 3)] < RegSize
               PROVE  /\ o.base = machine.pci.at[SubSeq(o.reg, 1, 3)]
                      /\ o.size = machine.pci.bars[o.reg].span
    BY DEF BarIsDecoded, PciInv
  <2>1. PICK fn \in DOMAIN machine.pci.funcs : FoundAt(o, fn, machine.pci.bars, BarFor(ClassOf(fn)))
    BY DEF PciInv
  <2> DEFINE bar == BarFor(ClassOf(fn))
             rs  == machine.pci.bars
             reg == rs[BarOf(fn, bar)]
  <2>2. machine \in Machines
    BY DEF BootInv, BootTypeInv
  <2>3. fn \in Nat \X Nat \X Nat
    <3>1. /\ fn \in Nat \X (0 .. (PCI_MAX_DEVS - 1)) \X (0 .. (PCI_MAX_FUNCS - 1))
          /\ PCI_MAX_DEVS \in Nat /\ PCI_MAX_FUNCS \in Nat
      BY <2>2, ConfigSpaceAssumption
    <3>2. PICK a \in Nat, b \in 0 .. (PCI_MAX_DEVS - 1), c \in 0 .. (PCI_MAX_FUNCS - 1) :
             fn = <<a, b, c>>
      BY <3>1
    <3>3. a \in Nat /\ b \in Nat /\ c \in Nat
      BY <3>1
    <3> QED BY <3>2, <3>3
  <2>4. SubSeq(o.reg, 1, 3) = fn
    <3>1. bar \in Nat /\ o.reg = BarOf(fn, bar)
      BY <2>1 DEF FoundAt, BarFor
    <3>2. fn \in Seq(Nat) /\ Len(fn) = 3
      <4>1. PICK a \in Nat, b \in Nat, c \in Nat : fn = <<a, b, c>>
        BY <2>3
      <4> QED BY <4>1
    <3> HIDE DEF bar
    <3>3. SubSeq(BarOf(fn, bar), 1, Len(fn)) = fn
      BY <3>1, <3>2, FrontOfAppend DEF BarOf
    <3> QED BY <3>1, <3>2, <3>3
  <2>5. reg.flags \in {0, 4, 8, 12} /\ reg.span % 16 = 0 /\ machine.pci.at[fn] = reg.value - reg.flags
    BY <2>1, <2>2, <2>4, PciAssumption DEF FoundAt, ClassOf
  <2>6. get_bar(rs, fn, bar).base = reg.value - reg.flags /\ get_bar(rs, fn, bar).size = reg.span
    BY <2>1, <2>2, <2>5, RegsAreWired, BarDecodes DEF FoundAt
  <2> QED BY <2>1, <2>4, <2>5, <2>6 DEF FoundAt
<1> QED BY <1>1, <1>2, <1>3, PTL DEF Spec
-----------------------------------------------------------------------------
(***************************************************************************)
(* ACPI tables.                                                            *)
(***************************************************************************)

\* The number of pages of map_sdt is that of a table at the start of a page; one that
\* begins later may reach one page further.
LEMMA SdtArithmetic ==
    ASSUME NEW addr \in Nat, NEW len \in Nat \ {0}
    PROVE  LET a == FrameOf(addr)
               l == FrameOf(len)
               e == FrameOf(addr + len - 1)
           IN  /\ a \in Nat /\ l \in Nat /\ e \in Nat /\ e <= a + l + 1
               /\ addr % FRAME_SIZE = 0 => e <= a + l
<1> DEFINE F == FRAME_SIZE
           a == FrameOf(addr)
           l == FrameOf(len)
           e == FrameOf(addr + len - 1)
<1>1. F \in Nat \ {0} /\ addr + len - 1 \in Nat
  BY BootConstants
<1>2. a \in Nat /\ a * F <= addr /\ addr < (a + 1) * F
  BY FrameDivision
<1>3. l \in Nat /\ l * F <= len /\ len < (l + 1) * F
  BY FrameDivision
<1>4. e \in Nat /\ e * F <= addr + len - 1
  BY <1>1, FrameDivision
<1>5. addr % F = 0 => addr = a * F
  BY <1>1, Z3 DEF FrameOf
<1> HIDE DEF a, l, e, F
<1>6. /\ a * F \in Int /\ l * F \in Int /\ e * F \in Int /\ (a + l) * F = a * F + l * F
      /\ (a + 1) * F = a * F + F /\ (l + 1) * F = l * F + F
      /\ (a + l + 1) * F = a * F + l * F + F /\ (a + l + 2) * F = a * F + l * F + F + F
  BY <1>1, <1>2, <1>3, <1>4, Z3
<1>7. /\ e >= a + l + 2 => e * F >= (a + l + 2) * F
      /\ e >= a + l + 1 => e * F >= (a + l + 1) * F
  BY <1>1, <1>2, <1>3, <1>4, Z3
<1>8. e <= a + l + 1
  BY <1>1, <1>2, <1>3, <1>4, <1>6, <1>7
<1>9. addr % F = 0 => e <= a + l
  BY <1>1, <1>2, <1>3, <1>4, <1>5, <1>6, <1>7
<1> QED BY <1>2, <1>3, <1>4, <1>8, <1>9 DEF a, l, e, F

\* What map_sdt has asked for, or still will.
PagesOfSdt(t) == FrameOf(t.addr) .. (FrameOf(t.addr) + FrameOf(t.len))

SdtInv ==
    /\ pc = "acpi" => /\ pages \in Seq(Nat)
                      /\ \A k \in DOMAIN machine.sdts :
                           k < i => PagesOfSdt(machine.sdts[k]) \subseteq asked \cup Range(pages)
    /\ pc = "pci"  => \A k \in DOMAIN machine.sdts : PagesOfSdt(machine.sdts[k]) \subseteq asked

Sdt == [addr : Nat, len : Nat, signature : STRING]

LEMMA SdtFacts == ASSUME BootInv PROVE machine.sdts \in Seq(Sdt)
BY MachineAssumption DEF BootInv, BootTypeInv, Sdt

\* The pages of a loop over map_frame.
LEMMA PageRun ==
    ASSUME NEW a \in Nat, NEW l \in Nat, NEW s, s = [k \in 1 .. (l + 1) |-> a + k - 1]
    PROVE  s \in Seq(Nat) /\ Range(s) = a .. (a + l)
<1>1. s \in Seq(Nat)
  OBVIOUS
<1>2. Range(s) = a .. (a + l)
  <2>1. ASSUME NEW p \in a .. (a + l) PROVE \E k \in 1 .. (l + 1) : p = a + k - 1
    <3>1. p - a + 1 \in 1 .. (l + 1) /\ p = a + (p - a + 1) - 1
      OBVIOUS
    <3> QED BY <3>1
  <2>2. a .. (a + l) \subseteq Range(s)
    <3> SUFFICES ASSUME NEW p \in a .. (a + l) PROVE p \in Range(s)
      OBVIOUS
    <3>1. PICK k \in 1 .. (l + 1) : p = a + k - 1
      BY <2>1
    <3>2. k \in DOMAIN s /\ s[k] = p
      BY <3>1
    <3> QED BY <3>2 DEF Range
  <2>3. ASSUME NEW k \in DOMAIN s PROVE s[k] \in a .. (a + l)
    OBVIOUS
  <2> QED BY <2>2, <2>3 DEF Range
<1> QED BY <1>1, <1>2

LEMMA SdtPagesRange ==
    ASSUME NEW t \in Sdt
    PROVE  SdtPages(t) \in Seq(Nat) /\ Range(SdtPages(t)) = PagesOfSdt(t)
<1> DEFINE a == FrameOf(t.addr)
           l == FrameOf(t.len)
<1>1. a \in Nat /\ l \in Nat
  BY FrameDivision DEF Sdt
<1>2. SdtPages(t) = [k \in 1 .. (l + 1) |-> a + k - 1] /\ PagesOfSdt(t) = a .. (a + l)
  BY DEF SdtPages, PagesOfSdt, FrameOf
<1> HIDE DEF a, l
<1> QED BY <1>1, <1>2, PageRun

LEMMA RangeOfTail ==
    ASSUME NEW s \in Seq(Nat), s # <<>>
    PROVE  Tail(s) \in Seq(Nat) /\ Range(s) \subseteq {Head(s)} \cup Range(Tail(s))
<1>1. ASSUME NEW j \in 1 .. Len(s), j # 1 PROVE s[j] \in Range(Tail(s))
  <2>1. j - 1 \in DOMAIN Tail(s) /\ Tail(s)[j - 1] = s[j]
    BY <1>1
  <2> QED BY <2>1 DEF Range
<1> QED BY <1>1 DEF Range

LEMMA EmptyRange == Range(<<>>) = {}
BY DEF Range

LEMMA MapPageSdtInv == ASSUME SdtInv, MapPage PROVE SdtInv'
<1>1. /\ pages # <<>> /\ pages' = Tail(pages) /\ asked' = asked \cup {Head(pages)}
      /\ UNCHANGED <<machine, pc, i>>
  BY DEF MapPage
<1>2. CASE pc = "acpi"
  <2>1. pages \in Seq(Nat)
    BY <1>2 DEF SdtInv
  <2>2. Tail(pages) \in Seq(Nat) /\ Range(pages) \subseteq {Head(pages)} \cup Range(Tail(pages))
    BY <1>1, <2>1, RangeOfTail
  <2>3. asked \cup Range(pages) \subseteq asked' \cup Range(pages')
    BY <1>1, <2>2
  <2> QED BY <1>1, <1>2, <2>2, <2>3 DEF SdtInv
<1>3. CASE pc # "acpi"
  BY <1>1, <1>3 DEF SdtInv
<1> QED BY <1>2, <1>3

LEMMA MapTableSdtInv == ASSUME BootInv, SdtInv, pages = <<>>, MapTable PROVE SdtInv'
<1>1. /\ pc = "acpi" /\ i <= Len(machine.sdts) /\ i \in Nat \ {0} /\ i' = i + 1
      /\ pages' = SdtPages(machine.sdts[i]) /\ UNCHANGED <<machine, pc, asked>>
  BY DEF MapTable, BootInv, BootTypeInv
<1>2. machine.sdts \in Seq(Sdt)
  BY SdtFacts
<1>3. machine.sdts[i] \in Sdt
  BY <1>1, <1>2
<1>4. pages' \in Seq(Nat) /\ Range(pages') = PagesOfSdt(machine.sdts[i])
  BY <1>1, <1>3, SdtPagesRange
<1>5. ASSUME NEW k \in DOMAIN machine.sdts, k < i + 1
      PROVE  PagesOfSdt(machine.sdts[k]) \subseteq asked \cup Range(pages')
  <2>1. k \in Nat
    BY <1>2, <1>5
  <2>2. CASE k < i
    BY <1>1, <2>2, EmptyRange DEF SdtInv
  <2>3. CASE k = i
    BY <1>4, <2>3
  <2> QED BY <1>1, <1>5, <2>1, <2>2, <2>3
<1> QED BY <1>1, <1>4, <1>5 DEF SdtInv

LEMMA NextSdtInv == BootInv /\ SdtInv /\ [Next]_vars => SdtInv'
<1> SUFFICES ASSUME BootInv, SdtInv, [Next]_vars PROVE SdtInv'
  OBVIOUS
<1>1. CASE UNCHANGED <<machine, pc, i, pages, asked>>
  BY <1>1 DEF SdtInv
<1>2. CASE pages = <<>> /\ MapApics
  <2>1. /\ pc = "acpi" /\ pc' = "pci" /\ i > Len(machine.sdts) /\ i \in Nat
        /\ UNCHANGED <<machine, asked>>
    BY <1>2 DEF MapApics, BootInv, BootTypeInv
  <2>2. ASSUME NEW k \in DOMAIN machine.sdts PROVE k < i
    BY <2>1, SdtFacts
  <2> QED BY <1>2, <2>1, <2>2, EmptyRange DEF SdtInv
<1>3. CASE pages = <<>> /\ ReserveAreas
  <2>1. pc' = "acpi" /\ i' = 1 /\ pages' = <<>> /\ UNCHANGED machine
    BY <1>3 DEF ReserveAreas
  <2>2. ASSUME NEW k \in DOMAIN machine.sdts PROVE ~(k < 1)
    BY SdtFacts
  <2> QED BY <2>1, <2>2 DEF SdtInv
<1>4. CASE pages = <<>> /\ (BitmapSize \/ map_bitmap \/ UseBitmap \/ FreeEntry \/ Fault)
  BY <1>4 DEF BitmapSize, map_bitmap, UseBitmap, FreeEntry, Fault, SdtInv
<1>5. CASE BootStep
  BY <1>2, <1>3, <1>4, <1>5, MapPageSdtInv, MapTableSdtInv DEF BootStep
<1>6. CASE OpenAhci \/ OpenXhci \/ Halt
  <2>1. pc = "pci" /\ pc' \in {"pci", "waiting", "polling", "hlt"} /\ UNCHANGED <<machine, asked>>
    BY <1>6 DEF OpenAhci, OpenXhci, Open, Probing, Halt
  <2> QED BY <2>1 DEF SdtInv
<1>7. BootStep \/ UNCHANGED bootvars \/ OpenAhci \/ OpenXhci \/ Halt
  BY DEF Next, Boots, Enumerates, SkipDevice, NoRegion, NextDriver, Stopped, vars
<1> QED BY <1>1, <1>5, <1>6, <1>7 DEF bootvars

(***************************************************************************)
(* For every list of ACPI tables, wherever they are and however long: what *)
(* init_acpi has mapped lacks at most the last page of a table that does   *)
(* not begin at a page, and later mappings take nothing away.              *)
(***************************************************************************)
THEOREM SdtsAreReadable == Spec => []SdtIsReadable
<1>1. KernelInit => SdtInv
  BY DEF KernelInit, Init, SdtInv
<1>2. BootInv /\ SdtInv => SdtIsReadable
  <2> SUFFICES ASSUME BootInv, SdtInv, NEW k \in DOMAIN machine.sdts, pages = <<>>,
                      pc = "pci" \/ (pc = "acpi" /\ k < i),
                      NEW p \in Touched(machine.sdts[k].addr, machine.sdts[k].len), ~Mapped(p)
               PROVE  /\ machine.sdts[k].addr % FRAME_SIZE # 0
                      /\ p = FrameOf(machine.sdts[k].addr + machine.sdts[k].len - 1)
    BY DEF SdtIsReadable
  <2> DEFINE t == machine.sdts[k]
             a == FrameOf(t.addr)
             l == FrameOf(t.len)
             e == FrameOf(t.addr + t.len - 1)
  <2>1. t.addr \in Nat /\ t.len \in Nat
    <3>1. t \in Sdt
      BY SdtFacts
    <3> QED BY <3>1 DEF Sdt
  <2>2. t.len # 0 /\ p \in a .. e
    BY DEF Touched
  <2>3. PagesOfSdt(t) \subseteq asked
    BY EmptyRange DEF SdtInv
  <2>4. p \notin a .. (a + l)
    BY <2>3 DEF BootInv, MappingsSurvive, PagesOfSdt
  <2>5. /\ a \in Nat /\ l \in Nat /\ e \in Nat /\ e <= a + l + 1
        /\ t.addr % FRAME_SIZE = 0 => e <= a + l
    BY <2>1, <2>2, SdtArithmetic
  <2> HIDE DEF a, l, e
  <2>6. p > a + l /\ p = e /\ t.addr % FRAME_SIZE # 0
    BY <2>2, <2>4, <2>5
  <2> QED BY <2>6 DEF e
<1> QED BY BootInvariance, NextSdtInv, <1>1, <1>2, PTL DEF Spec
-----------------------------------------------------------------------------
(***************************************************************************)
(* What init_pmm touches behind the bitmap.                                *)
(***************************************************************************)
LEMMA FrameUnique ==
    ASSUME NEW n \in Nat, NEW q \in Nat, q * FRAME_SIZE <= n, n < (q + 1) * FRAME_SIZE
    PROVE  FrameOf(n) = q
<1> DEFINE F == FRAME_SIZE
           a == FrameOf(n)
<1>1. F \in Nat \ {0}
  BY BootConstants
<1>2. a \in Nat /\ a * F <= n /\ n < (a + 1) * F
  BY FrameDivision
<1> HIDE DEF a, F
<1>3. /\ a >= q + 1 => a * F >= (q + 1) * F
      /\ q >= a + 1 => q * F >= (a + 1) * F
      /\ a * F \in Int /\ q * F \in Int /\ (a + 1) * F \in Int /\ (q + 1) * F \in Int
  BY <1>1, <1>2, Z3
<1>4. q * F <= n /\ n < (q + 1) * F
  BY DEF F
<1>5. a = q
  BY <1>2, <1>3, <1>4
<1> QED BY <1>5 DEF a

\* Byte n behind the start of a page.
LEMMA PageOfByte ==
    ASSUME NEW g \in Nat, NEW n \in Nat
    PROVE  FrameOf(g * FRAME_SIZE + n) = g + FrameOf(n) /\ FrameOf(n) \in Nat
<1> DEFINE F == FRAME_SIZE
           l == FrameOf(n)
           x == g * F + n
<1>1. F \in Nat \ {0}
  BY BootConstants
<1>2. l \in Nat /\ l * F <= n /\ n < (l + 1) * F
  BY FrameDivision
<1> HIDE DEF l
<1>3. (g + l) * F = g * F + l * F /\ (g + l + 1) * F = g * F + (l + 1) * F
      /\ g * F \in Nat /\ l * F \in Nat /\ (l + 1) * F \in Nat
  BY <1>1, <1>2, Z3
<1>4. x \in Nat /\ (g + l) * F <= x /\ x < (g + l + 1) * F
  BY <1>2, <1>3
<1> HIDE DEF x
<1>5. FrameOf(x) = g + l
  BY <1>2, <1>4, FrameUnique
<1> QED BY <1>2, <1>5 DEF x, l

\* The next byte is on the same page, unless it begins one.
LEMMA NextByte ==
    ASSUME NEW n \in Nat, (n + 1) % FRAME_SIZE # 0
    PROVE  FrameOf(n + 1) = FrameOf(n)
<1> DEFINE F == FRAME_SIZE
           q == FrameOf(n)
           a == FrameOf(n + 1)
           m == (n + 1) % F
<1>1. F \in Nat \ {0}
  BY BootConstants
<1>2. n + 1 \in Nat /\ m \in Nat /\ n + 1 = a * F + m /\ a \in Nat
  BY <1>1, Z3 DEF FrameOf
<1>3. q \in Nat /\ q * F <= n /\ n < (q + 1) * F
  BY FrameDivision
<1> HIDE DEF a, q, m, F
<1>4. q * F \in Int /\ (q + 1) * F \in Int /\ (q + 2) * F = (q + 1) * F + F /\ a * F \in Int
  BY <1>1, <1>2, <1>3, Z3
<1>5. CASE n + 1 = (q + 1) * F
  <2>1. n + 1 < (q + 2) * F /\ (q + 1) * F <= n + 1
    BY <1>1, <1>2, <1>4, <1>5
  <2>2. a = q + 1
    <3>1. q + 1 \in Nat /\ (q + 1) + 1 = q + 2
      BY <1>3
    <3> QED BY <1>2, <2>1, <3>1, FrameUnique DEF a, F
  <2>3. a * F = n + 1
    BY <1>5, <2>2
  <2>4. m = 0
    BY <1>2, <1>4, <2>3
  <2> QED BY <2>4 DEF m, F
<1>6. CASE n + 1 # (q + 1) * F
  <2>1. q * F <= n + 1 /\ n + 1 < (q + 1) * F
    BY <1>2, <1>3, <1>4, <1>6
  <2> QED BY <1>2, <1>3, <2>1, FrameUnique DEF q, F
<1> QED BY <1>5, <1>6

LEMMA FrameMono ==
    ASSUME NEW m \in Nat, NEW n \in Nat, m <= n
    PROVE  FrameOf(m) <= FrameOf(n) /\ FrameOf(m) \in Nat /\ FrameOf(n) \in Nat
<1> DEFINE F == FRAME_SIZE
           a == FrameOf(m)
           c == FrameOf(n)
<1>1. F \in Nat \ {0}
  BY BootConstants
<1>2. a \in Nat /\ a * F <= m /\ c \in Nat /\ n < (c + 1) * F
  BY FrameDivision
<1> HIDE DEF a, c, F
<1>3. (a >= c + 1 => a * F >= (c + 1) * F) /\ a * F \in Int /\ (c + 1) * F \in Int
  BY <1>1, <1>2, Z3
<1> QED BY <1>2, <1>3 DEF a, c

\* An area that ends in memory has its frames there.
LEMMA FramesInMemory ==
    ASSUME NEW addr \in Nat, NEW len \in Nat, NEW n \in Nat, addr + len <= n * FRAME_SIZE
    PROVE  FrameOf(addr) \in Nat /\ Pages(len) \in Nat /\ FrameOf(addr) + Pages(len) <= n
<1> DEFINE F == FRAME_SIZE
           a == FrameOf(addr)
           l == FrameOf(len - 1)
<1>1. F \in Nat \ {0}
  BY BootConstants
<1>2. a \in Nat /\ a * F <= addr
  BY FrameDivision
<1>3. addr + len <= n * F
  OBVIOUS
<1>4. CASE len = 0
  <2>1. Pages(len) = 0
    BY <1>4 DEF Pages
  <2> HIDE DEF a, F
  <2>2. (a >= n + 1 => a * F >= (n + 1) * F) /\ (n + 1) * F = n * F + F
        /\ a * F \in Int /\ n * F \in Int
    BY <1>1, <1>2, Z3
  <2> QED BY <1>1, <1>2, <1>3, <1>4, <2>1, <2>2 DEF a
<1>5. CASE len # 0
  <2>1. Pages(len) = l + 1
    BY <1>5 DEF Pages, FrameOf
  <2>2. len - 1 \in Nat
    BY <1>5
  <2>3. l \in Nat /\ l * F <= len - 1
    BY <2>2, FrameDivision
  <2> HIDE DEF a, l, F
  <2>4. (a + l >= n => (a + l) * F >= n * F) /\ (a + l) * F = a * F + l * F
        /\ a * F \in Int /\ l * F \in Int /\ n * F \in Int
    BY <1>1, <1>2, <2>3, Z3
  <2> QED BY <1>2, <1>3, <2>1, <2>2, <2>3, <2>4 DEF a
<1> QED BY <1>4, <1>5

\* The size of the bitmap of so many whole frames.
LEMMA SizeOfFrames ==
    ASSUME NEW n \in Nat
    PROVE  /\ FrameOf(n * FRAME_SIZE) = n
           /\ (n * FRAME_SIZE) \div (FRAME_SIZE * BITMAP_BLOCK_SIZE) = n \div BITMAP_BLOCK_SIZE
<1> DEFINE F == FRAME_SIZE
           B == BITMAP_BLOCK_SIZE
           D == F * B
           L == n * F
           q == n \div B
           a == L \div D
<1>1. F \in Nat \ {0} /\ B \in Nat \ {0}
  BY BootConstants, BlockAssumption
<1>2. D \in Nat \ {0} /\ L \in Nat /\ L < (n + 1) * F
  BY <1>1, Z3
<1>3. FrameOf(L) = n
  <2>1. n * F <= L
    BY <1>2
  <2> HIDE DEF L
  <2> QED BY <1>2, <2>1, FrameUnique DEF F
<1>4. q \in Nat /\ n % B \in 0 .. (B - 1) /\ n = q * B + (n % B)
  BY DivMod
<1>5. a \in Nat /\ a * D <= L /\ L < (a + 1) * D
  <2> HIDE DEF D, L
  <2> QED BY <1>2, Z3
<1>6. q * B <= n /\ n < (q + 1) * B
  <2> HIDE DEF q
  <2>1. (q + 1) * B = q * B + B /\ q * B \in Int
    BY <1>1, <1>4, Z3
  <2> QED BY <1>1, <1>4, <2>1
<1> HIDE DEF q, a
<1>7. q * D <= L /\ L < (q + 1) * D
  <2>1. q * D = (q * B) * F /\ (q + 1) * D = ((q + 1) * B) * F
    BY <1>1, <1>4, Z3
  <2> DEFINE u == q * B
             v == (q + 1) * B
  <2>2. u \in Nat /\ v \in Nat
    BY <1>1, <1>4, Z3
  <2> HIDE DEF u, v
  <2>3. u * F <= n * F /\ n * F < v * F
    <3>1. u <= n /\ n < v
      BY <1>6 DEF u, v
    <3> QED BY <1>1, <2>2, <3>1, Z3
  <2> QED BY <2>1, <2>3 DEF u, v
<1> HIDE DEF D, L
<1>8. /\ a >= q + 1 => a * D >= (q + 1) * D
      /\ q >= a + 1 => q * D >= (a + 1) * D
      /\ a * D \in Int /\ q * D \in Int /\ (a + 1) * D \in Int /\ (q + 1) * D \in Int
  BY <1>2, <1>4, <1>5, Z3
<1>9. a = q
  BY <1>2, <1>4, <1>5, <1>7, <1>8
<1> QED BY <1>3, <1>9 DEF a, q, D, L

\* The pages map_bitmap maps, and all that init_pmm marks.
BitmapRange == FrameOf(BitmapAddr) .. (FrameOf(BitmapAddr) + FrameOf(size))
AllAreas    == (UNION {EntryAreas(machine.map[j]) : j \in 1 .. Len(machine.map)}) \cup KeptAreas

StrayInv ==
    /\ pc \in {"size", "tmp", "map"} => strays = {}
    /\ pc = "map" => pages \in Seq(Nat) /\ BitmapRange \subseteq asked \cup Range(pages)
    /\ pc \in {"free", "fault"} \cup Late =>
         /\ BitmapRange \subseteq asked
         /\ strays \subseteq Behind(AllAreas)
    /\ pc = "fault" => \E b \in strays : ~Mapped(PageOf(b))

LEMMA BitmapAddrIsAligned ==
    ASSUME BootInv
    PROVE  /\ BitmapAddr \in Nat /\ FrameOf(BitmapAddr) \in Nat
           /\ BitmapAddr = FrameOf(BitmapAddr) * FRAME_SIZE
<1> DEFINE F == FRAME_SIZE
           a == machine.kernel.addr
           n == machine.kernel.size + F - 1
           g == FrameOf(a)
           h == FrameOf(n)
<1>1. F \in Nat \ {0}
  BY BootConstants
<1>2. a \in Nat /\ a % F = 0 /\ machine.kernel.size \in Nat
  BY MachineAssumption DEF BootInv, BootTypeInv
<1>3. n \in Nat
  BY <1>1, <1>2
<1>4. h \in Nat
  BY <1>3, FrameDivision
<1>5. g \in Nat
  BY <1>2, FrameDivision
<1>6. a = g * F
  BY <1>1, <1>2, Z3 DEF FrameOf
<1>7. BitmapAddr = a + h * F
  BY DEF BitmapAddr, FrameOf
<1> HIDE DEF a, g, h, n, F
<1>8. BitmapAddr = (g + h) * F /\ BitmapAddr \in Nat
  BY <1>1, <1>4, <1>5, <1>6, <1>7, Z3
<1>9. (g + h) * F < (g + h + 1) * F
  BY <1>1, <1>4, <1>5, Z3
<1>10. (g + h) * F <= (g + h) * F
  BY <1>8
<1>11. FrameOf(BitmapAddr) = g + h
  BY <1>4, <1>5, <1>8, <1>9, <1>10, FrameUnique DEF F
<1> QED BY <1>4, <1>5, <1>8, <1>11 DEF F

LEMMA InitStrayInv == KernelInit => StrayInv
BY DEF KernelInit, Init, StrayInv, Late

LEMMA SameAreas ==
    ASSUME UNCHANGED <<machine, size>>
    PROVE  BitmapRange' = BitmapRange /\ Behind(AllAreas)' = Behind(AllAreas)
BY DEF BitmapRange, BitmapAddr, AllAreas, EntryAreas, KeptAreas, Behind

LEMMA MapPageStrayInv == ASSUME BootInv, StrayInv, MapPage PROVE StrayInv'
<1>1. /\ pages # <<>> /\ pages' = Tail(pages) /\ asked' = asked \cup {Head(pages)}
      /\ UNCHANGED <<machine, pc, size, strays>>
  BY DEF MapPage
<1>2. BitmapRange' = BitmapRange /\ Behind(AllAreas)' = Behind(AllAreas)
  BY <1>1, SameAreas
<1>3. CASE pc = "map"
  <2>1. pages \in Seq(Nat) /\ BitmapRange \subseteq asked \cup Range(pages) /\ strays = {}
    BY <1>3 DEF StrayInv
  <2>2. Tail(pages) \in Seq(Nat) /\ Range(pages) \subseteq {Head(pages)} \cup Range(Tail(pages))
    BY <1>1, <2>1, RangeOfTail
  <2>3. BitmapRange \subseteq asked' \cup Range(pages')
    BY <1>1, <2>1, <2>2
  <2> QED BY <1>1, <1>2, <1>3, <2>1, <2>2, <2>3 DEF StrayInv, Late
<1>4. CASE pc # "map"
  <2>1. pc # "fault"
    BY <1>1 DEF BootInv, BootTypeInv
  <2> QED BY <1>1, <1>2, <1>4, <2>1 DEF StrayInv
<1> QED BY <1>3, <1>4

LEMMA BitmapPagesAre ==
    ASSUME BootInv, pc # "size"
    PROVE  BitmapPages \in Seq(Nat) /\ Range(BitmapPages) = BitmapRange
<1> DEFINE a == FrameOf(BitmapAddr)
           l == FrameOf(size)
<1>1. size \in Nat
  BY SizeFacts
<1>2. a \in Nat /\ l \in Nat
  BY <1>1, BitmapAddrIsAligned, FrameDivision
<1>3. BitmapPages = [k \in 1 .. (l + 1) |-> a + k - 1] /\ BitmapRange = a .. (a + l)
  BY DEF BitmapPages, BitmapRange, FrameOf
<1> HIDE DEF a, l
<1> QED BY <1>2, <1>3, PageRun

LEMMA MapBitmapStrayInv == ASSUME BootInv, StrayInv, map_bitmap PROVE StrayInv'
<1>1. /\ pc = "tmp" /\ pc' = "map" /\ pages' = BitmapPages
      /\ UNCHANGED <<machine, size, strays, asked>>
  BY DEF map_bitmap
<1>2. BitmapRange' = BitmapRange
  BY <1>1, SameAreas
<1>3. BitmapPages \in Seq(Nat) /\ Range(BitmapPages) = BitmapRange
  BY <1>1, BitmapPagesAre
<1> QED BY <1>1, <1>2, <1>3 DEF StrayInv, Late

LEMMA BehindMono ==
    ASSUME NEW A, NEW C, A \subseteq C PROVE Behind(A) \subseteq Behind(C)
BY DEF Behind

\* The loop of init_pmm, up to its end or to a fault.
LEMMA MarkingStrayInv ==
    ASSUME BootInv, StrayInv, FreeEntry \/ ReserveAreas \/ Fault
    PROVE  StrayInv'
<1>1. pc = "free" /\ pc' \in {"free", "acpi", "fault"} /\ UNCHANGED <<machine, size, tables, entries, asked>>
  BY DEF FreeEntry, ReserveAreas, Fault
<1>2. i \in Nat \ {0} /\ Len(machine.map) \in Nat
  BY MapFacts DEF BootInv, BootTypeInv
<1>3. i <= Len(machine.map) => EntryAreas(machine.map[i]) \subseteq AllAreas
  BY <1>2 DEF AllAreas
<1>4. KeptAreas \subseteq AllAreas
  BY DEF AllAreas
<1>5. PICK A \in SUBSET AllAreas :
           /\ strays' = strays \cup Behind(A)
           /\ pc' = "fault" => Faults(A)
  <2>1. CASE FreeEntry
    BY <1>1, <1>3, <2>1 DEF FreeEntry
  <2>2. CASE ReserveAreas
    BY <1>1, <1>4, <2>2 DEF ReserveAreas, Reserve
  <2>3. CASE Fault /\ i <= Len(machine.map)
    BY <1>3, <2>3 DEF Fault
  <2>4. CASE Fault /\ ~(i <= Len(machine.map))
    BY <1>4, <2>4 DEF Fault
  <2> QED BY <2>1, <2>2, <2>3, <2>4
<1>6. Behind(A) \subseteq Behind(AllAreas)
  BY <1>5, BehindMono
<1>7. BitmapRange' = BitmapRange /\ Behind(AllAreas)' = Behind(AllAreas)
  BY <1>1, SameAreas
<1>8. strays' \subseteq Behind(AllAreas)' /\ BitmapRange' \subseteq asked'
  BY <1>1, <1>5, <1>6, <1>7 DEF StrayInv
<1>9. pc' = "fault" => \E b \in strays' : ~Mapped(PageOf(b))'
  <2> SUFFICES ASSUME pc' = "fault" PROVE \E b \in strays' : ~Mapped(PageOf(b))'
    OBVIOUS
  <2>1. PICK b \in Behind(A) : ~Mapped(PageOf(b))
    BY <1>5 DEF Faults
  <2>2. b \in strays'
    BY <1>5
  <2>3. ~Mapped(PageOf(b))'
    BY <1>1, <2>1 DEF Mapped, PageOf, BitmapAddr
  <2> QED BY <2>2, <2>3
<1> QED BY <1>1, <1>8, <1>9 DEF StrayInv, Late

LEMMA NextStrayInv == BootInv /\ StrayInv /\ [Next]_vars => StrayInv'
<1> SUFFICES ASSUME BootInv, StrayInv, [Next]_vars PROVE StrayInv'
  OBVIOUS
<1>1. ASSUME UNCHANGED <<machine, size, strays, asked>>, pc \in Late, pc' \in Late
      PROVE  StrayInv'
  <2>1. BitmapRange' = BitmapRange /\ Behind(AllAreas)' = Behind(AllAreas)
    BY <1>1, SameAreas
  <2> QED BY <1>1, <2>1 DEF StrayInv, Late
<1>2. CASE pages = <<>> /\ BitmapSize
  BY <1>2 DEF BitmapSize, StrayInv, Late
<1>3. CASE pages = <<>> /\ UseBitmap
  <2>1. pc = "map" /\ pc' = "free" /\ UNCHANGED <<machine, size, strays, asked>>
    BY <1>3 DEF UseBitmap
  <2>2. BitmapRange' = BitmapRange
    BY <2>1, SameAreas
  <2>3. BitmapRange \subseteq asked /\ strays = {}
    BY <1>3, <2>1, EmptyRange DEF StrayInv
  <2> QED BY <2>1, <2>2, <2>3 DEF StrayInv, Late
<1>4. CASE pages = <<>> /\ (MapTable \/ MapApics)
  <2>1. pc \in Late /\ pc' \in Late /\ UNCHANGED <<machine, size, strays, asked>>
    BY <1>4 DEF MapTable, MapApics, Late
  <2> QED BY <1>1, <2>1
<1>5. CASE BootStep
  BY <1>2, <1>3, <1>4, <1>5, MapPageStrayInv, MapBitmapStrayInv, MarkingStrayInv DEF BootStep
<1>6. CASE OpenAhci \/ OpenXhci \/ Halt
  <2>1. pc \in Late /\ pc' \in Late /\ UNCHANGED <<machine, size, strays, asked>>
    BY <1>6 DEF OpenAhci, OpenXhci, Open, Probing, Halt, Late
  <2> QED BY <1>1, <2>1
<1>7. CASE UNCHANGED bootvars
  <2>1. UNCHANGED <<machine, pc, size, strays, asked, pages, tables, entries>>
    BY <1>7 DEF bootvars
  <2>2. BitmapRange' = BitmapRange /\ Behind(AllAreas)' = Behind(AllAreas)
    BY <2>1, SameAreas
  <2>3. ASSUME NEW b PROVE Mapped(PageOf(b))' = Mapped(PageOf(b))
    BY <2>1 DEF Mapped, PageOf, BitmapAddr
  <2> QED BY <2>1, <2>2, <2>3 DEF StrayInv
<1>8. BootStep \/ UNCHANGED bootvars \/ OpenAhci \/ OpenXhci \/ Halt
  BY DEF Next, Boots, Enumerates, SkipDevice, NoRegion, NextDriver, Stopped, vars
<1> QED BY <1>5, <1>6, <1>7, <1>8

\* In a tidy memory map no usable entry ends behind the last one.
LEMMA EntriesEnd ==
    ASSUME NEW map \in Seq(Entries), Tidy(map), NEW j \in UsableIn(map)
    PROVE  map[j].base + map[j].len <= last_usable_addr(map)
<1> DEFINE k == Max(UsableIn(map))
<1>1. /\ k \in UsableIn(map) /\ j <= k
      /\ last_usable_addr(map) = map[k].base + map[k].len
  BY LastUsable
<1> HIDE DEF k
<1>2. j \in DOMAIN map /\ k \in DOMAIN map /\ map[j] \in Entries /\ map[k] \in Entries
  BY <1>1 DEF UsableIn
<1>3. /\ j \in Nat /\ k \in Nat /\ map[j].base \in Nat /\ map[j].len \in Nat
      /\ map[k].base \in Nat /\ map[k].len \in Nat
  BY <1>2 DEF Entries
<1>4. CASE j = k
  BY <1>1, <1>3, <1>4
<1>5. CASE j # k
  <2> DEFINE x == map[j].base
             w == map[j].len
             y == map[k].base
             z == map[k].len
  <2>1. \A p, q \in DOMAIN map : p < q => map[p].base + map[p].len <= map[q].base
    BY DEF Tidy
  <2>2. j < k
    BY <1>1, <1>3, <1>5
  <2>3. x + w <= y
    BY <1>2, <2>1, <2>2
  <2>4. x \in Nat /\ w \in Nat /\ y \in Nat /\ z \in Nat
    BY <1>3
  <2> HIDE DEF x, w, y, z
  <2>5. x + w <= y + z
    BY <2>3, <2>4
  <2> QED BY <1>1, <2>5 DEF x, w, y, z
<1> QED BY <1>4, <1>5

\* It is where memory ends, after a whole number of frames.
LEMMA MemoryEnds ==
    ASSUME BootInv, Tidy(machine.map), UsableIn(machine.map) # {}
    PROVE  /\ MemoryEnd = last_usable_addr(machine.map)
           /\ \E n \in Nat : MemoryEnd = n * FRAME_SIZE
<1> DEFINE S == {e.base + e.len : e \in {e \in Range(machine.map) : e.usable}}
           n == last_usable_addr(machine.map)
           k == Max(UsableIn(machine.map))
           e == machine.map[k]
<1>1. machine.map \in Seq(Entries)
  BY BitmapSizeIsNat DEF BootInv, BootTypeInv
<1>2. n \in Nat /\ k \in UsableIn(machine.map) /\ n = e.base + e.len
  BY <1>1, LastUsable
<1>3. ASSUME NEW x \in S PROVE x \in Nat /\ x <= n
  <2>1. PICK j \in DOMAIN machine.map :
            machine.map[j].usable /\ x = machine.map[j].base + machine.map[j].len
    BY DEF Range
  <2>2. machine.map[j] \in Entries /\ j \in UsableIn(machine.map)
    BY <1>1, <2>1 DEF UsableIn
  <2>3. x <= n
    BY <1>1, <2>1, <2>2, EntriesEnd
  <2> QED BY <2>1, <2>2, <2>3 DEF Entries
<1>4. e \in Range(machine.map) /\ e.usable /\ e \in Entries
  <2> HIDE DEF k
  <2>1. k \in DOMAIN machine.map /\ machine.map[k].usable
    BY <1>2 DEF UsableIn
  <2> QED BY <1>1, <2>1 DEF Range
<1>5. MemoryEnd = Max(S)
  BY DEF MemoryEnd
<1>6. n \in S
  <2> HIDE DEF k, e, n
  <2> QED BY <1>2, <1>4
<1>7. \E w \in Nat : n = w * FRAME_SIZE
  <2>1. e.len % FRAME_SIZE = 0 /\ e.base % FRAME_SIZE = 0
    <3> HIDE DEF e
    <3> QED BY <1>4 DEF Tidy, Exact
  <2>2. e.len \in Nat /\ e.base \in Nat
    <3> HIDE DEF e
    <3> QED BY <1>4 DEF Entries
  <2> DEFINE x == e.base
             y == e.len
             F == FRAME_SIZE
             a == FrameOf(x)
             c == FrameOf(y)
  <2>3. F \in Nat \ {0} /\ x \in Nat /\ y \in Nat /\ x % F = 0 /\ y % F = 0
    BY <2>1, <2>2, BootConstants
  <2> HIDE DEF x, y, F
  <2>4. a \in Nat /\ c \in Nat /\ x = a * F /\ y = c * F
    BY <2>3, Z3 DEF FrameOf, F
  <2> HIDE DEF a, c
  <2>5. a + c \in Nat /\ x + y = (a + c) * F
    BY <2>3, <2>4, Z3
  <2>6. n = (a + c) * F
    BY <1>2, <2>5 DEF x, y
  <2> QED BY <2>5, <2>6 DEF F
<1> HIDE DEF S, n, k, e
<1>8. S \in SUBSET Nat /\ S # {}
  BY <1>3, <1>6
<1>9. Max(S) \in S /\ \A x \in S : Max(S) >= x
  BY <1>2, <1>3, <1>8, MaxIsMax
<1>10. Max(S) = n
  <2> DEFINE x == Max(S)
  <2>1. x \in S /\ x >= n
    BY <1>6, <1>9
  <2> HIDE DEF x
  <2>2. x \in Nat /\ x <= n
    BY <1>3, <2>1
  <2> QED BY <1>2, <2>1, <2>2 DEF x
<1> QED BY <1>5, <1>7, <1>10 DEF n

LEMMA AreasAreTyped ==
    ASSUME BootInv, pc # "size", NEW a \in KeptAreas
    PROVE  a[1] \in Nat /\ a[2] \in Nat
<1>1. machine.kernel.addr \in Nat /\ machine.kernel.size \in Nat
  BY MachineAssumption DEF BootInv, BootTypeInv
<1>2. /\ machine.fb.addr \in Nat /\ machine.fb.width \in Nat
      /\ machine.fb.height \in Nat /\ machine.fb.bpp \in Nat
  BY MachineAssumption DEF BootInv, BootTypeInv
<1>3. machine.fb.width * machine.fb.height * machine.fb.bpp \in Nat
  <2> DEFINE x == machine.fb.width
             y == machine.fb.height
             z == machine.fb.bpp
  <2>1. x \in Nat /\ y \in Nat /\ z \in Nat
    BY <1>2
  <2> HIDE DEF x, y, z
  <2>2. x * y * z \in Nat
    BY <2>1, Z3
  <2> QED BY <2>2 DEF x, y, z
<1>4. BOOT_SECTION_SIZE \in Nat /\ BitmapAddr \in Nat /\ size \in Nat
  BY BootConstants, BitmapAddrIsAligned, SizeFacts
<1> DEFINE m == machine.fb.width * machine.fb.height * machine.fb.bpp
<1>5. a \in {<<0, BOOT_SECTION_SIZE>>, <<machine.kernel.addr, machine.kernel.size>>,
             <<BitmapAddr, size>>, <<machine.fb.addr, m>>}
  BY DEF KeptAreas
<1>6. m \in Nat
  BY <1>3
<1> HIDE DEF m
<1> QED BY <1>1, <1>2, <1>4, <1>5, <1>6

\* The bytes init_pmm touches end at the one of the rest, or with the one behind it.
LEMMA BytesInMemory ==
    ASSUME BootInv, pc # "size", Tidy(machine.map), UsableIn(machine.map) # {},
           \A a \in KeptAreas : a[1] + a[2] <= MemoryEnd,
           NEW b \in Behind(AllAreas)
    PROVE  /\ b \in Nat
           /\ b <= size \/ (b = size + 1 /\ FrameOf(MemoryEnd) % BITMAP_BLOCK_SIZE # 0)
<1>1. machine.map \in Seq(Entries) /\ size = get_bitmap_size(machine.map)
  BY BitmapSizeIsNat DEF BootInv, BootTypeInv
<1>2. PICK n \in Nat : MemoryEnd = n * FRAME_SIZE
  BY MemoryEnds
<1>3. FrameOf(MemoryEnd) = n /\ size = n \div BITMAP_BLOCK_SIZE
  <2>1. size = (n * FRAME_SIZE) \div (FRAME_SIZE * BITMAP_BLOCK_SIZE)
    BY <1>1, <1>2, MemoryEnds DEF get_bitmap_size
  <2> QED BY <1>2, <2>1, SizeOfFrames
<1>4. PICK a \in AllAreas : b \in Accessed(FrameOf(a[1]), Pages(a[2]))
  BY DEF Behind
<1>5. a[1] \in Nat /\ a[2] \in Nat /\ a[1] + a[2] <= n * FRAME_SIZE
  <2>1. CASE a \in KeptAreas
    BY <1>2, <2>1, AreasAreTyped
  <2>2. CASE a \notin KeptAreas
    <3>1. PICK j \in 1 .. Len(machine.map) : a \in EntryAreas(machine.map[j])
      BY <1>4, <2>2 DEF AllAreas
    <3>2. /\ machine.map[j] \in Entries /\ machine.map[j].usable
          /\ a = <<machine.map[j].base, machine.map[j].len>>
      BY <1>1, <3>1 DEF EntryAreas
    <3>3. j \in UsableIn(machine.map)
      BY <3>1, <3>2, MapFacts DEF UsableIn
    <3>4. machine.map[j].base + machine.map[j].len <= MemoryEnd
      BY <1>1, <3>3, EntriesEnd, MemoryEnds
    <3>5. machine.map[j].base \in Nat /\ machine.map[j].len \in Nat
      BY <3>2 DEF Entries
    <3> QED BY <1>2, <3>2, <3>4, <3>5
  <2> QED BY <2>1, <2>2
<1>6. /\ FrameOf(a[1]) \in Nat /\ Pages(a[2]) \in Nat
      /\ FrameOf(a[1]) + Pages(a[2]) <= n
  BY <1>5, FramesInMemory
<1>7. /\ b \in Nat
      /\ b <= n \div BITMAP_BLOCK_SIZE
         \/ (b = n \div BITMAP_BLOCK_SIZE + 1 /\ n % BITMAP_BLOCK_SIZE # 0)
  BY <1>4, <1>6, AccessedBelow
<1> QED BY <1>3, <1>7

(***************************************************************************)
(* For every tidy memory map and every size of frames, blocks and tables:  *)
(* init_pmm touches behind the bitmap at most the byte of the rest at the  *)
(* end of memory, whose page map_bitmap has mapped because it maps a page  *)
(* more than the size needs, and the byte after that, which may be on the  *)
(* page after the bitmap's last one only if the byte of the rest is at the *)
(* end of a page; init_pmm faults in no other case.                        *)
(***************************************************************************)
THEOREM InitPmmStaysMapped == Spec => []InitPmmStaysInBitmap
<1>1. BootInv /\ StrayInv => InitPmmStaysInBitmap
  <2> SUFFICES ASSUME BootInv, StrayInv, Tidy(machine.map),
                      \A a \in KeptAreas : a[1] + a[2] <= MemoryEnd
               PROVE  /\ \A b \in strays : PageOf(b) \in Range(BitmapPages)
                                             \/ (b = size + 1 /\ EndsBeforePage)
                      /\ pc = "fault" => EndsBeforePage
    BY DEF InitPmmStaysInBitmap
  <2> DEFINE g == FrameOf(BitmapAddr)
  <2>1. ASSUME NEW b \in strays
        PROVE  PageOf(b) \in BitmapRange \/ (b = size + 1 /\ EndsBeforePage)
    <3>1. pc \in {"free", "fault"} \cup Late /\ pc # "size" /\ b \in Behind(AllAreas)
      BY <2>1 DEF StrayInv, BootInv, BootTypeInv, Late
    <3>2. size \in Nat \ {0}
      BY <3>1, SizeFacts
    <3>3. UsableIn(machine.map) # {}
      <4> SUFFICES ASSUME UsableIn(machine.map) = {} PROVE FALSE
        OBVIOUS
      <4> DEFINE d == FRAME_SIZE * BITMAP_BLOCK_SIZE
      <4>1. last_usable_addr(machine.map) = 0
        BY DEF last_usable_addr, UsableIn
      <4>2. d \in Nat \ {0}
        BY BootConstants, BlockAssumption, Z3
      <4>3. size = 0 \div d
        BY <3>1, <4>1 DEF BootInv, BootTypeInv, get_bitmap_size
      <4> HIDE DEF d
      <4>4. 0 \div d = 0
        BY <4>2, Z3
      <4> QED BY <3>2, <4>3, <4>4
    <3>4. b \in Nat /\ (b <= size \/ (b = size + 1 /\ FrameOf(MemoryEnd) % BITMAP_BLOCK_SIZE # 0))
      BY <3>1, <3>3, BytesInMemory
    <3>5. g \in Nat /\ BitmapAddr = g * FRAME_SIZE
      BY BitmapAddrIsAligned
    <3>6. PageOf(b) = g + FrameOf(b) /\ FrameOf(b) \in Nat
      <4> HIDE DEF g
      <4> QED BY <3>4, <3>5, PageOfByte DEF PageOf
    <3>7. CASE FrameOf(b) <= FrameOf(size) /\ FrameOf(size) \in Nat
      <4> HIDE DEF g
      <4>1. BitmapRange = g .. (g + FrameOf(size))
        BY DEF BitmapRange, g
      <4> QED BY <3>5, <3>6, <3>7, <4>1
    <3>8. CASE b <= size
      BY <3>2, <3>4, <3>7, <3>8, FrameMono
    <3>9. CASE b = size + 1 /\ (size + 1) % FRAME_SIZE # 0
      <4>1. FrameOf(b) = FrameOf(size) /\ FrameOf(size) \in Nat
        BY <3>2, <3>9, NextByte, FrameDivision
      <4> QED BY <3>7, <4>1
    <3>10. CASE b = size + 1 /\ (size + 1) % FRAME_SIZE = 0 /\ ~(b <= size)
      BY <3>4, <3>10 DEF EndsBeforePage
    <3> QED BY <3>4, <3>8, <3>9, <3>10
  <2>2. ASSUME pc = "fault" PROVE EndsBeforePage
    <3>1. PICK b \in strays : ~Mapped(PageOf(b))
      BY <2>2 DEF StrayInv
    <3>2. PageOf(b) \notin BitmapRange
      BY <2>2, <3>1 DEF StrayInv, BootInv, MappingsSurvive
    <3> QED BY <2>1, <3>1, <3>2
  <2>3. strays # {} => Range(BitmapPages) = BitmapRange
    <3> SUFFICES ASSUME strays # {} PROVE Range(BitmapPages) = BitmapRange
      OBVIOUS
    <3>1. pc # "size"
      BY DEF StrayInv
    <3> QED BY <3>1, BitmapPagesAre
  <2> QED BY <2>1, <2>2, <2>3
<1> QED BY BootInvariance, InitStrayInv, NextStrayInv, <1>1, PTL DEF Spec
-----------------------------------------------------------------------------
(***************************************************************************)
(* The enumeration.  D are the buses check_bus has returned from; with     *)
(* those of its activations they are the buses it was called for.  What    *)
(* was visited is on a bus of D, or was passed by an activation.           *)
(***************************************************************************)
Funcs     == DOMAIN machine.pci.funcs
Positions == [bus : Nat, slot : 0 .. PCI_MAX_DEVS, func : 0 .. (PCI_MAX_FUNCS - 1)]

Passed(p, fn) ==
    /\ fn[1] = p.bus
    /\ fn[2] < p.slot \/ (fn[2] = p.slot /\ fn[3] < p.func)

Visited(D, st) == {fn \in Funcs : fn[1] \in D \/ \E k \in DOMAIN st : Passed(st[k], fn)}
Called(D, st)  == D \cup {st[k].bus : k \in DOMAIN st}

\* The activations are of ever higher buses, and of none that is finished.
StackInv(D, st) ==
    /\ D \subseteq Nat /\ st \in Seq(Positions)
    /\ \A k \in DOMAIN st : st[k].bus \notin D
    /\ \A j, k \in DOMAIN st : j < k => st[j].bus < st[k].bus

\* The functions V were visited and check_bus was called for the buses C.
ScanInv(V, C, devs) ==
    /\ 0 \in C /\ devs \in Seq(Funcs)
    /\ \A b \in C : b = 0 \/ \E fn \in V : ClassOf(fn) = "bridge" /\ SecondaryOf(fn) = b
    /\ \A fn \in V : IF ClassOf(fn) = "bridge" THEN SecondaryOf(fn) \in C ELSE fn \in ToSet(devs)
    /\ \A n \in DOMAIN devs : devs[n] \in V /\ ClassOf(devs[n]) # "bridge"
    /\ \A m, n \in DOMAIN devs : m < n => devs[m] # devs[n]

EnumInv ==
    /\ scan \in {"start", "hosts", "done", "overflow"}
    /\ scan = "start" => pci_devs = <<>>
    /\ scan \in {"hosts", "done"} =>
         /\ host = PCI_MAX_FUNCS - 1
         /\ \E D \in SUBSET Nat : /\ StackInv(D, stack)
                                  /\ ScanInv(Visited(D, stack), Called(D, stack), pci_devs)
    /\ scan = "done" => stack = <<>>

LEMMA FuncsAreTyped ==
    ASSUME machine \in Machines, NEW fn \in Funcs
    PROVE  /\ fn[1] \in Nat /\ fn[2] \in 0 .. (PCI_MAX_DEVS - 1) /\ fn[3] \in 0 .. (PCI_MAX_FUNCS - 1)
           /\ fn = <<fn[1], fn[2], fn[3]>> /\ SecondaryOf(fn) \in Nat
<1>1. fn \in Nat \X (0 .. (PCI_MAX_DEVS - 1)) \X (0 .. (PCI_MAX_FUNCS - 1))
  BY ConfigSpaceAssumption DEF Funcs
<1>2. SecondaryOf(fn) \in Nat
  BY ConfigSpaceAssumption DEF Funcs, SecondaryOf
<1> QED BY <1>1, <1>2

\* The stack with the position of its last activation changed.
LEMMA ReplaceLast ==
    ASSUME NEW S, NEW st \in Seq(S), st # <<>>, NEW q \in S
    PROVE  LET t == Append(Front(st), q)
           IN  /\ t \in Seq(S) /\ DOMAIN t = DOMAIN st /\ Len(st) \in DOMAIN st
               /\ t[Len(st)] = q /\ \A k \in DOMAIN st : k # Len(st) => t[k] = st[k]
<1> DEFINE f == Front(st)
<1>0. Len(st) \in Nat \ {0} /\ DOMAIN st = 1 .. Len(st)
  OBVIOUS
<1>1. f \in Seq(S) /\ Len(f) = Len(st) - 1 /\ \A k \in 1 .. (Len(st) - 1) : f[k] = st[k]
  BY <1>0 DEF Front
<1> HIDE DEF f
<1>2. LET t == Append(f, q)
      IN  /\ t \in Seq(S) /\ DOMAIN t = DOMAIN st /\ Len(st) \in DOMAIN st
          /\ t[Len(st)] = q /\ \A k \in DOMAIN st : k # Len(st) => t[k] = st[k]
  BY <1>1
<1> QED BY <1>2 DEF f

LEMMA AfterPasses ==
    ASSUME NEW p \in Positions, p.slot < PCI_MAX_DEVS, machine \in Machines
    PROVE  /\ After(p) \in Positions /\ After(p).bus = p.bus
           /\ \A fn \in Funcs : Passed(After(p), fn)
                                  <=> Passed(p, fn) \/ fn = <<p.bus, p.slot, p.func>>
           /\ ~Passed(p, <<p.bus, p.slot, p.func>>)
<1>1. PCI_MAX_DEVS \in Nat \ {0} /\ PCI_MAX_FUNCS \in Nat \ {0}
  BY ConfigSpaceAssumption
<1>2. p.bus \in Nat /\ p.slot \in 0 .. PCI_MAX_DEVS /\ p.func \in 0 .. (PCI_MAX_FUNCS - 1)
  BY DEF Positions
<1>3. p = [bus |-> p.bus, slot |-> p.slot, func |-> p.func]
  BY DEF Positions
<1>4. After(p) = IF p.func + 1 < PCI_MAX_FUNCS
                 THEN [bus |-> p.bus, slot |-> p.slot, func |-> p.func + 1]
                 ELSE [bus |-> p.bus, slot |-> p.slot + 1, func |-> 0]
  <2> DEFINE b == p.bus
             s == p.slot
             f == p.func
  <2>1. p = [bus |-> b, slot |-> s, func |-> f]
    BY <1>3
  <2> HIDE DEF b, s, f
  <2>2. [p EXCEPT !.func = f + 1] = [bus |-> b, slot |-> s, func |-> f + 1]
    BY <2>1
  <2> QED BY <2>2 DEF After, b, s, f
<1>5. After(p) \in Positions /\ After(p).bus = p.bus
  BY <1>1, <1>2, <1>4 DEF Positions
<1>6. ASSUME NEW fn \in Funcs
      PROVE  Passed(After(p), fn) <=> Passed(p, fn) \/ fn = <<p.bus, p.slot, p.func>>
  <2>1. /\ fn[1] \in Nat /\ fn[2] \in 0 .. (PCI_MAX_DEVS - 1) /\ fn[3] \in 0 .. (PCI_MAX_FUNCS - 1)
        /\ fn = <<fn[1], fn[2], fn[3]>>
    BY FuncsAreTyped
  <2>2. fn = <<p.bus, p.slot, p.func>> <=> fn[1] = p.bus /\ fn[2] = p.slot /\ fn[3] = p.func
    BY <2>1
  <2>3. CASE p.func + 1 < PCI_MAX_FUNCS
    BY <1>1, <1>2, <1>4, <2>1, <2>2, <2>3 DEF Passed
  <2>4. CASE ~(p.func + 1 < PCI_MAX_FUNCS)
    BY <1>1, <1>2, <1>4, <2>1, <2>2, <2>4 DEF Passed
  <2> QED BY <2>3, <2>4
<1>7. ~Passed(p, <<p.bus, p.slot, p.func>>)
  BY <1>1, <1>2 DEF Passed
<1> QED BY <1>5, <1>6, <1>7

\* One turn of the inner loop: the function under it was not visited before.
Turn(st, t, here) ==
    /\ st # <<>> /\ Last(st).slot < PCI_MAX_DEVS
    /\ t = Append(Front(st), After(Last(st)))
    /\ here = <<Last(st).bus, Last(st).slot, Last(st).func>>

Turned(D, st, t, here) ==
    /\ StackInv(D, t) /\ Called(D, t) = Called(D, st)
    /\ Visited(D, t) = Visited(D, st) \cup ({here} \cap Funcs)
    /\ here \notin Visited(D, st)

LEMMA Advance ==
    ASSUME machine \in Machines, NEW D, NEW st, NEW t, NEW here, StackInv(D, st), Turn(st, t, here)
    PROVE  Turned(D, st, t, here)
<1> USE DEF Turn
<1> DEFINE n == Len(st)
           p == Last(st)
           q == After(p)
<1>1. st \in Seq(Positions) /\ p = st[n]
  BY DEF StackInv, Last
<1>2. n \in DOMAIN st /\ p \in Positions
  BY <1>1
<1>3. /\ q \in Positions /\ q.bus = p.bus
      /\ \A fn \in Funcs : Passed(q, fn) <=> Passed(p, fn) \/ fn = here
      /\ ~Passed(p, here)
  BY <1>2, AfterPasses
<1> HIDE DEF p, q
<1>4. /\ t \in Seq(Positions) /\ DOMAIN t = DOMAIN st
      /\ t[n] = q /\ \A k \in DOMAIN st : k # n => t[k] = st[k]
  BY <1>1, <1>3, ReplaceLast DEF p, q
<1> HIDE DEF n
<1>5. \A k \in DOMAIN st : t[k].bus = st[k].bus
  BY <1>1, <1>3, <1>4
<1>6. StackInv(D, t)
  BY <1>4, <1>5 DEF StackInv
<1>10. Called(D, t) = Called(D, st)
  <2>1. {t[k].bus : k \in DOMAIN t} = {st[k].bus : k \in DOMAIN st}
    BY <1>4, <1>5
  <2> QED BY <2>1 DEF Called
<1>7. ASSUME NEW fn \in Funcs
      PROVE  fn \in Visited(D, t) <=> fn \in Visited(D, st) \/ fn = here
  <2>1. ASSUME NEW k \in DOMAIN st
        PROVE  Passed(t[k], fn) <=> Passed(st[k], fn) \/ (k = n /\ fn = here)
    BY <1>1, <1>3, <1>4
  <2> QED BY <1>2, <1>4, <2>1 DEF Visited
<1>8. ASSUME here \in Visited(D, st) PROVE FALSE
  <2>1. here[1] = p.bus
    BY DEF p
  <2>2. here[1] \notin D
    BY <1>1, <1>2, <2>1 DEF StackInv
  <2>3. PICK k \in DOMAIN st : Passed(st[k], here)
    BY <1>8, <2>2 DEF Visited
  <2>4. st[k].bus = st[n].bus
    BY <1>1, <2>1, <2>3 DEF Passed
  <2>5. k = n
    <3>1. k \in Nat /\ n \in Nat /\ st[k].bus \in Nat /\ st[n].bus \in Nat
      <4>1. k \in Nat /\ n \in Nat /\ st[k] \in Positions /\ st[n] \in Positions
        BY <1>1, <1>2
      <4> QED BY <4>1 DEF Positions
    <3>2. ~(k < n) /\ ~(n < k)
      BY <1>2, <2>4, <3>1 DEF StackInv
    <3> QED BY <3>1, <3>2
  <2> QED BY <1>1, <1>3, <2>3, <2>5
<1>9. Visited(D, t) \subseteq Funcs /\ Visited(D, st) \subseteq Funcs
  BY DEF Visited
<1> QED BY <1>6, <1>7, <1>8, <1>9, <1>10 DEF Turned

\* check_bus of a bus above those of its callers.
Call(D, st, b, t) ==
    b \in Nat \ D /\ (\A k \in DOMAIN st : st[k].bus < b) /\ t = Append(st, check_bus(b))

HasCalled(D, st, b, t) ==
    /\ StackInv(D, t) /\ Called(D, t) = Called(D, st) \cup {b}
    /\ Visited(D, t) = Visited(D, st)

LEMMA Push ==
    ASSUME machine \in Machines, NEW D, NEW st, NEW b, NEW t, StackInv(D, st), Call(D, st, b, t)
    PROVE  HasCalled(D, st, b, t)
<1> USE DEF Call
<1> DEFINE n == Len(st) + 1
           q == check_bus(b)
<1>1. q \in Positions /\ q = [bus |-> b, slot |-> 0, func |-> 0]
  <2>1. PCI_MAX_DEVS \in Nat \ {0} /\ PCI_MAX_FUNCS \in Nat \ {0}
    BY ConfigSpaceAssumption
  <2> QED BY <2>1 DEF check_bus, Positions
<1>2. st \in Seq(Positions)
  BY DEF StackInv
<1> HIDE DEF q
<1>3. /\ t \in Seq(Positions) /\ DOMAIN t = DOMAIN st \cup {n} /\ n \notin DOMAIN st /\ t[n] = q
      /\ \A k \in DOMAIN st : t[k] = st[k] /\ k \in Nat /\ k < n
  BY <1>1, <1>2, AppendProperties DEF q
<1>4. StackInv(D, t)
  <2>1. ASSUME NEW k \in DOMAIN t PROVE t[k].bus \notin D
    BY <1>1, <1>3 DEF StackInv
  <2>2. ASSUME NEW j \in DOMAIN t, NEW k \in DOMAIN t, j < k PROVE t[j].bus < t[k].bus
    <3>1. n \in Nat
      BY <1>2
    <3>2. j \in DOMAIN st
      <4> SUFFICES ASSUME j = n PROVE FALSE
        BY <1>3
      <4> HIDE DEF n
      <4> QED BY <1>3, <2>2, <3>1
    <3>3. CASE k = n
      BY <1>1, <1>3, <3>2, <3>3
    <3>4. CASE k \in DOMAIN st
      BY <1>3, <2>2, <3>2, <3>4 DEF StackInv
    <3> QED BY <1>3, <3>3, <3>4
  <2> QED BY <1>3, <2>1, <2>2 DEF StackInv
<1>5. Called(D, t) = Called(D, st) \cup {b}
  <2> HIDE DEF n
  <2> QED BY <1>1, <1>3 DEF Called
<1>6. ASSUME NEW fn \in Funcs PROVE ~Passed(q, fn)
  <2>1. fn[2] \in Nat /\ fn[3] \in Nat
    <3>1. fn[2] \in 0 .. (PCI_MAX_DEVS - 1) /\ fn[3] \in 0 .. (PCI_MAX_FUNCS - 1)
      BY FuncsAreTyped
    <3> QED BY <3>1, ConfigSpaceAssumption
  <2>2. ~(fn[2] < 0) /\ ~(fn[3] < 0)
    BY <2>1
  <2> QED BY <1>1, <2>2 DEF Passed
<1>7. Visited(D, t) = Visited(D, st)
  <2> HIDE DEF n
  <2> QED BY <1>3, <1>6 DEF Visited
<1> QED BY <1>4, <1>5, <1>7 DEF HasCalled

\* check_bus returns: every function of its bus was passed.
LEMMA Pop ==
    ASSUME machine \in Machines, NEW D, NEW st, StackInv(D, st), st # <<>>,
           Last(st).slot = PCI_MAX_DEVS,
           NEW E, E = D \cup {Last(st).bus}
    PROVE  /\ StackInv(E, Front(st)) /\ Called(E, Front(st)) = Called(D, st)
           /\ Visited(E, Front(st)) = Visited(D, st)
<1> DEFINE n == Len(st)
           p == Last(st)
           t == Front(st)
<1>1. st \in Seq(Positions) /\ p = st[n] /\ n \in Nat \ {0} /\ DOMAIN st = 1 .. n
  BY DEF StackInv, Last
<1>2. p \in Positions
  BY <1>1
<1>3. t \in Seq(Positions) /\ DOMAIN t = 1 .. (n - 1) /\ \A k \in 1 .. (n - 1) : t[k] = st[k]
  BY <1>1 DEF Front
<1> HIDE DEF p, t, n
<1>4. /\ DOMAIN st = DOMAIN t \cup {n} /\ n \notin DOMAIN t
      /\ \A k \in DOMAIN t : t[k] = st[k] /\ k \in Nat /\ k < n
  BY <1>1, <1>3
<1>5. StackInv(E, t)
  <2>1. E \subseteq Nat
    BY <1>2 DEF Positions, p, StackInv
  <2>2. ASSUME NEW k \in DOMAIN t PROVE t[k].bus \notin E
    <3>1. st[k].bus < st[n].bus /\ st[k].bus \notin D /\ st[k] \in Positions
      BY <1>1, <1>4 DEF StackInv
    <3>2. st[k].bus # p.bus
      BY <1>1, <1>2, <3>1 DEF Positions
    <3> QED BY <1>4, <3>1, <3>2 DEF p
  <2>3. \A j, k \in DOMAIN t : j < k => t[j].bus < t[k].bus
    BY <1>4 DEF StackInv
  <2> QED BY <1>3, <2>1, <2>2, <2>3 DEF StackInv
<1>6. Called(E, t) = Called(D, st)
  <2>1. ASSUME NEW k \in DOMAIN st PROVE st[k].bus \in Called(E, t)
    BY <1>1, <1>4 DEF Called, p
  <2>2. ASSUME NEW k \in DOMAIN t PROVE t[k].bus \in Called(D, st)
    BY <1>4 DEF Called
  <2>3. p.bus \in Called(D, st)
    BY <1>1, <1>4 DEF Called
  <2>4. Called(D, st) \subseteq Called(E, t)
    BY <2>1 DEF Called
  <2>5. Called(E, t) \subseteq Called(D, st)
    BY <2>2, <2>3 DEF Called, p
  <2> QED BY <2>4, <2>5
<1>7. ASSUME NEW fn \in Funcs PROVE Passed(p, fn) <=> fn[1] = p.bus
  <2>1. fn[2] \in 0 .. (PCI_MAX_DEVS - 1) /\ PCI_MAX_DEVS \in Nat
    BY FuncsAreTyped, ConfigSpaceAssumption
  <2> QED BY <2>1 DEF Passed, p
<1>8. ASSUME NEW fn \in Funcs PROVE fn \in Visited(E, t) <=> fn \in Visited(D, st)
  <2>1. (\E k \in DOMAIN st : Passed(st[k], fn))
          <=> (\E k \in DOMAIN t : Passed(t[k], fn)) \/ fn[1] = p.bus
    BY <1>1, <1>4, <1>7
  <2>2. fn[1] \in E <=> fn[1] \in D \/ fn[1] = p.bus
    BY DEF p
  <2> QED BY <2>1, <2>2 DEF Visited
<1>9. Visited(E, t) \subseteq Funcs /\ Visited(D, st) \subseteq Funcs
  BY DEF Visited
<1>10. Visited(E, t) = Visited(D, st)
  BY <1>8, <1>9
<1> QED BY <1>5, <1>6, <1>10 DEF t

LEMMA BridgeFacts ==
    ASSUME machine \in Machines, Ordinary, NEW fn \in Funcs, ClassOf(fn) = "bridge"
    PROVE  /\ SecondaryOf(fn) \in Nat /\ SecondaryOf(fn) > fn[1] /\ fn[1] \in Nat
           /\ \A g \in Funcs : ClassOf(g) = "bridge" /\ SecondaryOf(g) = SecondaryOf(fn) => g = fn
<1>1. SecondaryOf(fn) > fn[1] /\ BridgesTo(SecondaryOf(fn)) = {fn}
  BY DEF Ordinary, Funcs
<1>2. ASSUME NEW g \in Funcs, ClassOf(g) = "bridge", SecondaryOf(g) = SecondaryOf(fn) PROVE g = fn
  <2>1. g \in BridgesTo(SecondaryOf(fn))
    BY <1>2 DEF BridgesTo, Funcs
  <2> QED BY <1>1, <2>1
<1> QED BY <1>1, <1>2, FuncsAreTyped

\* A function on another bus than 0 is behind a bridge.
LEMMA BehindABridge ==
    ASSUME machine \in Machines, Ordinary, NEW fn \in Funcs, fn[1] # 0
    PROVE  \E g \in Funcs : ClassOf(g) = "bridge" /\ SecondaryOf(g) = fn[1]
<1> DEFINE S == BridgesTo(fn[1])
<1>1. S \subseteq Funcs
  BY DEF BridgesTo, Funcs
<1>2. IsFiniteSet(Funcs)
  BY ConfigSpaceAssumption DEF Funcs
<1>3. IsFiniteSet(S)
  BY <1>1, <1>2, FS_Subset
<1>4. Cardinality(S) = 1
  BY DEF Ordinary, Funcs
<1> HIDE DEF S
<1>5. PICK g : S = {g}
  BY <1>3, <1>4, FS_Singleton
<1>6. g \in BridgesTo(fn[1])
  BY <1>5 DEF S
<1> QED BY <1>6 DEF BridgesTo, Funcs

LEMMA AppendDevice ==
    ASSUME NEW V, NEW C, NEW devs, ScanInv(V, C, devs), NEW fn \in Funcs, fn \notin V,
           ClassOf(fn) # "bridge"
    PROVE  ScanInv(V \cup {fn}, C, Append(devs, fn))
<1> DEFINE t == Append(devs, fn)
           n == Len(devs) + 1
<1>1. devs \in Seq(Funcs)
  BY DEF ScanInv
<1>2. /\ t \in Seq(Funcs) /\ DOMAIN t = DOMAIN devs \cup {n} /\ n \notin DOMAIN devs /\ t[n] = fn
      /\ \A k \in DOMAIN devs : t[k] = devs[k] /\ k \in Nat /\ k < n
  BY <1>1, AppendProperties
<1>3. n \in Nat
  BY <1>1
<1> HIDE DEF t, n
<1>4. ToSet(devs) \cup {fn} \subseteq ToSet(t)
  <2>1. ASSUME NEW k \in DOMAIN devs PROVE devs[k] \in ToSet(t)
    <3>1. k \in DOMAIN t /\ t[k] = devs[k]
      BY <1>2
    <3> QED BY <3>1 DEF ToSet
  <2>2. fn \in ToSet(t)
    BY <1>2 DEF ToSet
  <2> QED BY <2>1, <2>2 DEF ToSet
<1>5. ASSUME NEW k \in DOMAIN t PROVE t[k] \in V \cup {fn} /\ ClassOf(t[k]) # "bridge"
  BY <1>2 DEF ScanInv
<1>6. ASSUME NEW j \in DOMAIN t, NEW k \in DOMAIN t, j < k PROVE t[j] # t[k]
  <2>1. j \in DOMAIN devs
    <3> SUFFICES ASSUME j = n PROVE FALSE
      BY <1>2
    <3>1. CASE k = n
      BY <1>3, <1>6, <3>1
    <3>2. CASE k \in DOMAIN devs
      BY <1>2, <1>3, <1>6, <3>2
    <3> QED BY <1>2, <3>1, <3>2
  <2>2. CASE k = n
    BY <1>2, <2>1, <2>2 DEF ScanInv
  <2>3. CASE k \in DOMAIN devs
    BY <1>2, <1>6, <2>1, <2>3 DEF ScanInv
  <2> QED BY <1>2, <2>2, <2>3
<1>7. \A b \in C : b = 0 \/ \E g \in V \cup {fn} : ClassOf(g) = "bridge" /\ SecondaryOf(g) = b
  BY DEF ScanInv
<1>8. \A g \in V \cup {fn} : IF ClassOf(g) = "bridge" THEN SecondaryOf(g) \in C ELSE g \in ToSet(t)
  BY <1>4 DEF ScanInv
<1>9. 0 \in C
  BY DEF ScanInv
<1> QED BY <1>2, <1>5, <1>6, <1>7, <1>8, <1>9 DEF ScanInv, t

LEMMA AppendBridge ==
    ASSUME NEW V, NEW C, NEW devs, ScanInv(V, C, devs), NEW fn \in Funcs, ClassOf(fn) = "bridge"
    PROVE  ScanInv(V \cup {fn}, C \cup {SecondaryOf(fn)}, devs)
<1>1. \A b \in C \cup {SecondaryOf(fn)} :
         b = 0 \/ \E g \in V \cup {fn} : ClassOf(g) = "bridge" /\ SecondaryOf(g) = b
  BY DEF ScanInv
<1>2. \A g \in V \cup {fn} : IF ClassOf(g) = "bridge" THEN SecondaryOf(g) \in C \cup {SecondaryOf(fn)}
                                                      ELSE g \in ToSet(devs)
  BY DEF ScanInv
<1> QED BY <1>1, <1>2 DEF ScanInv

\* No bus is checked twice: its only bridge was not passed before.
LEMMA NewBus ==
    ASSUME machine \in Machines, Ordinary, NEW V \in SUBSET Funcs, NEW C, NEW devs,
           ScanInv(V, C, devs), NEW fn \in Funcs, ClassOf(fn) = "bridge", fn \notin V
    PROVE  SecondaryOf(fn) \notin C
<1> SUFFICES ASSUME SecondaryOf(fn) \in C PROVE FALSE
  OBVIOUS
<1>1. SecondaryOf(fn) # 0
  BY BridgeFacts
<1>2. PICK g \in V : ClassOf(g) = "bridge" /\ SecondaryOf(g) = SecondaryOf(fn)
  BY <1>1 DEF ScanInv
<1>3. g = fn
  BY <1>2, BridgeFacts
<1> QED BY <1>2, <1>3

\* The invariant while check_bus runs, with the variables as parameters.
Scanned(st, devs) ==
    \E D \in SUBSET Nat : StackInv(D, st) /\ ScanInv(Visited(D, st), Called(D, st), devs)

LEMMA TurnScanned ==
    ASSUME machine \in Machines, Ordinary, Scanned(stack, pci_devs), Scanning,
           Last(stack).slot < PCI_MAX_DEVS
    PROVE  LET t == Append(Callers, After(Last(stack)))
           IN  /\ ~Present(Here) => Scanned(t, pci_devs)
               /\ Present(Here) /\ ClassOf(Here) # "bridge" => Scanned(t, Append(pci_devs, Here))
               /\ Present(Here) /\ ClassOf(Here) = "bridge" =>
                     Scanned(Append(t, check_bus(SecondaryOf(Here))), pci_devs)
<1> DEFINE t == Append(Callers, After(Last(stack)))
           h == Here
<1>1. PICK D \in SUBSET Nat : /\ StackInv(D, stack)
                              /\ ScanInv(Visited(D, stack), Called(D, stack), pci_devs)
  BY DEF Scanned
<1> DEFINE V == Visited(D, stack)
           C == Called(D, stack)
<1>2. /\ StackInv(D, t) /\ Called(D, t) = C
      /\ Visited(D, t) = V \cup ({h} \cap Funcs) /\ h \notin V
  <2>1. Turn(stack, t, h)
    BY DEF Turn, Scanning, Callers, Here
  <2> HIDE DEF t, h
  <2>2. Turned(D, stack, t, h)
    BY <1>1, <2>1, Advance
  <2> QED BY <2>2 DEF Turned
<1>3. Present(h) <=> h \in Funcs
  BY DEF Present, Funcs
<1>4. ASSUME ~Present(h) PROVE Scanned(t, pci_devs)
  <2>1. Visited(D, t) = V
    BY <1>2, <1>3, <1>4
  <2> QED BY <1>1, <1>2, <2>1 DEF Scanned
<1>5. ASSUME Present(h), ClassOf(h) # "bridge" PROVE Scanned(t, Append(pci_devs, h))
  <2>1. Visited(D, t) = V \cup {h}
    BY <1>2, <1>3, <1>5
  <2>2. ScanInv(V \cup {h}, C, Append(pci_devs, h))
    <3> HIDE DEF V, C, h
    <3> QED BY <1>1, <1>2, <1>3, <1>5, AppendDevice DEF V, C
  <2> QED BY <1>2, <2>1, <2>2 DEF Scanned
<1>6. ASSUME Present(h), ClassOf(h) = "bridge"
      PROVE  Scanned(Append(t, check_bus(SecondaryOf(h))), pci_devs)
  <2> DEFINE b == SecondaryOf(h)
             u == Append(t, check_bus(b))
  <2>1. Visited(D, t) = V \cup {h}
    BY <1>2, <1>3, <1>6
  <2>2. V \in SUBSET Funcs
    BY DEF Visited
  <2>3. b \notin C
    <3> HIDE DEF V, C, h
    <3> QED BY <1>1, <1>2, <1>3, <1>6, <2>2, NewBus DEF V, C
  <2>4. b \in Nat /\ b > h[1] /\ h[1] \in Nat
    <3> HIDE DEF h
    <3> QED BY <1>3, <1>6, BridgeFacts
  <2>5. b \notin D
    BY <2>3 DEF Called
  <2>6. ASSUME NEW k \in DOMAIN t PROVE t[k].bus < b
    <3>1. stack \in Seq(Positions) /\ stack # <<>> /\ t \in Seq(Positions)
      BY <1>1, <1>2 DEF StackInv, Scanning
    <3> DEFINE n == Len(stack)
    <3>2. n \in DOMAIN stack /\ stack[n] = Last(stack) /\ h[1] = stack[n].bus
      BY <3>1 DEF Last, Here
    <3>3. t[k].bus \in C
      BY <1>2, <2>6 DEF Called
    <3>4. t[k].bus \notin D
      BY <1>2 DEF StackInv
    <3>5. PICK j \in DOMAIN stack : t[k].bus = stack[j].bus
      BY <3>3, <3>4 DEF Called
    <3>6. stack[j] \in Positions /\ stack[n] \in Positions /\ j \in Nat /\ n \in Nat /\ j <= n
      BY <3>1, <3>2
    <3> HIDE DEF n, h, t, b
    <3>7. stack[j].bus <= stack[n].bus
      <4>1. CASE j = n
        BY <3>6, <4>1 DEF Positions
      <4>2. CASE j < n
        <5>1. stack[j].bus < stack[n].bus
          BY <1>1, <3>2, <4>2 DEF StackInv
        <5> QED BY <3>6, <5>1 DEF Positions
      <4> QED BY <3>6, <4>1, <4>2
    <3>8. stack[j].bus \in Nat /\ stack[n].bus \in Nat
      BY <3>6 DEF Positions
    <3> QED BY <2>4, <3>2, <3>5, <3>7, <3>8
  <2>7. StackInv(D, u) /\ Called(D, u) = C \cup {b} /\ Visited(D, u) = V \cup {h}
    <3>1. /\ StackInv(D, u) /\ Called(D, u) = Called(D, t) \cup {b}
          /\ Visited(D, u) = Visited(D, t)
      <4>1. Call(D, t, b, u)
        <5> HIDE DEF t, b
        <5> QED BY <2>4, <2>5, <2>6 DEF Call
      <4> HIDE DEF t, b, u
      <4>2. HasCalled(D, t, b, u)
        BY <1>2, <4>1, Push
      <4> QED BY <4>2 DEF HasCalled
    <3> HIDE DEF u, V, C, h, b, t
    <3> QED BY <1>2, <2>1, <3>1
  <2>8. ScanInv(V \cup {h}, C \cup {b}, pci_devs)
    <3> HIDE DEF V, C, h
    <3> QED BY <1>1, <1>3, <1>6, AppendBridge DEF V, C
  <2> HIDE DEF u, V, C, h, b
  <2>9. Scanned(u, pci_devs)
    BY <2>7, <2>8 DEF Scanned
  <2> QED BY <2>9 DEF u, b
<1> QED BY <1>4, <1>5, <1>6

LEMMA ReturnScanned ==
    ASSUME machine \in Machines, Scanned(stack, pci_devs), Scanning,
           Last(stack).slot = PCI_MAX_DEVS
    PROVE  Scanned(Callers, pci_devs)
<1>1. PICK D \in SUBSET Nat : /\ StackInv(D, stack)
                              /\ ScanInv(Visited(D, stack), Called(D, stack), pci_devs)
  BY DEF Scanned
<1> DEFINE E == D \cup {Last(stack).bus}
<1>2. /\ StackInv(E, Callers) /\ Called(E, Callers) = Called(D, stack)
      /\ Visited(E, Callers) = Visited(D, stack)
  BY <1>1, Pop DEF Scanning, Callers
<1>3. E \in SUBSET Nat
  BY <1>2 DEF StackInv
<1> HIDE DEF E
<1> QED BY <1>1, <1>2, <1>3 DEF Scanned

\* init_pci calls check_bus(0).
LEMMA FirstScanned == ASSUME machine \in Machines PROVE Scanned(<<check_bus(0)>>, <<>>)
<1> DEFINE st == <<>>
           t  == Append(st, check_bus(0))
<1>1. StackInv({}, st)
  BY DEF StackInv
<1>2. StackInv({}, t) /\ Called({}, t) = Called({}, st) \cup {0} /\ Visited({}, t) = Visited({}, st)
  <2>1. Call({}, st, 0, t)
    BY DEF Call
  <2> HIDE DEF st, t
  <2>2. HasCalled({}, st, 0, t)
    BY <1>1, <2>1, Push
  <2> QED BY <2>2 DEF HasCalled
<1>3. Called({}, st) = {} /\ Visited({}, st) = {}
  BY DEF Called, Visited
<1>4. ScanInv({}, {0}, <<>>)
  BY DEF ScanInv
<1>5. t = <<check_bus(0)>>
  OBVIOUS
<1> HIDE DEF t, st
<1>6. Scanned(t, <<>>)
  BY <1>2, <1>3, <1>4 DEF Scanned
<1> QED BY <1>5, <1>6

LEMMA TwoAppends ==
    ASSUME NEW S, NEW st \in Seq(S), st # <<>>, NEW p, NEW q
    PROVE  Front(st) \o <<p, q>> = Append(Append(Front(st), p), q)
<1> DEFINE f == Front(st)
           T == S \cup {p, q}
<1>1. f \in Seq(T)
  <2>1. Len(st) \in Nat \ {0} /\ st \in Seq(T)
    OBVIOUS
  <2> HIDE DEF T
  <2> QED BY <2>1 DEF Front
<1>2. p \in T /\ q \in T
  OBVIOUS
<1> HIDE DEF f, T
<1>3. f \o <<p, q>> = Append(Append(f, p), q)
  BY <1>1, <1>2
<1> QED BY <1>3 DEF f

LEMMA EnumInvIsScanned ==
    EnumInv <=> /\ scan \in {"start", "hosts", "done", "overflow"}
                /\ scan = "start" => pci_devs = <<>>
                /\ scan \in {"hosts", "done"} =>
                     host = PCI_MAX_FUNCS - 1 /\ Scanned(stack, pci_devs)
                /\ scan = "done" => stack = <<>>
BY DEF EnumInv, Scanned

LEMMA EnumInvNext ==
    ASSUME machine' = machine, scan' \in {"start", "hosts", "done", "overflow"},
           scan' = "start" => pci_devs' = <<>>,
           scan' \in {"hosts", "done"} => host' = PCI_MAX_FUNCS - 1 /\ Scanned(stack', pci_devs'),
           scan' = "done" => stack' = <<>>
    PROVE  EnumInv'
<1>1. CASE scan' \in {"hosts", "done"}
  <2>1. PICK D \in SUBSET Nat : /\ StackInv(D, stack')
                                /\ ScanInv(Visited(D, stack'), Called(D, stack'), pci_devs')
    BY <1>1 DEF Scanned
  <2>2. StackInv(D, stack)' /\ ScanInv(Visited(D, stack), Called(D, stack), pci_devs)'
    BY <2>1 DEF StackInv, ScanInv, Visited, Called, Funcs, ClassOf, SecondaryOf
  <2> QED BY <2>2, <1>1 DEF EnumInv
<1>2. CASE scan' \notin {"hosts", "done"}
  BY <1>2 DEF EnumInv
<1> QED BY <1>1, <1>2

LEMMA EnumerationEnumInv ==
    ASSUME machine \in Machines, Ordinary, EnumInv, EnumerationStep, machine' = machine
    PROVE  EnumInv'
<1> USE EnumInvIsScanned
<1>1. CASE init_pci
  <2>1. /\ scan' = "hosts" /\ host' = PCI_MAX_FUNCS - 1 /\ stack' = <<check_bus(0)>>
        /\ pci_devs' = <<>>
    BY <1>1 DEF init_pci, Ordinary
  <2>2. Scanned(stack', pci_devs')
    BY <2>1, FirstScanned
  <2> QED BY <2>1, <2>2, EnumInvNext
<1>2. CASE NextHost
  <2>1. scan = "hosts" /\ host = PCI_MAX_FUNCS - 1 /\ Scanned(stack, pci_devs) /\ stack = <<>>
    BY <1>2 DEF NextHost
  <2>2. ~(host + 1 < PCI_MAX_FUNCS)
    BY <2>1, ConfigSpaceAssumption
  <2>3. scan' = "done" /\ UNCHANGED <<host, stack, pci_devs>>
    BY <1>2, <2>2 DEF NextHost
  <2> QED BY <2>1, <2>3, EnumInvNext
<1>3. CASE ReturnFromBus
  <2>1. /\ Scanning /\ Last(stack).slot = PCI_MAX_DEVS /\ stack' = Callers
        /\ UNCHANGED <<scan, host, pci_devs>> /\ scan = "hosts"
    BY <1>3 DEF ReturnFromBus, Scanning
  <2>2. Scanned(Callers, pci_devs)
    BY <2>1, ReturnScanned
  <2> QED BY <2>1, <2>2, EnumInvNext
<1> DEFINE t == Append(Callers, After(Last(stack)))
<1>4. ASSUME Scanning, Last(stack).slot < PCI_MAX_DEVS
      PROVE  /\ ~Present(Here) => Scanned(t, pci_devs)
             /\ Present(Here) /\ ClassOf(Here) # "bridge" => Scanned(t, Append(pci_devs, Here))
             /\ Present(Here) /\ ClassOf(Here) = "bridge" =>
                   Scanned(Append(t, check_bus(SecondaryOf(Here))), pci_devs)
  <2>1. Scanned(stack, pci_devs)
    BY <1>4 DEF Scanning
  <2> QED BY <1>4, <2>1, TurnScanned
<1> HIDE DEF t
<1>5. CASE NoFunction
  <2>1. Scanning /\ stack' = t /\ UNCHANGED <<scan, host, pci_devs>> /\ scan = "hosts"
    BY <1>5 DEF NoFunction, Scanning, t
  <2>2. Scanned(t, pci_devs)
    BY <1>4, <1>5 DEF NoFunction
  <2> QED BY <2>1, <2>2, EnumInvNext
<1>6. CASE FoundDevice
  <2>1. /\ Scanning /\ stack' = t /\ pci_devs' = Append(pci_devs, Here)
        /\ UNCHANGED <<scan, host>> /\ scan = "hosts"
    BY <1>6 DEF FoundDevice, Scanning, t
  <2>2. Scanned(t, Append(pci_devs, Here))
    BY <1>4, <1>6 DEF FoundDevice
  <2> QED BY <2>1, <2>2, EnumInvNext
<1>7. CASE FoundBridge
  <2> DEFINE q == check_bus(SecondaryOf(Here))
  <2>1. /\ Scanning /\ stack' = Callers \o <<After(Last(stack)), q>>
        /\ scan' \in {"hosts", "overflow"} /\ scan = "hosts" /\ UNCHANGED <<host, pci_devs>>
    BY <1>7 DEF FoundBridge, Scanning
  <2>2. Scanned(Append(t, q), pci_devs)
    BY <1>4, <1>7 DEF FoundBridge
  <2>3. stack' = Append(t, q)
    <3>1. PICK D \in SUBSET Nat : StackInv(D, stack)
      BY <2>1 DEF Scanned
    <3>2. stack \in Seq(Positions) /\ stack # <<>>
      BY <2>1, <3>1 DEF StackInv, Scanning
    <3> HIDE DEF q
    <3> QED BY <2>1, <3>2, TwoAppends DEF t, Callers
  <2> HIDE DEF q
  <2> QED BY <2>1, <2>2, <2>3, EnumInvNext
<1> QED BY <1>1, <1>2, <1>3, <1>5, <1>6, <1>7 DEF EnumerationStep

LEMMA NextEnumInv ==
    ASSUME BootInv, Ordinary, EnumInv, [Next]_vars
    PROVE  EnumInv'
<1>1. machine \in Machines
  BY DEF BootInv, BootTypeInv
<1>2. machine' = machine
  BY DEF Next, Boots, BootStep, MapPage, BitmapSize, map_bitmap, UseBitmap, FreeEntry,
         ReserveAreas, Fault, MapTable, MapApics, Enumerates, SkipDevice, NoRegion, OpenAhci, OpenXhci,
         Open, NextDriver, Halt, Stopped, bootvars, vars
<1>3. CASE Enumerates
  BY <1>1, <1>2, <1>3, EnumerationEnumInv DEF Enumerates
<1>4. CASE UNCHANGED <<scan, host, stack, pci_devs>>
  BY <1>2, <1>4, EnumInvIsScanned, EnumInvNext
<1>5. Enumerates \/ UNCHANGED <<scan, host, stack, pci_devs>>
  BY DEF Next, Boots, SkipDevice, NoRegion, OpenAhci, OpenXhci, Open, NextDriver, Halt, Stopped,
         configvars, vars
<1> QED BY <1>3, <1>4, <1>5

\* When check_bus has returned from bus 0, it was called for the bus of every function:
\* the lowest bus it was not called for is behind a bridge on a lower one.
LEMMA EveryBusIsCalled ==
    ASSUME machine \in Machines, Ordinary, NEW D, StackInv(D, <<>>), NEW devs,
           ScanInv(Visited(D, <<>>), Called(D, <<>>), devs)
    PROVE  \A fn \in Funcs : fn[1] \in D
<1> DEFINE T == {b \in Nat : b \notin D /\ \E fn \in Funcs : fn[1] = b}
           b == LeastOf(T)
<1>1. Called(D, <<>>) = D /\ Visited(D, <<>>) = {fn \in Funcs : fn[1] \in D}
  BY DEF Called, Visited
<1>2. CASE T = {}
  <2>1. ASSUME NEW fn \in Funcs PROVE fn[1] \in D
    BY <1>2, FuncsAreTyped
  <2> QED BY <2>1
<1>3. CASE T # {}
  <2>1. b \in T /\ \A t \in T : b <= t
    BY <1>3, LeastOfIsLeast
  <2> HIDE DEF b
  <2>2. PICK fn \in Funcs : fn[1] = b
    BY <2>1
  <2>3. b # 0
    BY <1>1, <2>1 DEF ScanInv
  <2>4. PICK g \in Funcs : ClassOf(g) = "bridge" /\ SecondaryOf(g) = b
    BY <2>2, <2>3, BehindABridge
  <2>5. b > g[1] /\ g[1] \in Nat /\ b \in Nat
    BY <2>1, <2>4, BridgeFacts
  <2>6. g[1] \in D
    BY <2>1, <2>5
  <2>7. b \in D
    BY <1>1, <2>4, <2>6 DEF ScanInv
  <2> QED BY <2>1, <2>7
<1> QED BY <1>2, <1>3

\* A list without repetitions is as long as its set is large.
LEMMA LengthIsCardinality ==
    ASSUME NEW S, NEW s \in Seq(S), \A m, n \in DOMAIN s : m < n => s[m] # s[n]
    PROVE  Len(s) = Cardinality(ToSet(s))
<1> DEFINE T == ToSet(s)
           l == Len(s)
<1>1. l \in Nat /\ DOMAIN s = 1 .. l /\ s = [k \in 1 .. l |-> s[k]]
  OBVIOUS
<1>2. T = {s[k] : k \in 1 .. l}
  BY <1>1 DEF ToSet
<1> HIDE DEF T, l
<1>3. s \in [1 .. l -> T] /\ \A t \in T : \E k \in 1 .. l : s[k] = t
  BY <1>1, <1>2
<1>4. ASSUME NEW m \in 1 .. l, NEW n \in 1 .. l, s[m] = s[n] PROVE m = n
  <2>1. ~(m < n) /\ ~(n < m)
    BY <1>1, <1>4
  <2> QED BY <1>1, <2>1
<1>5. s \in Bijection(1 .. l, T)
  BY <1>3, <1>4 DEF Bijection, Injection, Surjection, IsInjective
<1>6. ExistsBijection(1 .. l, T)
  BY <1>5 DEF ExistsBijection
<1>7. Cardinality(T) = l
  BY <1>1, <1>6, FS_CountingElements
<1> QED BY <1>7 DEF T, l

\* Ordinary, of a machine that is a parameter.
OrdinaryOn(m) ==
    LET to(bus) == {fn \in DOMAIN m.pci.funcs :
                      m.pci.funcs[fn].class = "bridge" /\ m.pci.funcs[fn].secondary = bus}
    IN  /\ ~m.pci.cache_line
        /\ \A fn \in DOMAIN m.pci.funcs :
             /\ fn[1] # 0 => Cardinality(to(fn[1])) = 1
             /\ m.pci.funcs[fn].class = "bridge" => m.pci.funcs[fn].secondary > fn[1]
                                      /\ to(m.pci.funcs[fn].secondary) = {fn}

(***************************************************************************)
(* For every number of slots and functions and every tree of buses: when   *)
(* init_pci is done, the recursion of check_bus has come to every bus that *)
(* a bridge leads to, once, and pci_devs has every function that is not a  *)
(* bridge, once.                                                           *)
(***************************************************************************)
THEOREM EveryFunctionFound == Spec => []EveryFunctionOnce
<1>1. KernelInit => EnumInv
  BY DEF KernelInit, PciInit, EnumInv
<1>2. BootInv /\ [Next]_vars => (Ordinary' => Ordinary)
  <2> SUFFICES ASSUME [Next]_vars, Ordinary' PROVE Ordinary
    OBVIOUS
  <2>1. machine' = machine
    BY DEF Next, Boots, BootStep, MapPage, BitmapSize, map_bitmap, UseBitmap, FreeEntry,
           ReserveAreas, Fault, MapTable, MapApics, Enumerates, SkipDevice, NoRegion, OpenAhci, OpenXhci,
           Open, NextDriver, Halt, Stopped, bootvars, vars
  <2>2. Ordinary <=> OrdinaryOn(machine)
    BY DEF Ordinary, OrdinaryOn, BridgesTo, ClassOf, SecondaryOf
  <2>3. Ordinary' <=> OrdinaryOn(machine')
    BY DEF Ordinary, OrdinaryOn, BridgesTo, ClassOf, SecondaryOf
  <2> QED BY <2>1, <2>2, <2>3
<1>3. BootInv /\ (Ordinary => EnumInv) /\ [Next]_vars => (Ordinary => EnumInv)'
  BY <1>2, NextEnumInv
<1>4. BootInv /\ (Ordinary => EnumInv) => EveryFunctionOnce
  <2> SUFFICES ASSUME BootInv, Ordinary, EnumInv, scan = "done" PROVE EveryFunctionOnce
    BY DEF EveryFunctionOnce
  <2>1. machine \in Machines /\ stack = <<>>
    BY DEF BootInv, BootTypeInv, EnumInv
  <2>2. PICK D \in SUBSET Nat : /\ StackInv(D, <<>>)
                                /\ ScanInv(Visited(D, <<>>), Called(D, <<>>), pci_devs)
    BY <2>1 DEF EnumInv
  <2>3. \A fn \in Funcs : fn[1] \in D
    BY <2>1, <2>2, EveryBusIsCalled
  <2>4. Visited(D, <<>>) = Funcs
    BY <2>3 DEF Visited
  <2>5. ToSet(pci_devs) = {fn \in Funcs : ClassOf(fn) # "bridge"}
    BY <2>2, <2>4 DEF ScanInv, ToSet
  <2>6. Len(pci_devs) = Cardinality(ToSet(pci_devs))
    BY <2>2, LengthIsCardinality DEF ScanInv
  <2> QED BY <2>5, <2>6 DEF EveryFunctionOnce, Funcs
<1> QED BY BootInvariance, <1>1, <1>3, <1>4, PTL DEF Spec
=============================================================================
