------------------------------- MODULE Paging -------------------------------
(***************************************************************************)
(* memory/paging.c: the four level page tables, walked and built through   *)
(* one temporary mapping, with tables taken from the frame allocator.      *)
(*                                                                         *)
(* A machine m is a record                                                 *)
(*   mem  the entries in every frame, read as a table,                     *)
(*   pmm  the allocator's static variables (FrameBitmap),                  *)
(*   used history: the frames a driver has had and given back,             *)
(*   lost history: an allocation has answered 0x0, or create_table, which  *)
(*        does not clear the frame, took one whose old contents it then    *)
(*        reads as entries.                                                *)
(* A pointer to an entry is what the code dereferences: an entry of the    *)
(* frame behind TMP_ADDR (win), whatever that frame is by then, or of an   *)
(* identity mapped frame.  A page is its four indices.                     *)
(***************************************************************************)
EXTENDS FrameBitmap, Sequences

CONSTANTS bitmap_size,
          TableSize,   \* entries of a table (512)
          BootFrames,  \* frames below 0x800000, always dereferenceable
          TmpPage,     \* TMP_ADDR
          Kernel       \* s_pml4_table, a boot frame

Frames == 0 .. (bitmap_size * BITMAP_BLOCK_SIZE - 1)
NoEntry == [frame |-> 0, flags |-> {}]
Entry(frame, flags) == [frame |-> frame, flags |-> flags]

Window(idx)        == [win |-> TRUE, frame |-> 0, idx |-> idx]
Direct(frame, idx) == [win |-> FALSE, frame |-> frame, idx |-> idx]
NullPtr            == [win |-> FALSE, frame |-> 0, idx |-> -1]

\* The flags argument (uint64_t)-1: look up, do not create.
Lookup == {"lookup"}

\* The entry of TMP_ADDR in the page table that maps it (get_temp_entry).
TmpTable(m) ==
    LET pdp == m.mem[Kernel][TmpPage[1]].frame
        pd  == m.mem[pdp][TmpPage[2]].frame
    IN  m.mem[pd][TmpPage[3]].frame

tmp_map(m, frame) ==
    [m EXCEPT !.mem[TmpTable(m)][TmpPage[4]] = Entry(frame, {"Present", "Writeable"})]

Behind(m, ptr) == IF ptr.win THEN m.mem[TmpTable(m)][TmpPage[4]].frame ELSE ptr.frame
Load(m, ptr)   == m.mem[Behind(m, ptr)][ptr.idx]
Store(m, ptr, e) == [m EXCEPT !.mem[Behind(m, ptr)][ptr.idx] = e]

\* Mutant of alloc: the frame is found but not reserved.
allocUnreserved(m, count) ==
    [addr |-> pmm_alloc_unmapped(m.pmm, bitmap_size, count).addr, m |-> m]

\* The allocator, which may answer 0.
Given(m, r) == [addr |-> r.addr, m |-> [m EXCEPT !.pmm = r.pmm, !.lost = @ \/ r.addr = 0]]
alloc(m, count) == Given(m, pmm_alloc_unmapped(m.pmm, bitmap_size, count))

\* A walk's state: the machine and the pointer it is at.
At(m, ptr) == [m |-> m, ptr |-> ptr]

valid_pointer(m, ptr) ==
    IF ~ptr.win /\ ptr.frame \notin BootFrames
    THEN At(tmp_map(m, ptr.frame), Window(ptr.idx))
    ELSE At(m, ptr)

\* Mutant of create_table: TMP_ADDR is moved before the entry is written through it.
create_tableMapFirst(m, ptr, flags) ==
    LET r  == alloc(m, 1)
        m1 == tmp_map(r.m, r.addr)
    IN  At(Store(m1, ptr, Entry(r.addr, flags)), Window(0))

\* The frame r is linked from the entry at ptr, and then TMP_ADDR moves to it.
LinkTable(r, ptr, flags) ==
    At(tmp_map(Store([r.m EXCEPT !.lost = @ \/ r.addr \in r.m.used], ptr, Entry(r.addr, flags)),
               r.addr),
       Window(0))
create_table(m, ptr, flags) == LinkTable(alloc(m, 1), ptr, flags)

\* The table below entry e, which the walk w is at.
TableBelow(w, e, flags) ==
    IF e.frame = 0 \/ pmm_is_free(w.m.pmm.bitmap, e.frame)
    THEN IF flags # Lookup THEN create_table(w.m, w.ptr, flags) ELSE At(w.m, NullPtr)
    ELSE valid_pointer(IF "Present" \notin e.flags /\ flags # Lookup
                       THEN Store(w.m, w.ptr, Entry(e.frame, e.flags \cup flags))
                       ELSE w.m,
                       Direct(e.frame, 0))
EntryBelow(w, flags) == TableBelow(w, Load(w.m, w.ptr), flags)
get_table_from_entry(m, ptr, flags) == EntryBelow(valid_pointer(m, ptr), flags)

\* One level down: the entry at index idx of the table the walk is at.
Descend(w, flags, idx) ==
    IF w.ptr = NullPtr THEN w
    ELSE get_table_from_entry(w.m, [w.ptr EXCEPT !.idx = idx], flags)

\* The walk moves on to entry idx of the table it has reached.
EntryAt(w, idx) == IF w.ptr = NullPtr THEN w ELSE At(w.m, [w.ptr EXCEPT !.idx = idx])

get_entry(m, pml4, flags, page) ==
    EntryAt(Descend(Descend(Descend(At(m, Direct(pml4, 0)), flags, page[1]),
                            flags, page[2]),
                    flags, page[3]),
            page[4])

lookup_entry(m, pml4, page) == get_entry(m, pml4, Lookup, page)

\* The entry a walk has reached is written, if there is one.
Write(w, e) == IF w.ptr = NullPtr THEN w.m ELSE Store(w.m, w.ptr, e)

map(m, pml4, page, frame, flags) == Write(get_entry(m, pml4, flags, page), Entry(frame, flags))

unmap(m, pml4, page) == Write(lookup_entry(m, pml4, page), NoEntry)

\* to_phys and to_usr_phys: the machine afterwards (the walk moves TMP_ADDR)
\* and the frame, 0 for "no valid and/or present entry".
PhysOf(w) == [m     |-> w.m,
              frame |-> IF w.ptr # NullPtr /\ "Present" \in Load(w.m, w.ptr).flags
                        THEN Load(w.m, w.ptr).frame ELSE 0]
to_phys(m, pml4, page) == PhysOf(lookup_entry(m, pml4, page))

\* Frames are mapped at the page of the same number, in the first PDP table.
IdentityPage(frame) == <<0, 0, frame \div TableSize, frame % TableSize>>

\* n maps in a row: page(i) to frame(i) for i in 0..n-1.
MapMany(m, pml4, n, page(_), frame(_), flags) ==
    LET done[i \in 0 .. n] ==
            IF i = 0 THEN m ELSE map(done[i - 1], pml4, page(i - 1), frame(i - 1), flags)
    IN  done[n]

\* pmm_alloc_custom maps the block even if the allocator answered 0x0.
Identity(r, count, flags) ==
    [addr |-> r.addr,
     m    |-> MapMany(r.m, Kernel, count, LAMBDA i : IdentityPage(r.addr + i),
                      LAMBDA i : r.addr + i, flags)]
pmm_alloc_custom(m, count, flags) == Identity(alloc(m, count), count, flags)

\* The frames are given back, then their pages unmapped.
Release(p, frame, count) ==
    LET done[i \in 0 .. count] ==
            IF i = 0
            THEN [p.m EXCEPT !.pmm.bitmap = free_frames(p.m.pmm.bitmap, p.frame, count),
                             !.used = @ \cup FrameRange(p.frame, count)]
            ELSE unmap(done[i - 1], Kernel, IdentityPage(frame + i - 1))
    IN  done[count]
pmm_free(m, frame, count) == Release(to_phys(m, Kernel, IdentityPage(frame)), frame, count)

\* The new PML4 shares the kernel's first PDP table and nothing else.
UserTables(r) ==
    [pml4 |-> r.addr,
     m    |-> [r.m EXCEPT !.mem[r.addr] =
                 [i \in 0 .. (TableSize - 1) |->
                    IF i = 0 THEN r.m.mem[Kernel][0] ELSE NoEntry]]]
create_user_pml4(m) == UserTables(Identity(alloc(m, 1), 1, {"Present", "Writeable", "User"}))

(***************************************************************************)
(* The processor's own walk: every level must be present.  NotMapped       *)
(* stands for a page fault.                                                *)
(***************************************************************************)
NotMapped == -1

Translate(m, pml4, page) ==
    LET e4 == m.mem[pml4][page[1]]
        e3 == m.mem[e4.frame][page[2]]
        e2 == m.mem[e3.frame][page[3]]
        e1 == m.mem[e2.frame][page[4]]
    IN  IF /\ "Present" \in e4.flags /\ "Present" \in e3.flags
           /\ "Present" \in e2.flags /\ "Present" \in e1.flags
        THEN e1.frame ELSE NotMapped
=============================================================================
