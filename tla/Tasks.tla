------------------------------- MODULE Tasks -------------------------------
(***************************************************************************)
(* Address spaces and tasks: the drivers' blocks and the tasks the kernel  *)
(* sets up (main.c, proc/task.c), the scheduler (proc/scheduler.c) and the *)
(* mmap and sched_yield system calls (syscall/syscall.c), on top of Paging *)
(* and the frame allocator.                                                *)
(*                                                                         *)
(* RAM that was never used reads as zero, which the kernel relies on:      *)
(* create_table does not clear the frame it takes.  Once an allocation has *)
(* answered 0x0, which no caller checks for, or a table was made of a      *)
(* frame with old contents, nothing more is allocated here (m.lost), and   *)
(* the properties below are about the time before.                         *)
(***************************************************************************)
EXTENDS Paging, FiniteSets

CONSTANTS MAX_TASKS,
          StackPages,    \* pagesCount of add_task (0xf)
          DataOffset,    \* text_seg_size in pages
          FuncFrames,    \* frames of the kernel image that hold task functions
          DriverCounts,  \* counts drivers ask pmm_alloc for
          MaxCreated,    \* bound: calls of add_task
          MmapPages,     \* first pages tasks pass to mmap
          MmapCounts,    \* numbers of pages they ask for
          MaxCalls       \* bound: calls of pmm_alloc by drivers and of mmap by tasks

VARIABLES m,        \* the machine (Paging)
          s_tasks,  \* the TCBs, s_tasks[1] .. s_tasks[Len(s_tasks)]
          s_cur_task,
          cr3,
          mode,     \* "boot", "user", "halted"
          calls,    \* how many of these were made, up to MaxCalls
          live,     \* history: the blocks drivers hold
          kmap,     \* history: what each kernel page was last mapped to
          umap      \* history: the same for the user pages of each space

vars == <<m, s_tasks, s_cur_task, cr3, mode, calls, live, kmap, umap>>

(***************************************************************************)
(* The user part of an address space: stack, function and data of a task   *)
(* in one page table of the third PDP table, mmap in the second.           *)
(***************************************************************************)
UserPage(i)   == <<2, 0, 0, i>>
StackTop      == UserPage(StackPages)
FuncPage      == UserPage(StackPages + 1)
MmapPage(p, i) == <<p[1], p[2], p[3], p[4] + i>>

KernelPages == {IdentityPage(f) : f \in Frames} \ {TmpPage}
UserPages   == {UserPage(i) : i \in 0 .. (TableSize - 1)}
               \cup {MmapPage(p, i) : p \in MmapPages, i \in 0 .. (TableSize - 2)}
Spaces      == DOMAIN umap
Nothing     == [p \in UserPages |-> NotMapped]

\* The bootloader's tables identity map the boot frames: PML4, PDP, PD and PT.
BootTables(f) ==
    [i \in 0 .. (TableSize - 1) |->
        CASE f \in {Kernel, Kernel + 1, Kernel + 2} /\ i = 0
                -> Entry(f + 1, {"Present", "Writeable"})
          [] f = Kernel + 3 /\ i \in BootFrames -> Entry(i, {"Present", "Writeable"})
          [] OTHER -> NoEntry]

Init ==
    /\ m = [mem |-> [f \in Frames |-> BootTables(f)],
            pmm |-> [bitmap |-> BootFrames, last_idx |-> 0,
                     last_idx_bit |-> BITMAP_BLOCK_SIZE - 1],
            used |-> {}, lost |-> FALSE]
    /\ s_tasks = <<>> /\ s_cur_task = 0
    /\ cr3 = Kernel /\ mode = "boot" /\ calls = 0
    /\ live = {}
    /\ kmap = [p \in KernelPages |->
                 IF \E f \in BootFrames : p = IdentityPage(f)
                 THEN (CHOOSE f \in BootFrames : p = IdentityPage(f)) ELSE NotMapped]
    /\ umap = <<>>

\* history: pages of the block now map to its frames, or to nothing.
Remap(pages, frame(_), flags, was) ==
    [p \in DOMAIN was |->
        IF p \in pages THEN IF "Present" \in flags THEN frame(p) ELSE NotMapped ELSE was[p]]
FrameOfIdentity(p) == p[3] * TableSize + p[4]
BlockPages(addr, count) == {IdentityPage(addr + i) : i \in 0 .. (count - 1)}

(***************************************************************************)
(* Drivers: pmm_alloc and pmm_free on identity mapped blocks.              *)
(***************************************************************************)
DriverAlloc(count) ==
    LET r == pmm_alloc_custom(m, count, {"Present", "Writeable"})
    IN  /\ mode = "boot" /\ ~m.lost
        /\ calls < MaxCalls /\ calls' = calls + 1
        /\ m' = r.m
        /\ live' = live \cup {[addr |-> r.addr, count |-> count]}
        /\ kmap' = Remap(BlockPages(r.addr, count), FrameOfIdentity, {"Present"}, kmap)
        /\ UNCHANGED <<s_tasks, s_cur_task, cr3, mode, umap>>

DriverFree(b) ==
    /\ mode = "boot"
    /\ m' = pmm_free(m, b.addr, b.count)
    /\ live' = live \ {b}
    /\ kmap' = Remap(BlockPages(b.addr, b.count), FrameOfIdentity, {}, kmap)
    /\ UNCHANGED <<s_tasks, s_cur_task, cr3, mode, calls, umap>>

(***************************************************************************)
(* add_task: a new space; the stack from its top downwards, from the frame *)
(* after the block down; two pages of the function and two of its data;    *)
(* and a TCB, unless the table is full.                                    *)
(***************************************************************************)
StackFrame(addr, i) == addr + StackPages - i

\* Mutant of add_tcb: the table has no end.
add_tcbUnbounded(tcb) == s_tasks' = Append(s_tasks, tcb)

add_tcb(tcb) ==
    s_tasks' = IF Len(s_tasks) >= MAX_TASKS THEN s_tasks ELSE Append(s_tasks, tcb)

\* What page p of a task's space maps to.
TaskPage(p, stack, func) ==
    IF p[1] # 2 \/ p[4] = 0 THEN NotMapped
    ELSE IF p[4] <= StackPages THEN StackFrame(stack, StackPages - p[4])
    ELSE IF p[4] - (StackPages + 1) \in {0, 1, DataOffset, DataOffset + 1}
    THEN func + p[4] - (StackPages + 1) ELSE NotMapped

\* Stack, function and data are mapped in the space pml4.
LoadTask(m0, pml4, stack, func) ==
    LET flags == {"Present", "Writeable", "User"}
        m1    == MapMany(m0, pml4, StackPages, LAMBDA i : UserPage(StackPages - i),
                         LAMBDA i : StackFrame(stack, i), flags)
        m2    == MapMany(m1, pml4, 2, LAMBDA i : UserPage(StackPages + 1 + i),
                         LAMBDA i : func + i, flags)
    IN  MapMany(m2, pml4, 2, LAMBDA i : UserPage(StackPages + 1 + DataOffset + i),
                LAMBDA i : func + DataOffset + i, flags)

AddTo(pml4, r, func) ==
    /\ m' = LoadTask(r.m, pml4, r.addr, func)
    /\ add_tcb([user_stack |-> StackTop, user_func |-> FuncPage, virt_addr_space |-> pml4,
                stack |-> FrameRange(r.addr, StackPages)])
    /\ kmap' = Remap({IdentityPage(pml4)}, FrameOfIdentity, {"Present"}, kmap)
    /\ umap' = [s \in Spaces \cup {pml4} |->
                  IF s = pml4 THEN [p \in UserPages |-> TaskPage(p, r.addr, func)] ELSE umap[s]]

add_task(func) ==
    /\ mode = "boot" /\ ~m.lost
    /\ Cardinality(Spaces) < MaxCreated
    /\ LET u == create_user_pml4(m) IN AddTo(u.pml4, alloc(u.m, StackPages), func)
    /\ UNCHANGED <<s_cur_task, cr3, mode, calls, live>>

(***************************************************************************)
(* The scheduler.                                                          *)
(***************************************************************************)
\* Mutant of jump_usermode: cr3 is not loaded.
jump_usermodeSameSpace(k) == cr3' = cr3 /\ mode' = "user"

jump_usermode(k) == cr3' = s_tasks[k + 1].virt_addr_space /\ mode' = "user"

\* With no task start_scheduler returns, and kernel_main halts.
start_scheduler ==
    /\ mode = "boot"
    /\ IF s_tasks = <<>> THEN mode' = "halted" /\ cr3' = cr3 ELSE jump_usermode(0)
    /\ UNCHANGED <<m, s_tasks, s_cur_task, calls, live, kmap, umap>>

\* Mutant of switch_task: the last task is taken for the end of the array.
switch_taskSkipsLast ==
    /\ mode = "user"
    /\ s_cur_task' = s_cur_task + 1
    /\ IF s_cur_task' + 1 >= Len(s_tasks)
       THEN mode' = "halted" /\ cr3' = cr3
       ELSE jump_usermode(s_cur_task')
    /\ UNCHANGED <<m, s_tasks, calls, live, kmap, umap>>

\* sched_yield_syscall: the next task of the array, from its beginning.
switch_task ==
    /\ mode = "user"
    /\ s_cur_task' = s_cur_task + 1
    /\ IF s_cur_task' >= MAX_TASKS \/ s_cur_task' >= Len(s_tasks)
       THEN mode' = "halted" /\ cr3' = cr3
       ELSE jump_usermode(s_cur_task')
    /\ UNCHANGED <<m, s_tasks, calls, live, kmap, umap>>

get_addr_space == s_tasks[s_cur_task + 1].virt_addr_space

\* mmap_syscall: PROT_READ and PROT_WRITE are the bits Present and Writeable.
PageFlagsOf(prot) == {"User"} \cup (prot \cap {"Present", "Writeable"})
                              \cup (IF "Exec" \in prot THEN {} ELSE {"ExecDisable"})

mmap_syscall(addr, pages, prot) ==
    LET r     == alloc(m, pages)
        space == get_addr_space
        flags == PageFlagsOf(prot)
        mine  == {MmapPage(addr, i) : i \in 0 .. (pages - 1)}
    IN  /\ mode = "user" /\ ~m.lost
        /\ calls < MaxCalls /\ calls' = calls + 1
        /\ m' = MapMany(r.m, space, pages, LAMBDA i : MmapPage(addr, i),
                        LAMBDA i : r.addr + i, flags)
        /\ umap' = [umap EXCEPT ![space] =
                      Remap(mine, LAMBDA p : r.addr + p[4] - addr[4], flags, @)]
        /\ UNCHANGED <<s_tasks, s_cur_task, cr3, mode, live, kmap>>

Prots == {{}, {"Present"}, {"Present", "Writeable", "Exec"}}

\* syscall_entry calls the entry of syscall_table on its own stack, with the
\* task's tables loaded; the system calls that only print are left out.
syscall_entry ==
    \/ switch_task
    \/ \E addr \in MmapPages, pages \in MmapCounts, prot \in Prots :
          mmap_syscall(addr, pages, prot)

Next ==
    \/ \E count \in DriverCounts : DriverAlloc(count)
    \/ \E b \in live : DriverFree(b)
    \/ \E func \in FuncFrames : add_task(func)
    \/ start_scheduler
    \/ syscall_entry

\* The tasks of example_tasks yield when they are done; the kernel starts the
\* scheduler once it is initialised.
Spec == Init /\ [][Next]_vars /\ WF_vars(start_scheduler) /\ WF_vars(switch_task)
-----------------------------------------------------------------------------
(***************************************************************************)
(* Every space the kernel has built, and the kernel's own.                 *)
(***************************************************************************)
AllSpaces == Spaces \cup {Kernel}

(***************************************************************************)
(* Every entry has a frame and known flags, the TCBs fit in s_tasks, and   *)
(* cr3 holds a space that was built (add_tcb, jump_usermode).              *)
(***************************************************************************)
TypeOK ==
    /\ m.mem \in [Frames -> [0 .. (TableSize - 1) ->
                     [frame : Nat, flags : SUBSET {"Present", "Writeable", "User", "ExecDisable"}]]]
    /\ m.pmm.bitmap \subseteq Frames
    /\ Len(s_tasks) <= MAX_TASKS /\ s_cur_task \in 0 .. MAX_TASKS
    /\ cr3 \in AllSpaces

(***************************************************************************)
(* The tables hold what was mapped, in every space: the processor          *)
(* translates each page to the frame it was last mapped to by map_frame,   *)
(* pmm_alloc, add_task or mmap, and faults on every other page.  A walk    *)
(* that confused the one temporary mapping, a table created twice, or an   *)
(* unmap of the wrong entry would show here; and kernel pages are the same *)
(* in every space, because system calls run on the caller's tables.        *)
(***************************************************************************)
TablesMatchMappings ==
    ~m.lost =>
        /\ \A s \in AllSpaces, p \in KernelPages : Translate(m, s, p) = kmap[p]
        /\ \A s \in Spaces, p \in UserPages : Translate(m, s, p) = umap[s][p]

(***************************************************************************)
(* The page tables form a tree per space, below the shared first entry:    *)
(* every table is a frame the allocator keeps reserved, no table is        *)
(* reached from two entries, and no block a driver holds is a table.       *)
(***************************************************************************)
Children(f, I) == {<<f, i>> : i \in {i \in I : m.mem[f][i].frame # 0}}
Inner ==
    LET top  == UNION {Children(s, 1 .. (TableSize - 1)) : s \in AllSpaces}
                \cup Children(Kernel, {0})
        kid(e) == m.mem[e[1]][e[2]].frame
        mid  == UNION {Children(kid(e), 0 .. (TableSize - 1)) : e \in top}
        low  == UNION {Children(kid(e), 0 .. (TableSize - 1)) : e \in mid}
    IN  top \cup mid \cup low

TablesAreTree ==
    ~m.lost =>
        /\ \A e, d \in Inner : m.mem[e[1]][e[2]].frame = m.mem[d[1]][d[2]].frame => e = d
        /\ \A e \in Inner : m.mem[e[1]][e[2]].frame \in m.pmm.bitmap \ AllSpaces
        /\ \A b \in live : \A e \in Inner :
              m.mem[e[1]][e[2]].frame \notin FrameRange(b.addr, b.count)

(***************************************************************************)
(* The task that runs can run: its own space is loaded, mmap will map into *)
(* that space, and the page below its stack pointer and its function are   *)
(* there.                                                                  *)
(***************************************************************************)
RunningTaskIsMapped ==
    mode = "user" /\ ~m.lost =>
        /\ cr3 = get_addr_space
        /\ Translate(m, cr3, UserPage(StackPages - 1)) # NotMapped
        /\ Translate(m, cr3, FuncPage) # NotMapped

(***************************************************************************)
(* Every task that was added runs, if each task yields.                    *)
(***************************************************************************)
EveryTaskRuns ==
    \A k \in 1 .. MAX_TASKS :
        mode = "boot" /\ Len(s_tasks) >= k ~> mode = "user" /\ s_cur_task = k - 1

(***************************************************************************)
(* The stack of a task is made of the frames that were allocated for it:   *)
(* "return addr to count continues frames and reserves them in bitmap"     *)
(* (phys.c:222).                                                           *)
(***************************************************************************)
StackOwnsItsFrames ==
    ~m.lost => \A k \in 1 .. Len(s_tasks) : \A i \in 1 .. StackPages :
        Translate(m, s_tasks[k].virt_addr_space, UserPage(i)) \in s_tasks[k].stack
=============================================================================
