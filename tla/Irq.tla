-------------------------------- MODULE Irq --------------------------------
(***************************************************************************)
(* interrupt/apic: the lines of the IO APIC, the handlers of ioapic.c and  *)
(* the interrupt source overrides of the MADT.  One processor; interrupts  *)
(* arrive between any two steps of the kernel once init_interrupts has     *)
(* enabled them.  The APICs are external.                                  *)
(*                                                                         *)
(* There is one IO APIC, with base 0.  Delivery modes are left out, and an *)
(* entry is of the edge kind (high active, as on the ISA bus) or of the    *)
(* level kind (low active, as on PCI).  A request of a masked line is      *)
(* lost.                                                                   *)
(***************************************************************************)
EXTENDS Integers, Sequences, SequencesExt, FiniteSets, FiniteSetsExt

CONSTANTS ISA_INTERRUPT_COUNT, \* sources that can be overridden
          MaxEntries,          \* entries of the IO APIC
          IO_VECTOR_COUNT,     \* entries of io_handlers
          Firmwares,           \* [madt, lvt_unmasked]: overrides [src, gsi, kind], and
                               \* whether LVT errors may interrupt
          Counts,              \* vectors that drivers ask for at once
          MaxRaises,           \* bound: interrupts
          MaxCalls             \* bound: calls of the kernel

ASSUME IrqConstants ==
    /\ {ISA_INTERRUPT_COUNT, MaxEntries, IO_VECTOR_COUNT} \subseteq Nat
    /\ 1 < ISA_INTERRUPT_COUNT /\ ISA_INTERRUPT_COUNT <= MaxEntries
    /\ MaxEntries + 2 <= IO_VECTOR_COUNT

Sources == 0 .. (ISA_INTERRUPT_COUNT - 1)
Lines   == 0 .. (MaxEntries - 1)
Vectors == 0 .. (IO_VECTOR_COUNT - 1)

\* The overrides of a MADT that init_overrides does not refuse are of different
\* sources, to different lines; nothing in the code would sort out two for one.
Accepted(o) == o.gsi < ISA_INTERRUPT_COUNT

OverridesOf(m, s) == {k \in DOMAIN m : m[k].src = s /\ Accepted(m[k])}

ASSUME FirmwareAssumption ==
    \A f \in Firmwares :
        /\ f.madt \in Seq([src : Sources, gsi : Nat, kind : {"edge", "level"}])
        /\ \A i, j \in DOMAIN f.madt :
              i # j /\ Accepted(f.madt[i]) /\ Accepted(f.madt[j])
              => f.madt[i].src # f.madt[j].src /\ f.madt[i].gsi # f.madt[j].gsi

None       == [kind |-> "none"]
Forward(s) == [kind |-> "forward", to |-> s]  \* io_handler_source_override
Driver     == [kind |-> "driver"]
NoLine     == -1

VARIABLES
    pc,          \* where init_apic is; "run" when interrupts are enabled
    madt,        \* the overrides of the MADT
    lvt_unmasked,
    seen,        \* how many of them init_overrides has looked at
    overrides,   \* the line of each source, or NoLine
    io_handlers,
    masked,      \* the masked lines
    kind,        \* the kind of each line's entry
    allocated_io_interrupts,
    step,        \* what the kernel still has to do of its call
    irr,         \* lines that wait in the local APIC
    isr,         \* lines in service
    running,     \* the line whose handler runs, or NoLine
    raises, calls,
    \* history:
    installed,   \* vectors whose driver was told that its handler is installed
    removed,     \* vectors whose driver was removed
    owned,       \* vectors that alloc_io_interrupts gave out
    answer       \* what it answered last

firmware == <<madt, lvt_unmasked>>
routing == <<firmware, seen, overrides, kind>>
tables == <<routing, io_handlers, masked, allocated_io_interrupts>>
cpu    == <<irr, isr, running, raises>>
calling == <<step, calls, installed, removed, owned, answer>>
vars   == <<pc, tables, cpu, calling>>

Init ==
    /\ pc = "overrides"
    /\ \E f \in Firmwares : madt = f.madt /\ lvt_unmasked = f.lvt_unmasked
    /\ seen = 0
    /\ overrides = [s \in Sources |-> NoLine]
    /\ io_handlers = [v \in Vectors |-> None]
    /\ masked = Lines /\ kind = [g \in Lines |-> "edge"]
    /\ allocated_io_interrupts = {}
    /\ step = [do |-> "nothing"]
    /\ irr = {} /\ isr = {} /\ running = NoLine
    /\ raises = 0 /\ calls = 0
    /\ installed = {} /\ removed = {} /\ owned = {}
    /\ answer = [count |-> 0, first |-> -1]

(***************************************************************************)
(* The operations on the tables.                                           *)
(***************************************************************************)

\* Mutant of LineOf: the override of the vector is not looked up.
LineOfIdentity(ov, v) == v

\* enable_io_interrupt unmasks the line that the vector is wired to.
LineOf(ov, v) == IF v \in Sources /\ ov[v] # NoLine THEN ov[v] ELSE v

\* install_io_interrupt_handler refuses a vector that has a handler.
CanInstall(v) == io_handlers[v] = None

(***************************************************************************)
(* init_apic, with interrupts disabled.                                    *)
(***************************************************************************)

\* init_overrides: a handler that forwards the line to its source, unless the
\* line is out of range or taken.
InitOverride ==
    /\ pc = "overrides" /\ seen < Len(madt)
    /\ seen' = seen + 1
    /\ LET o == madt[seen + 1]
       IN  IF o.gsi >= ISA_INTERRUPT_COUNT
           THEN UNCHANGED <<overrides, io_handlers, masked>>
           ELSE /\ overrides' = [overrides EXCEPT ![o.src] = o.gsi]
                /\ IF CanInstall(o.gsi)
                   THEN /\ io_handlers' = [io_handlers EXCEPT ![o.gsi] = Forward(o.src)]
                        /\ masked' = masked \ {LineOf(overrides', o.gsi)}
                   ELSE UNCHANGED <<io_handlers, masked>>
    /\ UNCHANGED <<pc, firmware, kind, allocated_io_interrupts, cpu, calling>>

\* Mutant of init_io_apics: entries are left as init_overrides left them.
init_io_apicsUnmasked ==
    /\ pc = "overrides" /\ seen = Len(madt)
    /\ pc' = "reserve"
    /\ allocated_io_interrupts' = allocated_io_interrupts \cup Lines
    /\ UNCHANGED <<routing, io_handlers, masked, cpu, calling>>

\* override_entry: the entry that overrides[s] points to decides.
override_entry(s) ==
    IF overrides[s] = NoLine THEN "edge" ELSE madt[Max(OverridesOf(madt, s))].kind

\* Line 0 is left alone; another ISA line is looked up as if it were a source.
KindOf(g) == IF g \notin Sources THEN "level" ELSE IF g = 0 THEN "edge" ELSE override_entry(g)

\* The loop of init_io_apics: every entry gets its vector and its kind, masked, and
\* its vector is reserved.
init_io_apics ==
    /\ pc = "overrides" /\ seen = Len(madt)
    /\ pc' = "reserve"
    /\ masked' = Lines /\ kind' = [g \in Lines |-> KindOf(g)]
    /\ allocated_io_interrupts' = allocated_io_interrupts \cup Lines
    /\ UNCHANGED <<firmware, seen, overrides, io_handlers, cpu, calling>>

\* Mutant of ReserveLocal: the vector of spurious interrupts is not reserved.
ReserveLocalOne ==
    /\ pc = "reserve" /\ pc' = "keyboard"
    /\ allocated_io_interrupts' = allocated_io_interrupts \cup {IO_VECTOR_COUNT - 2}
    /\ UNCHANGED <<routing, io_handlers, masked, cpu, calling>>

\* init_spurious_interrupts and init_lvt_err reserve the last two vectors.
ReserveLocal ==
    /\ pc = "reserve" /\ pc' = "keyboard"
    /\ allocated_io_interrupts' = allocated_io_interrupts
                                    \cup {IO_VECTOR_COUNT - 1, IO_VECTOR_COUNT - 2}
    /\ UNCHANGED <<routing, io_handlers, masked, cpu, calling>>

\* The keyboard is vector 1; then interrupts are enabled.
InstallKeyboard ==
    /\ pc = "keyboard" /\ pc' = "run"
    /\ IF CanInstall(1)
       THEN /\ io_handlers' = [io_handlers EXCEPT ![1] = Driver]
            /\ masked' = masked \ {LineOf(overrides, 1)}
            /\ installed' = {1}
       ELSE UNCHANGED <<io_handlers, masked, installed>>
    /\ UNCHANGED <<routing, allocated_io_interrupts, cpu, step, calls, removed,
                   owned, answer>>

(***************************************************************************)
(* The kernel calls install, remove, alloc and free.  An interrupt may     *)
(* arrive between the two writes of install and of remove.                 *)
(***************************************************************************)
Calls == pc = "run" /\ running = NoLine /\ step.do = "nothing"
         /\ calls < MaxCalls /\ calls' = calls + 1

install_io_interrupt_handler(v) ==
    /\ Calls
    /\ IF CanInstall(v)
       THEN /\ io_handlers' = [io_handlers EXCEPT ![v] = Driver]
            /\ step' = [do |-> "enable", vector |-> v]
       ELSE UNCHANGED <<io_handlers, step>>
    /\ UNCHANGED <<pc, routing, masked, allocated_io_interrupts, cpu, installed,
                   removed, owned, answer>>

\* remove_io_interrupt_handler, called by the driver of the vector.
remove_io_interrupt_handler(v) ==
    /\ Calls /\ v \in installed
    /\ io_handlers' = [io_handlers EXCEPT ![v] = None]
    /\ installed' = installed \ {v} /\ removed' = removed \cup {v}
    /\ step' = [do |-> "disable", vector |-> v]
    /\ UNCHANGED <<pc, routing, masked, allocated_io_interrupts, cpu, owned, answer>>

enable_io_interrupt ==
    /\ pc = "run" /\ step.do = "enable" /\ running = NoLine
    /\ masked' = masked \ {LineOf(overrides, step.vector)}
    /\ installed' = installed \cup {step.vector}
    /\ step' = [do |-> "nothing"]
    /\ UNCHANGED <<pc, routing, io_handlers, allocated_io_interrupts, cpu, calls,
                   removed, owned, answer>>

\* disable_io_interrupt does not look for an override.
disable_io_interrupt ==
    /\ pc = "run" /\ step.do = "disable" /\ running = NoLine
    /\ masked' = masked \cup {step.vector}
    /\ step' = [do |-> "nothing"]
    /\ UNCHANGED <<pc, routing, io_handlers, allocated_io_interrupts, cpu, calls,
                   installed, removed, owned, answer>>

(***************************************************************************)
(* alloc_io_interrupts.  The inner loop goes on after it has met a vector  *)
(* that is taken, with i moved to that vector; it may read behind the      *)
(* array, where there is some junk.                                        *)
(***************************************************************************)
Taken(junk, k) == IF k \in Vectors THEN k \in allocated_io_interrupts ELSE junk

Probe(junk, count, i) ==
    FoldLeft(LAMBDA st, j : IF Taken(junk, st.i + j) THEN [i |-> st.i + j, found |-> FALSE] ELSE st,
             [i |-> i, found |-> TRUE], [j \in 1 .. count |-> j - 1])

Search(junk, count) ==
    LET From[i \in 0 .. (3 * IO_VECTOR_COUNT)] ==
          IF i >= IO_VECTOR_COUNT THEN -1
          ELSE IF Taken(junk, i) THEN From[i + 1]
          ELSE LET p == Probe(junk, count, i)
               IN  IF p.found THEN i ELSE From[p.i + 1]
    IN  From[0]

alloc_io_interrupts(junk, count) ==
    /\ Calls
    /\ LET first == Search(junk, count)
           range == IF first = -1 THEN {} ELSE first .. (first + count - 1)
       IN  /\ allocated_io_interrupts' = allocated_io_interrupts \cup range
           /\ owned' = owned \cup range
           /\ answer' = [count |-> count, first |-> first]
    /\ UNCHANGED <<pc, routing, io_handlers, masked, cpu, step, installed, removed>>

\* free_io_interrupt, called by the driver that was given the vector.
free_io_interrupt(v) ==
    /\ Calls /\ v \in owned
    /\ allocated_io_interrupts' = allocated_io_interrupts \ {v}
    /\ owned' = owned \ {v}
    /\ UNCHANGED <<pc, routing, io_handlers, masked, cpu, step, installed, removed,
                   answer>>

(***************************************************************************)
(* Interrupts.  A device raises its line; the APICs (external) keep the    *)
(* interrupt until the processor takes it, which it does if none is in     *)
(* service.  The gates are interrupt gates: handlers do not nest.          *)
(***************************************************************************)
Raise(g) ==
    /\ pc = "run" /\ g \notin masked \cup irr /\ raises < MaxRaises
    /\ raises' = raises + 1 /\ irr' = irr \cup {g}
    /\ UNCHANGED <<pc, tables, isr, running, calling>>

\* Every vector has a gate (apic_init_irq_handlers) to a wrapper that passes its
\* number on to apic_interrupt_handler.
Deliver ==
    /\ pc = "run" /\ running = NoLine /\ isr = {} /\ irr # {}
    /\ running' = Max(irr)
    /\ irr' = irr \ {running'} /\ isr' = {running'}
    /\ UNCHANGED <<pc, tables, raises, calling>>

\* The vector that the handlers of line g end at: a forwarding handler calls
\* exec_io_handler for its source.
Follow(g) ==
    LET Hop[n \in 0 .. ISA_INTERRUPT_COUNT] ==
          IF n = 0 THEN g
          ELSE LET v == Hop[n - 1]
               IN  IF io_handlers[v].kind = "forward" THEN io_handlers[v].to ELSE v
    IN  Hop[ISA_INTERRUPT_COUNT]

\* Mutant of apic_interrupt_handler: the end of the interrupt is not signalled.
apic_interrupt_handlerNoEoi ==
    /\ pc = "run" /\ running # NoLine
    /\ pc' = IF io_handlers[Follow(running)] = Driver THEN "run" ELSE "fault"
    /\ running' = NoLine /\ UNCHANGED isr
    /\ UNCHANGED <<tables, irr, raises, calling>>

\* apic_interrupt_handler: exec_io_handler calls through a null pointer if there
\* is no handler, and never returns if the handlers forward to one another;
\* otherwise apic_eoi follows.
apic_interrupt_handler ==
    /\ pc = "run" /\ running # NoLine
    /\ pc' = IF io_handlers[Follow(running)] = Driver THEN "run" ELSE "fault"
    /\ running' = NoLine /\ isr' = {}
    /\ UNCHANGED <<tables, irr, raises, calling>>

\* An error of the local APIC.  Its vector is the highest and apic_err_handler does
\* not signal the end of interrupt.
apic_err_handler ==
    /\ pc = "run" /\ lvt_unmasked /\ running = NoLine /\ isr = {}
    /\ isr' = {IO_VECTOR_COUNT - 2}
    /\ UNCHANGED <<pc, tables, irr, running, raises, calling>>

Booting == InitOverride \/ init_io_apics \/ ReserveLocal \/ InstallKeyboard

EndCall == enable_io_interrupt \/ disable_io_interrupt

\* Handlers are installed for vectors of the IO APIC.  For one beyond it, which
\* alloc_io_interrupts can give out, get_io_apic finds nothing and enable_io_interrupt
\* writes through a null pointer; no caller in the kernel does so.
KernelCall ==
    \/ \E v \in Lines : install_io_interrupt_handler(v) \/ remove_io_interrupt_handler(v)
    \/ \E junk \in BOOLEAN, count \in Counts : alloc_io_interrupts(junk, count)
    \/ \E v \in Vectors : free_io_interrupt(v)
-----------------------------------------------------------------------------
(***************************************************************************)
(* A driver that was told its handler is installed gets the interrupts of  *)
(* its device: the line that the MADT wires its source to is unmasked, and *)
(* the handlers of that line, through all forwarding, end at the driver.   *)
(* (An override to a line that init_overrides refuses is not counted.)     *)
(*                                                                         *)
(* What the line is programmed to is the kind of the source that has the   *)
(* line's NUMBER, because init_io_apics passes the line to override_entry  *)
(* (ioapic.c:262).  That is the device's kind if its source has no         *)
(* override; a device that is wired to another line gets the kind of       *)
(* another source, whatever its own override says.                         *)
(***************************************************************************)
Wired(v, g) ==
    LET here == OverridesOf(madt, v)
    IN  IF here = {} THEN g = v ELSE \E k \in here : madt[k].gsi = g

MadtKind(s) ==
    LET here == OverridesOf(madt, s)
    IN  IF here # {} THEN madt[Max(here)].kind
        ELSE IF s \in Sources THEN "edge" ELSE "level"

LineReachesItsDriver ==
    \A v \in installed, g \in Lines :
        Wired(v, g) => /\ g \notin masked /\ Follow(g) = v /\ io_handlers[v] = Driver
                       /\ kind[g] = IF g = 0 THEN "edge" ELSE MadtKind(g)

(***************************************************************************)
(* No interrupt is executed without a handler, except after some driver    *)
(* was removed: remove_io_interrupt_handler clears the handler before it   *)
(* masks the line, and masks the wrong line if there is an override.       *)
(***************************************************************************)
NoHandlerOnlyAfterRemove == pc = "fault" => removed # {}

(***************************************************************************)
(* alloc_io_interrupts gives out the first run of vectors that nobody has, *)
(* and fails only if there is none, whatever lies behind its array.        *)
(***************************************************************************)
FreeRun(count, i) == i .. (i + count - 1) \subseteq Vectors \ allocated_io_interrupts

AllocFindsFirstRun ==
    [][\A junk \in BOOLEAN, count \in Counts :
         alloc_io_interrupts(junk, count) =>
           LET runs == {i \in Vectors : FreeRun(count, i)}
           IN  answer' = [count |-> count, first |-> IF runs = {} THEN -1 ELSE Min(runs)]]_vars
=============================================================================
