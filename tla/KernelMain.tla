----------------------------- MODULE KernelMain -----------------------------
(***************************************************************************)
(* kernel_main from init_memory to the xHCI driver: Boot, then Pci, then   *)
(* the loops of init_ahci and init_xhci over the functions found.  The     *)
(* call of init_ahci is commented out in main.c; the models of the machine *)
(* say which drivers kernel_main has.  What a driver does with its         *)
(* controller is in Ahci and Xhci, interrupts are in Interrupts, and       *)
(* test_mapping, a self-test, is left out.                                 *)
(***************************************************************************)
EXTENDS Boot

CONSTANTS PCI_MAX_DEVS, PCI_MAX_FUNCS, RegSize, StackDepth

VARIABLES scan, host, stack, pci_devs, regs,  \* see Pci
          drivers,   \* the init functions kernel_main has still to call
          dev,       \* the index of their loop
          master,    \* the functions that were made bus master
          opened,    \* history: the regions get_bar found for drivers
          serving    \* the xHCI controller whose events are polled

INSTANCE Pci

configvars == <<scan, host, stack, pci_devs, regs>>
drivervars == <<drivers, dev, master, opened, serving>>
vars == <<bootvars, configvars, drivervars>>

KernelInit ==
    /\ Init /\ PciInit
    /\ drivers = machine.drivers /\ dev = 1
    /\ master = {} /\ opened = {} /\ serving = <<>>

Boots == BootStep /\ UNCHANGED <<configvars, drivervars>>

Enumerates == pc = "pci" /\ pages = <<>> /\ EnumerationStep /\ UNCHANGED <<bootvars, drivervars>>

(***************************************************************************)
(* init_ahci and init_xhci.  A controller without a region is passed over. *)
(***************************************************************************)
Probing == pc = "pci" /\ pages = <<>> /\ scan = "done" /\ drivers # <<>> /\ dev <= Len(pci_devs)
Device  == pci_devs[dev]
BarFor(driver) == IF driver = "ahci" THEN 5 ELSE 0

\* The addresses of config space have room for so many slots and functions.
ASSUME ConfigSpaceAssumption ==
    /\ {PCI_MAX_DEVS, PCI_MAX_FUNCS} \subseteq Nat \ {0}
    /\ \A m \in Machines :
         /\ IsFiniteSet(DOMAIN m.pci.funcs)
         /\ DOMAIN m.pci.funcs \subseteq Nat \X (0 .. (PCI_MAX_DEVS - 1)) \X (0 .. (PCI_MAX_FUNCS - 1))
         /\ \A fn \in DOMAIN m.pci.funcs : m.pci.funcs[fn].secondary \in Nat

\* Registers are wired as PCI has it: a value is a multiple of span, plus the flags.
\* The one a driver looks at is for memory, of a type that PCI still has, and tells
\* where the region is if that is below 4 GiB; or it is for ports.
Wired(reg) ==
    /\ reg.flags < reg.span /\ RegSize % reg.span = 0
    /\ reg.value < RegSize /\ reg.value % reg.span = reg.flags

ASSUME PciAssumption ==
    /\ RegSize \in Nat \ {0} /\ RegSize % 16 = 0
    /\ \A m \in Machines :
         /\ m.pci.bars \in [DOMAIN m.pci.bars -> [value : Nat, flags : Nat, span : Nat \ {0}]]
         /\ \A r \in DOMAIN m.pci.bars : Wired(m.pci.bars[r])
         /\ \A fn \in DOMAIN m.pci.funcs :
              LET r   == BarOf(fn, BarFor(m.pci.funcs[fn].class))
                  reg == m.pci.bars[r]
              IN  r \in DOMAIN m.pci.bars /\ is_mmio(reg.flags) =>
                    /\ reg.flags \in {0, 4, 8, 12} /\ reg.span % 16 = 0
                    /\ m.pci.at[fn] < RegSize => m.pci.at[fn] = reg.value - reg.flags

Unusable(fn, bar) ==
    \/ ~is_bar_present(regs, fn, bar)
    \/ get_bar(regs, fn, bar).size = 0

SkipDevice ==
    /\ Probing /\ ClassOf(Device) # Head(drivers)
    /\ dev' = dev + 1
    /\ UNCHANGED <<bootvars, configvars, drivers, master, opened, serving>>

\* Mutant of NoRegion: the driver gives up at the first controller it cannot use.
NoRegionGivesUp ==
    /\ Probing /\ ClassOf(Device) = Head(drivers) /\ Unusable(Device, BarFor(Head(drivers)))
    /\ master' = master \cup {Device}
    /\ dev' = Len(pci_devs) + 1
    /\ UNCHANGED <<bootvars, configvars, drivers, opened, serving>>

NoRegion ==
    /\ Probing /\ ClassOf(Device) = Head(drivers) /\ Unusable(Device, BarFor(Head(drivers)))
    /\ master' = master \cup {Device}
    /\ dev' = dev + 1
    /\ UNCHANGED <<bootvars, configvars, drivers, opened, serving>>

Region(bar) == [k \in 1 .. Pages(bar.size) |-> FrameOf(bar.base) + k - 1]

\* get_bar, and the loop that maps the region.
Open(bar) ==
    /\ ~Unusable(Device, BarFor(Head(drivers)))
    /\ pages' = Region(bar)
    /\ regs' = bar.regs
    /\ master' = master \cup {Device}
    /\ opened' = opened \cup {[reg |-> BarOf(Device, BarFor(Head(drivers))),
                               base |-> bar.base, size |-> bar.size]}
    /\ UNCHANGED <<machine, i, size, pmm, tables, entries, strays, kept, asked,
                   scan, host, stack, pci_devs, drivers>>

\* Whether the controller keeps the driver waiting, for the firmware to let go of it
\* or for a port to finish a command; a driver that looks at the wrong place may find
\* anything there.
Hangs(fn, bar) ==
    IF bar.base = machine.pci.at[fn] THEN {fn \in machine.pci.stuck} ELSE BOOLEAN

\* init_ahci_controller returns, unless one of its loops waits for ever.
OpenAhci ==
    /\ Probing /\ ClassOf(Device) = "ahci" /\ Head(drivers) = "ahci"
    /\ Open(get_bar(regs, Device, 5))
    /\ \E hangs \in Hangs(Device, get_bar(regs, Device, 5)) :
         IF hangs THEN pc' = "waiting" /\ dev' = dev ELSE pc' = pc /\ dev' = dev + 1
    /\ UNCHANGED serving

\* Whether the page size register allows 4 KiB, or what is at the wrong place.
Allows4K(fn, bar) ==
    IF bar.base = machine.pci.at[fn] THEN {fn \notin machine.pci.odd} ELSE BOOLEAN

\* init_xhci_controller returns if the controller cannot have 4 KiB pages; if it
\* can, process_event does not return.
OpenXhci ==
    /\ Probing /\ ClassOf(Device) = "xhci" /\ Head(drivers) = "xhci"
    /\ Open(get_bar(regs, Device, 0))
    /\ \E ok \in Allows4K(Device, get_bar(regs, Device, 0)) :
         IF ok THEN pc' = "polling" /\ serving' = Device /\ dev' = dev
               ELSE pc' = pc /\ serving' = serving /\ dev' = dev + 1

NextDriver ==
    /\ pc = "pci" /\ pages = <<>> /\ scan = "done" /\ drivers # <<>> /\ dev > Len(pci_devs)
    /\ drivers' = Tail(drivers) /\ dev' = 1
    /\ UNCHANGED <<bootvars, configvars, master, opened, serving>>

\* while(1) hlt
Halt ==
    /\ pc = "pci" /\ pages = <<>> /\ scan = "done" /\ drivers = <<>>
    /\ pc' = "hlt"
    /\ UNCHANGED <<machine, i, size, pmm, tables, entries, strays, kept, pages, asked, configvars, drivervars>>

Stopped ==
    /\ pages = <<>> /\ (pc \in {"fault", "waiting", "hlt", "polling"} \/ scan = "overflow")
    /\ UNCHANGED vars

Next == \/ Boots \/ Enumerates
        \/ SkipDevice \/ NoRegion \/ OpenAhci \/ OpenXhci \/ NextDriver \/ Halt
        \/ Stopped

\* One processor runs this from the top to the bottom.
Spec == KernelInit /\ [][Next]_vars /\ WF_vars(Next)
-----------------------------------------------------------------------------
(***************************************************************************)
(* get_bar finds base and size of a memory region below 4 GiB (that of a   *)
(* 64 bit register with high half 0 too), and every register is left as it *)
(* was found.                                                              *)
(***************************************************************************)
BarIsDecoded ==
    /\ regs = machine.pci.bars
    /\ \A o \in opened :
         LET reg == machine.pci.bars[o.reg]
         IN  is_mmio(reg.flags) /\ machine.pci.at[SubSeq(o.reg, 1, 3)] < RegSize =>
               o.base = machine.pci.at[SubSeq(o.reg, 1, 3)] /\ o.size = reg.span

\* Every bridge has a higher bus behind it.
NoLoop == \A fn \in DOMAIN machine.pci.funcs :
              ClassOf(fn) = "bridge" => SecondaryOf(fn) > fn[1]

UsableXhci == {fn \in ToSet(pci_devs) : ClassOf(fn) = "xhci" /\ fn \notin machine.pci.odd
                                        /\ BarOf(fn, 0) \in DOMAIN machine.pci.bars}
AllBelow4G == \A fn \in DOMAIN machine.pci.at : machine.pci.at[fn] < RegSize

Before(fn, other) == \E j, k \in DOMAIN pci_devs :
                        j < k /\ pci_devs[j] = fn /\ pci_devs[k] = other

\* The AHCI controllers that keep init_ahci waiting, if kernel_main calls it.
StuckAhci == {fn \in ToSet(pci_devs) : /\ "ahci" \in ToSet(machine.drivers)
                                       /\ ClassOf(fn) = "ahci" /\ fn \in machine.pci.stuck
                                       /\ BarOf(fn, 5) \in DOMAIN machine.pci.bars}

(***************************************************************************)
(* If no chain of bridges leads back to itself and all regions are below   *)
(* 4 GiB, kernel_main gets past init_pmm (see InitPmmStaysInBitmap) only   *)
(* to come to an end: it polls the first xHCI controller of the list that  *)
(* has a region and 4 KiB pages, whatever comes before it on the list, or  *)
(* it halts because there is none.  The one thing that keeps it from that  *)
(* is an AHCI controller that does not answer, when the driver for these   *)
(* runs first.                                                             *)
(***************************************************************************)
FirstXhciIsServed ==
    NoLoop /\ AllBelow4G =>
        <>\/ pc = "fault"
          \/ /\ pc = IF StuckAhci # {} THEN "waiting" ELSE IF UsableXhci = {} THEN "hlt" ELSE "polling"
             /\ pc = "polling" => serving \in UsableXhci /\ serving \in master
                                  /\ \A fn \in UsableXhci \ {serving} : Before(serving, fn)
=============================================================================
