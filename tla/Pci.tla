-------------------------------- MODULE Pci --------------------------------
(***************************************************************************)
(* PCI enumeration and base address registers, pci/pci.c.                  *)
(*                                                                         *)
(* check_bus and check_func call each other; the activations of check_bus  *)
(* are a stack of loop positions.  A step is one turn of its inner loop.   *)
(*                                                                         *)
(* A configuration register has RegSize values, the low four bits of a     *)
(* base address register are its flags.  Registers are read and written    *)
(* as the hardware has it: the bits below the size of the region are       *)
(* hard-wired.                                                             *)
(***************************************************************************)
EXTENDS Integers, Sequences, FiniteSets, SequencesExt

CONSTANTS PCI_MAX_DEVS, PCI_MAX_FUNCS,
          RegSize,     \* 2^32 in the code
          StackDepth   \* activations of check_bus the kernel stack has room for

VARIABLES
    machine,   \* .pci: [funcs, cache_line, bars], what config space answers
    scan,      \* where init_pci is: start, hosts, done, overflow
    host,      \* the loop variable of init_pci
    stack,     \* the loop positions of the activations of check_bus
    pci_devs,  \* the functions found
    regs       \* the base address registers, by <<bus, slot, func, bar>>

PciInit ==
    /\ scan = "start" /\ host = 0
    /\ stack = <<>> /\ pci_devs = <<>>
    /\ regs = machine.pci.bars

\* pci_readw of the vendor, the class and the secondary bus number.
Present(fn)      == fn \in DOMAIN machine.pci.funcs
ClassOf(fn)      == machine.pci.funcs[fn].class
SecondaryOf(fn)  == machine.pci.funcs[fn].secondary

check_bus(bus) == [bus |-> bus, slot |-> 0, func |-> 0]

\* init_pci tests bit 7 of the word at 0xc, which is the cache line size.  One
\* host controller is the last turn of the loop over several.
init_pci ==
    /\ scan = "start" /\ scan' = "hosts"
    /\ host' = IF machine.pci.cache_line THEN 0 ELSE PCI_MAX_FUNCS - 1
    /\ stack' = <<check_bus(0)>>
    /\ UNCHANGED <<pci_devs, regs>>

\* The next root bus, when check_bus of the one before has returned.
NextHost ==
    /\ scan = "hosts" /\ stack = <<>>
    /\ IF host + 1 < PCI_MAX_FUNCS
       THEN host' = host + 1 /\ stack' = <<check_bus(host + 1)>> /\ scan' = scan
       ELSE scan' = "done" /\ UNCHANGED <<host, stack>>
    /\ UNCHANGED <<pci_devs, regs>>

\* Mutant of After: the last function of a slot is not looked at.
AfterOneLess(p) ==
    IF p.func + 2 < PCI_MAX_FUNCS THEN [p EXCEPT !.func = @ + 1]
                                  ELSE [p EXCEPT !.func = 0, !.slot = @ + 1]

After(p) ==
    IF p.func + 1 < PCI_MAX_FUNCS THEN [p EXCEPT !.func = @ + 1]
                                  ELSE [bus |-> p.bus, slot |-> p.slot + 1, func |-> 0]

Here     == <<Last(stack).bus, Last(stack).slot, Last(stack).func>>
Callers  == Front(stack)
Scanning == scan = "hosts" /\ stack # <<>>

ReturnFromBus ==
    /\ Scanning /\ Last(stack).slot = PCI_MAX_DEVS
    /\ stack' = Callers
    /\ UNCHANGED <<scan, host, pci_devs, regs>>

NoFunction ==
    /\ Scanning /\ Last(stack).slot < PCI_MAX_DEVS /\ ~Present(Here)
    /\ stack' = Append(Callers, After(Last(stack)))
    /\ UNCHANGED <<scan, host, pci_devs, regs>>

\* check_func of anything but a bridge.  The code does not check that pci_devs, of
\* MAX_PCI_DEVICES entries, has room; the list has no bound here.
FoundDevice ==
    /\ Scanning /\ Last(stack).slot < PCI_MAX_DEVS /\ Present(Here) /\ ClassOf(Here) # "bridge"
    /\ pci_devs' = Append(pci_devs, Here)
    /\ stack' = Append(Callers, After(Last(stack)))
    /\ UNCHANGED <<scan, host, regs>>

\* check_func of a bridge.  Nothing bounds the recursion.
FoundBridge ==
    /\ Scanning /\ Last(stack).slot < PCI_MAX_DEVS /\ Present(Here) /\ ClassOf(Here) = "bridge"
    /\ stack' = Callers \o <<After(Last(stack)), check_bus(SecondaryOf(Here))>>
    /\ scan' = IF Len(stack) = StackDepth THEN "overflow" ELSE scan
    /\ UNCHANGED <<host, pci_devs, regs>>

EnumerationStep ==
    init_pci \/ NextHost \/ ReturnFromBus \/ NoFunction \/ FoundDevice \/ FoundBridge
-----------------------------------------------------------------------------
(***************************************************************************)
(* Base address registers: [value, flags, span]; only multiples of span    *)
(* can be written.  A register that is not implemented reads as 0.         *)
(***************************************************************************)
NoReg == [value |-> 0, flags |-> 0, span |-> RegSize]

Reg(rs, r) == IF r \in DOMAIN rs THEN rs[r] ELSE NoReg

pci_readd(rs, r) == Reg(rs, r).value

Stored(reg, v) == [reg EXCEPT !.value = (v - (v % reg.span)) + reg.flags]

pci_writed(rs, r, v) == IF r \in DOMAIN rs THEN [rs EXCEPT ![r] = Stored(@, v)] ELSE rs

BarOf(fn, bar) == Append(fn, bar)

is_bar_present(rs, fn, bar) == pci_readd(rs, BarOf(fn, bar)) # 0

is_mmio(low) == low % 2 = 0

\* The type of a 64 bit register is 2, and this compares with 1.
is_64bits(low) == is_mmio(low) /\ (low \div 2) % 4 = 1

\* & ~0xf for memory; & ~0xd for ports, which keeps bit 1 of the flags.
Masked(low, v) == (v - (v % 16)) + (IF is_mmio(low) THEN 0 ELSE 2 * ((v \div 2) % 2))

\* Mutant of Sizing: the old value is not written back.
SizingNoRestore(rs, r) ==
    [size |-> pci_readd(pci_writed(rs, r, RegSize - 1), r), regs |-> pci_writed(rs, r, RegSize - 1)]

\* Write all ones, read the size mask, write the old value back.
Sizing(rs, r) ==
    LET ones == pci_writed(rs, r, RegSize - 1)
    IN  [size |-> pci_readd(ones, r), regs |-> pci_writed(ones, r, pci_readd(rs, r))]

\* Of a 32 bit register the high half of the size mask is all ones.
SizeHigh(low, rs, r) ==
    IF is_64bits(low) THEN Sizing(rs, r) ELSE [size |-> RegSize - 1, regs |-> rs]

BaseHigh(low, rs, r) == IF is_64bits(low) THEN pci_readd(rs, r) ELSE 0

\* ~size + 1 in 64 bits.
Negated(v) == (RegSize * RegSize - v) % (RegSize * RegSize)

get_bar(rs, fn, bar) ==
    LET low  == pci_readd(rs, BarOf(fn, bar))
        lo   == Sizing(rs, BarOf(fn, bar))
        hi   == SizeHigh(low, lo.regs, BarOf(fn, bar + 1))
    IN  [base |-> Masked(low, BaseHigh(low, rs, BarOf(fn, bar + 1)) * RegSize + low),
         size |-> Negated(Masked(low, hi.size * RegSize + lo.size)), regs |-> hi.regs]
-----------------------------------------------------------------------------
BridgesTo(bus) == {fn \in DOMAIN machine.pci.funcs :
                      ClassOf(fn) = "bridge" /\ SecondaryOf(fn) = bus}

(***************************************************************************)
(* A machine as firmware leaves it: the buses are a tree below bus 0 and a *)
(* bridge has a higher number behind it than the bus it is on.             *)
(***************************************************************************)
Ordinary ==
    /\ ~machine.pci.cache_line
    /\ \A fn \in DOMAIN machine.pci.funcs :
         /\ fn[1] # 0 => Cardinality(BridgesTo(fn[1])) = 1
         /\ ClassOf(fn) = "bridge" => SecondaryOf(fn) > fn[1]
                                      /\ BridgesTo(SecondaryOf(fn)) = {fn}

(***************************************************************************)
(* On such a machine, when init_pci is done, every function that answers   *)
(* and is not a bridge is in pci_devs, once.                               *)
(***************************************************************************)
EveryFunctionOnce ==
    Ordinary /\ scan = "done" =>
        /\ ToSet(pci_devs) = {fn \in DOMAIN machine.pci.funcs : ClassOf(fn) # "bridge"}
        /\ Len(pci_devs) = Cardinality(ToSet(pci_devs))
=============================================================================
