------------------------------- MODULE Ahci --------------------------------
(***************************************************************************)
(* driver/ahci/ahci.c: taking the controller over from the BIOS, and       *)
(* reading and writing sectors with commands that are split into physical  *)
(* region descriptors and, if they are too long for one command, into      *)
(* several commands.  The controller, the disk and the BIOS are external.  *)
(*                                                                         *)
(* Lengths and addresses are in sectors.  The bounce buffer is the memory  *)
(* that pmm_alloc gives the call; its address does not matter here and is  *)
(* 0.  A byte offset that is no multiple of the sector size is refused     *)
(* before anything happens and is the request BadRequest.  Requests start  *)
(* before the end of the disk and are not empty.                           *)
(***************************************************************************)
EXTENDS Integers, Sequences

CONSTANTS SectorsPerPrdt,  \* BYTES_PER_PRDT / AHCI_SECTOR_SIZE
          MAX_PRDTS,       \* descriptors of a command
          CountMod,        \* 2^16, the values of the count registers
          SectorCount,     \* sectors of the disk
          CmdSlots,        \* values of the command slot field of CAP
          Requests,        \* [op, start, size] that callers make
          MaxRequests,     \* bound: calls
          MaxSkips         \* bound: rounds of a call that finds no slot

ASSUME DiskConstants ==
    /\ {SectorsPerPrdt, MAX_PRDTS, CountMod, SectorCount} \subseteq Nat \ {0}
    /\ CmdSlots \subseteq Nat /\ MaxSkips \in Nat

ASSUME RequestAssumption ==
    Requests \subseteq [op : {"read", "write"}, start : 0 .. (SectorCount - 1), size : Nat \ {0}]

MaxSectors == MAX_PRDTS * SectorsPerPrdt

VARIABLES
    pc,                  \* where the driver is
    bos, oos, bb,        \* BOHC: BIOS owned, OS owned, BIOS busy
    bios,                \* what the BIOS will still do
    handoff,             \* what bios_handoff returned
    cmd_slots,
    sector_count,        \* the device's, 0 until it is identified
    disk,                \* what each sector holds
    call, size,          \* the request, and its size after the end check
    lba, rest, buffer,   \* the variables of send_rw_cmds
    prdts, fis, ci,      \* the command in slot 0 and whether it is issued
    busy,                \* BSY or DRQ in the task file
    prd, moved,          \* the disk's: the descriptor it is at, the sectors it has moved
    bounce,              \* aligned_buf
    result,              \* history: what the call returned
    calls

boot  == <<bos, oos, bb, bios, handoff, cmd_slots, sector_count>>
cmd   == <<prdts, fis, ci>>
dma   == <<prd, moved>>
rwcmd == <<call, size, lba, rest, buffer>>
vars  == <<pc, boot, disk, rwcmd, cmd, busy, dma, bounce, result, calls>>

NoCall   == [op |-> "none", start |-> 0, size |-> 0]
Fresh    == [i \in 0 .. (SectorCount + MaxSectors * (MaxSkips + 1)) |-> 0]
UserData == [i \in DOMAIN Fresh |-> 100 + i]   \* what the caller of ahci_write passes

Init ==
    /\ pc = "probe"
    /\ bos \in BOOLEAN /\ oos = FALSE /\ bb = FALSE
    /\ bios = "idle" /\ handoff = "none"
    /\ cmd_slots \in CmdSlots /\ sector_count = 0
    /\ disk = [s \in 0 .. (SectorCount - 1) |-> s + 1]
    /\ call = NoCall /\ size = 0 /\ lba = 0 /\ rest = 0 /\ buffer = 0
    /\ prdts = <<>> /\ fis = [lba |-> 0, count |-> 0] /\ ci = FALSE
    /\ busy = FALSE /\ prd = 1 /\ moved = 0 /\ bounce = Fresh
    /\ result = 0 /\ calls = 0

(***************************************************************************)
(* init_ahci_controller up to and with bios_handoff.                       *)
(***************************************************************************)
Still == UNCHANGED <<disk, rwcmd, cmd, busy, dma, bounce, result, calls>>

\* BAR5 is missing or empty or the controller has no 64 bit addresses; or not.
Probe ==
    /\ pc = "probe" /\ pc' \in {"handoff", "absent"}
    /\ UNCHANGED boot /\ Still

NoHandoff ==
    /\ pc = "handoff" /\ pc' = "ports" /\ handoff' = "unsupported"
    /\ UNCHANGED <<bos, oos, bb, bios, cmd_slots, sector_count>> /\ Still

RequestOwnership ==
    /\ pc = "handoff" /\ pc' = "wait"
    /\ oos' = TRUE
    /\ bios' = IF bos THEN "asked" ELSE "idle"
    /\ UNCHANGED <<bos, bb, handoff, cmd_slots, sector_count>> /\ Still

\* while ((bohc & 1) == 0): waits until the BIOS owns the controller.
AwaitBios ==
    /\ pc = "wait" /\ bos /\ pc' = "check"
    /\ UNCHANGED boot /\ Still

\* After 25ms, or 2s more if the BIOS is busy.  bohc & 11 is bits 0, 1 and 3,
\* of which bit 1 is the one the driver has set itself; the test that it is
\* clear is the third disjunct.
CheckHandoff ==
    /\ pc = "check" /\ pc' = "ports"
    /\ handoff' = IF bos \/ oos \/ ~oos THEN "failed" ELSE "done"
    /\ UNCHANGED <<bos, oos, bb, bios, cmd_slots, sector_count>> /\ Still

\* The BIOS finishes what it does and gives the controller up, or never does.
BiosBusy  == bios = "asked" /\ bios' = "busy" /\ bb' = TRUE /\ UNCHANGED <<bos, oos>>
BiosGives == bios \in {"asked", "busy"} /\ bios' = "gone" /\ bb' = FALSE /\ bos' = FALSE
             /\ UNCHANGED oos
Bios == /\ BiosBusy \/ BiosGives
        /\ UNCHANGED <<pc, handoff, cmd_slots, sector_count>> /\ Still

(***************************************************************************)
(* The ports: the controller has one disk, or none.  rebase_port stops the *)
(* port, gives it empty command tables and starts it; then the disk is     *)
(* identified.                                                             *)
(***************************************************************************)
NoDevice ==
    /\ pc = "ports" /\ pc' = "absent"
    /\ UNCHANGED boot /\ Still

rebase_port ==
    /\ pc = "ports" /\ pc' = "identify"
    /\ prdts' = <<>> /\ fis' = [lba |-> 0, count |-> 0]
    /\ UNCHANGED <<boot, disk, rwcmd, ci, busy, dma, bounce, result, calls>>

\* A slot that the port has not issued, as find_cmd_slot counts them: CAP counts
\* slots from 0, so that a controller with one slot has none.
SlotFree == cmd_slots > 0 /\ ~ci

\* Without a slot send_identify_cmd sends nothing.
send_identify_cmd == IF SlotFree THEN SectorCount ELSE 0

\* A device that was not identified is one of zeros, and is added all the same.
init_ahci_dev ==
    /\ pc = "identify" /\ pc' = "ready"
    /\ sector_count' = send_identify_cmd
    /\ UNCHANGED <<bos, oos, bb, bios, handoff, cmd_slots>> /\ Still

(***************************************************************************)
(* ahci_read and ahci_write: cut the request at the end of the disk, then  *)
(* send commands until nothing is left.                                    *)
(***************************************************************************)

\* A negative size is one that wrapped below 0.
Clipped(q) == IF q.start + q.size >= sector_count THEN sector_count - q.start ELSE q.size

Call(q) ==
    /\ pc = "ready" /\ calls < MaxRequests /\ calls' = calls + 1
    \* ahci_write copies the data first, and faults if the size wrapped.
    /\ pc' = IF q.op = "write" /\ Clipped(q) < 0 THEN "fault" ELSE "send"
    /\ call' = q /\ size' = Clipped(q)
    /\ lba' = q.start /\ rest' = Clipped(q) /\ buffer' = 0
    /\ bounce' = IF q.op = "write"
                 THEN [i \in DOMAIN Fresh |-> IF i < Clipped(q) THEN UserData[i] ELSE 0]
                 ELSE Fresh
    /\ UNCHANGED <<boot, disk, cmd, busy, dma, result>>

BadRequest ==
    /\ pc = "ready" /\ calls < MaxRequests /\ calls' = calls + 1
    /\ result' = 0 /\ call' = NoCall
    /\ UNCHANGED <<pc, boot, disk, size, lba, rest, buffer, cmd, busy, dma, bounce>>

\* "no free command slot (retry later)": send_rw_cmd returns what it was asked
\* for, and the loop moves on all the same.
SkipRound ==
    /\ pc = "send" /\ ~SlotFree /\ rest # 0
    /\ buffer + MaxSectors <= MaxSectors * MaxSkips
    /\ lba' = lba + MaxSectors /\ buffer' = buffer + MaxSectors
    /\ UNCHANGED <<pc, boot, disk, call, size, rest, cmd, busy, dma, bounce, result, calls>>

NothingSent ==
    /\ pc = "send" /\ ~SlotFree /\ rest = 0
    /\ pc' = "return"
    /\ UNCHANGED <<boot, disk, rwcmd, cmd, busy, dma, bounce, result, calls>>

PrdtLen(n) == ((n - 1) \div SectorsPerPrdt) + 1

\* Mutant of set_prdts: "always 1 less" is applied to sectors.
set_prdtsShort(addr, n) ==
    [i \in 1 .. PrdtLen(n) |->
        [base |-> addr + (i - 1) * SectorsPerPrdt,
         len  |-> IF i < PrdtLen(n) THEN SectorsPerPrdt
                  ELSE n - (PrdtLen(n) - 1) * SectorsPerPrdt - 1]]

\* Mutant of set_prdts: the buffer is not moved on.
set_prdtsSameBase(addr, n) ==
    [i \in 1 .. PrdtLen(n) |->
        [base |-> addr,
         len  |-> IF i < PrdtLen(n) THEN SectorsPerPrdt
                  ELSE n - (PrdtLen(n) - 1) * SectorsPerPrdt]]

\* set_prdts: full descriptors, and one for what remains.
set_prdts(addr, n) ==
    [i \in 1 .. PrdtLen(n) |->
        [base |-> addr + (i - 1) * SectorsPerPrdt,
         len  |-> IF i < PrdtLen(n) THEN SectorsPerPrdt
                  ELSE n - (PrdtLen(n) - 1) * SectorsPerPrdt]]

InOneCommand(n) == IF n > MaxSectors THEN MaxSectors ELSE n

\* Mutant of send_rw_cmd: the high LBA registers are not set.
send_rw_cmdLowLba ==
    /\ pc = "send" /\ SlotFree /\ rest > 0
    /\ prdts' = set_prdts(buffer, InOneCommand(rest))
    /\ fis' = [lba |-> lba % CountMod, count |-> InOneCommand(rest) % CountMod]
    /\ pc' = "issue"
    /\ UNCHANGED <<boot, disk, rwcmd, ci, busy, dma, bounce, result, calls>>

\* send_rw_cmd up to send_cmd: the count registers hold 16 bits.
send_rw_cmd ==
    /\ pc = "send" /\ SlotFree /\ rest > 0
    /\ prdts' = set_prdts(buffer, InOneCommand(rest))
    /\ fis' = [lba |-> lba, count |-> InOneCommand(rest) % CountMod]
    /\ pc' = "issue"
    /\ UNCHANGED <<boot, disk, rwcmd, ci, busy, dma, bounce, result, calls>>

\* send_cmd waits for the port and issues the command ...
Issue ==
    /\ pc = "issue" /\ ~busy
    /\ ci' = TRUE /\ pc' = "issued"
    /\ prd' = 1 /\ moved' = 0
    /\ UNCHANGED <<boot, disk, rwcmd, prdts, fis, busy, bounce, result, calls>>

\* Mutant of Completed: the loop does not test what is left.
CompletedNoTest ==
    /\ pc = "issued" /\ ~ci
    /\ rest' = rest - InOneCommand(rest)
    /\ lba' = lba + MaxSectors /\ buffer' = buffer + MaxSectors
    /\ pc' = "send"
    /\ UNCHANGED <<boot, disk, call, size, cmd, busy, dma, bounce, result, calls>>

\* ... and for its completion; then the next command, if there is more to do.
Completed ==
    /\ pc = "issued" /\ ~ci
    /\ rest' = rest - InOneCommand(rest)
    /\ lba' = lba + MaxSectors /\ buffer' = buffer + MaxSectors
    /\ pc' = IF rest' = 0 THEN "return" ELSE "send"
    /\ UNCHANGED <<boot, disk, call, size, cmd, busy, dma, bounce, result, calls>>

\* The bounce buffer is copied to the caller (ahci_read) and given back.
Return ==
    /\ pc = "return" /\ pc' = "ready"
    /\ result' = size
    /\ UNCHANGED <<boot, disk, rwcmd, cmd, busy, dma, bounce, calls>>

(***************************************************************************)
(* The disk (external): it may be busy, then goes through the descriptors  *)
(* of a command and moves their sectors one descriptor after the other,    *)
(* until it has moved as many as the count registers say, 0 being the      *)
(* largest count.                                                          *)
(***************************************************************************)
Count  == IF fis.count = 0 THEN CountMod ELSE fis.count
Moving == IF prdts[prd].len < Count - moved THEN prdts[prd].len ELSE Count - moved

DiskBusy ==
    /\ pc = "issue" /\ busy' = ~busy
    /\ UNCHANGED <<pc, boot, disk, rwcmd, cmd, dma, bounce, result, calls>>

ReadSectors ==
    LET to == prdts[prd].base
    IN  bounce' = [a \in DOMAIN bounce |->
                     IF a - to \in 0 .. (Moving - 1) THEN disk[fis.lba + moved + (a - to)]
                     ELSE bounce[a]]

WriteSectors ==
    LET to == fis.lba + moved
    IN  disk' = [s \in DOMAIN disk |->
                   IF s - to \in 0 .. (Moving - 1) THEN bounce[prdts[prd].base + (s - to)]
                   ELSE disk[s]]

DiskMoves ==
    /\ ci /\ prd <= Len(prdts) /\ moved < Count
    /\ \/ call.op = "read" /\ ReadSectors /\ UNCHANGED disk
       \/ call.op = "write" /\ WriteSectors /\ UNCHANGED bounce
    /\ prd' = prd + 1 /\ moved' = moved + Moving
    /\ UNCHANGED <<pc, boot, rwcmd, cmd, busy, result, calls>>

DiskEnds ==
    /\ ci /\ (prd > Len(prdts) \/ moved = Count)
    /\ ci' = FALSE
    /\ UNCHANGED <<pc, boot, disk, rwcmd, prdts, fis, busy, dma, bounce, result, calls>>

Transfer == \/ send_rw_cmd \/ Issue \/ Completed \/ Return

Next == \/ Probe \/ NoHandoff \/ RequestOwnership \/ AwaitBios \/ CheckHandoff \/ Bios
        \/ NoDevice \/ rebase_port \/ init_ahci_dev
        \/ \E q \in Requests : Call(q)
        \/ BadRequest \/ SkipRound \/ NothingSent \/ Transfer
        \/ DiskBusy \/ DiskMoves \/ DiskEnds

\* The driver's loops are all the processor does; a disk is not busy for ever
\* and executes the commands it is given.
Spec == /\ Init /\ [][Next]_vars
        /\ WF_vars(Probe \/ NoDevice \/ rebase_port \/ init_ahci_dev)
        /\ WF_vars(RequestOwnership \/ AwaitBios \/ CheckHandoff)
        /\ WF_vars(send_rw_cmd \/ Completed \/ Return) /\ SF_vars(Issue)
        /\ WF_vars(DiskBusy) /\ WF_vars(DiskMoves \/ DiskEnds)
-----------------------------------------------------------------------------
(***************************************************************************)
(* Which sectors of a request of n get moved.  Sector i belongs to the     *)
(* command that starts at the last multiple of MaxSectors up to it, and    *)
(* the disk executes of a command what is left of its length in the count  *)
(* registers: a command of more than CountMod sectors is cut short         *)
(* (ahci.c:238-239), and all of the others are moved whole.                *)
(***************************************************************************)
CommandStart(i) == (i \div MaxSectors) * MaxSectors
Counted(n)      == IF n % CountMod = 0 THEN CountMod ELSE n % CountMod
Reached(n, i)   == i - CommandStart(i) < Counted(InOneCommand(n - CommandStart(i)))

(***************************************************************************)
(* After ahci_read the buffer holds, at its place, every sector of the     *)
(* clipped request that the commands reach, through however many           *)
(* descriptors and commands, and is zero everywhere else: the sectors that *)
(* a command was cut by are reported as read and are zeros.                *)
(***************************************************************************)
Done(op) == pc = "return" /\ call.op = op

ReadsWhatTheDiskHolds ==
    Done("read") =>
        \A i \in DOMAIN bounce :
            bounce[i] = IF i < size /\ Reached(size, i) THEN disk[call.start + i] ELSE 0

(***************************************************************************)
(* The disk changes only in sectors of the request under way, and of them  *)
(* only in those its commands reach, whatever the size of the request.     *)
(***************************************************************************)
WritesWhatWasAsked ==
    [][\A s \in DOMAIN disk :
          disk'[s] # disk[s] => /\ s - call.start \in 0 .. (size - 1)
                                /\ Reached(size, s - call.start)]_vars

(***************************************************************************)
(* After ahci_write the caller's data is, in order, in every sector of the *)
(* clipped request that the commands reach.                                *)
(***************************************************************************)
WritesArrive ==
    Done("write") =>
        \A i \in 0 .. (size - 1) :
            Reached(size, i) => disk[call.start + i] = UserData[i]

(***************************************************************************)
(* A call ends, whatever it asks for, if the controller has a slot: the    *)
(* commands it is split into use the request up (ahci.c:251-258).          *)
(***************************************************************************)
CallsReturn == (pc = "send" /\ cmd_slots > 0) ~> pc = "ready"

(***************************************************************************)
(* bios_handoff fails only if the BIOS still owns the controller or is     *)
(* busy: "bit 4 or 0" (ahci.c:149).                                        *)
(***************************************************************************)
HandoffRecognised == [][handoff' = "failed" /\ handoff # "failed" => bos \/ bb]_vars
=============================================================================
