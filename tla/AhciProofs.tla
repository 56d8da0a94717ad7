----------------------------- MODULE AhciProofs -----------------------------
(***************************************************************************)
(* For every size of disk, descriptors, commands and count registers, and  *)
(* for every list of requests: which sectors ahci_read and ahci_write      *)
(* move, and that they move no others.                                     *)
(***************************************************************************)
EXTENDS Ahci, TLAPS

Booting == {"probe", "handoff", "absent", "wait", "check", "ports", "identify"}
Working == {"send", "issue", "issued", "return"}

\* A controller without slots never gets a command, and its disk has no sectors.
AhciTypeInv ==
    /\ pc \in Booting \cup Working \cup {"ready", "fault"}
    /\ cmd_slots \in Nat
    /\ sector_count = IF pc \in Booting \/ cmd_slots = 0 THEN 0 ELSE SectorCount
    /\ ci \in BOOLEAN /\ (ci => pc = "issued")
    /\ DOMAIN disk = 0 .. (SectorCount - 1)
    /\ DOMAIN bounce = DOMAIN Fresh

WholeCommands(b) == \E k \in Nat : b = k * MaxSectors

\* How far send_rw_cmds is: the buffer and the sector advance together, by
\* whole commands, and what is left is what is behind them.
LoopInv ==
    pc \in Working =>
      /\ call \in Requests /\ size \in Int /\ buffer \in Nat
      /\ cmd_slots = 0 => /\ pc \in {"send", "return"} /\ size <= 0 /\ rest = size
                          /\ pc = "return" => size = 0
      /\ cmd_slots > 0 => /\ 0 < size /\ call.start + size <= SectorCount
                          /\ lba = call.start + buffer
                          /\ pc # "return" => /\ rest = size - buffer /\ 0 < rest
                                              /\ WholeCommands(buffer)

\* How far the disk is with the command: it stands at the start of a descriptor, or
\* has moved all that descriptors or count registers let it.
CommandInv ==
    /\ pc \in {"issue", "issued"} =>
         /\ prdts = set_prdts(buffer, InOneCommand(rest))
         /\ fis = [lba |-> lba, count |-> InOneCommand(rest) % CountMod]
    /\ pc = "issued" =>
         /\ prd \in Nat \ {0} /\ moved \in 0 .. InOneCommand(rest) /\ moved <= Count
         /\ \/ ci /\ moved = (prd - 1) * SectorsPerPrdt /\ prd <= Len(prdts)
            \/ moved = InOneCommand(rest) /\ prd > Len(prdts)
            \/ moved = Count

\* The sectors of the request that the disk is done with, from the first one on: it has
\* moved them, or the count registers have cut them off.
Progress == IF cmd_slots = 0 THEN 0
            ELSE IF pc = "issued" THEN buffer + moved
            ELSE IF pc = "return" THEN size
            ELSE buffer

\* Where the first upto sectors of request q are, when it is for n sectors.
DataHolds(q, n, b, d, upto) ==
    /\ q.op = "read" =>
         \A i \in DOMAIN Fresh :
            b[i] = IF i < upto /\ Reached(n, i) THEN d[q.start + i] ELSE 0
    /\ q.op = "write" =>
         /\ \A i \in 0 .. (n - 1) : b[i] = UserData[i]
         /\ \A i \in 0 .. (upto - 1) : Reached(n, i) => d[q.start + i] = UserData[i]

DataInv == pc \in Working => DataHolds(call, size, bounce, disk, Progress)

AhciInv == AhciTypeInv /\ LoopInv /\ CommandInv /\ DataInv
-----------------------------------------------------------------------------
(***************************************************************************)
(* Sizes: the bounce buffer of the model has room for a whole disk, a      *)
(* command moves at least a sector and at most all that is left, and the   *)
(* count registers hold it unless it is larger than they are.              *)
(***************************************************************************)
LEMMA Constants ==
    /\ SectorsPerPrdt \in Nat /\ SectorsPerPrdt > 0 /\ MAX_PRDTS \in Nat /\ MAX_PRDTS > 0
    /\ CountMod \in Nat /\ CountMod > 0 /\ SectorCount \in Nat /\ SectorCount > 0
    /\ MaxSectors \in Nat /\ MaxSectors > 0
<1>1. /\ SectorsPerPrdt \in Nat /\ SectorsPerPrdt > 0 /\ MAX_PRDTS \in Nat /\ MAX_PRDTS > 0
      /\ CountMod \in Nat /\ CountMod > 0 /\ SectorCount \in Nat /\ SectorCount > 0
  BY DiskConstants
<1>2. MaxSectors \in Nat /\ MaxSectors > 0
  BY <1>1, Z3 DEF MaxSectors
<1> QED BY <1>1, <1>2

LEMMA FreshDomain ==
    /\ DOMAIN Fresh \subseteq Nat /\ 0 .. SectorCount \subseteq DOMAIN Fresh
    /\ \A a \in DOMAIN Fresh : Fresh[a] = 0
<1> DEFINE extra == MaxSectors * (MaxSkips + 1)
<1>1. extra \in Nat
  BY Constants, DiskConstants, Z3
<1> HIDE DEF extra
<1>2. Fresh = [a \in 0 .. (SectorCount + extra) |-> 0]
  BY DEF Fresh, extra
<1> QED BY <1>1, <1>2, Constants

LEMMA CommandSize ==
    ASSUME NEW n \in Nat \ {0}
    PROVE  /\ InOneCommand(n) \in 1 .. n
           /\ n - InOneCommand(n) # 0 => InOneCommand(n) = MaxSectors
           /\ n - InOneCommand(n) = 0 => n <= MaxSectors
           /\ n - InOneCommand(n) \in Nat
BY Constants DEF InOneCommand

LEMMA CountIs ==
    ASSUME NEW n \in Nat \ {0}, fis.count = n % CountMod
    PROVE  Count = Counted(n) /\ Count \in 1 .. n
<1> DEFINE m == n % CountMod
<1>1. m \in 0 .. (CountMod - 1)
  BY Constants, Z3
<1>2. n < CountMod => m = n
  BY Constants, Z3
<1>3. fis.count = m /\ Counted(n) = IF m = 0 THEN CountMod ELSE m
  BY DEF Counted
<1> HIDE DEF m
<1> QED BY <1>1, <1>2, <1>3, Constants DEF Count

\* The sectors from a command's start on, up to the next one's, are the command's.
LEMMA CommandOf ==
    ASSUME NEW b \in Nat, WholeCommands(b), NEW i \in Nat, b <= i, i < b + MaxSectors
    PROVE  CommandStart(i) = b
<1> DEFINE M == MaxSectors
           q == i \div M
<1>1. M \in Nat /\ M > 0
  BY Constants
<1>2. PICK k \in Nat : b = k * M
  BY DEF WholeCommands
<1>3. q \in Nat /\ q * M <= i /\ i < (q + 1) * M
  BY <1>1, Z3
<1>4. CommandStart(i) = q * M
  BY DEF CommandStart
<1> HIDE DEF M, q
<1>5. i < k * M + M
  BY <1>2 DEF M
<1>6. q < k => (q + 1) * M <= k * M
  BY <1>1, <1>2, <1>3, Z3
<1>7. k < q => k * M + M <= q * M
  BY <1>1, <1>2, <1>3, Z3
<1>8. q * M \in Nat /\ (q + 1) * M \in Nat /\ k * M \in Nat
  BY <1>1, <1>2, <1>3, Z3
<1>9. q = k
  BY <1>1, <1>2, <1>3, <1>5, <1>6, <1>7, <1>8
<1> QED BY <1>2, <1>4, <1>9

\* What a command of the rest of a request reaches.
LEMMA ReachedBy ==
    ASSUME NEW n \in Nat, NEW b \in Nat, WholeCommands(b), b < n, NEW i \in Nat, b <= i,
           i < b + InOneCommand(n - b), fis.count = InOneCommand(n - b) % CountMod
    PROVE  Reached(n, i) <=> i < b + Count
<1>1. n - b \in Nat \ {0}
  OBVIOUS
<1>2. InOneCommand(n - b) \in Nat \ {0} /\ InOneCommand(n - b) <= MaxSectors
  BY <1>1, Constants DEF InOneCommand
<1>3. CommandStart(i) = b
  BY <1>2, CommandOf, Constants
<1>4. Count = Counted(InOneCommand(n - b)) /\ Count \in Nat
  BY <1>2, CountIs
<1> QED BY <1>3, <1>4 DEF Reached

\* The descriptors d of a command of n sectors lie one behind the other from a on, and
\* end with its last sector.
Tiles(d, a, n) ==
    /\ Len(d) = PrdtLen(n) /\ PrdtLen(n) \in Nat \ {0}
    /\ \A k \in 1 .. PrdtLen(n) :
         /\ (k - 1) * SectorsPerPrdt \in Nat
         /\ d[k].base = a + (k - 1) * SectorsPerPrdt
         /\ d[k].len \in Nat \ {0}
         /\ (k - 1) * SectorsPerPrdt + d[k].len <= n
         /\ k < PrdtLen(n) => (k - 1) * SectorsPerPrdt + d[k].len = k * SectorsPerPrdt
         /\ k = PrdtLen(n) => (k - 1) * SectorsPerPrdt + d[k].len = n

LEMMA Descriptors ==
    ASSUME NEW n \in Nat \ {0}, NEW a \in Nat
    PROVE  Tiles(set_prdts(a, n), a, n)
<1> DEFINE d == set_prdts(a, n)
<1> SUFFICES Tiles(d, a, n)
  OBVIOUS
<1> DEFINE S == SectorsPerPrdt
           q == (n - 1) \div S
           P == PrdtLen(n)
<1>1. S \in Nat /\ S > 0
  BY Constants
<1>2. q \in Nat /\ q * S <= n - 1 /\ n - 1 < (q + 1) * S
  BY <1>1, Z3
<1>3. P = q + 1
  BY DEF PrdtLen
<1> HIDE DEF S, q, P, d
<1>4. P \in Nat \ {0} /\ (P - 1) * S < n /\ n <= P * S /\ (P - 1) * S \in Nat
  BY <1>1, <1>2, <1>3, Z3
<1>5. d = [k \in 1 .. P |-> [base |-> a + (k - 1) * S,
                             len  |-> IF k < P THEN S ELSE n - (P - 1) * S]]
  BY DEF set_prdts, S, P, d
<1>6. Len(d) = P
  BY <1>4, <1>5
<1>7. ASSUME NEW k \in 1 .. P
      PROVE  /\ (k - 1) * S \in Nat
             /\ d[k].base = a + (k - 1) * S
             /\ d[k].len \in Nat \ {0}
             /\ (k - 1) * S + d[k].len <= n
             /\ k < P => (k - 1) * S + d[k].len = k * S
             /\ k = P => (k - 1) * S + d[k].len = n
  <2> DEFINE b == (k - 1) * S
             c == (P - 1) * S
  <2>1. b \in Nat /\ k * S = b + S
    BY <1>1, <1>4, Z3
  <2>2. k < P => k * S <= c
    BY <1>1, <1>4, Z3
  <2>3. c \in Nat /\ c < n /\ n <= c + S
    BY <1>1, <1>4, Z3
  <2>4. k = P => b = c
    OBVIOUS
  <2> HIDE DEF b, c
  <2>5. d[k] = [base |-> a + b, len |-> IF k < P THEN S ELSE n - c]
    BY <1>5 DEF b, c
  <2>6. CASE k < P
    <3>1. d[k] = [base |-> a + b, len |-> S]
      BY <2>5, <2>6
    <3>2. b + S <= n
      BY <1>1, <2>1, <2>2, <2>3, <2>6
    <3> QED BY <1>1, <1>4, <2>1, <2>6, <3>1, <3>2 DEF b
  <2>7. CASE k = P
    <3>1. d[k] = [base |-> a + b, len |-> n - b]
      BY <1>4, <2>4, <2>5, <2>7
    <3> QED BY <1>1, <1>4, <2>1, <2>3, <2>4, <2>7, <3>1 DEF b
  <2> QED BY <1>4, <2>6, <2>7
<1> QED BY <1>4, <1>6, <1>7 DEF S, P, Tiles

-----------------------------------------------------------------------------
(***************************************************************************)
(* The invariant, step by step.                                            *)
(***************************************************************************)
LEMMA InitAhciInv == Init => AhciInv
<1> SUFFICES ASSUME Init PROVE AhciInv
  OBVIOUS
<1>1. pc = "probe" /\ pc \in Booting /\ pc \notin Working
  BY DEF Init, Booting, Working
<1>2. cmd_slots \in Nat
  BY DiskConstants DEF Init
<1>3. AhciTypeInv
  BY <1>1, <1>2 DEF Init, AhciTypeInv
<1> QED BY <1>1, <1>3 DEF AhciInv, LoopInv, CommandInv, DataInv, DataHolds, Working

\* The steps before the disk is used, and those of the BIOS.
LEMMA BootInvariant ==
    ASSUME AhciInv,
           \/ Probe \/ NoHandoff \/ RequestOwnership \/ AwaitBios \/ CheckHandoff
           \/ NoDevice \/ rebase_port \/ init_ahci_dev
    PROVE  AhciInv'
<1>1. /\ pc \in Booting /\ ci = FALSE /\ sector_count = 0
      /\ DOMAIN disk = 0 .. (SectorCount - 1) /\ DOMAIN bounce = DOMAIN Fresh /\ cmd_slots \in Nat
  BY DEF AhciInv, AhciTypeInv, Probe, NoHandoff, RequestOwnership, AwaitBios, CheckHandoff,
         NoDevice, rebase_port, init_ahci_dev, Booting
<1>2. UNCHANGED <<disk, bounce, ci, cmd_slots>>
  BY DEF Probe, NoHandoff, RequestOwnership, AwaitBios, CheckHandoff, NoDevice, rebase_port,
         init_ahci_dev, Still, boot, cmd
<1>3. CASE init_ahci_dev
  <2>1. pc' = "ready" /\ sector_count' = IF cmd_slots = 0 THEN 0 ELSE SectorCount
    BY <1>1, <1>3 DEF init_ahci_dev, send_identify_cmd, SlotFree
  <2> QED BY <1>1, <1>2, <2>1
          DEF AhciInv, AhciTypeInv, LoopInv, CommandInv, DataInv, Booting, Working
<1>4. CASE ~init_ahci_dev
  <2>1. pc' \in Booting /\ sector_count' = 0
    BY <1>1, <1>4 DEF Probe, NoHandoff, RequestOwnership, AwaitBios, CheckHandoff, NoDevice,
                      rebase_port, Still, boot, Booting
  <2> QED BY <1>1, <1>2, <2>1
          DEF AhciInv, AhciTypeInv, LoopInv, CommandInv, DataInv, Booting, Working
<1> QED BY <1>3, <1>4

\* What the invariant does not speak of.
LEMMA IdleInvariant ==
    ASSUME AhciInv, UNCHANGED <<pc, cmd_slots, sector_count, disk, rwcmd, cmd, dma, bounce>>
    PROVE  AhciInv'
<1>1. UNCHANGED <<call, size, lba, rest, buffer, prdts, fis, ci, prd, moved>>
  BY DEF rwcmd, cmd, dma
<1>2. UNCHANGED <<Count, Progress>>
  BY <1>1 DEF Count, Progress
<1>3. AhciTypeInv' /\ LoopInv' /\ CommandInv'
  BY <1>1, <1>2 DEF AhciInv, AhciTypeInv, LoopInv, CommandInv
<1>4. DataInv'
  BY <1>1, <1>2 DEF AhciInv, DataInv, DataHolds
<1> QED BY <1>3, <1>4 DEF AhciInv

\* A call that is cut at the end of the disk.
LEMMA CallInvariant ==
    ASSUME AhciInv, NEW q \in Requests, Call(q)
    PROVE  AhciInv'
<1>1. /\ pc = "ready" /\ call' = q /\ size' = Clipped(q) /\ lba' = q.start
      /\ rest' = Clipped(q) /\ buffer' = 0
      /\ pc' = IF q.op = "write" /\ Clipped(q) < 0 THEN "fault" ELSE "send"
      /\ UNCHANGED <<cmd_slots, sector_count, ci, disk>>
  BY DEF Call, boot, cmd
<1>2. q.start \in 0 .. (SectorCount - 1) /\ q.size \in Nat \ {0} /\ q.op \in {"read", "write"}
  BY RequestAssumption
<1>3. /\ cmd_slots \in Nat /\ sector_count = (IF cmd_slots = 0 THEN 0 ELSE SectorCount) /\ ci = FALSE
      /\ DOMAIN disk = 0 .. (SectorCount - 1)
  BY <1>1 DEF AhciInv, AhciTypeInv, Booting
<1>4. /\ Clipped(q) \in Int
      /\ cmd_slots = 0 => Clipped(q) <= 0
      /\ cmd_slots > 0 => 0 < Clipped(q) /\ q.start + Clipped(q) <= SectorCount
  BY <1>2, <1>3, Constants DEF Clipped
<1>5. DOMAIN bounce' = DOMAIN Fresh
  BY FreshDomain DEF Call
<1>6. AhciTypeInv'
  BY <1>1, <1>3, <1>5 DEF AhciTypeInv, Booting, Working
<1>7. LoopInv'
  <2>1. WholeCommands(0)
    BY Constants DEF WholeCommands
  <2> QED BY <1>1, <1>2, <1>3, <1>4, <2>1 DEF LoopInv, Working
<1>8. CommandInv'
  BY <1>1 DEF CommandInv
<1>9. DataInv'
  <2>1. Progress' = 0
    BY <1>1 DEF Progress
  <2>2. CASE q.op = "read"
    <3>1. bounce' = Fresh
      BY <2>2 DEF Call
    <3> QED BY <1>1, <2>1, <2>2, <3>1, FreshDomain DEF DataInv, DataHolds
  <2>3. CASE q.op = "write" /\ pc' = "send"
    <3>1. bounce' = [i \in DOMAIN Fresh |-> IF i < Clipped(q) THEN UserData[i] ELSE 0]
      BY <2>3 DEF Call
    <3>2. Clipped(q) <= SectorCount
      BY <1>2, <1>3, <1>4, Constants
    <3>3. ASSUME NEW i \in 0 .. (Clipped(q) - 1) PROVE bounce'[i] = UserData[i]
      <4>1. i \in DOMAIN Fresh /\ i < Clipped(q)
        BY <1>4, <3>2, FreshDomain, Constants
      <4> QED BY <3>1, <4>1
    <3> QED BY <1>1, <2>1, <2>3, <3>3 DEF DataInv, DataHolds
  <2> QED BY <1>1, <1>2, <2>2, <2>3 DEF DataInv, DataHolds, Working
<1> QED BY <1>6, <1>7, <1>8, <1>9 DEF AhciInv

\* A controller without slots.
LEMMA SkipInvariant ==
    ASSUME AhciInv, SkipRound \/ NothingSent
    PROVE  AhciInv'
<1>1. /\ pc = "send" /\ ci = FALSE /\ cmd_slots = 0
      /\ UNCHANGED <<cmd_slots, sector_count, disk, bounce, call, size, rest, ci>>
      /\ pc' \in {"send", "return"} /\ (pc' = "return" => rest = 0)
  BY DEF AhciInv, AhciTypeInv, SkipRound, NothingSent, SlotFree, boot, rwcmd, cmd
<1>2. buffer' \in Nat
  BY <1>1, Constants DEF AhciInv, LoopInv, Working, SkipRound, NothingSent, rwcmd
<1>3. AhciTypeInv'
  BY <1>1 DEF AhciInv, AhciTypeInv, Booting, Working
<1>4. LoopInv'
  BY <1>1, <1>2 DEF AhciInv, LoopInv, Working
<1>5. CommandInv'
  BY <1>1 DEF CommandInv
<1>6. DataInv'
  <2>1. Progress = 0 /\ Progress' = 0
    BY <1>1 DEF Progress
  <2> QED BY <1>1, <2>1 DEF AhciInv, DataInv, DataHolds, Working
<1> QED BY <1>3, <1>4, <1>5, <1>6 DEF AhciInv

\* The driver's side of a command.
LEMMA SendInvariant ==
    ASSUME AhciInv, send_rw_cmd \/ Issue
    PROVE  AhciInv'
<1>1. /\ pc \in {"send", "issue"} /\ pc' = (IF pc = "send" THEN "issue" ELSE "issued")
      /\ UNCHANGED <<cmd_slots, sector_count, disk, bounce, call, size, lba, rest, buffer>>
  BY DEF send_rw_cmd, Issue, boot, rwcmd
<1>2. cmd_slots > 0
  BY <1>1 DEF AhciInv, LoopInv, AhciTypeInv, Working, send_rw_cmd, Issue, SlotFree
<1>3. ci' \in BOOLEAN /\ (ci' => pc' = "issued")
  <2>1. CASE send_rw_cmd
    BY <1>1, <2>1 DEF AhciInv, AhciTypeInv, send_rw_cmd
  <2>2. CASE Issue
    BY <2>2 DEF Issue
  <2> QED BY <2>1, <2>2
<1>4. AhciTypeInv' /\ LoopInv'
  BY <1>1, <1>2, <1>3 DEF AhciInv, AhciTypeInv, LoopInv, Booting, Working
<1>5. rest \in Nat \ {0} /\ buffer \in Nat
  BY <1>1, <1>2 DEF AhciInv, LoopInv, Working
<1>6. CommandInv'
  <2>1. CASE send_rw_cmd
    BY <1>1, <2>1 DEF send_rw_cmd, CommandInv
  <2>2. CASE Issue
    <3>1. /\ UNCHANGED <<prdts, fis>> /\ pc = "issue" /\ prd' = 1 /\ moved' = 0 /\ ci' = TRUE
      BY <2>2 DEF Issue
    <3>2. /\ prdts = set_prdts(buffer, InOneCommand(rest))
          /\ fis = [lba |-> lba, count |-> InOneCommand(rest) % CountMod]
      BY <3>1 DEF AhciInv, CommandInv
    <3>3. InOneCommand(rest) \in Nat \ {0}
      BY <1>5, CommandSize
    <3>4. Len(prdts) \in Nat \ {0} /\ Count \in Nat \ {0}
      BY <1>5, <3>2, <3>3, Descriptors, CountIs DEF Tiles
    <3>5. Count' = Count
      BY <3>1 DEF Count
    <3>6. moved' = (prd' - 1) * SectorsPerPrdt
      BY <3>1, Constants
    <3> QED BY <1>1, <3>1, <3>2, <3>3, <3>4, <3>5, <3>6 DEF CommandInv
  <2> QED BY <2>1, <2>2
<1>7. DataInv'
  <2>1. CASE send_rw_cmd
    <3>1. Progress' = Progress
      BY <1>1, <1>2, <2>1 DEF Progress, send_rw_cmd
    <3> QED BY <1>1, <3>1 DEF AhciInv, DataInv, DataHolds, Working
  <2>2. CASE Issue
    <3>1. Progress = buffer /\ Progress' = buffer + 0
      BY <1>1, <1>2, <2>2 DEF Progress, Issue
    <3>2. Progress' = Progress
      BY <1>5, <3>1
    <3> QED BY <1>1, <3>2 DEF AhciInv, DataInv, DataHolds, Working
  <2> QED BY <2>1, <2>2
<1> QED BY <1>4, <1>6, <1>7 DEF AhciInv

\* When the disk has executed a command it has moved what the count registers say, and
\* the command does not reach the others.
LEMMA CompletedInvariant ==
    ASSUME AhciInv, Completed
    PROVE  AhciInv'
<1> DEFINE n == InOneCommand(rest)
<1>1. /\ pc = "issued" /\ ci = FALSE /\ rest' = rest - n /\ lba' = lba + MaxSectors
      /\ buffer' = buffer + MaxSectors /\ pc' = (IF rest' = 0 THEN "return" ELSE "send")
      /\ UNCHANGED <<cmd_slots, sector_count, disk, bounce, call, size, ci>>
  BY DEF Completed, boot, cmd, AhciInv, AhciTypeInv
<1>2. /\ cmd_slots > 0 /\ call \in Requests /\ size \in Int /\ buffer \in Nat /\ 0 < size
      /\ call.start + size <= SectorCount /\ lba = call.start + buffer
      /\ rest = size - buffer /\ 0 < rest /\ WholeCommands(buffer)
  BY <1>1 DEF AhciInv, AhciTypeInv, LoopInv, Working
<1>3. /\ n \in 1 .. rest /\ (rest - n # 0 => n = MaxSectors) /\ rest - n \in Nat
  BY <1>2, CommandSize
<1>4. call.start \in Nat /\ call.op \in {"read", "write"}
  BY <1>2, RequestAssumption
<1>5. fis.count = n % CountMod
  BY <1>1 DEF AhciInv, CommandInv
<1>6. Count \in 1 .. n /\ moved = Count
  <2>1. Count \in 1 .. n
    BY <1>2, <1>3, <1>5, CountIs
  <2>2. (moved = n \/ moved = Count) /\ moved <= Count
    BY <1>1 DEF AhciInv, CommandInv
  <2> QED BY <1>2, <1>3, <2>1, <2>2
<1>7. AhciTypeInv'
  BY <1>1, <1>2 DEF AhciInv, AhciTypeInv, Booting, Working
<1>8. ASSUME NEW i \in Nat, buffer + moved <= i, i < buffer + n
      PROVE  ~Reached(size, i)
  <2>1. Reached(size, i) <=> i < buffer + Count
    BY <1>2, <1>3, <1>5, <1>6, <1>8, ReachedBy
  <2> QED BY <1>2, <1>3, <1>6, <1>8, <2>1
<1> HIDE DEF n
<1>9. WholeCommands(buffer + MaxSectors)
  <2>1. PICK k \in Nat : buffer = k * MaxSectors
    BY <1>2 DEF WholeCommands
  <2>2. buffer + MaxSectors = (k + 1) * MaxSectors
    BY <2>1, Constants, Z3
  <2> QED BY <2>2 DEF WholeCommands
<1>10. LoopInv'
  BY <1>1, <1>2, <1>3, <1>4, <1>9, Constants DEF LoopInv, Working
<1>11. CommandInv'
  BY <1>1 DEF CommandInv
<1>12. DataInv'
  <2> DEFINE p == buffer + moved
             t == buffer + n
  <2>1. Progress = p
    BY <1>1, <1>2 DEF Progress
  <2>2. Progress' = t
    BY <1>1, <1>2, <1>3, Constants DEF Progress
  <2>3. p \in Nat /\ t \in Nat /\ p <= t /\ t <= size
    BY <1>2, <1>3, <1>6
  <2>4. DataHolds(call, size, bounce, disk, p)
    BY <1>1, <2>1 DEF AhciInv, DataInv, Working
  <2>5. ASSUME NEW i \in Nat PROVE i < t /\ Reached(size, i) <=> i < p /\ Reached(size, i)
    BY <1>8, <2>3
  <2> HIDE DEF p, t
  <2>6. DataHolds(call, size, bounce, disk, t)
    <3>1. CASE call.op = "read"
      BY <2>4, <2>5, <3>1, FreshDomain DEF DataHolds
    <3>2. CASE call.op = "write"
      BY <2>3, <2>4, <2>5, <3>2 DEF DataHolds
    <3> QED BY <1>4, <3>1, <3>2
  <2> QED BY <1>1, <2>2, <2>6 DEF DataInv
<1> QED BY <1>7, <1>10, <1>11, <1>12 DEF AhciInv

LEMMA ReturnInvariant ==
    ASSUME AhciInv, Return
    PROVE  AhciInv'
<1>1. /\ pc = "return" /\ pc' = "ready"
      /\ UNCHANGED <<cmd_slots, sector_count, disk, bounce, ci>>
  BY DEF Return, boot, cmd
<1> QED BY <1>1 DEF AhciInv, AhciTypeInv, LoopInv, CommandInv, DataInv, DataHolds, Booting, Working

LEMMA DiskEndsInvariant ==
    ASSUME AhciInv, DiskEnds
    PROVE  AhciInv'
<1>1. /\ ci = TRUE /\ ci' = FALSE
      /\ UNCHANGED <<pc, cmd_slots, sector_count, disk, bounce, call, size, lba, rest, buffer,
                     prdts, fis, prd, moved>>
  BY DEF DiskEnds, AhciInv, AhciTypeInv, boot, rwcmd, dma
<1>2. pc = "issued"
  BY <1>1 DEF AhciInv, AhciTypeInv
<1>3. UNCHANGED <<Count, Progress>>
  BY <1>1 DEF Count, Progress
<1>4. AhciTypeInv' /\ LoopInv'
  BY <1>1 DEF AhciInv, AhciTypeInv, LoopInv
<1>5. CommandInv'
  <2>1. /\ prd \in Nat \ {0} /\ Len(prdts) \in Nat
    <3>1. rest \in Nat \ {0} /\ buffer \in Nat
      BY <1>2 DEF AhciInv, AhciTypeInv, LoopInv, Working
    <3>2. InOneCommand(rest) \in Nat \ {0}
      BY <3>1, CommandSize
    <3>3. prdts = set_prdts(buffer, InOneCommand(rest))
      BY <1>2 DEF AhciInv, CommandInv
    <3> QED BY <1>2, <3>1, <3>2, <3>3, Descriptors DEF AhciInv, CommandInv, Tiles
  <2>2. prd > Len(prdts) \/ moved = Count
    BY DEF DiskEnds
  <2> QED BY <1>1, <1>2, <1>3, <2>1, <2>2 DEF AhciInv, CommandInv
<1>6. DataInv'
  BY <1>1, <1>3 DEF AhciInv, DataInv, DataHolds
<1> QED BY <1>4, <1>5, <1>6 DEF AhciInv

(***************************************************************************)
(* What the disk moves with one descriptor: the next Moving sectors of the *)
(* request, to or from the place in the buffer that is theirs.             *)
(***************************************************************************)
LEMMA OneDescriptor ==
    ASSUME AhciInv, DiskMoves
    PROVE  /\ pc = "issued" /\ cmd_slots > 0 /\ prd \in Nat /\ moved \in Nat /\ buffer \in Nat
           /\ call.start \in Nat /\ call.op \in {"read", "write"} /\ size \in Nat
           /\ call.start + size <= SectorCount
           /\ Moving \in Nat \ {0}
           /\ prdts[prd].base = buffer + moved
           /\ fis.lba + moved = call.start + buffer + moved
           /\ moved + Moving <= InOneCommand(rest) /\ InOneCommand(rest) \in Nat
           /\ moved + Moving <= Count /\ Count \in Nat
           /\ buffer + InOneCommand(rest) <= size
           /\ \A i \in (buffer + moved) .. (buffer + moved + (Moving - 1)) : Reached(size, i)
           /\ \/ moved + Moving = prd * SectorsPerPrdt /\ prd + 1 <= Len(prdts)
              \/ moved + Moving = InOneCommand(rest) /\ prd + 1 > Len(prdts)
              \/ moved + Moving = Count
<1> DEFINE n == InOneCommand(rest)
           b == (prd - 1) * SectorsPerPrdt
           e == prd * SectorsPerPrdt
           l == prdts[prd].len
<1>1. /\ ci /\ prd <= Len(prdts) /\ moved < Count /\ pc = "issued"
  BY DEF DiskMoves, AhciInv, AhciTypeInv
<1>2. /\ cmd_slots > 0 /\ call \in Requests /\ size \in Int /\ buffer \in Nat /\ 0 < size
      /\ call.start + size <= SectorCount /\ lba = call.start + buffer
      /\ rest = size - buffer /\ 0 < rest /\ WholeCommands(buffer)
  BY <1>1 DEF AhciInv, AhciTypeInv, LoopInv, Working
<1>3. n \in 1 .. rest
  BY <1>2, CommandSize
<1>4. call.start \in Nat /\ call.op \in {"read", "write"}
  BY <1>2, RequestAssumption
<1>5. /\ prdts = set_prdts(buffer, n) /\ fis = [lba |-> lba, count |-> n % CountMod]
      /\ prd \in Nat \ {0} /\ moved \in 0 .. n
      /\ (moved = b /\ prd <= Len(prdts)) \/ prd > Len(prdts) \/ moved = Count
  BY <1>1 DEF AhciInv, CommandInv
<1>6. Count \in Nat \ {0}
  BY <1>2, <1>3, <1>5, CountIs
<1>7. /\ prd \in 1 .. Len(prdts) /\ Len(prdts) \in Nat
      /\ b \in Nat /\ prdts[prd].base = buffer + b /\ l \in Nat \ {0} /\ b + l <= n
      /\ prd < Len(prdts) => b + l = e
      /\ prd = Len(prdts) => b + l = n
  <2>1. n \in Nat \ {0}
    BY <1>2, <1>3
  <2>2. Len(prdts) = PrdtLen(n) /\ PrdtLen(n) \in Nat
    BY <1>2, <1>5, <2>1, Descriptors DEF Tiles
  <2>3. prd \in 1 .. PrdtLen(n)
    BY <1>1, <1>5, <2>2
  <2>4. /\ b \in Nat /\ prdts[prd].base = buffer + b /\ l \in Nat \ {0} /\ b + l <= n
        /\ prd < PrdtLen(n) => b + l = e
        /\ prd = PrdtLen(n) => b + l = n
    <3> HIDE DEF n
    <3>1. prdts = set_prdts(buffer, n) /\ n \in Nat \ {0} /\ buffer \in Nat
      BY <1>2, <1>5, <2>1
    <3>2. Tiles(prdts, buffer, n)
      BY <3>1, Descriptors
    <3> QED BY <2>3, <3>2 DEF Tiles
  <2> HIDE DEF n, b, e, l
  <2> QED BY <2>2, <2>3, <2>4
<1> HIDE DEF n, b, e, l
<1>8. moved = b
  BY <1>1, <1>5, <1>6, <1>7, <1>3, <1>2
<1>9. Moving = IF l < Count - moved THEN l ELSE Count - moved
  BY DEF Moving, l
<1>10. Moving \in Nat \ {0} /\ moved + Moving <= n /\ moved + Moving <= Count
  BY <1>1, <1>2, <1>3, <1>5, <1>6, <1>7, <1>8, <1>9
<1>11. \/ moved + Moving = e /\ prd + 1 <= Len(prdts)
       \/ moved + Moving = n /\ prd + 1 > Len(prdts)
       \/ moved + Moving = Count
  BY <1>1, <1>5, <1>6, <1>7, <1>8, <1>9
<1>12. fis.lba = call.start + buffer
  BY <1>2, <1>5
<1>13. buffer + n <= size /\ size \in Nat /\ n \in Nat
  BY <1>2, <1>3
<1>14. prdts[prd].base = buffer + moved /\ fis.lba + moved = call.start + buffer + moved
  BY <1>7, <1>8, <1>12
<1>15. ASSUME NEW i \in (buffer + moved) .. (buffer + moved + (Moving - 1))
       PROVE  Reached(size, i)
  <2>1. i \in Nat /\ buffer <= i /\ i < buffer + n /\ i < buffer + Count /\ buffer < size
    BY <1>2, <1>3, <1>5, <1>6, <1>10
  <2>2. fis.count = n % CountMod
    BY <1>5
  <2> QED BY <1>2, <1>13, <2>1, <2>2, ReachedBy DEF n
<1> QED BY <1>1, <1>2, <1>4, <1>5, <1>6, <1>10, <1>11, <1>13, <1>14, <1>15 DEF n, e

LEMMA DiskMovesInvariant ==
    ASSUME AhciInv, DiskMoves
    PROVE  AhciInv'
<1>1. /\ prd' = prd + 1 /\ moved' = moved + Moving
      /\ UNCHANGED <<pc, cmd_slots, sector_count, call, size, lba, rest, buffer, prdts, fis, ci>>
  BY DEF DiskMoves, boot, rwcmd, cmd
<1>2. Count' = Count
  BY <1>1 DEF Count
<1>3. /\ pc = "issued" /\ cmd_slots > 0 /\ prd \in Nat /\ moved \in Nat /\ buffer \in Nat
      /\ call.start \in Nat /\ call.op \in {"read", "write"} /\ size \in Nat
      /\ call.start + size <= SectorCount /\ Moving \in Nat \ {0}
  BY OneDescriptor
<1>4. /\ moved + Moving <= InOneCommand(rest) /\ InOneCommand(rest) \in Nat
      /\ moved + Moving <= Count /\ buffer + InOneCommand(rest) <= size
      /\ prdts[prd].base = buffer + moved /\ fis.lba + moved = call.start + buffer + moved
  BY OneDescriptor
<1>5. \/ moved + Moving = prd * SectorsPerPrdt /\ prd + 1 <= Len(prdts)
      \/ moved + Moving = InOneCommand(rest) /\ prd + 1 > Len(prdts)
      \/ moved + Moving = Count
  BY OneDescriptor
<1>6. DOMAIN disk' = 0 .. (SectorCount - 1) /\ DOMAIN bounce' = DOMAIN Fresh
  BY DEF DiskMoves, ReadSectors, WriteSectors, AhciInv, AhciTypeInv
<1>7. AhciTypeInv' /\ LoopInv'
  BY <1>1, <1>6 DEF AhciInv, AhciTypeInv, LoopInv
<1>8. CommandInv'
  <2>1. prd' \in Nat \ {0} /\ moved' \in 0 .. InOneCommand(rest) /\ (prd' - 1) = prd
    BY <1>1, <1>3, <1>4
  <2>2. ci
    BY DEF DiskMoves
  <2> QED BY <1>1, <1>2, <1>3, <1>4, <1>5, <2>1, <2>2 DEF AhciInv, CommandInv
<1>9. DataInv'
  <2> DEFINE p == buffer + moved
             m == Moving
  <2>1. p \in Nat /\ m \in Nat \ {0} /\ p + m <= size /\ Progress = p
    BY <1>3, <1>4 DEF Progress
  <2>2. Progress' = p + m
    BY <1>1, <1>3 DEF Progress
  <2>3. prdts[prd].base = p /\ fis.lba + moved = call.start + p
    BY <1>3, <1>4
  <2>4. \A i \in p .. (p + (m - 1)) : Reached(size, i)
    BY OneDescriptor
  <2>5. DOMAIN bounce = DOMAIN Fresh /\ DOMAIN disk = 0 .. (SectorCount - 1)
    BY DEF AhciInv, AhciTypeInv
  <2> HIDE DEF p, m
  <2>6. CASE call.op = "read"
    <3>1. /\ UNCHANGED disk
          /\ bounce' = [a \in DOMAIN Fresh |-> IF a - p \in 0 .. (m - 1)
                                               THEN disk[call.start + p + (a - p)] ELSE bounce[a]]
      BY <2>3, <2>5, <2>6 DEF DiskMoves, ReadSectors, m
    <3>2. \A k \in DOMAIN Fresh :
             bounce[k] = IF k < p /\ Reached(size, k) THEN disk[call.start + k] ELSE 0
      BY <1>3, <2>1, <2>6 DEF AhciInv, DataInv, DataHolds, Working
    <3>3. ASSUME NEW k \in DOMAIN Fresh
          PROVE  bounce'[k] = IF k < p + m /\ Reached(size, k) THEN disk[call.start + k] ELSE 0
      <4>1. k \in Nat
        BY FreshDomain
      <4>2. CASE k - p \in 0 .. (m - 1)
        <5>1. k \in p .. (p + (m - 1)) /\ k < p + m /\ call.start + p + (k - p) = call.start + k
          BY <1>3, <2>1, <4>1, <4>2
        <5>2. Reached(size, k)
          BY <2>4, <5>1
        <5> QED BY <3>1, <4>2, <5>1, <5>2
      <4>3. CASE k - p \notin 0 .. (m - 1)
        <5>1. k < p + m <=> k < p
          BY <2>1, <4>1, <4>3
        <5>2. bounce'[k] = bounce[k]
          BY <3>1, <4>3
        <5> QED BY <3>2, <5>1, <5>2
      <4> QED BY <4>2, <4>3
    <3>6. disk' = disk /\ call.op # "write"
      BY <2>6, <3>1
    <3>7. DataHolds(call, size, bounce', disk', p + m)
      BY <2>6, <3>3, <3>6 DEF DataHolds
    <3> QED BY <1>1, <2>2, <3>7 DEF DataInv
  <2>7. CASE call.op = "write"
    <3>1. /\ UNCHANGED bounce
          /\ disk' = [s \in 0 .. (SectorCount - 1) |->
                        IF s - (call.start + p) \in 0 .. (m - 1)
                        THEN bounce[p + (s - (call.start + p))] ELSE disk[s]]
      BY <2>3, <2>5, <2>7 DEF DiskMoves, WriteSectors, m
    <3>2. /\ \A k \in 0 .. (size - 1) : bounce[k] = UserData[k]
          /\ \A k \in 0 .. (p - 1) : Reached(size, k) => disk[call.start + k] = UserData[k]
      BY <1>3, <2>1, <2>7 DEF AhciInv, DataInv, DataHolds, Working
    <3>3. ASSUME NEW k \in 0 .. (p + m - 1), Reached(size, k)
          PROVE  disk'[call.start + k] = UserData[k]
      <4> DEFINE t == call.start + k
      <4>1. t \in 0 .. (SectorCount - 1) /\ t - (call.start + p) = k - p
        BY <1>3, <2>1, Constants
      <4>2. CASE k < p
        <5>1. t - (call.start + p) \notin 0 .. (m - 1)
          BY <2>1, <4>1, <4>2
        <5>2. disk[t] = UserData[k]
          BY <2>1, <3>2, <3>3, <4>2
        <5> HIDE DEF t
        <5>3. disk'[t] = disk[t]
          BY <3>1, <4>1, <5>1
        <5> QED BY <5>2, <5>3 DEF t
      <4>3. CASE k >= p
        <5>1. /\ t - (call.start + p) \in 0 .. (m - 1)
              /\ p + (t - (call.start + p)) = k /\ k \in 0 .. (size - 1)
          BY <1>3, <2>1, <4>1, <4>3
        <5>2. bounce[k] = UserData[k]
          BY <3>2, <5>1
        <5> HIDE DEF t
        <5>3. disk'[t] = bounce[p + (t - (call.start + p))]
          BY <3>1, <4>1, <5>1
        <5> QED BY <5>1, <5>2, <5>3 DEF t
      <4> QED BY <2>1, <4>2, <4>3
    <3>4. /\ \A k \in 0 .. (p + m - 1) : Reached(size, k) => disk'[call.start + k] = UserData[k]
          /\ \A k \in 0 .. (size - 1) : bounce'[k] = UserData[k]
      BY <3>1, <3>2, <3>3
    <3>5. DataHolds(call, size, bounce', disk', p + m)
      BY <1>3, <2>1, <2>7, <3>4, Constants DEF DataHolds
    <3> QED BY <1>1, <2>2, <3>5 DEF DataInv
  <2> QED BY <1>3, <2>6, <2>7
<1> QED BY <1>7, <1>8, <1>9 DEF AhciInv

LEMMA NextAhciInv == AhciInv /\ [Next]_vars => AhciInv'
<1> SUFFICES ASSUME AhciInv, [Next]_vars PROVE AhciInv'
  OBVIOUS
<1>1. CASE \/ Probe \/ NoHandoff \/ RequestOwnership \/ AwaitBios \/ CheckHandoff
           \/ NoDevice \/ rebase_port \/ init_ahci_dev
  BY <1>1, BootInvariant
<1>2. CASE Bios
  BY <1>2, IdleInvariant DEF Bios, Still
<1>3. ASSUME NEW q \in Requests, Call(q) PROVE AhciInv'
  BY <1>3, CallInvariant
<1>4. CASE BadRequest
  <2>1. /\ pc = "ready" /\ UNCHANGED <<pc, cmd_slots, sector_count, disk, bounce, ci>>
    BY <1>4 DEF BadRequest, boot, cmd
  <2> QED BY <2>1 DEF AhciInv, AhciTypeInv, LoopInv, CommandInv, DataInv, DataHolds, Booting, Working
<1>5. CASE SkipRound \/ NothingSent
  BY <1>5, SkipInvariant
<1>6. CASE Transfer
  BY <1>6, SendInvariant, CompletedInvariant, ReturnInvariant DEF Transfer
<1>7. CASE DiskBusy
  BY <1>7, IdleInvariant DEF DiskBusy, boot
<1>8. CASE DiskMoves
  BY <1>8, DiskMovesInvariant
<1>9. CASE DiskEnds
  BY <1>9, DiskEndsInvariant
<1>10. CASE UNCHANGED vars
  BY <1>10, IdleInvariant DEF vars, boot
<1> QED BY <1>1, <1>2, <1>3, <1>4, <1>5, <1>6, <1>7, <1>8, <1>9, <1>10 DEF Next

LEMMA AhciInvariant == Spec => []AhciInv
<1> QED BY InitAhciInv, NextAhciInv, PTL DEF Spec

-----------------------------------------------------------------------------
(***************************************************************************)
(* What ahci_read hands to its caller, for a request of any size: through  *)
(* however many descriptors and commands, each sector that a command       *)
(* reaches is at its place in the buffer, and everything else in it, the   *)
(* sectors that the count registers cut off included, is zero.             *)
(***************************************************************************)
THEOREM ReadsAreRight == Spec => []ReadsWhatTheDiskHolds
<1>1. AhciInv => ReadsWhatTheDiskHolds
  <2> SUFFICES ASSUME AhciInv, pc = "return", call.op = "read"
               PROVE  \A i \in DOMAIN bounce :
                         bounce[i] = IF i < size /\ Reached(size, i)
                                     THEN disk[call.start + i] ELSE 0
    BY DEF ReadsWhatTheDiskHolds, Done
  <2>1. Progress = size
    BY DEF AhciInv, AhciTypeInv, LoopInv, Working, Progress
  <2> QED BY <2>1 DEF AhciInv, AhciTypeInv, DataInv, DataHolds, Working
<1> QED BY <1>1, AhciInvariant, PTL

(***************************************************************************)
(* When ahci_write returns, each sector of the request that a command      *)
(* reaches, and for a request of any size, holds the caller's data for it. *)
(***************************************************************************)
THEOREM WritesAreRight == Spec => []WritesArrive
<1>1. AhciInv => WritesArrive
  <2> SUFFICES ASSUME AhciInv, pc = "return", call.op = "write"
               PROVE  \A i \in 0 .. (size - 1) :
                         Reached(size, i) => disk[call.start + i] = UserData[i]
    BY DEF WritesArrive, Done
  <2>1. Progress = size
    BY DEF AhciInv, AhciTypeInv, LoopInv, Working, Progress
  <2> QED BY <2>1 DEF AhciInv, DataInv, DataHolds, Working
<1> QED BY <1>1, AhciInvariant, PTL

(***************************************************************************)
(* No call, of any size, changes a sector outside its request or one that  *)
(* its commands do not reach, and nothing but a call changes the disk.     *)
(***************************************************************************)
THEOREM NothingElseIsWritten == Spec => WritesWhatWasAsked
<1> DEFINE Inside == \A s \in DOMAIN disk :
                        disk'[s] # disk[s] => /\ s - call.start \in 0 .. (size - 1)
                                              /\ Reached(size, s - call.start)
<1>1. AhciInv /\ [Next]_vars => [Inside]_vars
  <2> SUFFICES ASSUME AhciInv, Next PROVE Inside
    OBVIOUS
  <2>1. CASE UNCHANGED disk
    BY <2>1
  <2>2. CASE DiskMoves /\ call.op = "write"
    <3> SUFFICES ASSUME NEW s \in DOMAIN disk, disk'[s] # disk[s]
                 PROVE  s - call.start \in 0 .. (size - 1) /\ Reached(size, s - call.start)
      OBVIOUS
    <3>1. disk' = [t \in DOMAIN disk |-> IF t - (fis.lba + moved) \in 0 .. (Moving - 1)
                                         THEN bounce[prdts[prd].base + (t - (fis.lba + moved))]
                                         ELSE disk[t]]
      BY <2>2 DEF DiskMoves, WriteSectors
    <3>2. s - (fis.lba + moved) \in 0 .. (Moving - 1)
      BY <3>1
    <3>3. /\ moved \in Nat /\ buffer \in Nat /\ call.start \in Nat /\ size \in Nat
          /\ Moving \in Nat /\ fis.lba + moved = call.start + buffer + moved
          /\ moved + Moving <= InOneCommand(rest) /\ InOneCommand(rest) \in Nat
          /\ buffer + InOneCommand(rest) <= size
          /\ \A i \in (buffer + moved) .. (buffer + moved + (Moving - 1)) : Reached(size, i)
      BY <2>2, OneDescriptor
    <3>4. s \in Int
      BY DEF AhciInv, AhciTypeInv
    <3>5. s - (call.start + buffer + moved) \in 0 .. (Moving - 1)
      BY <3>2, <3>3
    <3>6. s - call.start \in (buffer + moved) .. (buffer + moved + (Moving - 1))
      BY <3>3, <3>4, <3>5
    <3>7. Reached(size, s - call.start)
      BY <3>3, <3>6
    <3> QED BY <3>3, <3>4, <3>5, <3>7
  <2>3. DiskMoves \/ UNCHANGED disk
    BY DEF Next, Probe, NoHandoff, RequestOwnership, AwaitBios, CheckHandoff, Bios, NoDevice,
           rebase_port, init_ahci_dev, Call, BadRequest, SkipRound, NothingSent, Transfer,
           send_rw_cmd, Issue, Completed, Return, DiskBusy, DiskEnds, Still
  <2>4. DiskMoves => call.op = "write" \/ UNCHANGED disk
    BY DEF DiskMoves
  <2> QED BY <2>1, <2>2, <2>3, <2>4
<1> QED BY <1>1, AhciInvariant, PTL DEF Spec, WritesWhatWasAsked
=============================================================================
