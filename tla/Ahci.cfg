CONSTANTS
    SectorsPerPrdt = 2
    MAX_PRDTS = 4
    CountMod = 4
    SectorCount = 10
    CmdSlots = {0, 1}
    Requests <- MCRequests
    MaxRequests = 2
    MaxSkips = 2
SPECIFICATION Spec
INVARIANTS  WritesArrive
PROPERTIES WritesWhatWasAsked CallsReturn
CHECK_DEADLOCK FALSE
