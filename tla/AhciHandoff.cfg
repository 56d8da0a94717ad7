CONSTANTS
    SectorsPerPrdt = 2
    MAX_PRDTS = 4
    CountMod = 4
    SectorCount = 10
    CmdSlots = {1}
    Requests <- MCRequests
    MaxRequests = 1
    MaxSkips = 1
SPECIFICATION Spec
PROPERTY HandoffRecognised
CHECK_DEADLOCK FALSE
