CONSTANTS
    MaxPerSecond = 4
    Step = 2
    Steps = 4
    Handling = 1
    MaxWaiting = 5
SPECIFICATION PacerSpec
INVARIANT HandledAtOnce
INVARIANT NoLongStall
