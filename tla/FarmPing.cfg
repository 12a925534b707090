CONSTANTS
    PingInterval = 60
    PingAnswer = 10
SPECIFICATION FarmSpec
INVARIANT FarmFoundInTime
INVARIANT DropJustified
