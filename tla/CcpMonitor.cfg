CONSTANTS
    Pause = 15
    HeartbeatAfter = 3
    TestAfter = 4
    DeadAfter = 9
    SleepJump = 3
    ServerTalks = 5
    MaxAge = 30
SPECIFICATION CcpSpec
INVARIANT CcpFoundInTime
INVARIANT LiveServerKept
CHECK_DEADLOCK FALSE
