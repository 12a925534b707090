CONSTANTS
    s1 = s1
    s2 = s2
    c1 = c1
    c2 = c2
    p1 = p1
    Sessions <- TwoSessions
    Clients <- TwoClients
    Processes <- OneProcess
    ClientOf <- ClientOfEach
    ProcessOf <- ProcessOfEach
    MaxId = 2
    MaxCrashes = 1
SPECIFICATION FairSpec
INVARIANT KeptOnDisk
PROPERTY OnlyGoesUp
PROPERTY SavedInTheEnd
