CONSTANTS
    Senders = {s1, s2}
    IdlePasses = 2
    MaxSends = 3
SPECIFICATION ParkFairSpec
INVARIANT NoCommandSleptOn
PROPERTY CommandsTaken
