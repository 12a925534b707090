CONSTANTS
    MaxReqs = 3
    Contracts = {c1, c2}
    MAX_INSTRUMENTS = 2
    MaxLosses = 1
    NoContract = NoContract
SPECIFICATION Spec
INVARIANT NoRequestForgotten
INVARIANT ReadsItsContract
INVARIANT SlotsGivenBack
PROPERTY EveryRequestSettles
CHECK_DEADLOCK FALSE
