CONSTANTS
    Contracts = {c1, c2}
    MAX_INSTRUMENTS = 2
    MaxEntries = 3
    MaxLosses = 1
    NoContract = NoContract
SYMMETRY AlikeContracts
SPECIFICATION Spec
INVARIANT PriceOfItsContract
INVARIANT AskedWhenUp
INVARIANT NothingLeftServed
INVARIANT DataHasASlot
CHECK_DEADLOCK FALSE
