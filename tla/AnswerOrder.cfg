CONSTANTS
    engine = engine
    k1 = k1
    k2 = k2
    c1 = c1
    c2 = c2
    p1 = p1
    p2 = p2
    Kinds <- MCKinds
    Engine <- engine
    Callers = {c1}
    Laters = {c2}
    Passers = {p1, p2}
    MaxCount = 4
    MaxChanges = 1
    Programs <- MCPrograms
SPECIFICATION FairSpec
INVARIANT GivenInOrder
INVARIANT NoStaleState
INVARIANT NothingLost
PROPERTY AnswersGiven
PROPERTY SessionEnds
