CONSTANTS
    c1 = c1
    c2 = c2
    Callers <- MCCallers
    CallsOf <- MCCallsOf
    KindsOf <- MCKindsOf
    MaxCalls = 3
SPECIFICATION FairSpec
INVARIANT RequestsInOrder
INVARIANT FurtherInTurn
INVARIANT AnswersInOrder
PROPERTY LocalBehindReceived
 
CHECK_DEADLOCK FALSE
