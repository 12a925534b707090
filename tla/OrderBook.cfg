CONSTANTS
    Orders = {o1, o2}
    Qty = 2
    Window = 2
    MaxExecs = 3
    MaxLosses = 2
    MaxRequests = 3
SYMMETRY AlikeOrders
SPECIFICATION Spec
INVARIANT FillsComplete
INVARIANT WorkingOrdersAgree
INVARIANT FinalGiven
PROPERTY LedgerSpec
CHECK_DEADLOCK FALSE
