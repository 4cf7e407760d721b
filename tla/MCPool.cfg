SPECIFICATION FairPoolSpec
CONSTANTS
    Call = {c1, c2, c3}
    Size = 2
    Faults = TRUE
    Nothing = Nothing
INVARIANTS PoolInv StarvedByTransactions
PROPERTY EndsOrStarves
CHECK_DEADLOCK FALSE
