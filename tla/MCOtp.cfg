SPECIFICATION FairSpec
CONSTANTS
    Email = {e1}
    Member = {e1}
    Admin = {e1}
    Slot = {s1, s2}
    MaxCode = 3
    MaxTime = 1
    Lifetime = 1
    Faulty = TRUE
    None = None
INVARIANTS ConfirmedAsGiven LatestCodeStands
PROPERTY CodeArrives
CHECK_DEADLOCK FALSE
