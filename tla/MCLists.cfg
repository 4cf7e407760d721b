SPECIFICATION FairSpec
CONSTANTS
    Pages = 2
    Slot = {s1, s2}
    MaxVersion = 2
    Normal = 1
    Long = 1
    VeryLong = 1
    FiveMinutes = 2
    Faulty = TRUE
    None = None
INVARIANTS  PageAsked
PROPERTY Refines
CHECK_DEADLOCK FALSE
