SPECIFICATION Spec
CONSTANTS
    Org = {o1, o2}
    Served = {o1}
    Email = {e1, e2}
    Member = {m1, m2}
    Day = {mon}
    Bodies <- Twice
    Default = {mon}
    Details = {"types"}
    Slot = {s1, s2}
    Ops = {"register", "addMember", "updateMember", "removeMember", "createHour",
           "removeHour", "updateHours", "reopen", "locate", "describe", "publish",
           "removeOrg"}
    Faulty = TRUE
    None = None
INVARIANTS
    IInv
    OwnedOrExcused
    HoursAsAsked
    PublicPage
PROPERTY
    SlugStays
SYMMETRY Symmetric
CHECK_DEADLOCK FALSE
