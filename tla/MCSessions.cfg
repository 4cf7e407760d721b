SPECIFICATION Spec
CONSTANTS
    Account = {a1, a2}
    Customer = {a1}
    Jar = {j1}
    MaxId = 3
    Slot = {s1, s2}
    MaxTime = 2
    Life = 1
    CookieLife = 1
    Faulty = TRUE
    None = None
INVARIANTS CookieGood LogoutStays LogoutDeletes
CHECK_DEADLOCK FALSE
