SPECIFICATION Spec
CONSTANTS
    a1 = a1
    s1 = s1
    s2 = s2
    short = short
    long = long
    gone = gone
    None = None
    Appt = {a1}
    Slot = {s1}
    Basket <- GoneBaskets
    Bookable <- OneBasket
    Time <- Times
    Cost <- Costs
    StartTimes = {1}
    DtoStatus = {"pending"}
    Ops = {"create", "update"}
    Faulty = FALSE
INVARIANTS
    BookedItemsSurvive
