SPECIFICATION FairSpec
CONSTANTS
    a1 = a1
    s1 = s1
    s2 = s2
    short = short
    long = long
    gone = gone
    None = None
    Appt = {a1}
    Slot = {s1, s2}
    Basket <- OneBasket
    Bookable <- OneBasket
    Time <- Times
    Cost <- Costs
    StartTimes = {1, 2}
    DtoStatus = {"pending"}
    Ops = {"create", "update", "complete", "reschedule", "remove"}
    Faulty = TRUE
INVARIANTS
    TotalsMatchItems
PROPERTIES
    PaymentFollows
