SPECIFICATION Spec
CONSTANTS
    a1 = a1
    s1 = s1
    s2 = s2
    short = short
    long = long
    gone = gone
    None = None
    Appt = {a1}
    Slot = {s1, s2}
    Basket <- BookableBaskets
    Bookable <- BookableBaskets
    Time <- Times
    Cost <- Costs
    StartTimes = {1}
    DtoStatus = {"pending"}
    Ops = {"create", "update", "confirm", "cancel", "complete", "reschedule", "remove"}
    Faulty = TRUE
SYMMETRY SlotSymmetry
INVARIANTS
    IInv
    PaidAsCompleted
    NothingOutlivesAppointment
    RemovedStaysRemoved
PROPERTIES
    CompletionStands
