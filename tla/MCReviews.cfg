SPECIFICATION Spec
CONSTANTS
    a1 = a1
    a2 = a2
    o1 = o1
    o2 = o2
    s1 = s1
    s2 = s2
    None = None
    Appt = {a1, a2}
    Org = {o1}
    Slot = {s1, s2}
    Rating = {1, 5}
    Ops = {"removeReview", "removeBooking", "updateBooking"}
    Faulty = TRUE
SYMMETRY Symmetry
INVARIANTS
    RInv
    RatingCurrent
    AppointmentRated
