SPECIFICATION Spec
CONSTANTS
    p1 = p1
    p2 = p2
    c1 = c1
    c2 = c2
    s1 = s1
    s2 = s2
    None = None
    Product = {p1}
    Sale = {c1, c2}
    Slot = {s1, s2}
    Cart <- FewCarts
    Doubled <- NoCarts
    Cost <- Costs
    StockLevels = {2}
    MaxStalled = 1
    Ops = {"updateProduct", "removeProduct", "removeSale"}
    Faulty = TRUE
SYMMETRY Symmetry
INVARIANTS
    SInv
    NotOversold
    ReducedPerDelivery
    PaidInFull
    SettledStock
