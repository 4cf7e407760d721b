SPECIFICATION FairSpec
CONSTANTS
    p1 = p1
    p2 = p2
    c1 = c1
    c2 = c2
    s1 = s1
    s2 = s2
    None = None
    Product = {p1, p2}
    Sale = {c1, c2}
    Slot = {s1}
    Cart <- Carts
    Doubled <- DoubledCarts
    Cost <- Costs
    StockLevels = {2}
    MaxStalled = 1
    Ops = {"updateProduct", "removeProduct"}
    Faulty = FALSE
PROPERTIES
    EverySaleReduced
    PaymentFollowsSale
CHECK_DEADLOCK FALSE
