SPECIFICATION Spec
CONSTANTS
    c1 = c1
    c2 = c2
    v1 = v1
    v2 = v2
    v3 = v3
    n1 = n1
    n2 = n2
    s1 = s1
    s2 = s2
    None = None
    Cat = {c1, c2}
    Svc = {v1, v2}
    Name = {n1, n2}
    Slot = {s1, s2}
    MinParts = 1
    Ops = {"list", "addCategory", "renameCategory", "dropCategory", "addService", "updateService", "removeService", "addPackage", "updatePackage"}
    Faulty = TRUE
SYMMETRY Symmetry
INVARIANTS
    CInv
    ListCurrent
    ServicesCategorized
    PackagesOfServices
    CountBounded
