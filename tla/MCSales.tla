------------------------------ MODULE MCSales ------------------------------
(* Small instances of Sales: carts of one product, of both, of more than the
   stock, and one that names a product twice. *)
EXTENDS Sales, TLC

CONSTANTS p1, p2, c1, c2, s1, s2

One == [p \in Product |-> IF p = p1 THEN 1 ELSE 0]
Both == [p \in Product |-> IF p = p1 THEN 2 ELSE 1]
Twice == [p \in Product |-> IF p = p1 THEN 3 ELSE 0]

Carts == {One, Both, Twice}
FewCarts == {One, Both}
DoubledCarts == {Twice}
NoCarts == {}
Costs == [b \in Cart |-> IF b = One THEN 3 ELSE 8]

Symmetry == Permutations(Slot) \cup Permutations(Sale)
=============================================================================
