----------------------------- MODULE MCBooking -----------------------------
(* Small instances of Booking: a short and a long basket, and one with a
   service that the organization does not have. *)
EXTENDS Booking, TLC

CONSTANTS a1, s1, s2, short, long, gone

Baskets == {short, long, gone}
BookableBaskets == {short, long}
OneBasket == {short}
GoneBaskets == {short, gone}
Times == [b \in Basket |-> IF b = long THEN 2 ELSE 1]
Costs == [b \in Basket |-> IF b = long THEN 7 ELSE 5]

SlotSymmetry == Permutations(Slot)
=============================================================================
