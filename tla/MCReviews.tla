----------------------------- MODULE MCReviews -----------------------------
(* Small instances of Reviews. *)
EXTENDS Reviews, TLC

CONSTANTS a1, a2, o1, o2, s1, s2

Symmetry == Permutations(Slot) \cup Permutations(Appt)
=============================================================================
