----------------------------- MODULE MCCatalog -----------------------------
(* Small instances of Catalog. *)
EXTENDS Catalog, TLC

CONSTANTS c1, c2, v1, v2, v3, n1, n2, s1, s2

Symmetry == Permutations(Slot) \cup Permutations(Cat) \cup Permutations(Svc)
            \cup Permutations(Name)
=============================================================================
