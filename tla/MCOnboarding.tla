---------------------------- MODULE MCOnboarding ----------------------------
(* Onboarding on a small instance: two organizations that compete for two    *)
(* e-mails, with bodies of opening hours that name a day twice; the default  *)
(* hours name it once.                                                       *)
EXTENDS Onboarding, TLC

Twice == [Day -> {2}]

Symmetric == Permutations(Slot) \cup Permutations(Email) \cup Permutations(Member)

=============================================================================
