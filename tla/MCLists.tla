------------------------------- MODULE MCLists -------------------------------
(* Lists on a small instance: each list in turn, two pages, two requests at a *)
(* time and two changes.                                                      *)
EXTENDS Lists

=============================================================================
