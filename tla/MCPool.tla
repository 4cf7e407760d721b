-------------------------------- MODULE MCPool -------------------------------
(* Pool on a small instance: two connections for three requests.             *)
EXTENDS Pool

=============================================================================
