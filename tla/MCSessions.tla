----------------------------- MODULE MCSessions -----------------------------
(* Sessions on a small instance: one browser, of staff or of a customer,     *)
(* three sessions, and cookies that live as long as their sessions.          *)
EXTENDS Sessions

=============================================================================
