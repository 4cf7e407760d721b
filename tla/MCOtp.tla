-------------------------------- MODULE MCOtp --------------------------------
(* Otp on a small instance: one address, of somebody who can be a member and  *)
(* an admin, three codes, and codes that live for one tick of the clock.      *)
EXTENDS Otp

=============================================================================
