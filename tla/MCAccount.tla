----------------------------- MODULE MCAccount -----------------------------
(* A small instance of Account for TLC: one account, a minor's or an       *)
(* adult's, and one request besides the maintenance and the resolutions.   *)
EXTENDS Account

MCApplicants == Users \X BOOLEAN
=============================================================================
