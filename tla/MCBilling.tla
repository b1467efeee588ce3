------------------------------ MODULE MCBilling ------------------------------
(* Instances of Billing for TLC. *)
EXTENDS Billing

CONSTANTS p, q, w

TwoProcs == {<<p, "boot">>, <<p, "admin">>, <<q, "loop">>}
=============================================================================
