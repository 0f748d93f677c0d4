------------------------------ MODULE MCExpiry ------------------------------
(* Expiry on small instances.                                              *)
EXTENDS Expiry
=============================================================================
