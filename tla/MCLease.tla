------------------------------ MODULE MCLease ------------------------------
(* The lease alone, for TLC.                                               *)
EXTENDS Lease
=============================================================================
