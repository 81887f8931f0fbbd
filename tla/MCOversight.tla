---------------------------- MODULE MCOversight ----------------------------
(* Instances of Oversight for TLC.  Sessions are interchangeable.          *)
EXTENDS Oversight, TLC

SessionSymmetry == Permutations(Sessions)
=============================================================================
