--------------------------- MODULE MCProvenance ---------------------------
(* Provenance for TLC; the instances are interchangeable.                  *)
EXTENDS Provenance, TLC

NodeSymmetry == Permutations(Nodes)
=============================================================================
