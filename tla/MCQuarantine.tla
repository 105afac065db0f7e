--------------------------- MODULE MCQuarantine ---------------------------
(* Instances of Quarantine for TLC. *)
EXTENDS Quarantine, TLC

CONSTANTS c1, c2

TwoCallers == {c1, c2}
Symmetry == Permutations(TwoCallers)
=============================================================================
