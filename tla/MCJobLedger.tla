---------------------------- MODULE MCJobLedger ----------------------------
(* Instances of JobLedger for TLC. *)
EXTENDS JobLedger, TLC

CONSTANTS c1, c2

OneConnector == {c1}
TwoConnectors == {c1, c2}
Symmetry == {[x \in TwoConnectors |-> x], (c1 :> c2) @@ (c2 :> c1)}
=============================================================================
