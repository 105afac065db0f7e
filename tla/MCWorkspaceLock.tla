-------------------------- MODULE MCWorkspaceLock --------------------------
(* Small instances of the workspace writer lock for TLC. *)
EXTENDS WorkspaceLock, TLC

CONSTANTS p1, p2, p3, h1

TwoProcs == {p1, p2}
ThreeProcs == {p1, p2, p3}
OneHost == {h1}
SameHost == [p \in Procs |-> h1]

Symmetry == Permutations(Procs)
=============================================================================
