-------------------------- MODULE MCWorkspaceStore --------------------------
(* Small instances of the workspace store for TLC. *)
EXTENDS WorkspaceStore, TLC

CONSTANTS a, b, x, y

TwoCanons == {a, b}
TwoNotes == {x, y}
OneNote == {x}

C(canon, notes, eff) == [canon |-> canon, notes |-> notes, eff |-> eff]
(* Contents that can be approved: two that differ in routing safety, and   *)
(* the same two with other notes.                                          *)
FewInputs == {C(a, x, a), C(b, x, b)}
NotesInputs == FewInputs \cup {C(a, y, a), C(b, y, b)}

AllOps == Ops \ {"none"}
(* The operations that move the pointers under a reader. *)
PointerOps == {"migrate", "prepared", "recover"}

Symmetry == Permutations(TwoCanons)
=============================================================================
