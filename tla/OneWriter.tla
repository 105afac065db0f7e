----------------------------- MODULE OneWriter -----------------------------
(***************************************************************************)
(* What withMutationLock promises its callers, without files, owners,      *)
(* leases or fences: writers come one at a time, only the writer that is   *)
(* in moves the current pointer, and it builds on the revision that is     *)
(* current, with a later sequence number.                                  *)
(***************************************************************************)
EXTENDS Integers

CONSTANTS
    Writers,        \* the processes
    Values          \* revisions: records with an id, a parent and a seq

VARIABLES
    inside,         \* the writers that hold the lock
    register        \* the current revision

Init == inside = {} /\ register.seq = 0

Enter(w) == inside = {} /\ inside' = {w} /\ UNCHANGED register

Write(w) ==
    /\ inside = {w} /\ UNCHANGED inside
    /\ register' \in Values
    /\ register'.parent = register.id /\ register'.seq > register.seq

(* The writer is done, or it has died. *)
Leave(w) == inside = {w} /\ inside' = {} /\ UNCHANGED register

Next == \E w \in Writers : Enter(w) \/ Write(w) \/ Leave(w)

Spec == Init /\ [][Next]_<<inside, register>>
=============================================================================
