---------------------------- MODULE Quarantine ----------------------------
(***************************************************************************)
(* Moving one skill into quarantine and back (core/quarantine-*.ts).       *)
(*                                                                         *)
(* preflightQuarantine takes a snapshot of the candidate and reserves a    *)
(* free destination.  executeQuarantine and executeRestore then follow the *)
(* same protocol: check, write an intent record, check again, let the      *)
(* mover rename without replacing, observe the outcome, write a receipt.   *)
(* Any number of identical calls run at once, in any processes; a call may *)
(* end at any step, by a crash or by a failing filesystem call; users edit *)
(* and replace files; authorities end.  One step is one filesystem access. *)
(***************************************************************************)
EXTENDS Integers, FiniteSets

CONSTANTS
    Callers,        \* concurrent calls; each also stands for the time it began
    Slots,          \* destination names that preflight tries (100 in the code)
    MaxEdits,       \* bound: edits of the files by users
    MaxAborts,      \* bound: calls that end before their time
    None, Torn,     \* no record or object; a record that does not parse
    Unseen          \* what a call has not looked at yet

ASSUME QuarantineAssumption ==
    /\ Slots \in Nat \ {0} /\ {MaxEdits, MaxAborts} \subseteq Nat
    /\ None \notin Callers /\ Torn \notin Callers /\ None # Torn

VARIABLES
    at,         \* the object at the original place (0) and at each destination
    snap,       \* the snapshot of the preflight
    dest,       \* the destination that the preflight reserved
    intent,     \* the intent record of each operation: its createdAt
    receipt,    \* the receipt of each operation: its quarantinedAt or restoredAt
    live,       \* which authorities have not ended
    call,       \* each call: its place and what it knows, see Calls
    edits, aborts,
    moved,      \* history: operations that have renamed something
    faithful    \* history: operations that have moved the object of the snapshot

disk == <<at, intent, receipt>>
plan == <<snap, dest>>
past == <<moved, faithful>>
bounds == <<edits, aborts>>
vars == <<disk, plan, live, call, bounds, past>>

Ops == {"quarantine", "restore"}
Authorities == {"parity", "window", "hosted"}
Original == 0
Places == 0..Slots
Ends == {"from", "to"}

(* ino is the device and inode; tree the digest of everything below;       *)
(* fresh tells that size, mode and times are still those first seen, which *)
(* a rename changes and an edit deep in the tree does not.                 *)
Objects == [ino : {"skill", "other"}, tree : {"first", "edited"}, fresh : BOOLEAN]
ASSUME NoneAssumption == None \notin Objects

Skill == [ino |-> "skill", tree |-> "first", fresh |-> TRUE]
Stranger == [ino |-> "other", tree |-> "edited", fresh |-> FALSE]

(* stamp is intentCreatedAt, and in the end the time in the receipt that   *)
(* was returned; known is existingIntent; saw what was observed at the two *)
(* ends of the move; inTime tells that the authority was live at the time  *)
(* now which the call took first, and, as history from when its intent is  *)
(* durable, that it was live then.                                         *)
Pcs == {"authorise", "readReceipt", "window", "observe", "replay", "replayDigest", "readIntent",
        "lstat", "decide", "digestFrom", "lstatTo", "createIntent", "fillIntent", "rereadIntent",
        "check", "load", "boundary", "refused", "digest", "lstatAgain", "authoriseAgain", "mover",
        "rename", "lstatMoved", "lstatLeft", "digestMoved", "lstatDigested", "recover",
        "digestRecovered", "createReceipt", "fillReceipt", "rereadReceipt", "done"}
Calls == [pc : Pcs, op : Ops, stamp : Callers, known : BOOLEAN,
          saw : [Ends -> Objects \cup {None, Unseen}],
          inTime : BOOLEAN, result : {"failed", "conflict", "receipt"}]
NothingSeen == [e \in Ends |-> Unseen]
NewCall(c, o, l) ==
    [pc |-> l, op |-> o, stamp |-> c, known |-> FALSE, saw |-> NothingSeen,
     inTime |-> o = "restore" /\ live["window"], result |-> "failed"]

Op(c) == call[c].op
Place(o, e) == IF (o = "quarantine") = (e = "from") THEN Original ELSE dest
Source(c) == at[Place(Op(c), "from")]
Target(c) == at[Place(Op(c), "to")]
Intent(c) == intent[Op(c)]
Receipt(c) == receipt[Op(c)]

Complete(record) == record \in Callers
AuthorityLive(o) == IF o = "quarantine" THEN live["parity"] ELSE live["window"] /\ live["hosted"]

(* computeQuarantineTreeDigest, and the identity that assertQuarantine-    *)
(* ObjectIdentity and the mover compare.                                   *)
SameTree(x) == x # None /\ x.tree = snap.tree
SameIdentity(x) == x # None /\ x.ino = snap.ino
sameSnapshot(x) == SameIdentity(x) /\ x.fresh

TypeOK ==
    /\ at \in [Places -> Objects \cup {None}]
    /\ snap \in Objects \cup {None} /\ dest \in Places
    /\ intent \in [Ops -> Callers \cup {None, Torn}]
    /\ receipt \in [Ops -> Callers \cup {None, Torn}]
    /\ live \in [Authorities -> BOOLEAN]
    /\ call \in [Callers -> Calls]
    /\ edits \in 0..MaxEdits /\ aborts \in 0..MaxAborts
    /\ moved \subseteq Ops /\ faithful \subseteq moved

Init ==
    /\ at = [p \in Places |-> IF p = Original THEN Skill ELSE None]
    /\ snap = None /\ dest = Original
    /\ intent = [o \in Ops |-> None] /\ receipt = [o \in Ops |-> None]
    /\ live = [a \in Authorities |-> TRUE]
    /\ call = [c \in Callers |-> NewCall(c, "quarantine", "done")]
    /\ edits = 0 /\ aborts = 0
    /\ moved = {} /\ faithful = {}

-----------------------------------------------------------------------------
(* How a call goes on, ends, or turns to recovery. *)

At(c, l) == call[c].pc = l
Goto(c, l) == call' = [call EXCEPT ![c].pc = l]

(* The reason r is only reported; an idempotency conflict is told apart.   *)
Fail(c, r) ==
    call' = [call EXCEPT ![c] = [NewCall(c, "quarantine", "done")
                                 EXCEPT !.result = IF r = "conflict" THEN r ELSE "failed"]]
ReturnReceipt(c, t) ==
    call' = [call EXCEPT ![c] = [NewCall(c, Op(c), "done") EXCEPT !.result = "receipt", !.stamp = t]]

(* A throw that may be a race with an identical call: see whether that     *)
(* call has completed the move, and fail otherwise (r says with what).     *)
Recover(c, r) ==
    call' = [call EXCEPT ![c] = [@ EXCEPT !.pc = "recover", !.saw = NothingSeen]]

(* The call has a durable intent, created at t. *)
HaveIntent(c, t) ==
    call' = [call EXCEPT ![c] = [@ EXCEPT !.pc = IF Op(c) = "quarantine" THEN "check" ELSE "load",
                                          !.stamp = t, !.saw = NothingSeen,
                                          !.inTime = AuthorityLive(Op(c))]]

(* A step that only looks. *)
Looks == UNCHANGED <<disk, plan, live, bounds, past>>

-----------------------------------------------------------------------------
(* Mutant: the search runs one past the last name.                         *)
OneTooMany ==
    {d \in 1..(Slots + 1) : \A e \in 1..(d - 1) : at[e] # None} \cap
    {d \in 1..(Slots + 1) : d > Slots \/ at[d] = None}
(* The first free name, if there is one.                                   *)
Reservable == {d \in 1..Slots : at[d] = None /\ \A e \in 1..(d - 1) : at[e] # None}

(* preflightQuarantine: the first free destination, or none at all. *)
Preflight ==
    /\ snap = None /\ at[Original] # None
    /\ dest' \in Reservable
    /\ snap' = at[Original]
    /\ UNCHANGED <<disk, live, call, bounds, past>>

Start(c, o) ==
    /\ At(c, "done") /\ snap # None
    /\ o = "restore" => Complete(receipt["quarantine"])
    /\ call' = [call EXCEPT ![c] = NewCall(c, o, IF o = "quarantine" THEN "authorise" ELSE "readReceipt")]
    /\ Looks

(* assertAuthorization, at the beginning of executeQuarantine. *)
Authorise(c) ==
    /\ At(c, "authorise")
    /\ IF live["parity"] THEN Goto(c, "readReceipt") ELSE Fail(c, "expired")
    /\ Looks

(* A receipt ends the call.  A restore first looks where the object is.    *)
ReadReceipt(c) ==
    /\ At(c, "readReceipt")
    /\ \/ Receipt(c) = Torn /\ Fail(c, "unreadable")
       \/ Receipt(c) = None /\ Goto(c, IF Op(c) = "quarantine" THEN "readIntent" ELSE "window")
       \/ Complete(Receipt(c)) /\ Op(c) = "quarantine" /\ ReturnReceipt(c, Receipt(c))
       \/ /\ Complete(Receipt(c)) /\ Op(c) = "restore"
          /\ call' = [call EXCEPT ![c] = [@ EXCEPT !.pc = "replay", !.stamp = Receipt(c)]]
    /\ Looks

(* assertRestoreWindowOpen, for the time at which the call began. *)
CheckWindow(c) ==
    /\ At(c, "window")
    /\ IF call[c].inTime THEN Goto(c, "observe") ELSE Fail(c, "expired")
    /\ Looks

(* The two lookups of a Promise.all come in either order; executeQuarantine *)
(* looks at the source first.                                               *)
Observe(c, e) ==
    /\ call[c].pc \in {"observe", "recover", "replay", "lstat"}
    /\ call[c].saw[e] = Unseen
    /\ At(c, "lstat") /\ e = "to" => call[c].saw["from"] # Unseen
    /\ call' = [call EXCEPT ![c].saw[e] = at[Place(Op(c), e)]]
    /\ Looks

Saw(c, e) == call[c].saw[e]
Observed(c) == \A e \in Ends : Saw(c, e) # Unseen
SawMoved(c) == Saw(c, "from") = None /\ Saw(c, "to") # None

ReplayObserved(c) ==
    /\ At(c, "replay") /\ Observed(c)
    /\ IF SawMoved(c) /\ SameIdentity(Saw(c, "to"))
       THEN Goto(c, "replayDigest") ELSE Fail(c, "inconsistent")
    /\ Looks

ReplayDigest(c) ==
    /\ At(c, "replayDigest")
    /\ IF SameTree(Target(c)) THEN ReturnReceipt(c, call[c].stamp) ELSE Fail(c, "mismatch")
    /\ Looks

RestoreObserved(c) ==
    /\ At(c, "observe") /\ Observed(c)
    /\ Goto(c, "readIntent")
    /\ Looks

(* existingIntent. *)
ReadIntent(c) ==
    /\ At(c, "readIntent")
    /\ IF Intent(c) = Torn
       THEN Fail(c, "unreadable")
       ELSE call' = [call EXCEPT ![c] =
                        [@ EXCEPT !.pc = IF Op(c) = "quarantine" THEN "lstat" ELSE "decide",
                                  !.known = Complete(Intent(c)),
                                  !.stamp = IF Complete(Intent(c)) THEN Intent(c) ELSE call[c].stamp]]
    /\ Looks

(* What executeRestore makes of what it had observed. *)
RestoreDecides(c) ==
    /\ At(c, "decide")
    /\ \/ Saw(c, "to") # None /\ call[c].known /\ SawMoved(c) /\ Recover(c, "inconsistent")
       \/ Saw(c, "to") # None /\ ~(call[c].known /\ SawMoved(c)) /\ Fail(c, "occupied")
       \/ Saw(c, "to") = None /\ Saw(c, "from") = None /\ Fail(c, "inconsistent")
       \/ /\ Saw(c, "to") = None /\ Saw(c, "from") # None
          /\ IF SameIdentity(Saw(c, "from")) THEN Goto(c, "digestFrom") ELSE Fail(c, "mismatch")
    /\ Looks

RestoreDigest(c) ==
    /\ At(c, "digestFrom")
    /\ IF SameTree(Source(c)) THEN Goto(c, "lstatTo") ELSE Fail(c, "mismatch")
    /\ Looks

RestoreLstatTo(c) ==
    /\ At(c, "lstatTo")
    /\ \/ Target(c) # None /\ Fail(c, "occupied")
       \/ Target(c) = None /\ call[c].known /\ HaveIntent(c, call[c].stamp)
       \/ Target(c) = None /\ ~call[c].known /\ Goto(c, "createIntent")
    /\ Looks

(* What executeQuarantine makes of what it has observed. *)
QuarantineDecides(c) ==
    /\ At(c, "lstat") /\ Observed(c)
    /\ \/ Saw(c, "from") = None /\ call[c].known /\ SawMoved(c) /\ Recover(c, "inconsistent")
       \/ Saw(c, "from") = None /\ ~(call[c].known /\ SawMoved(c)) /\ Fail(c, "inconsistent")
       \/ Saw(c, "from") # None /\ ~sameSnapshot(Saw(c, "from")) /\ Fail(c, "stale")
       \/ /\ sameSnapshot(Saw(c, "from"))
          /\ \/ Saw(c, "to") # None /\ Fail(c, "occupied")
             \/ Saw(c, "to") = None /\ call[c].known /\ HaveIntent(c, call[c].stamp)
             \/ Saw(c, "to") = None /\ ~call[c].known /\ Goto(c, "createIntent")
    /\ Looks

-----------------------------------------------------------------------------
(* writeExclusiveRecord creates the file, then writes it; whoever finds it *)
(* created reads it, again and again for a while.                          *)

CreateIntent(c) ==
    /\ At(c, "createIntent")
    /\ IF Intent(c) = None
       THEN intent' = [intent EXCEPT ![Op(c)] = Torn] /\ Goto(c, "fillIntent")
       ELSE UNCHANGED intent /\ Goto(c, "rereadIntent")
    /\ UNCHANGED <<at, receipt, plan, live, bounds, past>>

FillIntent(c) ==
    /\ At(c, "fillIntent")
    /\ intent' = [intent EXCEPT ![Op(c)] = call[c].stamp]
    /\ HaveIntent(c, call[c].stamp)
    /\ UNCHANGED <<at, receipt, plan, live, bounds, past>>

(* Mutant: the call goes on with its own time.                             *)
RereadIntentKeepsOwn(c) ==
    /\ At(c, "rereadIntent")
    /\ IF Complete(Intent(c)) THEN HaveIntent(c, call[c].stamp) ELSE Fail(c, "unreadable")
    /\ Looks
(* Mutant: a record that another call has only created is good enough.     *)
RereadIntentTakesTorn(c) ==
    /\ At(c, "rereadIntent")
    /\ HaveIntent(c, IF Complete(Intent(c)) THEN Intent(c) ELSE call[c].stamp)
    /\ Looks
(* readRecordAfterExclusiveConflict may give up while the record is torn.  *)
RereadIntent(c) ==
    /\ At(c, "rereadIntent")
    /\ IF Complete(Intent(c)) THEN HaveIntent(c, Intent(c)) ELSE Fail(c, "unreadable")
    /\ Looks

CreateReceipt(c) ==
    /\ At(c, "createReceipt")
    /\ IF Receipt(c) = None
       THEN receipt' = [receipt EXCEPT ![Op(c)] = Torn] /\ Goto(c, "fillReceipt")
       ELSE UNCHANGED receipt /\ Goto(c, "rereadReceipt")
    /\ UNCHANGED <<at, intent, plan, live, bounds, past>>

FillReceipt(c) ==
    /\ At(c, "fillReceipt")
    /\ receipt' = [receipt EXCEPT ![Op(c)] = call[c].stamp]
    /\ ReturnReceipt(c, call[c].stamp)
    /\ UNCHANGED <<at, intent, plan, live, bounds, past>>

(* commitQuarantineReceipt compares the digests; createRestoreReceipt      *)
(* takes any valid receipt of the operation.                               *)
RereadReceipt(c) ==
    /\ At(c, "rereadReceipt")
    /\ \/ ~Complete(Receipt(c)) /\ Fail(c, "unreadable")
       \/ /\ Complete(Receipt(c))
          /\ IF Op(c) = "quarantine" /\ Receipt(c) # call[c].stamp
             THEN Fail(c, "conflict") ELSE ReturnReceipt(c, Receipt(c))
    /\ Looks

-----------------------------------------------------------------------------
(* The move boundary. *)

(* lstat and sameSnapshot once more. *)
Check(c) ==
    /\ At(c, "check")
    /\ IF sameSnapshot(Source(c)) THEN Goto(c, "digest") ELSE Recover(c, "stale")
    /\ Looks

(* loadCurrentRestoreAuthority: what the hosted service says now. *)
LoadAuthority(c) ==
    /\ At(c, "load")
    /\ Goto(c, IF live["hosted"] THEN "boundary" ELSE "refused")
    /\ Looks

(* The window at the move boundary, and assertHostedRestoreAuthority: an   *)
(* authority that ended since it was loaded is noticed if it has expired,  *)
(* and not if it was revoked.                                              *)
Boundary(c) ==
    /\ call[c].pc \in {"boundary", "refused"}
    /\ \/ ~live["window"] /\ Fail(c, "expired")
       \/ live["window"] /\ At(c, "refused") /\ Fail(c, "unauthorised")
       \/ live["window"] /\ At(c, "boundary") /\ ~live["hosted"] /\ Fail(c, "unauthorised")
       \/ live["window"] /\ At(c, "boundary") /\ Goto(c, "digest")
    /\ Looks

DigestBeforeMove(c) ==
    /\ At(c, "digest")
    /\ IF SameTree(Source(c))
       THEN Goto(c, IF Op(c) = "quarantine" THEN "lstatAgain" ELSE "mover")
       ELSE Recover(c, "stale")
    /\ Looks

LstatAgain(c) ==
    /\ At(c, "lstatAgain")
    /\ IF Target(c) = None THEN Goto(c, "authoriseAgain") ELSE Recover(c, "occupied")
    /\ Looks

(* Mutant: the authority is not asked again at the boundary.               *)
AuthoriseAgainSkipped(c) == At(c, "authoriseAgain") /\ Goto(c, "mover") /\ Looks
(* assertAuthorization with a fresh time at the move boundary. *)
AuthoriseAgain(c) ==
    /\ At(c, "authoriseAgain")
    /\ IF live["parity"] THEN Goto(c, "mover") ELSE Fail(c, "expired")
    /\ Looks

(* The helper opens the roots, checks the identity of the source and that  *)
(* the target is free, and then renames without replacing.                 *)
MoverObserves(c) ==
    /\ At(c, "mover")
    /\ \/ ~SameIdentity(Source(c)) /\ Recover(c, "stale")
       \/ SameIdentity(Source(c)) /\ Target(c) # None /\ Recover(c, "occupied")
       \/ SameIdentity(Source(c)) /\ Target(c) = None /\ Goto(c, "rename")
    /\ Looks

(* Mutant: the rename replaces what is at the target.                      *)
RenameReplaces(c) == Source(c) # None
(* renameatx_np with RENAME_EXCL.                                          *)
RenameAllowed(c) == Source(c) # None /\ Target(c) = None

(* The helper reports success, dies before it reports, or fails to sync. *)
Reported(c) == Goto(c, "lstatMoved") \/ Recover(c, "failed") \/ Fail(c, "failed")

Rename(c) ==
    /\ At(c, "rename")
    /\ RenameAllowed(c)
    /\ at' = [at EXCEPT ![Place(Op(c), "from")] = None,
                        ![Place(Op(c), "to")] = [Source(c) EXCEPT !.fresh = FALSE]]
    /\ moved' = moved \cup {Op(c)}
    /\ faithful' = IF SameIdentity(Source(c)) /\ SameTree(Source(c))
                   THEN faithful \cup {Op(c)} ELSE faithful
    /\ Reported(c)
    /\ UNCHANGED <<intent, receipt, plan, live, bounds>>

RenameRefused(c) ==
    /\ At(c, "rename")
    /\ ~RenameAllowed(c)
    /\ Recover(c, IF Target(c) # None THEN "occupied" ELSE "failed")
    /\ Looks

LstatMoved(c) ==
    /\ At(c, "lstatMoved")
    /\ IF SameIdentity(Target(c)) THEN Goto(c, "lstatLeft") ELSE Fail(c, "reconcile")
    /\ Looks

LstatLeft(c) ==
    /\ At(c, "lstatLeft")
    /\ IF Source(c) = None THEN Goto(c, "digestMoved") ELSE Fail(c, "reconcile")
    /\ Looks

(* Mutant: the digest from before the move is trusted.                     *)
DigestMovedTrusted(c) ==
    call[c].pc \in {"digestMoved", "digestRecovered"} /\ Goto(c, "lstatDigested") /\ Looks
(* The digest and the identity afterwards; a restore that recovers does    *)
(* not look at the identity again.                                         *)
DigestMoved(c) ==
    /\ call[c].pc \in {"digestMoved", "digestRecovered"}
    /\ \/ ~SameTree(Target(c)) /\ Fail(c, "reconcile")
       \/ /\ SameTree(Target(c))
          /\ Goto(c, IF At(c, "digestRecovered") /\ Op(c) = "restore"
                     THEN "createReceipt" ELSE "lstatDigested")
    /\ Looks

LstatDigested(c) ==
    /\ At(c, "lstatDigested")
    /\ IF SameIdentity(Target(c)) THEN Goto(c, "createReceipt") ELSE Fail(c, "reconcile")
    /\ Looks

(* recoverConcurrentQuarantineMove and recoverCompletedRestore: look until *)
(* the move is seen to be complete, a limited number of times.             *)
Recovered(c) ==
    /\ At(c, "recover") /\ Observed(c)
    /\ \/ /\ SawMoved(c)
          /\ IF SameIdentity(Saw(c, "to")) THEN Goto(c, "digestRecovered") ELSE Fail(c, "reconcile")
       \/ ~SawMoved(c) /\ Fail(c, "inconsistent")
       \/ ~SawMoved(c) /\ Recover(c, "again")
    /\ Looks

-----------------------------------------------------------------------------
(* The environment. *)

(* The process dies, or a filesystem call throws.  What is half written    *)
(* stays so.                                                               *)
Abort(c) ==
    /\ ~At(c, "done") /\ aborts < MaxAborts
    /\ aborts' = aborts + 1
    /\ Fail(c, "aborted")
    /\ UNCHANGED <<disk, plan, live, edits, past>>

AuthorityEnds(a) ==
    /\ live[a]
    /\ live' = [live EXCEPT ![a] = FALSE]
    /\ UNCHANGED <<disk, plan, call, bounds, past>>

(* A file below the skill is changed; something else is put where nothing  *)
(* is, or in the place of what is there.                                   *)
Edit(p) ==
    /\ edits < MaxEdits /\ edits' = edits + 1
    /\ \/ at[p] # None /\ at' = [at EXCEPT ![p].tree = "edited"]
       \/ at' = [at EXCEPT ![p] = Stranger]
    /\ UNCHANGED <<intent, receipt, plan, live, call, aborts, past>>

Step(c) ==
    \/ Authorise(c) \/ ReadReceipt(c) \/ CheckWindow(c) \/ (\E e \in Ends : Observe(c, e))
    \/ ReplayObserved(c) \/ ReplayDigest(c) \/ RestoreObserved(c) \/ ReadIntent(c)
    \/ RestoreDecides(c) \/ RestoreDigest(c) \/ RestoreLstatTo(c) \/ QuarantineDecides(c)
    \/ CreateIntent(c) \/ FillIntent(c) \/ RereadIntent(c)
    \/ Check(c) \/ LoadAuthority(c) \/ Boundary(c) \/ DigestBeforeMove(c) \/ LstatAgain(c)
    \/ AuthoriseAgain(c) \/ MoverObserves(c) \/ RenameRefused(c) \/ Rename(c)
    \/ LstatMoved(c) \/ LstatLeft(c) \/ DigestMoved(c) \/ LstatDigested(c) \/ Recovered(c)
    \/ CreateReceipt(c) \/ FillReceipt(c) \/ RereadReceipt(c)

Next ==
    \/ Preflight
    \/ \E c \in Callers : Step(c) \/ Abort(c) \/ (\E o \in Ops : Start(c, o))
    \/ \E a \in Authorities : AuthorityEnds(a)
    \/ \E p \in Places : Edit(p)

Spec == Init /\ [][Next]_vars

-----------------------------------------------------------------------------
(* A receipt is only written for a move of the very object, with the very  *)
(* tree, that the preflight saw: whatever was edited or replaced on the    *)
(* way, and also when the receipt is written by a call that recovers       *)
(* (quarantine-execution.ts 355-379, 645-671).                             *)
ReceiptsFaithful == \A o \in Ops : Complete(receipt[o]) => o \in faithful

(* Identical calls agree: they never conflict with each other, and all     *)
(* return the receipt that is on disk.                                     *)
CallsAgree ==
    \A c \in Callers :
        /\ call[c].result # "conflict"
        /\ call[c].result = "receipt" => call[c].stamp = Receipt(c)

(* Nothing is moved before its intent is complete on disk: what a crash    *)
(* leaves moved can be told from what a user moved.                        *)
MovesHaveIntent == \A o \in moved : Complete(intent[o])

(* No step of a call makes an object disappear: the mover never replaces   *)
(* what is at its target.                                                  *)
Held == {<<x, Cardinality({p \in Places : at[p] # None /\ at[p].ino = x})>> : x \in {"skill", "other"}}
NothingOverwritten == [][edits' = edits => Held' = Held]_vars

(* An authority that has ended when the intent is durable moves nothing,   *)
(* although it was live when the call began.                               *)
LateCallsMoveNothing ==
    [][\A c \in Callers : At(c, "rename") /\ at' # at /\ edits' = edits /\ call'[c] # call[c] => call[c].inTime]_vars
=============================================================================
