--------------------------- MODULE WorkspaceStore ---------------------------
(***************************************************************************)
(* The revisioned workspace state of core/workspace-state: immutable       *)
(* revisions, the current and last-known-good (LKG) pointers, the          *)
(* historical routing approvals, the migration marker and the legacy       *)
(* projections (the mutable files the older commands read and write).      *)
(*                                                                         *)
(* The writer lock is abstract here: one holder at a time, a fresh fencing *)
(* token for each (module WorkspaceLock models how that is achieved).  The *)
(* holder's durable writes are separate steps, a crash may come between    *)
(* any two of them, and a routing reader that takes no lock interleaves    *)
(* with all of them.                                                       *)
(***************************************************************************)
EXTENDS Integers, FiniteSets

CONSTANTS
    Canons,       \* values of the routing-critical canonical and raw artifacts
    Notes,        \* values of the canonical artifacts that are not critical
    Inputs,       \* contents a prepared snapshot may have
    MaxFence,     \* bound: fencing tokens, hence revisions
    MaxCrashes, MaxCorruptions, MaxEdits,    \* bounds on the environment
    MaxReads,     \* bound: routing reads
    ActiveOps,    \* bound: the locked operations that run
    TornWrites,   \* a crash may leave a half-written approval receipt
    None

ASSUME StoreAssumption ==
    /\ MaxFence \in Nat /\ MaxCrashes \in Nat /\ MaxCorruptions \in Nat /\ MaxEdits \in Nat
    /\ MaxReads \in Nat
    /\ TornWrites \in BOOLEAN
    /\ None \notin Canons

RevIds == 1..MaxFence

(* What a snapshot holds: the artifacts by role.  eff is effective.json,   *)
(* named by the canonical and raw content it was computed from.            *)
Fields == {"canon", "notes", "eff"}
Contents == [canon : Canons, notes : Notes, eff : Canons \cup {None}]

ASSUME InputsAssumption == Inputs \subseteq Contents

(* computeRevisionDigests: equal digests are equal contents. *)
Safety(c) == <<c.canon, c.eff>>
Digests(c) == <<Safety(c), c.canon, c.notes>>

(* assertRoutingApprovalEligible: an effective registry bound to exactly   *)
(* this inventory and policy.                                              *)
Eligible(c) == c.eff = c.canon

(* A blocking legacy divergence is one of canonical or raw artifacts. *)
Diverges(c, d) == c.canon # d.canon \/ c.notes # d.notes

Published == {"ok", "derived", "raw"}
RevStates == {"absent", "partial", "quarantined"} \cup Published
Approvals == {"none", "explicit", "carry", "recovery"}
Ops == {"none", "migrate", "cli", "import", "prepared", "rollback", "recover", "repair"}

ASSUME OpsAssumption == ActiveOps \subseteq Ops \ {"none"}

VARIABLES
    fence,      \* tokens allocated so far
    revs,       \* the revision directories
    marker,     \* the migration revision in state-version.json, 0 if none
    cur, lkg,   \* the two pointers, 0 if absent
    hist,       \* the historical approval receipts
    legacy,     \* the legacy projections
    w,          \* the lock holder's progress
    plan,       \* a snapshot prepared, or a revision read, before locking
    rd,         \* the routing reader's progress
    budget,     \* environment events still allowed
    everLkg,    \* history variable: every revision that was ever LKG
    blessed     \* history variable: safety contents approved explicitly

disk == <<revs, marker, cur, lkg, hist, legacy>>
ghosts == <<everLkg, blessed>>
vars == <<fence, revs, marker, cur, lkg, hist, legacy, w, plan, rd, budget, everLkg, blessed>>

(* op stands for the mutation receipt; field and edited record what a      *)
(* command wrote, for CommandsPublishOwnChange.                            *)
NoRev == [st |-> "absent", parent |-> 0, content |-> None,
          op |-> "none", field |-> "none", edited |-> FALSE]
Idle == [pc |-> "idle", op |-> "none", rev |-> 0, base |-> 0, content |-> None,
         approval |-> "none", field |-> "none", edited |-> FALSE]
NoPlan == [exp |-> 0, content |-> None]
NoRead == [pc |-> "idle", cur |-> 0, sel |-> 0]

(* validateRevision: complete, and every artifact has its digest. *)
Valid(r) == r # 0 /\ revs[r].st = "ok"
Content(r) == revs[r].content

(* The chain of parents that rollback, history pages and publication       *)
(* receipts walk.                                                          *)
Chain[n \in 0..MaxFence] ==
    IF n = 0 THEN {}
    ELSE {n} \cup (IF revs[n].parent < n THEN Chain[revs[n].parent] ELSE {})
Ancestors(r) == Chain[r]

Init ==
    /\ fence = 0
    /\ revs = [r \in RevIds |-> NoRev]
    /\ marker = 0 /\ cur = 0 /\ lkg = 0
    /\ hist = [r \in RevIds |-> "absent"]
    /\ legacy \in Inputs
    /\ w = Idle
    /\ plan = NoPlan
    /\ rd = NoRead
    /\ budget = [crash |-> MaxCrashes, corrupt |-> MaxCorruptions,
                 edit |-> MaxEdits, read |-> MaxReads]
    /\ everLkg = {} /\ blessed = {}

-----------------------------------------------------------------------------
(* The environment's events are rationed. *)
Spend(k) == budget[k] > 0 /\ budget' = [budget EXCEPT ![k] = @ - 1]

(* Before taking the lock: a job prepares its snapshot, or an operator     *)
(* reads the revision id to pass as the expected one.                      *)
Prepare(c) ==
    /\ cur # 0 /\ plan = NoPlan
    /\ plan' = [exp |-> cur, content |-> c]
    /\ UNCHANGED <<fence, disk, w, rd, budget, ghosts>>

Goto(l) == w' = [w EXCEPT !.pc = l]
Release == w' = Idle

(* withMutationLock: the operations start by acquiring the lock. *)
Acquire(op, approval) ==
    /\ w.pc = "idle"
    /\ fence < MaxFence
    /\ CASE op \in {"cli", "prepared"} -> approval \in {"none", "explicit", "carry"}
         [] op = "recover" -> approval = "recovery"
         [] op = "repair" -> approval = "none"
         [] OTHER -> approval \in {"none", "explicit"}
    /\ op \in {"import", "prepared", "rollback"} => plan # NoPlan
    /\ fence' = fence + 1
    /\ w' = [Idle EXCEPT !.pc = IF op = "cli" THEN "preflight" ELSE "check",
                         !.op = op, !.rev = fence + 1, !.approval = approval]
    /\ UNCHANGED <<disk, plan, rd, budget, ghosts>>

(* readCurrent(status): current, or the safety-equivalent LKG when only a  *)
(* derived artifact of current is damaged.                                 *)
FallsBack(c) == revs[c].st = "derived" /\ lkg # 0 /\ Digests(Content(lkg)) = Digests(Content(c))
                /\ Valid(lkg)
StatusRevision == IF Valid(cur) THEN cur ELSE IF cur # 0 /\ FallsBack(cur) THEN lkg ELSE 0

(* Mutant: the divergence preflight is skipped. *)
PreflightUnchecked ==
    /\ w.pc = "preflight"
    /\ w' = [w EXCEPT !.pc = "mutate", !.op = IF marker = 0 THEN "migrate" ELSE @,
                       !.approval = IF @ = "carry" THEN "none" ELSE @]
    /\ UNCHANGED <<fence, disk, plan, rd, budget, ghosts>>

(* A mutating CLI command refuses to start over diverged projections; on a *)
(* workspace without a marker it ends in a migration.                      *)
Preflight ==
    /\ w.pc = "preflight"
    /\ IF marker = 0
       THEN w' = [w EXCEPT !.pc = "mutate", !.op = "migrate",
                           !.approval = IF @ = "carry" THEN "none" ELSE @]
       ELSE IF StatusRevision = 0 \/ Diverges(legacy, Content(StatusRevision))
       THEN Release
       ELSE w' = [w EXCEPT !.pc = "mutate",
                           !.approval = IF @ = "carry" /\ lkg # cur THEN "none" ELSE @]
    /\ UNCHANGED <<fence, disk, plan, rd, budget, ghosts>>

FieldValues(f) ==
    CASE f = "canon" -> Canons [] f = "notes" -> Notes [] f = "eff" -> Canons \cup {None}

(* Mutant: the command deletes the artifact instead. *)
MutateDeletes(f, v) ==
    /\ w.pc = "mutate"
    /\ legacy' = [legacy EXCEPT ![f] = None]
    /\ w' = [w EXCEPT !.pc = "check", !.field = f]
    /\ UNCHANGED <<fence, revs, marker, cur, lkg, hist, plan, rd, budget, ghosts>>

(* The command itself rewrites legacy artifacts of one kind. *)
Mutate(f, v) ==
    /\ w.pc = "mutate"
    /\ legacy' = [legacy EXCEPT ![f] = v]
    /\ w' = [w EXCEPT !.pc = "check", !.field = f]
    /\ UNCHANGED <<fence, revs, marker, cur, lkg, hist, plan, rd, budget, ghosts>>

-----------------------------------------------------------------------------
(* The checks of each operation, up to buildRevision. *)
Stage(c, base) == w' = [w EXCEPT !.pc = "build", !.content = c, !.base = base]

(* Mutant: a marker alone counts as already migrated. *)
CheckMigrateOnce ==
    /\ w.pc = "check" /\ w.op = "migrate"
    /\ IF marker = 0 /\ cur = 0 /\ (w.approval = "explicit" => Eligible(legacy))
       THEN Stage(legacy, 0) ELSE Release
    /\ UNCHANGED <<fence, disk, plan, rd, budget, ghosts>>

CheckMigrate ==
    /\ w.pc = "check" /\ w.op = "migrate"
    /\ IF marker = 0
       THEN IF cur = 0 /\ (w.approval = "explicit" => Eligible(legacy))
            THEN Stage(legacy, 0) ELSE Release
       ELSE IF cur = 0 /\ Valid(marker) /\ (w.approval = "explicit" => Eligible(Content(marker)))
            THEN w' = [w EXCEPT !.pc = "swap", !.rev = marker, !.content = Content(marker)]
            ELSE Release
    /\ UNCHANGED <<fence, disk, plan, rd, budget, ghosts>>

(* Mutant: the revision is built on the expected one, without comparing it. *)
CheckSnapshotUncompared ==
    /\ w.pc = "check" /\ w.op \in {"cli", "import", "prepared"}
    /\ LET c == IF w.op = "prepared" THEN plan.content ELSE legacy
       IN IF /\ marker # 0 /\ Valid(cur)
             /\ w.approval = "explicit" => Eligible(c)
             /\ w.approval = "carry" => lkg = cur
          THEN Stage(c, IF w.op = "cli" THEN cur ELSE plan.exp) ELSE Release
    /\ plan' = IF w.op = "cli" THEN plan ELSE NoPlan
    /\ UNCHANGED <<fence, disk, rd, budget, ghosts>>

(* publishLegacySnapshotHeld and publishPreparedSnapshot. *)
CheckSnapshot ==
    /\ w.pc = "check" /\ w.op \in {"cli", "import", "prepared"}
    /\ LET c == IF w.op = "prepared" THEN plan.content ELSE legacy
       IN IF /\ marker # 0 /\ Valid(cur)
             /\ w.op # "cli" => plan.exp = cur
             /\ w.approval = "explicit" => Eligible(c)
             /\ w.approval = "carry" => lkg = cur
          THEN Stage(c, cur) ELSE Release
    /\ plan' = IF w.op = "cli" THEN plan ELSE NoPlan
    /\ UNCHANGED <<fence, disk, rd, budget, ghosts>>

(* prePublishCheck: a prepared publication may be called off by its job. *)
PrePublishRefuses ==
    /\ w.pc = "check" /\ w.op = "prepared"
    /\ Release
    /\ plan' = NoPlan
    /\ UNCHANGED <<fence, disk, rd, budget, ghosts>>

CheckRollback(target) ==
    /\ w.pc = "check" /\ w.op = "rollback"
    /\ IF /\ marker # 0 /\ Valid(cur) /\ plan.exp = cur
          /\ target \in Ancestors(cur) \ {cur}
          /\ \A r \in Ancestors(cur) : r >= target => Valid(r)
          /\ w.approval = "explicit" => Eligible(Content(target))
       THEN Stage(Content(target), cur) ELSE Release
    /\ plan' = NoPlan
    /\ UNCHANGED <<fence, disk, rd, budget, ghosts>>

CheckRecover ==
    /\ w.pc = "check" /\ w.op = "recover"
    /\ IF marker # 0 /\ cur # 0 /\ FallsBack(cur) /\ Eligible(Content(lkg))
       THEN Stage(Content(lkg), cur) ELSE Release
    /\ UNCHANGED <<fence, disk, plan, rd, budget, ghosts>>

CheckRepair ==
    /\ w.pc = "check" /\ w.op = "repair"
    /\ IF marker # 0 /\ Valid(cur)
       THEN w' = [w EXCEPT !.pc = "repair", !.rev = cur, !.content = Content(cur)]
       ELSE Release
    /\ UNCHANGED <<fence, disk, plan, rd, budget, ghosts>>

-----------------------------------------------------------------------------
(* Mutant: the pointer is swapped before the manifest is written. *)
BuildArtifactsAndSwap ==
    /\ w.pc = "build"
    /\ revs' = [revs EXCEPT ![w.rev].st = "partial", ![w.rev].content = w.content]
    /\ Goto("swap")
    /\ UNCHANGED <<fence, marker, cur, lkg, hist, legacy, plan, rd, budget, ghosts>>

(* buildRevision: the directory and its artifacts, then the manifest. *)
BuildArtifacts ==
    /\ w.pc = "build"
    /\ revs' = [revs EXCEPT ![w.rev].st = "partial"]
    /\ Goto("manifest")
    /\ UNCHANGED <<fence, marker, cur, lkg, hist, legacy, plan, rd, budget, ghosts>>

WriteManifest ==
    /\ w.pc = "manifest"
    /\ revs' = [revs EXCEPT ![w.rev] =
                  [st |-> "ok", content |-> w.content,
                   parent |-> IF w.op = "recover" THEN lkg ELSE w.base,
                   op |-> w.op, field |-> w.field, edited |-> w.edited]]
    /\ Goto("verify")
    /\ UNCHANGED <<fence, marker, cur, lkg, hist, legacy, plan, rd, budget, ghosts>>

(* Mutant: carried approval does not compare routing safety. *)
VerifyWithoutSafety ==
    /\ w.pc = "verify"
    /\ IF /\ w.approval # "none" => Eligible(w.content)
          /\ w.op \in {"migrate", "cli", "import"} => legacy = w.content
       THEN Goto(IF w.op = "migrate" THEN "marker" ELSE "swap") ELSE Release
    /\ UNCHANGED <<fence, disk, plan, rd, budget, ghosts>>

(* The last checks before anything becomes visible. *)
Verify ==
    /\ w.pc = "verify"
    /\ IF /\ w.approval = "carry" => Safety(w.content) = Safety(Content(w.base))
          /\ w.approval # "none" => Eligible(w.content)
          /\ w.op \in {"migrate", "cli", "import"} => legacy = w.content
       THEN Goto(IF w.op = "migrate" THEN "marker" ELSE "swap") ELSE Release
    /\ UNCHANGED <<fence, disk, plan, rd, budget, ghosts>>

WriteMarker ==
    /\ w.pc = "marker"
    /\ marker' = w.rev
    /\ Goto("swap")
    /\ UNCHANGED <<fence, revs, cur, lkg, hist, legacy, plan, rd, budget, ghosts>>

(* publishBuiltRevision: the current pointer, then, if approved, the       *)
(* receipt of the outgoing LKG, the LKG pointer and its own receipt.       *)
AfterPublication == IF w.op \in {"prepared", "rollback", "recover"} THEN "repair" ELSE "release"

SwapCurrent ==
    /\ w.pc = "swap"
    /\ cur' = w.rev
    /\ Goto(IF w.approval = "none" THEN AfterPublication ELSE "oldHistory")
    /\ UNCHANGED <<fence, revs, marker, lkg, hist, legacy, plan, rd, budget, ghosts>>

(* Mutant: the outgoing approval is not recorded. *)
PersistOldApprovalSkipped ==
    /\ w.pc = "oldHistory"
    /\ Goto(IF Valid(w.rev) THEN "lkg" ELSE AfterPublication)
    /\ UNCHANGED <<fence, disk, plan, rd, budget, ghosts>>

(* Mutant: the incoming approval is recorded before it takes effect. *)
PersistOldApprovalEarly ==
    /\ w.pc = "oldHistory"
    /\ hist' = [r \in RevIds |-> IF r \in {lkg, w.rev} THEN "ok" ELSE hist[r]]
    /\ Goto("lkg")
    /\ UNCHANGED <<fence, revs, marker, cur, lkg, legacy, plan, rd, budget, ghosts>>

(* persistCurrentRoutingApprovalHistory; any failure is only a warning and *)
(* leaves LKG where it was.                                                *)
PersistOldApproval ==
    /\ w.pc = "oldHistory"
    /\ IF Valid(w.rev) /\ (lkg # 0 => Valid(lkg) /\ hist[lkg] # "torn")
       THEN /\ hist' = [r \in RevIds |-> IF r = lkg THEN "ok" ELSE hist[r]]
            /\ Goto("lkg")
       ELSE UNCHANGED hist /\ Goto(AfterPublication)
    /\ UNCHANGED <<fence, revs, marker, cur, lkg, legacy, plan, rd, budget, ghosts>>

SwapLkg ==
    /\ w.pc = "lkg"
    /\ lkg' = w.rev
    /\ everLkg' = everLkg \cup {w.rev}
    /\ blessed' = blessed \cup (IF w.approval = "explicit" THEN {Safety(w.content)} ELSE {})
    /\ Goto("newHistory")
    /\ UNCHANGED <<fence, revs, marker, cur, hist, legacy, plan, rd, budget>>

PersistNewApproval ==
    /\ w.pc = "newHistory"
    /\ hist' = [hist EXCEPT ![w.rev] = IF @ = "absent" THEN "ok" ELSE @]
    /\ Goto(AfterPublication)
    /\ UNCHANGED <<fence, revs, marker, cur, lkg, legacy, plan, rd, budget, ghosts>>

(* repairLegacyProjections rewrites the files one at a time from the       *)
(* revision, and stops when the revision no longer validates.              *)
RepairFile(f) ==
    /\ w.pc = "repair"
    /\ Valid(w.rev) /\ legacy[f] # w.content[f]
    /\ legacy' = [legacy EXCEPT ![f] = w.content[f]]
    /\ UNCHANGED <<fence, revs, marker, cur, lkg, hist, w, plan, rd, budget, ghosts>>

RepairDone ==
    /\ w.pc = "repair"
    /\ ~Valid(w.rev) \/ legacy = w.content
    /\ Goto(IF w.op = "recover" THEN "quarantine" ELSE "release")
    /\ UNCHANGED <<fence, disk, plan, rd, budget, ghosts>>

(* bestEffortQuarantine: the damaged revision directory is moved away. *)
Quarantine ==
    /\ w.pc = "quarantine"
    /\ revs' = [revs EXCEPT ![w.base].st = "quarantined"]
    /\ Goto("release")
    /\ UNCHANGED <<fence, marker, cur, lkg, hist, legacy, plan, rd, budget, ghosts>>

ReleaseLock ==
    /\ w.pc = "release"
    /\ Release
    /\ UNCHANGED <<fence, disk, plan, rd, budget, ghosts>>

-----------------------------------------------------------------------------
(* readCurrent(routing): pointer, revision, approval and projections are   *)
(* read one after the other, without the lock.                             *)
ReadPointer ==
    /\ rd.pc \in {"idle", "served"}
    /\ marker # 0 /\ cur # 0
    /\ Spend("read")
    /\ rd' = [pc |-> "validate", cur |-> cur, sel |-> 0]
    /\ UNCHANGED <<fence, disk, w, plan, ghosts>>

ReadRevision ==
    /\ rd.pc = "validate"
    /\ rd' = IF Valid(rd.cur) THEN [rd EXCEPT !.pc = "approval", !.sel = rd.cur]
             ELSE IF FallsBack(rd.cur) THEN [rd EXCEPT !.pc = "legacy", !.sel = lkg]
             ELSE NoRead
    /\ UNCHANGED <<fence, disk, w, plan, budget, ghosts>>

(* Mutant: last-known-good is served without comparing it with current. *)
ReadApprovalUncompared ==
    /\ rd.pc = "approval"
    /\ rd' = IF Valid(lkg) THEN [rd EXCEPT !.pc = "legacy", !.sel = lkg] ELSE NoRead
    /\ UNCHANGED <<fence, disk, w, plan, budget, ghosts>>

ReadApproval ==
    /\ rd.pc = "approval"
    /\ rd' = IF /\ lkg # 0 /\ Valid(lkg)
                /\ lkg # rd.cur => Digests(Content(lkg)) = Digests(Content(rd.cur))
             THEN [rd EXCEPT !.pc = "legacy", !.sel = lkg] ELSE NoRead
    /\ UNCHANGED <<fence, disk, w, plan, budget, ghosts>>

ServeRouting ==
    /\ rd.pc = "legacy"
    /\ rd' = IF Eligible(Content(rd.sel)) /\ ~Diverges(legacy, Content(rd.sel))
             THEN [rd EXCEPT !.pc = "served"] ELSE NoRead
    /\ UNCHANGED <<fence, disk, w, plan, budget, ghosts>>

-----------------------------------------------------------------------------
(* The environment. *)
(* The holder dies; its lock is reclaimed later.  O_EXCL has created the   *)
(* receipt before its bytes arrive.                                        *)
Crash ==
    /\ w.pc # "idle"
    /\ Spend("crash")
    /\ Release
    /\ LET half == IF TornWrites THEN {<<"oldHistory", lkg>>, <<"newHistory", w.rev>>} ELSE {}
       IN hist' \in {hist} \cup {[hist EXCEPT ![r] = "torn"] :
                        r \in {r \in RevIds : <<w.pc, r>> \in half /\ hist[r] = "absent"}}
    /\ UNCHANGED <<fence, revs, marker, cur, lkg, legacy, plan, rd, ghosts>>

Corrupt(r, role) ==
    /\ revs[r].st = "ok"
    /\ Spend("corrupt")
    /\ revs' = [revs EXCEPT ![r].st = role]
    /\ UNCHANGED <<fence, marker, cur, lkg, hist, legacy, w, plan, rd, ghosts>>

(* An older tool or an editor changes a projection, lock or no lock. *)
Edit(f, v) ==
    /\ Spend("edit")
    /\ legacy' = [legacy EXCEPT ![f] = v]
    /\ w' = [w EXCEPT !.edited = w.pc # "idle"]
    /\ UNCHANGED <<fence, revs, marker, cur, lkg, hist, plan, rd, ghosts>>

Holder ==
    \/ Preflight \/ (\E f \in Fields : \E v \in FieldValues(f) : Mutate(f, v))
    \/ CheckMigrate \/ CheckSnapshot \/ PrePublishRefuses \/ (\E t \in RevIds : CheckRollback(t))
    \/ CheckRecover \/ CheckRepair
    \/ BuildArtifacts \/ WriteManifest \/ Verify \/ WriteMarker
    \/ SwapCurrent \/ PersistOldApproval \/ SwapLkg \/ PersistNewApproval
    \/ (\E f \in Fields : RepairFile(f)) \/ RepairDone \/ Quarantine \/ ReleaseLock

Next ==
    \/ \E c \in Inputs : Prepare(c)
    \/ \E op \in ActiveOps, a \in Approvals : Acquire(op, a)
    \/ Holder
    \/ ReadPointer \/ ReadRevision \/ ReadApproval \/ ServeRouting
    \/ Crash
    \/ \E r \in RevIds, role \in {"derived", "raw"} : Corrupt(r, role)
    \/ \E f \in Fields : \E v \in FieldValues(f) : Edit(f, v)

Spec == Init /\ [][Next]_vars
FairSpec == Spec /\ WF_vars(Holder)

-----------------------------------------------------------------------------
(* The state always has the declared shape. *)
TypeOK ==
    /\ fence \in 0..MaxFence
    /\ \A r \in RevIds :
        /\ revs[r].st \in RevStates
        /\ revs[r].parent \in 0..MaxFence
        /\ revs[r].content \in Contents \cup {None}
    /\ {marker, cur, lkg} \subseteq 0..MaxFence
    /\ hist \in [RevIds -> {"absent", "torn", "ok"}]
    /\ legacy \in Contents
    /\ w.op \in Ops /\ w.approval \in Approvals
    /\ everLkg \subseteq RevIds

(* No pointer ever names a revision that is still being written, was       *)
(* abandoned half-built, or has been quarantined, and neither does the     *)
(* chain of parents that rollback and history walk.                        *)
PointersComplete ==
    \A r \in {marker, lkg} \cup Ancestors(cur) : r # 0 => revs[r].st \in Published

(* A revision becomes last-known-good only if its routing-safety content   *)
(* is one an operator explicitly approved: carry-forward and recovery      *)
(* never bless changed content, whatever crashed in between.               *)
ApprovalProvenance ==
    \A r \in everLkg : Safety(Content(r)) \in blessed /\ Eligible(Content(r))

(* Once LKG has moved on, the receipt of every revision it moved over can  *)
(* be read, and its directory was never quarantined: findRoutingApproved-  *)
(* Revision keeps accepting it.                                            *)
ApprovalsRemembered ==
    \A r \in everLkg \ {lkg} : hist[r] = "ok" /\ revs[r].st # "quarantined"

(* A receipt is written only for a revision that became last-known-good.   *)
ReceiptsEarned == \A r \in RevIds : hist[r] # "absent" => r \in everLkg

(* A routing read that started from some current revision serves only a    *)
(* revision that has been last-known-good, is eligible, and has the same   *)
(* canonical, raw and routing-safety content as that current revision,     *)
(* even while pointers move and revisions are damaged under the reader.    *)
RoutingServesApproved ==
    rd.pc = "served" =>
        /\ rd.sel \in everLkg
        /\ Eligible(Content(rd.sel))
        /\ Digests(Content(rd.sel)) = Digests(Content(rd.cur))

(* A CLI command publishes its own change and nothing else: canonical and  *)
(* raw artifacts it did not write are those of the revision it builds on,  *)
(* although crashes of earlier commands and repairs leave the projections  *)
(* half rewritten (only an edit made while the lock is held slips in).     *)
CommandsPublishOwnChange ==
    \A r \in RevIds :
        revs[r].op = "cli" /\ ~revs[r].edited =>
            \A f \in {"canon", "notes"} :
                f # revs[r].field => Content(r)[f] = Content(revs[r].parent)[f]

(* A publication extends the history of the current pointer; only a        *)
(* recovery leaves revisions behind, and then the new current revision has *)
(* the safety-relevant content of the damaged one.                         *)
OnlyRecoveryDropsHistory ==
    [][cur' # cur /\ cur # 0 =>
          \/ Ancestors(cur) \subseteq Ancestors(cur)'
          \/ /\ revs[cur'].op = "recover" /\ revs[cur].st = "derived"
             /\ Digests(Content(cur')) = Digests(Content(cur))]_vars

(* An interrupted migration is finished by the next migration command: a   *)
(* marker written before a crash never leaves the workspace without a      *)
(* current revision once migrate runs again to its end.                    *)
MigrationResumes ==
    /\ w.op = "migrate" /\ w.pc # "idle" /\ w.approval = "none"
    /\ marker # 0 /\ cur = 0 /\ budget.crash = 0
    ~> cur # 0
=============================================================================
