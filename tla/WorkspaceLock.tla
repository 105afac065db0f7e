--------------------------- MODULE WorkspaceLock ---------------------------
(***************************************************************************)
(* The fenced writer lock of a workspace (core/workspace-state/lock.ts)    *)
(* and the pointer publication it protects (core/workspace-state/index.ts).*)
(*                                                                         *)
(* The lock is the directory state/writer-lock.  Whoever creates it with   *)
(* mkdir bumps the fence file and writes owner.json into the directory.    *)
(* A process that finds the directory may move it aside when its owner has *)
(* expired and is dead.  Every file operation is a step of its own: the    *)
(* processes share nothing but the file system, and each path-based step   *)
(* acts on whatever directory has that path when the step is taken.        *)
(***************************************************************************)
EXTENDS Integers, FiniteSets

CONSTANTS
    Procs,          \* the operating-system processes that use the workspace
    Hosts,          \* the host names they may run on
    HostOf,         \* the host of each process
    MaxAcq,         \* bound: lock directories one process may create
    MaxCrashes,     \* bound: processes that may die
    PromptOwners,   \* a live creator writes owner.json within the lease
    None, Torn      \* no owner.json; an owner.json that does not parse

MaxAttempts == 3

ASSUME LockAssumption ==
    /\ HostOf \in [Procs -> Hosts]
    /\ MaxAcq \in Nat
    /\ MaxCrashes \in Nat
    /\ PromptOwners \in BOOLEAN
    /\ None # Torn

VARIABLES
    dir,        \* the lock directory exists
    owner,      \* its owner.json: None, Torn or an owner record
    expired,    \* the lease (or the age of an ownerless directory) has run out
    fence,      \* the token in the fence file
    current,    \* the current-revision pointer
    alive,      \* which processes live
    pc,         \* where each process is
    attempt,    \* rounds of the acquisition loop each process has used
    acq,        \* how many lock directories each process has created
    tok,        \* the fencing token each process holds
    base        \* the current pointer each writer read

lockVars == <<dir, owner, expired>>
vars == <<dir, owner, expired, fence, current, alive, pc, attempt, acq, tok, base>>

-----------------------------------------------------------------------------
(* randomUUID() in initializeLock: unique for every acquisition. *)
OwnerId(p) == <<p, acq[p]>>
OwnerIds == Procs \X (0..MaxAcq)
OwnerRecord(p) == [id |-> OwnerId(p), tok |-> tok[p]]
OwnerRecords == [id : OwnerIds, tok : Nat]

ASSUME NullAssumption == None \notin OwnerRecords /\ Torn \notin OwnerRecords

(* A revision is named by the acquisition that published it: one lock      *)
(* token may publish only one revision.                                    *)
Revisions == [id : OwnerIds \cup {None}, seq : Nat, parent : OwnerIds \cup {None}]
Genesis == [id |-> None, seq |-> 0, parent |-> None]

(* The places where a process has been handed a HeldWorkspaceLock. *)
HeldPcs == {"held", "commitOwner", "commitFence", "commit",
            "releaseOwner", "releaseFence", "rm"}
InitPcs == {"readFence", "writeFence", "writeOwner", "syncDir"}
Pcs == {"idle", "mkdir", "inspect", "reclaim", "cleanup"} \cup InitPcs \cup HeldPcs

Goto(p, l) == pc' = [pc EXCEPT ![p] = l]
At(p, l) == alive[p] /\ pc[p] = l

(* rm -r or rename of the lock path: nothing is left under that name. *)
LockGone == dir' = FALSE /\ owner' = None /\ expired' = FALSE

Init ==
    /\ dir = FALSE /\ owner = None /\ expired = FALSE
    /\ fence = 0
    /\ current = Genesis
    /\ alive = [p \in Procs |-> TRUE]
    /\ pc = [p \in Procs |-> "idle"]
    /\ attempt = [p \in Procs |-> 0]
    /\ acq = [p \in Procs |-> 0]
    /\ tok = [p \in Procs |-> 0]
    /\ base = [p \in Procs |-> Genesis]

-----------------------------------------------------------------------------
(* acquireWorkspaceLock: the loop over mkdir. *)
Start(p) ==
    /\ At(p, "idle")
    /\ acq[p] < MaxAcq
    /\ attempt' = [attempt EXCEPT ![p] = 0]
    /\ Goto(p, "mkdir")
    /\ UNCHANGED <<lockVars, fence, current, alive, acq, tok, base>>

MkdirCreates(p) ==
    /\ At(p, "mkdir")
    /\ ~dir
    /\ dir' = TRUE /\ owner' = None /\ expired' = FALSE
    /\ acq' = [acq EXCEPT ![p] = @ + 1]
    /\ Goto(p, "readFence")
    /\ UNCHANGED <<fence, current, alive, attempt, tok, base>>

MkdirExists(p) ==
    /\ At(p, "mkdir")
    /\ dir
    /\ Goto(p, "inspect")
    /\ UNCHANGED <<lockVars, fence, current, alive, attempt, acq, tok, base>>

(* Mutant: pidIsAlive is not consulted: an expired live owner counts as stale. *)
StaleIgnoringPid(p) == dir /\ expired

(* tryReclaimExpiredLock, up to its rename: an owner is stale when its     *)
(* lease ran out and its process is dead on this host; a directory without *)
(* a readable owner only has to be older than the lease.                   *)
Stale(p) ==
    /\ dir
    /\ expired
    /\ owner \in OwnerRecords =>
        LET q == owner.id[1] IN HostOf[q] = HostOf[p] /\ ~alive[q]

Inspect(p) ==
    /\ At(p, "inspect")
    /\ Goto(p, IF Stale(p) THEN "reclaim" ELSE "idle")
    /\ UNCHANGED <<lockVars, fence, current, alive, attempt, acq, tok, base>>

(* Mutant: A failed rename is reported as a success and not counted as an attempt. *)
ReclaimUncounted(p) ==
    /\ At(p, "reclaim")
    /\ Goto(p, "mkdir")
    /\ UNCHANGED <<lockVars, fence, current, alive, attempt, acq, tok, base>>

(* Mutant: The loop stops one attempt after a successful reclaim. *)
ReclaimThenGiveUp(p) ==
    /\ At(p, "reclaim")
    /\ LockGone
    /\ attempt' = [attempt EXCEPT ![p] = @ + 1]
    /\ Goto(p, "idle")
    /\ UNCHANGED <<fence, current, alive, acq, tok, base>>

(* The rename moves whatever the path names by now; finding nothing counts *)
(* as reclaimed too.  The loop then tries mkdir again, three times in all. *)
Reclaim(p) ==
    /\ At(p, "reclaim")
    /\ LockGone
    /\ attempt' = [attempt EXCEPT ![p] = @ + 1]
    /\ Goto(p, IF attempt[p] + 1 < MaxAttempts THEN "mkdir" ELSE "idle")
    /\ UNCHANGED <<fence, current, alive, acq, tok, base>>

-----------------------------------------------------------------------------
(* Mutant: the fence counts down. *)
ReadFenceDown(p) ==
    /\ At(p, "readFence")
    /\ tok' = [tok EXCEPT ![p] = fence - 1]
    /\ Goto(p, "writeFence")
    /\ UNCHANGED <<lockVars, fence, current, alive, attempt, acq, base>>

(* initializeLock: allocateFence reads and then replaces the fence file,   *)
(* then owner.json is created exclusively, after mkdir -p of its directory.*)
ReadFence(p) ==
    /\ At(p, "readFence")
    /\ tok' = [tok EXCEPT ![p] = fence + 1]
    /\ Goto(p, "writeFence")
    /\ UNCHANGED <<lockVars, fence, current, alive, attempt, acq, base>>

WriteFence(p) ==
    /\ At(p, "writeFence")
    /\ fence' = tok[p]
    /\ Goto(p, "writeOwner")
    /\ UNCHANGED <<lockVars, current, alive, attempt, acq, tok, base>>

WriteOwner(p) ==
    /\ At(p, "writeOwner")
    /\ owner = None
    /\ dir' = TRUE /\ owner' = OwnerRecord(p) /\ expired' = FALSE
    /\ Goto(p, "syncDir")
    /\ UNCHANGED <<fence, current, alive, attempt, acq, tok, base>>

OwnerExists(p) ==
    /\ At(p, "writeOwner")
    /\ owner # None
    /\ Goto(p, "cleanup")
    /\ UNCHANGED <<lockVars, fence, current, alive, attempt, acq, tok, base>>

SyncLockDir(p) ==
    /\ At(p, "syncDir")
    /\ Goto(p, IF dir THEN "held" ELSE "cleanup")
    /\ UNCHANGED <<lockVars, fence, current, alive, attempt, acq, tok, base>>

(* The catch of initializeLock removes the lock path by name. *)
Cleanup(p) ==
    /\ At(p, "cleanup")
    /\ LockGone
    /\ Goto(p, "idle")
    /\ UNCHANGED <<fence, current, alive, attempt, acq, tok, base>>

-----------------------------------------------------------------------------
(* Mutant: A callback that throws skips the finally block. *)
GiveUpWithoutRelease(p) ==
    /\ At(p, "held") \/ At(p, "commitOwner")
    /\ Goto(p, "idle")
    /\ UNCHANGED <<lockVars, fence, current, alive, attempt, acq, tok, base>>

(* What a holder does: read the current pointer, refuse a fence that does  *)
(* not advance it, prepare a revision on top of it, assertHeld (two reads),*)
(* rename the new pointer into place, and release (assertHeld again, rm).  *)
(* A holder may also give up without publishing: its callback threw.       *)
ReadCurrent(p) ==
    /\ At(p, "held")
    /\ base' = [base EXCEPT ![p] = current]
    /\ Goto(p, IF tok[p] > current.seq THEN "commitOwner" ELSE "releaseOwner")
    /\ UNCHANGED <<lockVars, fence, current, alive, attempt, acq, tok>>

GiveUp(p) ==
    /\ At(p, "held") \/ At(p, "commitOwner")
    /\ Goto(p, "releaseOwner")
    /\ UNCHANGED <<lockVars, fence, current, alive, attempt, acq, tok, base>>

CheckOwner(p) ==
    /\ At(p, "commitOwner")
    /\ Goto(p, IF owner = OwnerRecord(p) THEN "commitFence" ELSE "releaseOwner")
    /\ UNCHANGED <<lockVars, fence, current, alive, attempt, acq, tok, base>>

CheckFence(p) ==
    /\ At(p, "commitFence")
    /\ Goto(p, IF fence = tok[p] THEN "commit" ELSE "releaseOwner")
    /\ UNCHANGED <<lockVars, fence, current, alive, attempt, acq, tok, base>>

Commit(p) ==
    /\ At(p, "commit")
    /\ current' = [id |-> OwnerId(p), seq |-> tok[p], parent |-> base[p].id]
    /\ Goto(p, "releaseOwner")
    /\ UNCHANGED <<lockVars, fence, alive, attempt, acq, tok, base>>

ReleaseOwner(p) ==
    /\ At(p, "releaseOwner")
    /\ Goto(p, IF owner = OwnerRecord(p) THEN "releaseFence" ELSE "idle")
    /\ UNCHANGED <<lockVars, fence, current, alive, attempt, acq, tok, base>>

ReleaseFence(p) ==
    /\ At(p, "releaseFence")
    /\ Goto(p, IF fence = tok[p] THEN "rm" ELSE "idle")
    /\ UNCHANGED <<lockVars, fence, current, alive, attempt, acq, tok, base>>

ReleaseRm(p) ==
    /\ At(p, "rm")
    /\ LockGone
    /\ Goto(p, "idle")
    /\ UNCHANGED <<fence, current, alive, attempt, acq, tok, base>>

-----------------------------------------------------------------------------
(* The environment: a process dies anywhere, possibly while owner.json is  *)
(* half written; the lease of the lock on disk runs out.                   *)
Crash(p) ==
    /\ alive[p]
    /\ Cardinality({q \in Procs : ~alive[q]}) < MaxCrashes
    /\ alive' = [alive EXCEPT ![p] = FALSE]
    /\ \/ UNCHANGED lockVars
       \/ /\ pc[p] = "writeOwner" /\ owner = None
          /\ dir' = TRUE /\ owner' = Torn /\ expired' = FALSE
    /\ UNCHANGED <<fence, current, pc, attempt, acq, tok, base>>

LeaseExpires ==
    /\ dir /\ ~expired
    /\ PromptOwners /\ owner = None => \A p \in Procs : ~(alive[p] /\ pc[p] \in InitPcs)
    /\ expired' = TRUE
    /\ UNCHANGED <<dir, owner, fence, current, alive, pc, attempt, acq, tok, base>>

(* Steps a process takes by itself once it has started an acquisition. *)
Progress(p) ==
    \/ MkdirCreates(p) \/ MkdirExists(p) \/ Inspect(p) \/ Reclaim(p)
    \/ ReadFence(p) \/ WriteFence(p) \/ WriteOwner(p) \/ OwnerExists(p)
    \/ SyncLockDir(p) \/ Cleanup(p)
    \/ ReadCurrent(p) \/ GiveUp(p) \/ CheckOwner(p) \/ CheckFence(p) \/ Commit(p)
    \/ ReleaseOwner(p) \/ ReleaseFence(p) \/ ReleaseRm(p)

Next ==
    \/ \E p \in Procs : Start(p) \/ Progress(p) \/ Crash(p)
    \/ LeaseExpires

Fairness == WF_vars(LeaseExpires) /\ \A p \in Procs : WF_vars(Progress(p))

Spec == Init /\ [][Next]_vars
FairSpec == Spec /\ Fairness

-----------------------------------------------------------------------------
Holding(p) == alive[p] /\ pc[p] \in HeldPcs

(* The workspace state always has the declared shape. *)
TypeOK ==
    /\ dir \in BOOLEAN /\ expired \in BOOLEAN
    /\ owner \in OwnerRecords \cup {None, Torn}
    /\ fence \in Nat
    /\ current \in Revisions
    /\ alive \in [Procs -> BOOLEAN]
    /\ pc \in [Procs -> Pcs]
    /\ attempt \in [Procs -> 0..MaxAttempts]
    /\ acq \in [Procs -> 0..MaxAcq]
    /\ tok \in [Procs -> Nat]
    /\ base \in [Procs -> Revisions]

(* No two live processes are inside withMutationLock at once: neither the  *)
(* mkdir race, nor a reclaim, nor a failed initialisation's rm -r lets a   *)
(* second writer in while the first still holds the lock.                  *)
MutualExclusion ==
    \A p, q \in Procs : Holding(p) /\ Holding(q) => p = q

(* The pointer swap of publishBuiltRevision never drops a revision another *)
(* writer committed after this writer read the current pointer, and the    *)
(* revision sequence only grows.                                           *)
NoLostUpdate ==
    [][current' # current =>
          current'.parent = current.id /\ current'.seq > current.seq]_vars

(* The fence file never goes back, although allocateFence reads and writes *)
(* it in two steps.                                                        *)
FenceMonotone == [][fence' >= fence]_vars

(* Once every live process is back from its calls, no lock directory on    *)
(* disk names a live owner: such a lock could never be reclaimed (its pid  *)
(* is alive) and would refuse every writer until that process exits.       *)
NoOrphanedLiveLock ==
    (\A p \in Procs : alive[p] => pc[p] = "idle") =>
        ~(owner \in OwnerRecords /\ alive[owner.id[1]])

(* The lock and the pointer swap implement the one-writer register: every  *)
(* step of mkdir, reclaim, fence, owner.json and rm is a writer coming in, *)
(* a writer leaving, one publication by the writer that is in, or nothing. *)
Register == INSTANCE OneWriter WITH
    Writers <- Procs, Values <- Revisions,
    inside <- {p \in Procs : Holding(p)}, register <- current
ImplementsRegister == Register!Spec

(* Every call of acquireWorkspaceLock comes back to its caller, with the   *)
(* lock and later its release, or with a conflict: reclaiming does not     *)
(* loop.                                                                   *)
CallsReturn == \A p \in Procs : pc[p] # "idle" ~> pc[p] = "idle" \/ ~alive[p]

(* A lock left by a dead writer of this host does not block the survivor:  *)
(* a single process that starts acquiring after the lease ran out gets the *)
(* lock (acquireWorkspaceLock retries mkdir after a successful reclaim).   *)
AbandonedLockReclaimed ==
    \A p \in Procs :
        /\ At(p, "mkdir") /\ attempt[p] = 0 /\ Stale(p)
        /\ \A q \in Procs \ {p} : ~alive[q]
        ~> Holding(p)
=============================================================================
