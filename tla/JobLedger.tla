----------------------------- MODULE JobLedger -----------------------------
(***************************************************************************)
(* The maintenance jobs of a workspace: the ledger of idempotency anchors, *)
(* job records, cancellations and execution claims (core/jobs.ts) and the  *)
(* connectors that create, run, cancel and resume jobs                     *)
(* (server/skillmap-backend.ts).                                           *)
(*                                                                         *)
(* A connector is one process with four concurrent tasks: the create and   *)
(* cancel request handlers, the serial job runner (jobTail), and the       *)
(* resumption that dashboard runs before it serves requests.  The ledger   *)
(* lock and the workspace lock are mutual exclusion locks here (module     *)
(* WorkspaceLock models the latter); everything else is a step of its own. *)
(***************************************************************************)
EXTENDS Integers, Sequences, FiniteSets

CONSTANTS
    Connectors,     \* the connector processes that serve the workspace
    Keys,           \* idempotency keys of job requests
    MaxJobs,        \* bound: jobs that may be created
    Cap,            \* JOB_LEDGER_MAX_ENTRIES
    MaxOther,       \* bound: revisions published by other writers
    MaxStops,       \* bound: crashes and shutdowns of connectors
    MaxCancels,     \* bound: cancellation requests
    LookupMayFail,  \* findPublishedMutation may throw while a job is reconciled
    TornWrites,     \* a crash may leave a record that does not parse
    Free, Dead      \* a lock or claim nobody has; one whose process is gone

MaxAttempts == 3

ASSUME JobAssumption ==
    /\ {MaxJobs, MaxOther, MaxStops, MaxCancels} \subseteq Nat /\ Cap \in Nat \ {0}
    /\ {LookupMayFail, TornWrites} \subseteq BOOLEAN

VARIABLES
    anchors,    \* jobs with an idempotency anchor, which embeds the queued job
    req,        \* the key and expected revision of each job's request
    rec,        \* the state in each job's public record
    cancel,     \* jobs with a cancellation record
    claim,      \* the owner of each job's execution claim
    log,        \* the authors of the published revisions, in order
    ledger,     \* who holds the job ledger lock
    wlock,      \* who holds the workspace writer lock
    alive,      \* which connector processes live
    accepting,  \* acceptingJobs of each connector
    sched,      \* the jobs on each connector's jobTail
    todo,       \* what each connector has yet to resume: pairs of job and state
    pc, job, want, tries,   \* of each task: place, job, target state, attempts
    caught,     \* the task is past a throw
    victim,     \* the job that admission evicts
    stops,      \* crashes and shutdowns so far
    requests,   \* cancellation requests so far
    accepted,   \* history: jobs whose cancellation request was recorded
    settled     \* history: jobs whose record has been terminal

durable == <<anchors, req, rec, cancel>>
process == <<alive, accepting, sched, todo, stops>>
locals == <<job, want, tries, caught, victim>>
history == <<accepted, settled, requests>>
vars == <<durable, claim, log, ledger, wlock, process, pc, locals, history>>

Jobs == 1..MaxJobs
Kinds == {"create", "cancel", "run", "resume"}
Tasks == Connectors \X Kinds
Terminal == {"succeeded", "failed", "cancelled"}
States == {"queued", "running"} \cup Terminal
NoRequest == [key |-> Free, base |-> 0]
Other == 0

ASSUME OwnerAssumption == Free # Dead /\ {Free, Dead} \cap Tasks = {} /\ Free \notin Keys

Revision == Len(log)
Published(j) == j \in {log[i] : i \in 1..Len(log)}

(* A revision of this job whose parent is the job's expected revision. *)
FindPublishedMutation(j) == req[j].base < Revision /\ log[req[j].base + 1] = j

At(t, l) == pc[t] = l
Goto(t, l) == pc' = [pc EXCEPT ![t] = l]
LedgerFree == ledger = Free
Serving(c) == alive[c] /\ At(<<c, "resume">>, "done")

(* The record that ensureJobRecord restores from the anchor is the queued  *)
(* one that the anchor embeds.                                             *)
Reconciled == [j \in Jobs |-> IF j \in anchors /\ rec[j] = "absent" THEN "queued" ELSE rec[j]]
AllReadable == \A j \in anchors : rec[j] # "torn"

Init ==
    /\ anchors = {} /\ cancel = {}
    /\ req = [j \in Jobs |-> NoRequest]
    /\ rec = [j \in Jobs |-> "absent"]
    /\ claim = [j \in Jobs |-> Free]
    /\ log = <<>>
    /\ ledger = Free /\ wlock = Free
    /\ alive = [c \in Connectors |-> FALSE]
    /\ accepting = [c \in Connectors |-> FALSE]
    /\ sched = [c \in Connectors |-> <<>>]
    /\ todo = [c \in Connectors |-> {}]
    /\ pc = [t \in Tasks |-> "idle"]
    /\ job = [t \in Tasks |-> 0]
    /\ want = [t \in Tasks |-> "none"]
    /\ tries = [t \in Tasks |-> 0]
    /\ caught = [t \in Tasks |-> FALSE]
    /\ victim = 0 /\ stops = 0 /\ requests = 0
    /\ accepted = {} /\ settled = {}

-----------------------------------------------------------------------------
(* How a task ends, and how an error leaves it. *)

(* scheduleJob: a job already on the tail is not put there again. *)
Schedule(c, j) ==
    sched' = IF accepting[c] /\ j \notin {sched[c][i] : i \in 1..Len(sched[c])}
             THEN [sched EXCEPT ![c] = Append(@, j)] ELSE sched

(* The call is over.  The runner takes the job off the tail, resumption    *)
(* goes on with the next job, or ends the process when it failed.          *)
Leave(t) ==
    /\ Goto(t, CASE t[2] = "resume" -> IF caught[t] THEN "exit" ELSE "next" [] OTHER -> "idle")
    /\ sched' = IF t[2] = "run" THEN [sched EXCEPT ![t[1]] = Tail(@)] ELSE sched

(* An error in runJob is caught once and reconciled; in the other tasks,   *)
(* and in the catch block itself, the claim is released and that is all.   *)
Throw(t) ==
    /\ Goto(t, IF t[2] = "run" /\ ~caught[t] THEN "reconcile" ELSE "release")
    /\ caught' = [caught EXCEPT ![t] = TRUE]

-----------------------------------------------------------------------------
(* createJob. *)

(* An identical retry finds its anchor, and restores a missing record.     *)
CreateRetry(c, k) ==
    /\ Serving(c) /\ At(<<c, "create">>, "idle") /\ LedgerFree
    /\ \E j \in anchors :
        /\ req[j].key = k /\ rec[j] = "absent"
        /\ rec' = [rec EXCEPT ![j] = "queued"]
    /\ UNCHANGED <<anchors, req, cancel, claim, log, ledger, wlock, process, pc, locals, history>>

(* A new request names the revision that is current when it is checked.    *)
CreateRequest(c, k) ==
    LET t == <<c, "create">> IN
    /\ Serving(c) /\ At(t, "idle") /\ LedgerFree
    /\ accepting[c]
    /\ \A j \in anchors : req[j].key # k
    /\ \E j \in Jobs :
        /\ req[j] = NoRequest /\ \A i \in Jobs : i < j => req[i] # NoRequest
        /\ req' = [req EXCEPT ![j] = [key |-> k, base |-> Revision]]
        /\ job' = [job EXCEPT ![t] = j]
    /\ Goto(t, "admit")
    /\ UNCHANGED <<anchors, rec, cancel, claim, log, ledger, wlock, process,
                   want, tries, caught, victim, history>>

(* createJobHeld, when another process has used the key since: ensureJob-  *)
(* Record, or an error when the requests differ.                           *)
CreateRaced(t) ==
    /\ At(t, "admit") /\ LedgerFree
    /\ \E j \in anchors :
        /\ req[j].key = req[job[t]].key
        /\ rec' = IF req[j] = req[job[t]] /\ rec[j] = "absent"
                  THEN [rec EXCEPT ![j] = "queued"] ELSE rec
    /\ Goto(t, "idle")
    /\ UNCHANGED <<anchors, req, cancel, claim, log, ledger, wlock, process, locals, history>>

KeyUnused(t) == \A j \in anchors : req[j].key # req[job[t]].key

(* Mutant: the bound is compared one too late. *)
AdmitLate(t) ==
    /\ At(t, "admit") /\ LedgerFree /\ KeyUnused(t)
    /\ Cardinality(anchors) <= Cap
    /\ ledger' = t
    /\ Goto(t, "anchor")
    /\ UNCHANGED <<durable, claim, log, wlock, process, locals, history>>

(* admitJobLedgerEntry: below the bound there is nothing to do. *)
Admit(t) ==
    /\ At(t, "admit") /\ LedgerFree /\ KeyUnused(t)
    /\ Cardinality(anchors) < Cap
    /\ ledger' = t
    /\ Goto(t, "anchor")
    /\ UNCHANGED <<durable, claim, log, wlock, process, locals, history>>

(* The jobs that retention may evict, once every record is restored.  The  *)
(* code takes the one with the least completedAt, a wall-clock time: any.  *)
Evictable == {j \in anchors : Reconciled[j] \in Terminal}

(* At the bound: restore missing records, drop unanchored files, evict.    *)
(* With an unreadable record, or none to evict, the request fails.         *)
AdmitFull(t) ==
    /\ At(t, "admit") /\ LedgerFree /\ KeyUnused(t)
    /\ Cardinality(anchors) >= Cap
    /\ IF AllReadable
       THEN /\ rec' = [j \in Jobs |-> IF j \in anchors THEN Reconciled[j] ELSE "absent"]
            /\ cancel' = cancel \cap anchors
       ELSE UNCHANGED <<rec, cancel>>
    /\ IF AllReadable /\ Evictable # {}
       THEN /\ victim' \in Evictable
            /\ ledger' = t
            /\ Goto(t, "pruneCancellation")
       ELSE Goto(t, "idle") /\ UNCHANGED <<ledger, victim>>
    /\ UNCHANGED <<anchors, req, claim, log, wlock, process, job, want, tries, caught, history>>

(* pruneJobLedgerEntry: one file after the other, the anchor last. *)
PruneCancellation(t) ==
    /\ At(t, "pruneCancellation")
    /\ cancel' = cancel \ {victim}
    /\ Goto(t, "pruneRecord")
    /\ UNCHANGED <<anchors, req, rec, claim, log, ledger, wlock, process, locals, history>>

(* Mutant: the record is forgotten. *)
PruneRecordSkipped(t) ==
    /\ At(t, "pruneRecord")
    /\ Goto(t, "pruneAnchor")
    /\ UNCHANGED <<durable, claim, log, ledger, wlock, process, locals, history>>

PruneRecord(t) ==
    /\ At(t, "pruneRecord")
    /\ rec' = [rec EXCEPT ![victim] = "absent"]
    /\ Goto(t, "pruneAnchor")
    /\ UNCHANGED <<anchors, req, cancel, claim, log, ledger, wlock, process, locals, history>>

PruneAnchor(t) ==
    /\ At(t, "pruneAnchor")
    /\ anchors' = anchors \ {victim}
    /\ Goto(t, "anchor")
    /\ UNCHANGED <<req, rec, cancel, claim, log, ledger, wlock, process, locals, history>>

WriteAnchor(t) ==
    /\ At(t, "anchor")
    /\ anchors' = anchors \cup {job[t]}
    /\ Goto(t, "record")
    /\ UNCHANGED <<req, rec, cancel, claim, log, ledger, wlock, process, locals, history>>

WriteRecord(t) ==
    /\ At(t, "record")
    /\ rec' = [rec EXCEPT ![job[t]] = "queued"]
    /\ ledger' = Free
    /\ Schedule(t[1], job[t])
    /\ Goto(t, "idle")
    /\ UNCHANGED <<anchors, req, cancel, claim, log, wlock,
                   alive, accepting, todo, stops, locals, history>>

Create(t) ==
    \/ CreateRaced(t) \/ Admit(t) \/ AdmitFull(t)
    \/ PruneCancellation(t) \/ PruneRecord(t) \/ PruneAnchor(t)
    \/ WriteAnchor(t) \/ WriteRecord(t)

-----------------------------------------------------------------------------
(* claimJobExecution: a pending directory is renamed onto the claim path.  *)

ClaimedPc(t) ==
    CASE t[2] = "run" -> "read"
      [] t[2] = "cancel" -> "refresh"
      [] t[2] = "resume" -> IF want[t] = "cancelled" THEN "assert" ELSE "reconcile"

Claim(t) ==
    /\ At(t, "claim")
    /\ claim[job[t]] = Free
    /\ claim' = [claim EXCEPT ![job[t]] = t]
    /\ Goto(t, ClaimedPc(t))
    /\ UNCHANGED <<durable, log, ledger, wlock, process, locals, history>>

Collide(t) ==
    /\ At(t, "claim")
    /\ claim[job[t]] # Free
    /\ Goto(t, "inspect")
    /\ UNCHANGED <<durable, claim, log, ledger, wlock, process, locals, history>>

(* Mutant: a round is counted twice. *)
NextAttemptTwice(t) ==
    /\ tries' = [tries EXCEPT ![t] = @ + 2]
    /\ IF tries[t] + 1 < MaxAttempts
       THEN Goto(t, "claim") /\ UNCHANGED sched
       ELSE Leave(t)

(* Another round of the loop, or none left: the caller gets no claim. *)
NextAttempt(t) ==
    /\ tries' = [tries EXCEPT ![t] = @ + 1]
    /\ IF tries[t] + 1 < MaxAttempts
       THEN Goto(t, "claim") /\ UNCHANGED sched
       ELSE Leave(t)

(* The owner released the claim before it could be inspected. *)
InspectGone(t) ==
    /\ At(t, "inspect")
    /\ claim[job[t]] = Free
    /\ NextAttempt(t)
    /\ UNCHANGED <<durable, claim, log, ledger, wlock, alive, accepting, todo, stops,
                   job, want, caught, victim, history>>

(* The owner's process lives: the caller gets no claim. *)
InspectLive(t) ==
    /\ At(t, "inspect")
    /\ claim[job[t]] \in Tasks
    /\ Leave(t)
    /\ UNCHANGED <<durable, claim, log, ledger, wlock, alive, accepting, todo, stops,
                   locals, history>>

InspectDead(t) ==
    /\ At(t, "inspect")
    /\ claim[job[t]] = Dead
    /\ Goto(t, "quarantine")
    /\ UNCHANGED <<durable, claim, log, ledger, wlock, process, locals, history>>

(* The rename moves whatever has the claim's path by now. *)
QuarantineClaim(t) ==
    /\ At(t, "quarantine")
    /\ claim' = [claim EXCEPT ![job[t]] = Free]
    /\ NextAttempt(t)
    /\ UNCHANGED <<durable, log, ledger, wlock, alive, accepting, todo, stops,
                   job, want, caught, victim, history>>

(* release(): removes the claim if it still is this task's.  Otherwise it  *)
(* throws, which every caller swallows but the resumption of a running job.*)
Release(t) ==
    /\ At(t, "release")
    /\ IF claim[job[t]] = t
       THEN claim' = [claim EXCEPT ![job[t]] = Free] /\ Leave(t)
       ELSE /\ UNCHANGED claim
            /\ \/ Leave(t)
               \/ t[2] = "resume" /\ Goto(t, "exit") /\ UNCHANGED sched
    /\ UNCHANGED <<durable, log, ledger, wlock, alive, accepting, todo, stops, locals, history>>

Claiming(t) ==
    \/ Claim(t) \/ Collide(t) \/ InspectGone(t) \/ InspectLive(t) \/ InspectDead(t)
    \/ QuarantineClaim(t) \/ Release(t)

-----------------------------------------------------------------------------
(* transitionJob with a claim: the claim is compared first, the record is  *)
(* read and replaced under the ledger lock after that.                     *)

(* Mutant: any transition out of any state. *)
LegalTransitionAny(from, to) == from # "absent"

LegalTransition(from, to) ==
    \/ from = "queued" /\ to \in {"running", "cancelled"}
    \/ from = "running" /\ to \in Terminal

AssertClaimOwned(t) ==
    /\ At(t, "assert")
    /\ IF claim[job[t]] = t
       THEN Goto(t, "write") /\ UNCHANGED caught
       ELSE Throw(t)
    /\ UNCHANGED <<durable, claim, log, ledger, wlock, process, job, want, tries, victim, history>>

Transition(t) ==
    /\ At(t, "write") /\ LedgerFree
    /\ LET j == job[t] IN
        IF LegalTransition(rec[j], want[t])
        THEN /\ rec' = [rec EXCEPT ![j] = want[t]]
             /\ settled' = IF want[t] \in Terminal THEN settled \cup {j} ELSE settled
             /\ Goto(t, IF want[t] = "running" THEN "prepare" ELSE "release")
             /\ UNCHANGED caught
        ELSE /\ Throw(t)
             /\ UNCHANGED <<rec, settled>>
    /\ UNCHANGED <<anchors, req, cancel, claim, log, ledger, wlock, process,
                   job, want, tries, victim, accepted, requests>>

(* Ask for the transition to s, and where a transition starts. *)
TransitionTo(t, s) == want' = [want EXCEPT ![t] = s] /\ Goto(t, "assert")

-----------------------------------------------------------------------------
(* runJob: the head of the tail, once its predecessor is finished. *)

RunStart(c) ==
    LET t == <<c, "run">> IN
    /\ alive[c] /\ At(t, "idle")
    /\ sched[c] # <<>>
    /\ job' = [job EXCEPT ![t] = Head(sched[c])]
    /\ tries' = [tries EXCEPT ![t] = 0]
    /\ caught' = [caught EXCEPT ![t] = FALSE]
    /\ IF accepting[c]
       THEN Goto(t, "claim") /\ UNCHANGED sched
       ELSE UNCHANGED pc /\ sched' = [sched EXCEPT ![c] = Tail(@)]
    /\ UNCHANGED <<durable, claim, log, ledger, wlock, alive, accepting, todo, stops,
                   want, victim, history>>

(* Only a queued job is run; a missing record throws, to the same effect.  *)
RunRead(t) ==
    /\ At(t, "read") /\ LedgerFree
    /\ Goto(t, IF rec[job[t]] = "queued" THEN "readCancellation" ELSE "release")
    /\ UNCHANGED <<durable, claim, log, ledger, wlock, process, locals, history>>

RunReadCancellation(t) ==
    /\ At(t, "readCancellation") /\ LedgerFree
    /\ TransitionTo(t, IF job[t] \in cancel THEN "cancelled" ELSE "running")
    /\ UNCHANGED <<durable, claim, log, ledger, wlock, process, job, tries, caught, victim, history>>

(* prepareJobArtifacts in the staging workspace, which may fail or be      *)
(* aborted.                                                                *)
Prepare(t) ==
    /\ At(t, "prepare")
    /\ \/ Goto(t, "check") /\ UNCHANGED caught
       \/ Throw(t)
    /\ UNCHANGED <<durable, claim, log, ledger, wlock, process, job, want, tries, victim, history>>

(* The checks before publication, outside the workspace lock. *)
CheckBeforePublication(t) ==
    /\ At(t, "check") /\ LedgerFree
    /\ IF accepting[t[1]] /\ job[t] \notin cancel
       THEN Goto(t, "lock") /\ UNCHANGED caught
       ELSE Throw(t)
    /\ UNCHANGED <<durable, claim, log, ledger, wlock, process, job, want, tries, victim, history>>

(* publishPreparedSnapshot, under the workspace lock; a busy lock is a     *)
(* conflict.                                                               *)
PublishLock(t) ==
    /\ At(t, "lock")
    /\ IF wlock = Free
       THEN wlock' = t /\ Goto(t, "compare") /\ UNCHANGED caught
       ELSE Throw(t) /\ UNCHANGED wlock
    /\ UNCHANGED <<durable, claim, log, ledger, process, job, want, tries, victim, history>>

PublishCompare(t) ==
    /\ At(t, "compare")
    /\ IF Revision = req[job[t]].base
       THEN Goto(t, "prePublishCheck") /\ UNCHANGED <<wlock, caught>>
       ELSE Throw(t) /\ wlock' = Free
    /\ UNCHANGED <<durable, claim, log, ledger, process, job, want, tries, victim, history>>

(* Mutant: the check outside the lock is thought to be enough. *)
PrePublishCheckSkipped(t) ==
    /\ At(t, "prePublishCheck")
    /\ Goto(t, "swap")
    /\ UNCHANGED <<durable, claim, log, ledger, wlock, process, locals, history>>

PrePublishCheck(t) ==
    /\ At(t, "prePublishCheck") /\ LedgerFree
    /\ IF job[t] \notin cancel
       THEN Goto(t, "swap") /\ UNCHANGED <<wlock, caught>>
       ELSE Throw(t) /\ wlock' = Free
    /\ UNCHANGED <<durable, claim, log, ledger, process, job, want, tries, victim, history>>

(* The revision is built and the pointer advanced, or building it fails.   *)
PublishSwap(t) ==
    /\ At(t, "swap")
    /\ \/ /\ log' = Append(log, job[t])
          /\ Goto(t, "unlock")
          /\ UNCHANGED <<wlock, caught>>
       \/ /\ Throw(t)
          /\ wlock' = Free
          /\ UNCHANGED log
    /\ UNCHANGED <<durable, claim, ledger, process, job, want, tries, victim, history>>

(* The lock is released; the call returns, or throws although the revision *)
(* is published.                                                           *)
PublishUnlock(t) ==
    /\ At(t, "unlock")
    /\ wlock' = Free
    /\ \/ TransitionTo(t, "succeeded") /\ UNCHANGED caught
       \/ Throw(t) /\ UNCHANGED want
    /\ UNCHANGED <<durable, claim, log, ledger, process, job, tries, victim, history>>

-----------------------------------------------------------------------------
(* reconcileJobFailure, and the same steps of resumeInterruptedJobs for a  *)
(* job it finds running.                                                   *)

Reconcile(t) ==
    /\ At(t, "reconcile") /\ LedgerFree
    /\ Goto(t, IF rec[job[t]] = "running" THEN "lookup" ELSE "release")
    /\ UNCHANGED <<durable, claim, log, ledger, wlock, process, locals, history>>

(* Mutant: the outcome is decided without looking for a publication. *)
LookupSkipped(t) ==
    /\ At(t, "lookup")
    /\ Goto(t, "lookupCancellation")
    /\ UNCHANGED <<durable, claim, log, ledger, wlock, process, locals, history>>

(* An error of findPublishedMutation counts as "not published". *)
Lookup(t) ==
    /\ At(t, "lookup")
    /\ \/ /\ FindPublishedMutation(job[t])
          /\ TransitionTo(t, "succeeded")
       \/ /\ LookupMayFail \/ ~FindPublishedMutation(job[t])
          /\ Goto(t, "lookupCancellation")
          /\ UNCHANGED want
    /\ UNCHANGED <<durable, claim, log, ledger, wlock, process, job, tries, caught, victim, history>>

LookupCancellation(t) ==
    /\ At(t, "lookupCancellation") /\ LedgerFree
    /\ TransitionTo(t, IF job[t] \in cancel THEN "cancelled" ELSE "failed")
    /\ UNCHANGED <<durable, claim, log, ledger, wlock, process, job, tries, caught, victim, history>>

Run(t) ==
    \/ RunRead(t) \/ RunReadCancellation(t) \/ Prepare(t) \/ CheckBeforePublication(t)
    \/ PublishLock(t) \/ PublishCompare(t) \/ PrePublishCheck(t)
    \/ PublishSwap(t) \/ PublishUnlock(t)
    \/ Reconcile(t) \/ Lookup(t) \/ LookupCancellation(t)
    \/ AssertClaimOwned(t) \/ Transition(t)

-----------------------------------------------------------------------------
(* cancelJob: recorded under the workspace lock, then finalized. *)

CancelRequest(c, j) ==
    LET t == <<c, "cancel">> IN
    /\ Serving(c) /\ accepting[c] /\ At(t, "idle")
    /\ rec[j] # "absent"
    /\ requests < MaxCancels
    /\ requests' = requests + 1
    /\ job' = [job EXCEPT ![t] = j]
    /\ tries' = [tries EXCEPT ![t] = 0]
    /\ Goto(t, "cancelLock")
    /\ UNCHANGED <<durable, claim, log, ledger, wlock, process, want, caught, victim,
                   accepted, settled>>

(* A busy lock is tried again, and given up on after two seconds. *)
CancelLock(t) ==
    /\ At(t, "cancelLock")
    /\ IF wlock = Free
       THEN wlock' = t /\ Goto(t, "cancelRead")
       ELSE UNCHANGED wlock /\ Goto(t, "idle")
    /\ UNCHANGED <<durable, claim, log, ledger, process, locals, history>>

(* The handler remembers whether there is anything left to finalize. *)
CancelRead(t) ==
    /\ At(t, "cancelRead") /\ LedgerFree
    /\ LET s == rec[job[t]] IN
        /\ want' = [want EXCEPT ![t] = IF s = "cancelled" THEN "none" ELSE "cancelled"]
        /\ IF s \in {"queued", "running", "cancelled"}
           THEN Goto(t, IF s = "running" THEN "cancelFind" ELSE "cancelWrite") /\ UNCHANGED wlock
           ELSE Goto(t, "idle") /\ wlock' = Free       \* JOB_NOT_CANCELLABLE
    /\ UNCHANGED <<durable, claim, log, ledger, process, job, tries, caught, victim, history>>

CancelFind(t) ==
    /\ At(t, "cancelFind")
    /\ IF FindPublishedMutation(job[t])
       THEN Goto(t, "idle") /\ wlock' = Free           \* JOB_PUBLICATION_COMMITTED
       ELSE Goto(t, "cancelWrite") /\ UNCHANGED wlock
    /\ UNCHANGED <<durable, claim, log, ledger, process, locals, history>>

(* requestJobCancellation: unanchored files are dropped, then the record   *)
(* is written; one with another key, or a missing job, is an error.        *)
CancelWrite(t) ==
    /\ At(t, "cancelWrite") /\ LedgerFree
    /\ wlock' = Free
    /\ LET j == job[t] IN
        \/ /\ rec[j] \in States /\ j \in anchors
           /\ cancel' = (cancel \cap anchors) \cup {j}
           /\ accepted' = accepted \cup {j}
           /\ Goto(t, IF want[t] = "cancelled" THEN "claim" ELSE "idle")
        \/ /\ rec[j] \notin States \/ j \notin anchors \/ j \in cancel
           /\ cancel' = IF rec[j] \in States THEN cancel \cap anchors ELSE cancel
           /\ Goto(t, "idle")
           /\ UNCHANGED accepted
    /\ rec' = IF rec[job[t]] \in States
              THEN [j \in Jobs |-> IF j \in anchors THEN rec[j] ELSE "absent"] ELSE rec
    /\ UNCHANGED <<anchors, req, claim, log, ledger, process, locals, settled, requests>>

(* With the claim, the job is moved to cancelled unless it settled itself. *)
CancelRefresh(t) ==
    /\ At(t, "refresh") /\ LedgerFree
    /\ Goto(t, IF rec[job[t]] \in {"queued", "running"} THEN "assert" ELSE "release")
    /\ UNCHANGED <<durable, claim, log, ledger, wlock, process, locals, history>>

Cancel(t) ==
    CancelLock(t) \/ CancelRead(t) \/ CancelFind(t) \/ CancelWrite(t) \/ CancelRefresh(t)

-----------------------------------------------------------------------------
(* resumeInterruptedJobs, before the connector serves requests. *)

(* listAllJobs restores missing records first.  An unreadable record makes *)
(* it throw, and the connector never gets further.                         *)
ResumeList(t) ==
    /\ At(t, "boot") /\ LedgerFree /\ AllReadable
    /\ rec' = Reconciled
    /\ todo' = [todo EXCEPT ![t[1]] =
                    {x \in anchors \X {"queued", "running"} : Reconciled[x[1]] = x[2]}]
    /\ Goto(t, "next")
    /\ UNCHANGED <<anchors, req, cancel, claim, log, ledger, wlock,
                   alive, accepting, sched, stops, locals, history>>

(* The next job of the list, with the state it had when it was listed. *)
ResumeNext(t) ==
    /\ At(t, "next")
    /\ \E x \in todo[t[1]] :
        /\ todo' = [todo EXCEPT ![t[1]] = @ \ {x}]
        /\ job' = [job EXCEPT ![t] = x[1]]
        /\ Goto(t, IF x[2] = "queued" THEN "resumeQueued" ELSE "claim")
    /\ want' = [want EXCEPT ![t] = "none"]
    /\ tries' = [tries EXCEPT ![t] = 0]
    /\ UNCHANGED <<durable, claim, log, ledger, wlock, alive, accepting, sched, stops,
                   caught, victim, history>>

(* Mutant: a queued job is left to whoever created it. *)
ResumeQueuedIgnored(t) ==
    /\ At(t, "resumeQueued") /\ LedgerFree
    /\ Goto(t, "next")
    /\ UNCHANGED <<durable, claim, log, ledger, wlock, process, locals, history>>

(* A queued job is scheduled, a cancelled one settled. *)
ResumeQueued(t) ==
    /\ At(t, "resumeQueued") /\ LedgerFree
    /\ IF job[t] \in cancel
       THEN /\ want' = [want EXCEPT ![t] = "cancelled"]
            /\ Goto(t, "claim") /\ UNCHANGED sched
       ELSE Schedule(t[1], job[t]) /\ Goto(t, "next") /\ UNCHANGED want
    /\ UNCHANGED <<durable, claim, log, ledger, wlock, alive, accepting, todo, stops,
                   job, tries, caught, victim, history>>

ResumeDone(t) ==
    /\ At(t, "next")
    /\ todo[t[1]] = {}
    /\ Goto(t, "done")
    /\ UNCHANGED <<durable, claim, log, ledger, wlock, process, locals, history>>

Resume(t) == ResumeList(t) \/ ResumeNext(t) \/ ResumeQueued(t) \/ ResumeDone(t)

-----------------------------------------------------------------------------
(* Processes and locks. *)

(* withJobLedgerLock gives up long before the lease of a dead owner's lock *)
(* ends.  (At boot and for a new request nothing has begun.)               *)
Unclaimed == {"admit", "resumeQueued"}
InWriterLock == {"cancelRead", "cancelWrite", "prePublishCheck"}
WithClaim == {"read", "readCancellation", "write", "check", "reconcile",
              "lookupCancellation", "refresh", "prePublishCheck"}
LedgerBusy(t) ==
    /\ ledger = Dead
    /\ pc[t] \in Unclaimed \cup InWriterLock \cup WithClaim
    /\ wlock' = IF pc[t] \in InWriterLock THEN Free ELSE wlock
    /\ IF pc[t] \in WithClaim
       THEN Throw(t)
       ELSE Goto(t, IF t[2] = "resume" THEN "exit" ELSE "idle") /\ UNCHANGED caught
    /\ UNCHANGED <<durable, claim, log, ledger, process, job, want, tries, victim, history>>

(* tryReclaimJobLedgerLock, and its counterpart in WorkspaceLock. *)
ReclaimLedgerLock ==
    /\ ledger = Dead
    /\ ledger' = Free
    /\ UNCHANGED <<durable, claim, log, wlock, process, pc, locals, history>>

ReclaimWriterLock ==
    /\ wlock = Dead
    /\ wlock' = Free
    /\ UNCHANGED <<durable, claim, log, ledger, process, pc, locals, history>>

(* Any other writer of the workspace publishes a revision. *)
OtherPublishes ==
    /\ wlock = Free
    /\ Cardinality({i \in 1..Len(log) : log[i] = Other}) < MaxOther
    /\ log' = Append(log, Other)
    /\ UNCHANGED <<durable, claim, ledger, wlock, process, pc, locals, history>>

Start(c) ==
    /\ ~alive[c]
    /\ alive' = [alive EXCEPT ![c] = TRUE]
    /\ accepting' = [accepting EXCEPT ![c] = TRUE]
    /\ pc' = [pc EXCEPT ![<<c, "resume">>] = "boot"]
    /\ UNCHANGED <<durable, claim, log, ledger, wlock, sched, todo, stops, locals, history>>

(* close(): no job is started or published from now on. *)
Close(c) ==
    /\ Serving(c) /\ accepting[c]
    /\ stops < MaxStops
    /\ stops' = stops + 1
    /\ accepting' = [accepting EXCEPT ![c] = FALSE]
    /\ UNCHANGED <<durable, claim, log, ledger, wlock, alive, sched, todo, pc, locals, history>>

(* The process is gone: what it holds is now owned by a dead pid. *)
Gone(c) ==
    LET Mine(x) == x \in {c} \X Kinds IN
    /\ alive' = [alive EXCEPT ![c] = FALSE]
    /\ accepting' = [accepting EXCEPT ![c] = FALSE]
    /\ sched' = [sched EXCEPT ![c] = <<>>]
    /\ todo' = [todo EXCEPT ![c] = {}]
    /\ claim' = [j \in Jobs |-> IF Mine(claim[j]) THEN Dead ELSE claim[j]]
    /\ ledger' = IF Mine(ledger) THEN Dead ELSE ledger
    /\ wlock' = IF Mine(wlock) THEN Dead ELSE wlock
    /\ pc' = [t \in Tasks |-> IF t[1] = c THEN "idle" ELSE pc[t]]
    /\ job' = [t \in Tasks |-> IF t[1] = c THEN 0 ELSE job[t]]
    /\ want' = [t \in Tasks |-> IF t[1] = c THEN "none" ELSE want[t]]
    /\ tries' = [t \in Tasks |-> IF t[1] = c THEN 0 ELSE tries[t]]
    /\ caught' = [t \in Tasks |-> IF t[1] = c THEN FALSE ELSE caught[t]]

(* A crash at any point, also in the middle of writing a record. *)
Crash(c) ==
    /\ alive[c] /\ accepting[c]
    /\ stops < MaxStops
    /\ stops' = stops + 1
    /\ Gone(c)
    /\ rec' \in {rec} \cup
           IF TornWrites /\ At(<<c, "create">>, "record")
           THEN {[rec EXCEPT ![job[<<c, "create">>]] = "torn"]} ELSE {}
    /\ UNCHANGED <<anchors, req, cancel, log, victim, history>>

(* The end of a process that is closing (it waits five seconds at most) or *)
(* whose resumption failed.                                                *)
Exit(c) ==
    /\ alive[c]
    /\ ~accepting[c] \/ At(<<c, "resume">>, "exit")
    /\ Gone(c)
    /\ UNCHANGED <<durable, log, victim, stops, history>>

-----------------------------------------------------------------------------
Step(t) == Create(t) \/ Claiming(t) \/ Run(t) \/ Cancel(t) \/ Resume(t) \/ LedgerBusy(t)

Next ==
    \/ \E t \in Tasks : Step(t)
    \/ \E c \in Connectors :
        \/ \E k \in Keys : CreateRequest(c, k) \/ CreateRetry(c, k)
        \/ \E j \in Jobs : CancelRequest(c, j)
        \/ RunStart(c) \/ Start(c) \/ Close(c) \/ Crash(c) \/ Exit(c)
    \/ ReclaimLedgerLock \/ ReclaimWriterLock \/ OtherPublishes

Spec == Init /\ [][Next]_vars

(* A task that can go on does, an abandoned lock is reclaimed, a connector *)
(* that ended is started again.  Requests, crashes and shutdowns need not  *)
(* happen.                                                                 *)
FairSpec ==
    /\ Spec
    /\ \A t \in Tasks : WF_vars(Step(t))
    /\ \A c \in Connectors : WF_vars(RunStart(c)) /\ WF_vars(Start(c)) /\ WF_vars(Exit(c))
    /\ WF_vars(ReclaimLedgerLock) /\ WF_vars(ReclaimWriterLock)

-----------------------------------------------------------------------------
(* The state always has the declared shape. *)
TypeOK ==
    /\ anchors \subseteq Jobs /\ cancel \subseteq Jobs
    /\ rec \in [Jobs -> States \cup {"absent", "torn"}]
    /\ claim \in [Jobs -> Tasks \cup {Free, Dead}]
    /\ {ledger, wlock} \subseteq Tasks \cup {Free, Dead}
    /\ job \in [Tasks -> 0..MaxJobs]
    /\ tries \in [Tasks -> 0..MaxAttempts]

(* No job record is left without its idempotency anchor, at any instant of *)
(* creation, retention or a crash in between: nothing can be executed that *)
(* the ledger does not count.                                              *)
NoExecutableOrphans == \A j \in Jobs : rec[j] # "absent" => j \in anchors

(* Admission keeps the ledger within its bound. *)
LedgerBound == Cardinality(anchors) <= Cap

(* A recorded cancellation and a published revision exclude each other for *)
(* one job, whichever came first: cancelJob refuses a published job, and   *)
(* the last check before publication shares the workspace lock with it.    *)
CancelledNeverPublishes == \A j \in accepted : ~Published(j)

(* The outcome in a terminal record is what happened to the workspace: a   *)
(* job succeeded exactly when its revision is in the history.              *)
OutcomeMatchesPublication ==
    \A j \in Jobs : rec[j] \in Terminal => (rec[j] = "succeeded" <=> Published(j))

(* A terminal record never changes again, and a job that has left the      *)
(* ledger never comes back.                                                *)
TerminalIsFinal == [][\A j \in settled : rec'[j] \in {rec[j], "absent"}]_vars

(* Every anchored job is settled in the end (or has been evicted, being    *)
(* settled), through crashes, shutdowns and cancellations.                 *)
JobsSettle == \A j \in Jobs : j \in anchors ~> rec[j] \in Terminal \/ j \notin anchors
=============================================================================
