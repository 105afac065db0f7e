--------------------------- MODULE ManagedImport ---------------------------
(***************************************************************************)
(* Managed import of one skill: runManagedImport and its uploader on the   *)
(* machine (services/managed-import-use-case.ts, network/import-*.ts), the *)
(* import service (apps/web/lib/import) with the import session of the     *)
(* database, the bucket, and the worker that deletes bad uploads           *)
(* (apps/worker/src/import-upload-cleanup-once.mjs).                       *)
(*                                                                         *)
(* One step is one database transaction, one access to the bucket, or one  *)
(* answer that arrives.  The files of the import are uploaded at the same  *)
(* time, each by a lane of its own; a lane reads the revision it sends     *)
(* from a session object that the lanes share, until a conflict gives it a *)
(* private one.  A run may be cut short anywhere and started again with    *)
(* the same checkpoint.                                                    *)
(***************************************************************************)
EXTENDS Integers, Sequences, FiniteSets

CONSTANTS
    Files,          \* files of the import, not more than the uploader's concurrency
    Workers,        \* cleanup workers
    Slow,           \* whether an accept call may last until the cleanup of its file
                    \* has begun, and a DELETE until its worker's lease has run out
    MaxAttempts,    \* max_attempts of a cleanup job
    MaxRuns,        \* bound: runs of the command
    MaxFaults,      \* bound: losses, failures, crashes and damaged uploads
    None

ASSUME ImportAssumption ==
    /\ IsFiniteSet(Files) /\ Files # {} /\ IsFiniteSet(Workers)
    /\ Slow \in BOOLEAN
    /\ MaxAttempts \in Nat \ {0} /\ MaxRuns \in Nat /\ MaxFaults \in Nat
    /\ None \notin Workers \cup Files

VARIABLES
    session,    \* the import session: state, revision, accepted files
    receipt,    \* the finalisation receipt: the revision it was asked for; 0 if none
    consents,   \* revisions with a cutover consent that has not expired
    lapsed,     \* expiry_at of the session has passed
    objects,    \* the bucket
    cleanup,    \* the cleanup job of each file
    calls,      \* accept calls that the service is handling
    run,        \* runManagedImport: where it is, and the session object it has
    lane,       \* the upload of each file
    queue,      \* the lanes at the acceptance lock, its holder first
    late,       \* PUTs and finalisations still on their way
    worker,     \* each worker: its pc and the file it has claimed
    runs, faults

server == <<session, receipt, consents, lapsed>>
client == <<run, lane, queue>>
bounds == <<runs, faults>>
vars == <<server, objects, cleanup, calls, client, late, worker, bounds>>

(* What the service projects of a session; exp is the revision that the    *)
(* finalisation was asked for.                                             *)
Views == [st : {"none", "in_progress", "verified"}, rev : Nat, acc : SUBSET Files,
          exp : Nat]
NoView == [st |-> "none", rev |-> 0, acc |-> {}, exp |-> 0]
Jobs == [st : {"none", "queued", "claimed", "completed", "dead_lettered"},
         token : Workers \cup {None}, leased : BOOLEAN, attempts : 0..MaxAttempts]
NoJob == [st |-> "none", token |-> None, leased |-> FALSE, attempts |-> 0]
Calls == [file : Files, rev : Nat, at : {"prepare", "read", "cleanup", "store"},
          mine : BOOLEAN]
Errors == {"session_conflict", "session_expired", "already_accepted", "invalid_request",
           "stored_object_conflict", "temporarily_unavailable"}
LanePcs == {"none", "skipped", "prepare", "put", "await", "accept", "lookup",
            "conflict", "ok", "failed"}
Lanes == [pc : LanePcs, priv : Views \cup {None}, ans : Errors \cup {"ok", None},
          got : Views \cup {None}]
NoLane == [pc |-> "none", priv |-> None, ans |-> None, got |-> None]
RunPcs == {"idle", "begin", "receipts", "upload", "finalize"}

ASSUME NoneAssumption == None \notin Views /\ None \notin Errors \cup {"ok"}

TypeOK ==
    /\ session \in [st : {"none", "in_progress", "verified"}, rev : Nat, acc : SUBSET Files]
    /\ receipt \in Nat /\ consents \subseteq Nat /\ lapsed \in BOOLEAN
    /\ objects \in [Files -> {"absent", "good", "bad"}]
    /\ cleanup \in [Files -> Jobs]
    /\ \A f \in Files : (cleanup[f].st = "claimed") = (cleanup[f].token # None)
    /\ calls \subseteq Calls
    /\ run \in [pc : RunPcs, view : Views]
    /\ lane \in [Files -> Lanes] /\ queue \in Seq(Files)
    /\ \A f \in Files : lane[f].pc = "accept" => queue # <<>> /\ f = Head(queue)
    /\ late \in [puts : SUBSET Files, finals : SUBSET Nat]
    /\ worker \in [Workers -> [pc : {"idle", "delete", "complete", "fail"}, file : Files \cup {None}]]
    /\ runs \in 0..MaxRuns /\ faults \in 0..MaxFaults

Init ==
    /\ session = [st |-> "none", rev |-> 0, acc |-> {}]
    /\ receipt = 0 /\ consents = {} /\ lapsed = FALSE
    /\ objects = [f \in Files |-> "absent"] /\ cleanup = [f \in Files |-> NoJob]
    /\ calls = {}
    /\ run = [pc |-> "idle", view |-> NoView]
    /\ lane = [f \in Files |-> NoLane] /\ queue = <<>>
    /\ late = [puts |-> {}, finals |-> {}]
    /\ worker = [w \in Workers |-> [pc |-> "idle", file |-> None]]
    /\ runs = 0 /\ faults = 0

Fault == faults < MaxFaults /\ faults' = faults + 1

(* adapter_list_import_file_receipts, which is what resume returns.        *)
View == [st |-> session.st, rev |-> session.rev, acc |-> session.acc, exp |-> 0]

(* Mutant: an upload does not wait for the cleanup of its object.          *)
CleanupIgnored(f) == FALSE
(* A cleanup job that is not completed keeps the file from being prepared  *)
(* and from being accepted.                                                *)
CleanupActive(f) == cleanup[f].st \notin {"none", "completed"}

SessionVerdict(rev) ==
    IF session.rev # rev \/ session.st # "in_progress" THEN "session_conflict"
    ELSE IF lapsed THEN "session_expired" ELSE "ok"
FileVerdict(f) ==
    IF f \in session.acc THEN "already_accepted"
    ELSE IF CleanupActive(f) THEN "session_conflict" ELSE "ok"

(* adapter_prepare_import_upload, for an upload and first of all for an    *)
(* acceptance.                                                             *)
PrepareVerdict(f, rev) == IF SessionVerdict(rev) # "ok" THEN SessionVerdict(rev) ELSE FileVerdict(f)
(* adapter_accept_scanned_import_file_v2, with accept_import_file and the  *)
(* trigger on the receipt.                                                 *)
AcceptVerdict(f, rev) ==
    IF SessionVerdict(rev) # "ok" THEN SessionVerdict(rev)
    ELSE IF objects[f] = "absent" THEN "invalid_request" ELSE FileVerdict(f)

-----------------------------------------------------------------------------
(* The run. *)

Ended == run' = [pc |-> "idle", view |-> NoView]
LanesGone == lane' = [f \in Files |-> NoLane] /\ queue' = <<>>

(* The command, with the checkpoint of the import while its six hours are  *)
(* not over.                                                               *)
StartRun ==
    /\ run.pc = "idle" /\ runs < MaxRuns /\ ~lapsed
    /\ runs' = runs + 1 /\ run' = [run EXCEPT !.pc = "begin"]
    /\ UNCHANGED <<server, objects, cleanup, calls, lane, queue, late, worker, faults>>

(* Mutant: a verified session is finalised at its present revision.        *)
ReplayPresentRevision(s) == s.rev
(* The revision a verified session is finalised at again.                  *)
ReplayRevision(s) == receipt

(* adapter_begin_import_session_v2: the idempotency key is derived from    *)
(* the checkpoint and the content, so every run finds the same session.    *)
Begin ==
    /\ run.pc = "begin"
    /\ IF lapsed THEN Ended /\ UNCHANGED <<session, faults>>
       ELSE LET s == IF session.st = "none" THEN [st |-> "in_progress", rev |-> 1, acc |-> {}]
                     ELSE session
                view == [st |-> s.st, rev |-> s.rev, acc |-> s.acc, exp |-> ReplayRevision(s)]
            IN /\ session' = s
               /\ \/ /\ run' = [pc |-> IF s.st = "verified" THEN "finalize" ELSE "receipts",
                                view |-> view]
                     /\ UNCHANGED faults
                  \/ Fault /\ Ended
    /\ UNCHANGED <<receipt, consents, lapsed, objects, cleanup, calls, lane, queue, late, worker, runs>>

(* listReceipts twice, both times for the revision that begin returned;    *)
(* files with a receipt are skipped.                                       *)
ListReceipts ==
    /\ run.pc = "receipts"
    /\ \/ /\ session.rev = run.view.rev
          /\ run' = [run EXCEPT !.pc = "upload"]
          /\ lane' = [f \in Files |->
                [NoLane EXCEPT !.pc = IF f \in session.acc THEN "skipped" ELSE "prepare"]]
          /\ UNCHANGED faults
       \/ session.rev # run.view.rev /\ Ended /\ UNCHANGED <<lane, faults>>
       \/ Fault /\ Ended /\ UNCHANGED lane
    /\ UNCHANGED <<server, objects, cleanup, calls, queue, late, worker, runs>>

(* The lanes are done: the run goes on only at exact parity.               *)
UploadEnds ==
    /\ run.pc = "upload"
    /\ \A f \in Files : lane[f].pc \in {"skipped", "ok", "failed"}
    /\ IF run.view.acc = Files /\ \A f \in Files : lane[f].pc # "failed"
       THEN run' = [run EXCEPT !.pc = "finalize", !.view.exp = run.view.rev]
       ELSE Ended
    /\ LanesGone
    /\ UNCHANGED <<server, objects, cleanup, calls, late, worker, bounds>>

(* adapter_finalize_import_session_v2.  The idempotency key is derived     *)
(* like that of begin; the request digest covers the revision.             *)
FinalizeVerdict(rev) ==
    CASE receipt # 0 /\ receipt = rev -> "ok"
      [] receipt # 0 /\ receipt # rev -> "conflicting reuse"
      [] receipt = 0 /\ (session.st # "in_progress" \/ session.rev # rev) -> "unauthorized"
      [] OTHER -> IF rev \notin consents THEN "owner_consent_required"
                  ELSE IF lapsed \/ session.acc # Files THEN "invalid_request" ELSE "ok"

FinalizeSession(rev) ==
    IF receipt = 0 /\ FinalizeVerdict(rev) = "ok"
    THEN /\ session' = [session EXCEPT !.st = "verified", !.rev = @ + 1]
         /\ receipt' = rev
    ELSE UNCHANGED <<session, receipt>>

(* Whatever the answer, the run ends: verified, waiting for the owner's    *)
(* consent, or failed.                                                     *)
Finalize ==
    /\ run.pc = "finalize"
    /\ FinalizeSession(run.view.exp)
    /\ Ended
    /\ UNCHANGED <<consents, lapsed, objects, cleanup, calls, lane, queue, late, worker, bounds>>

(* The call is given up; its request is still on its way.                  *)
FinalizeDelayed ==
    /\ run.pc = "finalize" /\ Fault
    /\ late' = [late EXCEPT !.finals = @ \cup {run.view.exp}]
    /\ Ended
    /\ UNCHANGED <<server, objects, cleanup, calls, lane, queue, worker, runs>>

LateFinalize(rev) ==
    /\ rev \in late.finals
    /\ late' = [late EXCEPT !.finals = @ \ {rev}]
    /\ FinalizeSession(rev)
    /\ UNCHANGED <<consents, lapsed, objects, cleanup, calls, client, worker, bounds>>

-----------------------------------------------------------------------------
(* A lane: uploadOneFileWithRetry. *)

At(f, l) == run.pc = "upload" /\ lane[f].pc = l
(* The session object the lane uses.                                       *)
Own(f) == IF lane[f].priv = None THEN run.view ELSE lane[f].priv
Move(f, l) == lane' = [lane EXCEPT ![f].pc = l, ![f].ans = None, ![f].got = None]
(* Only the holder of the acceptance lock leaves it.                       *)
Leave == queue' = Tail(queue)
(* The attempts of a file are bounded: any retry may be refused.           *)
RetryOrFail(f, l) == Move(f, l) \/ Move(f, "failed")

(* prepareUpload.  A conflict of the revision or with a cleanup is         *)
(* answered alike.                                                         *)
Prepare(f) ==
    /\ At(f, "prepare")
    /\ LET verdict == PrepareVerdict(f, Own(f).rev)
       IN \/ verdict = "ok" /\ Move(f, "put") /\ UNCHANGED <<queue, faults>>
          \/ verdict = "session_conflict" /\ RetryOrFail(f, "conflict") /\ UNCHANGED <<queue, faults>>
          \/ verdict = "session_expired" /\ Move(f, "failed") /\ UNCHANGED <<queue, faults>>
          \/ /\ verdict = "already_accepted" /\ Move(f, "lookup")
             /\ queue' = Append(queue, f) /\ UNCHANGED faults
          \/ Fault /\ Move(f, "failed") /\ UNCHANGED queue
    /\ UNCHANGED <<server, objects, cleanup, calls, run, late, worker, runs>>

(* The PUT never replaces an object: 409 counts as uploaded.               *)
Stored(f, o) == objects' = IF objects[f] = "absent" THEN [objects EXCEPT ![f] = o] ELSE objects

Put(f) ==
    /\ At(f, "put")
    /\ \/ Stored(f, "good") /\ UNCHANGED faults
       \/ Fault /\ Stored(f, "bad")
    /\ Move(f, "await") /\ queue' = Append(queue, f)
    /\ UNCHANGED <<server, cleanup, calls, run, late, worker, runs>>

(* The PUT fails, or its time is over and it may still arrive.             *)
PutFails(f) ==
    /\ At(f, "put") /\ Fault
    /\ \/ Stored(f, "good") /\ UNCHANGED late
       \/ late' = [late EXCEPT !.puts = @ \cup {f}] /\ UNCHANGED objects
    /\ RetryOrFail(f, "prepare")
    /\ UNCHANGED <<server, cleanup, calls, run, queue, worker, runs>>

LatePut(f) ==
    /\ f \in late.puts
    /\ late' = [late EXCEPT !.puts = @ \ {f}]
    /\ Stored(f, "good")
    /\ UNCHANGED <<server, cleanup, calls, client, worker, bounds>>

(* resumeImportSession after a conflict, without the lock: the lane goes   *)
(* on with a session object of its own.  If the read fails the old object  *)
(* stays.                                                                  *)
ResumeAfterConflict(f) ==
    /\ At(f, "conflict")
    /\ \/ lane' = [lane EXCEPT ![f].pc = "prepare", ![f].priv = View] /\ UNCHANGED faults
       \/ Fault /\ RetryOrFail(f, "prepare")
    /\ UNCHANGED <<server, objects, cleanup, calls, run, queue, late, worker, runs>>

(* Mutant: there is no acceptance lock.                                    *)
NoTurn(f) == TRUE
(* withAcceptanceLock: first come, first served.                           *)
HasTurn(f) == queue # <<>> /\ Head(queue) = f

SendAccept(f) ==
    /\ At(f, "await") /\ HasTurn(f)
    /\ calls' = calls \cup {[file |-> f, rev |-> Own(f).rev, at |-> "prepare", mine |-> TRUE]}
    /\ Move(f, "accept")
    /\ UNCHANGED <<server, objects, cleanup, run, queue, late, worker, bounds>>

(* syncSession copies the answer into the lane's object, and uploadFiles   *)
(* copies that into the shared one, before any other answer is looked at.  *)
Accepted(f, view) ==
    /\ run' = [run EXCEPT !.view = view]
    /\ Move(f, "ok") /\ Leave

ReceiveAccept(f) ==
    /\ At(f, "accept") /\ lane[f].ans # None
    /\ LET ans == lane[f].ans
       IN \/ ans = "ok" /\ Accepted(f, lane[f].got)
          \/ ans = "already_accepted" /\ Move(f, "lookup") /\ UNCHANGED <<run, queue>>
          \/ ans = "session_conflict" /\ RetryOrFail(f, "conflict") /\ Leave /\ UNCHANGED run
          \/ ans = "temporarily_unavailable" /\ RetryOrFail(f, "prepare") /\ Leave /\ UNCHANGED run
          \/ /\ ans \in {"stored_object_conflict", "session_expired", "invalid_request"}
             /\ Move(f, "failed") /\ Leave /\ UNCHANGED run
    /\ UNCHANGED <<server, objects, cleanup, calls, late, worker, bounds>>

(* The call of a lane that no longer waits is cut off, or goes on.         *)
Abandon(fs) ==
    LET left == {c \in calls : c.file \in fs /\ c.mine}
    IN \/ calls' = calls \ left
       \/ calls' = (calls \ left) \cup {[c EXCEPT !.mine = FALSE] : c \in left}

(* The connection breaks or the time is over: the client sends the same    *)
(* call again under the lock, or the lane starts over, or it fails.        *)
AcceptBreaks(f) ==
    /\ At(f, "accept") /\ Fault
    /\ Abandon({f})
    /\ \/ Move(f, "await") /\ UNCHANGED queue
       \/ RetryOrFail(f, "prepare") /\ Leave
    /\ UNCHANGED <<server, objects, cleanup, run, late, worker, runs>>

(* The file was accepted before: read the session again, in turn.          *)
ServeLookup(f) ==
    /\ At(f, "lookup") /\ HasTurn(f) /\ lane[f].ans = None
    /\ lane' = [lane EXCEPT ![f].ans = "ok", ![f].got = View]
    /\ UNCHANGED <<server, objects, cleanup, calls, run, queue, late, worker, bounds>>

ReceiveLookup(f) ==
    /\ At(f, "lookup") /\ lane[f].ans # None
    /\ \/ Accepted(f, lane[f].got) /\ UNCHANGED faults
       \/ Fault /\ RetryOrFail(f, "prepare") /\ Leave /\ UNCHANGED run
    /\ UNCHANGED <<server, objects, cleanup, calls, late, worker, runs>>

(* The process dies, in whatever it waits for.                             *)
CrashRun ==
    /\ run.pc # "idle" /\ Fault
    /\ Ended /\ LanesGone /\ Abandon(Files)
    /\ \E some \in SUBSET {f \in Files : At(f, "put")} :
          late' = [late EXCEPT !.puts = @ \cup some]
    /\ UNCHANGED <<server, objects, cleanup, worker, runs>>

-----------------------------------------------------------------------------
(* The service: the accept operation of executeImportOperation, and the    *)
(* owner. *)

Advance(c, to) == calls' = (calls \ {c}) \cup {[c EXCEPT !.at = to]} /\ UNCHANGED lane
AnswerWith(c, a, view) ==
    /\ calls' = calls \ {c}
    /\ lane' = IF c.mine THEN [lane EXCEPT ![c.file].ans = a, ![c.file].got = view] ELSE lane
Answer(c, error) == AnswerWith(c, error, None)

AcceptPrepares(c) ==
    /\ c.at = "prepare"
    /\ LET verdict == PrepareVerdict(c.file, c.rev)
       IN IF verdict = "ok" THEN Advance(c, "read") ELSE Answer(c, verdict)
    /\ UNCHANGED <<server, objects, cleanup, run, queue, late, worker, bounds>>

(* readStoredObject and the comparison of its bytes.                       *)
AcceptReads(c) ==
    /\ c.at = "read"
    /\ \/ objects[c.file] = "absent" /\ Answer(c, "temporarily_unavailable")
       \/ objects[c.file] = "good" /\ Advance(c, "store")
       \/ objects[c.file] = "bad" /\ Advance(c, "cleanup")
    /\ UNCHANGED <<server, objects, cleanup, run, queue, late, worker, bounds>>

(* enqueueUploadCleanup: a completed job is queued again, any other job    *)
(* stays as it is.  If it fails the conflict is reported all the same.     *)
AcceptCleansUp(c) ==
    /\ c.at = "cleanup"
    /\ \/ /\ cleanup' = IF cleanup[c.file].st \in {"none", "completed"}
                        THEN [cleanup EXCEPT ![c.file] = [NoJob EXCEPT !.st = "queued"]]
                        ELSE cleanup
          /\ UNCHANGED faults
       \/ Fault /\ UNCHANGED cleanup
    /\ Answer(c, "stored_object_conflict")
    /\ UNCHANGED <<server, objects, run, queue, late, worker, runs>>

AcceptStores(c) ==
    /\ c.at = "store"
    /\ LET verdict == AcceptVerdict(c.file, c.rev)
           s == [session EXCEPT !.acc = @ \cup {c.file}, !.rev = @ + 1]
       IN \/ verdict # "ok" /\ Answer(c, verdict) /\ UNCHANGED session
          \/ /\ verdict = "ok" /\ session' = s
             /\ AnswerWith(c, "ok", [st |-> s.st, rev |-> s.rev, acc |-> s.acc, exp |-> 0])
    /\ UNCHANGED <<receipt, consents, lapsed, objects, cleanup, run, queue, late, worker, bounds>>

(* authorize_my_import_cutover: for a session that is complete; after the  *)
(* finalisation, for the revision before it.                               *)
Consent ==
    /\ session.st # "none" /\ session.acc = Files
    /\ session.st = "in_progress" => ~lapsed
    /\ consents' = consents \cup {IF session.st = "verified" THEN session.rev - 1 ELSE session.rev}
    /\ UNCHANGED <<session, receipt, lapsed, objects, cleanup, calls, client, late, worker, bounds>>

ConsentExpires ==
    /\ consents # {} /\ consents' = {}
    /\ UNCHANGED <<session, receipt, lapsed, objects, cleanup, calls, client, late, worker, bounds>>

SessionLapses ==
    /\ session.st # "none" /\ ~lapsed /\ lapsed' = TRUE
    /\ UNCHANGED <<session, receipt, consents, objects, cleanup, calls, client, late, worker, bounds>>

-----------------------------------------------------------------------------
(* The cleanup worker: processImportUploadCleanupOnce. *)

Claimable(f) ==
    \/ cleanup[f].st = "queued"
    \/ cleanup[f].st = "claimed" /\ ~cleanup[f].leased
Exhausted(f) == Claimable(f) /\ cleanup[f].attempts >= MaxAttempts

(* claim_skill_vault_incomplete_upload_cleanup: what has used up its       *)
(* attempts is given up, and one of the others is claimed.  An operator    *)
(* runs the worker by hand: no accept call is still busy with the file.    *)
Claim(w) ==
    /\ worker[w].pc = "idle"
    /\ LET swept == [f \in Files |-> IF Exhausted(f)
                       THEN [cleanup[f] EXCEPT !.st = "dead_lettered", !.token = None, !.leased = FALSE]
                       ELSE cleanup[f]]
           ready == {f \in Files : Claimable(f) /\ ~Exhausted(f)}
       IN \/ /\ ready = {} /\ swept # cleanup
             /\ cleanup' = swept /\ UNCHANGED worker
          \/ \E f \in ready :
                /\ Slow \/ \A c \in calls : c.file # f
                /\ cleanup' = [swept EXCEPT ![f] = [st |-> "claimed", token |-> w, leased |-> TRUE,
                                                    attempts |-> cleanup[f].attempts + 1]]
                /\ worker' = [worker EXCEPT ![w] = [pc |-> "delete", file |-> f]]
    /\ UNCHANGED <<server, objects, calls, client, late, bounds>>

(* The DELETE succeeds, or it fails, done or not.                          *)
Delete(w) ==
    /\ worker[w].pc = "delete"
    /\ \/ /\ objects' = [objects EXCEPT ![worker[w].file] = "absent"]
          /\ worker' = [worker EXCEPT ![w].pc = "complete"] /\ UNCHANGED faults
       \/ /\ Fault /\ worker' = [worker EXCEPT ![w].pc = "fail"]
          /\ objects' \in {objects, [objects EXCEPT ![worker[w].file] = "absent"]}
    /\ UNCHANGED <<server, cleanup, calls, client, late, runs>>

Holds(w) ==
    LET job == cleanup[worker[w].file]
    IN job.st = "claimed" /\ job.token = w /\ job.leased

(* complete_skill_vault_incomplete_upload_cleanup; a claim that was lost   *)
(* is tried to be failed, which is refused as well.  The call may not      *)
(* reach the database.                                                     *)
Complete(w) ==
    /\ worker[w].pc = "complete"
    /\ \/ /\ cleanup' = IF Holds(w) THEN [cleanup EXCEPT ![worker[w].file].st = "completed",
                                                         ![worker[w].file].token = None,
                                                         ![worker[w].file].leased = FALSE]
                        ELSE cleanup
          /\ worker' = [worker EXCEPT ![w] = [pc |-> "idle", file |-> None]]
          /\ UNCHANGED faults
       \/ /\ Fault /\ worker' = [worker EXCEPT ![w].pc = "fail"]
          /\ UNCHANGED cleanup
    /\ UNCHANGED <<server, objects, calls, client, late, runs>>

(* fail_skill_vault_incomplete_upload_cleanup.                             *)
Fail(w) ==
    /\ worker[w].pc = "fail"
    /\ LET job == cleanup[worker[w].file]
           st == IF job.attempts >= MaxAttempts THEN "dead_lettered" ELSE "queued"
       IN IF Holds(w)
          THEN cleanup' = [cleanup EXCEPT ![worker[w].file] =
                             [job EXCEPT !.st = st, !.token = None, !.leased = FALSE]]
          ELSE UNCHANGED cleanup
    /\ worker' = [worker EXCEPT ![w] = [pc |-> "idle", file |-> None]]
    /\ UNCHANGED <<server, objects, calls, client, late, bounds>>

CrashWorker(w) ==
    /\ worker[w].pc # "idle" /\ Fault
    /\ worker' = [worker EXCEPT ![w] = [pc |-> "idle", file |-> None]]
    /\ UNCHANGED <<server, objects, cleanup, calls, client, late, runs>>

(* Sixty seconds after the claim; the DELETE is given up after fifteen.    *)
LeaseExpires(f) ==
    /\ cleanup[f].st = "claimed" /\ cleanup[f].leased
    /\ Slow \/ worker[cleanup[f].token] # [pc |-> "delete", file |-> f]
    /\ cleanup' = [cleanup EXCEPT ![f].leased = FALSE]
    /\ UNCHANGED <<server, objects, calls, client, late, worker, bounds>>

-----------------------------------------------------------------------------
Lane(f) ==
    \/ Prepare(f) \/ Put(f) \/ PutFails(f) \/ ResumeAfterConflict(f)
    \/ SendAccept(f) \/ ReceiveAccept(f) \/ AcceptBreaks(f)
    \/ ServeLookup(f) \/ ReceiveLookup(f)

Handle(c) == AcceptPrepares(c) \/ AcceptReads(c) \/ AcceptCleansUp(c) \/ AcceptStores(c)

Work(w) == Claim(w) \/ Delete(w) \/ Complete(w) \/ Fail(w) \/ CrashWorker(w)

Next ==
    \/ StartRun \/ Begin \/ ListReceipts \/ UploadEnds \/ Finalize \/ FinalizeDelayed
    \/ CrashRun
    \/ \E f \in Files : Lane(f) \/ LatePut(f) \/ LeaseExpires(f)
    \/ \E rev \in late.finals : LateFinalize(rev)
    \/ \E c \in calls : Handle(c)
    \/ Consent \/ ConsentExpires \/ SessionLapses
    \/ \E w \in Workers : Work(w)

Spec == Init /\ [][Next]_vars

-----------------------------------------------------------------------------
(* Properties. *)

(* The bucket keeps what was accepted: no cleanup job, queued before the   *)
(* file was uploaded again, retried after a worker died or taken over when *)
(* a lease ran out, deletes the object of an accepted file.                *)
AcceptedFilesStored == \A f \in session.acc : objects[f] = "good"

(* However the lanes' answers interleave, with conflicts, private sessions *)
(* and accepts whose answer was lost, no lane takes the shared session     *)
(* back behind a file that has been accepted: an upload that reached       *)
(* parity is recognised as complete.                                       *)
UploadRecognised ==
    run.pc = "upload" =>
        \A f \in Files : lane[f].pc \in {"ok", "skipped"} => f \in run.view.acc

(* Once the session is verified, every finalisation still to come, of the  *)
(* run that sent it, of a later run or from a delayed request, is answered *)
(* with the stored result and not refused as another request.              *)
FinalizeAnswersAgree ==
    session.st = "verified" =>
        \A rev \in late.finals \cup {run.view.exp : r \in {run.pc} \cap {"finalize"}} :
            FinalizeVerdict(rev) = "ok"
=============================================================================
