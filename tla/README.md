# Skillmap: a verification project

TLA+ models of the parts of Skillmap that keep state and are reached by several
processes at once, on disk, in the Keychain or at the hosted service, checked
with TLC on small instances and, but for liveness, proved with TLAPS for every
value of their constants under hypotheses that section 4 lists. Paths below are
relative to the repository root.

## 1. The system

Skillmap keeps an inventory of agent skills in a workspace directory
(`.skillmap/`). Commands, a dashboard connector with a job runner, and a routing
reader share that directory; there is no daemon, so every guarantee is made of
file operations: `mkdir`, `O_EXCL`, `rename`, `fsync`. A machine may also be
signed in to the hosted service and import skills into it; there the guarantees
are made of idempotency keys, revisions and database transactions.

| Component | State | Operations | Talks to |
| --- | --- | --- | --- |
| Writer lock (`src/core/workspace-state/lock.ts`) | lock directory, `owner.json`, fence file | acquire, reclaim, assertHeld, release | every writer |
| State store (`src/core/workspace-state/`) | immutable revisions, current and last-known-good (LKG) pointers, migration marker, approval receipts, legacy projections | migrate, publish, rollback, recover, repair, read | lock, CLI, jobs, routing |
| CLI (`src/cli.ts`, `src/commands/state.ts`) | none of its own | mutating-command wrapper, state subcommands | store |
| Job ledger (`src/core/jobs.ts`) | idempotency anchors, records, cancellations, execution claims, ledger lock | create, admit and evict, transition, cancel, claim, list | connector |
| Job service (`src/server/skillmap-backend.ts`, `src/commands/dashboard.ts`) | job tail, resumption list, abort controllers | create, run, cancel, resume, close | ledger, store |
| Quarantine (`src/core/quarantine-*.ts`) | intent and receipt records, the moved object | preflight, execute, restore | the filesystem, hosted authority |
| Route events (`src/core/route-events.ts`) | append-only event files | record, list, feedback | connector |
| Filesystem freshness (`src/server/filesystem-freshness.ts`) | watcher generations | observe, compare | connector |
| Device authorization (`src/services/device-auth-use-case.ts`, `src/network/device-auth-client.ts`, `src/platform/`) | credential record, pending refresh, device id and key in the Keychain | sign in, refresh, status, logout, retire | hosted service |
| Managed import (`src/services/managed-import-use-case.ts`, `src/network/import-*.ts`) | checkpoint, session object in memory | begin, upload, resume, accept, finalise | hosted service, bucket |
| Routing, policy, identity, doctor, evaluation, inventory (`src/core/`) | none: functions of one revision | compute | store |
| Hosted service (`apps/`, `supabase/`) | SQL tables: token families, refresh receipts, import sessions, consents, cleanup jobs, the bucket | pair, rotate, revoke, accept, finalise, claim lease | client, worker, web |

What is hard about it: processes that die between two file operations; locks and
claims of dead processes, reclaimed by inspecting and then renaming; two
pointers and two receipts that have to change together and cannot; readers that
take no lock; a cancellation that races a publication; restarts that must
find out what had been done; answers that are lost after the service acted on
the question; and requests that arrive when their sender has moved on.
`PROJECT.json` lists each of these hazards at its line, with the properties that
would catch it.

What makes each part correct, in one sentence: the lock admits one writer and
never loses an update; a pointer never names an incomplete or unapproved
revision, whatever crashed; a job's record agrees with what was published, and a
cancelled job publishes nothing; a quarantine receipt names the object that was
approved and really moved; an honest machine is never taken for a thief of its
own token; and a file that was accepted stays in the bucket, while an import
that was finalised is reported as such however often it is asked.

## 2. Modules

| Module | Models | Run by |
| --- | --- | --- |
| `WorkspaceLock` | lock.ts and the pointer swap it guards | `MCWorkspaceLock` |
| `WorkspaceLockProofs` | theorems about `WorkspaceLock` | tlapm |
| `OneWriter` | what the lock promises: a register with one writer at a time | refined by `WorkspaceLock` and `WorkspaceStore` |
| `WorkspaceStore` | workspace-state/ and the command wrapper of cli.ts | `MCWorkspaceStore` |
| `WorkspaceStoreProofs` | theorems about `WorkspaceStore` | tlapm |
| `JobLedger` | jobs.ts and the job part of skillmap-backend.ts | `MCJobLedger` |
| `JobLedgerProofs` | theorems about `JobLedger` | tlapm |
| `JobOutcomeProofs` | the outcome that a single connector records, on top of those | tlapm |
| `Quarantine` | quarantine-*.ts and the native mover | `MCQuarantine` |
| `QuarantineProofs` | theorems about `Quarantine` | tlapm |
| `DeviceAuth` | processes, Keychain envelope, client and service of device authorization | `MCDeviceAuth` |
| `DeviceAuthProofs` | theorems about `DeviceAuth` | tlapm |
| `ManagedImport` | one import: run, lanes, service, bucket and cleanup worker | `MCManagedImport` |
| `ManagedImportProofs` | theorems about `ManagedImport` | tlapm |

Operators whose comment begins with "Mutant" are plausible wrong versions of the
definition that follows them. No specification uses them; each shows that a
property notices that mistake.

### WorkspaceLock

One action per filesystem call. `dir`, `owner` and `fence` are the lock
directory, `owner.json` and the fence file; `current` is the current pointer,
with its parent and sequence; `pc`, `attempt`, `tok`, `base` are each process's
place, loop counter, token and the revision it read. `owner` may be absent or
`Torn`: `mkdir` and the write of the record are separate steps, and a crash
may fall inside the write. A process that dies keeps its lock; `LeaseExpires`
makes any lease run out at any time, as the code compares wall-clock times.

`PromptOwners` says that a live process writes its owner record before its lease
runs out (30 s). With it TRUE, only locks of dead processes are ever taken for
abandoned, since `pidIsAlive` protects the others. With it FALSE, a process may
stall between `mkdir` and `owner.json` and lose its lock while alive. Process ids
are not reused, and all processes are on one host: a lock of another host is
never reclaimed by the code.

`OneWriter` states the promise without files: `Enter`, `Write`, `Leave`. The
refinement maps the writers inside to the processes that hold the lock and are
alive, and the register to the current pointer. `WorkspaceStore` implements it
too, up to recoveries (section 4): that is how the two modules fit together.

### WorkspaceStore

The lock is abstract (one holder, a new token each), the holder's durable writes
are separate steps, and `w` records how far it has come. Contents are abstracted
to what the checks distinguish: `canon` (routing-critical canonical and raw
artifacts), `notes` (canonical, not critical) and `eff`, the effective registry,
named by what it was computed from. Digests are the contents themselves.

The operations are those of `Ops`: `migrate`, `cli` (the command wrapper),
`import` (a legacy snapshot against an expected revision), `prepared` (a job's
snapshot), `rollback`, `recover` and `repair`. Each acquires, checks, builds
artifacts, writes the manifest, verifies, and swaps pointers and receipts one at
a time. The environment crashes the holder between any two steps, damages a
revision (`derived` or `raw`: which artifact fails its digest), and edits
projections. A routing reader reads pointer, revision, approval and projections
in four steps without the lock. `everLkg` and `blessed` are history variables.

Left out: history pages (read only); the projection index, which adds warnings
and decides nothing.

### JobLedger

Each connector process has four tasks: the create and cancel handlers, the
serial runner and the resumption that precedes serving. The ledger is `anchors`,
`rec`, `cancel` and `claim`; `log` is the sequence of authors of published
revisions, so "published" is what the store's history says. A step is one ledger
lock section or one access outside it; sections that write more than one file
(creation, eviction) are split, so that a crash can fall between the writes.

Abstractions: the ledger and workspace locks are mutual exclusion here, and a
call gives up (`LedgerBusy`) when the ledger lock's owner is dead or slow;
`completedAt` is a wall-clock time, so eviction may choose any terminal job; a
claim that stays malformed through the third attempt is a claim not obtained; a
recovery that drops history is not combined with jobs. Two constants switch
faults on: `TornWrites` (a crash leaves a job record that does not parse; torn
anchors and cancellation markers are not modelled) and `LookupMayFail`
(`findPublishedMutation` throws).

### Quarantine

One step is one `lstat`, tree digest, record access or rename. `at` is what lies
at the original place and at each destination; `intent` and `receipt` are the
records of the two operations, each absent, torn or complete with its time;
`call` is each concurrent call, with what it has seen so far. An object is its
inode, the digest of its tree and whether size, mode and times are still those
first seen. `Abort` ends a call at any step, for a crash or a failing call alike;
`Edit` replaces or changes the files; `AuthorityEnds` ends the parity approval,
the restore window or the hosted authority at any time.

Abstractions: failures are not told apart except for the conflict that leads to
recovery; the checks of the quarantine root are part of `Abort`; the ten
rereads of `readRecordAfterExclusiveConflict` may give up at any time; receipts of
version 1 are left out; `inTime` samples the authority once, as the code takes
`now` once.

### DeviceAuth

`cred`, `pending`, `meta` and `key` are the four things the Keychain holds; `proc`
is each process with its command and what it has in memory; `fams`, `binds`,
`retired`, `rcpts` and `acked` are tables of the service. Generations stand for
tokens: the token of generation n of a family is valid while the family is at n.
A step is one Keychain operation, one transaction or one event of the network.
A call may be lost before or after it is served (`Break`), sent again by the
client, or arrive when its sender has given up (`stray`). `singleShot` is the
refresh mode of the service, chosen when it first matters.

Abstractions: the poll of a pairing is one step and may be refused; cancelling a
pairing, key rotation and account deletion are left out; a refresh key, random
in the code, is named by its process, family and generation. Init is a machine
that has signed in.

### ManagedImport

`session`, `receipt`, `consents` and `cleanup` are rows of the database, `objects`
is the bucket, `calls` the accept calls that the service is handling, `run` the
command with the session object its lanes share, `lane` each file's upload, and
`queue` the acceptance lock. An accept is four steps of the service (prepare,
read the object, queue its cleanup, store the receipt), each a transaction or an
access of its own, so that other calls and the worker fall between them.
`late` holds PUTs and finalisations that arrive after they were given up.

`Slow` FALSE is what the timeouts intend: no accept call still runs when a worker
claims its file (an operator starts the worker by hand), and a DELETE, given up
after fifteen seconds, ends within the lease of sixty.

Abstractions: one run at a time, of one checkpoint, with no more files than the
uploader's concurrency; the number of retries is a free choice to give up; the
two receipt listings are one step, and so are the two ways to look up an
accepted file; objects are absent, good or bad; a policy conflict (same steps as
bad bytes, another reason) and the expire operation are left out. A lane that
waits for the lock reads the shared revision when its turn comes; a lane with a
private session keeps that. Such a lane copies its answer into the shared object
just after it leaves the lock, and the next one may read the revision before the
copy; the model copies first, and the difference is one more conflict and retry.

## 3. Runs

| Run | States | What it shows |
| --- | --- | --- |
| `lock_crash` | 36 964 | two writers, two calls each, a crash at any call: exclusion, no lost update, fence monotone, no orphaned live lock, the one-writer register implemented |
| `lock_stalled` | 9 782 | owners that stall and one crash: every call returns, an abandoned lock is taken over |
| `lock_two_reclaimers` | violated | two reclaimers of one dead owner lose a publication |
| `store_crash` | 4 486 758 | all operations, one crash (torn receipts included), one damaged revision, three tokens |
| `store_read` | 3 214 872 | a routing read among publications, approvals, damage and recovery |
| `store_migrate` | 408 874 | an interrupted migration is resumed; edits of projections |
| `job_crash` | 898 757 | two connectors, one stop, torn records, failing lookups: cancelled jobs publish nothing, terminal is final |
| `job_restart` | 33 716 | one connector stopping twice, another writer: record agrees with history, every job settles |
| `job_evict` | 420 863 | a full ledger, three jobs, a crash inside eviction: bound, no orphans |
| `quarantine` | 4 806 347 | two callers, one abort, one edit, authorities that end: receipts tell the truth, callers agree, nothing is overwritten, late calls move nothing |
| `device_auth` | 3 389 992 | two processes, three commands, two sign-ins, one fault, both refresh modes: no false reuse alarm, a lost answer can be asked for again, no rollback, no logout on a guess |
| `import` | 2 255 192 | two files, two workers, three runs, three faults: accepted files stay, parity is recognised, finalisations agree |

**Why the bounds suffice.** Lock: two processes and one crash give every pair of
places; a third process only adds a second reclaimer, which is the violation
run, and the theorems cover any number of processes that crash at any call, as
long as no two of them reclaim at once. Store:
three tokens are an approved revision, a successor and an operation on top of an
interrupted one; rollback needs two, recovery three. One crash and one damaged
revision can fall anywhere, in either order. Jobs: one key is enough for the life of a job;
eviction needs a second key, a ledger of one entry and a third job to come after
a crash. Quarantine: two callers give every race of identical or opposite calls,
and one edit and one abort can fall anywhere; a second destination only repeats
the first. DeviceAuth: three commands are a refresh, another one that overtakes
it and a third that finds what they left; two sign-ins give an old and a new
family, two generations each an answer to lose and one to overtake it. Import:
two files are enough for lanes to race and conflict; three faults are a
damaged upload, a failed cleanup and a lost answer; a third run can follow
both. Symmetry is used for processes and contents in runs without liveness
properties only. `CHECK_DEADLOCK FALSE` is set because the bounds let every
behaviour come to an end; a command-line program may also stop.

**Fairness.** `lock_stalled`: a live process goes on with its own call, and a
lease that is not renewed runs out. Nothing forces a call to start or a process
to crash. `store_migrate`: the holder of the lock goes on. `job_restart`: a task
that can go on does (the event loop), abandoned locks are reclaimed, and a
connector that stopped is started again by its operator; requests,
cancellations, crashes and shutdowns need not happen.

**Finding.** `lock_two_reclaimers` is about sentences in the repository that the
code does not keep; `PROJECT.json` quotes them.

**Observations.** Behaviours met while modelling. The models include them, and
the properties are stated so that they do not hide them.

- *Store.* A half-written approval receipt is never repaired: the exclusive
  create finds it and the revision cannot become last-known-good
  (`workspace-state/index.ts:566`).
- *Jobs.* Eviction of a cancelled job that is cut short leaves an anchor, from
  which `ensureJobRecord` makes the job queued again, without its cancellation
  (`jobs.ts:570`). An error of `findPublishedMutation` counts as "not published",
  so a published job can be recorded as failed (`skillmap-backend.ts:1532`).
  `claimJobExecution` renames what it inspected earlier, so with two connectors
  and a dead owner a live claim can be moved away (`jobs.ts:447-458`): two runners
  both see the dead claim, one of them quarantines it and claims the job, the
  other renames the new claim away and claims it too. The first moves the record
  to running and goes on to publish; the second's transition is refused, it looks
  for a publication, finds none yet, and records "failed". One crash, that of the
  first owner, is enough. The comment at `jobs.ts:359-360` expects otherwise.
  `job_crash` includes such steps, and `OutcomeMatchesPublication`, which they
  break, is checked and proved for one connector. A
  record cut short by a crash stops every later listing (`jobs.ts:738`), so
  `JobsSettle` is checked without torn writes.
- *Quarantine.* The authority is checked before the receipt is read, so a retry
  after its end cannot learn that its move was done. A caller that stalls across
  a restore may move the restored object into quarantine again.
- *Device authorization.* Two concurrent `status` commands: the second one's
  refresh outdates the first one's token, and the invalid_token that follows
  deletes the credentials of a live device (`device-auth-use-case.ts:609`).
  The nested refresh for a token near its expiry drops `preserveOnAuthFailure`
  (line 378), so a logout that was never confirmed may delete them too, although
  a comment says "Unconfirmed logout paths never reach this cleanup.".
  `markRefreshPending` compares generations and not families. If the metadata
  cannot be deleted and the key can, the next sign-in is refused for the old
  device id. In single-shot mode the loser of two refreshes retires credentials
  that are live.
- *Import.* With `Slow` TRUE an accepted object can be deleted: the enqueue does
  not look for a receipt, and the bucket does not know the lease
  (`import-service.server.ts:346`). A cleanup job that is dead-lettered keeps its
  file from being uploaded for ever. The revision is compared before the receipt,
  so an accept whose answer was lost is first a `session_conflict` and is found by
  resuming; a lane may spend its retries on such conflicts without backoff. Two
  concurrent runs of one checkpoint may finalise at different revisions, and one
  is then refused although the session is verified.

## 4. Proofs

Every invariant and action property of a run is also a theorem, for every value
of the constants that its hypotheses admit. Each theorem rests on an invariant
that is inductive; each of these was first checked with TLC as an invariant, with
the bounds of section 3 or larger ones (lock 945 972 states with two crashes and
three acquisitions, store 7 171 677, job outcomes 987 992 with one connector and,
for the part about two, 2 569 532, quarantine 11 227 638, device authorization
3 389 992 and, with two commands and two faults, 2 705 028). The proof that a step
preserves it has one lemma per action, and frame lemmas for what most actions
leave alone.

The assumptions on constants are named in the modules: bounds are natural numbers
(positive where the code's are), and `None`, `Free`, `Dead` and `Torn` are none of
the values they stand beside. Some theorems need a hypothesis about the world. Each
is stated in the theorems that need it, and each is necessary:

- `PromptOwners` and `[]OneReclaimer` (lock: a live creator writes `owner.json`
  within the lease, and no two processes are between finding a stale lock and
  renaming it). Without the first a live process can lose its lock; without the
  second `lock_two_reclaimers` shows a lost publication. `OneReclaimer` is a
  condition on behaviours and not on constants. Where at most two processes
  contend, or none dies (`Calm`), it is itself a theorem.
- `Room` (jobs: the ledger has an entry for every key). Otherwise an eviction
  frees a key and its job can be created again, with a new outcome.
- `Alone` and `~LookupMayFail` (jobs, for `OutcomesExact` only: one connector, whose
  `findPublishedMutation` does not throw). Section 3 says what happens with two,
  and after a lookup that throws.
- `~Slow` (import: no accept call or DELETE outlasts its lease). With `Slow` an
  accepted object can be deleted.
- `[][~RecoveryPublished]_vars` (store, for `StoreImplementsRegister` only: no
  recovery publishes). A recovery continues the last approved revision and not
  the damaged one that it replaces; `HistoryGrows` says what it may do.

**WorkspaceLockProofs.** `TypeCorrect` holds with crashes and stalls. With any
number of processes and crashes, under the two hypotheses: `Exclusion`
(`MutualExclusion`), `UpdatesKept` (`NoLostUpdate`), `LocksReturned`
(`NoOrphanedLiveLock`), `FenceGrows` (`FenceMonotone`) and `LockImplementsRegister`
(`ImplementsRegister`: the lock implements `OneWriter`, and a writer that dies has
left). `ReclaimersAlone` discharges the second hypothesis under `Calm`, and
`CalmLockIsSafe` states all five there: this covers `lock_crash` and every run of two
processes. `LockInv` adds to the type invariant: `Budget` (a process in the
acquisition loop still has an attempt to spend), `Exclusive` (at most one live
process is inside, counting those that have made the directory and not yet written
the owner record, and the directory is that process's or a dead one's),
`StaleFound` (a lock that a process has found stale still is, and nobody works
under it), `OwnerMatches` (the owner record is that of the process inside, once it
has written it, and a live owner is inside) and `FenceMatches` (its token is the
fence and exceeds the published sequence, and the revision it read is current until
it commits). `StaleFound` is the heart: the rename goes by what the inspection saw,
so it must stay true until then. It does unless another reclaimer frees the
directory in between and a third process takes it, which is why one reclaimer at a
time is enough and why, with two processes of which one is dead, there is no
second. For the refinement, `WritersFollow` says how each action changes the set of
holders, and `RegisterStep` maps every action to `Enter`, `Write`, `Leave` or a
stutter.

**WorkspaceStoreProofs.** `PointersReachComplete`, `ApprovalsHaveProvenance`,
`ApprovalsStay`, `ReceiptsAreEarned`, `CommandsPublishTheirs`,
`ReadersServeApproved`, `HistoryGrows` and `TypeCorrect`, with any number of
crashes, damaged revisions and edits. `StoreInv` has a part about the disk
(`DiskInv`: revisions are complete once a pointer or a child names them, parents
are older, the receipts are those of revisions that were last-known-good), a part
about the holder of the lock (`HoldInv`: for each place, what it has written
already and what its snapshot was compared with), one about history (`PastInv`)
and one about the reader (`ReaderInv`: what it has read was true when it read it,
and revisions do not change). The walk over parents is a recursive function,
`Chain`; that everything on it is complete is proved by the least revision for
which it would fail (`LeastElement`), since parents are older.
`StoreImplementsRegister` maps the holder, by its token, to the writer inside and
the current pointer to the register: without recoveries every step is one of
`OneWriter`. `WorkspaceStore` takes the lock for granted; this theorem and
`LockImplementsRegister` say that what it takes and what `WorkspaceLock` gives are
the same promise.

**JobLedgerProofs.** `TypeCorrect`, `NoOrphans` (`NoExecutableOrphans`),
`WithinBound` (`LedgerBound`) hold with any crashes. Under `Room`: `TerminalStays`
(`TerminalIsFinal`), `CancellationExcludesPublication`
(`CancelledNeverPublishes`) and `OutcomesTrue`, by which a record says "succeeded"
only of a published job and "cancelled" only of one that is not. `LedgerInv` says
who is inside the ledger lock and how far a creation or an eviction has come
(admission counts entries long before the anchor is written, so the bound needs
it); `KeysInv` and `SettledInv` that a settled job has no creation under way;
`WriterInv` and `OutcomeInv` what a task in the workspace lock has already
excluded.

**JobOutcomeProofs.** `RunsApartFromResumption`: what a connector runs, or has on its
tail, is never what its own resumption is deciding about, for any number of
connectors and crashes. `ApartInv` carries it: handlers create nothing before the
resumption is done, and each job to resume is listed once. From it `OutcomesExact`
(`OutcomeMatchesPublication`), under `Room`, `Alone` and `~LookupMayFail`. The half that
`OutcomesTrue` leaves open is that "failed" is said only of a job that is not
published, now and later. `FailureInv` says that a task about to record a failure
has looked and found nothing, and that a task on its way to publish has a record
that has not failed. A step can break it only where one task publishes the job that
another is failing; with one connector the first is the runner and the second the
resumption, which are apart (`NotBoth`).

**QuarantineProofs.** `ReceiptsAreFaithful`, `IdenticalCallsAgree`,
`MovesAreIntended`, `LateCallsAreHarmless`, `NothingIsOverwritten` and
`TypeCorrect`, for any number of calls, edits and interruptions. `WorldInv` says
that objects that were never seen are new and that what moved left a trace,
`RecordInv` what a complete record implies, `WriterInv` that at most one call is
about to write each record, and `CallInv` what each call knows at its place: this
is where the stale reads of the preflight are tied to what is still true.

**DeviceAuthProofs.** `NoFalseAlarm` (`NoFalseReuse`), `LostAnswersRecoverable`,
`AnswersAreSealed`, `LogoutIsConfirmed`, `CredentialsMoveOn` (`NeverRolledBack`)
and `TypeCorrect`, for any number of processes, sign-ins, generations and faults.
The invariant follows every request to wherever it may still be: `Loaded(f, g)`
says that a record of family `f` and generation `g` was once in the Keychain, so
the Keychain has not gone back behind it and nobody is pairing into `f`;
`Claim(f, g, k)` that `k` was once pending for it: it still is, or its receipt is
there, or the Keychain has left the family. Every refresh in memory, in flight or
stray carries a claim (`MsgInv`, `MemoryInv`), and that is why a token that is
behind is always found by its receipt and never taken for a stolen one. A context
that was read lies between the generation asked for and that of the family; when
the transaction finds the token current, all three are the same, which is what
seals the answer for its generation. `AckInv` says that the receipt of a
revocation answers only the call that earned it.

**ManagedImportProofs.** `UploadIsRecognised` (`UploadRecognised`),
`FinalizationsAgree` (`FinalizeAnswersAgree`) and `TypeCorrect` hold for any files,
workers and faults, `AcceptedFilesStay` (`AcceptedFilesStored`) under `~Slow`. The
invariant has `LockInv` (the acceptance lock and its queue), `SessionInv` (rows of
the service), `ViewInv` (what the run and each lane know of the session is a past
of it), `IdleInv`, and `BucketInv` (where a file is accepted, its object is good
and no cleanup of it can still delete).

**Only model-checked.** All liveness (`CallsReturn`, `AbandonedLockReclaimed`,
`MigrationResumes`, `JobsSettle`), which needs fairness and `ENABLED`. Beyond the
hypotheses above there is nothing left to prove: the lock with two concurrent
reclaimers, and `OutcomeMatchesPublication` with two connectors, are false of the
code.

## 5. Not modelled

Routing, policy, identity, inventory, doctor, evaluation and import analysis are
functions of one revision's text and keep no state; they parse, score and format,
which is the bulk of `src/core/`. The HTTP connector and the MCP server hand
requests on. The Keychain helper's protocol is I/O. Of the hosted service, the
procedures behind device authorization and managed import are modelled; the
submission queue, the audit library and the pages are not. `PROJECT.json` gives
the reason for each component.

The models stand for a small share of the repository's lines, and most of the
rest is not there to be modelled: close to half of the implementation files'
lines are generated (schema bundles, validators, database types) or operating
scripts and browser tests, a large part is validation and formatting, and the
SQL, which holds the service's real state machines, is modelled but is not
counted as implementation.

## 6. Plan

1. Filesystem freshness: a scan is never called fresh over a change it did not
   see. Route events: an appended event is read back once.
2. The hosted worker's submission queue, whose claim, lease and dead letter are
   those of the cleanup queue with more outcomes.
3. A recovery in the abstract register, as a write that continues an earlier
   revision, so that the store implements it with every operation.
