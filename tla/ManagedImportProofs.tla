------------------------ MODULE ManagedImportProofs ------------------------
(***************************************************************************)
(* What a managed import guarantees for every set of files and of cleanup  *)
(* workers, and for every number of runs, faults and attempts.             *)
(***************************************************************************)
EXTENDS ManagedImport, TLAPS

(* The acceptance lock: a lane with an answer has its turn, and a call     *)
(* that somebody waits for is the only one of its lane.                    *)
Turn(f) ==
    lane[f].ans # None \/ lane[f].got # None =>
        /\ run.pc = "upload" /\ lane[f].pc \in {"accept", "lookup"}
        /\ queue # <<>> /\ Head(queue) = f
        /\ lane[f].ans = "ok" => lane[f].got # None
        /\ lane[f].pc = "lookup" => lane[f].ans = "ok"
Awaited(c) ==
    c.mine => run.pc = "upload" /\ lane[c.file].pc = "accept" /\ lane[c.file].ans = None
LockInv ==
    /\ \A f \in Files : Turn(f)
    /\ \A c \in calls : Awaited(c)
    /\ \A c, d \in calls : c.mine /\ d.mine /\ c.file = d.file => c = d

(* The revision at which the session is, or was, complete.                 *)
LastRevision == IF session.st = "verified" THEN receipt ELSE session.rev

SessionInv ==
    /\ session.st = "none" => session.acc = {}
    /\ session.st # "none" => session.rev >= 1
    /\ session.st = "verified" <=> receipt # 0
    /\ session.st = "verified" => session.rev = receipt + 1

(* What a client was told about the session is still a part of it.         *)
Past(v) ==
    /\ v.acc \subseteq session.acc /\ v.rev <= session.rev
    /\ v.rev = session.rev => v.acc = session.acc
    /\ v.acc = Files => v.rev = LastRevision

(* An answer contains the file it is about, and is at least as recent as   *)
(* the session object the lanes share.                                     *)
Answered(f) ==
    /\ lane[f].pc = "lookup" \/ lane[f].ans = "already_accepted" => f \in session.acc
    /\ lane[f].got # None => /\ Past(lane[f].got) /\ f \in lane[f].got.acc
                             /\ run.view.acc \subseteq lane[f].got.acc

(* Once a finalisation has been asked for, nothing is left to upload.      *)
Settling == late.finals # {} \/ session.st = "verified"

ViewInv ==
    /\ run.pc \in {"receipts", "upload"} => Past(run.view)
    /\ \A f \in Files : Answered(f)
    /\ run.pc = "finalize" => session.acc = Files /\ run.view.exp = LastRevision
    /\ \A rev \in late.finals : rev = LastRevision
    /\ Settling => /\ session.acc = Files
                   /\ run.pc \in {"receipts", "upload"} => run.view.acc = Files
                   /\ run.pc = "upload" => \A f \in Files : lane[f].pc = "skipped"

(* The bucket under the cleanup workers, while no call outlasts a cleanup: *)
(* an accepted file has a good object and no cleanup; a call past the      *)
(* comparison saw what the bucket still has; a claimed file has only calls *)
(* that have not begun; and who is about to delete holds the claim.        *)
Kept == \A f \in session.acc : objects[f] = "good" /\ ~CleanupActive(f)
Compared ==
    \A c \in calls : /\ c.at = "store" => objects[c.file] = "good"
                     /\ c.at = "cleanup" => objects[c.file] = "bad"
Alone ==
    \A f \in Files : cleanup[f].st = "claimed" =>
        \A c \in calls : c.file = f => c.at = "prepare"
Deleting ==
    \A w \in Workers : worker[w].pc = "delete" => Holds(w)
BucketInv == Kept /\ Compared /\ Alone /\ Deleting

-----------------------------------------------------------------------------
(* The type invariant in parts, with what it takes to keep them. *)
ServerType ==
    /\ session \in [st : {"none", "in_progress", "verified"}, rev : Nat, acc : SUBSET Files]
    /\ receipt \in Nat /\ consents \subseteq Nat /\ lapsed \in BOOLEAN
BucketType ==
    /\ objects \in [Files -> {"absent", "good", "bad"}]
    /\ cleanup \in [Files -> Jobs]
    /\ \A f \in Files : (cleanup[f].st = "claimed") = (cleanup[f].token # None)
CallType == calls \subseteq Calls
ClientType ==
    /\ run \in [pc : RunPcs, view : Views]
    /\ lane \in [Files -> Lanes] /\ queue \in Seq(Files)
    /\ \A f \in Files : lane[f].pc = "accept" => queue # <<>> /\ f = Head(queue)
LateType == late \in [puts : SUBSET Files, finals : SUBSET Nat]
WorkerType ==
    /\ worker \in [Workers -> [pc : {"idle", "delete", "complete", "fail"}, file : Files \cup {None}]]
    /\ \A w \in Workers : worker[w].pc # "idle" => worker[w].file \in Files
BoundType == runs \in 0..MaxRuns /\ faults \in 0..MaxFaults

TypeInv ==
    /\ ServerType /\ BucketType /\ CallType /\ ClientType /\ LateType /\ WorkerType /\ BoundType
    /\ SessionInv /\ LockInv

(* The named parts of the type invariant give TypeOK. *)
LEMMA TypeParts == TypeInv => TypeOK
  BY DEF TypeInv, TypeOK, ServerType, BucketType, CallType, ClientType, LateType, WorkerType,
     BoundType

(* A lane moves, and forgets the answer it had. *)
LEMMA Moving ==
    ASSUME ClientType, NEW f \in Files, NEW l \in LanePcs, Move(f, l)
    PROVE  /\ lane' \in [Files -> Lanes]
           /\ lane'[f].pc = l /\ lane'[f].ans = None /\ lane'[f].got = None
           /\ \A g \in Files \ {f} : lane'[g] = lane[g]
  BY DEF ClientType, Lanes, Move

(* The holder of the acceptance lock is the only one. *)
LEMMA OneTurn ==
    ASSUME ClientType, LockInv, NEW f \in Files, NEW g \in Files, g # f,
           queue # <<>>, Head(queue) = f
    PROVE  lane[g].pc # "accept" /\ lane[g].ans = None /\ lane[g].got = None
  BY DEF ClientType, LockInv, Turn

(* Faults are counted. *)
LEMMA Faulting ==
    ASSUME BoundType, UNCHANGED runs, Fault \/ UNCHANGED faults PROVE BoundType'
  BY ImportAssumption DEF BoundType, Fault

(* What the server shows of a session has the shape that clients expect. *)
LEMMA ViewTyped == ASSUME ServerType PROVE View \in Views
  BY DEF ServerType, View, Views

(* A step that leaves the lock and the calls alone. *)
LEMMA LockFrame ==
    ASSUME LockInv, UNCHANGED <<lane, queue, calls>>, run'.pc = run.pc PROVE LockInv'
  BY DEF LockInv, Turn, Awaited

(* A step outside the upload finds, and leaves, the lanes without answers. *)
LEMMA LanesQuiet ==
    ASSUME TypeInv, UNCHANGED calls, run.pc # "upload",
           \A f \in Files : lane'[f].ans = None /\ lane'[f].got = None
    PROVE  LockInv'
<1>1. \A c \in calls : ~c.mine
  BY DEF TypeInv, LockInv, Awaited
<1> QED
  BY <1>1 DEF LockInv, Turn, Awaited

-----------------------------------------------------------------------------
(* Every step keeps the types: the run, *)
LEMMA NoLaneTyped == NoLane \in Lanes /\ NoView \in Views
  BY ImportAssumption DEF NoLane, Lanes, LanePcs, NoView, Views

(* The run is over, or it fails. *)
LEMMA Ending ==
    ASSUME Ended
    PROVE  run' \in [pc : RunPcs, view : Views] /\ run'.pc = "idle" /\ run'.view = NoView
  BY NoLaneTyped DEF Ended, RunPcs

(* A run of the connector starts. *)
LEMMA TypeStartRun == ASSUME TypeInv, StartRun PROVE TypeInv'
<1> USE DEF StartRun, TypeInv, server, client, bounds
<1>1. ServerType' /\ SessionInv' /\ BucketType' /\ CallType' /\ LateType' /\ WorkerType'
  BY DEF ServerType, SessionInv, BucketType, CallType, LateType, WorkerType
<1>2. ClientType' /\ run.pc = "idle"
  BY DEF ClientType, RunPcs
<1>3. BoundType'
  BY ImportAssumption DEF BoundType
<1>4. LockInv'
  <2>1. \A f \in Files : lane'[f].ans = None /\ lane'[f].got = None
    BY <1>2 DEF LockInv, Turn
  <2> QED
    BY <1>2, <2>1, LanesQuiet
<1> QED
  BY <1>1, <1>2, <1>3, <1>4

(* The session is begun or found. *)
LEMMA TypeBegin == ASSUME TypeInv, Begin PROVE TypeInv'
<1> USE DEF TypeInv, server, client, bounds
<1>0. run.pc = "begin" /\ UNCHANGED <<receipt, consents, lapsed, objects, cleanup, calls, lane,
                                      queue, late, worker, runs>>
  BY DEF Begin
<1>1. BucketType' /\ CallType' /\ LateType' /\ WorkerType'
  BY <1>0 DEF BucketType, CallType, LateType, WorkerType
<1>2. BoundType'
  BY <1>0, Faulting DEF Begin
<1>3. ServerType' /\ SessionInv'
  <2>1. session' = session \/ (session.st = "none"
                               /\ session' = [st |-> "in_progress", rev |-> 1, acc |-> {}])
    BY DEF Begin
  <2> QED
    BY <1>0, <2>1 DEF ServerType, SessionInv
<1>4. run' \in [pc : RunPcs, view : Views]
  <2>1. CASE Ended
    BY <2>1, Ending
  <2>2. CASE ~Ended
    <3>1. run' = [pc |-> IF session'.st = "verified" THEN "finalize" ELSE "receipts",
                  view |-> [st |-> session'.st, rev |-> session'.rev, acc |-> session'.acc,
                            exp |-> receipt]]
      BY <2>2 DEF Begin, ReplayRevision
    <3> QED
      BY <1>0, <1>3, <3>1 DEF ServerType, Views, RunPcs
  <2> QED
    BY <2>1, <2>2
<1>5. ClientType'
  BY <1>0, <1>4 DEF ClientType
<1>6. LockInv'
  <2>1. \A f \in Files : lane'[f].ans = None /\ lane'[f].got = None
    BY <1>0 DEF LockInv, Turn
  <2> QED
    BY <1>0, <2>1, LanesQuiet
<1> QED
  BY <1>1, <1>2, <1>3, <1>5, <1>6

(* The run lists the receipts there are. *)
LEMMA TypeListReceipts == ASSUME TypeInv, ListReceipts PROVE TypeInv'
<1> USE DEF TypeInv, server, client, bounds
<1>0. /\ run.pc = "receipts" /\ UNCHANGED <<objects, cleanup, calls, queue, late, worker, runs>>
      /\ UNCHANGED <<session, receipt, consents, lapsed>>
  BY DEF ListReceipts
<1>1. ServerType' /\ SessionInv' /\ BucketType' /\ CallType' /\ LateType' /\ WorkerType'
  BY <1>0 DEF ServerType, SessionInv, BucketType, CallType, LateType, WorkerType
<1>2. BoundType'
  BY <1>0, Faulting DEF ListReceipts
<1>3. \/ lane' = lane
      \/ /\ lane' \in [Files -> Lanes]
         /\ \A f \in Files : /\ lane'[f].ans = None /\ lane'[f].got = None
                             /\ lane'[f].pc \in {"skipped", "prepare"}
  <2>1. \A f \in Files : \A l \in LanePcs : [NoLane EXCEPT !.pc = l] \in Lanes
    BY NoLaneTyped DEF Lanes
  <2> QED
    BY <2>1 DEF ListReceipts, NoLane, LanePcs
<1>4. ClientType'
  <2>1. run' \in [pc : RunPcs, view : Views]
    BY Ending DEF ListReceipts, ClientType, RunPcs
  <2> QED
    BY <1>0, <1>3, <2>1 DEF ClientType
<1>5. LockInv'
  <2>1. \A f \in Files : lane'[f].ans = None /\ lane'[f].got = None
    BY <1>0, <1>3 DEF LockInv, Turn
  <2> QED
    BY <1>0, <2>1, LanesQuiet
<1> QED
  BY <1>1, <1>2, <1>4, <1>5

(* All lanes have ended. *)
LEMMA TypeUploadEnds == ASSUME TypeInv, UploadEnds PROVE TypeInv'
<1> USE DEF TypeInv, server, client, bounds
<1>0. /\ UNCHANGED <<objects, cleanup, calls, late, worker, runs, faults>>
      /\ UNCHANGED <<session, receipt, consents, lapsed>>
      /\ LanesGone /\ \A f \in Files : lane[f].pc # "accept"
  BY DEF UploadEnds
<1>1. ServerType' /\ SessionInv' /\ BucketType' /\ CallType' /\ LateType' /\ WorkerType' /\ BoundType'
  BY <1>0 DEF ServerType, SessionInv, BucketType, CallType, LateType, WorkerType, BoundType
<1>2. run' \in [pc : RunPcs, view : Views]
  <2>1. CASE Ended
    BY <2>1, Ending
  <2>2. CASE ~Ended
    <3>1. run' = [run EXCEPT !.pc = "finalize", !.view.exp = run.view.rev]
      BY <2>2 DEF UploadEnds
    <3>2. run.view \in Views /\ run.view.rev \in Nat
      BY DEF ClientType, Views
    <3>3. [run.view EXCEPT !.exp = run.view.rev] \in Views
      BY <3>2 DEF Views
    <3>4. run' = [pc |-> "finalize", view |-> [run.view EXCEPT !.exp = run.view.rev]]
      BY <3>1 DEF ClientType
    <3> QED
      BY <3>3, <3>4 DEF RunPcs
  <2> QED
    BY <2>1, <2>2
<1>3. \A f \in Files : lane'[f] = NoLane
  BY <1>0 DEF LanesGone
<1>4. ClientType'
  BY <1>0, <1>2, <1>3, NoLaneTyped DEF ClientType, LanesGone, NoLane
<1>5. \A c \in calls : ~c.mine
  BY <1>0 DEF LockInv, Awaited, CallType, Calls
<1>6. LockInv'
  BY <1>0, <1>3, <1>5 DEF LockInv, Turn, Awaited, NoLane
<1> QED
  BY <1>1, <1>4, <1>6

(* finalisation, *)
LEMMA Finalizing ==
    ASSUME TypeInv, NEW rev \in Nat, FinalizeSession(rev), UNCHANGED <<consents, lapsed>>
    PROVE  /\ ServerType' /\ SessionInv' /\ session'.acc = session.acc
           /\ \/ UNCHANGED <<session, receipt>>
              \/ /\ session.st = "in_progress" /\ session.rev = rev /\ session.acc = Files
                 /\ session' = [session EXCEPT !.st = "verified", !.rev = @ + 1]
                 /\ receipt' = rev
<1> USE DEF TypeInv
<1>1. CASE UNCHANGED <<session, receipt>>
  BY <1>1 DEF ServerType, SessionInv
<1>2. CASE ~UNCHANGED <<session, receipt>>
  <2>1. /\ receipt = 0 /\ FinalizeVerdict(rev) = "ok"
        /\ session' = [session EXCEPT !.st = "verified", !.rev = @ + 1]
        /\ receipt' = rev
    BY <1>2 DEF FinalizeSession
  <2>2. session.st = "in_progress" /\ session.rev = rev /\ session.acc = Files
    BY <2>1 DEF FinalizeVerdict, ServerType
  <2>3. rev >= 1 /\ session.rev \in Nat /\ session.acc \in SUBSET Files
    BY <2>2 DEF ServerType, SessionInv
  <2>4. session'.st = "verified" /\ session'.rev = rev + 1 /\ session'.acc = session.acc
    BY <2>1, <2>2 DEF ServerType
  <2>5. ServerType'
    <3>1. session' = [st |-> "verified", rev |-> rev + 1, acc |-> session.acc]
      BY <2>1, <2>2 DEF ServerType
    <3>2. session' \in [st : {"none", "in_progress", "verified"}, rev : Nat, acc : SUBSET Files]
      BY <2>3, <3>1
    <3> QED
      BY <2>1, <3>2 DEF ServerType
  <2>6. SessionInv'
    BY <2>1, <2>3, <2>4 DEF SessionInv
  <2> QED
    BY <2>1, <2>2, <2>4, <2>5, <2>6
<1> QED
  BY <1>1, <1>2

(* The finalization is answered, or delayed on its way. *)
LEMMA TypeFinalize == ASSUME TypeInv, Finalize \/ FinalizeDelayed PROVE TypeInv'
<1> USE DEF TypeInv, server, client, bounds
<1>0. /\ UNCHANGED <<objects, cleanup, calls, worker, runs, lane, queue>>
      /\ Ended /\ run.pc = "finalize"
  BY DEF Finalize, FinalizeDelayed
<1>1. run.view.exp \in Nat
  BY DEF ClientType, Views
<1>2. ServerType' /\ SessionInv'
  <2>1. CASE Finalize
    BY <1>1, <2>1, Finalizing DEF Finalize
  <2>2. CASE FinalizeDelayed
    BY <2>2 DEF FinalizeDelayed, ServerType, SessionInv
  <2> QED
    BY <2>1, <2>2
<1>3. BucketType' /\ CallType' /\ WorkerType'
  BY <1>0 DEF BucketType, CallType, WorkerType
<1>4. LateType'
  BY <1>1 DEF LateType, Finalize, FinalizeDelayed
<1>5. BoundType'
  BY <1>0, Faulting DEF Finalize, FinalizeDelayed
<1>6. ClientType'
  BY <1>0, Ending DEF ClientType
<1>7. LockInv'
  <2>1. \A f \in Files : lane'[f].ans = None /\ lane'[f].got = None
    BY <1>0 DEF LockInv, Turn
  <2> QED
    BY <1>0, <2>1, LanesQuiet
<1> QED
  BY <1>2, <1>3, <1>4, <1>5, <1>6, <1>7

(* A delayed finalization reaches the server. *)
LEMMA TypeLateFinalize == ASSUME TypeInv, NEW rev \in late.finals, LateFinalize(rev) PROVE TypeInv'
<1> USE DEF TypeInv, server, client, bounds
<1>0. UNCHANGED <<objects, cleanup, calls, run, lane, queue, worker, runs, faults>>
  BY DEF LateFinalize
<1>1. rev \in Nat /\ LateType'
  BY DEF LateType, LateFinalize
<1>2. ServerType' /\ SessionInv'
  BY <1>1, Finalizing DEF LateFinalize
<1>3. BucketType' /\ CallType' /\ ClientType' /\ WorkerType' /\ BoundType'
  BY <1>0 DEF BucketType, CallType, ClientType, WorkerType, BoundType
<1>4. LockInv'
  BY <1>0, LockFrame
<1> QED
  BY <1>1, <1>2, <1>3, <1>4

(* a call that nobody waits for any more, *)
LEMMA Abandoning ==
    ASSUME CallType, LockInv, NEW fs \in SUBSET Files, Abandon(fs)
    PROVE  /\ CallType'
           /\ \A c \in calls' : c.mine => c \in calls /\ c.file \notin fs
           /\ \A c \in calls' : \E d \in calls : c.file = d.file /\ c.at = d.at /\ c.rev = d.rev
<1> DEFINE left == {c \in calls : c.file \in fs /\ c.mine}
           gone == {[c EXCEPT !.mine = FALSE] : c \in left}
<1>1. left \subseteq Calls /\ left \subseteq calls
  BY DEF CallType
<1>2. \A c \in left : [c EXCEPT !.mine = FALSE] \in Calls
  BY <1>1 DEF Calls
<1>3. \A d \in gone : ~d.mine /\ d \in Calls
                      /\ \E c \in calls : c.file = d.file /\ c.at = d.at /\ c.rev = d.rev
  BY <1>1, <1>2 DEF Calls
<1>4. calls' \subseteq (calls \ left) \cup gone
  BY DEF Abandon
<1> HIDE DEF gone
<1>5. ASSUME NEW c \in calls'
      PROVE  /\ c.mine => c \in calls /\ c.file \notin fs
             /\ \E d \in calls : c.file = d.file /\ c.at = d.at /\ c.rev = d.rev
             /\ c \in Calls
  BY <1>3, <1>4 DEF CallType
<1> QED
  BY <1>5 DEF CallType

(* The connector dies. *)
LEMMA TypeCrashRun == ASSUME TypeInv, CrashRun PROVE TypeInv'
<1> USE DEF TypeInv, server, client, bounds
<1>0. /\ UNCHANGED <<objects, cleanup, worker, runs, session, receipt, consents, lapsed>>
      /\ Ended /\ LanesGone /\ Abandon(Files)
  BY DEF CrashRun
<1>1. ServerType' /\ SessionInv' /\ BucketType' /\ WorkerType'
  BY <1>0 DEF ServerType, SessionInv, BucketType, WorkerType
<1>2. BoundType'
  BY <1>0, Faulting DEF CrashRun
<1>3. LateType'
  BY DEF CrashRun, LateType
<1>4. \A f \in Files : lane'[f] = NoLane
  BY <1>0 DEF LanesGone
<1>5. ClientType'
  BY <1>0, <1>4, Ending, NoLaneTyped DEF ClientType, LanesGone, NoLane
<1>6. CallType' /\ \A c \in calls' : ~c.mine
  BY <1>0, Abandoning DEF CallType, Calls
<1>7. LockInv'
  BY <1>4, <1>6 DEF LockInv, Turn, Awaited, NoLane
<1> QED
  BY <1>1, <1>2, <1>3, <1>5, <1>6, <1>7

-----------------------------------------------------------------------------
(* the lanes, *)
LEMMA LaneStep ==
    ASSUME TypeInv, NEW f \in Files, NEW l \in LanePcs, l # "accept", Move(f, l),
           \/ queue' = queue \/ queue' = Append(queue, f)
           \/ queue # <<>> /\ Head(queue) = f /\ Leave,
           run' \in [pc : RunPcs, view : Views], run'.pc = run.pc,
           \A c \in calls' : c.mine => c \in calls /\ c.file # f
    PROVE  ClientType' /\ LockInv'
<1> USE DEF TypeInv
<1>1. /\ lane' \in [Files -> Lanes]
      /\ lane'[f].pc = l /\ lane'[f].ans = None /\ lane'[f].got = None
      /\ \A g \in Files \ {f} : lane'[g] = lane[g]
  BY Moving
<1>2. queue \in Seq(Files)
  BY DEF ClientType
<1>3. queue' \in Seq(Files)
  BY <1>2 DEF Leave
<1>4. ASSUME NEW g \in Files, g # f, queue # <<>>, Head(queue) = g
      PROVE  queue' # <<>> /\ Head(queue') = g
  BY <1>2, <1>4
<1>5. ClientType'
  BY <1>1, <1>3, <1>4 DEF ClientType
<1>6. \A g \in Files : Turn(g)'
  BY <1>1, <1>4 DEF LockInv, Turn
<1>7. \A c \in calls' : Awaited(c)'
  <2> SUFFICES ASSUME NEW c \in calls', c.mine PROVE Awaited(c)'
    BY DEF Awaited
  <2>1. c \in calls /\ c.file \in Files \ {f}
    BY DEF CallType, Calls
  <2> QED
    BY <1>1, <2>1 DEF LockInv, Awaited
<1>8. \A c, d \in calls' : c.mine /\ d.mine /\ c.file = d.file => c = d
  BY DEF LockInv
<1> QED
  BY <1>5, <1>6, <1>7, <1>8 DEF LockInv

(* The calls of a lane that does not wait for one. *)
LEMMA NotWaiting ==
    ASSUME TypeInv, NEW f \in Files, lane[f].pc # "accept" \/ lane[f].ans # None
    PROVE  \A c \in calls : c.mine => c.file # f
  BY DEF TypeInv, LockInv, Awaited

(* A lane asks where to put its file. *)
LEMMA TypePrepare == ASSUME TypeInv, NEW f \in Files, Prepare(f) PROVE TypeInv'
<1> USE DEF TypeInv, server, client, bounds
<1>0. /\ UNCHANGED <<objects, cleanup, calls, run, late, worker, runs>>
      /\ UNCHANGED <<session, receipt, consents, lapsed>>
      /\ lane[f].pc = "prepare"
      /\ \E l \in {"put", "conflict", "failed", "lookup"} : Move(f, l)
      /\ queue' = queue \/ queue' = Append(queue, f)
  BY DEF Prepare, At, RetryOrFail
<1>1. ServerType' /\ SessionInv' /\ BucketType' /\ CallType' /\ LateType' /\ WorkerType'
  BY <1>0 DEF ServerType, SessionInv, BucketType, CallType, LateType, WorkerType
<1>2. BoundType'
  BY <1>0, Faulting DEF Prepare
<1>3. ClientType' /\ LockInv'
  <2>1. PICK l \in LanePcs : l # "accept" /\ Move(f, l)
    BY <1>0 DEF LanePcs
  <2>2. \A c \in calls' : c.mine => c \in calls /\ c.file # f
    BY <1>0, NotWaiting
  <2>3. run' \in [pc : RunPcs, view : Views] /\ run'.pc = run.pc
    BY <1>0 DEF ClientType
  <2> QED
    BY <1>0, <2>1, <2>2, <2>3, LaneStep
<1> QED
  BY <1>1, <1>2, <1>3

(* The object is stored, or the store refuses it. *)
LEMMA TypePut == ASSUME TypeInv, NEW f \in Files, Put(f) \/ PutFails(f) PROVE TypeInv'
<1> USE DEF TypeInv, server, client, bounds
<1>0. /\ UNCHANGED <<cleanup, calls, run, worker, runs>>
      /\ UNCHANGED <<session, receipt, consents, lapsed>>
      /\ lane[f].pc = "put"
      /\ \E l \in {"await", "prepare", "failed"} : Move(f, l)
      /\ queue' = queue \/ queue' = Append(queue, f)
  BY DEF Put, PutFails, At, RetryOrFail
<1>1. ServerType' /\ SessionInv' /\ CallType' /\ WorkerType'
  BY <1>0 DEF ServerType, SessionInv, CallType, WorkerType
<1>2. BoundType'
  BY <1>0, Faulting DEF Put, PutFails
<1>3. LateType'
  BY DEF Put, PutFails, LateType
<1>4. BucketType'
  BY <1>0 DEF Put, PutFails, Stored, BucketType
<1>5. ClientType' /\ LockInv'
  <2>1. PICK l \in LanePcs : l # "accept" /\ Move(f, l)
    BY <1>0 DEF LanePcs
  <2>2. \A c \in calls' : c.mine => c \in calls /\ c.file # f
    BY <1>0, NotWaiting
  <2>3. run' \in [pc : RunPcs, view : Views] /\ run'.pc = run.pc
    BY <1>0 DEF ClientType
  <2> QED
    BY <1>0, <2>1, <2>2, <2>3, LaneStep
<1> QED
  BY <1>1, <1>2, <1>3, <1>4, <1>5

(* A delayed object reaches the store. *)
LEMMA TypeLatePut == ASSUME TypeInv, NEW f \in Files, LatePut(f) PROVE TypeInv'
<1> USE DEF TypeInv, server, client, bounds
<1>0. /\ UNCHANGED <<cleanup, calls, run, lane, queue, worker, runs, faults>>
      /\ UNCHANGED <<session, receipt, consents, lapsed>>
  BY DEF LatePut
<1>1. ServerType' /\ SessionInv' /\ CallType' /\ ClientType' /\ WorkerType' /\ BoundType'
  BY <1>0 DEF ServerType, SessionInv, CallType, ClientType, WorkerType, BoundType
<1>2. LateType' /\ BucketType'
  BY <1>0 DEF LatePut, Stored, LateType, BucketType
<1>3. LockInv'
  BY <1>0, LockFrame
<1> QED
  BY <1>1, <1>2, <1>3

(* A lane that met a conflict looks for the receipt of its file. *)
LEMMA TypeResume == ASSUME TypeInv, NEW f \in Files, ResumeAfterConflict(f) PROVE TypeInv'
<1> USE DEF TypeInv, server, client, bounds
<1>0. /\ UNCHANGED <<objects, cleanup, calls, run, queue, late, worker, runs>>
      /\ UNCHANGED <<session, receipt, consents, lapsed>>
      /\ lane[f].pc = "conflict"
  BY DEF ResumeAfterConflict, At
<1>1. ServerType' /\ SessionInv' /\ BucketType' /\ CallType' /\ LateType' /\ WorkerType'
  BY <1>0 DEF ServerType, SessionInv, BucketType, CallType, LateType, WorkerType
<1>2. BoundType'
  BY <1>0, Faulting DEF ResumeAfterConflict
<1>3. ClientType' /\ LockInv'
  <2>1. CASE \E l \in {"prepare", "failed"} : Move(f, l)
    <3>1. PICK l \in LanePcs : l # "accept" /\ Move(f, l)
      BY <2>1 DEF LanePcs
    <3>2. \A c \in calls' : c.mine => c \in calls /\ c.file # f
      BY <1>0, NotWaiting
    <3>3. run' \in [pc : RunPcs, view : Views] /\ run'.pc = run.pc
      BY <1>0 DEF ClientType
    <3> QED
      BY <1>0, <3>1, <3>2, <3>3, LaneStep
  <2>2. CASE lane' = [lane EXCEPT ![f].pc = "prepare", ![f].priv = View]
    <3>1. /\ lane' \in [Files -> Lanes]
          /\ \A g \in Files \ {f} : lane'[g] = lane[g]
          /\ lane'[f].pc = "prepare" /\ lane'[f].ans = lane[f].ans /\ lane'[f].got = lane[f].got
      BY <2>2, ViewTyped DEF ClientType, Lanes, LanePcs
    <3>2. lane[f].ans = None /\ lane[f].got = None
      BY <1>0 DEF LockInv, Turn
    <3>3. ClientType'
      BY <1>0, <3>1 DEF ClientType
    <3>4. \A g \in Files : Turn(g)'
      BY <1>0, <3>1, <3>2 DEF LockInv, Turn
    <3>5. \A c \in calls' : Awaited(c)'
      BY <1>0, <3>1, NotWaiting DEF LockInv, Awaited, CallType, Calls
    <3> QED
      BY <1>0, <3>3, <3>4, <3>5 DEF LockInv
  <2> QED
    BY <2>1, <2>2 DEF ResumeAfterConflict, RetryOrFail
<1> QED
  BY <1>1, <1>2, <1>3

(* The accept call is sent. *)
LEMMA TypeSendAccept == ASSUME TypeInv, NEW f \in Files, SendAccept(f) PROVE TypeInv'
<1> USE DEF TypeInv, server, client, bounds
<1> DEFINE new == [file |-> f, rev |-> Own(f).rev, at |-> "prepare", mine |-> TRUE]
<1>0. /\ UNCHANGED <<objects, cleanup, run, queue, late, worker, runs, faults>>
      /\ UNCHANGED <<session, receipt, consents, lapsed>>
      /\ run.pc = "upload" /\ lane[f].pc = "await" /\ queue # <<>> /\ Head(queue) = f
      /\ Move(f, "accept") /\ calls' = calls \cup {new}
  BY DEF SendAccept, At, HasTurn
<1>1. ServerType' /\ SessionInv' /\ BucketType' /\ LateType' /\ WorkerType' /\ BoundType'
  BY <1>0 DEF ServerType, SessionInv, BucketType, LateType, WorkerType, BoundType
<1>2. Own(f) \in Views
  BY DEF Own, ClientType, Lanes
<1>3. new \in Calls
  BY <1>2 DEF Calls, Views
<1>4. CallType'
  BY <1>0, <1>3 DEF CallType
<1>5. /\ lane' \in [Files -> Lanes]
      /\ lane'[f].pc = "accept" /\ lane'[f].ans = None /\ lane'[f].got = None
      /\ \A g \in Files \ {f} : lane'[g] = lane[g]
  BY <1>0, Moving DEF LanePcs
<1>6. ClientType'
  BY <1>0, <1>5 DEF ClientType
<1>7. \A g \in Files : Turn(g)'
  BY <1>0, <1>5 DEF LockInv, Turn
<1>8. \A c \in calls : c.mine => c.file # f
  BY <1>0, NotWaiting
<1>9. \A c \in calls' : Awaited(c)'
  <2> SUFFICES ASSUME NEW c \in calls', c.mine PROVE Awaited(c)'
    BY DEF Awaited
  <2>1. CASE c \in calls
    BY <1>0, <1>5, <1>8, <2>1 DEF LockInv, Awaited, CallType, Calls
  <2>2. CASE c = new
    BY <1>0, <1>5, <2>2 DEF Awaited
  <2> QED
    BY <1>0, <2>1, <2>2
<1>10. ASSUME NEW c \in calls', NEW d \in calls', c.mine, d.mine, c.file = d.file PROVE c = d
  <2>1. new.file = f
    OBVIOUS
  <2> HIDE DEF new
  <2> QED
    BY <1>0, <1>8, <1>10, <2>1 DEF LockInv
<1> QED
  BY <1>1, <1>4, <1>6, <1>7, <1>9, <1>10 DEF LockInv

(* An answer is taken by the lane that has its turn. *)
LEMMA TypeReceive ==
    ASSUME TypeInv, NEW f \in Files, ReceiveAccept(f) \/ ReceiveLookup(f) PROVE TypeInv'
<1> USE DEF TypeInv, server, client, bounds
<1>0. /\ UNCHANGED <<objects, cleanup, calls, late, worker, runs>>
      /\ UNCHANGED <<session, receipt, consents, lapsed>>
      /\ lane[f].ans # None
  BY DEF ReceiveAccept, ReceiveLookup
<1>1. ServerType' /\ SessionInv' /\ BucketType' /\ CallType' /\ LateType' /\ WorkerType'
  BY <1>0 DEF ServerType, SessionInv, BucketType, CallType, LateType, WorkerType
<1>2. BoundType'
  BY <1>0, Faulting DEF ReceiveAccept, ReceiveLookup
<1>3. queue # <<>> /\ Head(queue) = f
  BY <1>0 DEF LockInv, Turn
<1>4. \A c \in calls' : c.mine => c \in calls /\ c.file # f
  BY <1>0, NotWaiting
<1>5. /\ \E l \in {"ok", "lookup", "conflict", "prepare", "failed"} : Move(f, l)
      /\ queue' = queue \/ Leave
      /\ run' = run \/ run' = [run EXCEPT !.view = lane[f].got]
  BY DEF ReceiveAccept, ReceiveLookup, Accepted, RetryOrFail
<1>6. run' \in [pc : RunPcs, view : Views] /\ run'.pc = run.pc
  <2>1. CASE run' = run
    BY <2>1 DEF ClientType
  <2>2. CASE run' # run
    <3>1. lane[f].ans = "ok" \/ ReceiveLookup(f)
      BY <2>2 DEF ReceiveAccept, ReceiveLookup
    <3>2. run' = [run EXCEPT !.view = lane[f].got]
      BY <1>5, <2>2
    <3>3. lane[f].got \in Views
      BY <1>0, <3>1 DEF LockInv, Turn, ReceiveLookup, At, ClientType, Lanes
    <3> QED
      BY <3>2, <3>3 DEF ClientType
  <2> QED
    BY <2>1, <2>2
<1>7. PICK l \in LanePcs : l # "accept" /\ Move(f, l)
  BY <1>5 DEF LanePcs
<1>8. ClientType' /\ LockInv'
  BY <1>3, <1>4, <1>5, <1>6, <1>7, LaneStep
<1> QED
  BY <1>1, <1>2, <1>8

(* The connection of the accept call breaks. *)
LEMMA TypeAcceptBreaks == ASSUME TypeInv, NEW f \in Files, AcceptBreaks(f) PROVE TypeInv'
<1> USE DEF TypeInv, server, client, bounds
<1>0. /\ UNCHANGED <<objects, cleanup, run, late, worker, runs>>
      /\ UNCHANGED <<session, receipt, consents, lapsed>>
      /\ lane[f].pc = "accept" /\ Abandon({f})
      /\ \E l \in {"await", "prepare", "failed"} : Move(f, l)
      /\ queue' = queue \/ Leave
  BY DEF AcceptBreaks, At, RetryOrFail
<1>1. ServerType' /\ SessionInv' /\ BucketType' /\ LateType' /\ WorkerType'
  BY <1>0 DEF ServerType, SessionInv, BucketType, LateType, WorkerType
<1>2. BoundType'
  BY <1>0, Faulting DEF AcceptBreaks
<1>3. CallType' /\ \A c \in calls' : c.mine => c \in calls /\ c.file # f
  BY <1>0, Abandoning
<1>4. queue # <<>> /\ Head(queue) = f
  BY <1>0 DEF ClientType
<1>5. PICK l \in LanePcs : l # "accept" /\ Move(f, l)
  BY <1>0 DEF LanePcs
<1>6. run' \in [pc : RunPcs, view : Views] /\ run'.pc = run.pc
  BY <1>0 DEF ClientType
<1>7. ClientType' /\ LockInv'
  BY <1>0, <1>3, <1>4, <1>5, <1>6, LaneStep
<1> QED
  BY <1>1, <1>2, <1>3, <1>7

(* An answer reaches the lane that waits for it. *)
LEMMA Answering ==
    ASSUME TypeInv, NEW f \in Files, NEW a \in Errors \cup {"ok"}, NEW v \in Views \cup {None},
           lane' = [lane EXCEPT ![f].ans = a, ![f].got = v], UNCHANGED <<run, queue>>,
           run.pc = "upload", lane[f].pc \in {"accept", "lookup"},
           queue # <<>>, Head(queue) = f, a = "ok" => v # None, lane[f].pc = "lookup" => a = "ok",
           \A c \in calls' : c.mine => c.file # f
    PROVE  /\ ClientType' /\ \A g \in Files : Turn(g)'
           /\ \A c \in calls' : c \in calls => Awaited(c)'
           /\ \A g \in Files : lane'[g].pc = lane[g].pc
           /\ lane'[f].ans = a /\ lane'[f].got = v
           /\ \A g \in Files \ {f} : lane'[g] = lane[g]
<1> USE DEF TypeInv
<1>1. /\ lane' \in [Files -> Lanes]
      /\ lane'[f].pc = lane[f].pc /\ lane'[f].ans = a /\ lane'[f].got = v
      /\ \A g \in Files \ {f} : lane'[g] = lane[g]
  BY DEF ClientType, Lanes
<1>2. ClientType'
  BY <1>1 DEF ClientType
<1>3. \A g \in Files : Turn(g)'
  BY <1>1 DEF LockInv, Turn
<1>4. \A c \in calls' : c \in calls => Awaited(c)'
  BY <1>1 DEF LockInv, Awaited, CallType, Calls
<1> QED
  BY <1>1, <1>2, <1>3, <1>4

(* The receipts are listed again for one lane. *)
LEMMA TypeServeLookup == ASSUME TypeInv, NEW f \in Files, ServeLookup(f) PROVE TypeInv'
<1> USE DEF TypeInv, server, client, bounds
<1>0. /\ UNCHANGED <<objects, cleanup, calls, run, queue, late, worker, runs, faults>>
      /\ UNCHANGED <<session, receipt, consents, lapsed>>
      /\ run.pc = "upload" /\ lane[f].pc = "lookup" /\ queue # <<>> /\ Head(queue) = f
      /\ lane' = [lane EXCEPT ![f].ans = "ok", ![f].got = View]
  BY DEF ServeLookup, At, HasTurn
<1>1. ServerType' /\ SessionInv' /\ BucketType' /\ CallType' /\ LateType' /\ WorkerType' /\ BoundType'
  BY <1>0 DEF ServerType, SessionInv, BucketType, CallType, LateType, WorkerType, BoundType
<1>2. View \in Views /\ View # None
  BY ViewTyped, NoneAssumption
<1>3. \A c \in calls' : c.mine => c.file # f
  BY <1>0, NotWaiting
<1>4. ClientType' /\ (\A g \in Files : Turn(g)') /\ \A c \in calls' : c \in calls => Awaited(c)'
  BY <1>0, <1>2, <1>3, Answering
<1> QED
  BY <1>0, <1>1, <1>4 DEF LockInv

-----------------------------------------------------------------------------
(* the service, *)
(* A call goes on to its next step, or it is answered. *)
LEMMA Advancing ==
    ASSUME TypeInv, NEW c \in calls, NEW to \in {"prepare", "read", "cleanup", "store"},
           Advance(c, to), UNCHANGED <<run, queue>>
    PROVE  CallType' /\ ClientType' /\ LockInv'
<1> USE DEF TypeInv
<1> DEFINE new == [c EXCEPT !.at = to]
<1>1. c \in Calls /\ c.file \in Files
  BY DEF CallType, Calls
<1>2. new \in Calls /\ new.file = c.file /\ new.mine = c.mine
  BY <1>1 DEF Calls
<1>3. calls' = (calls \ {c}) \cup {new} /\ UNCHANGED lane
  BY DEF Advance
<1> HIDE DEF new
<1>4. CallType' /\ ClientType'
  BY <1>2, <1>3 DEF CallType, ClientType
<1>5. \A g \in Files : Turn(g)'
  BY <1>3 DEF LockInv, Turn
<1>6. \A d \in calls' : Awaited(d)'
  BY <1>2, <1>3 DEF LockInv, Awaited
<1>7. ASSUME NEW d \in calls', NEW e \in calls', d.mine, e.mine, d.file = e.file PROVE d = e
  BY <1>2, <1>3, <1>7 DEF LockInv
<1> QED
  BY <1>4, <1>5, <1>6, <1>7 DEF LockInv

(* An accept call leaves the server, and its lane, if it still waits, has  *)
(* the answer; the queue of the session lock is as it was.                 *)
LEMMA CallAnswered ==
    ASSUME TypeInv, NEW c \in calls, NEW a \in Errors \cup {"ok"}, NEW v \in Views \cup {None},
           AnswerWith(c, a, v), a = "ok" => v # None, UNCHANGED <<run, queue>>
    PROVE  CallType' /\ ClientType' /\ LockInv'
<1> USE DEF TypeInv
<1>1. c \in Calls /\ c.file \in Files
  BY DEF CallType, Calls
<1>2. calls' = calls \ {c} /\ CallType'
  BY DEF AnswerWith, CallType
<1>3. CASE ~c.mine
  <2>1. UNCHANGED lane
    BY <1>3 DEF AnswerWith
  <2> QED
    BY <1>2, <2>1 DEF LockInv, Turn, Awaited, ClientType
<1>4. CASE c.mine
  <2>1. lane' = [lane EXCEPT ![c.file].ans = a, ![c.file].got = v]
    BY <1>4 DEF AnswerWith
  <2>2. run.pc = "upload" /\ lane[c.file].pc = "accept"
    BY <1>4 DEF LockInv, Awaited
  <2>3. queue # <<>> /\ Head(queue) = c.file
    BY <1>1, <2>2 DEF ClientType
  <2>4. \A d \in calls' : d.mine => d.file # c.file
    BY <1>2, <1>4 DEF LockInv
  <2>5. ClientType' /\ (\A g \in Files : Turn(g)') /\ \A d \in calls' : d \in calls => Awaited(d)'
    BY <1>1, <2>1, <2>2, <2>3, <2>4, Answering
  <2> QED
    BY <1>2, <2>5 DEF LockInv
<1> QED
  BY <1>3, <1>4

(* The errors of the service. *)
LEMMA Verdicts ==
    ASSUME NEW f, NEW rev
    PROVE  /\ PrepareVerdict(f, rev) \in Errors \cup {"ok"}
           /\ AcceptVerdict(f, rev) \in Errors \cup {"ok"}
  BY DEF PrepareVerdict, AcceptVerdict, SessionVerdict, FileVerdict, Errors

(* One step of the server for an accept call. *)
LEMMA TypeHandle == ASSUME TypeInv, NEW c \in calls, Handle(c) PROVE TypeInv'
<1> USE DEF TypeInv, server, client, bounds
<1>0. c.file \in Files /\ c \in Calls
  BY DEF CallType, Calls
<1>1. UNCHANGED <<receipt, consents, lapsed, objects, run, queue, late, worker, runs>>
  BY DEF Handle, AcceptPrepares, AcceptReads, AcceptCleansUp, AcceptStores
<1>2. LateType' /\ WorkerType'
  BY <1>1 DEF LateType, WorkerType
<1>3. BoundType'
  BY <1>1, Faulting DEF Handle, AcceptPrepares, AcceptReads, AcceptCleansUp, AcceptStores
<1>4. BucketType'
  <2>1. CASE UNCHANGED cleanup
    BY <1>1, <2>1 DEF BucketType
  <2>2. CASE ~UNCHANGED cleanup
    <3>1. cleanup' = [cleanup EXCEPT ![c.file] = [NoJob EXCEPT !.st = "queued"]]
      BY <2>2 DEF Handle, AcceptPrepares, AcceptReads, AcceptCleansUp, AcceptStores
    <3>2. 0 \in 0..MaxAttempts
      BY ImportAssumption
    <3>3. NoJob \in Jobs /\ NoJob.token = None
      BY <3>2 DEF NoJob, Jobs
    <3>4. PICK q \in Jobs : q = [NoJob EXCEPT !.st = "queued"] /\ q.st = "queued" /\ q.token = None
      <4>1. PICK job \in Jobs : job = NoJob /\ job.token = None
        BY <3>3
      <4>2. /\ [job EXCEPT !.st = "queued"] \in Jobs
            /\ [job EXCEPT !.st = "queued"].st = "queued"
            /\ [job EXCEPT !.st = "queued"].token = None
        BY <4>1 DEF Jobs
      <4> QED
        BY <4>1, <4>2
    <3> QED
      BY <1>0, <1>1, <3>1, <3>4 DEF BucketType
  <2> QED
    BY <2>1, <2>2
<1>5. ServerType' /\ SessionInv'
  <2>1. CASE UNCHANGED session
    BY <1>1, <2>1 DEF ServerType, SessionInv
  <2>2. CASE ~UNCHANGED session
    <3>1. /\ session' = [session EXCEPT !.acc = @ \cup {c.file}, !.rev = @ + 1]
          /\ AcceptVerdict(c.file, c.rev) = "ok"
      BY <2>2 DEF Handle, AcceptPrepares, AcceptReads, AcceptCleansUp, AcceptStores
    <3>2. session.st = "in_progress"
      BY <3>1 DEF AcceptVerdict, SessionVerdict
    <3>3. session' = [st |-> "in_progress", rev |-> session.rev + 1, acc |-> session.acc \cup {c.file}]
      BY <3>1, <3>2 DEF ServerType
    <3> QED
      BY <1>0, <1>1, <3>2, <3>3 DEF ServerType, SessionInv
  <2> QED
    BY <2>1, <2>2
<1>6. CallType' /\ ClientType' /\ LockInv'
  <2>1. CASE AcceptPrepares(c)
    BY <1>1, <2>1, Advancing, CallAnswered, Verdicts DEF AcceptPrepares, Answer
  <2>2. CASE AcceptReads(c)
    BY <1>1, <2>2, Advancing, CallAnswered DEF AcceptReads, Answer, Errors
  <2>3. CASE AcceptCleansUp(c)
    BY <1>1, <2>3, CallAnswered DEF AcceptCleansUp, Answer, Errors
  <2>4. CASE AcceptStores(c)
    <3> DEFINE s == [session EXCEPT !.acc = @ \cup {c.file}, !.rev = @ + 1]
               v == [st |-> s.st, rev |-> s.rev, acc |-> s.acc, exp |-> 0]
    <3>1. CASE Answer(c, AcceptVerdict(c.file, c.rev)) /\ AcceptVerdict(c.file, c.rev) # "ok"
      BY <1>1, <3>1, CallAnswered, Verdicts DEF Answer
    <3>2. CASE AnswerWith(c, "ok", v)
      <4>1. v \in Views
        BY <1>0 DEF ServerType, Views
      <4>2. v # None
        BY <4>1, NoneAssumption
      <4> HIDE DEF v
      <4> QED
        BY <1>1, <3>2, <4>1, <4>2, CallAnswered
    <3> QED
      BY <2>4, <3>1, <3>2 DEF AcceptStores
  <2> QED
    BY <2>1, <2>2, <2>3, <2>4 DEF Handle
<1> QED
  BY <1>2, <1>3, <1>4, <1>5, <1>6

(* The owner consents, the consent expires, or the session lapses. *)
LEMMA TypeOwner ==
    ASSUME TypeInv, Consent \/ ConsentExpires \/ SessionLapses PROVE TypeInv'
<1> USE DEF TypeInv, server, client, bounds
<1>0. UNCHANGED <<session, receipt, objects, cleanup, calls, run, lane, queue, late, worker,
                  runs, faults>>
  BY DEF Consent, ConsentExpires, SessionLapses
<1>1. BucketType' /\ CallType' /\ ClientType' /\ LateType' /\ WorkerType' /\ BoundType' /\ SessionInv'
  BY <1>0 DEF BucketType, CallType, ClientType, LateType, WorkerType, BoundType, SessionInv
<1>2. consents' \subseteq Nat /\ lapsed' \in BOOLEAN
  <2>1. session.st # "none" => session.rev \in Nat /\ session.rev - 1 \in Nat
    BY DEF ServerType, SessionInv
  <2> QED
    BY <2>1 DEF Consent, ConsentExpires, SessionLapses, ServerType
<1>3. LockInv'
  BY <1>0, LockFrame
<1> QED
  BY <1>0, <1>1, <1>2, <1>3 DEF ServerType

(* and the workers. *)
LEMMA Working ==
    ASSUME TypeInv, UNCHANGED <<session, receipt, consents, lapsed, calls, run, lane, queue,
                                late, runs>>,
           Fault \/ UNCHANGED faults, BucketType', WorkerType'
    PROVE  TypeInv'
<1> USE DEF TypeInv
<1>1. ServerType' /\ CallType' /\ ClientType' /\ LateType' /\ SessionInv'
  BY DEF ServerType, CallType, ClientType, LateType, SessionInv
<1>2. LockInv'
  BY LockFrame
<1> QED
  BY <1>1, <1>2, Faulting

(* A cleanup job with its claim taken away. *)
LEMMA Unclaimed ==
    ASSUME BucketType, NEW f \in Files, NEW st \in {"queued", "completed", "dead_lettered"}
    PROVE  LET job == [cleanup[f] EXCEPT !.st = st, !.token = None, !.leased = FALSE]
           IN  job \in Jobs /\ job.st = st /\ job.token = None
  BY DEF BucketType, Jobs

(* A cleanup worker claims a job. *)
LEMMA TypeClaim == ASSUME TypeInv, NEW w \in Workers, Claim(w) PROVE TypeInv'
<1> USE DEF TypeInv, server, client, bounds
<1> DEFINE swept == [f \in Files |-> IF Exhausted(f)
                       THEN [cleanup[f] EXCEPT !.st = "dead_lettered", !.token = None, !.leased = FALSE]
                       ELSE cleanup[f]]
<1>1. /\ swept \in [Files -> Jobs]
      /\ \A f \in Files : (swept[f].st = "claimed") = (swept[f].token # None)
  BY Unclaimed DEF BucketType
<1>2. \/ cleanup' = swept /\ UNCHANGED worker
      \/ \E f \in Files :
            /\ Claimable(f) /\ ~Exhausted(f)
            /\ cleanup' = [swept EXCEPT ![f] = [st |-> "claimed", token |-> w, leased |-> TRUE,
                                                attempts |-> cleanup[f].attempts + 1]]
            /\ worker' = [worker EXCEPT ![w] = [pc |-> "delete", file |-> f]]
  BY DEF Claim
<1> HIDE DEF swept
<1>3. BucketType' /\ WorkerType'
  <2>1. CASE cleanup' = swept /\ UNCHANGED worker
    BY <1>1, <2>1 DEF BucketType, WorkerType, Claim
  <2>2. ASSUME NEW f \in Files, Claimable(f), ~Exhausted(f),
               cleanup' = [swept EXCEPT ![f] = [st |-> "claimed", token |-> w, leased |-> TRUE,
                                                attempts |-> cleanup[f].attempts + 1]],
               worker' = [worker EXCEPT ![w] = [pc |-> "delete", file |-> f]]
        PROVE  BucketType' /\ WorkerType'
    <3> DEFINE job == [st |-> "claimed", token |-> w, leased |-> TRUE,
                       attempts |-> cleanup[f].attempts + 1]
    <3>1. cleanup[f].attempts + 1 \in 0..MaxAttempts
      BY <2>2, ImportAssumption DEF Exhausted, BucketType, Jobs
    <3>2. job \in Jobs /\ job.st = "claimed" /\ job.token = w /\ w # None
      BY <3>1, ImportAssumption DEF Jobs
    <3> HIDE DEF job
    <3>3. cleanup' = [swept EXCEPT ![f] = job]
      BY <2>2 DEF job
    <3>4. BucketType'
      BY <1>1, <3>2, <3>3 DEF BucketType, Claim
    <3>5. WorkerType'
      BY <2>2 DEF WorkerType
    <3> QED
      BY <3>4, <3>5
  <2> QED
    BY <1>2, <2>1, <2>2
<1> QED
  BY <1>3, Working DEF Claim

(* A cleanup worker goes on with its job or dies. *)
LEMMA TypeWork ==
    ASSUME TypeInv, NEW w \in Workers, Delete(w) \/ Complete(w) \/ Fail(w) \/ CrashWorker(w)
    PROVE  TypeInv'
<1> USE DEF TypeInv, server, client, bounds
<1> DEFINE f == worker[w].file
<1>0. f \in Files
  BY DEF Delete, Complete, Fail, CrashWorker, WorkerType
<1>1. WorkerType'
  BY DEF Delete, Complete, Fail, CrashWorker, WorkerType
<1>2. objects' \in [Files -> {"absent", "good", "bad"}]
  BY <1>0 DEF Delete, Complete, Fail, CrashWorker, BucketType
<1>3. \/ cleanup' = cleanup
      \/ \E st \in {"queued", "completed", "dead_lettered"} :
            cleanup' = [cleanup EXCEPT ![f] = [cleanup[f] EXCEPT !.st = st, !.token = None,
                                                                 !.leased = FALSE]]
  <2>1. CASE Delete(w) \/ CrashWorker(w)
    BY <2>1 DEF Delete, CrashWorker
  <2>2. CASE Complete(w)
    BY <2>2 DEF Complete
  <2>3. CASE Fail(w)
    BY <2>3 DEF Fail
  <2> QED
    BY <2>1, <2>2, <2>3
<1> HIDE DEF f
<1>4. BucketType'
  <2>1. CASE cleanup' = cleanup
    BY <1>2, <2>1 DEF BucketType
  <2>2. ASSUME NEW st \in {"queued", "completed", "dead_lettered"},
               cleanup' = [cleanup EXCEPT ![f] = [cleanup[f] EXCEPT !.st = st, !.token = None,
                                                                    !.leased = FALSE]]
        PROVE  BucketType'
    <3>1. PICK job \in Jobs :
             /\ job = [cleanup[f] EXCEPT !.st = st, !.token = None, !.leased = FALSE]
             /\ job.st = st /\ job.token = None
      BY <1>0, Unclaimed
    <3> QED
      BY <1>0, <1>2, <2>2, <3>1 DEF BucketType
  <2> QED
    BY <1>3, <2>1, <2>2
<1> QED
  BY <1>1, <1>4, Working DEF Delete, Complete, Fail, CrashWorker

(* The lease of a cleanup job runs out. *)
LEMMA TypeLeaseExpires == ASSUME TypeInv, NEW f \in Files, LeaseExpires(f) PROVE TypeInv'
<1> USE DEF TypeInv, server, client, bounds
<1>1. BucketType'
  BY DEF LeaseExpires, BucketType, Jobs
<1>2. WorkerType'
  BY DEF LeaseExpires, WorkerType
<1> QED
  BY <1>1, <1>2, Working DEF LeaseExpires

(* The initial state has its type. *)
LEMMA TypeInit == Init => TypeInv
<1> SUFFICES ASSUME Init PROVE TypeInv
  OBVIOUS
<1> USE DEF Init
<1>0. 0 \in 0..MaxAttempts /\ 0 \in 0..MaxRuns /\ 0 \in 0..MaxFaults
  BY ImportAssumption
<1>1. ServerType /\ CallType /\ LateType /\ WorkerType
  BY DEF ServerType, CallType, LateType, WorkerType
<1>2. BucketType
  <2>1. NoJob \in Jobs /\ NoJob.token = None /\ NoJob.st = "none"
    BY <1>0 DEF NoJob, Jobs
  <2> QED
    BY <2>1 DEF BucketType
<1>3. ClientType
  BY NoLaneTyped DEF ClientType, RunPcs, NoLane
<1>4. SessionInv
  BY DEF SessionInv
<1>5. LockInv
  BY DEF LockInv, Turn, Awaited, NoLane
<1> QED
  BY <1>0, <1>1, <1>2, <1>3, <1>4, <1>5 DEF TypeInv, BoundType

(* Every step keeps the shape of the state and the lock of the session. *)
LEMMA TypeNext == TypeInv /\ [Next]_vars => TypeInv'
<1> SUFFICES ASSUME TypeInv, [Next]_vars PROVE TypeInv'
  OBVIOUS
<1>1. CASE UNCHANGED vars
  <2>1. UNCHANGED <<session, receipt, consents, lapsed, objects, cleanup, calls, run, lane,
                    queue, late, worker, runs, faults>>
    BY <1>1 DEF vars, server, client, bounds
  <2>2. BucketType' /\ WorkerType'
    BY <2>1 DEF TypeInv, BucketType, WorkerType
  <2> QED
    BY <2>1, <2>2, Working
<1>2. ASSUME NEW f \in Files, Lane(f) PROVE TypeInv'
  BY <1>2, TypePrepare, TypePut, TypeResume, TypeSendAccept, TypeReceive, TypeAcceptBreaks,
     TypeServeLookup DEF Lane
<1>3. ASSUME NEW w \in Workers, Work(w) PROVE TypeInv'
  BY <1>3, TypeClaim, TypeWork DEF Work
<1> QED
  BY <1>1, <1>2, <1>3, TypeStartRun, TypeBegin, TypeListReceipts, TypeUploadEnds, TypeFinalize,
     TypeLateFinalize, TypeCrashRun, TypeLatePut, TypeLeaseExpires, TypeHandle, TypeOwner DEF Next

(* The state of an import always has the declared shape, and the accept    *)
(* call that a lane waits for is the call of the lane whose turn it is.    *)
THEOREM TypeCorrect == Spec => []TypeOK
  BY TypeInit, TypeNext, TypeParts, PTL DEF Spec

-----------------------------------------------------------------------------
(* While a lane has work left no finalisation has been asked for. *)
LEMMA StillUploading ==
    ASSUME ViewInv, run.pc = "upload", NEW f \in Files, lane[f].pc # "skipped"
    PROVE  ~Settling
  BY DEF ViewInv

(* A step that changes neither the session nor the client. *)
LEMMA ViewFrame ==
    ASSUME ViewInv, UploadRecognised, UNCHANGED <<session, receipt, run, lane>>,
           late'.finals = late.finals
    PROVE  ViewInv' /\ UploadRecognised'
  BY DEF ViewInv, UploadRecognised, Answered, Past, LastRevision, Settling

(* The run is over: what was told to it is forgotten. *)
LEMMA ViewEnded ==
    ASSUME ViewInv, UNCHANGED <<session, receipt>>, Ended,
           \A f \in Files : lane'[f].pc # "lookup" /\ lane'[f].ans # "already_accepted"
                            /\ lane'[f].got = None,
           \A rev \in late'.finals : rev = LastRevision, Settling' => session.acc = Files
    PROVE  ViewInv' /\ UploadRecognised'
<1>1. run'.pc = "idle"
  BY Ending
<1>2. \A f \in Files : Answered(f)'
  BY DEF Answered
<1>3. LastRevision' = LastRevision
  BY DEF LastRevision
<1> QED
  BY <1>1, <1>2, <1>3 DEF ViewInv, UploadRecognised

(* Before and after the upload no lane has an answer, and none is waiting  *)
(* for one.                                                                *)
IdleInv == run.pc # "upload" => \A f \in Files : lane[f].pc = "none"

(* Lanes are at rest outside the upload phase. *)
LEMMA IdleLanes ==
    ASSUME TypeInv, IdleInv, run.pc # "upload", UNCHANGED lane
    PROVE  \A f \in Files : lane'[f].pc # "lookup" /\ lane'[f].ans # "already_accepted"
                            /\ lane'[f].got = None
  BY NoneAssumption DEF TypeInv, IdleInv, LockInv, Turn, Errors

(* Every step keeps the lanes at rest outside the upload phase. *)
LEMMA IdleNext ==
    ASSUME TypeInv, IdleInv, [Next]_vars PROVE IdleInv'
<1> USE DEF server, client, bounds
<1>1. CASE UNCHANGED <<run, lane>>
  BY <1>1 DEF IdleInv
<1>2. CASE StartRun \/ Begin \/ Finalize \/ FinalizeDelayed
  BY <1>2 DEF StartRun, Begin, Finalize, FinalizeDelayed, IdleInv
<1>3. CASE ListReceipts
  BY <1>3 DEF ListReceipts, IdleInv, TypeInv, ClientType
<1>4. CASE UploadEnds \/ CrashRun
  BY <1>4 DEF UploadEnds, CrashRun, LanesGone, NoLane, IdleInv
<1>5. ASSUME NEW f \in Files, Lane(f) PROVE IdleInv'
  <2>1. run.pc = "upload"
    BY <1>5 DEF Lane, Prepare, Put, PutFails, ResumeAfterConflict, SendAccept, ReceiveAccept,
       AcceptBreaks, ServeLookup, ReceiveLookup, At
  <2>2. run' = run \/ run' = [run EXCEPT !.view = lane[f].got]
    BY <1>5 DEF Lane, Prepare, Put, PutFails, ResumeAfterConflict, SendAccept, ReceiveAccept,
       AcceptBreaks, ServeLookup, ReceiveLookup, Accepted
  <2> QED
    BY <2>1, <2>2 DEF IdleInv, TypeInv, ClientType
<1>6. ASSUME NEW c \in calls, Handle(c) PROVE IdleInv'
  <2>1. run' = run /\ (lane' = lane \/ c.mine)
    BY <1>6 DEF Handle, AcceptPrepares, AcceptReads, AcceptCleansUp, AcceptStores, Advance,
       Answer, AnswerWith
  <2>2. c.mine => run.pc = "upload"
    BY DEF TypeInv, LockInv, Awaited
  <2> QED
    BY <2>1, <2>2 DEF IdleInv
<1>7. ASSUME NEW f \in Files, LatePut(f) \/ LeaseExpires(f) PROVE UNCHANGED <<run, lane>>
  BY <1>7 DEF LatePut, LeaseExpires
<1>8. ASSUME NEW rev \in late.finals, LateFinalize(rev) PROVE UNCHANGED <<run, lane>>
  BY <1>8 DEF LateFinalize
<1>9. ASSUME NEW w \in Workers, Work(w) PROVE UNCHANGED <<run, lane>>
  BY <1>9 DEF Work, Claim, Delete, Complete, Fail, CrashWorker
<1>10. CASE Consent \/ ConsentExpires \/ SessionLapses \/ UNCHANGED vars
  BY <1>1, <1>10 DEF Consent, ConsentExpires, SessionLapses, vars
<1> QED
  BY <1>1, <1>2, <1>3, <1>4, <1>5, <1>6, <1>7, <1>8, <1>9, <1>10 DEF Next

(* The run, *)
LEMMA ViewBegin ==
    ASSUME TypeInv, IdleInv, ViewInv, UploadRecognised, Begin
    PROVE  ViewInv' /\ UploadRecognised'
<1> USE DEF TypeInv, server, client, bounds
<1>0. run.pc = "begin" /\ UNCHANGED <<receipt, lane, late>>
  BY DEF Begin
<1>1. session' = session \/ (session.st = "none" /\ session'.st = "in_progress"
                             /\ session'.acc = {} /\ session'.rev = 1)
  BY DEF Begin
<1>2. session'.st # "none" => session'.rev \in Nat /\ session'.acc \subseteq Files
  BY <1>1 DEF ServerType
<1>3. \A f \in Files : lane'[f].pc # "lookup" /\ lane'[f].ans # "already_accepted"
                       /\ lane'[f].got = None
  BY <1>0, IdleLanes
<1>4. \A f \in Files : Answered(f)'
  BY <1>3 DEF Answered
<1>5. session.st = "none" => ~Settling
  BY ImportAssumption DEF ViewInv, SessionInv, Settling
<1>6. Settling' => Settling /\ session' = session
  BY <1>0, <1>1, <1>5 DEF Settling
<1>7. \A rev \in late'.finals : rev = LastRevision'
  BY <1>0, <1>6 DEF ViewInv, LastRevision, Settling
<1>8. CASE Ended
  <2>1. run'.pc = "idle"
    BY <1>8, Ending
  <2> QED
    BY <1>4, <1>6, <1>7, <2>1 DEF ViewInv, UploadRecognised
<1>9. CASE ~Ended
  <2>1. /\ session'.st # "none"
        /\ run' = [pc |-> IF session'.st = "verified" THEN "finalize" ELSE "receipts",
                   view |-> [st |-> session'.st, rev |-> session'.rev, acc |-> session'.acc,
                             exp |-> receipt]]
    BY <1>9 DEF Begin, ReplayRevision
  <2>2. CASE session'.st = "verified"
    <3>1. run'.pc = "finalize" /\ run'.view.exp = receipt /\ Settling'
      BY <2>1, <2>2 DEF Settling
    <3> QED
      BY <1>0, <1>4, <1>6, <1>7, <2>2, <3>1 DEF ViewInv, UploadRecognised, LastRevision
  <2>3. CASE session'.st # "verified"
    <3>1. /\ run'.pc = "receipts" /\ run'.view.acc = session'.acc /\ run'.view.rev = session'.rev
      BY <2>1, <2>3
    <3>2. Past(run.view)'
      BY <1>2, <2>1, <2>3, <3>1 DEF Past, LastRevision
    <3> QED
      BY <1>4, <1>6, <1>7, <3>1, <3>2 DEF ViewInv, UploadRecognised
  <2> QED
    BY <2>2, <2>3
<1> QED
  BY <1>8, <1>9

(* What the run learns from the receipts is true of the server. *)
LEMMA ViewListReceipts ==
    ASSUME TypeInv, IdleInv, ViewInv, UploadRecognised, ListReceipts
    PROVE  ViewInv' /\ UploadRecognised'
<1> USE DEF TypeInv, server, client, bounds
<1>0. run.pc = "receipts" /\ UNCHANGED <<session, receipt, late>>
  BY DEF ListReceipts
<1>1. CASE Ended /\ UNCHANGED lane
  <2>1. \A f \in Files : lane'[f].pc # "lookup" /\ lane'[f].ans # "already_accepted"
                         /\ lane'[f].got = None
    BY <1>0, <1>1, IdleLanes
  <2> QED
    BY <1>0, <1>1, <2>1, ViewEnded DEF ViewInv, Settling
<1>2. CASE ~(Ended /\ UNCHANGED lane)
  <2>1. /\ session.rev = run.view.rev /\ run' = [run EXCEPT !.pc = "upload"]
        /\ lane' = [f \in Files |->
               [NoLane EXCEPT !.pc = IF f \in session.acc THEN "skipped" ELSE "prepare"]]
    BY <1>2 DEF ListReceipts
  <2>2. run'.pc = "upload" /\ run'.view = run.view
    BY <2>1 DEF ClientType
  <2>3. Past(run.view) /\ run.view.acc = session.acc
    BY <1>0, <2>1 DEF ViewInv, Past
  <2>4. \A f \in Files : /\ lane'[f].pc = IF f \in session.acc THEN "skipped" ELSE "prepare"
                         /\ lane'[f].ans = None /\ lane'[f].got = None
    BY <2>1 DEF NoLane
  <2>5. \A f \in Files : Answered(f)'
    BY <2>4, NoneAssumption DEF Answered, Errors
  <2>6. UploadRecognised'
    BY <2>2, <2>3, <2>4 DEF UploadRecognised
  <2>7. Past(run.view)'
    BY <1>0, <2>2, <2>3 DEF Past, LastRevision
  <2> QED
    BY <1>0, <2>2, <2>3, <2>4, <2>5, <2>6, <2>7 DEF ViewInv, Settling, LastRevision
<1> QED
  BY <1>1, <1>2

(* The verdict of the upload follows from what the lanes know. *)
LEMMA ViewUploadEnds ==
    ASSUME TypeInv, ViewInv, UploadRecognised, UploadEnds PROVE ViewInv' /\ UploadRecognised'
<1> USE DEF TypeInv, server, client, bounds
<1>0. run.pc = "upload" /\ UNCHANGED <<session, receipt, late>> /\ LanesGone
  BY DEF UploadEnds
<1>1. \A f \in Files : lane'[f].pc = "none" /\ lane'[f].ans = None /\ lane'[f].got = None
  BY <1>0 DEF LanesGone, NoLane
<1>2. \A f \in Files : Answered(f)'
  BY <1>1, NoneAssumption DEF Answered, Errors
<1>3. (run'.pc = "idle") \/ (/\ run'.pc = "finalize" /\ run'.view.exp = run.view.rev
                             /\ run.view.acc = Files)
  <2>1. CASE Ended
    BY <2>1, Ending
  <2>2. CASE ~Ended
    <3>1. run' = [run EXCEPT !.pc = "finalize", !.view.exp = run.view.rev] /\ run.view.acc = Files
      BY <2>2 DEF UploadEnds
    <3> QED
      BY <3>1 DEF ClientType, Views
  <2> QED
    BY <2>1, <2>2
<1>4. Past(run.view) /\ session.acc \subseteq Files
  BY <1>0 DEF ViewInv, ServerType
<1> QED
  BY <1>0, <1>2, <1>3, <1>4 DEF ViewInv, UploadRecognised, Past, Settling, LastRevision

(* finalisation, *)
LEMMA ViewFinalize ==
    ASSUME TypeInv, IdleInv, ViewInv, UploadRecognised, Finalize \/ FinalizeDelayed
    PROVE  ViewInv' /\ UploadRecognised'
<1> USE DEF TypeInv, server, client, bounds
<1>0. run.pc = "finalize" /\ UNCHANGED lane /\ Ended
  BY DEF Finalize, FinalizeDelayed
<1>1. \A f \in Files : lane'[f].pc # "lookup" /\ lane'[f].ans # "already_accepted"
                       /\ lane'[f].got = None
  BY <1>0, IdleLanes
<1>2. session.acc = Files /\ run.view.exp = LastRevision /\ run.view.exp \in Nat
  BY <1>0 DEF ViewInv, ClientType, Views
<1>3. CASE FinalizeDelayed
  <2>1. /\ UNCHANGED <<session, receipt>> /\ late'.finals = late.finals \cup {run.view.exp}
    BY <1>3 DEF FinalizeDelayed, LateType
  <2> QED
    BY <1>0, <1>1, <1>2, <2>1, ViewEnded DEF ViewInv
<1>4. CASE Finalize
  <2>0. UNCHANGED late
    BY <1>4 DEF Finalize
  <2>1. CASE UNCHANGED <<session, receipt>>
    BY <1>0, <1>1, <1>2, <2>0, <2>1, ViewEnded DEF ViewInv
  <2>2. CASE ~UNCHANGED <<session, receipt>>
    <3>1. /\ session.st = "in_progress" /\ session'.acc = Files /\ session'.st = "verified"
          /\ receipt' = run.view.exp
      BY <1>2, <1>4, <2>2, Finalizing DEF Finalize, ServerType
    <3>2. LastRevision' = LastRevision
      BY <1>2, <3>1 DEF LastRevision
    <3>3. run'.pc = "idle" /\ \A f \in Files : Answered(f)'
      BY <1>0, <1>1, Ending DEF Answered
    <3> QED
      BY <2>0, <3>1, <3>2, <3>3 DEF ViewInv, UploadRecognised
  <2> QED
    BY <2>1, <2>2
<1> QED
  BY <1>3, <1>4

(* A finalization that comes late changes nothing that the run relies on. *)
LEMMA ViewLateFinalize ==
    ASSUME TypeInv, IdleInv, ViewInv, UploadRecognised, NEW rev \in late.finals, LateFinalize(rev)
    PROVE  ViewInv' /\ UploadRecognised'
<1> USE DEF TypeInv, server, client, bounds
<1>0. UNCHANGED <<run, lane>> /\ late'.finals = late.finals \ {rev} /\ rev \in Nat
  BY DEF LateFinalize, LateType
<1>1. /\ session.acc = Files /\ rev = LastRevision
      /\ run.pc \in {"receipts", "upload"} => run.view.acc = Files
      /\ run.pc = "upload" => \A f \in Files : lane[f].pc = "skipped"
  BY DEF ViewInv, Settling
<1>2. /\ session'.acc = Files /\ LastRevision' = LastRevision
      /\ session'.rev \in Nat /\ session.rev \in Nat /\ session.rev <= session'.rev
  <2>1. CASE UNCHANGED <<session, receipt>>
    BY <1>1, <2>1 DEF LastRevision, ServerType
  <2>2. CASE ~UNCHANGED <<session, receipt>>
    <3>1. /\ session.st = "in_progress" /\ receipt' = rev
          /\ session' = [session EXCEPT !.st = "verified", !.rev = @ + 1]
      BY <1>0, <2>2, Finalizing DEF LateFinalize
    <3>2. session'.st = "verified" /\ session'.acc = session.acc /\ session'.rev = session.rev + 1
          /\ session.rev \in Nat
      BY <3>1 DEF ServerType
    <3> QED
      BY <1>1, <3>1, <3>2 DEF LastRevision
  <2> QED
    BY <2>1, <2>2
<1>3. \A f \in Files : lane[f].pc \notin {"accept", "lookup"}
  BY <1>1 DEF IdleInv
<1>4. \A f \in Files : Answered(f)'
  <2>1. \A f \in Files : lane[f].ans = None /\ lane[f].got = None
    BY <1>3 DEF LockInv, Turn
  <2> QED
    BY <1>0, <1>3, <2>1, NoneAssumption DEF Answered, Errors
<1>5. run.pc \in {"receipts", "upload"} => Past(run.view)'
  <2> SUFFICES ASSUME run.pc \in {"receipts", "upload"} PROVE Past(run.view)'
    OBVIOUS
  <2>1. Past(run.view) /\ run.view.acc = Files /\ run.view.rev \in Nat
    BY <1>1 DEF ViewInv, ClientType, Views
  <2> QED
    BY <1>0, <1>1, <1>2, <2>1 DEF Past
<1> QED
  BY <1>0, <1>1, <1>2, <1>4, <1>5 DEF ViewInv, UploadRecognised

(* A run that died relies on nothing. *)
LEMMA ViewCrash ==
    ASSUME TypeInv, ViewInv, CrashRun PROVE ViewInv' /\ UploadRecognised'
<1> USE DEF TypeInv, server, client, bounds
<1>0. UNCHANGED <<session, receipt>> /\ Ended /\ LanesGone /\ late'.finals = late.finals
  BY DEF CrashRun, LateType
<1>1. \A f \in Files : lane'[f].pc # "lookup" /\ lane'[f].ans # "already_accepted"
                       /\ lane'[f].got = None
  BY <1>0, NoneAssumption DEF LanesGone, NoLane, Errors
<1> QED
  BY <1>0, <1>1, ViewEnded DEF ViewInv, Settling

(* the lanes, *)
LEMMA ViewLane ==
    ASSUME TypeInv, ViewInv, UploadRecognised, UNCHANGED <<session, receipt, run>>,
           late'.finals = late.finals, run.pc = "upload",
           NEW f \in Files, lane[f].pc # "skipped", \A g \in Files \ {f} : lane'[g] = lane[g],
           Answered(f)', lane'[f].pc \in {"ok", "skipped"} => lane'[f].pc = lane[f].pc
    PROVE  ViewInv' /\ UploadRecognised'
<1>1. ~Settling
  BY StillUploading
<1>2. ~Settling' /\ LastRevision' = LastRevision
  BY <1>1 DEF Settling, LastRevision
<1>3. \A g \in Files : Answered(g)'
  BY <1>2 DEF ViewInv, Answered, Past
<1>4. Past(run.view)'
  BY <1>2 DEF ViewInv, Past
<1>5. UploadRecognised'
  BY DEF UploadRecognised
<1> QED
  BY <1>2, <1>3, <1>4, <1>5 DEF ViewInv

(* A lane that goes on without learning anything keeps what the run knows  *)
(* true.                                                                   *)
LEMMA MovesOn ==
    ASSUME TypeInv, ViewInv, UploadRecognised, UNCHANGED <<session, receipt, run>>,
           late'.finals = late.finals, run.pc = "upload",
           NEW f \in Files, lane[f].pc # "skipped",
           NEW l \in LanePcs \ {"ok", "skipped"}, Move(f, l), l = "lookup" => f \in session.acc
    PROVE  ViewInv' /\ UploadRecognised'
<1>1. /\ lane'[f].pc = l /\ lane'[f].ans = None /\ lane'[f].got = None
      /\ \A g \in Files \ {f} : lane'[g] = lane[g]
  BY Moving DEF TypeInv
<1>2. Answered(f)'
  BY <1>1, NoneAssumption DEF Answered, Errors
<1> QED
  BY <1>1, <1>2, ViewLane

(* A lane whose file was accepted counts it once. *)
LEMMA ViewAccepted ==
    ASSUME TypeInv, ViewInv, UploadRecognised, UNCHANGED <<session, receipt, late>>,
           NEW f \in Files, run.pc = "upload", lane[f].pc # "skipped", lane[f].got # None,
           Accepted(f, lane[f].got)
    PROVE  ViewInv' /\ UploadRecognised'
<1> USE DEF TypeInv
<1>1. /\ lane'[f].pc = "ok" /\ lane'[f].ans = None /\ lane'[f].got = None
      /\ \A g \in Files \ {f} : lane'[g] = lane[g]
  BY Moving DEF Accepted, LanePcs
<1>2. /\ Past(lane[f].got) /\ f \in lane[f].got.acc /\ run.view.acc \subseteq lane[f].got.acc
  BY DEF ViewInv, Answered
<1>3. run'.pc = "upload" /\ run'.view = lane[f].got
  BY DEF Accepted, ClientType
<1>4. \A g \in Files \ {f} : lane[g].ans = None /\ lane[g].got = None
  BY OneTurn DEF LockInv, Turn
<1>5. ~Settling' /\ LastRevision' = LastRevision
  BY StillUploading DEF Settling, LastRevision
<1>6. \A g \in Files : Answered(g)'
  BY <1>1, <1>4, NoneAssumption DEF ViewInv, Answered, Errors
<1>7. Past(run.view)'
  BY <1>2, <1>3, <1>5 DEF Past
<1>8. UploadRecognised'
  BY <1>1, <1>2, <1>3 DEF UploadRecognised
<1> QED
  BY <1>3, <1>5, <1>6, <1>7, <1>8 DEF ViewInv

(* Every step of a lane keeps what the run knows true. *)
LEMMA ViewLanes ==
    ASSUME TypeInv, ViewInv, UploadRecognised, NEW f \in Files, Lane(f)
    PROVE  ViewInv' /\ UploadRecognised'
<1> USE DEF TypeInv, server, client, bounds
<1>0. /\ run.pc = "upload" /\ lane[f].pc # "skipped" /\ UNCHANGED <<session, receipt>>
      /\ late'.finals = late.finals
  BY DEF Lane, Prepare, Put, PutFails, ResumeAfterConflict, SendAccept, ReceiveAccept,
     AcceptBreaks, ServeLookup, ReceiveLookup, At, LateType
<1>1. CASE Prepare(f)
  <2>1. /\ UNCHANGED run
        /\ \E l \in {"put", "conflict", "failed", "lookup"} :
              Move(f, l) /\ (l = "lookup" => PrepareVerdict(f, Own(f).rev) = "already_accepted")
    BY <1>1 DEF Prepare, RetryOrFail
  <2>2. PrepareVerdict(f, Own(f).rev) = "already_accepted" => f \in session.acc
    BY DEF PrepareVerdict, SessionVerdict, FileVerdict
  <2>3. PICK l \in LanePcs \ {"ok", "skipped"} : Move(f, l) /\ (l = "lookup" => f \in session.acc)
    BY <2>1, <2>2 DEF LanePcs
  <2> QED
    BY <1>0, <2>1, <2>3, MovesOn
<1>2. CASE Put(f) \/ PutFails(f) \/ SendAccept(f) \/ AcceptBreaks(f)
  <2>1. UNCHANGED run /\ \E l \in {"await", "prepare", "failed", "accept"} : Move(f, l)
    BY <1>2 DEF Put, PutFails, SendAccept, AcceptBreaks, RetryOrFail
  <2>2. PICK l \in LanePcs \ {"ok", "skipped"} : Move(f, l) /\ l # "lookup"
    BY <2>1 DEF LanePcs
  <2> QED
    BY <1>0, <2>1, <2>2, MovesOn
<1>3. CASE ResumeAfterConflict(f)
  <2>0. UNCHANGED run
    BY <1>3 DEF ResumeAfterConflict
  <2>1. CASE \E l \in {"prepare", "failed"} : Move(f, l)
    <3>1. PICK l \in LanePcs \ {"ok", "skipped"} : Move(f, l) /\ l # "lookup"
      BY <2>1 DEF LanePcs
    <3> QED
      BY <1>0, <2>0, <3>1, MovesOn
  <2>2. CASE lane' = [lane EXCEPT ![f].pc = "prepare", ![f].priv = View]
    <3>1. /\ lane'[f].pc = "prepare" /\ lane'[f].ans = lane[f].ans /\ lane'[f].got = lane[f].got
          /\ \A g \in Files \ {f} : lane'[g] = lane[g]
      BY <2>2 DEF ClientType, Lanes
    <3>2. lane[f].ans = None /\ lane[f].got = None
      BY <1>3 DEF ResumeAfterConflict, At, LockInv, Turn
    <3>3. Answered(f)'
      BY <3>1, <3>2, NoneAssumption DEF Answered, Errors
    <3> QED
      BY <1>0, <2>0, <3>1, <3>3, ViewLane
  <2> QED
    BY <1>3, <2>1, <2>2 DEF ResumeAfterConflict, RetryOrFail
<1>4. CASE ReceiveAccept(f)
  <2>1. CASE lane[f].ans = "ok" /\ Accepted(f, lane[f].got)
    <3>1. lane[f].got # None /\ UNCHANGED late
      BY <1>4, <2>1 DEF ReceiveAccept, LockInv, Turn
    <3> QED
      BY <1>0, <2>1, <3>1, ViewAccepted
  <2>2. CASE /\ UNCHANGED run
             /\ \E l \in {"lookup", "conflict", "prepare", "failed"} :
                   Move(f, l) /\ (l = "lookup" => lane[f].ans = "already_accepted")
    <3>1. lane[f].ans = "already_accepted" => f \in session.acc
      BY DEF ViewInv, Answered
    <3>2. PICK l \in LanePcs \ {"ok", "skipped"} : Move(f, l) /\ (l = "lookup" => f \in session.acc)
      BY <2>2, <3>1 DEF LanePcs
    <3> QED
      BY <1>0, <2>2, <3>2, MovesOn
  <2> QED
    BY <1>4, <2>1, <2>2 DEF ReceiveAccept, RetryOrFail
<1>5. CASE ReceiveLookup(f)
  <2>1. CASE Accepted(f, lane[f].got)
    <3>1. lane[f].got # None /\ UNCHANGED late
      BY <1>5 DEF ReceiveLookup, At, LockInv, Turn
    <3> QED
      BY <1>0, <2>1, <3>1, ViewAccepted
  <2>2. CASE UNCHANGED run /\ \E l \in {"prepare", "failed"} : Move(f, l)
    <3>1. PICK l \in LanePcs \ {"ok", "skipped"} : Move(f, l) /\ l # "lookup"
      BY <2>2 DEF LanePcs
    <3> QED
      BY <1>0, <2>2, <3>1, MovesOn
  <2> QED
    BY <1>5, <2>1, <2>2 DEF ReceiveLookup, RetryOrFail
<1>6. CASE ServeLookup(f)
  <2>1. /\ UNCHANGED run /\ lane[f].pc = "lookup"
        /\ lane' = [lane EXCEPT ![f].ans = "ok", ![f].got = View]
    BY <1>6 DEF ServeLookup, At
  <2>2. /\ lane'[f].pc = "lookup" /\ lane'[f].ans = "ok" /\ lane'[f].got = View
        /\ \A g \in Files \ {f} : lane'[g] = lane[g]
    BY <2>1 DEF ClientType, Lanes
  <2>3. f \in session.acc /\ Past(run.view) /\ session.st # "verified"
    BY <1>0, <2>1, StillUploading DEF ViewInv, Answered, Settling
  <2>4. View.acc = session.acc /\ View.rev = session.rev /\ session.rev \in Nat
    BY DEF View, ServerType
  <2>5. PICK v : v = View
    OBVIOUS
  <2>6. /\ lane'[f].got = v /\ v.acc = session'.acc /\ v.rev = session'.rev
        /\ LastRevision' = session'.rev /\ f \in session'.acc
        /\ run'.view.acc \subseteq session'.acc
    BY <1>0, <2>1, <2>2, <2>3, <2>4, <2>5 DEF Past, LastRevision
  <2>7. /\ lane'[f].got.acc = session'.acc /\ lane'[f].got.rev = session'.rev
        /\ session'.rev \in Nat
    BY <1>0, <2>4, <2>6
  <2>8. Past(lane[f].got)'
    BY <2>6, <2>7 DEF Past
  <2>9. Answered(f)'
    BY <2>6, <2>7, <2>8 DEF Answered
  <2> QED
    BY <1>0, <2>1, <2>2, <2>9, ViewLane
<1> QED
  BY <1>1, <1>2, <1>3, <1>4, <1>5, <1>6 DEF Lane

(* and the service. *)
LEMMA ViewHandle ==
    ASSUME TypeInv, ViewInv, UploadRecognised, NEW c \in calls, Handle(c)
    PROVE  ViewInv' /\ UploadRecognised'
<1> USE DEF TypeInv, server, client, bounds
<1>0. c.file \in Files /\ UNCHANGED <<receipt, run, late>>
  BY DEF CallType, Calls, Handle, AcceptPrepares, AcceptReads, AcceptCleansUp, AcceptStores
<1>1. c.mine => run.pc = "upload" /\ lane[c.file].pc = "accept"
  BY DEF LockInv, Awaited
<1>2. CASE UNCHANGED <<session, lane>>
  BY <1>0, <1>2, ViewFrame
<1>3. ASSUME NEW a \in Errors, Answer(c, a), c.mine, UNCHANGED session,
             a = "already_accepted" => c.file \in session.acc
      PROVE  ViewInv' /\ UploadRecognised'
  <2>1. lane' = [lane EXCEPT ![c.file].ans = a, ![c.file].got = None]
    BY <1>3 DEF Answer, AnswerWith
  <2>2. /\ lane'[c.file].pc = "accept" /\ lane'[c.file].ans = a /\ lane'[c.file].got = None
        /\ \A g \in Files \ {c.file} : lane'[g] = lane[g]
    BY <1>0, <1>1, <1>3, <2>1 DEF ClientType, Lanes
  <2>3. PICK f \in Files : f = c.file
    BY <1>0
  <2>4. Answered(f)'
    BY <1>3, <2>2, <2>3 DEF Answered
  <2> QED
    BY <1>0, <1>1, <1>3, <2>2, <2>3, <2>4, ViewLane
<1>4. CASE AcceptStores(c) /\ ~UNCHANGED session
  <2> DEFINE s == [session EXCEPT !.acc = @ \cup {c.file}, !.rev = @ + 1]
             v == [st |-> s.st, rev |-> s.rev, acc |-> s.acc, exp |-> 0]
  <2>1. AcceptVerdict(c.file, c.rev) = "ok" /\ session' = s /\ AnswerWith(c, "ok", v)
    BY <1>4 DEF AcceptStores
  <2>2. session.st = "in_progress" /\ c.file \notin session.acc
    BY <2>1 DEF AcceptVerdict, SessionVerdict, FileVerdict
  <2>3. /\ session'.st = "in_progress" /\ session'.rev = session.rev + 1 /\ session.rev \in Nat
        /\ session'.acc = session.acc \cup {c.file}
    BY <2>1, <2>2 DEF ServerType
  <2>4. v.acc = session'.acc /\ v.rev = session'.rev
    BY <2>1
  <2> HIDE DEF v, s
  <2>5. ~Settling /\ ~Settling' /\ run.pc # "finalize" /\ late.finals = {}
    BY <1>0, <2>2, <2>3 DEF ViewInv, Settling
  <2>6. ASSUME NEW u \in Views, Past(u)
        PROVE  /\ u.acc \subseteq session'.acc /\ u.rev <= session'.rev
               /\ u.rev = session'.rev => u.acc = session'.acc
               /\ u.acc = Files => u.rev = LastRevision'
    BY <1>0, <2>2, <2>3, <2>6 DEF Past, Views, ServerType
  <2>7. run.pc \in {"receipts", "upload"} => Past(run.view)'
    BY <1>0, <2>6 DEF ViewInv, ClientType, Past
  <2>8. ASSUME NEW g \in Files, lane'[g] = lane[g] PROVE Answered(g)'
    <3>1. lane[g].got \in Views \cup {None} /\ Answered(g)
      BY DEF ViewInv, ClientType, Lanes
    <3>2. lane[g].got # None => Past(lane[g].got)'
      BY <2>6, <2>8, <3>1 DEF Answered, Past
    <3> QED
      BY <1>0, <2>3, <2>8, <3>1, <3>2 DEF Answered
  <2>9. CASE ~c.mine
    <3>1. UNCHANGED lane
      BY <2>1, <2>9 DEF AnswerWith
    <3> QED
      BY <1>0, <2>5, <2>7, <2>8, <3>1 DEF ViewInv, UploadRecognised
  <2>10. CASE c.mine
    <3>1. lane' = [lane EXCEPT ![c.file].ans = "ok", ![c.file].got = v]
      BY <2>1, <2>10 DEF AnswerWith
    <3>2. /\ lane'[c.file].pc = "accept" /\ lane'[c.file].ans = "ok" /\ lane'[c.file].got = v
          /\ \A g \in Files \ {c.file} : lane'[g] = lane[g]
          /\ \A g \in Files : lane'[g].pc = lane[g].pc
      BY <1>0, <1>1, <2>10, <3>1 DEF ClientType, Lanes
    <3>3. PICK f \in Files : f = c.file
      BY <1>0
    <3>4. run.view.acc \subseteq session.acc
      BY <1>1, <2>10 DEF ViewInv, Past
    <3>5. Answered(f)'
      BY <1>0, <2>3, <2>4, <3>2, <3>3, <3>4 DEF Answered, Past, LastRevision
    <3>6. \A g \in Files : Answered(g)'
      BY <2>8, <3>2, <3>3, <3>5
    <3>7. UploadRecognised'
      BY <1>0, <3>2 DEF UploadRecognised
    <3> QED
      BY <1>0, <2>5, <2>7, <3>6, <3>7 DEF ViewInv
  <2> QED
    BY <2>9, <2>10
<1>5. CASE AcceptStores(c) /\ UNCHANGED session
  <2>0. session.rev # session.rev + 1
    BY DEF ServerType
  <2>1. Answer(c, AcceptVerdict(c.file, c.rev)) /\ AcceptVerdict(c.file, c.rev) # "ok"
    BY <1>5, <2>0 DEF AcceptStores, ServerType
  <2>2. AcceptVerdict(c.file, c.rev) = "already_accepted" => c.file \in session.acc
    BY DEF AcceptVerdict, SessionVerdict, FileVerdict
  <2>3. ~c.mine => UNCHANGED lane
    BY <2>1 DEF Answer, AnswerWith
  <2> QED
    BY <1>2, <1>3, <1>5, <2>1, <2>2, <2>3, Verdicts
<1>6. CASE AcceptPrepares(c)
  <2>1. UNCHANGED session
    BY <1>6 DEF AcceptPrepares
  <2>2. PrepareVerdict(c.file, c.rev) = "already_accepted" => c.file \in session.acc
    BY DEF PrepareVerdict, SessionVerdict, FileVerdict
  <2>3. UNCHANGED lane \/ (/\ c.mine /\ PrepareVerdict(c.file, c.rev) # "ok"
                           /\ Answer(c, PrepareVerdict(c.file, c.rev)))
    BY <1>6 DEF AcceptPrepares, Advance, Answer, AnswerWith
  <2> QED
    BY <1>2, <1>3, <2>1, <2>2, <2>3, Verdicts
<1>7. CASE AcceptReads(c) \/ AcceptCleansUp(c)
  <2>1. UNCHANGED session
    BY <1>7 DEF AcceptReads, AcceptCleansUp
  <2>2. \/ UNCHANGED lane
        \/ c.mine /\ \E a \in {"temporarily_unavailable", "stored_object_conflict"} : Answer(c, a)
    BY <1>7 DEF AcceptReads, AcceptCleansUp, Advance, Answer, AnswerWith
  <2> QED
    BY <1>2, <1>3, <2>1, <2>2 DEF Errors
<1> QED
  BY <1>4, <1>5, <1>6, <1>7 DEF Handle

(* Every step keeps what the run knows true of the server. *)
LEMMA ViewNext ==
    ASSUME TypeInv, IdleInv, ViewInv, UploadRecognised, [Next]_vars
    PROVE  ViewInv' /\ UploadRecognised'
<1> USE DEF server, client, bounds
<1>1. CASE UNCHANGED vars
  BY <1>1, ViewFrame DEF vars
<1>2. CASE StartRun
  <2>1. run'.pc = "begin" /\ UNCHANGED <<session, receipt, lane, late>> /\ run.pc = "idle"
        /\ run'.view = run.view
    BY <1>2 DEF StartRun, TypeInv, ClientType
  <2> QED
    BY <2>1 DEF ViewInv, UploadRecognised, Answered, Past, LastRevision, Settling
<1>3. ASSUME NEW f \in Files, LatePut(f) \/ LeaseExpires(f) PROVE ViewInv' /\ UploadRecognised'
  BY <1>3, ViewFrame DEF LatePut, LeaseExpires, TypeInv, LateType
<1>4. ASSUME NEW w \in Workers, Work(w) PROVE ViewInv' /\ UploadRecognised'
  <2>1. UNCHANGED <<session, receipt, run, lane, late>>
    BY <1>4 DEF Work, Claim, Delete, Complete, Fail, CrashWorker
  <2> QED
    BY <2>1, ViewFrame
<1>5. CASE Consent \/ ConsentExpires \/ SessionLapses
  BY <1>5, ViewFrame DEF Consent, ConsentExpires, SessionLapses
<1> QED
  BY <1>1, <1>2, <1>3, <1>4, <1>5, ViewBegin, ViewListReceipts, ViewUploadEnds, ViewFinalize,
     ViewLateFinalize, ViewCrash, ViewLanes, ViewHandle DEF Next

(* At the start nothing is known. *)
LEMMA ViewInit == Init => TypeInv /\ IdleInv /\ ViewInv /\ UploadRecognised
<1> SUFFICES ASSUME Init PROVE TypeInv /\ IdleInv /\ ViewInv /\ UploadRecognised
  OBVIOUS
<1>1. IdleInv
  BY DEF Init, IdleInv, NoLane
<1>2. run.pc = "idle" /\ late.finals = {} /\ session.st = "none"
  BY DEF Init
<1>3. \A f \in Files : Answered(f)
  BY NoneAssumption DEF Init, Answered, NoLane, Errors
<1> QED
  BY <1>1, <1>2, <1>3, TypeInit DEF ViewInv, UploadRecognised, Settling

(* What a run knows is true of the server in every state. *)
LEMMA ViewAlways == Spec => [](TypeInv /\ IdleInv /\ ViewInv /\ UploadRecognised)
<1>1. Init => TypeInv /\ IdleInv /\ ViewInv /\ UploadRecognised
  BY ViewInit
<1>2. /\ TypeInv /\ IdleInv /\ ViewInv /\ UploadRecognised
      /\ [Next]_vars
      => (TypeInv /\ IdleInv /\ ViewInv /\ UploadRecognised)'
  BY TypeNext, IdleNext, ViewNext
<1> QED
  BY <1>1, <1>2, PTL DEF Spec

(* No lane takes the shared session back behind an accepted file: with     *)
(* every interleaving of the lanes of uploadFiles, conflicts, private      *)
(* sessions and lost answers, a file that is done is in the session the    *)
(* run compares with its files.                                            *)
THEOREM UploadIsRecognised == Spec => []UploadRecognised
  BY ViewAlways, PTL

(* A finalisation that comes after the verified one is answered with its   *)
(* stored result, whoever sent it: every run and every delayed request     *)
(* asks for the revision at which the session was complete.                *)
THEOREM FinalizationsAgree == Spec => []FinalizeAnswersAgree
<1>1. TypeInv /\ ViewInv => FinalizeAnswersAgree
  <2> SUFFICES ASSUME TypeInv, ViewInv, session.st = "verified",
                      NEW rev \in late.finals \cup {run.view.exp : r \in {run.pc} \cap {"finalize"}}
               PROVE  FinalizeVerdict(rev) = "ok"
    BY DEF FinalizeAnswersAgree
  <2>1. rev = LastRevision
    BY DEF ViewInv
  <2>2. receipt # 0 /\ rev = receipt
    BY <2>1 DEF LastRevision, TypeInv, SessionInv
  <2> QED
    BY <2>2 DEF FinalizeVerdict
<1> QED
  BY <1>1, ViewAlways, PTL

-----------------------------------------------------------------------------
(* The bucket. *)

(* A step that accepts no file, leaves the cleanup alone, overwrites no    *)
(* object and lets calls only begin or end.                                *)
LEMMA BucketFrame ==
    ASSUME TypeInv, BucketInv, UNCHANGED <<cleanup, worker>>, session'.acc = session.acc,
           \A f \in Files : objects[f] # "absent" => objects'[f] = objects[f],
           \A c \in calls' : \/ c.at = "prepare"
                             \/ \E d \in calls : c.file = d.file /\ c.at = d.at
    PROVE  BucketInv'
<1> USE DEF TypeInv
<1>1. Kept'
  BY DEF BucketInv, Kept, CleanupActive, ServerType
<1>2. Compared'
  <2> SUFFICES ASSUME NEW c \in calls', c.at # "prepare"
               PROVE  /\ c.at = "store" => objects'[c.file] = "good"
                      /\ c.at = "cleanup" => objects'[c.file] = "bad"
    BY DEF Compared
  <2>1. PICK d \in calls : c.file = d.file /\ c.at = d.at
    OBVIOUS
  <2>2. d.file \in Files
    BY DEF CallType, Calls
  <2> QED
    BY <2>1, <2>2 DEF BucketInv, Compared
<1>3. Alone'
  BY DEF BucketInv, Alone
<1>4. Deleting'
  BY DEF BucketInv, Deleting, Holds
<1> QED
  BY <1>1, <1>2, <1>3, <1>4 DEF BucketInv

(* The run and its lanes. *)
LEMMA BucketRun ==
    ASSUME TypeInv, BucketInv,
           \/ StartRun \/ Begin \/ ListReceipts \/ UploadEnds \/ Finalize \/ FinalizeDelayed
           \/ Consent \/ ConsentExpires \/ SessionLapses
           \/ \E rev \in late.finals : LateFinalize(rev)
    PROVE  BucketInv'
<1> USE DEF TypeInv, server, client, bounds
<1>1. UNCHANGED <<cleanup, worker, objects, calls>>
  BY DEF StartRun, Begin, ListReceipts, UploadEnds, Finalize, FinalizeDelayed, Consent,
     ConsentExpires, SessionLapses, LateFinalize
<1>2. session'.acc = session.acc
  <2>1. CASE Begin
    BY <2>1 DEF Begin, SessionInv
  <2>2. ASSUME NEW rev, FinalizeSession(rev) PROVE session'.acc = session.acc
    BY <2>2 DEF FinalizeSession, ServerType
  <2> QED
    BY <2>1, <2>2 DEF StartRun, ListReceipts, UploadEnds, Finalize, FinalizeDelayed, Consent,
       ConsentExpires, SessionLapses, LateFinalize
<1> QED
  BY <1>1, <1>2, BucketFrame

(* An object that is stored is never replaced. *)
LEMMA Storing ==
    ASSUME BucketType, NEW f \in Files, NEW o, Stored(f, o)
    PROVE  \A g \in Files : objects[g] # "absent" => objects'[g] = objects[g]
  BY DEF Stored, BucketType

(* A lane stores only what its file needs. *)
LEMMA BucketLane ==
    ASSUME TypeInv, BucketInv, NEW f \in Files, Lane(f) \/ LatePut(f) PROVE BucketInv'
<1> USE DEF TypeInv, server, client, bounds
<1>1. UNCHANGED <<cleanup, worker, session>>
  BY DEF Lane, Prepare, Put, PutFails, ResumeAfterConflict, SendAccept, ReceiveAccept,
     AcceptBreaks, ServeLookup, ReceiveLookup, LatePut
<1>2. \A g \in Files : objects[g] # "absent" => objects'[g] = objects[g]
  <2>1. UNCHANGED objects \/ \E o : Stored(f, o)
    BY DEF Lane, Prepare, Put, PutFails, ResumeAfterConflict, SendAccept, ReceiveAccept,
       AcceptBreaks, ServeLookup, ReceiveLookup, LatePut
  <2> QED
    BY <2>1, Storing
<1>3. \A c \in calls' : c.at = "prepare" \/ \E d \in calls : c.file = d.file /\ c.at = d.at
  <2>1. CASE SendAccept(f)
    BY <2>1 DEF SendAccept
  <2>2. CASE AcceptBreaks(f)
    BY <2>2, Abandoning DEF AcceptBreaks
  <2>3. CASE UNCHANGED calls
    BY <2>3
  <2> QED
    BY <2>1, <2>2, <2>3 DEF Lane, Prepare, Put, PutFails, ResumeAfterConflict, ReceiveAccept,
       ServeLookup, ReceiveLookup, LatePut
<1> QED
  BY <1>1, <1>2, <1>3, BucketFrame

(* A run that dies leaves the objects alone. *)
LEMMA BucketCrash == ASSUME TypeInv, BucketInv, CrashRun PROVE BucketInv'
<1> USE DEF TypeInv, server, client, bounds
<1>1. UNCHANGED <<cleanup, worker, session, objects>>
  BY DEF CrashRun
<1>2. \A c \in calls' : \E d \in calls : c.file = d.file /\ c.at = d.at
  BY Abandoning DEF CrashRun
<1> QED
  BY <1>1, <1>2, BucketFrame

(* The service: a call that passes the preparation has no cleanup in its   *)
(* way, and what it saw of the bucket stays so until it ends.              *)
LEMMA BucketAdvance ==
    ASSUME TypeInv, BucketInv, NEW c \in calls, NEW to \in {"read", "store", "cleanup"},
           Advance(c, to), UNCHANGED <<session, objects, cleanup, worker>>,
           cleanup[c.file].st # "claimed", to = "store" => objects[c.file] = "good",
           to = "cleanup" => objects[c.file] = "bad"
    PROVE  BucketInv'
<1> USE DEF TypeInv
<1>1. PICK new : /\ new = [c EXCEPT !.at = to] /\ new.file = c.file /\ new.at = to
                 /\ calls' = (calls \ {c}) \cup {new}
  BY DEF Advance, CallType, Calls
<1>2. Kept'
  BY DEF BucketInv, Kept, CleanupActive
<1>3. Compared'
  BY <1>1 DEF BucketInv, Compared
<1>4. Alone'
  BY <1>1 DEF BucketInv, Alone
<1>5. Deleting'
  BY DEF BucketInv, Deleting, Holds
<1> QED
  BY <1>2, <1>3, <1>4, <1>5 DEF BucketInv

(* The server compares the object under the lock of the session before it  *)
(* accepts the file.                                                       *)
LEMMA BucketHandle ==
    ASSUME TypeInv, BucketInv, NEW c \in calls, Handle(c) PROVE BucketInv'
<1> USE DEF TypeInv, server, client, bounds
<1>0. c.file \in Files /\ UNCHANGED worker
  BY DEF CallType, Calls, Handle, AcceptPrepares, AcceptReads, AcceptCleansUp, AcceptStores
<1>1. ASSUME NEW a, NEW v, AnswerWith(c, a, v), UNCHANGED <<session, objects, cleanup>>
      PROVE  BucketInv'
  <2>1. calls' \subseteq calls
    BY <1>1 DEF AnswerWith
  <2> QED
    BY <1>0, <1>1, <2>1, BucketFrame
<1>2. CASE AcceptPrepares(c)
  <2>1. CASE PrepareVerdict(c.file, c.rev) = "ok"
    <3>1. cleanup[c.file].st # "claimed"
      BY <2>1 DEF PrepareVerdict, FileVerdict, CleanupActive
    <3> QED
      BY <1>0, <1>2, <2>1, <3>1, BucketAdvance DEF AcceptPrepares
  <2>2. CASE PrepareVerdict(c.file, c.rev) # "ok"
    BY <1>1, <1>2, <2>2 DEF AcceptPrepares, Answer
  <2> QED
    BY <2>1, <2>2
<1>3. CASE AcceptReads(c)
  <2>1. cleanup[c.file].st # "claimed"
    BY <1>0, <1>3 DEF AcceptReads, BucketInv, Alone
  <2> QED
    BY <1>0, <1>1, <1>3, <2>1, BucketAdvance DEF AcceptReads, Answer
<1>4. CASE AcceptCleansUp(c)
  <2>1. CASE UNCHANGED cleanup
    BY <1>1, <1>4, <2>1 DEF AcceptCleansUp, Answer
  <2>2. CASE ~UNCHANGED cleanup
    <3>1. PICK job : /\ job.st = "queued" /\ cleanup' = [cleanup EXCEPT ![c.file] = job]
      BY <1>4, <2>2 DEF AcceptCleansUp, NoJob
    <3>2. cleanup[c.file].st \in {"none", "completed"} /\ objects[c.file] = "bad"
      BY <1>4, <2>2 DEF AcceptCleansUp, BucketInv, Compared
    <3>3. calls' \subseteq calls /\ UNCHANGED <<session, objects>>
      BY <1>4 DEF AcceptCleansUp, Answer, AnswerWith
    <3>4. /\ cleanup'[c.file].st = "queued"
          /\ \A g \in Files \ {c.file} : cleanup'[g] = cleanup[g]
      BY <1>0, <3>1 DEF BucketType
    <3>5. Kept'
      BY <3>2, <3>3, <3>4 DEF BucketInv, Kept, CleanupActive, ServerType
    <3>6. Compared' /\ Alone'
      BY <3>3, <3>4 DEF BucketInv, Compared, Alone
    <3>7. Deleting'
      BY <1>0, <3>2, <3>4 DEF BucketInv, Deleting, Holds, WorkerType
    <3> QED
      BY <3>5, <3>6, <3>7 DEF BucketInv
  <2> QED
    BY <2>1, <2>2
<1>5. CASE AcceptStores(c)
  <2>1. CASE UNCHANGED session
    BY <1>1, <1>5, <2>1 DEF AcceptStores, Answer
  <2>2. CASE ~UNCHANGED session
    <3>1. AcceptVerdict(c.file, c.rev) = "ok" /\ session'.acc = session.acc \cup {c.file}
      BY <1>5, <2>2 DEF AcceptStores, ServerType
    <3>2. ~CleanupActive(c.file)
      BY <3>1 DEF AcceptVerdict, FileVerdict
    <3>3. objects[c.file] = "good" /\ UNCHANGED <<objects, cleanup>> /\ calls' \subseteq calls
      BY <1>5 DEF AcceptStores, BucketInv, Compared, Answer, AnswerWith
    <3>4. Kept'
      BY <3>1, <3>2, <3>3 DEF BucketInv, Kept, CleanupActive
    <3>5. Compared' /\ Alone'
      BY <3>3 DEF BucketInv, Compared, Alone
    <3>6. Deleting'
      BY <1>0, <3>3 DEF BucketInv, Deleting, Holds
    <3> QED
      BY <3>4, <3>5, <3>6 DEF BucketInv
  <2> QED
    BY <2>1, <2>2
<1> QED
  BY <1>2, <1>3, <1>4, <1>5 DEF Handle

(* The workers: an unfinished job stays unfinished until its file is free, *)
(* and the claim of a worker that deletes is not taken away.               *)
LEMMA BucketClaim ==
    ASSUME ~Slow, TypeInv, BucketInv, NEW w \in Workers, Claim(w) PROVE BucketInv'
<1> USE DEF TypeInv, server, client, bounds
<1> DEFINE swept == [f \in Files |-> IF Exhausted(f)
                       THEN [cleanup[f] EXCEPT !.st = "dead_lettered", !.token = None, !.leased = FALSE]
                       ELSE cleanup[f]]
<1>1. \A f \in Files :
         /\ ~Exhausted(f) => swept[f] = cleanup[f]
         /\ Exhausted(f) => Claimable(f) /\ swept[f].st = "dead_lettered"
  BY Unclaimed DEF Exhausted
<1>2. \/ cleanup' = swept /\ UNCHANGED worker
      \/ \E f \in Files :
            /\ Claimable(f) /\ \A c \in calls : c.file # f
            /\ cleanup' = [swept EXCEPT ![f] = [st |-> "claimed", token |-> w, leased |-> TRUE,
                                                attempts |-> cleanup[f].attempts + 1]]
            /\ worker' = [worker EXCEPT ![w] = [pc |-> "delete", file |-> f]]
  BY DEF Claim
<1>3. DOMAIN swept = Files
  OBVIOUS
<1> HIDE DEF swept
<1>4. UNCHANGED <<session, objects, calls>>
  BY DEF Claim
<1>5. \A v \in Workers : worker[v].pc = "delete" =>
         worker[v].file \in Files /\ Holds(v) /\ ~Claimable(worker[v].file)
  BY DEF BucketInv, Deleting, Holds, Claimable, WorkerType
<1>6. \A f \in Files : Claimable(f) => CleanupActive(f)
  BY DEF Claimable, CleanupActive
<1>7. \A f \in session.acc : f \in Files /\ ~Claimable(f) /\ swept[f] = cleanup[f]
  BY <1>1, <1>6 DEF BucketInv, Kept, ServerType
<1>8. CASE cleanup' = swept /\ UNCHANGED worker
  <2>1. Kept'
    BY <1>4, <1>7, <1>8 DEF BucketInv, Kept, CleanupActive
  <2>2. Compared' /\ Alone'
    BY <1>1, <1>4, <1>8 DEF BucketInv, Compared, Alone
  <2>3. Deleting'
    BY <1>1, <1>5, <1>8 DEF Deleting, Holds
  <2> QED
    BY <2>1, <2>2, <2>3 DEF BucketInv
<1>9. ASSUME NEW f \in Files, Claimable(f), \A c \in calls : c.file # f,
             cleanup' = [swept EXCEPT ![f] = [st |-> "claimed", token |-> w, leased |-> TRUE,
                                              attempts |-> cleanup[f].attempts + 1]],
             worker' = [worker EXCEPT ![w] = [pc |-> "delete", file |-> f]]
      PROVE  BucketInv'
  <2>1. /\ cleanup'[f].st = "claimed" /\ cleanup'[f].token = w /\ cleanup'[f].leased
        /\ \A g \in Files \ {f} : cleanup'[g] = swept[g]
    BY <1>3, <1>9
  <2>2. Kept'
    BY <1>4, <1>7, <1>9, <2>1 DEF BucketInv, Kept, CleanupActive
  <2>3. Compared' /\ Alone'
    BY <1>1, <1>4, <1>9, <2>1 DEF BucketInv, Compared, Alone
  <2>4. worker'[w].file = f /\ \A v \in Workers \ {w} : worker'[v] = worker[v]
    BY <1>9 DEF WorkerType
  <2>5. Deleting'
    <3> SUFFICES ASSUME NEW v \in Workers, worker'[v].pc = "delete" PROVE Holds(v)'
      BY DEF Deleting
    <3>1. CASE v = w
      BY <2>1, <2>4, <3>1 DEF Holds
    <3>2. CASE v # w
      <4>1. /\ worker'[v].file = worker[v].file /\ worker[v].file \in Files /\ Holds(v)
            /\ ~Claimable(worker[v].file)
        BY <1>5, <2>4, <3>2
      <4>2. cleanup'[worker[v].file] = cleanup[worker[v].file]
        BY <1>1, <1>9, <2>1, <4>1
      <4> QED
        BY <4>1, <4>2 DEF Holds
    <3> QED
      BY <3>1, <3>2
  <2> QED
    BY <2>2, <2>3, <2>5 DEF BucketInv
<1> QED
  BY <1>2, <1>8, <1>9

(* A worker within its lease deletes only what no receipt needs. *)
LEMMA BucketWork ==
    ASSUME ~Slow, TypeInv, BucketInv, NEW w \in Workers,
           Delete(w) \/ Complete(w) \/ Fail(w) \/ CrashWorker(w)
    PROVE  BucketInv'
<1> USE DEF TypeInv, server, client, bounds
<1>0. /\ worker[w].file \in Files /\ UNCHANGED <<session, calls>>
      /\ \A v \in Workers \ {w} : worker'[v] = worker[v]
      /\ worker'[w].pc # "delete"
  BY DEF Delete, Complete, Fail, CrashWorker, WorkerType
<1>1. PICK f \in Files : f = worker[w].file
  BY <1>0
<1>2. CASE Delete(w) \/ CrashWorker(w)
  <2>1. UNCHANGED cleanup /\ (UNCHANGED objects \/
           (Holds(w) /\ objects' = [objects EXCEPT ![f] = "absent"]))
    BY <1>1, <1>2 DEF Delete, CrashWorker, BucketInv, Deleting
  <2>2. CASE UNCHANGED objects
    BY <1>0, <2>1, <2>2 DEF BucketInv, Kept, Compared, Alone, Deleting, Holds, CleanupActive
  <2>3. CASE Holds(w) /\ objects' = [objects EXCEPT ![f] = "absent"]
    <3>1. cleanup[f].st = "claimed" /\ \A g \in Files \ {f} : objects'[g] = objects[g]
      BY <1>1, <2>3 DEF Holds, BucketType
    <3>2. Kept'
      BY <1>0, <2>1, <3>1 DEF BucketInv, Kept, CleanupActive, ServerType
    <3>3. Compared' /\ Alone'
      BY <1>0, <2>1, <3>1 DEF BucketInv, Compared, Alone, CallType, Calls
    <3>4. Deleting'
      BY <1>0, <2>1 DEF BucketInv, Deleting, Holds
    <3> QED
      BY <3>2, <3>3, <3>4 DEF BucketInv
  <2> QED
    BY <2>1, <2>2, <2>3
<1>3. CASE Complete(w) \/ Fail(w)
  <2>1. UNCHANGED objects
    BY <1>3 DEF Complete, Fail
  <2>2. CASE UNCHANGED cleanup
    BY <1>0, <2>1, <2>2 DEF BucketInv, Kept, Compared, Alone, Deleting, Holds, CleanupActive
  <2>3. CASE ~UNCHANGED cleanup
    <3>1. /\ Holds(w)
          /\ \E st \in {"queued", "completed", "dead_lettered"} :
                cleanup' = [cleanup EXCEPT ![f] = [cleanup[f] EXCEPT !.st = st, !.token = None,
                                                                     !.leased = FALSE]]
      <4>1. CASE Complete(w)
        BY <1>1, <2>3, <4>1 DEF Complete
      <4>2. CASE Fail(w)
        BY <1>1, <2>3, <4>2 DEF Fail
      <4> QED
        BY <1>3, <4>1, <4>2
    <3>2. /\ cleanup'[f].st # "claimed" /\ cleanup[f].st = "claimed" /\ cleanup[f].token = w
          /\ \A g \in Files \ {f} : cleanup'[g] = cleanup[g]
      <4>1. PICK st \in {"queued", "completed", "dead_lettered"} : \E job :
               /\ job = [cleanup[f] EXCEPT !.st = st, !.token = None, !.leased = FALSE]
               /\ job.st = st /\ cleanup' = [cleanup EXCEPT ![f] = job]
        BY <3>1, Unclaimed
      <4>2. PICK job : job.st = st /\ cleanup' = [cleanup EXCEPT ![f] = job]
        BY <4>1
      <4>3. cleanup'[f] = job /\ \A g \in Files \ {f} : cleanup'[g] = cleanup[g]
        BY <4>2 DEF BucketType
      <4> QED
        BY <1>1, <3>1, <4>2, <4>3 DEF Holds
    <3>3. Kept'
      BY <1>0, <2>1, <3>2 DEF BucketInv, Kept, CleanupActive, ServerType
    <3>4. Compared' /\ Alone'
      BY <1>0, <2>1, <3>2 DEF BucketInv, Compared, Alone
    <3>5. Deleting'
      BY <1>0, <3>2 DEF BucketInv, Deleting, Holds, WorkerType
    <3> QED
      BY <3>3, <3>4, <3>5 DEF BucketInv
  <2> QED
    BY <2>2, <2>3
<1> QED
  BY <1>2, <1>3

(* A lease runs out only when its worker is done with the object. *)
LEMMA BucketLease ==
    ASSUME ~Slow, TypeInv, BucketInv, NEW f \in Files, LeaseExpires(f) PROVE BucketInv'
<1> USE DEF TypeInv, server, client, bounds
<1>1. /\ UNCHANGED <<session, objects, calls, worker>>
      /\ cleanup'[f].st = "claimed" /\ cleanup[f].st = "claimed"
      /\ worker[cleanup[f].token] # [pc |-> "delete", file |-> f]
      /\ \A g \in Files \ {f} : cleanup'[g] = cleanup[g]
  BY DEF LeaseExpires, BucketType, Jobs
<1>2. \A w \in Workers : worker[w].pc = "delete" => worker[w].file # f
  <2> SUFFICES ASSUME NEW w \in Workers, worker[w].pc = "delete", worker[w].file = f PROVE FALSE
    OBVIOUS
  <2>1. cleanup[f].token = w
    BY DEF BucketInv, Deleting, Holds
  <2>2. worker[w] = [pc |-> "delete", file |-> f]
    BY DEF WorkerType
  <2> QED
    BY <1>1, <2>1, <2>2
<1>3. Kept'
  BY <1>1 DEF BucketInv, Kept, CleanupActive, ServerType
<1>4. Compared' /\ Alone'
  BY <1>1 DEF BucketInv, Compared, Alone
<1>5. Deleting'
  BY <1>1, <1>2 DEF BucketInv, Deleting, Holds, WorkerType
<1> QED
  BY <1>3, <1>4, <1>5 DEF BucketInv

(* Every step keeps the objects of accepted files, while no worker         *)
(* outlives its lease.                                                     *)
LEMMA BucketNext == ASSUME ~Slow PROVE TypeInv /\ BucketInv /\ [Next]_vars => BucketInv'
<1> SUFFICES ASSUME TypeInv, BucketInv, [Next]_vars PROVE BucketInv'
  OBVIOUS
<1>1. CASE UNCHANGED vars
  BY <1>1, BucketFrame DEF vars, server, TypeInv
<1> QED
  BY <1>1, BucketRun, BucketLane, BucketCrash, BucketHandle, BucketClaim, BucketWork, BucketLease
     DEF Next, Work

(* No object of an accepted file is deleted: not by a cleanup job from     *)
(* before the upload was repeated, nor by one retried after a worker died  *)
(* or taken over when a lease ran out.  The hypothesis is the timing that  *)
(* the deadlines of the service and the worker are there for: no accept    *)
(* call outlasts the wait for a cleanup, no DELETE outlasts its lease.     *)
THEOREM AcceptedFilesStay == ASSUME ~Slow PROVE Spec => []AcceptedFilesStored
<1>1. Init => BucketInv
  BY DEF Init, BucketInv, Kept, Compared, Alone, Deleting, NoJob
<1>2. TypeInv /\ BucketInv /\ [Next]_vars => BucketInv'
  BY BucketNext
<1>3. BucketInv => AcceptedFilesStored
  BY DEF BucketInv, Kept, AcceptedFilesStored
<1> QED
  BY <1>1, <1>2, <1>3, TypeInit, TypeNext, PTL DEF Spec
=============================================================================
