-------------------------- MODULE JobLedgerProofs --------------------------
(***************************************************************************)
(* What the job ledger guarantees for every number of connectors, keys,    *)
(* jobs, crashes and cancellations, and for every bound of the ledger.     *)
(***************************************************************************)
EXTENDS JobLedger, FiniteSetTheorems, TLAPS

(* The places of each kind of task. *)
CreatePlaces == {"idle", "admit", "pruneCancellation", "pruneRecord", "pruneAnchor",
                 "anchor", "record"}
ClaimPlaces == {"claim", "inspect", "quarantine"}
TryPlaces == {"cancelLock", "cancelRead", "cancelFind", "cancelWrite", "resumeQueued"}
             \cup ClaimPlaces
SettlePlaces == {"assert", "write", "release"}
ReconcilePlaces == {"reconcile", "lookup", "lookupCancellation"}
RunPlaces == {"idle", "read", "readCancellation", "prepare", "check", "lock", "compare",
              "prePublishCheck", "swap", "unlock"}
             \cup ClaimPlaces \cup SettlePlaces \cup ReconcilePlaces
CancelPlaces == {"idle", "cancelLock", "cancelRead", "cancelFind", "cancelWrite", "refresh"}
                \cup ClaimPlaces \cup SettlePlaces
ResumePlaces == {"idle", "boot", "next", "resumeQueued", "done", "exit"}
                \cup ClaimPlaces \cup SettlePlaces \cup ReconcilePlaces
Places == CreatePlaces \cup RunPlaces \cup CancelPlaces \cup ResumePlaces
Jobless == {"idle", "boot", "next", "done", "exit"}

(* The types of the variables that TypeOK leaves out. *)
Shape ==
    /\ req \in [Jobs -> [key : Keys \cup {Free}, base : Nat]]
    /\ log \in Seq(0..MaxJobs)
    /\ alive \in [Connectors -> BOOLEAN] /\ accepting \in [Connectors -> BOOLEAN]
    /\ sched \in [Connectors -> Seq(Jobs)]
    /\ todo \in [Connectors -> SUBSET (Jobs \X {"queued", "running"})]
    /\ want \in [Tasks -> States \cup {"none"}]
    /\ caught \in [Tasks -> BOOLEAN]
    /\ victim \in 0..MaxJobs

(* A task runs the code of its kind, on a job, with an attempt left while  *)
(* it claims; what it asks of transitionJob is what its code may ask; and  *)
(* a job that is run is on the tail.                                       *)
OnTrack(t) ==
    /\ t[2] = "create" => pc[t] \in CreatePlaces
    /\ t[2] = "run" => /\ pc[t] \in RunPlaces
                       /\ pc[t] # "idle" => sched[t[1]] # <<>>
                       /\ pc[t] \in {"assert", "write"} => want[t] \in {"running"} \cup Terminal
    /\ t[2] = "cancel" => /\ pc[t] \in CancelPlaces
                          /\ pc[t] \in ClaimPlaces \cup {"refresh", "assert", "write"}
                                => want[t] = "cancelled"
    /\ t[2] = "resume" => /\ pc[t] \in ResumePlaces
                          /\ pc[t] \in ClaimPlaces => want[t] \in {"none", "cancelled"}
                          /\ pc[t] \in {"assert", "write"} => want[t] \in Terminal
    /\ pc[t] \notin Jobless => job[t] \in Jobs
    /\ pc[t] \in TryPlaces => tries[t] < MaxAttempts

Control == pc \in [Tasks -> Places] /\ \A t \in Tasks : OnTrack(t)

TypeInv == TypeOK /\ Shape /\ Control

(* A step of task t leaves the other tasks where they are. *)
Moved(t) ==
    /\ pc' = [pc EXCEPT ![t] = pc'[t]]
    /\ \A u \in Tasks \ {t} :
        /\ job'[u] = job[u] /\ want'[u] = want[u] /\ tries'[u] = tries[u]
        /\ u[2] = "run" /\ sched[u[1]] # <<>> => sched'[u[1]] # <<>>

-----------------------------------------------------------------------------
(* A task is the pair of its connector and its kind. *)
LEMMA TaskParts ==
    /\ \A t \in Tasks : t[1] \in Connectors /\ t[2] \in Kinds /\ t = <<t[1], t[2]>>
    /\ \A t, u \in Tasks : t[1] = u[1] /\ t[2] = u[2] => t = u
  BY DEF Tasks

(* The control invariant concerns every task alone: it survives a step     *)
(* that moves one of them, if that one stays on track.                     *)
LEMMA Moving ==
    ASSUME Control, NEW t \in Tasks, Moved(t), OnTrack(t)' PROVE Control'
<1>1. pc'[t] \in Places
  BY TaskParts DEF OnTrack, Kinds, Places
<1>2. pc' \in [Tasks -> Places]
  BY <1>1 DEF Control, Moved
<1>3. ASSUME NEW u \in Tasks, u # t PROVE OnTrack(u)'
  <2>1. pc'[u] = pc[u] /\ job'[u] = job[u] /\ want'[u] = want[u] /\ tries'[u] = tries[u]
    BY <1>3 DEF Control, Moved
  <2>2. u[2] = "run" /\ sched[u[1]] # <<>> => sched'[u[1]] # <<>>
    BY <1>3 DEF Moved
  <2> QED
    BY <2>1, <2>2 DEF Control, OnTrack
<1> QED
  BY <1>2, <1>3 DEF Control

(* Which kinds of task can be at a place. *)
LEMMA KindOfPlace ==
    ASSUME Control, NEW t \in Tasks
    PROVE  /\ pc[t] \notin CreatePlaces => t[2] # "create"
           /\ pc[t] \in CreatePlaces \ {"idle"} => t[2] = "create"
           /\ pc[t] \in RunPlaces \ (ResumePlaces \cup CancelPlaces) => t[2] = "run"
           /\ pc[t] \in CancelPlaces \ RunPlaces => t[2] = "cancel"
           /\ pc[t] \in ResumePlaces \ RunPlaces => t[2] = "resume"
           /\ pc[t] \in ReconcilePlaces => t[2] \in {"run", "resume"}
<1>1. OnTrack(t) /\ t[2] \in Kinds
  BY TaskParts DEF Control
<1> QED
  BY <1>1 DEF OnTrack, Kinds, CreatePlaces, ClaimPlaces, SettlePlaces, ReconcilePlaces,
       RunPlaces, CancelPlaces, ResumePlaces

(* The parts that many actions share: an error, the end of a call, one     *)
(* more attempt, a job put on the tail.                                    *)
LEMMA Throwing ==
    ASSUME TypeInv, NEW t \in Tasks, Throw(t), job'[t] = job[t],
           t[2] # "create", pc[t] \notin Jobless, UNCHANGED sched
    PROVE  OnTrack(t)' /\ caught' \in [Tasks -> BOOLEAN]
<1>1. OnTrack(t) /\ t[2] \in Kinds
  BY TaskParts DEF TypeInv, Control
<1>2. pc'[t] = IF t[2] = "run" /\ ~caught[t] THEN "reconcile" ELSE "release"
  BY DEF Throw, Goto, TypeInv, Control
<1>3. caught' \in [Tasks -> BOOLEAN]
  BY DEF Throw, TypeInv, Shape
<1> QED
  BY <1>1, <1>2, <1>3 DEF OnTrack, Kinds, ClaimPlaces, TryPlaces, SettlePlaces, ReconcilePlaces,
       RunPlaces, CancelPlaces, ResumePlaces, Jobless

(* A task that ends its work leaves the queues of the other connectors     *)
(* alone.                                                                  *)
LEMMA Leaving ==
    ASSUME TypeInv, NEW t \in Tasks, Leave(t), t[2] # "create", pc[t] # "idle"
    PROVE  /\ OnTrack(t)'
           /\ sched' \in [Connectors -> Seq(Jobs)]
           /\ \A u \in Tasks \ {t} : u[2] = "run" => sched'[u[1]] = sched[u[1]]
<1>1. OnTrack(t) /\ t[2] \in Kinds /\ t[1] \in Connectors
  BY TaskParts DEF TypeInv, Control
<1>2. pc'[t] = IF t[2] = "resume" THEN IF caught[t] THEN "exit" ELSE "next" ELSE "idle"
  BY DEF Leave, Goto, TypeInv, Control
<1>3. sched' \in [Connectors -> Seq(Jobs)]
  <2>1. CASE t[2] = "run"
    <3>1. sched[t[1]] \in Seq(Jobs) /\ sched[t[1]] # <<>>
      BY <1>1, <2>1 DEF OnTrack, TypeInv, Shape
    <3>2. Tail(sched[t[1]]) \in Seq(Jobs)
      BY <3>1
    <3> QED
      BY <3>2, <2>1, <1>1 DEF Leave, TypeInv, Shape
  <2>2. CASE t[2] # "run"
    BY <2>2 DEF Leave, TypeInv, Shape
  <2> QED
    BY <2>1, <2>2
<1>4. ASSUME NEW u \in Tasks \ {t}, u[2] = "run" PROVE sched'[u[1]] = sched[u[1]]
  <2>1. t[2] = "run" => u[1] # t[1]
    BY <1>4, TaskParts
  <2> QED
    BY <2>1, TaskParts DEF Leave, TypeInv, Shape
<1>5. OnTrack(t)'
  BY <1>1, <1>2 DEF OnTrack, Kinds, ClaimPlaces, TryPlaces, SettlePlaces, ReconcilePlaces,
       RunPlaces, CancelPlaces, ResumePlaces, Jobless
<1> QED
  BY <1>3, <1>4, <1>5

(* A claim that was refused is tried again or given up; either way the     *)
(* task is on track.                                                       *)
LEMMA Retrying ==
    ASSUME TypeInv, NEW t \in Tasks, NextAttempt(t), pc[t] \in ClaimPlaces,
           UNCHANGED <<job, want>>
    PROVE  /\ OnTrack(t)'
           /\ tries' \in [Tasks -> 0..MaxAttempts]
           /\ sched' \in [Connectors -> Seq(Jobs)]
           /\ \A u \in Tasks \ {t} : u[2] = "run" => sched'[u[1]] = sched[u[1]]
<1>1. OnTrack(t) /\ t[2] # "create" /\ tries[t] \in 0..2 /\ pc[t] # "idle"
  BY KindOfPlace DEF TypeInv, TypeOK, Control, OnTrack, CreatePlaces, ClaimPlaces, TryPlaces,
     MaxAttempts
<1>2. tries' \in [Tasks -> 0..MaxAttempts] /\ tries'[t] = tries[t] + 1
  BY <1>1 DEF NextAttempt, TypeInv, TypeOK, MaxAttempts
<1>3. CASE tries[t] + 1 < MaxAttempts
  <2>1. pc'[t] = "claim" /\ UNCHANGED sched
    BY <1>3 DEF NextAttempt, Goto, TypeInv, Control
  <2>2. OnTrack(t)'
    BY <1>1, <1>2, <1>3, <2>1 DEF OnTrack, ClaimPlaces, TryPlaces, SettlePlaces, ReconcilePlaces,
       RunPlaces, CancelPlaces, ResumePlaces, Jobless, MaxAttempts
  <2> QED
    BY <1>2, <2>1, <2>2 DEF TypeInv, Shape
<1>4. CASE ~(tries[t] + 1 < MaxAttempts)
  BY <1>1, <1>2, <1>4, Leaving DEF NextAttempt
<1> QED
  BY <1>3, <1>4

(* scheduleJob appends to one queue and never empties another. *)
LEMMA Scheduling ==
    ASSUME TypeInv, NEW c \in Connectors, NEW j \in Jobs, Schedule(c, j)
    PROVE  /\ sched' \in [Connectors -> Seq(Jobs)]
           /\ \A d \in Connectors : sched[d] # <<>> => sched'[d] # <<>>
<1>1. sched[c] \in Seq(Jobs)
  BY DEF TypeInv, Shape
<1>2. Append(sched[c], j) \in Seq(Jobs) /\ Append(sched[c], j) # <<>>
  BY <1>1
<1> QED
  BY <1>2 DEF Schedule, TypeInv, Shape

(* Every step of a task keeps the types: creation, *)
LEMMA TypeCreate ==
    ASSUME TypeInv, NEW t \in Tasks, Create(t) PROVE TypeInv'
<1> USE JobAssumption, TaskParts DEF TypeInv, At, Goto, LedgerFree, durable, process,
   locals, history
<1>1. CASE CreateRaced(t)
  <2>1. TypeOK' /\ Shape'
    BY <1>1 DEF CreateRaced, TypeOK, Shape, States, Terminal
  <2>2. Moved(t)
    BY <1>1 DEF CreateRaced, TypeOK, Shape, Control, Moved
  <2>3. OnTrack(t)'
    BY <1>1, KindOfPlace DEF CreateRaced, Control, Shape, TypeOK, OnTrack, ClaimPlaces,
       TryPlaces, SettlePlaces, ReconcilePlaces, RunPlaces, CancelPlaces, ResumePlaces,
       Jobless, CreatePlaces, Terminal
  <2> QED
    BY <2>1, <2>2, <2>3, Moving
<1>2. CASE Admit(t)
  <2>1. TypeOK' /\ Shape'
    BY <1>2 DEF Admit, TypeOK, Shape, States, Terminal
  <2>2. Moved(t)
    BY <1>2 DEF Admit, TypeOK, Shape, Control, Moved
  <2>3. OnTrack(t)'
    BY <1>2, KindOfPlace DEF Admit, Control, Shape, TypeOK, OnTrack, ClaimPlaces, TryPlaces,
       SettlePlaces, ReconcilePlaces, RunPlaces, CancelPlaces, ResumePlaces, Jobless,
       CreatePlaces, Terminal
  <2> QED
    BY <2>1, <2>2, <2>3, Moving
<1>3. CASE AdmitFull(t)
  <2>1. TypeOK' /\ Shape'
    <3>1. Reconciled \in [Jobs -> States \cup {"absent", "torn"}]
      BY DEF TypeOK, Reconciled, States
    <3>2. rec' \in [Jobs -> States \cup {"absent", "torn"}] /\ cancel' \subseteq Jobs
      BY <1>3, <3>1 DEF AdmitFull, TypeOK
    <3>3. ledger' \in Tasks \cup {Free, Dead} /\ victim' \in 0..MaxJobs
      <4>1. Evictable \subseteq 0..MaxJobs
        BY DEF Evictable, TypeOK, Jobs
      <4> QED
        BY <1>3, <4>1 DEF AdmitFull, TypeOK, Shape
    <3> QED
      BY <1>3, <3>2, <3>3 DEF AdmitFull, TypeOK, Shape
  <2>2. Moved(t)
    BY <1>3 DEF AdmitFull, Reconciled, Evictable, TypeOK, Shape, Control, Moved
  <2>3. OnTrack(t)'
    <3>1. t[2] = "create" /\ pc'[t] \in {"pruneCancellation", "idle"} /\ job'[t] = job[t]
      BY <1>3, KindOfPlace DEF AdmitFull, Control, CreatePlaces
    <3>2. job[t] \in Jobs
      BY <1>3 DEF AdmitFull, Control, OnTrack, Jobless
    <3> QED
      BY <3>1, <3>2 DEF OnTrack, CreatePlaces, ClaimPlaces, TryPlaces, Jobless
  <2> QED
    BY <2>1, <2>2, <2>3, Moving
<1>4. CASE PruneCancellation(t)
  <2>1. TypeOK' /\ Shape'
    BY <1>4 DEF PruneCancellation, TypeOK, Shape, States, Terminal
  <2>2. Moved(t)
    BY <1>4 DEF PruneCancellation, TypeOK, Shape, Control, Moved
  <2>3. OnTrack(t)'
    BY <1>4, KindOfPlace DEF PruneCancellation, Control, Shape, TypeOK, OnTrack,
       ClaimPlaces, TryPlaces, SettlePlaces, ReconcilePlaces, RunPlaces, CancelPlaces,
       ResumePlaces, Jobless, CreatePlaces, Terminal
  <2> QED
    BY <2>1, <2>2, <2>3, Moving
<1>5. CASE PruneRecord(t)
  <2>1. TypeOK' /\ Shape'
    BY <1>5 DEF PruneRecord, TypeOK, Shape, States, Terminal
  <2>2. Moved(t)
    BY <1>5 DEF PruneRecord, TypeOK, Shape, Control, Moved
  <2>3. OnTrack(t)'
    BY <1>5, KindOfPlace DEF PruneRecord, Control, Shape, TypeOK, OnTrack, ClaimPlaces,
       TryPlaces, SettlePlaces, ReconcilePlaces, RunPlaces, CancelPlaces, ResumePlaces,
       Jobless, CreatePlaces, Terminal
  <2> QED
    BY <2>1, <2>2, <2>3, Moving
<1>6. CASE PruneAnchor(t)
  <2>1. TypeOK' /\ Shape'
    BY <1>6 DEF PruneAnchor, TypeOK, Shape, States, Terminal
  <2>2. Moved(t)
    BY <1>6 DEF PruneAnchor, TypeOK, Shape, Control, Moved
  <2>3. OnTrack(t)'
    BY <1>6, KindOfPlace DEF PruneAnchor, Control, Shape, TypeOK, OnTrack, ClaimPlaces,
       TryPlaces, SettlePlaces, ReconcilePlaces, RunPlaces, CancelPlaces, ResumePlaces,
       Jobless, CreatePlaces, Terminal
  <2> QED
    BY <2>1, <2>2, <2>3, Moving
<1>7. CASE WriteAnchor(t)
  <2>1. TypeOK' /\ Shape'
    <3>1. job[t] \in Jobs
      BY <1>7 DEF WriteAnchor, Control, OnTrack, Jobless
    <3> QED
      BY <1>7, <3>1 DEF WriteAnchor, TypeOK, Shape
  <2>2. Moved(t)
    BY <1>7 DEF WriteAnchor, TypeOK, Shape, Control, Moved
  <2>3. OnTrack(t)'
    BY <1>7, KindOfPlace DEF WriteAnchor, Control, Shape, TypeOK, OnTrack, ClaimPlaces,
       TryPlaces, SettlePlaces, ReconcilePlaces, RunPlaces, CancelPlaces, ResumePlaces,
       Jobless, CreatePlaces, Terminal
  <2> QED
    BY <2>1, <2>2, <2>3, Moving
<1>8. CASE WriteRecord(t)
  <2>1. TypeOK' /\ Shape'
    <3>1. job[t] \in Jobs
      BY <1>8 DEF WriteRecord, Control, OnTrack, Jobless
    <3>2. sched' \in [Connectors -> Seq(Jobs)]
      BY <1>8, <3>1, Scheduling DEF WriteRecord
    <3>3. TypeOK'
      BY <1>8, <3>1 DEF WriteRecord, TypeOK, States
    <3> QED
      BY <1>8, <3>2, <3>3 DEF WriteRecord, Shape
  <2>2. Moved(t)
    <3>1. job[t] \in Jobs
      BY <1>8 DEF WriteRecord, Control, OnTrack, Jobless
    <3>2. \A d \in Connectors : sched[d] # <<>> => sched'[d] # <<>>
      BY <1>8, <3>1, Scheduling DEF WriteRecord
    <3> QED
      BY <1>8, <3>2 DEF WriteRecord, Control, Moved
  <2>3. OnTrack(t)'
    BY <1>8, KindOfPlace DEF WriteRecord, Schedule, Control, Shape, TypeOK, OnTrack,
       ClaimPlaces, TryPlaces, SettlePlaces, ReconcilePlaces, RunPlaces, CancelPlaces,
       ResumePlaces, Jobless, CreatePlaces, Terminal
  <2> QED
    BY <2>1, <2>2, <2>3, Moving
<1> QED
  BY <1>1, <1>2, <1>3, <1>4, <1>5, <1>6, <1>7, <1>8 DEF Create

(* the claim, *)
LEMMA TypeClaiming ==
    ASSUME TypeInv, NEW t \in Tasks, Claiming(t) PROVE TypeInv'
<1> USE JobAssumption, TaskParts DEF TypeInv, At, Goto, LedgerFree, durable, process,
   locals, history
<1>1. CASE Claim(t)
  <2>1. TypeOK' /\ Shape'
    BY <1>1 DEF Claim, ClaimedPc, TypeOK, Shape, States, Terminal
  <2>2. Moved(t)
    BY <1>1 DEF Claim, Control, Moved
  <2>3. OnTrack(t)'
    BY <1>1, KindOfPlace DEF Claim, ClaimedPc, Control, Shape, TypeOK, OnTrack, ClaimPlaces,
       TryPlaces, SettlePlaces, ReconcilePlaces, RunPlaces, CancelPlaces, ResumePlaces,
       Jobless, CreatePlaces, Terminal
  <2> QED
    BY <2>1, <2>2, <2>3, Moving
<1>2. CASE Collide(t)
  <2>1. TypeOK' /\ Shape'
    BY <1>2 DEF Collide, TypeOK, Shape, States, Terminal
  <2>2. Moved(t)
    BY <1>2 DEF Collide, TypeOK, Shape, Control, Moved
  <2>3. OnTrack(t)'
    BY <1>2, KindOfPlace DEF Collide, Control, Shape, TypeOK, OnTrack, ClaimPlaces,
       TryPlaces, SettlePlaces, ReconcilePlaces, RunPlaces, CancelPlaces, ResumePlaces,
       Jobless, CreatePlaces, Terminal
  <2> QED
    BY <2>1, <2>2, <2>3, Moving
<1>3. CASE InspectGone(t)
  <2>0. pc[t] \in ClaimPlaces /\ NextAttempt(t) /\ UNCHANGED <<job, want>>
    BY <1>3 DEF InspectGone, ClaimPlaces
  <2>1. TypeOK' /\ Shape'
    <3>1. tries' \in [Tasks -> 0..MaxAttempts] /\ sched' \in [Connectors -> Seq(Jobs)]
      BY <2>0, Retrying
    <3> QED
      BY <1>3, <3>1 DEF InspectGone, TypeOK, Shape
  <2>2. Moved(t)
    <3>1. pc' = [pc EXCEPT ![t] = pc'[t]]
      BY <2>0 DEF NextAttempt, Leave, Control
    <3>2. \A u \in Tasks \ {t} : tries'[u] = tries[u]
      BY <2>0 DEF NextAttempt, TypeOK
    <3> QED
      BY <2>0, <3>1, <3>2, Retrying DEF Moved
  <2>3. OnTrack(t)'
    BY <2>0, Retrying
  <2> QED
    BY <2>1, <2>2, <2>3, Moving
<1>4. CASE InspectLive(t)
  <2>0. Leave(t) /\ t[2] # "create" /\ pc[t] # "idle"
    BY <1>4, KindOfPlace DEF InspectLive, CreatePlaces
  <2>1. TypeOK' /\ Shape'
    BY <1>4, <2>0, Leaving DEF InspectLive, TypeOK, Shape
  <2>2. Moved(t)
    BY <1>4, <2>0, Leaving DEF InspectLive, Leave, Control, Moved
  <2>3. OnTrack(t)'
    BY <2>0, Leaving
  <2> QED
    BY <2>1, <2>2, <2>3, Moving
<1>5. CASE InspectDead(t)
  <2>1. TypeOK' /\ Shape'
    BY <1>5 DEF InspectDead, TypeOK, Shape, States, Terminal
  <2>2. Moved(t)
    BY <1>5 DEF InspectDead, TypeOK, Shape, Control, Moved
  <2>3. OnTrack(t)'
    BY <1>5, KindOfPlace DEF InspectDead, Control, Shape, TypeOK, OnTrack, ClaimPlaces,
       TryPlaces, SettlePlaces, ReconcilePlaces, RunPlaces, CancelPlaces, ResumePlaces,
       Jobless, CreatePlaces, Terminal
  <2> QED
    BY <2>1, <2>2, <2>3, Moving
<1>6. CASE QuarantineClaim(t)
  <2>0. pc[t] \in ClaimPlaces /\ NextAttempt(t) /\ UNCHANGED <<job, want>>
    BY <1>6 DEF QuarantineClaim, ClaimPlaces
  <2>1. TypeOK' /\ Shape'
    <3>1. tries' \in [Tasks -> 0..MaxAttempts] /\ sched' \in [Connectors -> Seq(Jobs)]
      BY <2>0, Retrying
    <3> QED
      BY <1>6, <3>1 DEF QuarantineClaim, TypeOK, Shape
  <2>2. Moved(t)
    <3>1. pc' = [pc EXCEPT ![t] = pc'[t]]
      BY <2>0 DEF NextAttempt, Leave, Control
    <3>2. \A u \in Tasks \ {t} : tries'[u] = tries[u]
      BY <2>0 DEF NextAttempt, TypeOK
    <3> QED
      BY <2>0, <3>1, <3>2, Retrying DEF Moved
  <2>3. OnTrack(t)'
    BY <2>0, Retrying
  <2> QED
    BY <2>1, <2>2, <2>3, Moving
<1>7. CASE Release(t)
  <2>0. t[2] # "create" /\ pc[t] # "idle"
    BY <1>7, KindOfPlace DEF Release, CreatePlaces
  <2>4. Leave(t) \/ (t[2] = "resume" /\ pc' = [pc EXCEPT ![t] = "exit"] /\ UNCHANGED sched)
    BY <1>7 DEF Release
  <2>1. TypeOK' /\ Shape'
    <3>1. sched' \in [Connectors -> Seq(Jobs)]
      BY <2>0, <2>4, Leaving DEF Shape
    <3>2. claim' \in [Jobs -> Tasks \cup {Free, Dead}]
      BY <1>7 DEF Release, TypeOK
    <3> QED
      BY <1>7, <3>1, <3>2 DEF Release, TypeOK, Shape
  <2>2. Moved(t)
    <3>1. \A u \in Tasks \ {t} : u[2] = "run" => sched'[u[1]] = sched[u[1]]
      BY <2>0, <2>4, Leaving
    <3> QED
      BY <1>7, <2>4, <3>1 DEF Release, Leave, Control, Moved
  <2>3. OnTrack(t)'
    <3>1. CASE Leave(t)
      BY <2>0, <3>1, Leaving
    <3>2. CASE t[2] = "resume" /\ pc'[t] = "exit"
      BY <3>2 DEF OnTrack, ClaimPlaces, TryPlaces, ResumePlaces, Jobless
    <3> QED
      BY <2>4, <3>1, <3>2 DEF Control
  <2> QED
    BY <2>1, <2>2, <2>3, Moving
<1> QED
  BY <1>1, <1>2, <1>3, <1>4, <1>5, <1>6, <1>7 DEF Claiming

(* the run and its reconciliation, *)
LEMMA TypeRun ==
    ASSUME TypeInv, NEW t \in Tasks, Run(t) PROVE TypeInv'
<1> USE JobAssumption, TaskParts DEF TypeInv, At, Goto, LedgerFree, durable, process,
   locals, history
<1>1. CASE RunRead(t)
  <2>1. TypeOK' /\ Shape'
    BY <1>1 DEF RunRead, TypeOK, Shape, States, Terminal
  <2>2. Moved(t)
    BY <1>1 DEF RunRead, TypeOK, Shape, Control, Moved
  <2>3. OnTrack(t)'
    BY <1>1, KindOfPlace DEF RunRead, Control, Shape, TypeOK, OnTrack, ClaimPlaces,
       TryPlaces, SettlePlaces, ReconcilePlaces, RunPlaces, CancelPlaces, ResumePlaces,
       Jobless, CreatePlaces, Terminal
  <2> QED
    BY <2>1, <2>2, <2>3, Moving
<1>2. CASE RunReadCancellation(t)
  <2>1. TypeOK' /\ Shape'
    BY <1>2 DEF RunReadCancellation, TransitionTo, TypeOK, Shape, States, Terminal
  <2>2. Moved(t)
    BY <1>2 DEF RunReadCancellation, TransitionTo, TypeOK, Shape, Control, Moved
  <2>3. OnTrack(t)'
    BY <1>2, KindOfPlace DEF RunReadCancellation, TransitionTo, Control, Shape, TypeOK,
       OnTrack, ClaimPlaces, TryPlaces, SettlePlaces, ReconcilePlaces, RunPlaces,
       CancelPlaces, ResumePlaces, Jobless, CreatePlaces, Terminal
  <2> QED
    BY <2>1, <2>2, <2>3, Moving
<1>3. CASE Prepare(t)
  <2>1. TypeOK' /\ Shape'
    BY <1>3 DEF Prepare, Throw, TypeOK, Shape, States, Terminal
  <2>2. Moved(t)
    BY <1>3 DEF Prepare, Throw, TypeOK, Shape, Control, Moved
  <2>3. OnTrack(t)'
    <3>1. OnTrack(t) /\ t[2] # "create" /\ pc[t] \notin Jobless /\ UNCHANGED <<job, sched>>
      BY <1>3, KindOfPlace DEF Prepare, Control, CreatePlaces, Jobless
    <3>2. pc'[t] = "check" \/ Throw(t)
      BY <1>3 DEF Prepare, Control, Shape
    <3>3. CASE Throw(t)
      BY <3>1, <3>3, Throwing
    <3>4. CASE pc'[t] = "check"
      BY <1>3, <3>1, <3>4, KindOfPlace DEF Prepare, OnTrack, ClaimPlaces, TryPlaces,
         SettlePlaces, ReconcilePlaces, RunPlaces, CancelPlaces, ResumePlaces, Jobless,
         CreatePlaces, Terminal
    <3> QED
      BY <3>2, <3>3, <3>4
  <2> QED
    BY <2>1, <2>2, <2>3, Moving
<1>4. CASE CheckBeforePublication(t)
  <2>1. TypeOK' /\ Shape'
    BY <1>4 DEF CheckBeforePublication, Throw, TypeOK, Shape, States, Terminal
  <2>2. Moved(t)
    BY <1>4 DEF CheckBeforePublication, Throw, TypeOK, Shape, Control, Moved
  <2>3. OnTrack(t)'
    <3>1. OnTrack(t) /\ t[2] # "create" /\ pc[t] \notin Jobless /\ UNCHANGED <<job, sched>>
      BY <1>4, KindOfPlace DEF CheckBeforePublication, Control, CreatePlaces, Jobless
    <3>2. pc'[t] = "lock" \/ Throw(t)
      BY <1>4 DEF CheckBeforePublication, Control, Shape
    <3>3. CASE Throw(t)
      BY <3>1, <3>3, Throwing
    <3>4. CASE pc'[t] = "lock"
      BY <1>4, <3>1, <3>4, KindOfPlace DEF CheckBeforePublication, OnTrack, ClaimPlaces,
         TryPlaces, SettlePlaces, ReconcilePlaces, RunPlaces, CancelPlaces, ResumePlaces,
         Jobless, CreatePlaces, Terminal
    <3> QED
      BY <3>2, <3>3, <3>4
  <2> QED
    BY <2>1, <2>2, <2>3, Moving
<1>5. CASE PublishLock(t)
  <2>1. TypeOK' /\ Shape'
    <3>1. caught' \in [Tasks -> BOOLEAN]
      BY <1>5 DEF PublishLock, Throw, Shape
    <3>2. wlock' \in Tasks \cup {Free, Dead}
      BY <1>5 DEF PublishLock, TypeOK
    <3> QED
      BY <1>5, <3>1, <3>2 DEF PublishLock, TypeOK, Shape
  <2>2. Moved(t)
    BY <1>5 DEF PublishLock, Throw, TypeOK, Shape, Control, Moved
  <2>3. OnTrack(t)'
    <3>1. OnTrack(t) /\ t[2] # "create" /\ pc[t] \notin Jobless /\ UNCHANGED <<job, sched>>
      BY <1>5, KindOfPlace DEF PublishLock, Control, CreatePlaces, Jobless
    <3>2. pc'[t] = "compare" \/ Throw(t)
      BY <1>5 DEF PublishLock, Control, Shape
    <3>3. CASE Throw(t)
      BY <3>1, <3>3, Throwing
    <3>4. CASE pc'[t] = "compare"
      BY <1>5, <3>1, <3>4, KindOfPlace DEF PublishLock, OnTrack, ClaimPlaces, TryPlaces,
         SettlePlaces, ReconcilePlaces, RunPlaces, CancelPlaces, ResumePlaces, Jobless,
         CreatePlaces, Terminal
    <3> QED
      BY <3>2, <3>3, <3>4
  <2> QED
    BY <2>1, <2>2, <2>3, Moving
<1>6. CASE PublishCompare(t)
  <2>1. TypeOK' /\ Shape'
    BY <1>6 DEF PublishCompare, Throw, TypeOK, Shape, States, Terminal
  <2>2. Moved(t)
    BY <1>6 DEF PublishCompare, Throw, TypeOK, Shape, Control, Moved
  <2>3. OnTrack(t)'
    <3>1. OnTrack(t) /\ t[2] # "create" /\ pc[t] \notin Jobless /\ UNCHANGED <<job, sched>>
      BY <1>6, KindOfPlace DEF PublishCompare, Control, CreatePlaces, Jobless
    <3>2. pc'[t] = "prePublishCheck" \/ Throw(t)
      BY <1>6 DEF PublishCompare, Control, Shape
    <3>3. CASE Throw(t)
      BY <3>1, <3>3, Throwing
    <3>4. CASE pc'[t] = "prePublishCheck"
      BY <1>6, <3>1, <3>4, KindOfPlace DEF PublishCompare, OnTrack, ClaimPlaces, TryPlaces,
         SettlePlaces, ReconcilePlaces, RunPlaces, CancelPlaces, ResumePlaces, Jobless,
         CreatePlaces, Terminal
    <3> QED
      BY <3>2, <3>3, <3>4
  <2> QED
    BY <2>1, <2>2, <2>3, Moving
<1>7. CASE PrePublishCheck(t)
  <2>1. TypeOK' /\ Shape'
    <3>1. caught' \in [Tasks -> BOOLEAN]
      BY <1>7 DEF PrePublishCheck, Throw, Shape
    <3>2. wlock' \in Tasks \cup {Free, Dead}
      BY <1>7 DEF PrePublishCheck, TypeOK
    <3> QED
      BY <1>7, <3>1, <3>2 DEF PrePublishCheck, TypeOK, Shape
  <2>2. Moved(t)
    BY <1>7 DEF PrePublishCheck, Throw, TypeOK, Shape, Control, Moved
  <2>3. OnTrack(t)'
    <3>1. OnTrack(t) /\ t[2] # "create" /\ pc[t] \notin Jobless /\ UNCHANGED <<job, sched>>
      BY <1>7, KindOfPlace DEF PrePublishCheck, Control, CreatePlaces, Jobless
    <3>2. pc'[t] = "swap" \/ Throw(t)
      BY <1>7 DEF PrePublishCheck, Control, Shape
    <3>3. CASE Throw(t)
      BY <3>1, <3>3, Throwing
    <3>4. CASE pc'[t] = "swap"
      BY <1>7, <3>1, <3>4, KindOfPlace DEF PrePublishCheck, OnTrack, ClaimPlaces, TryPlaces,
         SettlePlaces, ReconcilePlaces, RunPlaces, CancelPlaces, ResumePlaces, Jobless,
         CreatePlaces, Terminal
    <3> QED
      BY <3>2, <3>3, <3>4
  <2> QED
    BY <2>1, <2>2, <2>3, Moving
<1>8. CASE PublishSwap(t)
  <2>1. TypeOK' /\ Shape'
    <3>1. job[t] \in Jobs /\ t[2] = "run"
      BY <1>8, KindOfPlace DEF PublishSwap, Control, OnTrack, Jobless, RunPlaces,
         ResumePlaces, CancelPlaces, ClaimPlaces, SettlePlaces, ReconcilePlaces
    <3>2. log' \in Seq(0..MaxJobs)
      <4>1. job[t] \in 0..MaxJobs
        BY <3>1 DEF Jobs
      <4>2. CASE log' = Append(log, job[t])
        BY <4>1, <4>2 DEF Shape
      <4>3. CASE UNCHANGED log
        BY <4>3 DEF Shape
      <4> QED
        BY <1>8, <4>2, <4>3 DEF PublishSwap
    <3>3. caught' \in [Tasks -> BOOLEAN] /\ wlock' \in Tasks \cup {Free, Dead}
      BY <1>8 DEF PublishSwap, Throw, Shape, TypeOK
    <3> QED
      BY <1>8, <3>2, <3>3 DEF PublishSwap, TypeOK, Shape
  <2>2. Moved(t)
    BY <1>8 DEF PublishSwap, Throw, TypeOK, Shape, Control, Moved
  <2>3. OnTrack(t)'
    <3>1. OnTrack(t) /\ t[2] # "create" /\ pc[t] \notin Jobless /\ UNCHANGED <<job, sched>>
      BY <1>8, KindOfPlace DEF PublishSwap, Control, CreatePlaces, Jobless
    <3>2. pc'[t] = "unlock" \/ Throw(t)
      BY <1>8 DEF PublishSwap, Control, Shape
    <3>3. CASE Throw(t)
      BY <3>1, <3>3, Throwing
    <3>4. CASE pc'[t] = "unlock"
      BY <1>8, <3>1, <3>4, KindOfPlace DEF PublishSwap, OnTrack, ClaimPlaces, TryPlaces,
         SettlePlaces, ReconcilePlaces, RunPlaces, CancelPlaces, ResumePlaces, Jobless,
         CreatePlaces, Terminal
    <3> QED
      BY <3>2, <3>3, <3>4
  <2> QED
    BY <2>1, <2>2, <2>3, Moving
<1>9. CASE PublishUnlock(t)
  <2>1. TypeOK' /\ Shape'
    BY <1>9 DEF PublishUnlock, Throw, TransitionTo, TypeOK, Shape, States, Terminal
  <2>2. Moved(t)
    BY <1>9 DEF PublishUnlock, Throw, TransitionTo, TypeOK, Shape, Control, Moved
  <2>3. OnTrack(t)'
    <3>1. OnTrack(t) /\ t[2] # "create" /\ pc[t] \notin Jobless /\ UNCHANGED <<job, sched>>
      BY <1>9, KindOfPlace DEF PublishUnlock, Control, CreatePlaces, Jobless
    <3>2. (pc'[t] = "assert" /\ want'[t] = "succeeded") \/ Throw(t)
      BY <1>9 DEF PublishUnlock, TransitionTo, Control, Shape
    <3>3. CASE Throw(t)
      BY <3>1, <3>3, Throwing
    <3>4. CASE (pc'[t] = "assert" /\ want'[t] = "succeeded")
      BY <1>9, <3>1, <3>4, KindOfPlace DEF PublishUnlock, OnTrack, ClaimPlaces, TryPlaces,
         SettlePlaces, ReconcilePlaces, RunPlaces, CancelPlaces, ResumePlaces, Jobless,
         CreatePlaces, Terminal
    <3> QED
      BY <3>2, <3>3, <3>4
  <2> QED
    BY <2>1, <2>2, <2>3, Moving
<1>10. CASE Reconcile(t)
  <2>1. TypeOK' /\ Shape'
    BY <1>10 DEF Reconcile, TypeOK, Shape, States, Terminal
  <2>2. Moved(t)
    BY <1>10 DEF Reconcile, TypeOK, Shape, Control, Moved
  <2>3. OnTrack(t)'
    BY <1>10, KindOfPlace DEF Reconcile, Control, Shape, TypeOK, OnTrack, ClaimPlaces,
       TryPlaces, SettlePlaces, ReconcilePlaces, RunPlaces, CancelPlaces, ResumePlaces,
       Jobless, CreatePlaces, Terminal
  <2> QED
    BY <2>1, <2>2, <2>3, Moving
<1>11. CASE Lookup(t)
  <2>1. TypeOK' /\ Shape'
    BY <1>11 DEF Lookup, TransitionTo, TypeOK, Shape, States, Terminal
  <2>2. Moved(t)
    BY <1>11 DEF Lookup, TransitionTo, TypeOK, Shape, Control, Moved
  <2>3. OnTrack(t)'
    <3>1. OnTrack(t) /\ t[2] \in {"run", "resume"} /\ UNCHANGED <<job, sched, tries>>
      BY <1>11, KindOfPlace DEF Lookup, Control, ReconcilePlaces
    <3>2. \/ pc'[t] = "assert" /\ want'[t] = "succeeded"
\/ pc'[t] = "lookupCancellation"
      BY <1>11 DEF Lookup, TransitionTo, Control, Shape
    <3>3. pc[t] = "lookup"
      BY <1>11 DEF Lookup
    <3> QED
      BY <3>1, <3>2, <3>3 DEF Terminal, OnTrack, ClaimPlaces, TryPlaces, SettlePlaces,
         ReconcilePlaces, RunPlaces, CancelPlaces, ResumePlaces, Jobless
  <2> QED
    BY <2>1, <2>2, <2>3, Moving
<1>12. CASE LookupCancellation(t)
  <2>1. TypeOK' /\ Shape'
    BY <1>12 DEF LookupCancellation, TransitionTo, TypeOK, Shape, States, Terminal
  <2>2. Moved(t)
    BY <1>12 DEF LookupCancellation, TransitionTo, TypeOK, Shape, Control, Moved
  <2>3. OnTrack(t)'
    BY <1>12, KindOfPlace DEF LookupCancellation, TransitionTo, Control, Shape, TypeOK,
       OnTrack, ClaimPlaces, TryPlaces, SettlePlaces, ReconcilePlaces, RunPlaces,
       CancelPlaces, ResumePlaces, Jobless, CreatePlaces, Terminal
  <2> QED
    BY <2>1, <2>2, <2>3, Moving
<1>13. CASE AssertClaimOwned(t)
  <2>1. TypeOK' /\ Shape'
    BY <1>13 DEF AssertClaimOwned, Throw, TypeOK, Shape, States, Terminal
  <2>2. Moved(t)
    BY <1>13 DEF AssertClaimOwned, Throw, TypeOK, Shape, Control, Moved
  <2>3. OnTrack(t)'
    <3>1. OnTrack(t) /\ t[2] # "create" /\ pc[t] \notin Jobless /\ UNCHANGED <<job, sched>>
      BY <1>13, KindOfPlace DEF AssertClaimOwned, Control, CreatePlaces, Jobless
    <3>2. (pc'[t] = "write" /\ want'[t] = want[t]) \/ Throw(t)
      BY <1>13 DEF AssertClaimOwned, Control, Shape
    <3>3. CASE Throw(t)
      BY <3>1, <3>3, Throwing
    <3>4. CASE (pc'[t] = "write" /\ want'[t] = want[t])
      BY <1>13, <3>1, <3>4, KindOfPlace DEF AssertClaimOwned, OnTrack, ClaimPlaces,
         TryPlaces, SettlePlaces, ReconcilePlaces, RunPlaces, CancelPlaces, ResumePlaces,
         Jobless, CreatePlaces, Terminal
    <3> QED
      BY <3>2, <3>3, <3>4
  <2> QED
    BY <2>1, <2>2, <2>3, Moving
<1>14. CASE Transition(t)
  <2>1. TypeOK' /\ Shape'
    BY <1>14 DEF Transition, Throw, LegalTransition, TypeOK, Shape, States, Terminal
  <2>2. Moved(t)
    BY <1>14 DEF Transition, Throw, LegalTransition, TypeOK, Shape, Control, Moved
  <2>3. OnTrack(t)'
    <3>1. OnTrack(t) /\ t[2] # "create" /\ pc[t] = "write" /\ UNCHANGED <<job, sched, want>>
      BY <1>14, KindOfPlace DEF Transition, Control, CreatePlaces
    <3>2. \/ pc'[t] = IF want[t] = "running" THEN "prepare" ELSE "release"
\/ Throw(t)
      BY <1>14 DEF Transition, Control
    <3>3. CASE Throw(t)
      BY <3>1, <3>3, Throwing DEF Jobless
    <3>4. CASE pc'[t] = IF want[t] = "running" THEN "prepare" ELSE "release"
      <4>1. want[t] = "running" => t[2] = "run"
        BY <3>1 DEF OnTrack, Kinds, Terminal
      <4> QED
        BY <3>1, <3>4, <4>1 DEF OnTrack, ClaimPlaces, TryPlaces, SettlePlaces,
           ReconcilePlaces, RunPlaces, CancelPlaces, ResumePlaces, Jobless
    <3> QED
      BY <3>2, <3>3, <3>4
  <2> QED
    BY <2>1, <2>2, <2>3, Moving
<1> QED
  BY <1>1, <1>2, <1>3, <1>4, <1>5, <1>6, <1>7, <1>8, <1>9, <1>10, <1>11, <1>12, <1>13, <1>14
     DEF Run

(* cancellation, *)
LEMMA TypeCancel ==
    ASSUME TypeInv, NEW t \in Tasks, Cancel(t) PROVE TypeInv'
<1> USE JobAssumption, TaskParts DEF TypeInv, At, Goto, LedgerFree, durable, process,
   locals, history
<1>1. CASE CancelLock(t)
  <2>1. TypeOK' /\ Shape'
    BY <1>1 DEF CancelLock, TypeOK, Shape, States, Terminal
  <2>2. Moved(t)
    BY <1>1 DEF CancelLock, TypeOK, Shape, Control, Moved
  <2>3. OnTrack(t)'
    <3>1. OnTrack(t) /\ t[2] = "cancel" /\ pc[t] = "cancelLock" /\ UNCHANGED <<job, tries>>
      BY <1>1, KindOfPlace DEF CancelLock, Control, OnTrack, ClaimPlaces, TryPlaces,
         SettlePlaces, ReconcilePlaces, RunPlaces, CancelPlaces, ResumePlaces, Jobless
    <3>2. pc'[t] \in {"cancelRead", "idle"}
      BY <1>1 DEF CancelLock, Control
    <3> QED
      BY <3>1, <3>2 DEF OnTrack, ClaimPlaces, TryPlaces, SettlePlaces, ReconcilePlaces,
         RunPlaces, CancelPlaces, ResumePlaces, Jobless
  <2> QED
    BY <2>1, <2>2, <2>3, Moving
<1>2. CASE CancelRead(t)
  <2>1. TypeOK' /\ Shape'
    BY <1>2 DEF CancelRead, TypeOK, Shape, States, Terminal
  <2>2. Moved(t)
    BY <1>2 DEF CancelRead, TypeOK, Shape, Control, Moved
  <2>3. OnTrack(t)'
    <3>1. OnTrack(t) /\ t[2] = "cancel" /\ pc[t] = "cancelRead" /\ UNCHANGED <<job, tries>>
      BY <1>2, KindOfPlace DEF CancelRead, Control, OnTrack, ClaimPlaces, TryPlaces,
         SettlePlaces, ReconcilePlaces, RunPlaces, CancelPlaces, ResumePlaces, Jobless
    <3>2. pc'[t] \in {"cancelFind", "cancelWrite", "idle"}
      BY <1>2 DEF CancelRead, Control
    <3> QED
      BY <3>1, <3>2 DEF OnTrack, ClaimPlaces, TryPlaces, SettlePlaces, ReconcilePlaces,
         RunPlaces, CancelPlaces, ResumePlaces, Jobless
  <2> QED
    BY <2>1, <2>2, <2>3, Moving
<1>3. CASE CancelFind(t)
  <2>1. TypeOK' /\ Shape'
    BY <1>3 DEF CancelFind, TypeOK, Shape, States, Terminal
  <2>2. Moved(t)
    BY <1>3 DEF CancelFind, TypeOK, Shape, Control, Moved
  <2>3. OnTrack(t)'
    <3>1. OnTrack(t) /\ t[2] = "cancel" /\ pc[t] = "cancelFind" /\ UNCHANGED <<job, tries>>
      BY <1>3, KindOfPlace DEF CancelFind, Control, OnTrack, ClaimPlaces, TryPlaces,
         SettlePlaces, ReconcilePlaces, RunPlaces, CancelPlaces, ResumePlaces, Jobless
    <3>2. pc'[t] \in {"cancelWrite", "idle"}
      BY <1>3 DEF CancelFind, Control
    <3> QED
      BY <3>1, <3>2 DEF OnTrack, ClaimPlaces, TryPlaces, SettlePlaces, ReconcilePlaces,
         RunPlaces, CancelPlaces, ResumePlaces, Jobless
  <2> QED
    BY <2>1, <2>2, <2>3, Moving
<1>4. CASE CancelWrite(t)
  <2>1. TypeOK' /\ Shape'
    BY <1>4 DEF CancelWrite, TypeOK, Shape, States, Terminal
  <2>2. Moved(t)
    BY <1>4 DEF CancelWrite, TypeOK, Shape, Control, Moved
  <2>3. OnTrack(t)'
    <3>1. OnTrack(t) /\ t[2] = "cancel" /\ pc[t] = "cancelWrite" /\ UNCHANGED <<job, want, tries>>
      BY <1>4, KindOfPlace DEF CancelWrite, Control, OnTrack, ClaimPlaces, TryPlaces,
         SettlePlaces, ReconcilePlaces, RunPlaces, CancelPlaces, ResumePlaces, Jobless
    <3>2. pc'[t] = "idle" \/ (pc'[t] = "claim" /\ want[t] = "cancelled")
      BY <1>4 DEF CancelWrite, Control
    <3> QED
      BY <3>1, <3>2 DEF OnTrack, ClaimPlaces, TryPlaces, SettlePlaces, ReconcilePlaces,
         RunPlaces, CancelPlaces, ResumePlaces, Jobless
  <2> QED
    BY <2>1, <2>2, <2>3, Moving
<1>5. CASE CancelRefresh(t)
  <2>1. TypeOK' /\ Shape'
    BY <1>5 DEF CancelRefresh, TypeOK, Shape, States, Terminal
  <2>2. Moved(t)
    BY <1>5 DEF CancelRefresh, TypeOK, Shape, Control, Moved
  <2>3. OnTrack(t)'
    BY <1>5, KindOfPlace DEF CancelRefresh, Control, Shape, TypeOK, OnTrack, ClaimPlaces,
       TryPlaces, SettlePlaces, ReconcilePlaces, RunPlaces, CancelPlaces, ResumePlaces,
       Jobless, CreatePlaces, Terminal
  <2> QED
    BY <2>1, <2>2, <2>3, Moving
<1> QED
  BY <1>1, <1>2, <1>3, <1>4, <1>5 DEF Cancel

(* resumption, *)
LEMMA TypeResume ==
    ASSUME TypeInv, NEW t \in Tasks, Resume(t) PROVE TypeInv'
<1> USE JobAssumption, TaskParts DEF TypeInv, At, Goto, LedgerFree, durable, process,
   locals, history
<1>1. CASE ResumeList(t)
  <2>1. TypeOK' /\ Shape'
    BY <1>1 DEF ResumeList, Reconciled, TypeOK, Shape, States, Terminal
  <2>2. Moved(t)
    BY <1>1 DEF ResumeList, Reconciled, TypeOK, Shape, Control, Moved
  <2>3. OnTrack(t)'
    BY <1>1, KindOfPlace DEF ResumeList, Reconciled, Control, Shape, TypeOK, OnTrack,
       ClaimPlaces, TryPlaces, SettlePlaces, ReconcilePlaces, RunPlaces, CancelPlaces,
       ResumePlaces, Jobless, CreatePlaces, Terminal
  <2> QED
    BY <2>1, <2>2, <2>3, Moving
<1>2. CASE ResumeNext(t)
  <2>0. PICK x \in todo[t[1]] : /\ todo' = [todo EXCEPT ![t[1]] = @ \ {x}]
/\ job' = [job EXCEPT ![t] = x[1]]
/\ Goto(t, IF x[2] = "queued" THEN "resumeQueued" ELSE "claim")
    BY <1>2 DEF ResumeNext
  <2>4. x[1] \in Jobs /\ x[1] \in 0..MaxJobs
    BY DEF Shape, Jobs
  <2>1. TypeOK' /\ Shape'
    <3>1. TypeOK'
      BY <1>2, <2>0, <2>4 DEF ResumeNext, TypeOK, MaxAttempts
    <3>2. todo' \in [Connectors -> SUBSET (Jobs \X {"queued", "running"})]
      BY <2>0 DEF Shape
    <3> QED
      BY <1>2, <3>1, <3>2 DEF ResumeNext, Shape
  <2>2. Moved(t)
    BY <1>2 DEF ResumeNext, TypeOK, Shape, Control, Moved
  <2>3. OnTrack(t)'
    <3>1. job'[t] \in Jobs /\ tries'[t] = 0 /\ want'[t] = "none"
      BY <1>2, <2>0, <2>4 DEF ResumeNext, TypeOK, Shape
    <3>3. t[2] = "resume"
      BY <1>2, KindOfPlace DEF ResumeNext, OnTrack, ClaimPlaces, TryPlaces, SettlePlaces,
         ReconcilePlaces, RunPlaces, CancelPlaces, ResumePlaces, Jobless
    <3>2. pc'[t] \in {"resumeQueued", "claim"}
      BY <2>0 DEF Control
    <3> QED
      BY <3>1, <3>2, <3>3 DEF MaxAttempts, OnTrack, ClaimPlaces, TryPlaces, SettlePlaces,
         ReconcilePlaces, RunPlaces, CancelPlaces, ResumePlaces, Jobless
  <2> QED
    BY <2>1, <2>2, <2>3, Moving
<1>3. CASE ResumeQueued(t)
  <2>0. job[t] \in Jobs /\ OnTrack(t) /\ t[2] = "resume"
    BY <1>3, KindOfPlace DEF ResumeQueued, Control, OnTrack, ClaimPlaces, TryPlaces,
       SettlePlaces, ReconcilePlaces, RunPlaces, CancelPlaces, ResumePlaces, Jobless
  <2>4. /\ sched' \in [Connectors -> Seq(Jobs)]
/\ \A d \in Connectors : sched[d] # <<>> => sched'[d] # <<>>
    BY <1>3, <2>0, Scheduling DEF ResumeQueued, Shape
  <2>1. TypeOK' /\ Shape'
    BY <1>3, <2>4 DEF ResumeQueued, TypeOK, Shape, States, Terminal
  <2>2. Moved(t)
    BY <1>3, <2>4 DEF ResumeQueued, Shape, Control, Moved
  <2>3. OnTrack(t)'
    <3>1. pc'[t] = "next" \/ (pc'[t] = "claim" /\ want'[t] = "cancelled")
      BY <1>3 DEF ResumeQueued, Shape, Control
    <3>2. UNCHANGED <<job, tries>> /\ pc[t] = "resumeQueued"
      BY <1>3 DEF ResumeQueued
    <3> QED
      BY <2>0, <3>1, <3>2 DEF OnTrack, ClaimPlaces, TryPlaces, SettlePlaces,
         ReconcilePlaces, RunPlaces, CancelPlaces, ResumePlaces, Jobless
  <2> QED
    BY <2>1, <2>2, <2>3, Moving
<1>4. CASE ResumeDone(t)
  <2>1. TypeOK' /\ Shape'
    BY <1>4 DEF ResumeDone, TypeOK, Shape, States, Terminal
  <2>2. Moved(t)
    BY <1>4 DEF ResumeDone, TypeOK, Shape, Control, Moved
  <2>3. OnTrack(t)'
    BY <1>4, KindOfPlace DEF ResumeDone, Control, Shape, TypeOK, OnTrack, ClaimPlaces,
       TryPlaces, SettlePlaces, ReconcilePlaces, RunPlaces, CancelPlaces, ResumePlaces,
       Jobless, CreatePlaces, Terminal
  <2> QED
    BY <2>1, <2>2, <2>3, Moving
<1> QED
  BY <1>1, <1>2, <1>3, <1>4 DEF Resume

(* and giving up on a busy ledger. *)
LEMMA TypeLedgerBusy ==
    ASSUME TypeInv, NEW t \in Tasks, LedgerBusy(t) PROVE TypeInv'
<1> USE JobAssumption, TaskParts DEF TypeInv, At, Goto, LedgerFree, durable, process,
   locals, history
<1>1. CASE LedgerBusy(t)
  <2>1. TypeOK' /\ Shape'
    BY <1>1 DEF LedgerBusy, Throw, Unclaimed, InWriterLock, WithClaim, TypeOK, Shape,
       States, Terminal
  <2>2. Moved(t)
    BY <1>1 DEF LedgerBusy, Throw, Unclaimed, InWriterLock, WithClaim, TypeOK, Shape,
       Control, Moved
  <2>3. OnTrack(t)'
    <3>1. OnTrack(t) /\ UNCHANGED <<job, sched, want, tries>>
      BY <1>1 DEF LedgerBusy, Control
    <3>2. CASE pc[t] \in WithClaim
      <4>1. t[2] # "create" /\ pc[t] \notin Jobless /\ Throw(t)
        BY <1>1, <3>2, KindOfPlace DEF LedgerBusy, WithClaim, CreatePlaces, Jobless
      <4> QED
        BY <3>1, <4>1, Throwing
    <3>3. CASE pc[t] \notin WithClaim
      <4>1. pc'[t] = IF t[2] = "resume" THEN "exit" ELSE "idle"
        BY <1>1, <3>3 DEF LedgerBusy, Control
      <4> QED
        BY <4>1 DEF CreatePlaces, Kinds, OnTrack, ClaimPlaces, TryPlaces, SettlePlaces,
           ReconcilePlaces, RunPlaces, CancelPlaces, ResumePlaces, Jobless
    <3> QED
      BY <3>2, <3>3
  <2> QED
    BY <2>1, <2>2, <2>3, Moving
<1> QED
  BY <1>1

(* The requests, the runner, and the life of a connector. *)
LEMMA TypeConnector ==
    ASSUME TypeInv, NEW c \in Connectors,
           \/ \E k \in Keys : CreateRequest(c, k) \/ CreateRetry(c, k)
           \/ \E j \in Jobs : CancelRequest(c, j)
           \/ RunStart(c) \/ Start(c) \/ Close(c) \/ Crash(c) \/ Exit(c)
    PROVE  TypeInv'
<1> USE JobAssumption, TaskParts DEF TypeInv, At, Goto, LedgerFree, durable, process,
       locals, history
<1>0. \A k \in Kinds : <<c, k>> \in Tasks /\ <<c, k>>[1] = c /\ <<c, k>>[2] = k
  BY DEF Tasks
<1>1. ASSUME NEW k \in Keys, CreateRequest(c, k) PROVE TypeInv'
  <2> DEFINE t == <<c, "create">>
  <2>0. t \in Tasks /\ t[2] = "create"
    BY <1>0 DEF Kinds
  <2>1. PICK j \in Jobs : /\ req' = [req EXCEPT ![j] = [key |-> k, base |-> Revision]]
                          /\ job' = [job EXCEPT ![t] = j]
    BY <1>1 DEF CreateRequest
  <2>2. Revision \in Nat /\ j \in 0..MaxJobs
    BY DEF Revision, Shape, Jobs
  <2>3. TypeOK'
    BY <1>1, <2>1, <2>2 DEF CreateRequest, TypeOK
  <2>4. req' \in [Jobs -> [key : Keys \cup {Free}, base : Nat]]
    BY <2>1, <2>2 DEF Shape
  <2>5. Shape'
    BY <1>1, <2>4 DEF CreateRequest, Shape
  <2>6. Moved(t)
    BY <1>1, <2>0, <2>1 DEF CreateRequest, Moved, Control, TypeOK
  <2>7. pc'[t] = "admit" /\ job'[t] = j
    BY <1>1, <2>0, <2>1 DEF CreateRequest, Control, TypeOK
  <2>8. OnTrack(t)'
    BY <2>0, <2>7 DEF OnTrack, CreatePlaces, ClaimPlaces, TryPlaces
  <2> QED
    BY <2>0, <2>3, <2>5, <2>6, <2>8, Moving
<1>2. ASSUME NEW k \in Keys, CreateRetry(c, k) PROVE TypeInv'
  <2>1. rec' \in [Jobs -> States \cup {"absent", "torn"}]
    BY <1>2 DEF CreateRetry, TypeOK, States
  <2> QED
    BY <1>2, <2>1 DEF CreateRetry, TypeOK, Shape, Control, OnTrack
<1>3. ASSUME NEW j \in Jobs, CancelRequest(c, j) PROVE TypeInv'
  <2> DEFINE t == <<c, "cancel">>
  <2>0. t \in Tasks /\ t[2] = "cancel"
    BY <1>0 DEF Kinds
  <2>1. j \in 0..MaxJobs
    BY DEF Jobs
  <2>2. TypeOK'
    <3>1. job' \in [Tasks -> 0..MaxJobs]
      BY <1>3, <2>1 DEF CancelRequest, TypeOK
    <3>2. tries' \in [Tasks -> 0..MaxAttempts]
      <4>1. 0 \in 0..MaxAttempts
        BY DEF MaxAttempts
      <4> QED
        BY <1>3, <4>1 DEF CancelRequest, TypeOK
    <3> QED
      BY <1>3, <3>1, <3>2 DEF CancelRequest, TypeOK
  <2>3. Shape'
    BY <1>3 DEF CancelRequest, Shape
  <2>4. Moved(t)
    BY <1>3, <2>0 DEF CancelRequest, Moved, Control, TypeOK
  <2>5. pc'[t] = "cancelLock" /\ job'[t] = j /\ tries'[t] = 0
    BY <1>3, <2>0 DEF CancelRequest, Control, TypeOK
  <2>6. OnTrack(t)'
    BY <2>0, <2>5 DEF OnTrack, CancelPlaces, ClaimPlaces, TryPlaces, MaxAttempts
  <2> QED
    BY <2>0, <2>2, <2>3, <2>4, <2>6, Moving
<1>4. CASE RunStart(c)
  <2> DEFINE t == <<c, "run">>
  <2>0. t \in Tasks /\ t[1] = c /\ t[2] = "run" /\ pc[t] = "idle"
    BY <1>0, <1>4 DEF Kinds, RunStart
  <2>1. sched[c] \in Seq(Jobs) /\ sched[c] # <<>>
    BY <1>4 DEF RunStart, Shape
  <2>2. Head(sched[c]) \in Jobs /\ Tail(sched[c]) \in Seq(Jobs)
    BY <2>1
  <2>3. Head(sched[c]) \in 0..MaxJobs
    BY <2>2 DEF Jobs
  <2>4. TypeOK'
    <3>1. job' \in [Tasks -> 0..MaxJobs]
      BY <1>4, <2>3 DEF RunStart, TypeOK
    <3>2. tries' \in [Tasks -> 0..MaxAttempts]
      <4>1. 0 \in 0..MaxAttempts
        BY DEF MaxAttempts
      <4> QED
        BY <1>4, <4>1 DEF RunStart, TypeOK
    <3> QED
      BY <1>4, <3>1, <3>2 DEF RunStart, TypeOK
  <2>5. sched' \in [Connectors -> Seq(Jobs)]
    BY <1>4, <2>2 DEF RunStart, Shape
  <2>6. Shape'
    BY <1>4, <2>5 DEF RunStart, Shape
  <2>7. \A u \in Tasks \ {t} : u[2] = "run" => sched'[u[1]] = sched[u[1]]
    BY <1>4, <2>0 DEF RunStart, Shape
  <2>8. Moved(t)
    BY <1>4, <2>0, <2>7 DEF RunStart, Moved, Control, TypeOK
  <2>9. job'[t] \in Jobs /\ tries'[t] = 0
    BY <1>4, <2>0, <2>2 DEF RunStart, TypeOK
  <2>10. pc'[t] = "idle" \/ (pc'[t] = "claim" /\ UNCHANGED sched)
    BY <1>4, <2>0 DEF RunStart, Control
  <2>11. OnTrack(t)'
    BY <2>0, <2>1, <2>9, <2>10 DEF OnTrack, RunPlaces, ClaimPlaces, TryPlaces, Jobless, MaxAttempts
  <2> QED
    BY <2>0, <2>4, <2>6, <2>8, <2>11, Moving
<1>5. CASE Start(c)
  <2> DEFINE t == <<c, "resume">>
  <2>0. t \in Tasks /\ t[2] = "resume"
    BY <1>0 DEF Kinds
  <2>1. TypeOK' /\ Shape'
    BY <1>5 DEF Start, TypeOK, Shape
  <2>2. Moved(t) /\ pc'[t] = "boot"
    BY <1>5, <2>0 DEF Start, Moved, Control
  <2>3. OnTrack(t)'
    BY <2>0, <2>2 DEF OnTrack, ResumePlaces, ClaimPlaces, TryPlaces, Jobless
  <2> QED
    BY <2>0, <2>1, <2>2, <2>3, Moving
<1>6. CASE Close(c)
  BY <1>6 DEF Close, TypeOK, Shape, Control, OnTrack
<1>7. ASSUME Gone(c), UNCHANGED <<log, req, victim>>, anchors' = anchors, cancel' = cancel,
             rec' \in [Jobs -> States \cup {"absent", "torn"}]
      PROVE  TypeInv'
  <2>1. TypeOK'
    BY <1>7 DEF Gone, TypeOK, MaxAttempts
  <2>2. Shape'
    <3>1. sched' \in [Connectors -> Seq(Jobs)]
      BY <1>7 DEF Gone, Shape
    <3>2. todo' \in [Connectors -> SUBSET (Jobs \X {"queued", "running"})]
      BY <1>7 DEF Gone, Shape
    <3>3. want' \in [Tasks -> States \cup {"none"}] /\ caught' \in [Tasks -> BOOLEAN]
      BY <1>7 DEF Gone, Shape
    <3> QED
      BY <1>7, <3>1, <3>2, <3>3 DEF Gone, Shape
  <2>3. pc' \in [Tasks -> Places]
    BY <1>7 DEF Gone, Control, Places, CreatePlaces
  <2>4. ASSUME NEW u \in Tasks PROVE OnTrack(u)'
    <3>1. CASE u[1] = c
      <4>1. pc'[u] = "idle"
        BY <1>7, <3>1 DEF Gone
      <4> QED
        BY <4>1 DEF OnTrack, CreatePlaces, RunPlaces, CancelPlaces, ResumePlaces, ClaimPlaces,
           TryPlaces, Jobless
    <3>2. CASE u[1] # c
      <4>1. /\ pc'[u] = pc[u] /\ job'[u] = job[u] /\ want'[u] = want[u] /\ tries'[u] = tries[u]
            /\ sched'[u[1]] = sched[u[1]]
        BY <1>7, <3>2 DEF Gone, Shape
      <4> QED
        BY <4>1 DEF Control, OnTrack
    <3> QED
      BY <3>1, <3>2
  <2> QED
    BY <2>1, <2>2, <2>3, <2>4 DEF Control
<1>8. CASE Crash(c)
  <2>1. rec' \in [Jobs -> States \cup {"absent", "torn"}]
    BY <1>8 DEF Crash, TypeOK
  <2> QED
    BY <1>7, <1>8, <2>1 DEF Crash
<1>9. CASE Exit(c)
  BY <1>7, <1>9 DEF Exit, TypeOK
<1> QED
  BY <1>1, <1>2, <1>3, <1>4, <1>5, <1>6, <1>8, <1>9

(* Initially everything is idle. *)
LEMMA TypeInit == Init => TypeInv
<1> SUFFICES ASSUME Init PROVE TypeInv
  OBVIOUS
<1> USE JobAssumption DEF Init
<1>1. TypeOK
  BY DEF TypeOK, MaxAttempts
<1>2. Shape
  BY DEF Shape, NoRequest, States
<1>3. Control
  BY DEF Control, OnTrack, Places, CreatePlaces, RunPlaces, CancelPlaces, ResumePlaces,
     ClaimPlaces, TryPlaces, Jobless
<1> QED
  BY <1>1, <1>2, <1>3 DEF TypeInv

(* Every step keeps the shape of the state. *)
LEMMA TypeNext == TypeInv /\ [Next]_vars => TypeInv'
<1> SUFFICES ASSUME TypeInv, [Next]_vars PROVE TypeInv'
  OBVIOUS
<1>1. CASE UNCHANGED vars
  BY <1>1 DEF vars, durable, process, locals, history, TypeInv, TypeOK, Shape, Control, OnTrack
<1>2. ASSUME NEW t \in Tasks, Step(t) PROVE TypeInv'
  BY <1>2, TypeCreate, TypeClaiming, TypeRun, TypeCancel, TypeResume, TypeLedgerBusy DEF Step
<1>3. ASSUME NEW c \in Connectors,
             \/ \E k \in Keys : CreateRequest(c, k) \/ CreateRetry(c, k)
             \/ \E j \in Jobs : CancelRequest(c, j)
             \/ RunStart(c) \/ Start(c) \/ Close(c) \/ Crash(c) \/ Exit(c)
      PROVE TypeInv'
  BY <1>3, TypeConnector
<1>4. CASE ReclaimLedgerLock \/ ReclaimWriterLock
  BY <1>4 DEF ReclaimLedgerLock, ReclaimWriterLock, durable, process, locals, history,
     TypeInv, TypeOK, Shape, Control, OnTrack
<1>5. CASE OtherPublishes
  <2>1. log' \in Seq(0..MaxJobs)
    BY <1>5, JobAssumption DEF OtherPublishes, Other, TypeInv, Shape
  <2> QED
    BY <1>5, <2>1 DEF OtherPublishes, durable, process, locals, history,
       TypeInv, TypeOK, Shape, Control, OnTrack
<1> QED
  BY <1>1, <1>2, <1>3, <1>4, <1>5 DEF Next

(* Every variable keeps its type, through any number of crashes, and every *)
(* task stays in the code of its kind with its attempts within the bound.  *)
THEOREM TypeCorrect == Spec => []TypeOK
<1>1. TypeInv => TypeOK
  BY DEF TypeInv
<1> QED
  BY <1>1, TypeInit, TypeNext, PTL DEF Spec

-----------------------------------------------------------------------------
(* The ledger lock.  Whoever creates a job past admission holds it, and    *)
(* what admission found out still holds when the anchor is written.        *)
PrunePlaces == {"pruneCancellation", "pruneRecord", "pruneAnchor"}
HoldPlaces == {"anchor", "record"} \cup PrunePlaces

Held(t) ==
    /\ pc[t] \in HoldPlaces => ledger = t
    /\ pc[t] \in PrunePlaces => victim \in anchors
    /\ pc[t] = "pruneAnchor" => rec[victim] = "absent"
    /\ pc[t] = "anchor" => Cardinality(anchors) < Cap
    /\ pc[t] = "record" => job[t] \in anchors

LedgerInv == NoExecutableOrphans /\ LedgerBound /\ \A t \in Tasks : Held(t)

(* A step that leaves the lock, the anchors and the creations of others    *)
(* alone, and writes records only while the lock is free.                  *)
Quiet(t) ==
    /\ UNCHANGED <<anchors, victim, ledger>>
    /\ \A u \in Tasks \ {t} : pc'[u] = pc[u] /\ job'[u] = job[u] /\ want'[u] = want[u]
    /\ LedgerFree \/ UNCHANGED rec

(* The prime of KindOfPlace: only a creation holds the ledger lock. *)
LEMMA OnlyCreateHolds ==
    ASSUME Control', NEW t \in Tasks, pc'[t] \in HoldPlaces PROVE t[2] = "create"
<1>1. OnTrack(t)' /\ t[2] \in Kinds
  BY TaskParts DEF Control
<1> QED
  BY <1>1 DEF OnTrack, Kinds, HoldPlaces, PrunePlaces, ClaimPlaces, SettlePlaces, ReconcilePlaces,
     RunPlaces, CancelPlaces, ResumePlaces

(* While the ledger lock is free, nobody is past admission. *)
LEMMA FreeMeansNobody ==
    ASSUME LedgerInv, LedgerFree, NEW t \in Tasks PROVE pc[t] \notin HoldPlaces
  BY OwnerAssumption DEF LedgerInv, Held, LedgerFree

(* The lock excludes: two creations are never both past admission. *)
LEMMA OneHolder ==
    ASSUME LedgerInv, NEW t \in Tasks, NEW u \in Tasks,
           pc[t] \in HoldPlaces, pc[u] \in HoldPlaces
    PROVE  t = u
  BY DEF LedgerInv, Held

(* A quiet step of a task that does not come to hold the lock keeps every  *)
(* promise made under it.                                                  *)
LEMMA QuietStep ==
    ASSUME TypeInv, LedgerInv, NEW t \in Tasks, Quiet(t), NoExecutableOrphans',
           pc'[t] \notin HoldPlaces
    PROVE  LedgerInv'
<1>1. LedgerBound'
  BY DEF LedgerInv, LedgerBound, Quiet
<1>2. ASSUME NEW u \in Tasks PROVE Held(u)'
  <2>1. CASE u = t
    BY <2>1 DEF Held, HoldPlaces, PrunePlaces
  <2>2. CASE u # t
    <3>1. pc'[u] = pc[u] /\ job'[u] = job[u]
      BY <2>2 DEF Quiet
    <3>2. CASE LedgerFree
      BY <3>1, <3>2, FreeMeansNobody DEF Held, HoldPlaces, PrunePlaces
    <3>3. CASE UNCHANGED rec
      BY <3>1, <3>3 DEF LedgerInv, Held, Quiet
    <3> QED
      BY <3>2, <3>3 DEF Quiet
  <2> QED
    BY <2>1, <2>2
<1> QED
  BY <1>1, <1>2 DEF LedgerInv

(* Claims, runs, cancellations and resumptions are quiet, and a record     *)
(* they write is that of an anchored job.                                  *)
LEMMA QuietTasks ==
    ASSUME TypeInv, LedgerInv, NEW t \in Tasks,
           Claiming(t) \/ Run(t) \/ Cancel(t) \/ Resume(t)
    PROVE  Quiet(t) /\ NoExecutableOrphans' /\ t[2] # "create"
<1> USE TaskParts DEF TypeInv, At, Goto, LedgerFree, durable, process, locals, history
<1>0. Control
  OBVIOUS
<1>1. CASE Claiming(t)
  <2>1. t[2] # "create"
    BY <1>1, KindOfPlace DEF Claiming, Claim, Collide, InspectGone, InspectLive, InspectDead,
       QuarantineClaim, Release, CreatePlaces
  <2>2. UNCHANGED <<anchors, victim, ledger, rec, job>>
    BY <1>1 DEF Claiming, Claim, Collide, InspectGone, InspectLive, InspectDead,
       QuarantineClaim, Release
  <2>3. \A u \in Tasks \ {t} : pc'[u] = pc[u] /\ want'[u] = want[u]
    BY <1>1 DEF Claiming, Claim, Collide, InspectGone, InspectLive, InspectDead,
       QuarantineClaim, Release, NextAttempt, Leave, Control
  <2> QED
    BY <2>1, <2>2, <2>3 DEF Quiet, LedgerInv, NoExecutableOrphans
<1>2. CASE Run(t)
  <2> DEFINE RunActions ==
        \/ RunRead(t) \/ RunReadCancellation(t) \/ Prepare(t) \/ CheckBeforePublication(t)
        \/ PublishLock(t) \/ PublishCompare(t) \/ PrePublishCheck(t)
        \/ PublishSwap(t) \/ PublishUnlock(t)
        \/ Reconcile(t) \/ Lookup(t) \/ LookupCancellation(t) \/ AssertClaimOwned(t)
  <2>1. CASE RunActions
    <3>1. t[2] # "create"
      BY <2>1, KindOfPlace DEF RunRead, RunReadCancellation, Prepare, CheckBeforePublication,
         PublishLock, PublishCompare, PrePublishCheck, PublishSwap, PublishUnlock, Reconcile,
         Lookup, LookupCancellation, AssertClaimOwned, CreatePlaces
    <3>2. UNCHANGED <<anchors, victim, ledger, rec, job>>
      BY <2>1 DEF RunRead, RunReadCancellation, Prepare, CheckBeforePublication,
         PublishLock, PublishCompare, PrePublishCheck, PublishSwap, PublishUnlock, Reconcile,
         Lookup, LookupCancellation, AssertClaimOwned
    <3>3. \A u \in Tasks \ {t} : pc'[u] = pc[u] /\ want'[u] = want[u]
      BY <2>1 DEF RunRead, RunReadCancellation, Prepare, CheckBeforePublication,
         PublishLock, PublishCompare, PrePublishCheck, PublishSwap, PublishUnlock, Reconcile,
         Lookup, LookupCancellation, AssertClaimOwned, Throw, TransitionTo, Control, Shape
    <3> QED
      BY <3>1, <3>2, <3>3 DEF Quiet, LedgerInv, NoExecutableOrphans
  <2>2. CASE Transition(t)
    <3>1. t[2] # "create" /\ job[t] \in Jobs
      BY <2>2, KindOfPlace DEF Transition, Control, OnTrack, CreatePlaces, Jobless
    <3>2. Quiet(t)
      BY <2>2 DEF Transition, Throw, Control, Quiet
    <3>3. NoExecutableOrphans'
      BY <2>2, <3>1 DEF Transition, LegalTransition, LedgerInv, NoExecutableOrphans, TypeOK
    <3> QED
      BY <3>1, <3>2, <3>3
  <2> QED
    BY <1>2, <2>1, <2>2 DEF Run
<1>3. CASE Cancel(t)
  <2>1. t[2] # "create"
    BY <1>3, KindOfPlace DEF Cancel, CancelLock, CancelRead, CancelFind, CancelWrite,
       CancelRefresh, CreatePlaces
  <2>2. Quiet(t)
    BY <1>3 DEF Cancel, CancelLock, CancelRead, CancelFind, CancelWrite, CancelRefresh,
       Control, Shape, Quiet
  <2>3. NoExecutableOrphans'
    BY <1>3 DEF Cancel, CancelLock, CancelRead, CancelFind, CancelWrite, CancelRefresh,
       LedgerInv, NoExecutableOrphans
  <2> QED
    BY <2>1, <2>2, <2>3
<1>4. CASE Resume(t)
  <2>1. t[2] # "create"
    BY <1>4, KindOfPlace DEF Resume, ResumeList, ResumeNext, ResumeQueued, ResumeDone,
       CreatePlaces
  <2>2. Quiet(t)
    BY <1>4 DEF Resume, ResumeList, ResumeNext, ResumeQueued, ResumeDone, Schedule,
       Control, TypeOK, Shape, Quiet
  <2>3. NoExecutableOrphans'
    BY <1>4 DEF Resume, ResumeList, ResumeNext, ResumeQueued, ResumeDone, Reconciled,
       LedgerInv, NoExecutableOrphans
  <2> QED
    BY <2>1, <2>2, <2>3
<1> QED
  BY <1>1, <1>2, <1>3, <1>4

(* The ledger can be counted. *)
LEMMA AnchorsFinite ==
    ASSUME TypeInv
    PROVE  IsFiniteSet(anchors) /\ Cardinality(anchors) \in Nat /\ Cap \in Nat
<1>0. 1 \in Int /\ MaxJobs \in Int
  BY JobAssumption
<1>1. IsFiniteSet(Jobs)
  BY <1>0, FS_Interval DEF Jobs
<1>2. IsFiniteSet(anchors)
  BY <1>1, FS_Subset DEF TypeInv, TypeOK
<1> QED
  BY <1>2, FS_CardinalityType, JobAssumption

(* The steps of a creation. *)
LEMMA LedgerCreate ==
    ASSUME TypeInv, LedgerInv, NEW t \in Tasks, Create(t) PROVE LedgerInv'
<1> USE JobAssumption, OwnerAssumption DEF TypeInv, At, Goto, LedgerFree, durable, process,
       locals, history
<1>0. IsFiniteSet(anchors) /\ Cardinality(anchors) \in Nat /\ Cap \in Nat
  BY AnchorsFinite
<1>1. CASE CreateRaced(t)
  <2>1. Quiet(t) /\ pc'[t] \notin HoldPlaces
    BY <1>1 DEF CreateRaced, Quiet, Control, HoldPlaces, PrunePlaces
  <2>2. NoExecutableOrphans'
    BY <1>1 DEF CreateRaced, LedgerInv, NoExecutableOrphans, TypeOK
  <2> QED
    BY <2>1, <2>2, QuietStep
<1>2. CASE Admit(t)
  <2>1. NoExecutableOrphans' /\ LedgerBound'
    BY <1>2 DEF Admit, LedgerInv, NoExecutableOrphans, LedgerBound
  <2>2. ASSUME NEW u \in Tasks, u # t PROVE Held(u)'
    <3>1. pc[u] \notin HoldPlaces
      BY <1>2, FreeMeansNobody DEF Admit
    <3>2. pc'[u] = pc[u]
      BY <1>2, <2>2 DEF Admit, Control
    <3> QED
      BY <3>1, <3>2 DEF Held, HoldPlaces, PrunePlaces
  <2>3. Held(t)'
    BY <1>2 DEF Admit, Control, Held, PrunePlaces
  <2> QED
    BY <2>1, <2>2, <2>3 DEF LedgerInv
<1>3. CASE AdmitFull(t)
  <2>1. NoExecutableOrphans'
    BY <1>3 DEF AdmitFull, LedgerInv, NoExecutableOrphans
  <2>2. LedgerBound'
    BY <1>3 DEF AdmitFull, LedgerInv, LedgerBound
  <2>3. ASSUME NEW u \in Tasks, u # t PROVE Held(u)'
    <3>1. pc[u] \notin HoldPlaces
      BY <1>3, FreeMeansNobody DEF AdmitFull
    <3>2. pc'[u] = pc[u]
      BY <1>3, <2>3 DEF AdmitFull, Control
    <3> QED
      BY <3>1, <3>2 DEF Held, HoldPlaces, PrunePlaces
  <2>4. Held(t)'
    <3>1. \/ pc'[t] = "idle"
          \/ pc'[t] = "pruneCancellation" /\ ledger' = t /\ victim' \in Evictable
      BY <1>3 DEF AdmitFull, Control
    <3>2. Evictable \subseteq anchors /\ anchors' = anchors
      BY <1>3 DEF AdmitFull, Evictable
    <3> QED
      BY <3>1, <3>2 DEF Held, HoldPlaces, PrunePlaces
  <2> QED
    BY <2>1, <2>2, <2>3, <2>4 DEF LedgerInv
<1>4. ASSUME pc[t] \in HoldPlaces, \A u \in Tasks \ {t} : pc'[u] = pc[u], Held(t)',
             NoExecutableOrphans', LedgerBound'
      PROVE  LedgerInv'
  <2>1. ASSUME NEW u \in Tasks, u # t PROVE Held(u)'
    <3>1. pc'[u] \notin HoldPlaces
      BY <1>4, <2>1, OneHolder
    <3> QED
      BY <3>1 DEF Held, HoldPlaces, PrunePlaces
  <2> QED
    BY <1>4, <2>1 DEF LedgerInv
<1>5. CASE PruneCancellation(t)
  <2>1. pc[t] = "pruneCancellation" /\ Held(t) /\ pc'[t] = "pruneRecord"
    BY <1>5 DEF PruneCancellation, LedgerInv, Control
  <2>2. Held(t)' /\ NoExecutableOrphans' /\ LedgerBound'
    BY <1>5, <2>1 DEF PruneCancellation, Held, HoldPlaces, PrunePlaces, LedgerInv,
       NoExecutableOrphans, LedgerBound
  <2> QED
    BY <1>4, <1>5, <2>1, <2>2 DEF PruneCancellation, HoldPlaces, PrunePlaces, Control
<1>6. CASE PruneRecord(t)
  <2>1. pc[t] = "pruneRecord" /\ Held(t) /\ pc'[t] = "pruneAnchor"
    BY <1>6 DEF PruneRecord, LedgerInv, Control
  <2>2. victim \in Jobs /\ ledger = t /\ victim \in anchors
    BY <2>1 DEF Held, HoldPlaces, PrunePlaces, TypeOK
  <2>3. NoExecutableOrphans' /\ LedgerBound' /\ rec'[victim] = "absent"
    BY <1>6, <2>2 DEF PruneRecord, LedgerInv, NoExecutableOrphans, LedgerBound, TypeOK
  <2>4. Held(t)'
    BY <1>6, <2>1, <2>2, <2>3 DEF PruneRecord, Held
  <2> QED
    BY <1>4, <1>6, <2>1, <2>3, <2>4 DEF PruneRecord, HoldPlaces, PrunePlaces, Control
<1>7. CASE PruneAnchor(t)
  <2>1. pc[t] = "pruneAnchor" /\ Held(t) /\ pc'[t] = "anchor"
    BY <1>7 DEF PruneAnchor, LedgerInv, Control
  <2>2. victim \in anchors /\ ledger = t /\ rec[victim] = "absent"
    BY <2>1 DEF Held, HoldPlaces, PrunePlaces
  <2>3. Cardinality(anchors') = Cardinality(anchors) - 1
    BY <1>0, <1>7, <2>2, FS_RemoveElement DEF PruneAnchor
  <2>4. NoExecutableOrphans'
    BY <1>7, <2>2 DEF PruneAnchor, LedgerInv, NoExecutableOrphans
  <2>5. Cardinality(anchors') < Cap /\ LedgerBound'
    BY <1>0, <2>3 DEF LedgerInv, LedgerBound
  <2>6. Held(t)'
    BY <1>7, <2>1, <2>2, <2>5 DEF PruneAnchor, Held, PrunePlaces
  <2> QED
    BY <1>4, <1>7, <2>1, <2>4, <2>5, <2>6 DEF PruneAnchor, HoldPlaces, PrunePlaces, Control
<1>8. CASE WriteAnchor(t)
  <2>1. pc[t] = "anchor" /\ Held(t) /\ pc'[t] = "record"
    BY <1>8 DEF WriteAnchor, LedgerInv, Control
  <2>2. ledger = t /\ Cardinality(anchors) < Cap
    BY <2>1 DEF Held, HoldPlaces
  <2>3. LedgerBound'
    <3>1. anchors' = anchors \cup {job[t]}
      BY <1>8 DEF WriteAnchor
    <3>2. Cardinality(anchors') \in {Cardinality(anchors), Cardinality(anchors) + 1}
      BY <1>0, <3>1, FS_AddElement
    <3> QED
      BY <1>0, <2>2, <3>2 DEF LedgerBound
  <2>4. NoExecutableOrphans'
    BY <1>8 DEF WriteAnchor, LedgerInv, NoExecutableOrphans
  <2>5. Held(t)'
    BY <1>8, <2>1, <2>2 DEF WriteAnchor, Held, PrunePlaces
  <2> QED
    BY <1>4, <1>8, <2>1, <2>3, <2>4, <2>5 DEF WriteAnchor, HoldPlaces, Control
<1>9. CASE WriteRecord(t)
  <2>1. pc[t] = "record" /\ job[t] \in anchors /\ pc'[t] = "idle"
    BY <1>9 DEF WriteRecord, LedgerInv, Held, Control
  <2>2. NoExecutableOrphans' /\ LedgerBound'
    BY <1>9, <2>1 DEF WriteRecord, LedgerInv, NoExecutableOrphans, LedgerBound, TypeOK
  <2>3. Held(t)'
    BY <2>1 DEF Held, HoldPlaces, PrunePlaces
  <2> QED
    BY <1>4, <1>9, <2>1, <2>2, <2>3 DEF WriteRecord, HoldPlaces, Control
<1> QED
  BY <1>1, <1>2, <1>3, <1>5, <1>6, <1>7, <1>8, <1>9 DEF Create

(* The requests, the runner and the life of a connector: a crash may leave *)
(* a record that does not parse, but its job has an anchor.                *)
LEMMA LedgerConnector ==
    ASSUME TypeInv, LedgerInv, TypeInv', NEW c \in Connectors,
           \/ \E k \in Keys : CreateRequest(c, k) \/ CreateRetry(c, k)
           \/ \E j \in Jobs : CancelRequest(c, j)
           \/ RunStart(c) \/ Start(c) \/ Close(c) \/ Crash(c) \/ Exit(c)
    PROVE  LedgerInv'
<1> USE TaskParts DEF TypeInv, At, Goto, LedgerFree, durable, process, locals, history
<1>0. \A k \in Kinds : <<c, k>> \in Tasks /\ <<c, k>>[1] = c /\ <<c, k>>[2] = k
  BY DEF Tasks
<1>1. ASSUME NEW k \in Keys, CreateRequest(c, k) PROVE LedgerInv'
  <2> DEFINE t == <<c, "create">>
  <2>1. t \in Tasks
    BY <1>0 DEF Kinds
  <2>2. Quiet(t) /\ pc'[t] \notin HoldPlaces
    BY <1>1, <2>1 DEF CreateRequest, Quiet, Control, TypeOK, HoldPlaces, PrunePlaces
  <2>3. NoExecutableOrphans'
    BY <1>1 DEF CreateRequest, LedgerInv, NoExecutableOrphans
  <2> QED
    BY <2>1, <2>2, <2>3, QuietStep
<1>2. ASSUME NEW k \in Keys, CreateRetry(c, k) PROVE LedgerInv'
  <2> DEFINE t == <<c, "create">>
  <2>1. t \in Tasks /\ pc[t] = "idle"
    BY <1>0, <1>2 DEF Kinds, CreateRetry
  <2>2. Quiet(t) /\ pc'[t] \notin HoldPlaces
    BY <1>2, <2>1 DEF CreateRetry, Quiet, HoldPlaces, PrunePlaces
  <2>3. NoExecutableOrphans'
    BY <1>2 DEF CreateRetry, LedgerInv, NoExecutableOrphans, TypeOK
  <2> QED
    BY <2>1, <2>2, <2>3, QuietStep
<1>3. ASSUME NEW k \in Kinds \ {"create"}, Quiet(<<c, k>>), UNCHANGED rec PROVE LedgerInv'
  <2> DEFINE t == <<c, k>>
  <2>1. t \in Tasks /\ t[2] # "create"
    BY <1>0
  <2>2. pc'[t] \notin HoldPlaces
    BY <2>1, OnlyCreateHolds
  <2>3. NoExecutableOrphans'
    BY <1>3 DEF Quiet, LedgerInv, NoExecutableOrphans
  <2> QED
    BY <1>3, <2>1, <2>2, <2>3, QuietStep
<1>4. ASSUME NEW j \in Jobs, CancelRequest(c, j) PROVE LedgerInv'
  <2>1. "cancel" \in Kinds \ {"create"} /\ Quiet(<<c, "cancel">>) /\ UNCHANGED rec
    BY <1>0, <1>4 DEF CancelRequest, Quiet, Control, TypeOK, Kinds
  <2> QED
    BY <1>3, <2>1
<1>5. CASE RunStart(c)
  <2>1. "run" \in Kinds \ {"create"} /\ Quiet(<<c, "run">>) /\ UNCHANGED rec
    BY <1>0, <1>5 DEF RunStart, Quiet, Control, TypeOK, Kinds
  <2> QED
    BY <1>3, <2>1
<1>6. CASE Start(c)
  <2>1. "resume" \in Kinds \ {"create"} /\ Quiet(<<c, "resume">>) /\ UNCHANGED rec
    BY <1>0, <1>6 DEF Start, Quiet, Control, Kinds
  <2> QED
    BY <1>3, <2>1
<1>7. CASE Close(c)
  BY <1>7 DEF Close, LedgerInv, NoExecutableOrphans, LedgerBound, Held
<1>8. ASSUME Gone(c), UNCHANGED victim, anchors' = anchors,
             NoExecutableOrphans',
             \A u \in Tasks : pc[u] = "pruneAnchor" /\ u[1] # c => rec'[victim] = rec[victim]
      PROVE  LedgerInv'
  <2>1. ASSUME NEW u \in Tasks PROVE Held(u)'
    <3>1. CASE u[1] = c
      <4>1. pc'[u] = "idle"
        BY <1>8, <3>1 DEF Gone
      <4> QED
        BY <4>1 DEF Held, HoldPlaces, PrunePlaces
    <3>2. CASE u[1] # c
      <4>1. pc'[u] = pc[u] /\ job'[u] = job[u] /\ Held(u)
        BY <1>8, <3>2 DEF Gone, LedgerInv
      <4>2. ledger = u => ledger' = u
        BY <1>8, <3>2 DEF Gone
      <4> QED
        BY <1>8, <3>2, <4>1, <4>2 DEF Held
    <3> QED
      BY <3>1, <3>2
  <2> QED
    BY <1>8, <2>1 DEF LedgerInv, LedgerBound
<1>9. CASE Crash(c)
  <2> DEFINE t == <<c, "create">>
  <2>1. t \in Tasks /\ t[1] = c
    BY <1>0 DEF Kinds
  <2>2. UNCHANGED rec \/ (pc[t] = "record" /\ rec' = [rec EXCEPT ![job[t]] = "torn"])
    BY <1>9 DEF Crash
  <2>3. pc[t] = "record" => job[t] \in anchors
    BY <2>1 DEF LedgerInv, Held
  <2>4. NoExecutableOrphans'
    <3>1. anchors' = anchors
      BY <1>9 DEF Crash
    <3>2. ASSUME NEW j \in Jobs, rec'[j] # "absent" PROVE j \in anchors
      <4> HIDE DEF t
      <4>1. CASE rec'[j] = rec[j]
        BY <3>2, <4>1 DEF LedgerInv, NoExecutableOrphans
      <4>2. CASE rec'[j] # rec[j]
        BY <2>2, <2>3, <4>2 DEF TypeOK
      <4> QED
        BY <4>1, <4>2
    <3> QED
      BY <3>1, <3>2 DEF NoExecutableOrphans
  <2>5. ASSUME NEW u \in Tasks, pc[u] = "pruneAnchor", u[1] # c PROVE rec'[victim] = rec[victim]
    <3>1. pc[t] # "record"
      BY <2>1, <2>5, OneHolder DEF HoldPlaces, PrunePlaces
    <3> QED
      BY <2>2, <3>1
  <2> QED
    BY <1>8, <1>9, <2>4, <2>5 DEF Crash
<1>10. CASE Exit(c)
  BY <1>8, <1>10 DEF Exit, LedgerInv, NoExecutableOrphans
<1> QED
  BY <1>1, <1>2, <1>4, <1>5, <1>6, <1>7, <1>9, <1>10

(* At the start the ledger is empty. *)
LEMMA LedgerInit == Init => LedgerInv
<1> SUFFICES ASSUME Init PROVE LedgerInv
  OBVIOUS
<1>1. LedgerBound
  BY JobAssumption, FS_EmptySet DEF Init, LedgerBound
<1> QED
  BY <1>1 DEF Init, LedgerInv, NoExecutableOrphans, Held, HoldPlaces, PrunePlaces

(* Every step keeps the anchors within the bound and no executable record  *)
(* without its anchor.                                                     *)
LEMMA LedgerNext == TypeInv /\ LedgerInv /\ [Next]_vars => LedgerInv'
<1> SUFFICES ASSUME TypeInv, LedgerInv, [Next]_vars PROVE LedgerInv'
  OBVIOUS
<1>0. TypeInv'
  BY TypeNext
<1>1. CASE UNCHANGED vars
  BY <1>1 DEF vars, durable, process, locals, history, LedgerInv, NoExecutableOrphans,
     LedgerBound, Held
<1>2. ASSUME NEW t \in Tasks, Step(t) PROVE LedgerInv'
  <2>1. CASE Create(t)
    BY <2>1, LedgerCreate
  <2>2. CASE Claiming(t) \/ Run(t) \/ Cancel(t) \/ Resume(t)
    <3>1. pc'[t] \notin HoldPlaces
      BY <1>0, <2>2, QuietTasks, OnlyCreateHolds DEF TypeInv
    <3> QED
      BY <2>2, <3>1, QuietTasks, QuietStep
  <2>3. CASE LedgerBusy(t)
    <3>1. UNCHANGED <<anchors, victim, ledger, rec, job, want>>
      BY <2>3 DEF LedgerBusy, durable, process
    <3>2. \A u \in Tasks \ {t} : pc'[u] = pc[u]
      BY <2>3 DEF LedgerBusy, Throw, Goto, TypeInv, Control
    <3>3. pc'[t] \in {"reconcile", "release", "exit", "idle"}
      BY <2>3 DEF LedgerBusy, Throw, Goto, TypeInv, Control
    <3>4. Quiet(t) /\ pc'[t] \notin HoldPlaces /\ NoExecutableOrphans'
      BY <3>1, <3>2, <3>3 DEF Quiet, HoldPlaces, PrunePlaces, LedgerInv, NoExecutableOrphans
    <3> QED
      BY <3>4, QuietStep
  <2> QED
    BY <1>2, <2>1, <2>2, <2>3 DEF Step
<1>3. ASSUME NEW c \in Connectors,
             \/ \E k \in Keys : CreateRequest(c, k) \/ CreateRetry(c, k)
             \/ \E j \in Jobs : CancelRequest(c, j)
             \/ RunStart(c) \/ Start(c) \/ Close(c) \/ Crash(c) \/ Exit(c)
      PROVE LedgerInv'
  BY <1>0, <1>3, LedgerConnector
<1>4. CASE ReclaimLedgerLock
  <2>1. \A t \in Tasks : ledger # t
    BY <1>4, OwnerAssumption DEF ReclaimLedgerLock
  <2>2. \A t \in Tasks : pc'[t] \notin HoldPlaces
    BY <1>4, <2>1 DEF ReclaimLedgerLock, LedgerInv, Held
  <2> QED
    BY <1>4, <2>2 DEF ReclaimLedgerLock, durable, LedgerInv, NoExecutableOrphans, LedgerBound,
       Held, HoldPlaces, PrunePlaces
<1>5. CASE ReclaimWriterLock \/ OtherPublishes
  BY <1>5 DEF ReclaimWriterLock, OtherPublishes, durable, process, locals, history,
     LedgerInv, NoExecutableOrphans, LedgerBound, Held
<1> QED
  BY <1>1, <1>2, <1>3, <1>4, <1>5 DEF Next

(* No job record exists without its idempotency anchor, whatever crashes   *)
(* between the writes of createJobHeld and pruneJobLedgerEntry.            *)
THEOREM NoOrphans == Spec => []NoExecutableOrphans
<1>1. TypeInv /\ LedgerInv => NoExecutableOrphans
  BY DEF LedgerInv
<1> QED
  BY <1>1, TypeInit, TypeNext, LedgerInit, LedgerNext, PTL DEF Spec

(* The ledger never exceeds JOB_LEDGER_MAX_ENTRIES, although admission     *)
(* counts the entries well before it writes the new anchor.                *)
THEOREM WithinBound == Spec => []LedgerBound
<1>1. TypeInv /\ LedgerInv => LedgerBound
  BY DEF LedgerInv
<1> QED
  BY <1>1, TypeInit, TypeNext, LedgerInit, LedgerNext, PTL DEF Spec

-----------------------------------------------------------------------------
(* While the ledger has room for every idempotency key, nothing is ever    *)
(* evicted.                                                                *)
Room == IsFiniteSet(Keys) /\ Cardinality(Keys) <= Cap

(* Anchors have different keys, a job that is being created is no other    *)
(* creation's, and has no anchor before it is written and no record before *)
(* that is.                                                                *)
NewPlaces == {"admit", "anchor", "record"}
Fresh(t) ==
    /\ pc[t] \notin PrunePlaces
    /\ pc[t] \in NewPlaces => req[job[t]].key \in Keys /\ rec[job[t]] = "absent"
    /\ pc[t] \in {"admit", "anchor"} => job[t] \notin anchors
    /\ pc[t] = "anchor" => KeyUnused(t)

KeysInv ==
    /\ \A j \in anchors : req[j].key \in Keys
    /\ \A i, j \in anchors : req[i].key = req[j].key => i = j
    /\ \A t \in Tasks : Fresh(t)
    /\ \A t, u \in Tasks : pc[t] \in NewPlaces /\ pc[u] \in NewPlaces /\ job[t] = job[u] => t = u

(* What is settled stays settled. *)
SettledInv == \A j \in settled : j \in Jobs /\ rec[j] \in Terminal

(* The writer lock excludes: who is inside has it. *)
WriterPlaces == {"compare", "prePublishCheck", "swap", "unlock",
                 "cancelRead", "cancelFind", "cancelWrite"}
WriterInv == \A t \in Tasks : pc[t] \in WriterPlaces => wlock = t

(* A job that was started. *)
Begun(j) == rec[j] \in {"running"} \cup Terminal

(* What a task knows about its job from what it has read. *)
Knows(t) ==
    /\ pc[t] \in {"prepare", "check", "lock", "compare", "prePublishCheck", "swap", "unlock"}
          => Begun(job[t])
    /\ pc[t] \in {"prePublishCheck", "swap"} => Revision = req[job[t]].base
    /\ pc[t] = "swap" => job[t] \notin cancel
    /\ pc[t] = "unlock" => Published(job[t])
    /\ pc[t] = "cancelWrite" => ~Published(job[t])
    /\ t[2] = "cancel" /\ pc[t] \in ClaimPlaces \cup {"refresh"} => job[t] \in cancel
    /\ t[2] = "resume" /\ pc[t] \in ClaimPlaces /\ want[t] = "cancelled" => job[t] \in cancel
    /\ pc[t] \in {"assert", "write"} /\ want[t] = "cancelled" => job[t] \in cancel
    /\ pc[t] \in {"assert", "write"} /\ want[t] = "succeeded" => Published(job[t])

(* The outcomes that no crash and no race can falsify. *)
NoFalseOutcome ==
    \A j \in Jobs : /\ rec[j] = "succeeded" => Published(j)
                    /\ rec[j] = "cancelled" => ~Published(j)

OutcomeInv ==
    /\ cancel = accepted /\ cancel \subseteq anchors
    /\ \A i \in 1..Len(log) : log[i] # Other => i = req[log[i]].base + 1 /\ Begun(log[i])
    /\ \A j \in Jobs : /\ rec[j] = "succeeded" => Published(j)
                       /\ rec[j] = "cancelled" => j \in cancel
    /\ \A t \in Tasks : Knows(t)
    /\ CancelledNeverPublishes

RoomInv == KeysInv /\ SettledInv /\ WriterInv /\ OutcomeInv

-----------------------------------------------------------------------------
(* A request whose key no anchor has finds the ledger below its bound.     *)
LEMMA NoEviction ==
    ASSUME Room, KeysInv, NEW k \in Keys, \A j \in anchors : req[j].key # k
    PROVE  Cardinality(anchors) < Cap
<1> DEFINE T == Keys \ {k}
           f == [j \in anchors |-> req[j].key]
<1>1. f \in Injection(anchors, T)
  BY DEF KeysInv, Injection, IsInjective
<1>2. IsFiniteSet(T) /\ Cardinality(T) = Cardinality(Keys) - 1 /\ Cardinality(Keys) \in Nat
  BY FS_RemoveElement, FS_CardinalityType DEF Room
<1>3. IsFiniteSet(anchors) /\ Cardinality(anchors) <= Cardinality(T)
  BY <1>1, <1>2, FS_Injection
<1>4. Cardinality(anchors) \in Nat /\ Cap \in Nat
  BY <1>3, FS_CardinalityType, JobAssumption
<1> QED
  BY <1>2, <1>3, <1>4 DEF Room

(* The kinds of the tasks at the places of a creation, now and after a     *)
(* step.                                                                   *)
LEMMA OnlyCreateIsNew ==
    ASSUME Control', NEW t \in Tasks, t[2] # "create"
    PROVE  pc'[t] \notin NewPlaces \cup PrunePlaces
<1>1. OnTrack(t)' /\ t[2] \in Kinds
  BY TaskParts DEF Control
<1> QED
  BY <1>1 DEF OnTrack, Kinds, NewPlaces, PrunePlaces, ClaimPlaces, SettlePlaces, ReconcilePlaces,
     RunPlaces, CancelPlaces, ResumePlaces

(* A step that changes no anchor and no request, and lets nobody into a    *)
(* creation.                                                               *)
LEMMA KeysFrame ==
    ASSUME TypeInv, KeysInv, LedgerInv', UNCHANGED <<anchors, req>>,
           \A u \in Tasks : pc'[u] \in NewPlaces \cup PrunePlaces =>
              /\ pc'[u] = pc[u] /\ job'[u] = job[u]
              /\ pc[u] = "record" => rec'[job[u]] = "absent"
    PROVE  KeysInv'
<1>1. ASSUME NEW u \in Tasks PROVE Fresh(u)'
  <2>1. CASE pc'[u] \notin NewPlaces \cup PrunePlaces
    BY <2>1 DEF Fresh, NewPlaces
  <2>2. CASE pc'[u] \in NewPlaces \cup PrunePlaces
    <3>1. /\ pc'[u] = pc[u] /\ job'[u] = job[u] /\ Fresh(u)
          /\ pc[u] = "record" => rec'[job[u]] = "absent"
      BY <2>2 DEF KeysInv
    <3>2. pc[u] \in NewPlaces
      BY <2>2, <3>1 DEF Fresh
    <3>3. job[u] \in Jobs
      BY <3>2 DEF TypeInv, Control, OnTrack, NewPlaces, Jobless
    <3>4. pc[u] \in {"admit", "anchor"} => rec'[job[u]] = "absent"
      BY <3>1, <3>3 DEF Fresh, LedgerInv, NoExecutableOrphans
    <3> QED
      BY <3>1, <3>2, <3>4 DEF Fresh, KeyUnused, NewPlaces
  <2> QED
    BY <2>1, <2>2
<1>2. ASSUME NEW t \in Tasks, NEW u \in Tasks, pc'[t] \in NewPlaces, pc'[u] \in NewPlaces,
             job'[t] = job'[u]
      PROVE  t = u
  BY <1>2 DEF KeysInv
<1>3. \A j \in anchors' : req'[j].key \in Keys
  BY DEF KeysInv
<1>4. \A i, j \in anchors' : req'[i].key = req'[j].key => i = j
  BY DEF KeysInv
<1> QED
  BY <1>1, <1>2, <1>3, <1>4 DEF KeysInv

(* A quiet step of a task that creates nothing. *)
LEMMA KeysQuiet ==
    ASSUME TypeInv, LedgerInv, KeysInv, LedgerInv', NEW t \in Tasks, Quiet(t), UNCHANGED req,
           pc'[t] \notin NewPlaces \cup PrunePlaces
    PROVE  KeysInv'
<1>1. ASSUME NEW u \in Tasks, pc'[u] \in NewPlaces \cup PrunePlaces
      PROVE  /\ pc'[u] = pc[u] /\ job'[u] = job[u]
             /\ pc[u] = "record" => rec'[job[u]] = "absent"
  <2>1. u # t
    BY <1>1
  <2>2. pc'[u] = pc[u] /\ job'[u] = job[u]
    BY <2>1 DEF Quiet
  <2>3. ASSUME pc[u] = "record" PROVE rec'[job[u]] = "absent"
    <3>1. UNCHANGED rec
      BY <2>3, FreeMeansNobody DEF Quiet, HoldPlaces
    <3> QED
      BY <2>3, <3>1 DEF KeysInv, Fresh, NewPlaces
  <2> QED
    BY <2>2, <2>3
<1> QED
  BY <1>1, KeysFrame DEF Quiet

(* So no step of an eviction is ever taken. *)
LEMMA NothingEvicted ==
    ASSUME Room, TypeInv, KeysInv, NEW t \in Tasks
    PROVE  ~AdmitFull(t) /\ ~PruneCancellation(t) /\ ~PruneRecord(t) /\ ~PruneAnchor(t)
<1>0. Fresh(t)
  BY DEF KeysInv
<1>1. ASSUME AdmitFull(t) PROVE FALSE
  <2>1. req[job[t]].key \in Keys /\ KeyUnused(t) /\ Cardinality(anchors) >= Cap
    BY <1>0, <1>1 DEF AdmitFull, At, Fresh, NewPlaces
  <2>2. Cardinality(anchors) < Cap
    BY <2>1, NoEviction DEF KeyUnused
  <2> QED
    BY <2>1, <2>2, AnchorsFinite
<1> QED
  BY <1>0, <1>1 DEF PruneCancellation, PruneRecord, PruneAnchor, At, Fresh, PrunePlaces

(* createJob finds the record of its key or adds the only one. *)
LEMMA KeysCreate ==
    ASSUME Room, TypeInv, LedgerInv, KeysInv, LedgerInv', NEW t \in Tasks, Create(t)
    PROVE  KeysInv'
<1> USE DEF TypeInv, At, Goto, LedgerFree, durable, process, locals, history
<1>0. Fresh(t)
  BY DEF KeysInv
<1>1. CASE CreateRaced(t)
  <2>1. Quiet(t) /\ pc'[t] \notin NewPlaces \cup PrunePlaces /\ UNCHANGED req
    BY <1>1 DEF CreateRaced, Quiet, Control, NewPlaces, PrunePlaces
  <2> QED
    BY <2>1, KeysQuiet
<1>2. CASE Admit(t)
  <2>1. pc[t] = "admit" /\ pc'[t] = "anchor" /\ KeyUnused(t) /\ UNCHANGED <<anchors, req, rec, job>>
    BY <1>2 DEF Admit, Control
  <2>2. \A u \in Tasks : u # t => pc'[u] = pc[u]
    BY <1>2 DEF Admit, Control
  <2>3. ASSUME NEW u \in Tasks PROVE Fresh(u)'
    <3>1. CASE u = t
      BY <1>0, <2>1, <3>1 DEF Fresh, KeyUnused, NewPlaces, PrunePlaces
    <3>2. CASE u # t
      BY <2>1, <2>2, <3>2 DEF KeysInv, Fresh, KeyUnused
    <3> QED
      BY <3>1, <3>2
  <2>4. \A u \in Tasks : pc'[u] \in NewPlaces => pc[u] \in NewPlaces
    BY <2>1, <2>2 DEF NewPlaces
  <2> QED
    BY <2>1, <2>3, <2>4 DEF KeysInv
<1>3. CASE AdmitFull(t) \/ PruneCancellation(t) \/ PruneRecord(t) \/ PruneAnchor(t)
  BY <1>3, NothingEvicted
<1>5. CASE WriteAnchor(t)
  <2>1. pc[t] = "anchor" /\ pc'[t] = "record" /\ KeyUnused(t) /\ UNCHANGED <<req, rec, job>>
    BY <1>0, <1>5 DEF WriteAnchor, Control, Fresh
  <2>2. anchors' = anchors \cup {job[t]} /\ req[job[t]].key \in Keys
    BY <1>0, <1>5 DEF WriteAnchor, Fresh, NewPlaces
  <2>3. \A u \in Tasks : u # t => pc'[u] = pc[u]
    BY <1>5 DEF WriteAnchor, Control
  <2>4. ASSUME NEW u \in Tasks, u # t PROVE Fresh(u)'
    <3>1. pc[u] # "anchor"
      BY <2>1, <2>4, OneHolder DEF HoldPlaces
    <3>2. pc[u] \in NewPlaces => job[u] # job[t]
      BY <2>1, <2>4 DEF KeysInv, NewPlaces
    <3> QED
      BY <2>1, <2>2, <2>3, <2>4, <3>1, <3>2 DEF KeysInv, Fresh, NewPlaces
  <2>5. Fresh(t)'
    BY <1>0, <2>1 DEF Fresh, NewPlaces, PrunePlaces
  <2>6. \A u \in Tasks : pc'[u] \in NewPlaces => pc[u] \in NewPlaces
    BY <2>1, <2>3 DEF NewPlaces
  <2>7. \A i, j \in anchors' : req'[i].key = req'[j].key => i = j
    BY <2>1, <2>2 DEF KeysInv, KeyUnused
  <2>8. \A j \in anchors' : req'[j].key \in Keys
    BY <2>1, <2>2 DEF KeysInv
  <2>9. \A v, u \in Tasks : pc'[v] \in NewPlaces /\ pc'[u] \in NewPlaces /\ job'[v] = job'[u] => v = u
    BY <2>1, <2>6 DEF KeysInv
  <2> QED
    BY <2>4, <2>5, <2>7, <2>8, <2>9 DEF KeysInv
<1>6. CASE WriteRecord(t)
  <2>1. ASSUME NEW u \in Tasks, pc'[u] \in NewPlaces \cup PrunePlaces
        PROVE  /\ pc'[u] = pc[u] /\ job'[u] = job[u]
               /\ pc[u] = "record" => rec'[job[u]] = "absent"
    <3>1. u # t /\ pc'[u] = pc[u] /\ job'[u] = job[u]
      BY <1>6, <2>1 DEF WriteRecord, Control, NewPlaces, PrunePlaces
    <3>2. pc[u] # "record"
      BY <1>6, <3>1, OneHolder DEF WriteRecord, HoldPlaces
    <3> QED
      BY <3>1, <3>2
  <2> QED
    BY <1>6, <2>1, KeysFrame DEF WriteRecord
<1> QED
  BY <1>1, <1>2, <1>3, <1>5, <1>6 DEF Create

(* The steps outside the ledger files add no record for a key. *)
LEMMA KeysConnector ==
    ASSUME TypeInv, LedgerInv, KeysInv, TypeInv', LedgerInv', NEW c \in Connectors,
           \/ \E k \in Keys : CreateRequest(c, k) \/ CreateRetry(c, k)
           \/ \E j \in Jobs : CancelRequest(c, j)
           \/ RunStart(c) \/ Start(c) \/ Close(c) \/ Crash(c) \/ Exit(c)
    PROVE  KeysInv'
<1> USE DEF TypeInv, At, Goto, LedgerFree, durable, process, locals, history
<1>0. \A k \in Kinds : <<c, k>> \in Tasks /\ <<c, k>>[1] = c /\ <<c, k>>[2] = k
  BY DEF Tasks
<1>1. ASSUME NEW k \in Keys, CreateRequest(c, k) PROVE KeysInv'
  <2> DEFINE t == <<c, "create">>
  <2>0. t \in Tasks
    BY <1>0 DEF Kinds
  <2> HIDE DEF t
  <2>1. PICK j \in Jobs : /\ req[j] = NoRequest
                          /\ req' = [req EXCEPT ![j] = [key |-> k, base |-> Revision]]
                          /\ job' = [job EXCEPT ![t] = j]
    BY <1>1 DEF CreateRequest, t
  <2>2. pc' = [pc EXCEPT ![t] = "admit"] /\ UNCHANGED <<anchors, rec>>
    BY <1>1 DEF CreateRequest, t
  <2>3. req[j].key \notin Keys
    BY <2>1, OwnerAssumption DEF NoRequest
  <2>4. j \notin anchors
    BY <2>3 DEF KeysInv
  <2>5. req'[j].key = k /\ \A i \in Jobs : i # j => req'[i] = req[i]
    BY <2>1 DEF Shape
  <2>6. pc'[t] = "admit" /\ job'[t] = j
    BY <2>0, <2>1, <2>2 DEF Control, TypeOK
  <2>7. \A u \in Tasks : u # t => pc'[u] = pc[u] /\ job'[u] = job[u]
    BY <2>1, <2>2 DEF Control, TypeOK
  <2>8. ASSUME NEW u \in Tasks, u # t, pc[u] \in NewPlaces PROVE job[u] # j /\ job[u] \in Jobs
    BY <2>3, <2>8 DEF KeysInv, Fresh, Control, OnTrack, NewPlaces, Jobless
  <2>9. Fresh(t)'
    <3>1. rec[j] = "absent"
      BY <2>4 DEF LedgerInv, NoExecutableOrphans
    <3> QED
      BY <2>2, <2>4, <2>5, <2>6, <3>1 DEF Fresh, PrunePlaces, NewPlaces
  <2>10. ASSUME NEW u \in Tasks, u # t PROVE Fresh(u)'
    <3>1. Fresh(u) /\ pc'[u] = pc[u] /\ job'[u] = job[u]
      BY <2>7, <2>10 DEF KeysInv
    <3>2. CASE pc[u] \notin NewPlaces
      BY <3>1, <3>2 DEF Fresh, NewPlaces
    <3>3. CASE pc[u] \in NewPlaces
      <4>1. req'[job[u]] = req[job[u]]
        BY <2>5, <2>8, <2>10, <3>3
      <4>2. \A i \in anchors : req'[i] = req[i]
        BY <2>4, <2>5 DEF TypeOK
      <4> QED
        BY <2>2, <3>1, <4>1, <4>2 DEF Fresh, KeyUnused
    <3> QED
      BY <3>2, <3>3
  <2>11. \A i \in anchors : req'[i] = req[i]
    BY <2>4, <2>5 DEF TypeOK
  <2>12. ASSUME NEW u \in Tasks, NEW v \in Tasks, pc'[u] \in NewPlaces, pc'[v] \in NewPlaces,
               job'[u] = job'[v]
        PROVE  u = v
    BY <2>6, <2>7, <2>8, <2>12 DEF KeysInv
  <2> QED
    BY <2>2, <2>9, <2>10, <2>11, <2>12 DEF KeysInv
<1>2. ASSUME NEW k \in Keys, CreateRetry(c, k) PROVE KeysInv'
  <2>1. \A u \in Tasks : pc[u] # "record"
    BY <1>2, FreeMeansNobody DEF CreateRetry, HoldPlaces
  <2> QED
    BY <1>2, <2>1, KeysFrame DEF CreateRetry
<1>3. ASSUME NEW j \in Jobs, CancelRequest(c, j) PROVE KeysInv'
  <2>1. \A u \in Tasks : u # <<c, "cancel">> => pc'[u] = pc[u] /\ job'[u] = job[u]
    BY <1>0, <1>3 DEF CancelRequest, Kinds, Control, TypeOK
  <2>2. pc'[<<c, "cancel">>] \notin NewPlaces \cup PrunePlaces
    BY <1>0, OnlyCreateIsNew DEF Kinds
  <2>3. UNCHANGED <<anchors, req, rec>>
    BY <1>3 DEF CancelRequest
  <2> QED
    BY <2>1, <2>2, <2>3, KeysFrame DEF KeysInv, Fresh, NewPlaces
<1>4. CASE RunStart(c)
  <2>1. \A u \in Tasks : u # <<c, "run">> => pc'[u] = pc[u] /\ job'[u] = job[u]
    BY <1>0, <1>4 DEF RunStart, Kinds, Control, TypeOK
  <2>2. pc'[<<c, "run">>] \notin NewPlaces \cup PrunePlaces
    BY <1>0, OnlyCreateIsNew DEF Kinds
  <2>3. UNCHANGED <<anchors, req, rec>>
    BY <1>4 DEF RunStart
  <2> QED
    BY <2>1, <2>2, <2>3, KeysFrame DEF KeysInv, Fresh, NewPlaces
<1>5. CASE Start(c)
  <2>1. \A u \in Tasks : u # <<c, "resume">> => pc'[u] = pc[u] /\ job'[u] = job[u]
    BY <1>0, <1>5 DEF Start, Kinds, Control
  <2>2. pc'[<<c, "resume">>] \notin NewPlaces \cup PrunePlaces
    BY <1>0, OnlyCreateIsNew DEF Kinds
  <2>3. UNCHANGED <<anchors, req, rec>>
    BY <1>5 DEF Start
  <2> QED
    BY <2>1, <2>2, <2>3, KeysFrame DEF KeysInv, Fresh, NewPlaces
<1>6. CASE Close(c)
  BY <1>6 DEF Close, KeysInv, Fresh, KeyUnused
<1>7. ASSUME Gone(c), UNCHANGED <<anchors, req>>,
             \A u \in Tasks : pc[u] = "record" /\ u[1] # c => rec'[job[u]] = rec[job[u]]
      PROVE  KeysInv'
  <2>1. ASSUME NEW u \in Tasks, pc'[u] \in NewPlaces \cup PrunePlaces
        PROVE  /\ pc'[u] = pc[u] /\ job'[u] = job[u]
               /\ pc[u] = "record" => rec'[job[u]] = "absent"
    <3>1. u[1] # c /\ pc'[u] = pc[u] /\ job'[u] = job[u]
      BY <1>7, <2>1 DEF Gone, NewPlaces, PrunePlaces
    <3> QED
      BY <1>7, <3>1 DEF KeysInv, Fresh, NewPlaces
  <2> QED
    BY <1>7, <2>1, KeysFrame
<1>8. CASE Crash(c)
  <2> DEFINE t == <<c, "create">>
  <2>1. t \in Tasks /\ t[1] = c
    BY <1>0 DEF Kinds
  <2>2. UNCHANGED rec \/ pc[t] = "record"
    BY <1>8 DEF Crash
  <2>3. ASSUME NEW u \in Tasks, pc[u] = "record", u[1] # c PROVE rec'[job[u]] = rec[job[u]]
    BY <2>1, <2>2, <2>3, OneHolder DEF HoldPlaces
  <2> QED
    BY <1>7, <1>8, <2>3 DEF Crash
<1>9. CASE Exit(c)
  BY <1>7, <1>9 DEF Exit
<1> QED
  BY <1>1, <1>2, <1>3, <1>4, <1>5, <1>6, <1>8, <1>9

(* While there is room for every key, no step evicts a record or adds a    *)
(* second for its key.                                                     *)
LEMMA KeysNext ==
    ASSUME Room, TypeInv, LedgerInv, KeysInv, [Next]_vars PROVE KeysInv'
<1>0. TypeInv' /\ LedgerInv'
  BY TypeNext, LedgerNext
<1>1. CASE UNCHANGED vars
  BY <1>1 DEF vars, durable, process, locals, history, KeysInv, Fresh, KeyUnused
<1>2. ASSUME NEW t \in Tasks, Step(t) PROVE KeysInv'
  <2>1. CASE Create(t)
    BY <1>0, <2>1, KeysCreate
  <2>2. CASE Claiming(t) \/ Run(t) \/ Cancel(t) \/ Resume(t)
    <3>1. Quiet(t) /\ t[2] # "create"
      BY <2>2, QuietTasks
    <3>2. UNCHANGED req
      BY <2>2 DEF Claiming, Claim, Collide, InspectGone, InspectLive, InspectDead,
         QuarantineClaim, Release, Run, RunRead, RunReadCancellation, Prepare,
         CheckBeforePublication, PublishLock, PublishCompare, PrePublishCheck, PublishSwap,
         PublishUnlock, Reconcile, Lookup, LookupCancellation, AssertClaimOwned, Transition,
         Cancel, CancelLock, CancelRead, CancelFind, CancelWrite, CancelRefresh,
         Resume, ResumeList, ResumeNext, ResumeQueued, ResumeDone, durable
    <3>3. pc'[t] \notin NewPlaces \cup PrunePlaces
      BY <1>0, <3>1, OnlyCreateIsNew DEF TypeInv
    <3> QED
      BY <1>0, <3>1, <3>2, <3>3, KeysQuiet
  <2>3. CASE LedgerBusy(t)
    <3>1. UNCHANGED <<anchors, req, rec, job>>
      BY <2>3 DEF LedgerBusy, durable
    <3>2. /\ \A u \in Tasks \ {t} : pc'[u] = pc[u]
          /\ pc'[t] \in {"reconcile", "release", "exit", "idle"}
      BY <2>3 DEF LedgerBusy, Throw, Goto, TypeInv, Control
    <3>3. \A u \in Tasks : pc'[u] \in NewPlaces \cup PrunePlaces =>
              /\ pc'[u] = pc[u] /\ job'[u] = job[u]
              /\ pc[u] = "record" => rec'[job[u]] = "absent"
      BY <3>1, <3>2 DEF KeysInv, Fresh, NewPlaces, PrunePlaces
    <3> QED
      BY <1>0, <3>1, <3>3, KeysFrame
  <2> QED
    BY <1>2, <2>1, <2>2, <2>3 DEF Step
<1>3. ASSUME NEW c \in Connectors,
             \/ \E k \in Keys : CreateRequest(c, k) \/ CreateRetry(c, k)
             \/ \E j \in Jobs : CancelRequest(c, j)
             \/ RunStart(c) \/ Start(c) \/ Close(c) \/ Crash(c) \/ Exit(c)
      PROVE KeysInv'
  BY <1>0, <1>3, KeysConnector
<1>4. CASE ReclaimLedgerLock \/ ReclaimWriterLock \/ OtherPublishes
  BY <1>4 DEF ReclaimLedgerLock, ReclaimWriterLock, OtherPublishes, durable, process, locals,
     history, KeysInv, Fresh, KeyUnused
<1> QED
  BY <1>1, <1>2, <1>3, <1>4 DEF Next

-----------------------------------------------------------------------------
(* How a record changes while nothing is evicted: a missing one is written *)
(* or restored, and anything else is a legal transition.                   *)
LEMMA RecordsEvolve ==
    ASSUME Room, TypeInv, LedgerInv, KeysInv, [Next]_vars, NEW j \in Jobs, rec'[j] # rec[j]
    PROVE  \/ rec[j] = "absent" /\ rec'[j] \in {"queued", "torn"} /\ UNCHANGED settled
           \/ \E t \in Tasks : /\ Transition(t) /\ job[t] = j /\ rec'[j] = want[t]
                               /\ LegalTransition(rec[j], want[t])
<1> USE DEF TypeInv, At, Goto, LedgerFree, durable, process, locals, history
<1>1. CASE UNCHANGED vars
  BY <1>1 DEF vars
<1>2. ASSUME NEW t \in Tasks, Create(t)
      PROVE  rec[j] = "absent" /\ rec'[j] \in {"queued", "torn"} /\ UNCHANGED settled
  <2>1. CASE CreateRaced(t)
    BY <2>1 DEF CreateRaced, TypeOK
  <2>2. CASE Admit(t) \/ WriteAnchor(t)
    BY <2>2 DEF Admit, WriteAnchor
  <2>3. CASE WriteRecord(t)
    <3>1. rec[job[t]] = "absent"
      BY <2>3 DEF WriteRecord, KeysInv, Fresh, NewPlaces
    <3> QED
      BY <2>3, <3>1 DEF WriteRecord, TypeOK
  <2> QED
    BY <1>2, <2>1, <2>2, <2>3, NothingEvicted DEF Create
<1>3. ASSUME NEW t \in Tasks, Claiming(t) \/ LedgerBusy(t) PROVE FALSE
  BY <1>3 DEF Claiming, Claim, Collide, InspectGone, InspectLive, InspectDead,
     QuarantineClaim, Release, LedgerBusy
<1>4. ASSUME NEW t \in Tasks, Run(t)
      PROVE  Transition(t) /\ job[t] = j /\ rec'[j] = want[t] /\ LegalTransition(rec[j], want[t])
  <2>1. Transition(t)
    BY <1>4 DEF Run, RunRead, RunReadCancellation, Prepare, CheckBeforePublication,
       PublishLock, PublishCompare, PrePublishCheck, PublishSwap, PublishUnlock, Reconcile,
       Lookup, LookupCancellation, AssertClaimOwned
  <2> QED
    BY <2>1 DEF Transition, TypeOK
<1>5. ASSUME NEW t \in Tasks, Cancel(t) PROVE FALSE
  <2>1. CancelWrite(t)
    BY <1>5 DEF Cancel, CancelLock, CancelRead, CancelFind, CancelRefresh
  <2>2. rec' = rec \/ rec'[j] = IF j \in anchors THEN rec[j] ELSE "absent"
    BY <2>1 DEF CancelWrite
  <2> QED
    BY <2>2 DEF LedgerInv, NoExecutableOrphans
<1>6. ASSUME NEW t \in Tasks, Resume(t)
      PROVE  rec[j] = "absent" /\ rec'[j] \in {"queued", "torn"} /\ UNCHANGED settled
  BY <1>6 DEF Resume, ResumeList, ResumeNext, ResumeQueued, ResumeDone, Reconciled
<1>7. ASSUME NEW c \in Connectors,
             \/ \E k \in Keys : CreateRequest(c, k) \/ CreateRetry(c, k)
             \/ \E i \in Jobs : CancelRequest(c, i)
             \/ RunStart(c) \/ Start(c) \/ Close(c) \/ Crash(c) \/ Exit(c)
      PROVE  rec[j] = "absent" /\ rec'[j] \in {"queued", "torn"} /\ UNCHANGED settled
  <2>1. CASE Crash(c)
    <3> DEFINE t == <<c, "create">>
    <3>1. t \in Tasks
      BY DEF Tasks, Kinds
    <3>2. pc[t] = "record" /\ rec' = [rec EXCEPT ![job[t]] = "torn"] /\ UNCHANGED settled
      BY <2>1 DEF Crash
    <3> HIDE DEF t
    <3>3. rec[job[t]] = "absent"
      BY <3>1, <3>2 DEF KeysInv, Fresh, NewPlaces
    <3> QED
      BY <3>2, <3>3 DEF TypeOK
  <2>2. ASSUME NEW k \in Keys, CreateRetry(c, k)
        PROVE  rec[j] = "absent" /\ rec'[j] \in {"queued", "torn"} /\ UNCHANGED settled
    BY <2>2 DEF CreateRetry, TypeOK
  <2>3. ASSUME \/ \E k \in Keys : CreateRequest(c, k)
               \/ \E i \in Jobs : CancelRequest(c, i)
               \/ RunStart(c) \/ Start(c) \/ Close(c) \/ Exit(c)
        PROVE  FALSE
    BY <2>3 DEF CreateRequest, CancelRequest, RunStart, Start, Close, Exit
  <2> QED
    BY <1>7, <2>1, <2>2, <2>3
<1>8. CASE ReclaimLedgerLock \/ ReclaimWriterLock \/ OtherPublishes
  BY <1>8 DEF ReclaimLedgerLock, ReclaimWriterLock, OtherPublishes
<1> QED
  BY <1>1, <1>2, <1>3, <1>4, <1>5, <1>6, <1>7, <1>8 DEF Next, Step

(* Only a transition settles a job. *)
LEMMA SettledEvolves ==
    ASSUME [Next]_vars, settled' # settled
    PROVE  \E t \in Tasks : Transition(t)
<1> USE DEF durable, process, locals, history
<1>1. ASSUME NEW t \in Tasks, Step(t) PROVE Transition(t)
  BY <1>1 DEF Step, Create, CreateRaced, Admit, AdmitFull, PruneCancellation, PruneRecord,
     PruneAnchor, WriteAnchor, WriteRecord, Claiming, Claim, Collide, InspectGone, InspectLive,
     InspectDead, QuarantineClaim, Release, Run, RunRead, RunReadCancellation, Prepare,
     CheckBeforePublication, PublishLock, PublishCompare, PrePublishCheck, PublishSwap,
     PublishUnlock, Reconcile, Lookup, LookupCancellation, AssertClaimOwned,
     Cancel, CancelLock, CancelRead, CancelFind, CancelWrite, CancelRefresh,
     Resume, ResumeList, ResumeNext, ResumeQueued, ResumeDone, LedgerBusy
<1>2. ASSUME NEW c \in Connectors,
             \/ \E k \in Keys : CreateRequest(c, k) \/ CreateRetry(c, k)
             \/ \E i \in Jobs : CancelRequest(c, i)
             \/ RunStart(c) \/ Start(c) \/ Close(c) \/ Crash(c) \/ Exit(c)
      PROVE  FALSE
  BY <1>2 DEF CreateRequest, CreateRetry, CancelRequest, RunStart, Start, Close, Crash, Exit
<1> QED
  BY <1>1, <1>2 DEF Next, vars, ReclaimLedgerLock, ReclaimWriterLock, OtherPublishes

(* A settled record stays as it is. *)
LEMMA SettledStays ==
    ASSUME Room, TypeInv, LedgerInv, KeysInv, SettledInv, [Next]_vars, NEW j \in settled
    PROVE  rec'[j] = rec[j]
<1>1. j \in Jobs /\ rec[j] \in Terminal
  BY DEF SettledInv
<1>2. rec[j] # "absent" /\ \A s : ~LegalTransition(rec[j], s)
  BY <1>1 DEF Terminal, LegalTransition
<1> QED
  BY <1>1, <1>2, RecordsEvolve

(* A terminal record is not written again. *)
LEMMA SettledNext ==
    ASSUME Room, TypeInv, LedgerInv, KeysInv, SettledInv, [Next]_vars PROVE SettledInv'
<1> SUFFICES ASSUME NEW j \in settled' PROVE j \in Jobs /\ rec'[j] \in Terminal
  BY DEF SettledInv
<1>1. CASE j \in settled
  BY <1>1, SettledStays DEF SettledInv
<1>2. CASE j \notin settled
  <2>1. PICK t \in Tasks : Transition(t)
    BY <1>2, SettledEvolves
  <2>2. job[t] \in Jobs
    BY <2>1 DEF Transition, At, TypeInv, Control, OnTrack, Jobless
  <2>3. j = job[t] /\ want[t] \in Terminal /\ rec' = [rec EXCEPT ![j] = want[t]]
    BY <1>2, <2>1 DEF Transition
  <2> QED
    BY <2>2, <2>3 DEF TypeInv, TypeOK
<1> QED
  BY <1>1, <1>2

(* Initially no job exists. *)
LEMMA KeysInit == Init => KeysInv /\ SettledInv
  BY DEF Init, KeysInv, SettledInv, Fresh, NewPlaces, PrunePlaces

(* While the ledger has room for every key, a terminal record never        *)
(* changes again, whoever else is executing, cancelling or resuming the    *)
(* job with a claim that it has lost (transitionJob re-reads the record    *)
(* under the ledger lock).                                                 *)
THEOREM TerminalStays == ASSUME Room PROVE Spec => TerminalIsFinal
<1> DEFINE I == TypeInv /\ LedgerInv /\ KeysInv /\ SettledInv
<1>1. Init => I
  BY TypeInit, LedgerInit, KeysInit
<1>2. I /\ [Next]_vars => I'
  BY TypeNext, LedgerNext, KeysNext, SettledNext
<1>3. I /\ [Next]_vars => [\A j \in settled : rec'[j] \in {rec[j], "absent"}]_vars
  BY SettledStays
<1> HIDE DEF I
<1> QED
  BY <1>1, <1>2, <1>3, PTL DEF Spec, TerminalIsFinal

-----------------------------------------------------------------------------
(* The writer lock is taken when it is free and given back by its owner.   *)
LEMMA WriterTask ==
    ASSUME TypeInv, WriterInv, NEW t \in Tasks, Step(t)
    PROVE  /\ pc'[t] \in WriterPlaces => wlock' = t
           /\ wlock' = wlock \/ wlock = Free \/ wlock = t
           /\ \A u \in Tasks \ {t} : pc'[u] = pc[u]
<1> USE TaskParts DEF TypeInv, At, Goto, durable, process, locals, history
<1>0. pc[t] \in WriterPlaces => wlock = t
  BY DEF WriterInv
<1>1. CASE Create(t)
  <2>1. UNCHANGED wlock /\ \A u \in Tasks \ {t} : pc'[u] = pc[u]
    BY <1>1 DEF Create, CreateRaced, Admit, AdmitFull, PruneCancellation, PruneRecord,
       PruneAnchor, WriteAnchor, WriteRecord, Control
  <2>2. pc'[t] \in CreatePlaces
    BY <1>1 DEF Create, CreateRaced, Admit, AdmitFull, PruneCancellation, PruneRecord,
       PruneAnchor, WriteAnchor, WriteRecord, Control, CreatePlaces
  <2> QED
    BY <2>1, <2>2 DEF CreatePlaces, WriterPlaces
<1>2. CASE Claiming(t)
  <2>1. UNCHANGED wlock /\ \A u \in Tasks \ {t} : pc'[u] = pc[u]
    BY <1>2 DEF Claiming, Claim, Collide, InspectGone, InspectLive, InspectDead,
       QuarantineClaim, Release, NextAttempt, Leave, Control
  <2>2. t[2] # "create" /\ t[2] \in Kinds
    BY <1>2, KindOfPlace DEF Claiming, Claim, Collide, InspectGone, InspectLive, InspectDead,
       QuarantineClaim, Release, CreatePlaces
  <2>3. pc'[t] \notin WriterPlaces
    <3>1. CASE Claim(t)
      BY <2>2, <3>1 DEF Claim, ClaimedPc, Kinds, Control, WriterPlaces
    <3>2. CASE Collide(t) \/ InspectGone(t) \/ InspectLive(t) \/ InspectDead(t)
               \/ QuarantineClaim(t) \/ Release(t)
      BY <3>2 DEF Collide, InspectGone, InspectLive, InspectDead, QuarantineClaim, Release,
         NextAttempt, Leave, Control, WriterPlaces
    <3> QED
      BY <1>2, <3>1, <3>2 DEF Claiming
  <2> QED
    BY <2>1, <2>3
<1>3. CASE Run(t)
  <2>1. CASE RunRead(t) \/ RunReadCancellation(t) \/ Prepare(t) \/ CheckBeforePublication(t)
             \/ Reconcile(t) \/ Lookup(t) \/ LookupCancellation(t)
             \/ AssertClaimOwned(t) \/ Transition(t)
    BY <2>1 DEF RunRead, RunReadCancellation, Prepare, CheckBeforePublication, Reconcile,
       Lookup, LookupCancellation, AssertClaimOwned, Transition, Throw, TransitionTo, Control,
       WriterPlaces
  <2>2. CASE PublishLock(t) \/ PublishCompare(t) \/ PrePublishCheck(t)
    BY <1>0, <2>2 DEF PublishLock, PublishCompare, PrePublishCheck, Throw, Control, WriterPlaces
  <2>3. CASE PublishSwap(t) \/ PublishUnlock(t)
    BY <1>0, <2>3 DEF PublishSwap, PublishUnlock, Throw, TransitionTo, Control, WriterPlaces
  <2> QED
    BY <1>3, <2>1, <2>2, <2>3 DEF Run
<1>4. CASE Cancel(t)
  BY <1>0, <1>4 DEF Cancel, CancelLock, CancelRead, CancelFind, CancelWrite, CancelRefresh,
     Control, WriterPlaces
<1>5. CASE Resume(t)
  BY <1>5 DEF Resume, ResumeList, ResumeNext, ResumeQueued, ResumeDone, Control, WriterPlaces
<1>6. CASE LedgerBusy(t)
  <2>1. wlock' = wlock \/ wlock = t
    BY <1>0, <1>6 DEF LedgerBusy, InWriterLock, WriterPlaces
  <2>2. pc'[t] \in {"reconcile", "release", "exit", "idle"} /\ \A u \in Tasks \ {t} : pc'[u] = pc[u]
    BY <1>6 DEF LedgerBusy, Throw, Control
  <2> QED
    BY <2>1, <2>2 DEF WriterPlaces
<1> QED
  BY <1>1, <1>2, <1>3, <1>4, <1>5, <1>6 DEF Step

(* Every step keeps the writer lock with the task that is inside it. *)
LEMMA WriterNext ==
    ASSUME TypeInv, WriterInv, [Next]_vars PROVE WriterInv'
<1> USE TaskParts DEF TypeInv, At, Goto, durable, process, locals, history
<1>1. CASE UNCHANGED vars
  BY <1>1 DEF vars, WriterInv
<1>2. ASSUME NEW t \in Tasks, Step(t) PROVE WriterInv'
  <2>1. /\ pc'[t] \in WriterPlaces => wlock' = t
        /\ wlock' = wlock \/ wlock = Free \/ wlock = t
        /\ \A u \in Tasks \ {t} : pc'[u] = pc[u]
    BY <1>2, WriterTask
  <2> QED
    BY <2>1, OwnerAssumption DEF WriterInv
<1>3. ASSUME NEW c \in Connectors,
             \/ \E k \in Keys : CreateRequest(c, k) \/ CreateRetry(c, k)
             \/ \E j \in Jobs : CancelRequest(c, j)
             \/ RunStart(c) \/ Start(c) \/ Close(c)
      PROVE WriterInv'
  <2>1. \A k \in Kinds : <<c, k>> \in Tasks
    BY DEF Tasks
  <2>2. UNCHANGED wlock
    BY <1>3 DEF CreateRequest, CreateRetry, CancelRequest, RunStart, Start, Close
  <2>3. \A u \in Tasks : pc'[u] = pc[u] \/ pc'[u] \in {"admit", "cancelLock", "claim", "boot"}
    BY <1>3, <2>1 DEF CreateRequest, CreateRetry, CancelRequest, RunStart, Start, Close, Control, Kinds
  <2> QED
    BY <2>2, <2>3 DEF WriterInv, WriterPlaces
<1>4. ASSUME NEW c \in Connectors, Crash(c) \/ Exit(c) PROVE WriterInv'
  <2>1. Gone(c)
    BY <1>4 DEF Crash, Exit
  <2>2. ASSUME NEW u \in Tasks, pc'[u] \in WriterPlaces PROVE wlock' = u
    <3>1. u[1] # c /\ pc'[u] = pc[u]
      BY <2>1, <2>2 DEF Gone, WriterPlaces
    <3>2. wlock = u
      BY <2>2, <3>1 DEF WriterInv
    <3> QED
      BY <2>1, <3>1, <3>2 DEF Gone
  <2> QED
    BY <2>2 DEF WriterInv
<1>5. CASE ReclaimWriterLock
  BY <1>5, OwnerAssumption DEF ReclaimWriterLock, WriterInv
<1>6. CASE ReclaimLedgerLock \/ OtherPublishes
  BY <1>6 DEF ReclaimLedgerLock, OtherPublishes, WriterInv
<1> QED
  BY <1>1, <1>2, <1>3, <1>4, <1>5, <1>6 DEF Next

-----------------------------------------------------------------------------
(* What was published stays published, and publishing adds one author.     *)
LEMMA PublishedAppend ==
    ASSUME Shape, NEW x, log' = Append(log, x), NEW j
    PROVE  /\ Published(j)' <=> (Published(j) \/ j = x)
           /\ Len(log') = Len(log) + 1 /\ log'[Len(log) + 1] = x
           /\ \A i \in 1..Len(log) : log'[i] = log[i]
<1>1. log \in Seq(0..MaxJobs) /\ Len(log) \in Nat
  BY DEF Shape
<1>2. /\ Len(log') = Len(log) + 1 /\ log'[Len(log) + 1] = x
      /\ \A i \in 1..Len(log) : log'[i] = log[i]
  BY <1>1
<1>3. Published(j)' <=> \E i \in 1..Len(log') : log'[i] = j
  BY DEF Published
<1>4. Published(j) <=> \E i \in 1..Len(log) : log[i] = j
  BY DEF Published
<1> QED
  BY <1>1, <1>2, <1>3, <1>4

(* findPublishedMutation finds a job's revision if there is one: it can    *)
(* only have been published on the job's expected revision.                *)
LEMMA FoundIfPublished ==
    ASSUME TypeInv, OutcomeInv, NEW j \in Jobs
    PROVE  FindPublishedMutation(j) <=> Published(j)
<1>0. j # Other
  BY JobAssumption DEF Jobs, Other
<1>1. req[j].base \in Nat /\ Len(log) \in Nat
  BY DEF TypeInv, Shape
<1>2. ASSUME Published(j) PROVE FindPublishedMutation(j)
  <2>1. PICK i \in 1..Len(log) : log[i] = j
    BY <1>2 DEF Published
  <2>2. i = req[j].base + 1
    BY <1>0, <2>1 DEF OutcomeInv
  <2> QED
    BY <1>1, <2>1, <2>2 DEF FindPublishedMutation, Revision
<1>3. ASSUME FindPublishedMutation(j) PROVE Published(j)
  BY <1>1, <1>3 DEF FindPublishedMutation, Revision, Published
<1> QED
  BY <1>2, <1>3

(* The request of a recorded job never changes, and a job once begun does  *)
(* not become queued or missing again.                                     *)
LEMMA RequestsStay ==
    ASSUME TypeInv, LedgerInv, KeysInv, [Next]_vars, NEW j \in Jobs, rec[j] # "absent"
    PROVE  req'[j] = req[j]
<1> USE DEF durable, process, locals, history
<1>1. req[j] # NoRequest
  BY OwnerAssumption DEF LedgerInv, NoExecutableOrphans, KeysInv, NoRequest
<1>2. ASSUME NEW c \in Connectors, NEW k \in Keys, CreateRequest(c, k) PROVE req'[j] = req[j]
  BY <1>1, <1>2 DEF CreateRequest, TypeInv, Shape
<1>3. ASSUME NEW t \in Tasks, Step(t) PROVE req' = req
  BY <1>3 DEF Step, Create, CreateRaced, Admit, AdmitFull, PruneCancellation, PruneRecord,
     PruneAnchor, WriteAnchor, WriteRecord, Claiming, Claim, Collide, InspectGone, InspectLive,
     InspectDead, QuarantineClaim, Release, Run, RunRead, RunReadCancellation, Prepare,
     CheckBeforePublication, PublishLock, PublishCompare, PrePublishCheck, PublishSwap,
     PublishUnlock, Reconcile, Lookup, LookupCancellation, AssertClaimOwned, Transition,
     Cancel, CancelLock, CancelRead, CancelFind, CancelWrite, CancelRefresh,
     Resume, ResumeList, ResumeNext, ResumeQueued, ResumeDone, LedgerBusy
<1>4. ASSUME NEW c \in Connectors,
             \/ \E k \in Keys : CreateRetry(c, k)
             \/ \E i \in Jobs : CancelRequest(c, i)
             \/ RunStart(c) \/ Start(c) \/ Close(c) \/ Crash(c) \/ Exit(c)
      PROVE  req' = req
  BY <1>4 DEF CreateRetry, CancelRequest, RunStart, Start, Close, Crash, Exit
<1> QED
  BY <1>2, <1>3, <1>4 DEF Next, vars, ReclaimLedgerLock, ReclaimWriterLock, OtherPublishes

(* Once a job has begun, its request stays what it is. *)
LEMMA BegunStays ==
    ASSUME Room, TypeInv, LedgerInv, KeysInv, [Next]_vars, NEW j \in Jobs, Begun(j)
    PROVE  Begun(j)' /\ req'[j] = req[j]
<1>1. rec[j] # "absent" /\ rec[j] # "queued"
  BY DEF Begun, Terminal
<1>2. req'[j] = req[j]
  BY <1>1, RequestsStay
<1>3. CASE rec'[j] = rec[j]
  BY <1>2, <1>3 DEF Begun
<1>4. CASE rec'[j] # rec[j]
  <2>1. PICK t \in Tasks : LegalTransition(rec[j], want[t]) /\ rec'[j] = want[t]
    BY <1>1, <1>4, RecordsEvolve
  <2>2. want[t] \in Terminal
    BY <1>1, <2>1 DEF LegalTransition
  <2> QED
    BY <1>2, <2>1, <2>2 DEF Begun
<1> QED
  BY <1>3, <1>4

(* Publications and recorded cancellations only grow, and neither changes  *)
(* under the eyes of a task that has the writer lock.                      *)
Grows(u) ==
    /\ cancel \subseteq cancel' /\ \A j \in Jobs : Published(j) => Published(j)'
    /\ wlock = u => UNCHANGED <<log, cancel>>

(* What a task knows stays true while it rests. *)
LEMMA StillKnows ==
    ASSUME Room, TypeInv, LedgerInv, KeysInv, WriterInv, [Next]_vars,
           NEW u \in Tasks, Knows(u), Grows(u),
           pc'[u] = pc[u], job'[u] = job[u], want'[u] = want[u]
    PROVE  Knows(u)'
<1>1. pc[u] \notin Jobless => job[u] \in Jobs
  BY DEF TypeInv, Control, OnTrack
<1>2. pc[u] \in WriterPlaces => UNCHANGED <<log, cancel>>
  BY DEF WriterInv, Grows
<1>3. pc[u] \in {"prepare", "check", "lock", "compare", "prePublishCheck", "swap", "unlock"}
        => Begun(job[u])' /\ req'[job[u]] = req[job[u]]
  BY <1>1, BegunStays DEF Knows, Jobless
<1>4. pc[u] \in {"prePublishCheck", "swap"} => Revision' = req'[job[u]].base
  BY <1>2, <1>3 DEF Knows, Revision, WriterPlaces
<1>5. pc[u] = "swap" => job[u] \notin cancel'
  BY <1>2 DEF Knows, WriterPlaces
<1>6. pc[u] = "cancelWrite" => ~Published(job[u])'
  BY <1>2 DEF Knows, WriterPlaces, Published
<1>7. /\ pc[u] = "unlock" => Published(job[u])'
      /\ pc[u] \in {"assert", "write"} /\ want[u] = "succeeded" => Published(job[u])'
  BY <1>1 DEF Knows, Grows, Jobless
<1> QED
  BY <1>3, <1>4, <1>5, <1>6, <1>7 DEF Knows, Grows

(* The parts of OutcomeInv that no step disturbs by itself. *)
LEMMA RecordsTrue ==
    ASSUME Room, TypeInv, LedgerInv, KeysInv, OutcomeInv, [Next]_vars,
           cancel \subseteq cancel', \A j \in Jobs : Published(j) => Published(j)'
    PROVE  \A j \in Jobs : /\ rec'[j] = "succeeded" => Published(j)'
                           /\ rec'[j] = "cancelled" => j \in cancel'
<1> SUFFICES ASSUME NEW j \in Jobs
             PROVE  /\ rec'[j] = "succeeded" => Published(j)'
                    /\ rec'[j] = "cancelled" => j \in cancel'
  OBVIOUS
<1>1. CASE rec'[j] = rec[j]
  BY <1>1 DEF OutcomeInv
<1>2. CASE rec'[j] # rec[j]
  <2>1. CASE rec'[j] \in {"queued", "torn"}
    BY <2>1
  <2>2. ASSUME NEW t \in Tasks, Transition(t), job[t] = j, rec'[j] = want[t]
        PROVE  /\ rec'[j] = "succeeded" => Published(j)'
               /\ rec'[j] = "cancelled" => j \in cancel'
    <3>1. pc[t] = "write" /\ Knows(t)
      BY <2>2 DEF Transition, At, OutcomeInv
    <3> QED
      BY <2>2, <3>1 DEF Knows
  <2> QED
    BY <1>2, <2>1, <2>2, RecordsEvolve
<1> QED
  BY <1>1, <1>2

(* An entry of the publication log is either the work of a job or of       *)
(* somebody else.                                                          *)
LEMMA Authors ==
    ASSUME TypeInv, NEW i \in 1..Len(log), log[i] # Other PROVE log[i] \in Jobs
<1>1. log \in Seq(0..MaxJobs) /\ MaxJobs \in Nat
  BY JobAssumption DEF TypeInv, Shape
<1>2. log[i] \in 0..MaxJobs
  BY <1>1
<1> QED
  BY <1>1, <1>2 DEF Jobs, Other

(* A revision keeps its place in the history, and its job stays begun.     *)
LEMMA LogTrue ==
    ASSUME Room, TypeInv, LedgerInv, KeysInv, OutcomeInv, [Next]_vars,
           NEW i \in 1..Len(log), NEW j \in Jobs, log[i] = j
    PROVE  i = req'[j].base + 1 /\ Begun(j)'
<1>1. j # Other
  BY JobAssumption DEF Jobs, Other
<1>2. i = req[j].base + 1 /\ Begun(j)
  BY <1>1 DEF OutcomeInv
<1>3. Begun(j)' /\ req'[j] = req[j]
  BY <1>2, BegunStays
<1> QED
  BY <1>2, <1>3

(* A step that neither publishes nor records a cancellation. *)
LEMMA OutcomeFrame ==
    ASSUME Room, TypeInv, LedgerInv, KeysInv, OutcomeInv, [Next]_vars,
           UNCHANGED <<log, cancel, accepted>>, anchors \subseteq anchors',
           \A u \in Tasks : Knows(u)'
    PROVE  OutcomeInv'
<1>1. \A j : Published(j)' <=> Published(j)
  BY DEF Published
<1>2. \A j \in Jobs : /\ rec'[j] = "succeeded" => Published(j)'
                      /\ rec'[j] = "cancelled" => j \in cancel'
  BY <1>1, RecordsTrue
<1>3. ASSUME NEW i \in 1..Len(log'), log'[i] # Other
      PROVE  i = req'[log'[i]].base + 1 /\ Begun(log[i])'
  <2>1. PICK j \in Jobs : log[i] = j
    BY <1>3, Authors
  <2>2. i = req'[j].base + 1 /\ Begun(j)'
    BY <2>1, LogTrue
  <2> QED
    BY <2>1, <2>2 DEF Begun
<1>4. CancelledNeverPublishes'
  BY <1>1 DEF OutcomeInv, CancelledNeverPublishes
<1>5. cancel' = accepted' /\ cancel' \subseteq anchors'
  BY DEF OutcomeInv
<1> QED
  BY <1>2, <1>3, <1>4, <1>5 DEF OutcomeInv

-----------------------------------------------------------------------------
(* A step of one task leaves the other tasks where they are. *)
LEMMA OthersRest ==
    ASSUME TypeInv, LedgerInv, NEW t \in Tasks, Step(t)
    PROVE  \A u \in Tasks \ {t} : pc'[u] = pc[u] /\ job'[u] = job[u] /\ want'[u] = want[u]
<1> USE DEF TypeInv, Goto, durable, process, locals, history
<1>1. CASE Create(t)
  <2>1. UNCHANGED <<job, want>>
    BY <1>1 DEF Create, CreateRaced, Admit, AdmitFull, PruneCancellation, PruneRecord,
       PruneAnchor, WriteAnchor, WriteRecord
  <2>2. \A u \in Tasks \ {t} : pc'[u] = pc[u]
    BY <1>1 DEF Create, CreateRaced, Admit, AdmitFull, PruneCancellation, PruneRecord,
       PruneAnchor, WriteAnchor, WriteRecord, Control
  <2> QED
    BY <2>1, <2>2
<1>2. CASE Claiming(t) \/ Run(t) \/ Cancel(t) \/ Resume(t)
  BY <1>2, QuietTasks DEF Quiet
<1>3. CASE LedgerBusy(t)
  BY <1>3 DEF LedgerBusy, Throw, Control
<1> QED
  BY <1>1, <1>2, <1>3 DEF Step

(* Only two steps of a task publish or record a cancellation. *)
LEMMA SilentStep ==
    ASSUME Room, TypeInv, KeysInv, NEW t \in Tasks, Step(t), ~PublishSwap(t), ~CancelWrite(t)
    PROVE  UNCHANGED <<log, cancel, accepted>> /\ anchors \subseteq anchors'
<1> USE DEF durable, process, locals, history
<1>1. CASE Create(t)
  BY <1>1, NothingEvicted DEF Create, CreateRaced, Admit, WriteAnchor, WriteRecord
<1>2. CASE Claiming(t)
  BY <1>2 DEF Claiming, Claim, Collide, InspectGone, InspectLive, InspectDead,
     QuarantineClaim, Release
<1>3. CASE Run(t)
  BY <1>3 DEF Run, RunRead, RunReadCancellation, Prepare, CheckBeforePublication, PublishLock,
     PublishCompare, PrePublishCheck, PublishUnlock, Reconcile, Lookup, LookupCancellation,
     AssertClaimOwned, Transition
<1>4. CASE Cancel(t)
  BY <1>4 DEF Cancel, CancelLock, CancelRead, CancelFind, CancelRefresh
<1>5. CASE Resume(t) \/ LedgerBusy(t)
  BY <1>5 DEF Resume, ResumeList, ResumeNext, ResumeQueued, ResumeDone, LedgerBusy
<1> QED
  BY <1>1, <1>2, <1>3, <1>4, <1>5 DEF Step

(* The places where a task relies on what it has read. *)
Duties == {"prepare", "check", "lock", "compare", "prePublishCheck", "swap", "unlock",
           "cancelWrite", "refresh", "assert", "write"} \cup ClaimPlaces

(* A task that is at no place of its publication relies on nothing. *)
LEMMA NoDuty ==
    ASSUME NEW t \in Tasks, pc'[t] \notin Duties PROVE Knows(t)'
  BY DEF Knows, Duties, ClaimPlaces

(* The claim changes nothing of what the task knows. *)
LEMMA KnowsClaiming ==
    ASSUME TypeInv, NEW t \in Tasks, Knows(t), Claiming(t) PROVE Knows(t)'
<1> USE DEF TypeInv, At, Goto, durable, process, locals, history
<1>1. UNCHANGED <<job, want, cancel, log, rec, req>>
  BY DEF Claiming, Claim, Collide, InspectGone, InspectLive, InspectDead,
     QuarantineClaim, Release
<1>2. CASE Claim(t)
  <2>1. pc[t] = "claim" /\ pc'[t] = ClaimedPc(t) /\ t[2] \in Kinds /\ t[2] # "create"
    BY <1>2, TaskParts, KindOfPlace DEF Claim, Control, CreatePlaces
  <2>2. pc'[t] \in {"read", "refresh", "assert", "reconcile"}
    BY <2>1 DEF ClaimedPc, Kinds
  <2>3. CASE pc'[t] \in {"read", "reconcile"}
    BY <2>3, NoDuty DEF Duties, ClaimPlaces
  <2>4. CASE pc'[t] = "refresh"
    <3>1. t[2] = "cancel" /\ job[t] \in cancel
      BY <2>1, <2>4 DEF ClaimedPc, Kinds, Knows, ClaimPlaces
    <3> QED
      BY <1>1, <2>4, <3>1 DEF Knows, ClaimPlaces
  <2>5. CASE pc'[t] = "assert"
    <3>1. t[2] = "resume" /\ want[t] = "cancelled" /\ job[t] \in cancel
      BY <2>1, <2>5 DEF ClaimedPc, Kinds, Knows, ClaimPlaces
    <3> QED
      BY <1>1, <2>5, <3>1 DEF Knows, ClaimPlaces
  <2> QED
    BY <2>2, <2>3, <2>4, <2>5
<1>3. CASE Collide(t) \/ InspectGone(t) \/ InspectDead(t) \/ QuarantineClaim(t)
  <2>1. pc[t] \in ClaimPlaces /\ pc'[t] \in ClaimPlaces \cup {"exit", "next", "idle"}
    BY <1>3 DEF Collide, InspectGone, InspectDead, QuarantineClaim, NextAttempt, Leave,
       Control, ClaimPlaces
  <2>2. CASE pc'[t] \in ClaimPlaces
    BY <1>1, <2>1, <2>2 DEF Knows, ClaimPlaces
  <2>3. CASE pc'[t] \in {"exit", "next", "idle"}
    BY <2>3, NoDuty DEF Duties, ClaimPlaces
  <2> QED
    BY <2>1, <2>2, <2>3
<1>4. CASE InspectLive(t) \/ Release(t)
  <2>1. pc'[t] \in {"exit", "next", "idle"}
    BY <1>4 DEF InspectLive, Release, Leave, Control
  <2> QED
    BY <2>1, NoDuty DEF Duties, ClaimPlaces
<1> QED
  BY <1>2, <1>3, <1>4 DEF Claiming

(* An error forgets everything. *)
LEMMA KnowsThrow ==
    ASSUME TypeInv, NEW t \in Tasks, Throw(t) PROVE Knows(t)'
<1>1. pc'[t] \in {"reconcile", "release"}
  BY DEF Throw, Goto, TypeInv, Control
<1> QED
  BY <1>1, NoDuty DEF Duties, ClaimPlaces

(* Each check of a run establishes what the next step relies on. *)
LEMMA KnowsRun ==
    ASSUME TypeInv, OutcomeInv, NEW t \in Tasks, Run(t), ~PublishSwap(t) PROVE Knows(t)'
<1> USE DEF TypeInv, At, Goto, durable, process, locals, history
<1>0. Knows(t) /\ UNCHANGED <<job, cancel, log, req>>
  BY DEF OutcomeInv, Run, RunRead, RunReadCancellation, Prepare, CheckBeforePublication,
     PublishLock, PublishCompare, PrePublishCheck, PublishUnlock, Reconcile, Lookup,
     LookupCancellation, AssertClaimOwned, Transition
<1>1. CASE RunRead(t) \/ Reconcile(t)
  <2>1. pc'[t] \in {"readCancellation", "release", "lookup"}
    BY <1>1 DEF RunRead, Reconcile, Control
  <2> QED
    BY <2>1, NoDuty DEF Duties, ClaimPlaces
<1>2. CASE RunReadCancellation(t) \/ LookupCancellation(t)
  <2>1. /\ pc'[t] = "assert"
        /\ want'[t] \in {"running", "failed"} \/ (want'[t] = "cancelled" /\ job[t] \in cancel)
    BY <1>2 DEF RunReadCancellation, LookupCancellation, TransitionTo, Control, Shape
  <2> QED
    BY <1>0, <2>1 DEF Knows, ClaimPlaces
<1>3. CASE Prepare(t) \/ CheckBeforePublication(t) \/ PublishLock(t)
  <2>1. CASE Throw(t)
    BY <2>1, KnowsThrow
  <2>2. CASE ~Throw(t)
    <3>1. /\ pc[t] \in {"prepare", "check", "lock"} /\ UNCHANGED rec
          /\ pc'[t] \in {"check", "lock", "compare"}
      BY <1>3, <2>2 DEF Prepare, CheckBeforePublication, PublishLock, Control
    <3>2. Begun(job[t])
      BY <1>0, <3>1 DEF Knows
    <3> QED
      BY <1>0, <3>1, <3>2 DEF Knows, ClaimPlaces, Begun
  <2> QED
    BY <2>1, <2>2
<1>4. CASE PublishCompare(t) \/ PrePublishCheck(t)
  <2>1. CASE Throw(t)
    BY <2>1, KnowsThrow
  <2>2. CASE ~Throw(t)
    <3>1. /\ pc[t] \in {"compare", "prePublishCheck"} /\ UNCHANGED rec
          /\ pc'[t] \in {"prePublishCheck", "swap"}
          /\ Revision = req[job[t]].base
          /\ pc'[t] = "swap" => job[t] \notin cancel
      BY <1>0, <1>4, <2>2 DEF PublishCompare, PrePublishCheck, Control, Knows
    <3>2. Begun(job[t])
      BY <1>0, <3>1 DEF Knows
    <3> QED
      BY <1>0, <3>1, <3>2 DEF Knows, ClaimPlaces, Begun, Revision
  <2> QED
    BY <2>1, <2>2
<1>5. CASE PublishUnlock(t)
  <2>1. CASE Throw(t)
    BY <2>1, KnowsThrow
  <2>2. CASE ~Throw(t)
    <3>1. pc[t] = "unlock" /\ pc'[t] = "assert" /\ want'[t] = "succeeded"
      BY <1>5, <2>2 DEF PublishUnlock, TransitionTo, Control, Shape
    <3>2. Published(job[t])
      BY <1>0, <3>1 DEF Knows
    <3> QED
      BY <1>0, <3>1, <3>2 DEF Knows, ClaimPlaces, Published
  <2> QED
    BY <2>1, <2>2
<1>6. CASE Lookup(t)
  <2>1. \/ pc'[t] = "lookupCancellation"
        \/ pc'[t] = "assert" /\ want'[t] = "succeeded" /\ FindPublishedMutation(job[t])
    BY <1>6 DEF Lookup, TransitionTo, Control, Shape
  <2>2. CASE pc'[t] = "lookupCancellation"
    BY <2>2, NoDuty DEF Duties, ClaimPlaces
  <2>3. CASE pc'[t] = "assert" /\ want'[t] = "succeeded" /\ FindPublishedMutation(job[t])
    <3>1. job[t] \in Jobs
      BY <1>6 DEF Lookup, Control, OnTrack, Jobless
    <3>2. Published(job[t])
      BY <2>3, <3>1, FoundIfPublished
    <3> QED
      BY <1>0, <2>3, <3>2 DEF Knows, ClaimPlaces, Published
  <2> QED
    BY <2>1, <2>2, <2>3
<1>7. CASE AssertClaimOwned(t)
  <2>1. CASE Throw(t)
    BY <2>1, KnowsThrow
  <2>2. CASE ~Throw(t)
    <3>1. pc[t] = "assert" /\ pc'[t] = "write" /\ UNCHANGED want
      BY <1>7, <2>2 DEF AssertClaimOwned, Control
    <3> QED
      BY <1>0, <3>1 DEF Knows, ClaimPlaces, Published
  <2> QED
    BY <2>1, <2>2
<1>8. CASE Transition(t)
  <2>1. CASE Throw(t)
    BY <2>1, KnowsThrow
  <2>2. CASE ~Throw(t)
    <3>1. /\ rec' = [rec EXCEPT ![job[t]] = want[t]]
          /\ pc'[t] = IF want[t] = "running" THEN "prepare" ELSE "release"
          /\ job[t] \in Jobs
      BY <1>8, <2>2 DEF Transition, Control, OnTrack, Jobless
    <3>2. CASE want[t] = "running"
      <4>1. rec'[job[t]] = "running" /\ pc'[t] = "prepare"
        BY <3>1, <3>2 DEF TypeOK
      <4> QED
        BY <1>0, <4>1 DEF Knows, ClaimPlaces, Begun
    <3>3. CASE want[t] # "running"
      BY <3>1, <3>3, NoDuty DEF Duties, ClaimPlaces
    <3> QED
      BY <3>2, <3>3
  <2> QED
    BY <2>1, <2>2
<1> QED
  BY <1>1, <1>2, <1>3, <1>4, <1>5, <1>6, <1>7, <1>8 DEF Run

(* A cancellation is recorded for a job that is not published, *)
LEMMA KnowsCancel ==
    ASSUME TypeInv, LedgerInv, OutcomeInv, NEW t \in Tasks, Cancel(t), ~CancelWrite(t)
    PROVE  Knows(t)'
<1> USE DEF TypeInv, At, Goto, durable, process, locals, history
<1>0. Knows(t) /\ UNCHANGED <<job, cancel, log, req>>
  BY DEF OutcomeInv, Cancel, CancelLock, CancelRead, CancelFind, CancelRefresh
<1>1. CASE CancelLock(t)
  <2>1. pc'[t] \in {"cancelRead", "idle"}
    BY <1>1 DEF CancelLock, Control
  <2> QED
    BY <2>1, NoDuty DEF Duties, ClaimPlaces
<1>2. CASE CancelRead(t)
  <2>1. job[t] \in Jobs /\ pc'[t] \in {"cancelFind", "cancelWrite", "idle"}
    BY <1>2 DEF CancelRead, Control, OnTrack, Jobless
  <2>2. CASE pc'[t] = "cancelWrite"
    <3>1. rec[job[t]] \in {"queued", "cancelled"}
      BY <1>2, <2>2 DEF CancelRead, Control
    <3>2. ASSUME Published(job[t]) PROVE FALSE
      <4>1. PICK i \in 1..Len(log) : log[i] = job[t]
        BY <3>2 DEF Published
      <4>2. job[t] # Other
        BY <2>1, JobAssumption DEF Jobs, Other
      <4>3. Begun(job[t])
        BY <4>1, <4>2 DEF OutcomeInv
      <4>4. rec[job[t]] = "cancelled"
        BY <3>1, <4>3 DEF Begun, Terminal
      <4> QED
        BY <2>1, <3>2, <4>4 DEF OutcomeInv, CancelledNeverPublishes
    <3> QED
      BY <1>0, <2>2, <3>2 DEF Knows, ClaimPlaces, Published
  <2>3. CASE pc'[t] \in {"cancelFind", "idle"}
    BY <2>3, NoDuty DEF Duties, ClaimPlaces
  <2> QED
    BY <2>1, <2>2, <2>3
<1>3. CASE CancelFind(t)
  <2>1. job[t] \in Jobs /\ pc'[t] \in {"cancelWrite", "idle"}
    BY <1>3 DEF CancelFind, Control, OnTrack, Jobless
  <2>2. CASE pc'[t] = "cancelWrite"
    <3>1. ~FindPublishedMutation(job[t])
      BY <1>3, <2>2 DEF CancelFind, Control
    <3>2. ~Published(job[t])
      BY <2>1, <3>1, FoundIfPublished
    <3> QED
      BY <1>0, <2>2, <3>2 DEF Knows, ClaimPlaces, Published
  <2>3. CASE pc'[t] = "idle"
    BY <2>3, NoDuty DEF Duties, ClaimPlaces
  <2> QED
    BY <2>1, <2>2, <2>3
<1>4. CASE CancelRefresh(t)
  <2>1. pc[t] = "refresh" /\ pc'[t] \in {"assert", "release"} /\ UNCHANGED want
    BY <1>4 DEF CancelRefresh, Control
  <2>2. t[2] = "cancel" /\ want[t] = "cancelled"
    BY <2>1, KindOfPlace DEF Control, OnTrack, CancelPlaces, RunPlaces, ClaimPlaces,
       SettlePlaces, ReconcilePlaces
  <2>3. job[t] \in cancel
    BY <1>0, <2>1, <2>2 DEF Knows
  <2> QED
    BY <1>0, <2>1, <2>2, <2>3 DEF Knows, ClaimPlaces
<1> QED
  BY <1>1, <1>2, <1>3, <1>4 DEF Cancel

(* and a resumption settles what it found cancelled. *)
LEMMA KnowsResume ==
    ASSUME TypeInv, NEW t \in Tasks, Resume(t) PROVE Knows(t)'
<1> USE DEF TypeInv, At, Goto, durable, process, locals, history
<1>1. CASE ResumeList(t) \/ ResumeDone(t)
  <2>1. pc'[t] \in {"next", "done"}
    BY <1>1 DEF ResumeList, ResumeDone, Control
  <2> QED
    BY <2>1, NoDuty DEF Duties, ClaimPlaces
<1>2. CASE ResumeNext(t)
  <2>1. want'[t] = "none" /\ pc'[t] \in {"resumeQueued", "claim"} /\ t[2] = "resume"
    BY <1>2, KindOfPlace DEF ResumeNext, Control, Shape, ResumePlaces, RunPlaces, ClaimPlaces,
       SettlePlaces, ReconcilePlaces
  <2> QED
    BY <2>1 DEF Knows, ClaimPlaces
<1>3. CASE ResumeQueued(t)
  <2>1. /\ pc'[t] \in {"next", "claim"} /\ t[2] = "resume"
        /\ pc'[t] = "claim" => job[t] \in cancel
        /\ UNCHANGED <<job, cancel>>
    BY <1>3, KindOfPlace DEF ResumeQueued, Control, ResumePlaces, RunPlaces, ClaimPlaces,
       SettlePlaces, ReconcilePlaces
  <2> QED
    BY <2>1 DEF Knows, ClaimPlaces
<1> QED
  BY <1>1, <1>2, <1>3 DEF Resume

(* Every step of a task but the two keeps OutcomeInv, *)
LEMMA OutcomeSilent ==
    ASSUME Room, TypeInv, LedgerInv, KeysInv, WriterInv, OutcomeInv, [Next]_vars,
           NEW t \in Tasks, Step(t), ~PublishSwap(t), ~CancelWrite(t)
    PROVE  OutcomeInv'
<1>1. UNCHANGED <<log, cancel, accepted>> /\ anchors \subseteq anchors'
  BY SilentStep
<1>2. Knows(t)'
  <2>1. CASE Create(t)
    <3>1. pc'[t] \in CreatePlaces
      BY <2>1 DEF Create, CreateRaced, Admit, AdmitFull, PruneCancellation, PruneRecord,
         PruneAnchor, WriteAnchor, WriteRecord, Goto, TypeInv, Control, CreatePlaces
    <3> QED
      BY <3>1, NoDuty DEF Duties, CreatePlaces, ClaimPlaces
  <2>2. CASE LedgerBusy(t)
    <3>1. Throw(t) \/ pc'[t] \in {"exit", "idle"}
      BY <2>2 DEF LedgerBusy, Goto, TypeInv, Control
    <3> QED
      BY <3>1, KnowsThrow, NoDuty DEF Duties, ClaimPlaces
  <2>3. Knows(t)
    BY DEF OutcomeInv
  <2> QED
    BY <2>1, <2>2, <2>3, KnowsClaiming, KnowsRun, KnowsCancel, KnowsResume DEF Step
<1>3. ASSUME NEW u \in Tasks \ {t} PROVE Knows(u)'
  <2>1. pc'[u] = pc[u] /\ job'[u] = job[u] /\ want'[u] = want[u]
    BY OthersRest
  <2>2. Knows(u) /\ Grows(u)
    BY <1>1 DEF OutcomeInv, Grows, Published
  <2> QED
    BY <2>1, <2>2, StillKnows
<1> QED
  BY <1>1, <1>2, <1>3, OutcomeFrame

(* publishing a job, *)
LEMMA OutcomeSwap ==
    ASSUME Room, TypeInv, LedgerInv, KeysInv, WriterInv, OutcomeInv, [Next]_vars,
           NEW t \in Tasks, PublishSwap(t)
    PROVE  OutcomeInv'
<1> USE DEF TypeInv, At, Goto, durable, process, locals, history
<1>0. Step(t)
  BY DEF Step, Run
<1>1. CASE Throw(t) /\ UNCHANGED log
  <2>1. UNCHANGED <<log, cancel, accepted, anchors>>
    BY <1>1 DEF PublishSwap
  <2>2. ASSUME NEW u \in Tasks \ {t} PROVE Knows(u)'
    <3>1. pc'[u] = pc[u] /\ job'[u] = job[u] /\ want'[u] = want[u]
      BY <1>0, OthersRest
    <3>2. Knows(u) /\ Grows(u)
      BY <2>1 DEF OutcomeInv, Grows, Published
    <3> QED
      BY <3>1, <3>2, StillKnows
  <2> QED
    BY <1>1, <2>1, <2>2, KnowsThrow, OutcomeFrame
<1>2. CASE ~(Throw(t) /\ UNCHANGED log)
  <2>1. /\ pc[t] = "swap" /\ pc'[t] = "unlock" /\ log' = Append(log, job[t])
        /\ UNCHANGED <<cancel, accepted, anchors, rec, req, job>>
    BY <1>2 DEF PublishSwap, Control
  <2>2. /\ Knows(t) /\ wlock = t /\ job[t] \in Jobs
        /\ Begun(job[t]) /\ Revision = req[job[t]].base /\ job[t] \notin cancel
    BY <2>1 DEF OutcomeInv, Knows, WriterInv, WriterPlaces, Control, OnTrack, Jobless
  <2>3. PICK j \in Jobs : j = job[t]
    BY <2>2
  <2>4. \A i : Published(i)' <=> (Published(i) \/ i = j)
    BY <2>1, <2>3, PublishedAppend
  <2>5. /\ Len(log') = Len(log) + 1 /\ log'[Len(log) + 1] = j
        /\ \A i \in 1..Len(log) : log'[i] = log[i]
    BY <2>1, <2>3, PublishedAppend
  <2>6. Knows(t)'
    BY <2>1, <2>2, <2>3, <2>4 DEF Knows, ClaimPlaces, Begun
  <2>7. ASSUME NEW u \in Tasks \ {t} PROVE Knows(u)'
    <3>1. pc'[u] = pc[u] /\ job'[u] = job[u] /\ want'[u] = want[u]
      BY <1>0, OthersRest
    <3>2. Knows(u) /\ Grows(u)
      BY <2>1, <2>2, <2>4 DEF OutcomeInv, Grows
    <3> QED
      BY <3>1, <3>2, StillKnows
  <2>8. ASSUME NEW i \in 1..Len(log'), log'[i] # Other
        PROVE  i = req'[log'[i]].base + 1 /\ Begun(log[i])'
    <3>1. CASE i \in 1..Len(log)
      <4>1. log'[i] = log[i]
        BY <2>5, <3>1
      <4>2. i = req[log[i]].base + 1 /\ Begun(log[i])
        BY <2>8, <3>1, <4>1 DEF OutcomeInv
      <4> QED
        BY <2>1, <4>1, <4>2 DEF Begun
    <3>2. CASE i = Len(log) + 1
      BY <2>1, <2>2, <2>3, <2>5, <3>2 DEF Begun, Revision
    <3> QED
      BY <2>5, <3>1, <3>2 DEF Shape
  <2>9. /\ \A k \in Jobs : /\ rec'[k] = "succeeded" => Published(k)'
                           /\ rec'[k] = "cancelled" => k \in cancel'
        /\ cancel' = accepted' /\ cancel' \subseteq anchors'
        /\ CancelledNeverPublishes'
    BY <2>1, <2>2, <2>3, <2>4 DEF OutcomeInv, CancelledNeverPublishes
  <2> QED
    BY <2>6, <2>7, <2>8, <2>9 DEF OutcomeInv
<1> QED
  BY <1>1, <1>2

(* recording a cancellation, *)
LEMMA OutcomeCancel ==
    ASSUME Room, TypeInv, LedgerInv, KeysInv, WriterInv, OutcomeInv, [Next]_vars,
           NEW t \in Tasks, CancelWrite(t)
    PROVE  OutcomeInv'
<1> USE DEF TypeInv, At, Goto, durable, process, locals, history
<1>0. Step(t)
  BY DEF Step, Cancel
<1>1. /\ pc[t] = "cancelWrite" /\ UNCHANGED <<anchors, req, log, job, want>>
      /\ pc'[t] \in {"claim", "idle"}
      /\ pc'[t] = "claim" => job[t] \in cancel'
  BY DEF CancelWrite, Control
<1>2. Knows(t) /\ wlock = t /\ job[t] \in Jobs /\ ~Published(job[t])
  BY <1>1 DEF OutcomeInv, Knows, WriterInv, WriterPlaces, Control, OnTrack, Jobless
<1>3. /\ cancel \cap anchors = cancel /\ cancel = accepted
  BY DEF OutcomeInv
<1>4. /\ cancel' = accepted' /\ cancel \subseteq cancel' /\ cancel' \subseteq anchors'
      /\ cancel' \subseteq cancel \cup {job[t]}
  BY <1>1, <1>3 DEF CancelWrite
<1>5. \A j : Published(j)' <=> Published(j)
  BY <1>1 DEF Published
<1>6. Knows(t)'
  <2>1. t[2] = "cancel"
    BY <1>1, KindOfPlace DEF CancelPlaces, RunPlaces, ClaimPlaces, SettlePlaces, ReconcilePlaces
  <2> QED
    BY <1>1, <2>1 DEF Knows, ClaimPlaces
<1>7. ASSUME NEW u \in Tasks \ {t} PROVE Knows(u)'
  <2>1. pc'[u] = pc[u] /\ job'[u] = job[u] /\ want'[u] = want[u]
    BY <1>0, OthersRest
  <2>2. Knows(u) /\ Grows(u)
    BY <1>2, <1>4, <1>5 DEF OutcomeInv, Grows
  <2> QED
    BY <2>1, <2>2, StillKnows
<1>8. \A j \in Jobs : /\ rec'[j] = "succeeded" => Published(j)'
                      /\ rec'[j] = "cancelled" => j \in cancel'
  BY <1>4, <1>5, RecordsTrue
<1>9. ASSUME NEW i \in 1..Len(log'), log'[i] # Other
      PROVE  i = req'[log'[i]].base + 1 /\ Begun(log[i])'
  <2>1. PICK j \in Jobs : log[i] = j
    BY <1>1, <1>9, Authors
  <2>2. i = req'[j].base + 1 /\ Begun(j)'
    BY <1>1, <2>1, LogTrue
  <2> QED
    BY <1>1, <2>1, <2>2 DEF Begun
<1>10. CancelledNeverPublishes'
  BY <1>2, <1>4, <1>5 DEF OutcomeInv, CancelledNeverPublishes
<1> QED
  BY <1>4, <1>6, <1>7, <1>8, <1>9, <1>10 DEF OutcomeInv

(* A request, the start of a run, or the end of a process puts a task at   *)
(* one of a few places, where it has found out nothing yet.                *)
LEMMA ConnectorTasks ==
    ASSUME TypeInv, NEW c \in Connectors, NEW u \in Tasks,
           \/ \E k \in Keys : CreateRequest(c, k) \/ CreateRetry(c, k)
           \/ \E j \in Jobs : CancelRequest(c, j)
           \/ RunStart(c) \/ Start(c) \/ Close(c) \/ Crash(c) \/ Exit(c)
    PROVE  \/ pc'[u] = pc[u] /\ job'[u] = job[u] /\ want'[u] = want[u]
           \/ pc'[u] \in {"admit", "cancelLock", "boot", "idle"}
           \/ pc'[u] = "claim" /\ u[2] = "run"
<1> USE DEF TypeInv, At, Goto, durable, process, locals, history
<1>0. \A k \in Kinds : <<c, k>> \in Tasks
  BY DEF Tasks
<1>1. CASE \E k \in Keys : CreateRequest(c, k) \/ CreateRetry(c, k)
  BY <1>0, <1>1 DEF CreateRequest, CreateRetry, Control, TypeOK, Kinds
<1>2. CASE \E j \in Jobs : CancelRequest(c, j)
  BY <1>0, <1>2 DEF CancelRequest, Control, TypeOK, Kinds
<1>3. CASE RunStart(c)
  <2> DEFINE t == <<c, "run">>
  <2>1. t \in Tasks /\ t[2] = "run"
    BY <1>0 DEF Kinds
  <2>2. /\ pc[t] = "idle" /\ UNCHANGED want
        /\ job' = [job EXCEPT ![t] = Head(sched[c])]
        /\ pc' = [pc EXCEPT ![t] = "claim"] \/ pc' = pc
    BY <1>3 DEF RunStart
  <2> HIDE DEF t
  <2>3. CASE u = t
    BY <2>1, <2>2, <2>3 DEF Control
  <2>4. CASE u # t
    BY <2>1, <2>2, <2>4 DEF Control, TypeOK
  <2> QED
    BY <2>3, <2>4
<1>4. CASE Start(c) \/ Close(c)
  BY <1>0, <1>4 DEF Start, Close, Control, Kinds
<1>5. CASE Crash(c) \/ Exit(c)
  BY <1>5 DEF Crash, Exit, Gone
<1> QED
  BY <1>1, <1>2, <1>3, <1>4, <1>5

(* and what happens to a connector as a whole. *)
LEMMA OutcomeConnector ==
    ASSUME Room, TypeInv, LedgerInv, KeysInv, WriterInv, OutcomeInv, [Next]_vars,
           NEW c \in Connectors,
           \/ \E k \in Keys : CreateRequest(c, k) \/ CreateRetry(c, k)
           \/ \E j \in Jobs : CancelRequest(c, j)
           \/ RunStart(c) \/ Start(c) \/ Close(c) \/ Crash(c) \/ Exit(c)
    PROVE  OutcomeInv'
<1> USE DEF TypeInv, At, Goto, durable, process, locals, history
<1>1. UNCHANGED <<log, cancel, accepted, anchors>>
  BY DEF CreateRequest, CreateRetry, CancelRequest, RunStart, Start, Close, Crash, Exit
<1>2. ASSUME NEW u \in Tasks
      PROVE  \/ pc'[u] = pc[u] /\ job'[u] = job[u] /\ want'[u] = want[u]
             \/ pc'[u] \in {"admit", "cancelLock", "boot", "idle"}
             \/ pc'[u] = "claim" /\ u[2] = "run"
  BY <1>2, ConnectorTasks
<1>3. ASSUME NEW u \in Tasks PROVE Knows(u)'
  <2>1. CASE pc'[u] = pc[u] /\ job'[u] = job[u] /\ want'[u] = want[u]
    <3>1. Knows(u) /\ Grows(u)
      BY <1>1 DEF OutcomeInv, Grows, Published
    <3> QED
      BY <2>1, <3>1, StillKnows
  <2>2. CASE pc'[u] \in {"admit", "cancelLock", "boot", "idle"}
    BY <2>2, NoDuty DEF Duties, ClaimPlaces
  <2>3. CASE pc'[u] = "claim" /\ u[2] = "run"
    BY <2>3 DEF Knows
  <2> QED
    BY <1>2, <2>1, <2>2, <2>3
<1> QED
  BY <1>1, <1>3, OutcomeFrame

(* Another writer publishes while nobody has the writer lock. *)
LEMMA OutcomeOther ==
    ASSUME Room, TypeInv, LedgerInv, KeysInv, WriterInv, OutcomeInv, [Next]_vars,
           OtherPublishes
    PROVE  OutcomeInv'
<1> USE DEF TypeInv, durable, process, locals, history
<1>1. /\ log' = Append(log, Other) /\ wlock = Free
      /\ UNCHANGED <<cancel, accepted, anchors, rec, req, pc, job, want>>
  BY DEF OtherPublishes
<1>2. Other \notin Jobs
  BY JobAssumption DEF Jobs, Other
<1>3. \A j : Published(j)' <=> (Published(j) \/ j = Other)
  BY <1>1, PublishedAppend
<1>4. /\ Len(log') = Len(log) + 1 /\ log'[Len(log) + 1] = Other
      /\ \A i \in 1..Len(log) : log'[i] = log[i]
  BY <1>1, PublishedAppend
<1>5. ASSUME NEW u \in Tasks PROVE Knows(u)'
  <2>1. wlock # u
    BY <1>1, OwnerAssumption
  <2>2. Knows(u) /\ Grows(u)
    BY <1>1, <1>3, <2>1 DEF OutcomeInv, Grows
  <2> QED
    BY <1>1, <2>2, StillKnows
<1>6. ASSUME NEW i \in 1..Len(log'), log'[i] # Other
      PROVE  i = req'[log'[i]].base + 1 /\ Begun(log[i])'
  <2>1. i \in 1..Len(log)
    BY <1>4, <1>6 DEF Shape
  <2>2. log'[i] = log[i]
    BY <1>4, <2>1
  <2>3. i = req[log[i]].base + 1 /\ Begun(log[i])
    BY <1>6, <2>1, <2>2 DEF OutcomeInv
  <2> QED
    BY <1>1, <2>2, <2>3 DEF Begun
<1>7. /\ \A k \in Jobs : /\ rec'[k] = "succeeded" => Published(k)'
                         /\ rec'[k] = "cancelled" => k \in cancel'
      /\ cancel' = accepted' /\ cancel' \subseteq anchors'
  BY <1>1, <1>3 DEF OutcomeInv
<1>8. CancelledNeverPublishes'
  BY <1>1, <1>2, <1>3 DEF OutcomeInv, CancelledNeverPublishes, TypeOK
<1> QED
  BY <1>5, <1>6, <1>7, <1>8 DEF OutcomeInv

(* Every step keeps the outcome of a terminal job true. *)
LEMMA OutcomeNext ==
    ASSUME Room, TypeInv, LedgerInv, KeysInv, WriterInv, OutcomeInv, [Next]_vars
    PROVE  OutcomeInv'
<1>1. CASE UNCHANGED vars
  <2>1. UNCHANGED <<log, cancel, accepted, anchors, pc, job, want>>
    BY <1>1 DEF vars, durable, locals, history
  <2>2. ASSUME NEW u \in Tasks PROVE Knows(u)'
    <3>1. Knows(u) /\ Grows(u)
      BY <2>1 DEF OutcomeInv, Grows, Published
    <3> QED
      BY <2>1, <3>1, StillKnows
  <2> QED
    BY <2>1, <2>2, OutcomeFrame
<1>2. ASSUME NEW t \in Tasks, Step(t) PROVE OutcomeInv'
  BY <1>2, OutcomeSilent, OutcomeSwap, OutcomeCancel
<1>3. ASSUME NEW c \in Connectors,
             \/ \E k \in Keys : CreateRequest(c, k) \/ CreateRetry(c, k)
             \/ \E j \in Jobs : CancelRequest(c, j)
             \/ RunStart(c) \/ Start(c) \/ Close(c) \/ Crash(c) \/ Exit(c)
      PROVE OutcomeInv'
  BY <1>3, OutcomeConnector
<1>4. CASE ReclaimLedgerLock \/ ReclaimWriterLock
  <2>1. UNCHANGED <<log, cancel, accepted, anchors, pc, job, want>>
    BY <1>4 DEF ReclaimLedgerLock, ReclaimWriterLock, durable, locals, history
  <2>2. ASSUME NEW u \in Tasks PROVE Knows(u)'
    <3>1. Knows(u) /\ Grows(u)
      BY <2>1 DEF OutcomeInv, Grows, Published
    <3> QED
      BY <2>1, <3>1, StillKnows
  <2> QED
    BY <2>1, <2>2, OutcomeFrame
<1> QED
  BY <1>1, <1>2, <1>3, <1>4, OutcomeOther DEF Next

(* Initially nothing is published and nothing is cancelled. *)
LEMMA OutcomeInit == Init => WriterInv /\ OutcomeInv
<1> SUFFICES ASSUME Init PROVE WriterInv /\ OutcomeInv
  OBVIOUS
<1>1. \A t \in Tasks : pc[t] = "idle"
  BY DEF Init
<1>2. log = <<>> /\ cancel = {} /\ accepted = {} /\ \A j \in Jobs : rec[j] = "absent"
  BY DEF Init
<1>3. \A t \in Tasks : Knows(t)
  BY <1>1 DEF Knows, ClaimPlaces
<1> QED
  BY <1>1, <1>2, <1>3 DEF WriterInv, WriterPlaces, OutcomeInv, CancelledNeverPublishes

(* What is known of every reachable state while the ledger has room. *)
LEMMA RoomInvariant == ASSUME Room PROVE Spec => [](TypeInv /\ LedgerInv /\ RoomInv)
<1> DEFINE I == TypeInv /\ LedgerInv /\ RoomInv
<1>1. Init => I
  BY TypeInit, LedgerInit, KeysInit, OutcomeInit DEF RoomInv
<1>2. I /\ [Next]_vars => I'
  BY TypeNext, LedgerNext, KeysNext, SettledNext, WriterNext, OutcomeNext DEF RoomInv
<1> HIDE DEF I
<1>3. Spec => []I
  BY <1>1, <1>2, PTL DEF Spec
<1> QED
  BY <1>3 DEF I

(* A job whose cancellation was accepted is never published, however the   *)
(* cancel handler, the runners and their crashes interleave: cancelJob     *)
(* records it only after it has looked for a publication, and the last     *)
(* check before publication is made in the same critical section.          *)
THEOREM CancellationExcludesPublication ==
    ASSUME Room PROVE Spec => []CancelledNeverPublishes
<1>1. RoomInv => CancelledNeverPublishes
  BY DEF RoomInv, OutcomeInv
<1> QED
  BY <1>1, RoomInvariant, PTL

(* A record says "succeeded" only of a job whose revision is in the        *)
(* history, and "cancelled" only of one whose revision is not and never    *)
(* will be.  ("failed" is not in the theorem: with two connectors, or with *)
(* a findPublishedMutation that throws, a published job can be recorded as *)
(* failed.)                                                                *)
THEOREM OutcomesTrue == ASSUME Room PROVE Spec => []NoFalseOutcome
<1>1. TypeInv /\ RoomInv => NoFalseOutcome
  BY DEF RoomInv, OutcomeInv, NoFalseOutcome, CancelledNeverPublishes
<1> QED
  BY <1>1, RoomInvariant, PTL
=============================================================================
