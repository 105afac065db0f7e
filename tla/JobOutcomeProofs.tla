-------------------------- MODULE JobOutcomeProofs --------------------------
(***************************************************************************)
(* The outcome recorded for a job is what happened to the workspace, when  *)
(* one connector serves it.  The argument has two parts: a connector never *)
(* runs a job that it is resuming, for any number of connectors, and so    *)
(* the only task of a single connector that could publish a job which      *)
(* another is about to call failed does not exist.                         *)
(***************************************************************************)
EXTENDS JobLedgerProofs

(* The tasks of a connector. *)
Creator(c) == <<c, "create">>
Runner(c) == <<c, "run">>
Resumer(c) == <<c, "resume">>

(* The jobs on a connector's tail, and those it has yet to resume. *)
OnTail(c) == {sched[c][i] : i \in 1..Len(sched[c])}
Listed(c) == {x[1] : x \in todo[c]}

(* A connector creates nothing before its resumption is over, runs the     *)
(* head of its tail, and keeps what it runs apart from what it resumes.    *)
Apart(c) ==
    /\ ~alive[c] => pc[Resumer(c)] = "idle"
    /\ pc[Resumer(c)] \in {"idle", "boot"} => sched[c] = <<>>
    /\ pc[Resumer(c)] \in {"idle", "boot", "done"} => todo[c] = {}
    /\ pc[Creator(c)] # "idle" => pc[Resumer(c)] = "done"
    /\ pc[Runner(c)] # "idle" => sched[c] # <<>> /\ job[Runner(c)] = Head(sched[c])
    /\ \A x, y \in todo[c] : x[1] = y[1] => x = y
    /\ OnTail(c) \cap Listed(c) = {}
    /\ pc[Resumer(c)] \notin Jobless => job[Resumer(c)] \notin OnTail(c) \cup Listed(c)

ApartInv == \A c \in Connectors : Apart(c)

-----------------------------------------------------------------------------
(* The three tasks of a connector are tasks, and no others have its kinds. *)
LEMMA Actors ==
    /\ \A c \in Connectors : {Creator(c), Runner(c), Resumer(c)} \subseteq Tasks
    /\ \A c \in Connectors : Creator(c)[2] = "create" /\ Runner(c)[2] = "run"
                             /\ Resumer(c)[2] = "resume"
    /\ \A c \in Connectors : Creator(c)[1] = c /\ Runner(c)[1] = c /\ Resumer(c)[1] = c
    /\ \A t \in Tasks : /\ t[2] = "create" => t = Creator(t[1])
                        /\ t[2] = "run" => t = Runner(t[1])
                        /\ t[2] = "resume" => t = Resumer(t[1])
  BY DEF Tasks, Kinds, Creator, Runner, Resumer

(* What is put on a tail comes after its head; what is taken off was it.   *)
LEMMA TailGrows ==
    ASSUME NEW S, NEW s \in Seq(S), NEW x \in S
    PROVE  LET a == Append(s, x) IN
           /\ {a[i] : i \in 1..Len(a)} = {s[i] : i \in 1..Len(s)} \cup {x}
           /\ s # <<>> => a # <<>> /\ Head(a) = Head(s)
<1> DEFINE a == Append(s, x)
<1>1. /\ Len(s) \in Nat /\ Len(a) = Len(s) + 1 /\ a[Len(s) + 1] = x
      /\ \A i \in 1..Len(s) : a[i] = s[i]
  OBVIOUS
<1>2. s # <<>> => a # <<>> /\ Head(a) = Head(s)
  OBVIOUS
<1> HIDE DEF a
<1>3. {a[i] : i \in 1..Len(a)} = {s[i] : i \in 1..Len(s)} \cup {x}
  <2>1. \A i \in 1..Len(a) : i \in 1..Len(s) \/ i = Len(s) + 1
    BY <1>1
  <2>2. 1..Len(s) \subseteq 1..Len(a) /\ Len(s) + 1 \in 1..Len(a)
    BY <1>1
  <2> QED
    BY <1>1, <2>1, <2>2
<1> QED
  BY <1>2, <1>3 DEF a

(* What is taken off a tail leaves nothing new on it. *)
LEMMA TailShrinks ==
    ASSUME NEW S, NEW s \in Seq(S), s # <<>>
    PROVE  LET r == Tail(s) IN
           /\ {r[i] : i \in 1..Len(r)} \subseteq {s[i] : i \in 1..Len(s)}
           /\ Head(s) \in {s[i] : i \in 1..Len(s)}
<1> DEFINE r == Tail(s)
<1>1. /\ Len(s) \in Nat /\ 1 \in 1..Len(s) /\ Head(s) = s[1]
      /\ Len(r) = Len(s) - 1 /\ \A i \in 1..Len(r) : r[i] = s[i + 1]
  OBVIOUS
<1> HIDE DEF r
<1>2. \A i \in 1..Len(r) : i + 1 \in 1..Len(s)
  BY <1>1
<1> QED
  BY <1>1, <1>2 DEF r

(* A connector whose three tasks, tail and list rest stays as it is. *)
LEMMA ApartRests ==
    ASSUME NEW c \in Connectors, Apart(c),
           alive'[c] = alive[c], sched'[c] = sched[c], todo'[c] = todo[c],
           \A t \in {Creator(c), Runner(c), Resumer(c)} : pc'[t] = pc[t] /\ job'[t] = job[t]
    PROVE  Apart(c)'
<1>1. OnTail(c)' = OnTail(c) /\ Listed(c)' = Listed(c)
  BY DEF OnTail, Listed
<1>2. /\ pc'[Creator(c)] = pc[Creator(c)] /\ pc'[Runner(c)] = pc[Runner(c)]
      /\ pc'[Resumer(c)] = pc[Resumer(c)] /\ job'[Runner(c)] = job[Runner(c)]
      /\ job'[Resumer(c)] = job[Resumer(c)]
  OBVIOUS
<1> QED
  BY <1>1, <1>2 DEF Apart

-----------------------------------------------------------------------------
(* What the tasks of a connector do to its tail and its list.  A creation  *)
(* may put its job on the tail,                                            *)
LEMMA CreateTail ==
    ASSUME TypeInv, LedgerInv, NEW t \in Tasks, t[2] = "create", Step(t)
    PROVE  /\ UNCHANGED <<alive, todo, job>> /\ pc[t] # "idle" /\ job[t] \in Jobs
           /\ sched' = sched \/ sched' = [sched EXCEPT ![t[1]] = Append(@, job[t])]
<1> USE DEF TypeInv, At, Goto, durable, process, locals, history
<1>1. CASE Create(t)
  <2>1. UNCHANGED <<alive, todo, job>> /\ pc[t] # "idle"
    BY <1>1 DEF Create, CreateRaced, Admit, AdmitFull, PruneCancellation, PruneRecord,
       PruneAnchor, WriteAnchor, WriteRecord
  <2>2. sched' = sched \/ sched' = [sched EXCEPT ![t[1]] = Append(@, job[t])]
    BY <1>1 DEF Create, CreateRaced, Admit, AdmitFull, PruneCancellation, PruneRecord,
       PruneAnchor, WriteAnchor, WriteRecord, Schedule
  <2>3. job[t] \in Jobs
    BY <1>1 DEF Create, CreateRaced, Admit, AdmitFull, PruneCancellation, PruneRecord,
       PruneAnchor, WriteAnchor, WriteRecord, Control, OnTrack, Jobless
  <2> QED
    BY <2>1, <2>2, <2>3
<1>2. CASE LedgerBusy(t)
  BY <1>2 DEF LedgerBusy, Unclaimed, InWriterLock, WithClaim, Control, OnTrack, Jobless
<1> QED
  BY <1>1, <1>2, QuietTasks DEF Step

(* a cancellation touches neither,                                        *)
LEMMA CancelTail ==
    ASSUME TypeInv, NEW t \in Tasks, t[2] = "cancel", Step(t)
    PROVE  UNCHANGED <<alive, todo, sched>>
<1> USE DEF TypeInv, At, Goto, durable, process, locals, history
<1>1. CASE Create(t)
  BY <1>1, KindOfPlace DEF Create, CreateRaced, Admit, AdmitFull, PruneCancellation, PruneRecord,
     PruneAnchor, WriteAnchor, WriteRecord, CreatePlaces
<1>2. CASE Claiming(t)
  BY <1>2 DEF Claiming, Claim, Collide, InspectGone, InspectLive, InspectDead,
     QuarantineClaim, Release, NextAttempt, Leave
<1>3. CASE Run(t) \/ Cancel(t) \/ LedgerBusy(t)
  BY <1>3 DEF Run, RunRead, RunReadCancellation, Prepare, CheckBeforePublication, PublishLock,
     PublishCompare, PrePublishCheck, PublishSwap, PublishUnlock, Reconcile, Lookup,
     LookupCancellation, AssertClaimOwned, Transition, Cancel, CancelLock, CancelRead,
     CancelFind, CancelWrite, CancelRefresh, LedgerBusy
<1>4. CASE Resume(t)
  BY <1>4, KindOfPlace DEF Resume, ResumeList, ResumeNext, ResumeQueued, ResumeDone,
     ResumePlaces, RunPlaces, ClaimPlaces, SettlePlaces, ReconcilePlaces
<1> QED
  BY <1>1, <1>2, <1>3, <1>4 DEF Step

(* a run takes its job off the tail when it is over,                       *)
LEMMA RunTail ==
    ASSUME TypeInv, NEW t \in Tasks, t[2] = "run", Step(t)
    PROVE  /\ UNCHANGED <<alive, todo, job>> /\ pc[t] # "idle"
           /\ \/ UNCHANGED sched
              \/ pc'[t] = "idle" /\ sched' = [sched EXCEPT ![t[1]] = Tail(@)]
<1> USE DEF TypeInv, At, Goto, durable, process, locals, history
<1>1. CASE Create(t)
  BY <1>1, KindOfPlace DEF Create, CreateRaced, Admit, AdmitFull, PruneCancellation, PruneRecord,
     PruneAnchor, WriteAnchor, WriteRecord, CreatePlaces
<1>2. CASE Claiming(t)
  BY <1>2 DEF Claiming, Claim, Collide, InspectGone, InspectLive, InspectDead,
     QuarantineClaim, Release, NextAttempt, Leave, Control
<1>3. CASE Run(t) \/ LedgerBusy(t)
  BY <1>3 DEF Run, RunRead, RunReadCancellation, Prepare, CheckBeforePublication, PublishLock,
     PublishCompare, PrePublishCheck, PublishSwap, PublishUnlock, Reconcile, Lookup,
     LookupCancellation, AssertClaimOwned, Transition, LedgerBusy, Unclaimed, InWriterLock,
     WithClaim
<1>4. CASE Cancel(t)
  BY <1>4, KindOfPlace DEF Cancel, CancelLock, CancelRead, CancelFind, CancelWrite,
     CancelRefresh, CancelPlaces, RunPlaces, ClaimPlaces, SettlePlaces, ReconcilePlaces
<1>5. CASE Resume(t)
  BY <1>5, KindOfPlace DEF Resume, ResumeList, ResumeNext, ResumeQueued, ResumeDone,
     ResumePlaces, RunPlaces, ClaimPlaces, SettlePlaces, ReconcilePlaces
<1> QED
  BY <1>1, <1>2, <1>3, <1>4, <1>5 DEF Step

(* and a resumption that has a job in hand works on that job alone.        *)
LEMMA ResumeTail ==
    ASSUME TypeInv, NEW t \in Tasks, t[2] = "resume", Step(t), ~Resume(t)
    PROVE  /\ UNCHANGED <<alive, todo, job, sched>> /\ pc[t] \notin Jobless
           /\ pc'[t] \notin {"idle", "boot", "done"}
<1> USE DEF TypeInv, At, Goto, durable, process, locals, history
<1>0. t[2] # "run" /\ t[2] # "create" /\ t[2] # "cancel"
  OBVIOUS
<1>1. CASE Create(t)
  BY <1>0, <1>1, KindOfPlace DEF Create, CreateRaced, Admit, AdmitFull, PruneCancellation,
     PruneRecord, PruneAnchor, WriteAnchor, WriteRecord, CreatePlaces
<1>2. CASE Claiming(t)
  <2>1. UNCHANGED <<alive, todo, job, sched>> /\ pc[t] \notin Jobless
    BY <1>0, <1>2 DEF Claiming, Claim, Collide, InspectGone, InspectLive, InspectDead,
       QuarantineClaim, Release, NextAttempt, Leave, Jobless
  <2>2. pc'[t] \notin {"idle", "boot", "done"}
    BY <1>0, <1>2 DEF Claiming, Claim, Collide, InspectGone, InspectLive, InspectDead,
       QuarantineClaim, Release, NextAttempt, Leave, ClaimedPc, Control
  <2> QED
    BY <2>1, <2>2
<1>3. CASE Run(t)
  <2>1. UNCHANGED <<alive, todo, job, sched>> /\ pc[t] \notin Jobless
    BY <1>3 DEF Run, RunRead, RunReadCancellation, Prepare, CheckBeforePublication, PublishLock,
       PublishCompare, PrePublishCheck, PublishSwap, PublishUnlock, Reconcile, Lookup,
       LookupCancellation, AssertClaimOwned, Transition, Jobless
  <2>2. pc'[t] \notin {"idle", "boot", "done"}
    BY <1>3 DEF Run, RunRead, RunReadCancellation, Prepare, CheckBeforePublication, PublishLock,
       PublishCompare, PrePublishCheck, PublishSwap, PublishUnlock, Reconcile, Lookup,
       LookupCancellation, AssertClaimOwned, Transition, Throw, TransitionTo, Control
  <2> QED
    BY <2>1, <2>2
<1>4. CASE Cancel(t)
  BY <1>0, <1>4, KindOfPlace DEF Cancel, CancelLock, CancelRead, CancelFind, CancelWrite,
     CancelRefresh, CancelPlaces, RunPlaces, ClaimPlaces, SettlePlaces, ReconcilePlaces
<1>5. CASE LedgerBusy(t)
  BY <1>0, <1>5 DEF LedgerBusy, Unclaimed, InWriterLock, WithClaim, Jobless, Throw, Control
<1> QED
  BY <1>1, <1>2, <1>3, <1>4, <1>5 DEF Step

-----------------------------------------------------------------------------
(* A step of a task leaves the other connectors apart. *)
LEMMA ApartOthers ==
    ASSUME TypeInv, LedgerInv, ApartInv, NEW t \in Tasks, Step(t),
           NEW d \in Connectors, d # t[1]
    PROVE  Apart(d)'
<1>0. Apart(d) /\ t[1] \in Connectors /\ t[2] \in Kinds
  BY TaskParts DEF ApartInv
<1>1. \A u \in {Creator(d), Runner(d), Resumer(d)} : pc'[u] = pc[u] /\ job'[u] = job[u]
  <2>1. {Creator(d), Runner(d), Resumer(d)} \subseteq Tasks \ {t}
    BY Actors
  <2> QED
    BY <2>1, OthersRest
<1>2. alive'[d] = alive[d] /\ sched'[d] = sched[d] /\ todo'[d] = todo[d]
  <2>1. CASE t[2] = "create"
    BY <1>0, <2>1, CreateTail DEF TypeInv, Shape
  <2>2. CASE t[2] = "cancel"
    BY <2>2, CancelTail
  <2>3. CASE t[2] = "run"
    BY <1>0, <2>3, RunTail DEF TypeInv, Shape
  <2>4. CASE t[2] = "resume" /\ ~Resume(t)
    BY <2>4, ResumeTail
  <2>5. CASE Resume(t)
    BY <1>0, <2>5 DEF Resume, ResumeList, ResumeNext, ResumeQueued, ResumeDone, Schedule,
       process, TypeInv, Shape
  <2> QED
    BY <1>0, <2>1, <2>2, <2>3, <2>4, <2>5 DEF Kinds
<1> QED
  BY <1>0, <1>1, <1>2, ApartRests

(* A creation is after the resumption, so its job is nobody's yet; *)
LEMMA ApartCreate ==
    ASSUME TypeInv, LedgerInv, ApartInv, NEW t \in Tasks, t[2] = "create", Step(t)
    PROVE  Apart(t[1])'
<1> DEFINE c == t[1]
<1>0. c \in Connectors /\ t = Creator(c) /\ Apart(c)
  BY TaskParts, Actors DEF ApartInv
<1>1. {Runner(c), Resumer(c)} \subseteq Tasks \ {t}
  BY <1>0, Actors
<1>2. pc'[Runner(c)] = pc[Runner(c)] /\ pc'[Resumer(c)] = pc[Resumer(c)]
  BY <1>1, OthersRest
<1>3. UNCHANGED <<alive, todo, job>> /\ pc[t] # "idle" /\ job[t] \in Jobs
  BY CreateTail
<1>4. pc[Resumer(c)] = "done" /\ todo[c] = {}
  BY <1>0, <1>3 DEF Apart
<1>5. sched'[c] = sched[c] \/ sched'[c] = Append(sched[c], job[t])
  BY <1>0, CreateTail DEF TypeInv, Shape
<1>6. sched[c] # <<>> => sched'[c] # <<>> /\ Head(sched'[c]) = Head(sched[c])
  <2>1. sched[c] \in Seq(Jobs)
    BY <1>0 DEF TypeInv, Shape
  <2> QED
    BY <1>3, <1>5, <2>1, TailGrows
<1> HIDE DEF c
<1> QED
  BY <1>0, <1>2, <1>3, <1>4, <1>6 DEF Apart, Listed, Jobless, c

(* a cancellation concerns neither the tail nor the list;                  *)
LEMMA ApartCancel ==
    ASSUME TypeInv, LedgerInv, ApartInv, NEW t \in Tasks, t[2] = "cancel", Step(t)
    PROVE  Apart(t[1])'
<1> DEFINE c == t[1]
<1>0. c \in Connectors /\ Apart(c)
  BY TaskParts DEF ApartInv
<1>1. {Creator(c), Runner(c), Resumer(c)} \subseteq Tasks \ {t}
  BY <1>0, Actors
<1>2. \A u \in {Creator(c), Runner(c), Resumer(c)} : pc'[u] = pc[u] /\ job'[u] = job[u]
  BY <1>1, OthersRest
<1> QED
  BY <1>0, <1>2, CancelTail, ApartRests

(* a run works on the head and takes it off when it is over;               *)
LEMMA ApartRun ==
    ASSUME TypeInv, LedgerInv, ApartInv, NEW t \in Tasks, t[2] = "run", Step(t)
    PROVE  Apart(t[1])'
<1> DEFINE c == t[1]
<1>0. c \in Connectors /\ t = Runner(c) /\ Apart(c)
  BY TaskParts, Actors DEF ApartInv
<1>1. {Creator(c), Resumer(c)} \subseteq Tasks \ {t}
  BY <1>0, Actors
<1>2. pc'[Creator(c)] = pc[Creator(c)] /\ pc'[Resumer(c)] = pc[Resumer(c)]
  BY <1>1, OthersRest
<1>3. UNCHANGED <<alive, todo, job>> /\ pc[t] # "idle"
  BY RunTail
<1>4. sched[c] # <<>> /\ job[Runner(c)] = Head(sched[c]) /\ sched[c] \in Seq(Jobs)
  BY <1>0, <1>3 DEF Apart, TypeInv, Shape
<1>5. pc[Resumer(c)] \notin {"idle", "boot"}
  BY <1>0, <1>4 DEF Apart
<1>6. sched'[c] = sched[c] \/ (pc'[Runner(c)] = "idle" /\ sched'[c] = Tail(sched[c]))
  BY <1>0, RunTail DEF TypeInv, Shape
<1> HIDE DEF c
<1>7. OnTail(c)' \subseteq OnTail(c)
  BY <1>4, <1>6, TailShrinks DEF OnTail
<1>8. Listed(c)' = Listed(c)
  BY <1>3 DEF Listed
<1> QED
  BY <1>0, <1>2, <1>3, <1>4, <1>5, <1>6, <1>7, <1>8 DEF Apart, c

(* and a resumption moves the jobs of its list to its hand, and from there *)
(* at most to the tail.                                                    *)
LEMMA ApartResume ==
    ASSUME TypeInv, LedgerInv, ApartInv, NEW t \in Tasks, t[2] = "resume", Step(t)
    PROVE  Apart(t[1])'
<1> DEFINE c == t[1]
<1>0. c \in Connectors /\ t = Resumer(c) /\ Apart(c)
  BY TaskParts, Actors DEF ApartInv
<1>1. {Creator(c), Runner(c)} \subseteq Tasks \ {t}
  BY <1>0, Actors
<1>2. /\ pc'[Creator(c)] = pc[Creator(c)] /\ pc'[Runner(c)] = pc[Runner(c)]
      /\ job'[Runner(c)] = job[Runner(c)]
  BY <1>1, OthersRest
<1>3. t \in Tasks /\ t[1] = c /\ sched[c] \in Seq(Jobs)
  BY <1>0 DEF TypeInv, Shape
<1> HIDE DEF c
<1> USE DEF At, Goto, process, locals
<1>4. CASE ~Resume(t)
  <2>1. UNCHANGED <<alive, todo, job, sched>> /\ pc[t] \notin Jobless
        /\ pc'[t] \notin {"idle", "boot", "done"}
    BY <1>4, ResumeTail
  <2>2. OnTail(c)' = OnTail(c) /\ Listed(c)' = Listed(c)
    BY <2>1 DEF OnTail, Listed
  <2> QED
    BY <1>0, <1>2, <2>1, <2>2 DEF Apart, Jobless, c
<1>5. CASE ResumeList(t)
  <2>1. /\ pc[t] = "boot" /\ pc'[t] = "next" /\ UNCHANGED <<alive, sched>>
        /\ \A x \in todo'[c] : x \in anchors \X {"queued", "running"} /\ Reconciled[x[1]] = x[2]
    BY <1>0, <1>3, <1>5 DEF ResumeList, TypeInv, Shape, Control
  <2>2. sched[c] = <<>> /\ OnTail(c)' = {}
    BY <1>0, <2>1 DEF Apart, OnTail
  <2>3. \A x, y \in todo'[c] : x[1] = y[1] => x = y
    BY <2>1
  <2>4. alive[c] /\ pc[Creator(c)] = "idle" /\ pc[Runner(c)] = "idle"
    BY <1>0, <2>1, <2>2 DEF Apart
  <2> QED
    BY <1>0, <1>2, <2>1, <2>2, <2>3, <2>4 DEF Apart, Jobless, c
<1>6. CASE ResumeNext(t)
  <2>1. PICK x \in todo[c] : /\ todo'[c] = todo[c] \ {x} /\ job'[t] = x[1]
                             /\ pc'[t] \in {"resumeQueued", "claim"}
                             /\ pc[t] = "next" /\ UNCHANGED <<alive, sched>>
    BY <1>0, <1>3, <1>6 DEF ResumeNext, TypeInv, TypeOK, Shape, Control
  <2>2. alive[c] /\ pc[Creator(c)] = "idle"
    BY <1>0, <2>1 DEF Apart
  <2>3. OnTail(c)' = OnTail(c) /\ Listed(c)' \subseteq Listed(c) /\ x[1] \in Listed(c)
    BY <2>1 DEF OnTail, Listed
  <2>4. x[1] \notin Listed(c)'
    BY <1>0, <2>1 DEF Apart, Listed
  <2> QED
    BY <1>0, <1>2, <2>1, <2>2, <2>3, <2>4 DEF Apart, Jobless, c
<1>7. CASE ResumeQueued(t)
  <2>1. /\ pc[t] = "resumeQueued" /\ pc'[t] \in {"claim", "next"}
        /\ UNCHANGED <<alive, todo, job>>
        /\ \/ sched'[c] = sched[c]
           \/ pc'[t] = "next" /\ sched'[c] = Append(sched[c], job[t])
    BY <1>0, <1>3, <1>7 DEF ResumeQueued, Schedule, TypeInv, Shape, Control
  <2>2. alive[c] /\ pc[Creator(c)] = "idle" /\ job[t] \in Jobs
    BY <1>0, <1>3, <2>1 DEF Apart, TypeInv, Control, OnTrack, Jobless
  <2>3. Listed(c)' = Listed(c) /\ job[t] \notin OnTail(c) \cup Listed(c)
    BY <1>0, <2>1 DEF Apart, Listed, Jobless
  <2>4. CASE sched'[c] = sched[c]
    <3>1. OnTail(c)' = OnTail(c)
      BY <2>4 DEF OnTail
    <3> QED
      BY <1>0, <1>2, <2>1, <2>2, <2>3, <2>4, <3>1 DEF Apart, Jobless, c
  <2>5. CASE pc'[t] = "next" /\ sched'[c] = Append(sched[c], job[t])
    <3>1. /\ OnTail(c)' = OnTail(c) \cup {job[t]}
          /\ sched[c] # <<>> => sched'[c] # <<>> /\ Head(sched'[c]) = Head(sched[c])
      BY <1>3, <2>2, <2>5, TailGrows DEF OnTail
    <3> QED
      BY <1>0, <1>2, <2>1, <2>2, <2>3, <2>5, <3>1 DEF Apart, Jobless, c
  <2> QED
    BY <2>1, <2>4, <2>5
<1>8. CASE ResumeDone(t)
  <2>1. /\ pc[t] = "next" /\ pc'[t] = "done" /\ todo[c] = {}
        /\ UNCHANGED <<alive, todo, sched, job>>
    BY <1>0, <1>3, <1>8 DEF ResumeDone, TypeInv, Control
  <2>2. OnTail(c)' = OnTail(c) /\ Listed(c)' = Listed(c)
    BY <2>1 DEF OnTail, Listed
  <2> QED
    BY <1>0, <1>2, <2>1, <2>2 DEF Apart, Jobless, c
<1> QED
  BY <1>4, <1>5, <1>6, <1>7, <1>8 DEF Resume, c

(* Requests, the start of a run, and the ends of a connector. *)
LEMMA ApartConnector ==
    ASSUME TypeInv, ApartInv, NEW c \in Connectors, NEW d \in Connectors,
           \/ \E k \in Keys : CreateRequest(c, k) \/ CreateRetry(c, k)
           \/ \E j \in Jobs : CancelRequest(c, j)
           \/ RunStart(c) \/ Start(c) \/ Close(c) \/ Crash(c) \/ Exit(c)
    PROVE  Apart(d)'
<1> USE DEF At, Goto, process, locals
<1> DEFINE T == {Creator(d), Runner(d), Resumer(d)}
           Rests(u) == pc'[u] = pc[u] /\ job'[u] = job[u]
<1>0. /\ Apart(c) /\ Apart(d) /\ pc \in [Tasks -> Places] /\ job \in [Tasks -> 0..MaxJobs]
      /\ sched \in [Connectors -> Seq(Jobs)]
      /\ {Creator(c), Runner(c), Resumer(c)} \cup T \subseteq Tasks
  BY Actors DEF ApartInv, TypeInv, TypeOK, Shape, Control
<1>1. ASSUME NEW k \in Keys, CreateRequest(c, k) PROVE Apart(d)'
  <2>1. /\ UNCHANGED <<alive, sched, todo>> /\ alive[c] /\ pc[Resumer(c)] = "done"
        /\ \A u \in Tasks \ {Creator(c)} : Rests(u)
    BY <1>0, <1>1 DEF CreateRequest, Serving, Creator, Resumer
  <2>2. CASE d = c
    <3>1. Rests(Runner(c)) /\ Rests(Resumer(c))
      BY <1>0, <2>1, Actors
    <3>2. OnTail(c)' = OnTail(c) /\ Listed(c)' = Listed(c)
      BY <2>1 DEF OnTail, Listed
    <3> QED
      BY <1>0, <2>1, <2>2, <3>1, <3>2 DEF Apart
  <2>3. CASE d # c
    <3>1. \A u \in T : Rests(u)
      BY <1>0, <2>1, <2>3, Actors
    <3> QED
      BY <1>0, <2>1, <3>1, ApartRests
  <2> QED
    BY <2>2, <2>3
<1>2. CASE \/ \E k \in Keys : CreateRetry(c, k)
           \/ \E j \in Jobs : CancelRequest(c, j)
           \/ Close(c)
  <2>1. UNCHANGED <<alive, sched, todo>> /\ \A u \in Tasks \ {<<c, "cancel">>} : Rests(u)
    BY <1>0, <1>2 DEF CreateRetry, CancelRequest, Close
  <2>2. \A u \in T : Rests(u)
    BY <1>0, <2>1 DEF Creator, Runner, Resumer
  <2> QED
    BY <1>0, <2>1, <2>2, ApartRests
<1>3. CASE RunStart(c)
  <2>1. /\ UNCHANGED <<alive, todo>> /\ \A u \in Tasks \ {Runner(c)} : Rests(u)
        /\ sched[c] # <<>> /\ pc[Runner(c)] = "idle" /\ job'[Runner(c)] = Head(sched[c])
        /\ \/ pc'[Runner(c)] = "claim" /\ UNCHANGED sched
           \/ pc'[Runner(c)] = "idle" /\ sched' = [sched EXCEPT ![c] = Tail(@)]
    <3>1. Runner(c) = <<c, "run">>
      BY DEF Runner
    <3> QED
      BY <1>0, <1>3, <3>1 DEF RunStart
  <2>2. CASE d = c
    <3>1. Rests(Creator(c)) /\ Rests(Resumer(c))
      BY <1>0, <2>1, Actors
    <3>2. Listed(c)' = Listed(c) /\ OnTail(c)' \subseteq OnTail(c)
      <4>1. sched'[c] = sched[c] \/ sched'[c] = Tail(sched[c])
        BY <1>0, <2>1
      <4>2. sched[c] \in Seq(Jobs)
        BY <1>0
      <4>3. OnTail(c)' \subseteq OnTail(c)
        <5>1. CASE sched'[c] = sched[c]
          BY <5>1 DEF OnTail
        <5>2. CASE sched'[c] = Tail(sched[c])
          BY <2>1, <4>2, <5>2, TailShrinks DEF OnTail
        <5> QED
          BY <4>1, <5>1, <5>2
      <4> QED
        BY <2>1, <4>3 DEF Listed
    <3>3. pc[Resumer(c)] \notin {"idle", "boot"}
      BY <1>0, <2>1 DEF Apart
    <3> QED
      BY <1>0, <2>1, <2>2, <3>1, <3>2, <3>3 DEF Apart
  <2>3. CASE d # c
    <3>1. \A u \in T : Rests(u)
      BY <1>0, <2>1, <2>3, Actors
    <3>2. sched'[d] = sched[d]
      BY <1>0, <2>1, <2>3
    <3> QED
      BY <1>0, <2>1, <3>1, <3>2, ApartRests
  <2> QED
    BY <2>2, <2>3
<1>4. CASE Start(c)
  <2>1. /\ UNCHANGED <<sched, todo>> /\ \A u \in Tasks \ {Resumer(c)} : Rests(u)
        /\ ~alive[c] /\ pc'[Resumer(c)] = "boot" /\ alive' = [alive EXCEPT ![c] = TRUE]
    <3>1. Resumer(c) = <<c, "resume">>
      BY DEF Resumer
    <3> QED
      BY <1>0, <1>4, <3>1 DEF Start
  <2>2. CASE d = c
    <3>1. Rests(Creator(c)) /\ Rests(Runner(c))
      BY <1>0, <2>1, Actors
    <3>2. /\ pc[Resumer(c)] = "idle" /\ sched[c] = <<>> /\ todo[c] = {}
          /\ pc[Creator(c)] = "idle" /\ pc[Runner(c)] = "idle"
      BY <1>0, <2>1 DEF Apart
    <3>3. OnTail(c)' = {} /\ Listed(c)' = {}
      BY <2>1, <3>2 DEF OnTail, Listed
    <3>4. alive'[c] = TRUE
      BY <1>0, <2>1 DEF TypeInv, Shape
    <3> QED
      BY <2>1, <2>2, <3>1, <3>2, <3>3, <3>4 DEF Apart, Jobless
  <2>3. CASE d # c
    <3>1. \A u \in T : Rests(u)
      BY <1>0, <2>1, <2>3, Actors
    <3>2. alive'[d] = alive[d]
      BY <2>1, <2>3 DEF TypeInv, Shape
    <3> QED
      BY <1>0, <2>1, <3>1, <3>2, ApartRests
  <2> QED
    BY <2>2, <2>3
<1>5. CASE Crash(c) \/ Exit(c)
  <2>1. Gone(c)
    BY <1>5 DEF Crash, Exit
  <2>2. CASE d = c
    <3>1. sched'[c] = <<>> /\ todo'[c] = {} /\ alive'[c] = FALSE
      BY <2>1 DEF Gone, TypeInv, Shape
    <3>2. \A u \in T : pc'[u] = "idle"
      BY <1>0, <2>1, <2>2, Actors DEF Gone
    <3>3. OnTail(c)' = {} /\ Listed(c)' = {}
      BY <3>1 DEF OnTail, Listed
    <3> QED
      BY <2>2, <3>1, <3>2, <3>3 DEF Apart, Jobless
  <2>3. CASE d # c
    <3>1. sched'[d] = sched[d] /\ todo'[d] = todo[d] /\ alive'[d] = alive[d]
      BY <2>1, <2>3 DEF Gone, TypeInv, Shape
    <3>2. \A u \in T : Rests(u)
      BY <1>0, <2>1, <2>3, Actors DEF Gone
    <3> QED
      BY <1>0, <3>1, <3>2, ApartRests
  <2> QED
    BY <2>2, <2>3
<1> QED
  BY <1>1, <1>2, <1>3, <1>4, <1>5

(* Every step keeps every connector's runs and resumption apart. *)
LEMMA ApartNext ==
    ASSUME TypeInv, LedgerInv, ApartInv, [Next]_vars PROVE ApartInv'
<1> SUFFICES ASSUME NEW d \in Connectors PROVE Apart(d)'
  BY DEF ApartInv
<1>1. ASSUME NEW t \in Tasks, Step(t) PROVE Apart(d)'
  <2>1. t[2] \in Kinds
    BY TaskParts
  <2> QED
    BY <1>1, <2>1, ApartOthers, ApartCreate, ApartCancel, ApartRun, ApartResume DEF Kinds
<1>2. ASSUME NEW c \in Connectors,
             \/ \E k \in Keys : CreateRequest(c, k) \/ CreateRetry(c, k)
             \/ \E j \in Jobs : CancelRequest(c, j)
             \/ RunStart(c) \/ Start(c) \/ Close(c) \/ Crash(c) \/ Exit(c)
      PROVE Apart(d)'
  BY <1>2, ApartConnector
<1>3. CASE UNCHANGED vars \/ ReclaimLedgerLock \/ ReclaimWriterLock \/ OtherPublishes
  <2>1. UNCHANGED <<alive, sched, todo, pc, job>>
    BY <1>3 DEF vars, ReclaimLedgerLock, ReclaimWriterLock, OtherPublishes, process, locals
  <2> QED
    BY <2>1, ApartRests DEF ApartInv
<1> QED
  BY <1>1, <1>2, <1>3 DEF Next

(* Initially no connector does anything. *)
LEMMA ApartInit == Init => ApartInv
<1> SUFFICES ASSUME Init, NEW c \in Connectors PROVE Apart(c)
  BY DEF ApartInv
<1>1. \A t \in {Creator(c), Runner(c), Resumer(c)} : pc[t] = "idle"
  BY Actors DEF Init
<1>2. sched[c] = <<>> /\ todo[c] = {}
  BY DEF Init
<1> QED
  BY <1>1, <1>2 DEF Apart, OnTail, Listed, Jobless

(* What a connector runs, or has on its tail to be run, is never what its  *)
(* resumption is deciding about or has yet to look at, whatever number of  *)
(* connectors there is and wherever they crash.                            *)
THEOREM RunsApartFromResumption == Spec => []ApartInv
<1> DEFINE I == TypeInv /\ LedgerInv /\ ApartInv
<1>1. Init => I
  BY TypeInit, LedgerInit, ApartInit
<1>2. I /\ [Next]_vars => I'
  BY TypeNext, LedgerNext, ApartNext
<1>3. I => ApartInv
  OBVIOUS
<1> HIDE DEF I
<1> QED
  BY <1>1, <1>2, <1>3, PTL DEF Spec

-----------------------------------------------------------------------------
(* One connector, and a findPublishedMutation that does not throw. *)
Alone == \A c, d \in Connectors : c = d

(* A task that has found its job unpublished and is about to record that   *)
(* as a failure, and one that is on its way to publish its job.            *)
Failing(t) ==
    pc[t] = "lookupCancellation" \/ (pc[t] \in {"assert", "write"} /\ want[t] = "failed")
Publishing(t) ==
    pc[t] \in {"prepare", "check", "lock", "compare", "prePublishCheck", "swap"}

(* What failed, or is about to, is not published; what is about to be      *)
(* published has not failed.                                               *)
FailureInv ==
    /\ \A j \in Jobs : rec[j] = "failed" => ~Published(j)
    /\ \A t \in Tasks : Failing(t) => ~Published(job[t])
    /\ \A t \in Tasks : Publishing(t) => rec[job[t]] # "failed"

-----------------------------------------------------------------------------
(* Two tasks of one connector do not decide about the same job: one that   *)
(* publishes is the runner, and another that fails is the resumption.      *)
LEMMA NotBoth ==
    ASSUME Alone, TypeInv, ApartInv, NEW t \in Tasks, NEW u \in Tasks, t # u,
           Publishing(t), Failing(u)
    PROVE  job[t] # job[u]
<1>1. t[2] = "run" /\ pc[t] # "idle"
  BY KindOfPlace DEF TypeInv, Publishing, RunPlaces, ResumePlaces, CancelPlaces, ClaimPlaces,
     SettlePlaces, ReconcilePlaces
<1>2. u[2] \in {"run", "resume"} /\ pc[u] \notin Jobless
  <2>1. OnTrack(u) /\ u[2] \in Kinds
    BY TaskParts DEF TypeInv, Control
  <2> QED
    BY <2>1 DEF OnTrack, Kinds, Failing, CreatePlaces, CancelPlaces, ClaimPlaces, SettlePlaces,
       Jobless
<1>3. PICK c \in Connectors : t[1] = c /\ u[1] = c
  BY TaskParts DEF Alone
<1>4. t = Runner(c) /\ u = Resumer(c)
  BY <1>1, <1>2, <1>3, Actors
<1>5. sched[c] # <<>> /\ job[t] = Head(sched[c]) /\ job[u] \notin OnTail(c)
  BY <1>1, <1>2, <1>4 DEF ApartInv, Apart
<1>6. job[t] \in OnTail(c)
  <2>1. sched[c] \in Seq(Jobs)
    BY DEF TypeInv, Shape
  <2> QED
    BY <1>5, <2>1, TailShrinks DEF OnTail
<1> QED
  BY <1>5, <1>6

(* A job becomes published only by the swap of a task that works on it.    *)
LEMMA PublishedEvolves ==
    ASSUME TypeInv, [Next]_vars, NEW j \in Jobs, ~Published(j), Published(j)'
    PROVE  \E t \in Tasks : PublishSwap(t) /\ job[t] = j
<1> USE DEF durable, process, locals, history
<1>1. log' # log
  BY DEF Published
<1>2. CASE OtherPublishes
  <2>1. log' = Append(log, Other)
    BY <1>2 DEF OtherPublishes
  <2>2. j = Other
    BY <2>1, PublishedAppend DEF TypeInv
  <2> QED
    BY <2>2, JobAssumption DEF Jobs, Other
<1>3. ASSUME NEW t \in Tasks, Step(t) PROVE PublishSwap(t) /\ job[t] = j
  <2>1. PublishSwap(t)
    BY <1>1, <1>3 DEF Step, Create, CreateRaced, Admit, AdmitFull, PruneCancellation, PruneRecord,
       PruneAnchor, WriteAnchor, WriteRecord, Claiming, Claim, Collide, InspectGone, InspectLive,
       InspectDead, QuarantineClaim, Release, Run, RunRead, RunReadCancellation, Prepare,
       CheckBeforePublication, PublishLock, PublishCompare, PrePublishCheck,
       PublishUnlock, Reconcile, Lookup, LookupCancellation, AssertClaimOwned, Transition,
       Cancel, CancelLock, CancelRead, CancelFind, CancelWrite, CancelRefresh,
       Resume, ResumeList, ResumeNext, ResumeQueued, ResumeDone, LedgerBusy
  <2>2. log' = Append(log, job[t])
    BY <1>1, <2>1 DEF PublishSwap
  <2> QED
    BY <2>1, <2>2, PublishedAppend DEF TypeInv
<1>4. ASSUME NEW c \in Connectors,
             \/ \E k \in Keys : CreateRequest(c, k) \/ CreateRetry(c, k)
             \/ \E i \in Jobs : CancelRequest(c, i)
             \/ RunStart(c) \/ Start(c) \/ Close(c) \/ Crash(c) \/ Exit(c)
      PROVE  FALSE
  BY <1>1, <1>4 DEF CreateRequest, CreateRetry, CancelRequest, RunStart, Start, Close, Crash, Exit
<1> QED
  BY <1>1, <1>2, <1>3, <1>4 DEF Next, vars, ReclaimLedgerLock, ReclaimWriterLock

(* A task is moved by its own steps, or by what happens to its connector.  *)
LEMMA TaskMoves ==
    ASSUME TypeInv, LedgerInv, [Next]_vars, NEW u \in Tasks
    PROVE  \/ Step(u)
           \/ pc'[u] = pc[u] /\ job'[u] = job[u] /\ want'[u] = want[u]
           \/ ~Failing(u)' /\ ~Publishing(u)'
<1>1. ASSUME NEW t \in Tasks, Step(t), t # u
      PROVE  pc'[u] = pc[u] /\ job'[u] = job[u] /\ want'[u] = want[u]
  BY <1>1, OthersRest
<1>2. ASSUME NEW c \in Connectors,
             \/ \E k \in Keys : CreateRequest(c, k) \/ CreateRetry(c, k)
             \/ \E j \in Jobs : CancelRequest(c, j)
             \/ RunStart(c) \/ Start(c) \/ Close(c) \/ Crash(c) \/ Exit(c)
      PROVE  \/ pc'[u] = pc[u] /\ job'[u] = job[u] /\ want'[u] = want[u]
             \/ ~Failing(u)' /\ ~Publishing(u)'
  BY <1>2, ConnectorTasks DEF Failing, Publishing
<1>3. CASE UNCHANGED vars \/ ReclaimLedgerLock \/ ReclaimWriterLock \/ OtherPublishes
  BY <1>3 DEF vars, locals, ReclaimLedgerLock, ReclaimWriterLock, OtherPublishes
<1> QED
  BY <1>1, <1>2, <1>3 DEF Next

(* A task comes to fail only by a lookup that found nothing. *)
LEMMA FailingStep ==
    ASSUME TypeInv, NEW t \in Tasks, Step(t), Failing(t)'
    PROVE  /\ UNCHANGED log /\ job'[t] = job[t]
           /\ Failing(t) \/ (Lookup(t) /\ pc'[t] = "lookupCancellation")
<1> USE DEF TypeInv, At, Goto, durable, process, locals, history
<1>0. pc'[t] \in {"lookupCancellation", "assert", "write"}
  BY DEF Failing
<1>1. CASE Create(t)
  BY <1>0, <1>1 DEF Create, CreateRaced, Admit, AdmitFull, PruneCancellation, PruneRecord,
     PruneAnchor, WriteAnchor, WriteRecord, Control
<1>2. CASE Claiming(t)
  <2>1. Claim(t) /\ UNCHANGED want
    BY <1>0, <1>2 DEF Claiming, Claim, Collide, InspectGone, InspectLive, InspectDead,
       QuarantineClaim, Release, NextAttempt, Leave, Control
  <2>2. pc'[t] = ClaimedPc(t) /\ t[2] \in Kinds /\ t[2] # "create"
    BY <2>1, TaskParts, KindOfPlace DEF Claim, Control, CreatePlaces
  <2>3. want[t] = "cancelled"
    BY <1>0, <2>2 DEF ClaimedPc, Kinds
  <2>4. pc'[t] # "lookupCancellation"
    BY <2>2 DEF ClaimedPc, Kinds
  <2> QED
    BY <2>1, <2>3, <2>4 DEF Failing
<1>3. CASE Run(t)
  <2>1. CASE RunRead(t) \/ Prepare(t) \/ CheckBeforePublication(t) \/ PublishLock(t)
             \/ PublishCompare(t) \/ PrePublishCheck(t) \/ PublishSwap(t) \/ Reconcile(t)
             \/ Transition(t)
    BY <1>0, <2>1 DEF RunRead, Prepare, CheckBeforePublication, PublishLock, PublishCompare,
       PrePublishCheck, PublishSwap, Reconcile, Transition, Throw, Control
  <2>2. CASE RunReadCancellation(t) \/ PublishUnlock(t)
    BY <2>2 DEF RunReadCancellation, PublishUnlock, TransitionTo, Throw, Control, Shape, Failing
  <2>3. CASE Lookup(t)
    <3>1. pc'[t] = "lookupCancellation" \/ want'[t] = "succeeded"
      BY <2>3 DEF Lookup, TransitionTo, Control, Shape
    <3>2. pc'[t] # "write"
      BY <2>3 DEF Lookup, TransitionTo, Control
    <3> QED
      BY <2>3, <3>1, <3>2 DEF Lookup, Failing
  <2>4. CASE LookupCancellation(t) \/ AssertClaimOwned(t)
    BY <2>4 DEF LookupCancellation, AssertClaimOwned, TransitionTo, Throw, Control, Failing
  <2> QED
    BY <1>3, <2>1, <2>2, <2>3, <2>4 DEF Run
<1>4. CASE Cancel(t)
  <2>1. CancelRefresh(t)
    BY <1>0, <1>4 DEF Cancel, CancelLock, CancelRead, CancelFind, CancelWrite, Control
  <2>2. t[2] = "cancel" /\ pc'[t] = "assert" /\ UNCHANGED want
    BY <1>0, <2>1, KindOfPlace DEF CancelRefresh, Control, CancelPlaces, RunPlaces, ClaimPlaces,
       SettlePlaces, ReconcilePlaces
  <2>3. want[t] = "cancelled"
    BY <2>1, <2>2 DEF CancelRefresh, Control, OnTrack
  <2> QED
    BY <2>2, <2>3 DEF Failing
<1>5. CASE Resume(t) \/ LedgerBusy(t)
  BY <1>0, <1>5 DEF Resume, ResumeList, ResumeNext, ResumeQueued, ResumeDone, LedgerBusy, Throw,
     Control
<1> QED
  BY <1>1, <1>2, <1>3, <1>4, <1>5 DEF Step

(* A task that goes on publishing writes no record, and one that begins to *)
(* has just recorded its job as running.                                   *)
LEMMA PublishingStep ==
    ASSUME TypeInv, NEW t \in Tasks, Step(t), Publishing(t)'
    PROVE  /\ job'[t] = job[t]
           /\ \/ Publishing(t) /\ UNCHANGED rec
              \/ job[t] \in Jobs /\ rec'[job[t]] = "running"
<1> USE DEF TypeInv, At, Goto, durable, process, locals, history
<1>0. pc'[t] \in {"prepare", "check", "lock", "compare", "prePublishCheck", "swap"}
  BY DEF Publishing
<1>1. CASE Create(t) \/ Resume(t) \/ LedgerBusy(t)
  BY <1>0, <1>1 DEF Create, CreateRaced, Admit, AdmitFull, PruneCancellation, PruneRecord,
     PruneAnchor, WriteAnchor, WriteRecord, Resume, ResumeList, ResumeNext, ResumeQueued,
     ResumeDone, LedgerBusy, Throw, Control
<1>2. CASE Claiming(t)
  <2>1. Claim(t)
    BY <1>0, <1>2 DEF Claiming, Claim, Collide, InspectGone, InspectLive, InspectDead,
       QuarantineClaim, Release, NextAttempt, Leave, Control
  <2>2. pc'[t] = ClaimedPc(t) /\ t[2] \in Kinds /\ t[2] # "create"
    BY <2>1, TaskParts, KindOfPlace DEF Claim, Control, CreatePlaces
  <2> QED
    BY <1>0, <2>2 DEF ClaimedPc, Kinds
<1>3. CASE Run(t)
  <2>1. CASE Transition(t)
    <3>1. want[t] = "running" /\ rec' = [rec EXCEPT ![job[t]] = want[t]] /\ UNCHANGED job
      BY <1>0, <2>1 DEF Transition, Throw, Control
    <3>2. job[t] \in Jobs
      BY <2>1 DEF Transition, Control, OnTrack, Jobless
    <3> QED
      BY <3>1, <3>2 DEF TypeOK
  <2>2. CASE ~Transition(t)
    BY <1>0, <1>3, <2>2 DEF Run, RunRead, RunReadCancellation, Prepare, CheckBeforePublication,
       PublishLock, PublishCompare, PrePublishCheck, PublishSwap, PublishUnlock, Reconcile,
       Lookup, LookupCancellation, AssertClaimOwned, Throw, TransitionTo, Control, Publishing
  <2> QED
    BY <2>1, <2>2
<1>4. CASE Cancel(t)
  BY <1>0, <1>4 DEF Cancel, CancelLock, CancelRead, CancelFind, CancelWrite, CancelRefresh, Control
<1> QED
  BY <1>1, <1>2, <1>3, <1>4 DEF Step

(* Every step of a lone connector keeps its failures true. *)
LEMMA FailureNext ==
    ASSUME Room, Alone, ~LookupMayFail, TypeInv, LedgerInv, RoomInv, ApartInv, FailureInv,
           [Next]_vars
    PROVE  FailureInv'
<1>0. \A t \in Tasks : Failing(t) \/ Publishing(t) => job[t] \in Jobs
  BY DEF TypeInv, Control, OnTrack, Failing, Publishing, Jobless
<1>1. ASSUME NEW j \in Jobs, rec'[j] = "failed", rec[j] # "failed"
      PROVE  \E t \in Tasks : Transition(t) /\ Failing(t) /\ pc[t] = "write" /\ job[t] = j
  BY <1>1, RecordsEvolve DEF RoomInv, Transition, At, Failing
<1>2. ASSUME NEW j \in Jobs, ~Published(j), Published(j)'
      PROVE  \E t \in Tasks : PublishSwap(t) /\ Publishing(t) /\ job[t] = j
  BY <1>2, PublishedEvolves DEF PublishSwap, At, Publishing
<1>3. ASSUME NEW j \in Jobs, rec'[j] = "failed" PROVE ~Published(j)'
  <2>1. CASE rec[j] = "failed"
    BY <1>2, <2>1 DEF FailureInv
  <2>2. CASE rec[j] # "failed"
    <3>1. PICK t \in Tasks : Transition(t) /\ Failing(t) /\ job[t] = j
      BY <1>1, <1>3, <2>2
    <3>2. ~Published(j) /\ UNCHANGED log
      BY <3>1 DEF FailureInv, Transition
    <3> QED
      BY <3>2 DEF Published
  <2> QED
    BY <2>1, <2>2
<1>4. ASSUME NEW t \in Tasks, Failing(t)' PROVE ~Published(job[t])'
  <2>1. CASE Step(t)
    <3>1. /\ UNCHANGED log /\ job'[t] = job[t]
          /\ Failing(t) \/ (Lookup(t) /\ pc'[t] = "lookupCancellation")
      BY <1>4, <2>1, FailingStep
    <3>2. ~Published(job[t])
      <4>1. CASE Failing(t)
        BY <4>1 DEF FailureInv
      <4>2. CASE Lookup(t) /\ pc'[t] = "lookupCancellation"
        <5>1. job[t] \in Jobs
          BY <4>2 DEF Lookup, At, TypeInv, Control, OnTrack, Jobless
        <5>2. ~FindPublishedMutation(job[t])
          BY <4>2 DEF Lookup, TransitionTo, Goto, TypeInv, Control
        <5> QED
          BY <5>1, <5>2, FoundIfPublished DEF RoomInv
      <4> QED
        BY <3>1, <4>1, <4>2
    <3> QED
      BY <3>1, <3>2 DEF Published
  <2>2. CASE pc'[t] = pc[t] /\ job'[t] = job[t] /\ want'[t] = want[t]
    <3>1. Failing(t) /\ ~Published(job[t]) /\ job[t] \in Jobs
      BY <1>0, <1>4, <2>2 DEF Failing, FailureInv
    <3>2. ASSUME Published(job[t])' PROVE FALSE
      <4>1. PICK u \in Tasks : Publishing(u) /\ job[u] = job[t]
        BY <1>2, <2>2, <3>1, <3>2 DEF Published
      <4>2. u # t
        BY <3>1, <4>1 DEF Failing, Publishing
      <4> QED
        BY <3>1, <4>1, <4>2, NotBoth
    <3> QED
      BY <3>2
  <2> QED
    BY <1>4, <2>1, <2>2, TaskMoves
<1>5. ASSUME NEW t \in Tasks, Publishing(t)' PROVE rec'[job'[t]] # "failed"
  <2>1. CASE Step(t)
    BY <1>5, <2>1, PublishingStep DEF FailureInv
  <2>2. CASE pc'[t] = pc[t] /\ job'[t] = job[t] /\ want'[t] = want[t]
    <3>1. Publishing(t) /\ rec[job[t]] # "failed" /\ job[t] \in Jobs
      BY <1>0, <1>5, <2>2 DEF Publishing, FailureInv
    <3>2. ASSUME rec'[job[t]] = "failed" PROVE FALSE
      <4>1. PICK u \in Tasks : Failing(u) /\ pc[u] = "write" /\ job[u] = job[t]
        BY <1>1, <3>1, <3>2
      <4>2. u # t
        BY <3>1, <4>1 DEF Publishing
      <4> QED
        BY <3>1, <4>1, <4>2, NotBoth
    <3> QED
      BY <2>2, <3>2
  <2> QED
    BY <1>5, <2>1, <2>2, TaskMoves
<1> QED
  BY <1>3, <1>4, <1>5 DEF FailureInv

(* Initially nothing has failed. *)
LEMMA FailureInit == Init => FailureInv
  BY DEF Init, FailureInv, Failing, Publishing

(* The outcome in a terminal record is what happened to the workspace, for *)
(* a connector that serves the workspace alone and whose lookup of a       *)
(* publication does not throw: whatever it cancels, however often it       *)
(* crashes between publishing a revision and recording it, and whoever     *)
(* else publishes.  Neither hypothesis can be dropped: of two connectors   *)
(* that inspect the claim of a dead process, the second to quarantine it   *)
(* may rename away the claim that the first has taken since, and then one  *)
(* publishes what the other records as failed; and a lookup that throws    *)
(* counts as "not published".                                              *)
THEOREM OutcomesExact ==
    ASSUME Room, Alone, ~LookupMayFail PROVE Spec => []OutcomeMatchesPublication
<1> DEFINE I == TypeInv /\ LedgerInv /\ RoomInv
           J == ApartInv /\ FailureInv
<1>1. Init => J
  BY ApartInit, FailureInit
<1>2. I /\ J /\ [Next]_vars => J'
  BY ApartNext, FailureNext
<1>3. I /\ J => OutcomeMatchesPublication
  BY DEF RoomInv, OutcomeInv, CancelledNeverPublishes, FailureInv, OutcomeMatchesPublication,
     Terminal
<1>4. Spec => []I
  BY RoomInvariant
<1> HIDE DEF I, J
<1> QED
  BY <1>1, <1>2, <1>3, <1>4, PTL DEF Spec
=============================================================================
