------------------------ MODULE WorkspaceLockProofs ------------------------
(***************************************************************************)
(* What the writer lock guarantees for every number of processes,          *)
(* acquisitions and crashes: mutual exclusion, no lost pointer update, a   *)
(* monotone fence and no lock left behind, as long as a live creator       *)
(* writes owner.json within the lease and no two processes are about to    *)
(* move a stale lock aside at once.  Two reclaimers are what the run       *)
(* lock_two_reclaimers needs for its counterexample; the last section says *)
(* where there never are two.                                              *)
(***************************************************************************)
EXTENDS WorkspaceLock, FiniteSetTheorems, TLAPS

(* The process is between its mkdir and its rm, dead or alive. *)
Inside(p) == pc[p] \in InitPcs \cup HeldPcs
Working(p) == alive[p] /\ Inside(p)
Unowned(p) == pc[p] \in {"readFence", "writeFence", "writeOwner"}
Fenced(p) == pc[p] \in {"writeOwner", "syncDir"} \cup HeldPcs
Based(p) == pc[p] \in {"commitOwner", "commitFence", "commit"}
Unpublished(p) == pc[p] \in {"writeFence", "writeOwner", "syncDir", "held"} \/ Based(p)

(* Between the inspection that found a stale lock and the rename of it. *)
Reclaiming(p) == alive[p] /\ pc[p] = "reclaim"
OneReclaimer == \A p, q \in Procs : Reclaiming(p) /\ Reclaiming(q) => p = q

(* The lock directory belongs to the one process that works under it, or   *)
(* to one that died there.                                                 *)
Exclusive ==
    /\ \A p, q \in Procs : Working(p) /\ Working(q) => p = q
    /\ \A p \in Procs : Working(p) => dir
    /\ dir => \E p \in Procs : Inside(p)
    /\ owner # None \/ expired => dir

(* A lock that was found stale still is, and nobody works under it; nobody *)
(* finds a foreign owner.json in its own directory.                        *)
StaleFound ==
    /\ \A p \in Procs : Reclaiming(p) => dir /\ expired /\ \A q \in Procs : ~Working(q)
    /\ \A p \in Procs : ~At(p, "cleanup")

(* Who is inside owns what is on disk, and a live owner is inside. *)
OwnerMatches ==
    /\ \A p \in Procs : Working(p) =>
        /\ Unowned(p) => owner = None
        /\ ~Unowned(p) => owner = OwnerRecord(p)
        /\ owner = None => ~expired
    /\ owner \in OwnerRecords /\ alive[owner.id[1]] => Inside(owner.id[1])

(* The token of whoever works is the fence, and newer than the pointer. *)
FenceMatches ==
    /\ current.seq <= fence
    /\ \A p \in Procs : alive[p] =>
        /\ pc[p] = "writeFence" => tok[p] = fence + 1
        /\ Fenced(p) => tok[p] = fence
        /\ Unpublished(p) => tok[p] > current.seq
        /\ Based(p) => base[p] = current

(* Nobody dies when nobody may. *)
NoDeaths == MaxCrashes = 0 => \A p \in Procs : alive[p]

(* A process in the acquisition loop still has an acquisition and an       *)
(* attempt to spend.                                                       *)
Budget ==
    \A p \in Procs : pc[p] \in {"mkdir", "inspect", "reclaim"} =>
        acq[p] < MaxAcq /\ attempt[p] < MaxAttempts

SafeInv == Exclusive /\ StaleFound /\ OwnerMatches /\ FenceMatches /\ NoDeaths
LockInv == TypeOK /\ Budget /\ SafeInv

-----------------------------------------------------------------------------
(* Type correctness, in every regime. *)

(* The initial state has its type. *)
LEMMA TypeInit == Init => TypeOK /\ Budget
<1> SUFFICES ASSUME Init PROVE TypeOK /\ Budget
  OBVIOUS
<1> USE LockAssumption DEF Init
<1>1. Genesis \in Revisions
  BY DEF Genesis, Revisions
<1>2. pc \in [Procs -> Pcs] /\ Budget
  BY DEF Pcs, Budget
<1>3. attempt \in [Procs -> 0..MaxAttempts]
  BY DEF MaxAttempts
<1>4. acq \in [Procs -> 0..MaxAcq] /\ tok \in [Procs -> Nat]
  OBVIOUS
<1>5. base \in [Procs -> Revisions] /\ current \in Revisions
  BY <1>1
<1> QED
  BY <1>2, <1>3, <1>4, <1>5 DEF TypeOK

(* Every step keeps the type and the bounds. *)
LEMMA TypeNext == TypeOK /\ Budget /\ [Next]_vars => TypeOK' /\ Budget'
<1> SUFFICES ASSUME TypeOK, Budget, [Next]_vars PROVE TypeOK' /\ Budget'
  OBVIOUS
<1> USE LockAssumption DEF MaxAttempts, Pcs, InitPcs, HeldPcs
<1>1. CASE UNCHANGED vars
  BY <1>1 DEF vars, TypeOK, Budget
<1>2. CASE LeaseExpires
  BY <1>2 DEF LeaseExpires, TypeOK, Budget
<1>3. ASSUME NEW p \in Procs, Start(p) \/ Progress(p) \/ Crash(p)
      PROVE TypeOK' /\ Budget'
  <2>1. CASE Start(p)
    BY <2>1 DEF Start, TypeOK, Budget, At, Goto, LockGone, lockVars
  <2>2. CASE MkdirCreates(p)
    <3>1. acq[p] < MaxAcq /\ attempt[p] < 3
      BY <2>2 DEF MkdirCreates, At, Budget
    <3>2. acq' \in [Procs -> 0..MaxAcq] /\ attempt' \in [Procs -> 0..MaxAttempts]
      BY <2>2, <3>1 DEF MkdirCreates, TypeOK
    <3>3. Budget'
      BY <2>2, <3>1 DEF MkdirCreates, TypeOK, Budget, At, Goto
    <3> QED
      BY <2>2, <3>2, <3>3 DEF MkdirCreates, TypeOK, At, Goto, LockGone
  <2>3. CASE MkdirExists(p)
    BY <2>3 DEF MkdirExists, TypeOK, Budget, At, Goto, LockGone, lockVars
  <2>4. CASE Inspect(p)
    BY <2>4 DEF Inspect, TypeOK, Budget, At, Goto, LockGone, lockVars
  <2>5. CASE Reclaim(p)
    <3>1. acq[p] < MaxAcq /\ attempt[p] < 3
      BY <2>5 DEF Reclaim, At, Budget
    <3>2. acq' \in [Procs -> 0..MaxAcq] /\ attempt' \in [Procs -> 0..MaxAttempts]
      BY <2>5, <3>1 DEF Reclaim, TypeOK
    <3>3. Budget'
      BY <2>5, <3>1 DEF Reclaim, TypeOK, Budget, At, Goto
    <3> QED
      BY <2>5, <3>2, <3>3 DEF Reclaim, TypeOK, At, Goto, LockGone
  <2>6. CASE ReadFence(p)
    BY <2>6 DEF ReadFence, TypeOK, Budget, At, Goto, LockGone, lockVars
  <2>7. CASE WriteFence(p)
    BY <2>7 DEF WriteFence, TypeOK, Budget, At, Goto, LockGone, lockVars
  <2>8. CASE WriteOwner(p)
    BY <2>8 DEF WriteOwner, OwnerRecord, OwnerId, OwnerRecords, OwnerIds, TypeOK, Budget, At, Goto, LockGone, lockVars
  <2>9. CASE OwnerExists(p)
    BY <2>9 DEF OwnerExists, TypeOK, Budget, At, Goto, LockGone, lockVars
  <2>10. CASE SyncLockDir(p)
    BY <2>10 DEF SyncLockDir, TypeOK, Budget, At, Goto, LockGone, lockVars
  <2>11. CASE Cleanup(p)
    BY <2>11 DEF Cleanup, TypeOK, Budget, At, Goto, LockGone, lockVars
  <2>12. CASE ReadCurrent(p)
    BY <2>12 DEF ReadCurrent, Revisions, TypeOK, Budget, At, Goto, LockGone, lockVars
  <2>13. CASE GiveUp(p)
    BY <2>13 DEF GiveUp, TypeOK, Budget, At, Goto, LockGone, lockVars
  <2>14. CASE CheckOwner(p)
    BY <2>14 DEF CheckOwner, TypeOK, Budget, At, Goto, LockGone, lockVars
  <2>15. CASE CheckFence(p)
    BY <2>15 DEF CheckFence, TypeOK, Budget, At, Goto, LockGone, lockVars
  <2>16. CASE Commit(p)
    BY <2>16 DEF Commit, OwnerId, OwnerIds, Revisions, TypeOK, Budget, At, Goto, LockGone, lockVars
  <2>17. CASE ReleaseOwner(p)
    BY <2>17 DEF ReleaseOwner, TypeOK, Budget, At, Goto, LockGone, lockVars
  <2>18. CASE ReleaseFence(p)
    BY <2>18 DEF ReleaseFence, TypeOK, Budget, At, Goto, LockGone, lockVars
  <2>19. CASE ReleaseRm(p)
    BY <2>19 DEF ReleaseRm, TypeOK, Budget, At, Goto, LockGone, lockVars
  <2>20. CASE Crash(p)
    BY <2>20 DEF Crash, TypeOK, Budget, At, Goto, LockGone, lockVars
  <2> QED
    BY <1>3, <2>1, <2>2, <2>3, <2>4, <2>5, <2>6, <2>7, <2>8, <2>9, <2>10, <2>11, <2>12, <2>13, <2>14, <2>15, <2>16, <2>17, <2>18, <2>19, <2>20 DEF Progress
<1> QED
  BY <1>1, <1>2, <1>3 DEF Next

(* Every reachable state of the lock protocol has the declared shape, and  *)
(* no loop overruns its bound, whatever crashes and stalls happen.         *)
THEOREM TypeCorrect == Spec => []TypeOK
<1>1. Init => TypeOK /\ Budget
  BY TypeInit
<1>2. TypeOK /\ Budget /\ [Next]_vars => (TypeOK /\ Budget)'
  BY TypeNext
<1> QED
  BY <1>1, <1>2, PTL DEF Spec

-----------------------------------------------------------------------------
(* Safety while owner records are written promptly and there are not two   *)
(* reclaimers at once.                                                     *)

(* The initial state satisfies the lock invariant. *)
LEMMA InvInit == Init => LockInv
<1> SUFFICES ASSUME Init PROVE SafeInv
  BY TypeInit DEF LockInv
<1> QED
  BY NullAssumption DEF Init, SafeInv, Exclusive, StaleFound, OwnerMatches, FenceMatches, NoDeaths,
     Working, Reclaiming, Inside, Unowned, Fenced, Based, Unpublished, At, InitPcs, HeldPcs, Genesis

(* With everybody alive a crash budget of zero is used up. *)
LEMMA NoCrash ==
    ASSUME MaxCrashes = 0, NoDeaths, NEW p \in Procs PROVE ~Crash(p)
<1>1. {q \in Procs : ~alive[q]} = {}
  BY DEF NoDeaths
<1> QED
  BY <1>1, FS_EmptySet DEF Crash

(* The owner record of a process names it. *)
LEMMA RecordNames ==
    ASSUME TypeOK, NEW p \in Procs
    PROVE  OwnerRecord(p) \in OwnerRecords /\ OwnerRecord(p).id[1] = p /\ OwnerRecord(p) # None
  BY NullAssumption DEF TypeOK, OwnerRecord, OwnerId, OwnerRecords, OwnerIds

(* A lock is never stale while somebody works under it: either there is an *)
(* owner record, and its owner lives, or the record is still to be written *)
(* and the lease has not run out.                                          *)
LEMMA StaleMeansNobody ==
    ASSUME TypeOK, SafeInv, NEW p \in Procs, Stale(p), NEW q \in Procs PROVE ~Working(q)
<1> SUFFICES ASSUME Working(q) PROVE FALSE
  OBVIOUS
<1>1. owner # None
  BY DEF SafeInv, OwnerMatches, Stale
<1>2. owner = OwnerRecord(q)
  BY <1>1 DEF SafeInv, OwnerMatches
<1> QED
  BY <1>2, RecordNames DEF Stale, Working

(* Every step keeps the lock invariant. *)
LEMMA InvNext ==
    ASSUME PromptOwners, OneReclaimer, LockInv, [Next]_vars PROVE LockInv'
<1>1. TypeOK' /\ Budget'
  BY TypeNext DEF LockInv
<1> USE LockAssumption, NullAssumption DEF LockInv, SafeInv, TypeOK, At, Goto, LockGone, lockVars,
      InitPcs, HeldPcs, Inside, Working, Reclaiming
<1>2. ASSUME UNCHANGED vars PROVE SafeInv'
  <2>1. Exclusive' /\ StaleFound' /\ NoDeaths'
    BY <1>2 DEF vars, Exclusive, StaleFound, NoDeaths
  <2>2. OwnerMatches'
    BY <1>2 DEF vars, OwnerMatches, Unowned, OwnerRecord, OwnerId
  <2>3. FenceMatches'
    BY <1>2 DEF vars, FenceMatches, Fenced, Based, Unpublished
  <2> QED
    BY <2>1, <2>2, <2>3
<1>3. ASSUME NEW p \in Procs, Start(p) PROVE SafeInv'
  BY <1>3, RecordNames DEF Start, Exclusive, StaleFound, OwnerMatches, FenceMatches, NoDeaths,
     Unowned, Fenced, Based, Unpublished, OwnerRecord, OwnerId, Revisions
<1>4. ASSUME NEW p \in Procs, MkdirCreates(p) PROVE SafeInv'
  BY <1>4, RecordNames DEF MkdirCreates, Exclusive, StaleFound, OwnerMatches, FenceMatches, NoDeaths,
     Unowned, Fenced, Based, Unpublished, OwnerRecord, OwnerId, Revisions
<1>5. ASSUME NEW p \in Procs, MkdirExists(p) PROVE SafeInv'
  BY <1>5, RecordNames DEF MkdirExists, Exclusive, StaleFound, OwnerMatches, FenceMatches, NoDeaths,
     Unowned, Fenced, Based, Unpublished, OwnerRecord, OwnerId, Revisions
<1>6. ASSUME NEW p \in Procs, Inspect(p) PROVE SafeInv'
  <2>1. StaleFound'
    <3>1. Stale(p) => dir /\ expired /\ \A q \in Procs : ~Working(q)
      BY StaleMeansNobody DEF Stale
    <3> QED
      BY <1>6, <3>1 DEF Inspect, StaleFound
  <2>2. Exclusive' /\ NoDeaths'
    BY <1>6 DEF Inspect, Exclusive, NoDeaths
  <2>3. OwnerMatches'
    BY <1>6 DEF Inspect, OwnerMatches, Unowned, OwnerRecord, OwnerId
  <2>4. FenceMatches'
    BY <1>6 DEF Inspect, FenceMatches, Fenced, Based, Unpublished
  <2> QED
    BY <2>1, <2>2, <2>3, <2>4
<1>7. ASSUME NEW p \in Procs, Reclaim(p) PROVE SafeInv'
  <2>1. StaleFound'
    BY <1>7 DEF Reclaim, StaleFound, OneReclaimer
  <2>2. Exclusive' /\ NoDeaths'
    BY <1>7 DEF Reclaim, Exclusive, StaleFound, NoDeaths
  <2>3. OwnerMatches'
    BY <1>7 DEF Reclaim, StaleFound, OwnerMatches, Unowned, OwnerRecord, OwnerId
  <2>4. FenceMatches'
    BY <1>7 DEF Reclaim, StaleFound, FenceMatches, Fenced, Based, Unpublished
  <2> QED
    BY <2>1, <2>2, <2>3, <2>4
<1>8. ASSUME NEW p \in Procs, ReadFence(p) PROVE SafeInv'
  BY <1>8, RecordNames DEF ReadFence, Exclusive, StaleFound, OwnerMatches, FenceMatches, NoDeaths,
     Unowned, Fenced, Based, Unpublished, OwnerRecord, OwnerId, Revisions
<1>9. ASSUME NEW p \in Procs, WriteFence(p) PROVE SafeInv'
  BY <1>9, RecordNames DEF WriteFence, Exclusive, StaleFound, OwnerMatches, FenceMatches, NoDeaths,
     Unowned, Fenced, Based, Unpublished, OwnerRecord, OwnerId, Revisions
<1>10. ASSUME NEW p \in Procs, WriteOwner(p) PROVE SafeInv'
  <2>1. Exclusive' /\ StaleFound' /\ NoDeaths'
    BY <1>10 DEF WriteOwner, Exclusive, StaleFound, NoDeaths
  <2>2. OwnerMatches'
    BY <1>10, RecordNames DEF WriteOwner, Exclusive, OwnerMatches, Unowned, OwnerRecord, OwnerId
  <2>3. FenceMatches'
    BY <1>10 DEF WriteOwner, Exclusive, FenceMatches, Fenced, Based, Unpublished
  <2> QED
    BY <2>1, <2>2, <2>3
<1>11. ASSUME NEW p \in Procs, OwnerExists(p) PROVE SafeInv'
  BY <1>11, RecordNames DEF OwnerExists, Exclusive, StaleFound, OwnerMatches, FenceMatches, NoDeaths,
     Unowned, Fenced, Based, Unpublished, OwnerRecord, OwnerId, Revisions
<1>12. ASSUME NEW p \in Procs, SyncLockDir(p) PROVE SafeInv'
  BY <1>12, RecordNames DEF SyncLockDir, Exclusive, StaleFound, OwnerMatches, FenceMatches, NoDeaths,
     Unowned, Fenced, Based, Unpublished, OwnerRecord, OwnerId, Revisions
<1>13. ASSUME NEW p \in Procs, Cleanup(p) PROVE SafeInv'
  BY <1>13, RecordNames DEF Cleanup, Exclusive, StaleFound, OwnerMatches, FenceMatches, NoDeaths,
     Unowned, Fenced, Based, Unpublished, OwnerRecord, OwnerId, Revisions
<1>14. ASSUME NEW p \in Procs, ReadCurrent(p) PROVE SafeInv'
  BY <1>14, RecordNames DEF ReadCurrent, Exclusive, StaleFound, OwnerMatches, FenceMatches, NoDeaths,
     Unowned, Fenced, Based, Unpublished, OwnerRecord, OwnerId, Revisions
<1>15. ASSUME NEW p \in Procs, GiveUp(p) PROVE SafeInv'
  BY <1>15, RecordNames DEF GiveUp, Exclusive, StaleFound, OwnerMatches, FenceMatches, NoDeaths,
     Unowned, Fenced, Based, Unpublished, OwnerRecord, OwnerId, Revisions
<1>16. ASSUME NEW p \in Procs, CheckOwner(p) PROVE SafeInv'
  BY <1>16, RecordNames DEF CheckOwner, Exclusive, StaleFound, OwnerMatches, FenceMatches, NoDeaths,
     Unowned, Fenced, Based, Unpublished, OwnerRecord, OwnerId, Revisions
<1>17. ASSUME NEW p \in Procs, CheckFence(p) PROVE SafeInv'
  BY <1>17, RecordNames DEF CheckFence, Exclusive, StaleFound, OwnerMatches, FenceMatches, NoDeaths,
     Unowned, Fenced, Based, Unpublished, OwnerRecord, OwnerId, Revisions
<1>18. ASSUME NEW p \in Procs, Commit(p) PROVE SafeInv'
  BY <1>18, RecordNames DEF Commit, Exclusive, StaleFound, OwnerMatches, FenceMatches, NoDeaths,
     Unowned, Fenced, Based, Unpublished, OwnerRecord, OwnerId, Revisions
<1>19. ASSUME NEW p \in Procs, ReleaseOwner(p) PROVE SafeInv'
  BY <1>19, RecordNames DEF ReleaseOwner, Exclusive, StaleFound, OwnerMatches, FenceMatches, NoDeaths,
     Unowned, Fenced, Based, Unpublished, OwnerRecord, OwnerId, Revisions
<1>20. ASSUME NEW p \in Procs, ReleaseFence(p) PROVE SafeInv'
  BY <1>20, RecordNames DEF ReleaseFence, Exclusive, StaleFound, OwnerMatches, FenceMatches, NoDeaths,
     Unowned, Fenced, Based, Unpublished, OwnerRecord, OwnerId, Revisions
<1>21. ASSUME NEW p \in Procs, ReleaseRm(p) PROVE SafeInv'
  BY <1>21, RecordNames DEF ReleaseRm, Exclusive, StaleFound, OwnerMatches, FenceMatches, NoDeaths,
     Unowned, Fenced, Based, Unpublished, OwnerRecord, OwnerId, Revisions
<1>22. ASSUME NEW p \in Procs, Crash(p) PROVE SafeInv'
  <2>1. Exclusive' /\ StaleFound'
    BY <1>22 DEF Crash, Exclusive, StaleFound
  <2>2. OwnerMatches'
    BY <1>22 DEF Crash, Exclusive, OwnerMatches, Unowned, OwnerRecord, OwnerId
  <2>3. FenceMatches'
    BY <1>22 DEF Crash, FenceMatches, Fenced, Based, Unpublished
  <2>4. NoDeaths'
    BY <1>22, NoCrash DEF NoDeaths
  <2> QED
    BY <2>1, <2>2, <2>3, <2>4
<1>23. ASSUME LeaseExpires PROVE SafeInv'
  <2>1. Exclusive' /\ StaleFound' /\ NoDeaths'
    BY <1>23 DEF LeaseExpires, Exclusive, StaleFound, NoDeaths
  <2>2. OwnerMatches'
    BY <1>23, RecordNames DEF LeaseExpires, OwnerMatches, Unowned, OwnerRecord, OwnerId
  <2>3. FenceMatches'
    BY <1>23 DEF LeaseExpires, FenceMatches, Fenced, Based, Unpublished
  <2> QED
    BY <2>1, <2>2, <2>3
<1> QED
  BY <1>1, <1>2, <1>3, <1>4, <1>5, <1>6, <1>7, <1>8, <1>9, <1>10, <1>11, <1>12, <1>13, <1>14,
     <1>15, <1>16, <1>17, <1>18, <1>19, <1>20, <1>21, <1>22, <1>23 DEF Next, Progress

(* The lock invariant holds in every state of a behaviour in which no two  *)
(* processes are ever about to reclaim at once.                            *)
LEMMA Inductive ==
    ASSUME PromptOwners PROVE Spec /\ []OneReclaimer => []LockInv
<1>1. LockInv /\ OneReclaimer /\ [Next]_vars => LockInv'
  BY InvNext
<1> QED
  BY InvInit, <1>1, PTL DEF Spec

(* However many processes contend and die, acquireWorkspaceLock admits one *)
(* live writer at a time, as long as owner records are prompt and nobody   *)
(* reclaims a stale lock while another process is about to.                *)
THEOREM Exclusion ==
    ASSUME PromptOwners PROVE Spec /\ []OneReclaimer => []MutualExclusion
<1>1. LockInv => MutualExclusion
  BY DEF LockInv, SafeInv, Exclusive, Working, Inside, MutualExclusion, Holding
<1> QED
  BY Inductive, <1>1, PTL

(* Under the same conditions the pointer swap never drops a committed      *)
(* revision, and the sequence grows with every publication.                *)
THEOREM UpdatesKept ==
    ASSUME PromptOwners PROVE Spec /\ []OneReclaimer => NoLostUpdate
<1>1. LockInv /\ [Next]_vars =>
        [current' # current => current'.parent = current.id /\ current'.seq > current.seq]_vars
  <2> SUFFICES ASSUME LockInv, [Next]_vars, current' # current
               PROVE current'.parent = current.id /\ current'.seq > current.seq
    OBVIOUS
  <2>1. PICK p \in Procs : Commit(p)
    BY DEF Next, vars, Start, Progress, MkdirCreates, MkdirExists, Inspect, Reclaim, ReadFence,
      WriteFence, WriteOwner, OwnerExists, SyncLockDir, Cleanup, ReadCurrent, GiveUp, CheckOwner,
      CheckFence, ReleaseOwner, ReleaseFence, ReleaseRm, Crash, LeaseExpires
  <2> QED
    BY <2>1 DEF Commit, At, LockInv, SafeInv, FenceMatches, Unpublished, Based
<1> QED
  BY Inductive, <1>1, PTL DEF Spec, NoLostUpdate

(* Under the same conditions a writer that has returned never leaves a     *)
(* lock behind that names it as the live owner.                            *)
THEOREM LocksReturned ==
    ASSUME PromptOwners PROVE Spec /\ []OneReclaimer => []NoOrphanedLiveLock
<1>1. LockInv => NoOrphanedLiveLock
  <2> SUFFICES ASSUME LockInv, \A p \in Procs : alive[p] => pc[p] = "idle",
                      owner \in OwnerRecords, alive[owner.id[1]]
               PROVE  FALSE
    BY DEF NoOrphanedLiveLock
  <2>1. owner.id[1] \in Procs
    BY DEF OwnerRecords, OwnerIds
  <2> QED
    BY <2>1 DEF LockInv, SafeInv, OwnerMatches, Inside, InitPcs, HeldPcs
<1> QED
  BY Inductive, <1>1, PTL

(* Under the same conditions the fence file never goes back.               *)
THEOREM FenceGrows ==
    ASSUME PromptOwners PROVE Spec /\ []OneReclaimer => FenceMonotone
<1>1. LockInv /\ [Next]_vars => [fence' >= fence]_vars
  <2> SUFFICES ASSUME LockInv, [Next]_vars, fence' # fence PROVE fence' >= fence
    BY DEF LockInv, TypeOK
  <2>1. PICK p \in Procs : WriteFence(p)
    BY DEF Next, vars, Start, Progress, MkdirCreates, MkdirExists, Inspect, Reclaim, ReadFence,
      WriteOwner, OwnerExists, SyncLockDir, Cleanup, ReadCurrent, GiveUp, CheckOwner,
      CheckFence, Commit, ReleaseOwner, ReleaseFence, ReleaseRm, Crash, LeaseExpires
  <2> QED
    BY <2>1 DEF WriteFence, At, LockInv, SafeInv, FenceMatches, TypeOK
<1> QED
  BY Inductive, <1>1, PTL DEF Spec, FenceMonotone
-----------------------------------------------------------------------------
(* Refinement of the one-writer register. *)

Writing == {p \in Procs : Holding(p)}

(* How the set of writers changes when one process goes to another place.  *)
LEMMA WritersFollow ==
  ASSUME TypeOK, NEW p \in Procs, NEW l \in Pcs, Goto(p, l), alive[p], UNCHANGED alive
  PROVE  /\ pc[p] \in HeldPcs /\ l \in HeldPcs => Writing' = Writing
         /\ pc[p] \notin HeldPcs /\ l \notin HeldPcs => Writing' = Writing
         /\ pc[p] \notin HeldPcs /\ l \in HeldPcs => Writing' = Writing \cup {p}
         /\ pc[p] \in HeldPcs /\ l \notin HeldPcs => Writing' = Writing \ {p}
<1>1. \A q \in Procs : pc'[q] = IF q = p THEN l ELSE pc[q]
  BY DEF Goto, TypeOK
<1>2. \A q \in Procs : alive'[q] = alive[q]
  OBVIOUS
<1> QED
  BY <1>1, <1>2 DEF Writing, Holding

(* Who works between mkdir and rm is the only one, and so the only writer. *)
LEMMA OnlyWriter ==
  ASSUME LockInv, NEW p \in Procs, Working(p)
  PROVE  Writing \subseteq {p} /\ (pc[p] \in HeldPcs => Writing = {p})
BY DEF LockInv, SafeInv, Exclusive, Working, Inside, Writing, Holding

(* Every step is a step of the one-writer register, or leaves it alone. *)
LEMMA RegisterStep ==
  ASSUME PromptOwners, LockInv, [Next]_vars
  PROVE  [Register!Next]_<<Writing, current>>
<1> USE DEF Pcs, InitPcs, HeldPcs
<1>0. TypeOK
  BY DEF LockInv
<1>1. CASE UNCHANGED vars
  BY <1>1 DEF vars, Writing, Holding
<1>2. CASE LeaseExpires
  BY <1>2 DEF LeaseExpires, Writing, Holding
<1>3. ASSUME NEW p \in Procs, Crash(p) PROVE Register!Leave(p) \/ UNCHANGED <<Writing, current>>
  <2>1. Writing' = Writing \ {p} /\ UNCHANGED current
    BY <1>0, <1>3 DEF Crash, Writing, Holding, TypeOK
  <2>2. CASE p \in Writing
    <3>1. Writing = {p}
      BY <2>2, OnlyWriter DEF Working, Inside, Writing, Holding
    <3> QED
      BY <2>1, <3>1 DEF Register!Leave, Writing
  <2>3. CASE p \notin Writing
    BY <2>1, <2>3
  <2> QED
    BY <2>2, <2>3
<1>4. ASSUME NEW p \in Procs,
             Start(p) \/ MkdirCreates(p) \/ MkdirExists(p) \/ Inspect(p) \/ Reclaim(p) \/ ReadFence(p)
               \/ WriteFence(p) \/ WriteOwner(p) \/ OwnerExists(p) \/ Cleanup(p)
      PROVE  UNCHANGED <<Writing, current>>
  <2>1. PICK l \in Pcs \ HeldPcs : Goto(p, l)
    BY <1>4 DEF Start, MkdirCreates, MkdirExists, Inspect, Reclaim, ReadFence, WriteFence,
      WriteOwner, OwnerExists, Cleanup
  <2>2. alive[p] /\ pc[p] \notin HeldPcs /\ UNCHANGED <<alive, current>>
    BY <1>4 DEF Start, MkdirCreates, MkdirExists, Inspect, Reclaim, ReadFence, WriteFence,
      WriteOwner, OwnerExists, Cleanup, At
  <2> QED
    BY <1>0, <2>1, <2>2, WritersFollow
<1>5. ASSUME NEW p \in Procs, SyncLockDir(p) PROVE Register!Enter(p) \/ UNCHANGED <<Writing, current>>
  <2>1. PICK l \in {"held", "cleanup"} : Goto(p, l)
    BY <1>5 DEF SyncLockDir
  <2>2. alive[p] /\ pc[p] = "syncDir" /\ UNCHANGED <<alive, current>>
    BY <1>5 DEF SyncLockDir, At
  <2>3. Writing = {}
    BY <2>2, OnlyWriter DEF Working, Inside, Writing, Holding
  <2>4. CASE l = "held"
    <3>1. Writing' = {p}
      BY <1>0, <2>1, <2>2, <2>3, <2>4, WritersFollow
    <3> QED
      BY <2>2, <2>3, <3>1 DEF Register!Enter, Writing
  <2>5. CASE l = "cleanup"
    BY <1>0, <2>1, <2>2, <2>5, WritersFollow
  <2> QED
    BY <2>4, <2>5
<1>6. ASSUME NEW p \in Procs, ReadCurrent(p) \/ GiveUp(p) \/ CheckOwner(p) \/ CheckFence(p)
      PROVE  UNCHANGED <<Writing, current>>
  <2>1. PICK l \in HeldPcs : Goto(p, l)
    BY <1>6 DEF ReadCurrent, GiveUp, CheckOwner, CheckFence
  <2>2. alive[p] /\ pc[p] \in HeldPcs /\ UNCHANGED <<alive, current>>
    BY <1>6 DEF ReadCurrent, GiveUp, CheckOwner, CheckFence, At
  <2> QED
    BY <1>0, <2>1, <2>2, WritersFollow
<1>7. ASSUME NEW p \in Procs, Commit(p) PROVE Register!Write(p)
  <2>1. Goto(p, "releaseOwner") /\ alive[p] /\ pc[p] = "commit" /\ UNCHANGED alive
    BY <1>7 DEF Commit, At
  <2>2. Writing' = Writing /\ Writing = {p}
    BY <1>0, <2>1, WritersFollow, OnlyWriter DEF Working, Inside
  <2>3. current'.parent = current.id /\ current'.seq > current.seq
    BY <1>7 DEF Commit, At, LockInv, SafeInv, FenceMatches, Unpublished, Based
  <2>4. current' \in Revisions
    BY <1>0, <1>7, TypeNext DEF LockInv, TypeOK
  <2> QED
    BY <2>2, <2>3, <2>4 DEF Register!Write, Writing
<1>8. ASSUME NEW p \in Procs, ReleaseOwner(p) \/ ReleaseFence(p) \/ ReleaseRm(p)
      PROVE  Register!Leave(p) \/ UNCHANGED <<Writing, current>>
  <2>1. PICK l \in HeldPcs \cup {"idle"} : Goto(p, l)
    BY <1>8 DEF ReleaseOwner, ReleaseFence, ReleaseRm
  <2>2. alive[p] /\ pc[p] \in HeldPcs /\ UNCHANGED <<alive, current>>
    BY <1>8 DEF ReleaseOwner, ReleaseFence, ReleaseRm, At
  <2>3. Writing = {p}
    BY <2>2, OnlyWriter DEF Working, Inside
  <2>4. CASE l = "idle"
    <3>1. Writing' = {}
      BY <1>0, <2>1, <2>2, <2>3, <2>4, WritersFollow
    <3> QED
      BY <2>2, <2>3, <3>1 DEF Register!Leave, Writing
  <2>5. CASE l # "idle"
    BY <1>0, <2>1, <2>2, <2>5, WritersFollow
  <2> QED
    BY <2>4, <2>5
<1> QED
  BY <1>1, <1>2, <1>3, <1>4, <1>5, <1>6, <1>7, <1>8 DEF Next, Progress, Register!Next

(* Under the same conditions lock.ts and the pointer swap implement the    *)
(* register that withMutationLock promises, crashes included: a writer     *)
(* that dies has left.                                                     *)
THEOREM LockImplementsRegister ==
  ASSUME PromptOwners PROVE Spec /\ []OneReclaimer => ImplementsRegister
<1>1. Init => Register!Init
  BY DEF Init, Register!Init, Holding, HeldPcs, Genesis
<1>2. LockInv /\ [Next]_vars => [Register!Next]_<<Writing, current>>
  BY RegisterStep
<1> QED
  BY Inductive, <1>1, <1>2, PTL DEF Spec, ImplementsRegister, Register!Spec, Writing

-----------------------------------------------------------------------------
(* Where there never are two reclaimers. *)

(* Nobody may die, or only two processes use the workspace.                *)
Pair == \A p, q, r \in Procs : p = q \/ q = r \/ p = r
Calm == PromptOwners /\ (MaxCrashes = 0 \/ Pair)

(* A stale lock is that of a dead process.                                 *)
LEMMA StaleOfTheDead ==
    ASSUME LockInv, NEW p \in Procs, Reclaiming(p)
    PROVE  \E q \in Procs : ~alive[q]
  BY DEF LockInv, SafeInv, Exclusive, StaleFound, Working, Inside

(* So of two processes at most one is left to reclaim it. *)
LEMMA CalmMeansOne ==
    ASSUME Calm, LockInv PROVE OneReclaimer
<1> SUFFICES ASSUME NEW p \in Procs, NEW q \in Procs, Reclaiming(p), Reclaiming(q)
             PROVE  p = q
  BY DEF OneReclaimer
<1>1. PICK r \in Procs : ~alive[r]
  BY StaleOfTheDead
<1>2. MaxCrashes # 0
  BY <1>1 DEF LockInv, SafeInv, NoDeaths
<1>3. r # p /\ r # q
  BY <1>1 DEF Reclaiming
<1> QED
  BY <1>2, <1>3 DEF Calm, Pair

(* Two writers, any number of times and with any crashes, or any number of *)
(* writers of which none dies, never reclaim at the same time: the         *)
(* condition of the theorems above holds of itself there.                  *)
THEOREM ReclaimersAlone ==
    ASSUME Calm PROVE Spec => []OneReclaimer
<1>1. LockInv => OneReclaimer
  BY CalmMeansOne
<1>2. LockInv /\ [Next]_vars => LockInv'
  BY InvNext, CalmMeansOne DEF Calm
<1> QED
  BY InvInit, <1>1, <1>2, PTL DEF Spec

(* So there the lock keeps all of its promises without a condition on the  *)
(* behaviour: one writer at a time, no lost update, a fence that never     *)
(* goes back, no lock left behind, and the one-writer register.            *)
THEOREM CalmLockIsSafe ==
    ASSUME Calm
    PROVE  Spec => /\ []MutualExclusion /\ []NoOrphanedLiveLock
                   /\ NoLostUpdate /\ FenceMonotone /\ ImplementsRegister
<1>1. PromptOwners
  BY DEF Calm
<1>2. Spec /\ []OneReclaimer => []MutualExclusion
  BY <1>1, Exclusion
<1>3. Spec /\ []OneReclaimer => []NoOrphanedLiveLock
  BY <1>1, LocksReturned
<1>4. Spec /\ []OneReclaimer => NoLostUpdate
  BY <1>1, UpdatesKept
<1>5. Spec /\ []OneReclaimer => FenceMonotone
  BY <1>1, FenceGrows
<1>6. Spec /\ []OneReclaimer => ImplementsRegister
  BY <1>1, LockImplementsRegister
<1> QED
  BY ReclaimersAlone, <1>2, <1>3, <1>4, <1>5, <1>6, PTL
=============================================================================
