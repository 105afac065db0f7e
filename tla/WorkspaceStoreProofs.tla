------------------------ MODULE WorkspaceStoreProofs ------------------------
(***************************************************************************)
(* What the revisioned workspace state guarantees for every set of         *)
(* contents and any number of revisions, crashes, corruptions, edits and   *)
(* reads.                                                                  *)
(***************************************************************************)
EXTENDS WorkspaceStore, WellFoundedInduction, TLAPS

HolderPcs == {"idle", "preflight", "mutate", "check", "build", "manifest", "verify", "marker",
              "swap", "oldHistory", "lkg", "newHistory", "repair", "quarantine", "release"}
ReaderPcs == {"idle", "validate", "approval", "legacy", "served"}

(* The type invariant in parts.                                            *)
Revisions == [st : RevStates, parent : 0..MaxFence, content : Contents \cup {None},
              op : Ops, field : Fields \cup {"none"}, edited : BOOLEAN]
RevType == revs \in [RevIds -> Revisions]
PointerType ==
    /\ fence \in 0..MaxFence /\ marker \in 0..MaxFence /\ cur \in 0..MaxFence /\ lkg \in 0..MaxFence
    /\ hist \in [RevIds -> {"absent", "torn", "ok"}]
    /\ everLkg \subseteq RevIds
Holders == [pc : HolderPcs, op : Ops, rev : 0..MaxFence, base : 0..MaxFence,
            content : Contents \cup {None}, approval : Approvals,
            field : Fields \cup {"none"}, edited : BOOLEAN]
HolderType == w \in Holders /\ legacy \in Contents
PlanType == plan = NoPlan \/ (plan.exp \in RevIds /\ plan.content \in Inputs)
ReaderType == rd \in [pc : ReaderPcs, cur : 0..MaxFence, sel : 0..MaxFence]
StoreType == RevType /\ PointerType /\ HolderType /\ PlanType /\ ReaderType

(* The holder before its revision is there, while it is not yet current,   *)
(* and afterwards.                                                         *)
Early == {"preflight", "mutate", "check", "build"}
Pending == {"build", "manifest", "verify", "marker", "swap"}
Built == {"verify", "marker", "swap", "oldHistory", "lkg", "newHistory", "repair", "quarantine"}
Swapped == {"oldHistory", "lkg", "newHistory", "repair", "quarantine"}

Settled(r) == revs[r].st \in Published \cup {"quarantined"}

(* A revision is what its manifest says, once it has one. *)
RevisionInv ==
    \A r \in RevIds :
        /\ r > fence => revs[r].st = "absent"
        /\ Settled(r) => revs[r].content \in Contents
        /\ revs[r].op = "cli" =>
              Settled(r) /\ revs[r].parent \in RevIds /\ Settled(revs[r].parent)

(* Fencing tokens order the revisions: marker, last-known-good, current.   *)
OrderInv ==
    /\ cur <= fence /\ lkg <= cur /\ marker <= fence
    /\ cur # 0 => marker # 0 /\ marker <= cur
    /\ lkg # 0 => marker <= lkg /\ lkg \in everLkg
    /\ \A r \in everLkg : r <= lkg /\ Settled(r)
    /\ marker # 0 => revs[marker].parent = 0 /\ revs[marker].op = "migrate"

(* What the pointers reach is complete. *)
ReachInv ==
    /\ marker # 0 => revs[marker].st \in Published
    /\ \A r \in Ancestors(cur) \cup Ancestors(lkg) : revs[r].st \in Published

(* The holder's work: what it has made of its revision, and how the        *)
(* pointers stand to it.                                                   *)
WorkInv ==
    /\ w.pc # "idle" => w.op # "none" /\ w.rev \in 1..fence
    /\ w.pc \in Early => revs[w.rev].st = "absent" /\ w.rev = fence
    /\ w.pc \in {"preflight", "mutate"} => w.op \in {"cli", "migrate"} /\ w.field = "none"
    /\ w.pc \in {"preflight", "mutate", "check"} => w.base = 0
    /\ w.pc = "manifest" => revs[w.rev].st = "partial" /\ w.rev = fence
    /\ w.pc \in Built => revs[w.rev].st \in Published /\ Content(w.rev) = w.content
    /\ w.pc \in Pending \cup Swapped => w.content \in Contents
    /\ w.pc \in {"verify", "marker", "swap"} =>
          /\ revs[w.rev].parent = IF w.op = "recover" THEN lkg ELSE w.base
          /\ revs[w.rev].op = w.op
PointerInv ==
    /\ w.pc \in Pending => cur < w.rev /\ w.op # "repair"
    /\ w.pc \in Pending /\ w.op = "migrate" =>
          /\ cur = 0 /\ w.base = 0
          /\ IF w.pc = "swap" THEN marker = w.rev ELSE marker = 0
    /\ w.pc \in Pending /\ w.op # "migrate" => cur # 0 /\ w.base = cur /\ Settled(cur)
    /\ w.pc = "marker" => w.op = "migrate"
    /\ w.pc \in Swapped => cur = w.rev
    /\ w.pc = "oldHistory" => lkg < w.rev
    /\ w.pc = "lkg" => lkg < w.rev /\ (lkg # 0 => hist[lkg] = "ok")
    /\ w.pc = "newHistory" => lkg = w.rev
    /\ w.pc = "quarantine" => w.op = "recover"

(* A recovery leaves a damaged revision behind that nothing refers to. *)
RecoveryInv ==
    w.op = "recover" =>
        /\ w.pc \in Pending => /\ revs[cur].st = "derived" /\ lkg # 0 /\ lkg < cur
                               /\ Digests(w.content) = Digests(Content(cur))
                               /\ w.content = Content(lkg)
        /\ w.pc \in Swapped => /\ revs[w.rev].parent < w.base /\ w.base < w.rev
                               /\ marker < w.base /\ w.base \notin everLkg /\ Settled(w.base)
                               /\ (lkg = w.rev \/ lkg < w.base)

(* Where an approval comes from. *)
ApprovalInv ==
    /\ w.op = "recover" <=> w.approval = "recovery"
    /\ w.approval = "carry" => w.op \in {"cli", "prepared"}
    /\ w.approval = "carry" /\ w.pc \in {"build", "manifest", "verify"} => w.base \in everLkg
    /\ w.approval # "none" /\ w.pc \in {"marker", "swap", "oldHistory", "lkg"} =>
          /\ Eligible(w.content)
          /\ w.approval # "explicit" => Safety(w.content) \in blessed
    /\ w.pc \in {"oldHistory", "lkg"} => w.approval # "none"

(* A command publishes over what it found. *)
CommandInv ==
    w.op = "cli" /\ ~w.edited =>
        /\ w.pc \in {"mutate", "check"} =>
              /\ cur # 0
              /\ \A f \in {"canon", "notes"} : f # w.field => legacy[f] = Content(cur)[f]
        /\ w.pc \in {"build", "manifest"} =>
              \A f \in {"canon", "notes"} : f # w.field => w.content[f] = Content(w.base)[f]

(* The routing reader. *)
ReaderInv ==
    /\ rd.pc # "idle" => rd.cur # 0 /\ Settled(rd.cur)
    /\ rd.pc \in {"approval", "legacy", "served"} => rd.sel # 0
    /\ rd.pc \in {"legacy", "served"} =>
          /\ rd.sel \in everLkg
          /\ Digests(Content(rd.sel)) = Digests(Content(rd.cur))
    /\ rd.pc = "served" => Eligible(Content(rd.sel))

DiskInv == RevisionInv /\ OrderInv /\ ReachInv
HoldInv == WorkInv /\ PointerInv /\ RecoveryInv /\ ApprovalInv /\ CommandInv
PastInv == ApprovalProvenance /\ ApprovalsRemembered /\ ReceiptsEarned /\ CommandsPublishOwnChange
StoreInv == StoreType /\ DiskInv /\ HoldInv /\ PastInv /\ ReaderInv

-----------------------------------------------------------------------------
(* The chain of parents.  Induction over the revision ids is had from the  *)
(* well-foundedness of < : a set of naturals has a least element.          *)
LEMMA LeastElement ==
    ASSUME NEW T \in SUBSET Nat, T # {} PROVE \E x \in T : \A y \in T : x <= y
<1> DEFINE R == OpToRel(<, Nat)
<1>1. IsWellFoundedOn(R, Nat)
  BY NatLessThanWellFounded
<1>2. \A x, y \in Nat : y < x => <<y, x>> \in R
  BY DEF OpToRel
<1> HIDE DEF R
<1>3. PICK x \in T : \A y \in T : ~ (<<y, x>> \in R)
  BY <1>1, WFMin
<1>4. ASSUME NEW y \in T PROVE x <= y
  <2>1. x \in Nat /\ y \in Nat
    OBVIOUS
  <2>2. ~(y < x)
    BY <1>2, <1>3, <2>1, Zenon
  <2> QED
    BY <2>1, <2>2
<1> QED
  BY <1>4

(* One step of the walk from n, when g gives the chains below n. *)
Walk(g, n) == IF n = 0 THEN {} ELSE {n} \cup (IF revs[n].parent < n THEN g[revs[n].parent] ELSE {})

(* The walk ends for every n: the recursion defines a function. *)
LEMMA ChainWalks ==
    ASSUME RevType
    PROVE  \A n \in 0..MaxFence : Chain[n] = Walk(Chain, n) /\ Chain[n] \subseteq 1..n
<1> DEFINE Good(g, k) == /\ g \in [0..k -> SUBSET RevIds]
                         /\ \A n \in 0..k : g[n] = Walk(g, n) /\ g[n] \subseteq 1..n
           T == {k \in 0..MaxFence : ~ \E g : Good(g, k)}
<1>0. MaxFence \in Nat /\ \A n \in RevIds : revs[n].parent \in 0..MaxFence
  BY StoreAssumption DEF RevType, Revisions
<1>1. ASSUME NEW k \in 0..MaxFence, k # 0, NEW g, Good(g, k - 1) PROVE \E h : Good(h, k)
  <2> DEFINE h == [n \in 0..k |-> IF n = k THEN Walk(g, k) ELSE g[n]]
  <2>1. k \in RevIds /\ 0..k = (0..(k - 1)) \cup {k} /\ k \notin 0..(k - 1)
    BY <1>0, <1>1 DEF RevIds
  <2>2. Walk(g, k) \subseteq 1..k /\ 1..k \subseteq RevIds
    BY <1>0, <1>1, <2>1 DEF RevIds, Walk
  <2>3. h \in [0..k -> SUBSET RevIds]
    BY <1>0, <1>1, <2>1, <2>2
  <2>4. ASSUME NEW n \in 0..k PROVE Walk(h, n) = Walk(g, n)
    <3>1. n # 0 /\ revs[n].parent < n => h[revs[n].parent] = g[revs[n].parent]
      BY <1>0, <2>1 DEF RevIds
    <3> QED
      BY <3>1 DEF Walk
  <2>5. ASSUME NEW n \in 0..k PROVE h[n] = Walk(h, n) /\ h[n] \subseteq 1..n
    BY <1>1, <2>1, <2>2, <2>4
  <2> QED
    BY <2>3, <2>5
<1>2. \E g : Good(g, 0)
  <2> DEFINE h == [n \in 0..0 |-> {}]
  <2>1. Good(h, 0)
    BY DEF Walk
  <2> QED
    BY <2>1
<1> HIDE DEF Good
<1>3. T = {}
  <2> SUFFICES ASSUME T # {} PROVE FALSE
    OBVIOUS
  <2>1. T \in SUBSET Nat
    BY <1>0
  <2>2. PICK k \in T : \A j \in T : k <= j
    BY <2>1, LeastElement
  <2>3. k # 0
    BY <1>2
  <2>4. k \in 0..MaxFence /\ ~ \E g : Good(g, k)
    BY <2>2
  <2>5. k - 1 \in 0..MaxFence /\ k - 1 \notin T
    <3>1. k \in Nat /\ k - 1 \in 0..MaxFence /\ ~(k <= k - 1)
      BY <1>0, <2>3, <2>4
    <3> HIDE DEF T
    <3> QED
      BY <2>2, <3>1
  <2>6. \E g : Good(g, k - 1)
    BY <2>5
  <2> QED
    BY <1>1, <2>3, <2>4, <2>6
<1>4. PICK g : Good(g, MaxFence)
  BY <1>0, <1>3
<1>5. g = [n \in 0..MaxFence |-> Walk(g, n)]
  BY <1>4 DEF Good
<1>6. Chain = [n \in 0..MaxFence |-> Walk(Chain, n)]
  <2>1. \E f : f = [n \in 0..MaxFence |->
                      IF n = 0 THEN {}
                      ELSE {n} \cup (IF revs[n].parent < n THEN f[revs[n].parent] ELSE {})]
    BY <1>5 DEF Walk
  <2> QED
    BY <2>1, Zenon DEF Chain, Walk
<1>7. \A n \in 0..MaxFence : Chain[n] = Walk(Chain, n)
  BY <1>6
<1> DEFINE U == {n \in 0..MaxFence : ~(Chain[n] \subseteq 1..n)}
<1>8. U = {}
  <2> SUFFICES ASSUME U # {} PROVE FALSE
    OBVIOUS
  <2>1. U \in SUBSET Nat
    BY <1>0
  <2>2. PICK k \in U : \A j \in U : k <= j
    BY <2>1, LeastElement
  <2>3. k # 0
    BY <1>7, <2>2 DEF Walk
  <2>4. revs[k].parent < k => Chain[revs[k].parent] \subseteq 1..revs[k].parent
    BY <1>0, <2>2, <2>3 DEF RevIds
  <2>5. Walk(Chain, k) \subseteq 1..k
    BY <1>0, <2>3, <2>4 DEF Walk, RevIds
  <2> QED
    BY <1>7, <2>2, <2>5
<1> QED
  BY <1>7, <1>8

(* The ancestors of a revision obey the recursive definition, and are no   *)
(* larger than it.                                                         *)
LEMMA ChainRule ==
    RevType => \A n \in 0..MaxFence : Chain[n] = Walk(Chain, n) /\ Chain[n] \subseteq 1..n
  BY ChainWalks

(* The same of the next state. *)
LEMMA ChainRuleNext ==
    RevType' => \A n \in 0..MaxFence : Chain'[n] = Walk(Chain, n)' /\ Chain'[n] \subseteq 1..n
<1>1. (RevType => \A n \in 0..MaxFence : Chain[n] = Walk(Chain, n) /\ Chain[n] \subseteq 1..n)'
  BY ChainRule, PTL
<1> QED
  BY <1>1

(* A chain is the same as long as the parents below its head are. *)
LEMMA ChainFrame ==
    ASSUME RevType, RevType', NEW k \in 0..MaxFence,
           \A n \in 1..k : revs'[n].parent = revs[n].parent
    PROVE  \A n \in 0..k : Chain'[n] = Chain[n]
<1> DEFINE T == {n \in 0..k : Chain'[n] # Chain[n]}
<1> SUFFICES ASSUME T # {} PROVE FALSE
  OBVIOUS
<1>0. MaxFence \in Nat /\ \A n \in RevIds : revs[n].parent \in 0..MaxFence
  BY StoreAssumption DEF RevType, Revisions
<1>1. T \in SUBSET Nat
  BY <1>0
<1>2. PICK n \in T : \A m \in T : n <= m
  BY <1>1, LeastElement
<1>3. n \in 0..k /\ n \in 0..MaxFence /\ Chain'[n] # Chain[n]
  BY <1>0, <1>2
<1>4. Chain[n] = Walk(Chain, n) /\ Chain'[n] = Walk(Chain, n)'
  BY <1>3, ChainRule, ChainRuleNext
<1>5. n # 0 /\ revs'[n].parent = revs[n].parent
  BY <1>0, <1>3, <1>4 DEF Walk
<1>6. revs[n].parent < n => Chain'[revs[n].parent] = Chain[revs[n].parent]
  BY <1>0, <1>2, <1>3, <1>5 DEF RevIds
<1> QED
  BY <1>3, <1>4, <1>5, <1>6 DEF Walk

-----------------------------------------------------------------------------
(* The types. *)
LEMMA IdleTyped == Idle \in Holders
  BY StoreAssumption DEF Idle, Holders, HolderPcs, Ops, Approvals

(* What Goto does to the fields of the holder. *)
LEMMA Going ==
    ASSUME w \in Holders, NEW l \in HolderPcs, Goto(l)
    PROVE  /\ w' \in Holders /\ w'.pc = l /\ w'.op = w.op /\ w'.rev = w.rev /\ w'.base = w.base
           /\ w'.content = w.content /\ w'.approval = w.approval /\ w'.field = w.field
           /\ w'.edited = w.edited
  BY DEF Goto, Holders

(* What Stage does to the fields of the holder. *)
LEMMA Staging ==
    ASSUME w \in Holders, NEW c \in Contents \cup {None}, NEW b \in 0..MaxFence, Stage(c, b)
    PROVE  /\ w' \in Holders /\ w'.pc = "build" /\ w'.op = w.op /\ w'.rev = w.rev /\ w'.base = b
           /\ w'.content = c /\ w'.approval = w.approval /\ w'.field = w.field
           /\ w'.edited = w.edited
  BY DEF Stage, Holders, HolderPcs

(* The fields of a revision. *)
LEMMA TypedRevs ==
    ASSUME RevType, NEW r \in RevIds
    PROVE  revs[r] \in Revisions /\ revs[r].content \in Contents \cup {None}
  BY DEF RevType, Revisions

(* A holder that releases the lock forgets everything. *)
LEMMA Releasing ==
    ASSUME Release
    PROVE  /\ w' \in Holders /\ w'.pc = "idle" /\ w'.op = "none" /\ w'.approval = "none"
           /\ w' = Idle
  BY IdleTyped DEF Release, Idle

(* The revision that a new one is built over, with its approval. *)
LEMMA StatusTyped ==
    ASSUME PointerType PROVE StatusRevision \in 0..MaxFence
  BY StoreAssumption DEF StatusRevision, PointerType

(* How an operation begins, and what the preflight of a command decides. *)
LEMMA Acquiring ==
    ASSUME StoreType, NEW op \in ActiveOps, NEW a \in Approvals, Acquire(op, a)
    PROVE  /\ w' \in Holders /\ fence' = fence + 1 /\ fence' \in 0..MaxFence
           /\ w'.pc = IF op = "cli" THEN "preflight" ELSE "check"
           /\ w'.op = op /\ w'.rev = fence' /\ w'.approval = a
           /\ w'.field = "none" /\ w'.edited = FALSE /\ op \in Ops /\ op # "none"
<1>1. fence' = fence + 1 /\ fence' \in 0..MaxFence
  BY StoreAssumption DEF Acquire, StoreType, PointerType
<1>2. PICK i \in Holders : i = Idle /\ i.field = "none" /\ i.edited = FALSE
  BY IdleTyped DEF Idle
<1>3. PICK l \in HolderPcs : l = IF op = "cli" THEN "preflight" ELSE "check"
  BY DEF HolderPcs
<1>4. op \in Ops /\ op # "none"
  BY OpsAssumption
<1>5. w' = [i EXCEPT !.pc = l, !.op = op, !.rev = fence', !.approval = a]
  BY <1>1, <1>2, <1>3 DEF Acquire
<1> QED
  BY <1>1, <1>2, <1>3, <1>4, <1>5 DEF Holders

(* What the preflight does to the fields of the holder, and what it has    *)
(* made sure of.                                                           *)
LEMMA Preflighting ==
    ASSUME w \in Holders, Preflight, ~Release
    PROVE  /\ w' \in Holders /\ w'.pc = "mutate" /\ w'.rev = w.rev /\ w'.base = w.base
           /\ w'.field = w.field /\ w'.edited = w.edited
           /\ w'.op = IF marker = 0 THEN "migrate" ELSE w.op
           /\ w'.approval \in {w.approval, "none"}
           /\ marker = 0 => w'.approval # "carry"
           /\ marker # 0 => StatusRevision # 0 /\ ~Diverges(legacy, Content(StatusRevision))
<1>1. "mutate" \in HolderPcs /\ "migrate" \in Ops /\ "none" \in Approvals
  BY DEF HolderPcs, Ops, Approvals
<1>2. PICK a \in Approvals : /\ a \in {w.approval, "none"} /\ (marker = 0 => a # "carry")
                            /\ w' = IF marker = 0
                                    THEN [w EXCEPT !.pc = "mutate", !.op = "migrate", !.approval = a]
                                    ELSE [w EXCEPT !.pc = "mutate", !.approval = a]
  BY <1>1 DEF Preflight, Holders
<1>3. marker # 0 => StatusRevision # 0 /\ ~Diverges(legacy, Content(StatusRevision))
  BY DEF Preflight
<1>4. CASE marker = 0
  BY <1>1, <1>2, <1>4 DEF Holders
<1>5. CASE marker # 0
  BY <1>1, <1>2, <1>3, <1>5 DEF Holders
<1> QED
  BY <1>4, <1>5

(* A step of the holder keeps the shape of the state. *)
LEMMA TypeOfHolder ==
    ASSUME StoreType, WorkInv, Holder PROVE StoreType'
<1> USE StoreAssumption DEF StoreType, disk, ghosts
<1> DEFINE Quiet == UNCHANGED <<fence, revs, marker, cur, lkg, hist, everLkg>>
<1>0. UNCHANGED <<fence, rd>> /\ (UNCHANGED plan \/ plan' = NoPlan)
  BY DEF Holder, Preflight, Mutate, CheckMigrate, CheckSnapshot, PrePublishRefuses, CheckRollback,
     CheckRecover, CheckRepair, BuildArtifacts, WriteManifest, Verify, WriteMarker, SwapCurrent,
     PersistOldApproval, SwapLkg, PersistNewApproval, RepairFile, RepairDone, Quarantine,
     ReleaseLock
<1>1. PlanType' /\ ReaderType'
  BY <1>0 DEF PlanType, ReaderType, NoPlan
<1>2. ASSUME Quiet PROVE RevType' /\ PointerType'
  BY <1>2 DEF RevType, PointerType
<1>3. ASSUME NEW l \in HolderPcs, Goto(l), UNCHANGED legacy PROVE HolderType'
  BY <1>3, Going DEF HolderType
<1>4. ASSUME Release, UNCHANGED legacy PROVE HolderType'
  BY <1>4, Releasing DEF HolderType
<1>5. AfterPublication \in HolderPcs
  BY DEF AfterPublication, HolderPcs
<1>6. w.pc # "idle" => w.rev \in RevIds
  BY DEF WorkInv, PointerType, RevIds
<1>7. ASSUME Quiet, HolderType' PROVE StoreType'
  BY <1>1, <1>2, <1>7
<1>8. CASE Preflight
  <2>1. Release \/ (w' \in Holders)
    BY <1>8, Preflighting DEF HolderType
  <2> QED
    BY <1>4, <1>7, <1>8, <2>1 DEF Preflight, HolderType
<1>9. ASSUME NEW f \in Fields, NEW v \in FieldValues(f), Mutate(f, v) PROVE StoreType'
  <2>1. w' \in Holders
    BY <1>9 DEF Mutate, HolderType, Holders, HolderPcs
  <2>2. legacy' \in Contents
    BY <1>9 DEF Mutate, HolderType, Contents, FieldValues, Fields
  <2> QED
    BY <1>7, <1>9, <2>1, <2>2 DEF Mutate, HolderType
<1>10. CASE CheckMigrate
  <2>1. CASE Release
    BY <1>4, <1>7, <1>10, <2>1 DEF CheckMigrate
  <2>2. CASE Stage(legacy, 0)
    <3>1. w' \in Holders
      BY <2>2, Staging DEF HolderType
    <3> QED
      BY <1>7, <1>10, <3>1 DEF CheckMigrate, HolderType
  <2>3. CASE marker # 0 /\ w' = [w EXCEPT !.pc = "swap", !.rev = marker, !.content = Content(marker)]
    <3>1. Content(marker) \in Contents \cup {None}
      BY <2>3, TypedRevs DEF PointerType, RevIds, Content
    <3>2. w' \in Holders
      BY <2>3, <3>1 DEF HolderType, Holders, HolderPcs, PointerType
    <3> QED
      BY <1>7, <1>10, <3>2 DEF CheckMigrate, HolderType
  <2> QED
    BY <1>10, <2>1, <2>2, <2>3 DEF CheckMigrate
<1>11. ASSUME NEW c \in Contents \cup {None}, NEW b \in 0..MaxFence, Stage(c, b) \/ Release,
              Quiet, UNCHANGED legacy
       PROVE  StoreType'
  BY <1>4, <1>7, <1>11, Staging DEF HolderType
<1>12. CASE CheckSnapshot
  <2>1. plan.content \in Contents \cup {None} /\ legacy \in Contents
    BY InputsAssumption DEF PlanType, NoPlan, HolderType
  <2> QED
    BY <1>11, <1>12, <2>1 DEF CheckSnapshot, PointerType
<1>13. CASE PrePublishRefuses
  BY <1>4, <1>7, <1>13 DEF PrePublishRefuses
<1>14. ASSUME NEW t \in RevIds, CheckRollback(t) PROVE StoreType'
  BY <1>11, <1>14, TypedRevs DEF CheckRollback, PointerType, Content
<1>15. CASE CheckRecover
  <2>1. Release \/ (lkg # 0 /\ Stage(Content(lkg), cur))
    BY <1>15 DEF CheckRecover, FallsBack
  <2>2. lkg # 0 => Content(lkg) \in Contents \cup {None}
    BY TypedRevs DEF PointerType, RevIds, Content
  <2> QED
    BY <1>4, <1>7, <1>11, <1>15, <2>1, <2>2 DEF CheckRecover, PointerType
<1>16. CASE CheckRepair
  <2>1. CASE Release
    BY <1>4, <1>7, <1>16, <2>1 DEF CheckRepair
  <2>2. CASE cur # 0 /\ w' = [w EXCEPT !.pc = "repair", !.rev = cur, !.content = Content(cur)]
    <3>1. Content(cur) \in Contents \cup {None}
      BY <2>2, TypedRevs DEF PointerType, RevIds, Content
    <3>2. w' \in Holders
      BY <2>2, <3>1 DEF HolderType, Holders, HolderPcs, PointerType
    <3> QED
      BY <1>7, <1>16, <3>2 DEF CheckRepair, HolderType
  <2> QED
    BY <1>16, <2>1, <2>2 DEF CheckRepair, Valid
<1>17. CASE BuildArtifacts
  <2>1. RevType'
    BY <1>17, <1>6 DEF BuildArtifacts, RevType, Revisions, RevStates
  <2>2. PointerType' /\ HolderType'
    BY <1>17, <1>3 DEF BuildArtifacts, PointerType, HolderPcs
  <2> QED
    BY <1>1, <2>1, <2>2
<1>18. CASE WriteManifest
  <2>1. PICK r \in Revisions : revs' = [revs EXCEPT ![w.rev] = r]
    <3>1. [st |-> "ok", content |-> w.content, parent |-> IF w.op = "recover" THEN lkg ELSE w.base,
           op |-> w.op, field |-> w.field, edited |-> w.edited] \in Revisions
      BY DEF HolderType, Holders, PointerType, Revisions, RevStates, Published
    <3> QED
      BY <1>18, <3>1 DEF WriteManifest
  <2>2. RevType'
    BY <2>1 DEF RevType
  <2>3. PointerType' /\ HolderType'
    BY <1>18, <1>3 DEF WriteManifest, PointerType, HolderPcs
  <2> QED
    BY <1>1, <2>2, <2>3
<1>19. CASE Verify
  BY <1>3, <1>4, <1>7, <1>19 DEF Verify, HolderPcs
<1>20. CASE WriteMarker \/ SwapCurrent
  <2>1. RevType' /\ PointerType'
    BY <1>20 DEF WriteMarker, SwapCurrent, RevType, PointerType, HolderType, Holders
  <2>2. HolderType'
    BY <1>3, <1>5, <1>20 DEF WriteMarker, SwapCurrent, HolderPcs
  <2> QED
    BY <1>1, <2>1, <2>2
<1>21. CASE PersistOldApproval \/ PersistNewApproval
  <2>1. RevType' /\ PointerType'
    BY <1>21 DEF PersistOldApproval, PersistNewApproval, RevType, PointerType
  <2>2. HolderType'
    BY <1>3, <1>5, <1>21 DEF PersistOldApproval, PersistNewApproval, HolderPcs
  <2> QED
    BY <1>1, <2>1, <2>2
<1>22. CASE SwapLkg
  <2>1. RevType' /\ PointerType'
    BY <1>6, <1>22 DEF SwapLkg, RevType, PointerType, HolderType, Holders
  <2>2. HolderType'
    BY <1>3, <1>22 DEF SwapLkg, HolderPcs
  <2> QED
    BY <1>1, <2>1, <2>2
<1>23. ASSUME NEW f \in Fields, RepairFile(f) PROVE StoreType'
  <2>1. w.content \in Contents
    BY <1>23 DEF RepairFile, WorkInv, Swapped
  <2>2. legacy' \in Contents
    BY <1>23, <2>1 DEF RepairFile, HolderType, Contents, Fields
  <2> QED
    BY <1>7, <1>23, <2>2 DEF RepairFile, HolderType
<1>24. CASE RepairDone
  BY <1>3, <1>7, <1>24 DEF RepairDone, HolderPcs
<1>25. CASE Quarantine
  <2>1. RevType'
    BY <1>25 DEF Quarantine, RevType, Revisions, RevStates
  <2>2. PointerType' /\ HolderType'
    BY <1>25, <1>3 DEF Quarantine, PointerType, HolderPcs
  <2> QED
    BY <1>1, <2>1, <2>2
<1>26. CASE ReleaseLock
  BY <1>4, <1>7, <1>26 DEF ReleaseLock
<1> QED
  BY <1>8, <1>9, <1>10, <1>12, <1>13, <1>14, <1>15, <1>16, <1>17, <1>18, <1>19, <1>20, <1>21,
     <1>22, <1>23, <1>24, <1>25, <1>26 DEF Holder

(* Every step keeps the shape of the state. *)
LEMMA TypeNext ==
    ASSUME StoreType, WorkInv, [Next]_vars PROVE StoreType'
<1> USE StoreAssumption DEF StoreType, disk, ghosts
<1>1. CASE UNCHANGED vars
  BY <1>1 DEF vars, RevType, PointerType, HolderType, PlanType, ReaderType
<1>2. ASSUME NEW c \in Inputs, Prepare(c) PROVE StoreType'
  <2>1. PlanType'
    BY <1>2 DEF Prepare, PlanType, PointerType, RevIds
  <2> QED
    BY <1>2, <2>1 DEF Prepare, RevType, PointerType, HolderType, ReaderType
<1>3. ASSUME NEW op \in ActiveOps, NEW a \in Approvals, Acquire(op, a) PROVE StoreType'
  <2>1. w' \in Holders /\ fence' \in 0..MaxFence
    BY <1>3, Acquiring
  <2> QED
    BY <1>3, <2>1 DEF Acquire, RevType, PointerType, HolderType, PlanType, ReaderType
<1>4. CASE ReadPointer \/ ReadRevision \/ ReadApproval \/ ServeRouting
  <2>1. ReaderType'
    <3>1. NoRead \in [pc : ReaderPcs, cur : 0..MaxFence, sel : 0..MaxFence]
      BY DEF NoRead, ReaderPcs
    <3>2. CASE ReadPointer
      BY <3>2 DEF ReadPointer, ReaderType, ReaderPcs, PointerType
    <3>3. CASE ReadRevision
      BY <3>1, <3>3 DEF ReadRevision, ReaderType, ReaderPcs, PointerType
    <3>4. CASE ReadApproval
      BY <3>1, <3>4 DEF ReadApproval, ReaderType, ReaderPcs, PointerType
    <3>5. CASE ServeRouting
      BY <3>1, <3>5 DEF ServeRouting, ReaderType, ReaderPcs
    <3> QED
      BY <1>4, <3>2, <3>3, <3>4, <3>5
  <2>2. UNCHANGED <<fence, revs, marker, cur, lkg, hist, legacy, w, plan, everLkg, blessed>>
    BY <1>4 DEF ReadPointer, ReadRevision, ReadApproval, ServeRouting
  <2> QED
    BY <2>1, <2>2 DEF RevType, PointerType, HolderType, PlanType
<1>5. CASE Crash
  <2>1. hist' \in [RevIds -> {"absent", "torn", "ok"}]
    BY <1>5 DEF Crash, PointerType
  <2>2. HolderType'
    BY <1>5, Releasing DEF Crash, HolderType
  <2> QED
    BY <1>5, <2>1, <2>2 DEF Crash, RevType, PointerType, PlanType, ReaderType
<1>6. ASSUME NEW r \in RevIds, NEW role \in {"derived", "raw"}, Corrupt(r, role) PROVE StoreType'
  <2>1. RevType'
    BY <1>6 DEF Corrupt, RevType, Revisions, RevStates, Published
  <2> QED
    BY <1>6, <2>1 DEF Corrupt, PointerType, HolderType, PlanType, ReaderType
<1>7. ASSUME NEW f \in Fields, NEW v \in FieldValues(f), Edit(f, v) PROVE StoreType'
  <2>1. w' \in Holders
    BY <1>7 DEF Edit, HolderType, Holders
  <2>2. legacy' \in Contents
    BY <1>7 DEF Edit, HolderType, Contents, FieldValues, Fields
  <2> QED
    BY <1>7, <2>1, <2>2 DEF Edit, RevType, PointerType, HolderType, PlanType, ReaderType
<1> QED
  BY <1>1, <1>2, <1>3, <1>4, <1>5, <1>6, <1>7, TypeOfHolder DEF Next

-----------------------------------------------------------------------------
(* Frames. *)
LEMMA IdRange ==
    ASSUME StoreType
    PROVE  /\ MaxFence \in Nat /\ fence \in Nat /\ cur \in Nat /\ lkg \in Nat /\ marker \in Nat
           /\ \A n \in 0..MaxFence : n # 0 => n \in RevIds
           /\ \A n \in RevIds : n \in Nat /\ n # 0 /\ n \in 0..MaxFence
           /\ everLkg \subseteq RevIds
  BY StoreAssumption DEF StoreType, PointerType, RevIds

(* A step that moves no pointer and touches no revision. *)
LEMMA DiskFrame ==
    ASSUME StoreType, StoreType', DiskInv, UNCHANGED <<revs, marker, cur, lkg, everLkg>>,
           fence <= fence'
    PROVE  DiskInv'
<1> USE IdRange
<1>1. RevisionInv'
  BY DEF DiskInv, RevisionInv, Settled, StoreType, PointerType
<1>2. OrderInv'
  BY DEF DiskInv, OrderInv, Settled, StoreType, PointerType
<1>3. Chain'[cur] = Chain[cur] /\ Chain'[lkg] = Chain[lkg]
  <2>1. \A n \in 0..MaxFence : Chain'[n] = Chain[n]
    <3>1. MaxFence \in 0..MaxFence
      BY StoreAssumption
    <3> QED
      BY <3>1, ChainFrame DEF StoreType
  <2> QED
    BY <2>1 DEF StoreType, PointerType
<1>4. ReachInv'
  BY <1>3 DEF DiskInv, ReachInv, Ancestors
<1> QED
  BY <1>1, <1>2, <1>4 DEF DiskInv

(* The invariant about the past depends on few variables. *)
LEMMA PastFrame ==
    ASSUME PastInv, UNCHANGED <<revs, lkg, hist, everLkg, blessed>> PROVE PastInv'
  BY DEF PastInv, ApprovalProvenance, ApprovalsRemembered, ReceiptsEarned,
     CommandsPublishOwnChange, Content

(* What a reader relies on survives while settled revisions keep their     *)
(* content.                                                                *)
LEMMA ReaderFrame ==
    ASSUME StoreType, ReaderInv, UNCHANGED rd, everLkg \subseteq everLkg',
           \A r \in everLkg : Settled(r),
           \A r \in RevIds : Settled(r) => Settled(r)' /\ revs'[r].content = revs[r].content
    PROVE  ReaderInv'
<1> USE IdRange
<1>1. rd.pc # "idle" => rd.cur \in RevIds
  BY DEF ReaderInv, StoreType, ReaderType
<1>2. rd.pc \in {"legacy", "served"} => rd.sel \in RevIds /\ Settled(rd.sel)
  BY DEF ReaderInv
<1> QED
  BY <1>1, <1>2 DEF ReaderInv, Content

(* The holder has let go of the lock. *)
LEMMA Resting == ASSUME w' = Idle PROVE HoldInv'
<1>1. w'.pc = "idle" /\ w'.op = "none" /\ w'.approval = "none"
  BY DEF Idle
<1> QED
  BY <1>1 DEF HoldInv, WorkInv, PointerInv, RecoveryInv, ApprovalInv, CommandInv, Early, Pending,
     Built, Swapped

(* The invariant of the holder depends on few variables. *)
LEMMA HolderFrame ==
    ASSUME HoldInv, UNCHANGED <<w, legacy, fence, revs, marker, cur, lkg, hist, everLkg, blessed>>
    PROVE  HoldInv'
  BY DEF HoldInv, WorkInv, PointerInv, RecoveryInv, ApprovalInv, CommandInv, Settled, Content

-----------------------------------------------------------------------------
(* The operations begin. *)
LEMMA InvAcquire ==
    ASSUME StoreInv, NEW op \in ActiveOps, NEW a \in Approvals, Acquire(op, a)
    PROVE  HoldInv'
<1> USE DEF StoreInv
<1>1. /\ w' \in Holders /\ fence' = fence + 1 /\ fence' \in 0..MaxFence
      /\ w'.pc = (IF op = "cli" THEN "preflight" ELSE "check")
      /\ w'.op = op /\ w'.rev = fence' /\ w'.approval = a
      /\ w'.field = "none" /\ w'.edited = FALSE /\ op # "none"
  BY Acquiring
<1>2. w'.base = 0
  BY DEF Acquire, Idle
<1>3. fence' \in RevIds /\ fence \in Nat
  BY <1>1, IdRange DEF StoreType, PointerType, RevIds
<1>4. revs'[fence'].st = "absent"
  BY <1>1, <1>3 DEF Acquire, disk, DiskInv, RevisionInv
<1>5. WorkInv'
  BY <1>1, <1>2, <1>3, <1>4 DEF WorkInv, Early, Pending, Built, Swapped
<1>6. PointerInv' /\ RecoveryInv' /\ CommandInv'
  BY <1>1 DEF PointerInv, RecoveryInv, CommandInv, Pending, Swapped
<1>7. ApprovalInv'
  BY <1>1 DEF Acquire, ApprovalInv
<1> QED
  BY <1>5, <1>6, <1>7 DEF HoldInv

(* Preflight. *)
LEMMA InvPreflight == ASSUME StoreInv, Preflight PROVE HoldInv'
<1> USE DEF StoreInv, disk, ghosts
<1>0. w.pc = "preflight" /\ UNCHANGED <<fence, revs, marker, cur, lkg, hist, legacy, everLkg, blessed>>
  BY DEF Preflight
<1>1. CASE Release
  BY <1>1, Resting DEF Release
<1>2. CASE ~Release
  <2>1. /\ w' \in Holders /\ w'.pc = "mutate" /\ w'.rev = w.rev /\ w'.base = w.base
        /\ w'.field = w.field /\ w'.edited = w.edited
        /\ w'.op = (IF marker = 0 THEN "migrate" ELSE w.op)
        /\ w'.approval \in {w.approval, "none"}
        /\ marker = 0 => w'.approval # "carry"
        /\ marker # 0 => StatusRevision # 0 /\ ~Diverges(legacy, Content(StatusRevision))
    BY <1>2, Preflighting DEF StoreType, HolderType
  <2>2. WorkInv'
    BY <1>0, <2>1 DEF HoldInv, WorkInv, Early, Pending, Built, Swapped
  <2>3. PointerInv' /\ RecoveryInv'
    BY <2>1 DEF PointerInv, RecoveryInv, Pending, Swapped
  <2>4. ApprovalInv'
    BY <1>0, <2>1 DEF HoldInv, ApprovalInv, WorkInv
  <2>5. marker # 0 => cur # 0 /\ ~Diverges(legacy, Content(cur))
    BY <2>1 DEF StatusRevision, FallsBack, Diverges, Digests, Valid
  <2>6. CommandInv'
    BY <1>0, <2>1, <2>5 DEF CommandInv, Diverges, Content
  <2> QED
    BY <2>2, <2>3, <2>4, <2>6 DEF HoldInv
<1> QED
  BY <1>1, <1>2

(* The change of a command. *)
LEMMA InvMutate ==
    ASSUME StoreInv, NEW f \in Fields, NEW v \in FieldValues(f), Mutate(f, v) PROVE HoldInv'
<1> USE DEF StoreInv
<1>0. w.pc = "mutate" /\ UNCHANGED <<fence, revs, marker, cur, lkg, hist, everLkg, blessed>>
  BY DEF Mutate, ghosts
<1>1. /\ w'.pc = "check" /\ w'.rev = w.rev /\ w'.base = w.base /\ w'.op = w.op
      /\ w'.field = f /\ w'.edited = w.edited /\ w'.approval = w.approval
  BY DEF Mutate, StoreType, HolderType, Holders
<1>2. \A g \in Fields \ {f} : legacy'[g] = legacy[g]
  BY DEF Mutate, StoreType, HolderType, Contents, Fields
<1>3. WorkInv'
  BY <1>0, <1>1 DEF HoldInv, WorkInv, Early, Pending, Built, Swapped
<1>4. PointerInv' /\ RecoveryInv' /\ ApprovalInv'
  BY <1>0, <1>1 DEF HoldInv, PointerInv, RecoveryInv, ApprovalInv, Pending, Swapped
<1>5. CommandInv'
  BY <1>0, <1>1, <1>2 DEF HoldInv, WorkInv, CommandInv, Content, Fields
<1> QED
  BY <1>3, <1>4, <1>5 DEF HoldInv

(* A revision is staged over the current one. *)
LEMMA InvStage ==
    ASSUME StoreInv, w.pc = "check", w.op \notin {"migrate", "repair"},
           NEW c \in Contents, Stage(c, cur),
           UNCHANGED <<fence, revs, marker, cur, lkg, hist, legacy, everLkg, blessed>>,
           cur # 0, Settled(cur), w.approval = "carry" => lkg = cur, w.op = "cli" => c = legacy,
           w.op = "recover" => /\ revs[cur].st = "derived" /\ lkg # 0 /\ lkg # cur
                               /\ Digests(c) = Digests(Content(cur)) /\ c = Content(lkg)
    PROVE  HoldInv'
<1> USE IdRange DEF StoreInv
<1>1. /\ w' \in Holders /\ w'.pc = "build" /\ w'.op = w.op /\ w'.rev = w.rev /\ w'.base = cur
      /\ w'.content = c /\ w'.approval = w.approval /\ w'.field = w.field
      /\ w'.edited = w.edited
  BY Staging DEF StoreType, HolderType, PointerType
<1>2. cur < w.rev
  <2>1. w.rev = fence /\ revs[w.rev].st = "absent" /\ cur <= fence
    BY DEF HoldInv, WorkInv, Early, DiskInv, OrderInv
  <2>2. cur # w.rev
    BY <2>1 DEF Settled, Published
  <2> QED
    BY <2>1, <2>2 DEF StoreType, PointerType
<1>3. WorkInv'
  BY <1>1 DEF HoldInv, WorkInv, Early, Pending, Built, Swapped
<1>4. PointerInv'
  BY <1>1, <1>2 DEF PointerInv, Pending, Swapped, Settled
<1>5. RecoveryInv'
  BY <1>1 DEF RecoveryInv, Pending, Swapped, Content, DiskInv, OrderInv, StoreType, PointerType
<1>6. ApprovalInv'
  BY <1>1 DEF HoldInv, ApprovalInv, DiskInv, OrderInv
<1>7. CommandInv'
  BY <1>1 DEF HoldInv, CommandInv, Content
<1> QED
  BY <1>3, <1>4, <1>5, <1>6, <1>7 DEF HoldInv

(* The check before a migration. *)
LEMMA InvCheckMigrate == ASSUME StoreInv, CheckMigrate PROVE HoldInv'
<1> USE IdRange DEF StoreInv, disk, ghosts
<1>0. /\ w.pc = "check" /\ w.op = "migrate"
      /\ UNCHANGED <<fence, revs, marker, cur, lkg, hist, legacy, everLkg, blessed>>
  BY DEF CheckMigrate
<1>1. CASE Release
  BY <1>1, Resting DEF Release
<1>2. CASE marker = 0 /\ cur = 0 /\ Stage(legacy, 0)
  <2>1. /\ w' \in Holders /\ w'.pc = "build" /\ w'.op = w.op /\ w'.rev = w.rev /\ w'.base = 0
        /\ w'.content = legacy /\ w'.approval = w.approval /\ w'.field = w.field
        /\ w'.edited = w.edited /\ legacy \in Contents
    BY <1>2, Staging DEF StoreType, HolderType, PointerType
  <2>2. WorkInv'
    BY <1>0, <2>1 DEF HoldInv, WorkInv, Early, Pending, Built, Swapped
  <2>3. w.rev \in 1..fence
    BY <1>0 DEF HoldInv, WorkInv
  <2>4. PointerInv' /\ RecoveryInv' /\ CommandInv'
    BY <1>0, <1>2, <2>1, <2>3 DEF PointerInv, RecoveryInv, CommandInv, Pending, Swapped
  <2>5. ApprovalInv'
    BY <1>0, <2>1 DEF HoldInv, ApprovalInv
  <2> QED
    BY <2>2, <2>4, <2>5 DEF HoldInv
<1>3. CASE /\ marker # 0 /\ cur = 0 /\ Valid(marker)
           /\ w.approval = "explicit" => Eligible(Content(marker))
           /\ w' = [w EXCEPT !.pc = "swap", !.rev = marker, !.content = Content(marker)]
  <2>1. /\ w'.pc = "swap" /\ w'.op = "migrate" /\ w'.rev = marker /\ w'.base = w.base
        /\ w'.content = Content(marker) /\ w'.approval = w.approval
    BY <1>0, <1>3 DEF StoreType, HolderType, Holders
  <2>2. /\ marker \in 1..fence /\ revs[marker].st = "ok" /\ Content(marker) \in Contents
        /\ revs[marker].parent = 0 /\ revs[marker].op = "migrate" /\ w.base = 0
    BY <1>0, <1>3 DEF DiskInv, OrderInv, RevisionInv, Settled, Published, Valid, Content, HoldInv,
       WorkInv, StoreType, PointerType
  <2>3. WorkInv'
    BY <1>0, <2>1, <2>2 DEF WorkInv, Early, Pending, Built, Swapped, Published, Content
  <2>4. PointerInv' /\ RecoveryInv' /\ CommandInv'
    BY <1>0, <1>3, <2>1, <2>2 DEF PointerInv, RecoveryInv, CommandInv, Pending, Swapped
  <2>5. ApprovalInv'
    BY <1>0, <1>3, <2>1 DEF HoldInv, ApprovalInv, StoreType, HolderType, Holders, Approvals
  <2> QED
    BY <2>3, <2>4, <2>5 DEF HoldInv
<1> QED
  BY <1>1, <1>2, <1>3 DEF CheckMigrate

(* The checks before a snapshot, a rollback and a recovery. *)
LEMMA InvCheck ==
    ASSUME StoreInv,
           \/ CheckSnapshot \/ PrePublishRefuses \/ (\E t \in RevIds : CheckRollback(t))
           \/ CheckRecover
    PROVE  HoldInv'
<1> USE IdRange DEF StoreInv, disk, ghosts
<1>0. /\ w.pc = "check" /\ w.op \notin {"migrate", "repair"}
      /\ UNCHANGED <<fence, revs, marker, cur, lkg, hist, legacy, everLkg, blessed>>
  BY DEF CheckSnapshot, PrePublishRefuses, CheckRollback, CheckRecover
<1>1. CASE Release
  BY <1>1, Resting DEF Release
<1>2. \A r : Valid(r) => r # 0 /\ Settled(r)
  BY DEF Valid, Settled, Published
<1>3. \A r \in RevIds : Settled(r) => Content(r) \in Contents
  BY DEF DiskInv, RevisionInv, Content
<1>4. CASE CheckSnapshot /\ ~Release
  <2> DEFINE c == IF w.op = "prepared" THEN plan.content ELSE legacy
  <2>1. /\ w.op \in {"cli", "import", "prepared"} /\ Valid(cur)
        /\ w.op # "cli" => plan.exp = cur
        /\ w.approval = "carry" => lkg = cur
        /\ Stage(c, cur)
    BY <1>4 DEF CheckSnapshot
  <2>2. c \in Contents
    BY <1>2, <2>1, InputsAssumption DEF StoreType, HolderType, PlanType, NoPlan
  <2>3. w.op = "cli" => c = legacy
    OBVIOUS
  <2> HIDE DEF c
  <2> QED
    BY <1>0, <1>2, <2>1, <2>2, <2>3, InvStage
<1>5. ASSUME NEW t \in RevIds, CheckRollback(t), ~Release PROVE HoldInv'
  <2>1. w.op = "rollback" /\ Valid(cur) /\ Valid(t) /\ Stage(Content(t), cur)
    BY <1>5 DEF CheckRollback
  <2>2. w.approval # "carry"
    BY <2>1 DEF HoldInv, ApprovalInv
  <2> QED
    BY <1>0, <1>2, <1>3, <2>1, <2>2, InvStage
<1>6. CASE CheckRecover /\ ~Release
  <2>1. /\ w.op = "recover" /\ cur # 0 /\ revs[cur].st = "derived" /\ lkg # 0 /\ Valid(lkg)
        /\ Digests(Content(lkg)) = Digests(Content(cur)) /\ Stage(Content(lkg), cur)
    BY <1>6 DEF CheckRecover, FallsBack
  <2>2. lkg # cur /\ Settled(cur) /\ w.approval # "carry"
    BY <2>1 DEF Valid, Settled, Published, HoldInv, ApprovalInv
  <2>3. Content(lkg) \in Contents
    BY <1>2, <1>3, <2>1 DEF StoreType, PointerType
  <2> QED
    BY <1>0, <2>1, <2>2, <2>3, InvStage
<1> QED
  BY <1>1, <1>4, <1>5, <1>6 DEF PrePublishRefuses

(* The check before a repair. *)
LEMMA InvCheckRepair == ASSUME StoreInv, CheckRepair PROVE HoldInv'
<1> USE IdRange DEF StoreInv, disk, ghosts
<1>0. /\ w.pc = "check" /\ w.op = "repair"
      /\ UNCHANGED <<fence, revs, marker, cur, lkg, hist, legacy, everLkg, blessed>>
  BY DEF CheckRepair
<1>1. CASE Release
  BY <1>1, Resting DEF Release
<1>2. CASE Valid(cur) /\ w' = [w EXCEPT !.pc = "repair", !.rev = cur, !.content = Content(cur)]
  <2>1. /\ w'.pc = "repair" /\ w'.op = "repair" /\ w'.rev = cur
        /\ w'.content = Content(cur) /\ w'.approval = w.approval
    BY <1>0, <1>2 DEF StoreType, HolderType, Holders
  <2>2. cur \in 1..fence /\ revs[cur].st = "ok" /\ Content(cur) \in Contents
    BY <1>2 DEF DiskInv, OrderInv, RevisionInv, Settled, Published, Valid, Content, StoreType,
       PointerType
  <2>3. WorkInv'
    BY <1>0, <2>1, <2>2 DEF WorkInv, Early, Pending, Built, Swapped, Published, Content
  <2>4. PointerInv' /\ RecoveryInv' /\ CommandInv'
    BY <1>0, <2>1, <2>2 DEF PointerInv, RecoveryInv, CommandInv, Pending, Swapped
  <2>5. ApprovalInv'
    BY <1>0, <2>1 DEF HoldInv, ApprovalInv
  <2> QED
    BY <2>3, <2>4, <2>5 DEF HoldInv
<1> QED
  BY <1>1, <1>2 DEF CheckRepair

-----------------------------------------------------------------------------
(* A revision is written.  It is newer than all that the pointers reach. *)
LEMMA ChainsKept ==
    ASSUME StoreType, StoreType', NEW r \in RevIds, cur < r, lkg <= cur,
           \A n \in RevIds \ {r} : revs'[n] = revs[n], UNCHANGED <<cur, lkg>>
    PROVE  /\ Ancestors(cur)' = Ancestors(cur) /\ Ancestors(lkg)' = Ancestors(lkg)
           /\ \A n \in Ancestors(cur) \cup Ancestors(lkg) : n \in RevIds /\ n < r
<1> USE IdRange
<1>1. cur \in 0..MaxFence /\ lkg \in 0..MaxFence /\ RevType /\ RevType'
  BY DEF StoreType, PointerType
<1>2. \A n \in 1..cur : revs'[n].parent = revs[n].parent
  BY <1>1 DEF RevIds
<1>3. \A n \in 0..cur : Chain'[n] = Chain[n]
  BY <1>1, <1>2, ChainFrame
<1>4. Chain[cur] \subseteq 1..cur /\ Chain[lkg] \subseteq 1..lkg
  BY <1>1, ChainRule
<1> QED
  BY <1>1, <1>3, <1>4 DEF Ancestors, RevIds

(* The artifacts are written. *)
LEMMA InvBuildArtifacts == ASSUME StoreInv, StoreType', BuildArtifacts PROVE StoreInv'
<1> USE IdRange DEF StoreInv
<1>0. /\ w.pc = "build" /\ UNCHANGED <<fence, marker, cur, lkg, hist, legacy, rd, everLkg, blessed>>
  BY DEF BuildArtifacts, ghosts
<1>1. /\ w'.pc = "manifest" /\ w'.op = w.op /\ w'.rev = w.rev /\ w'.base = w.base
      /\ w'.content = w.content /\ w'.approval = w.approval /\ w'.field = w.field
      /\ w'.edited = w.edited
  BY Going DEF BuildArtifacts, StoreType, HolderType, HolderPcs
<1>2. /\ w.rev \in RevIds /\ w.rev = fence /\ cur < w.rev /\ lkg <= cur /\ revs[w.rev].st = "absent"
  BY <1>0 DEF HoldInv, WorkInv, PointerInv, Early, Pending, DiskInv, OrderInv, StoreType,
     PointerType, HolderType, Holders
<1>3. /\ revs'[w.rev].st = "partial" /\ revs'[w.rev].op = revs[w.rev].op
      /\ \A r \in RevIds \ {w.rev} : revs'[r] = revs[r]
  BY <1>2 DEF BuildArtifacts, StoreType, RevType, Revisions
<1>4. \A r \in RevIds : /\ Settled(r) => r # w.rev
                        /\ Settled(r)' <=> Settled(r)
  BY <1>2, <1>3 DEF Settled, Published
<1>5. RevisionInv'
  BY <1>0, <1>2, <1>3, <1>4 DEF DiskInv, RevisionInv, StoreType, RevType, Revisions
<1>6. OrderInv'
  <2>1. marker # 0 => marker # w.rev
    BY <1>2 DEF DiskInv, ReachInv, Published
  <2> QED
    BY <1>0, <1>2, <1>3, <1>4, <2>1 DEF DiskInv, OrderInv, StoreType, PointerType
<1>7. ReachInv'
  <2>1. marker # 0 => marker # w.rev /\ marker \in RevIds
    BY <1>2 DEF DiskInv, ReachInv, Published, StoreType, PointerType
  <2> QED
    BY <1>0, <1>2, <1>3, <2>1, ChainsKept DEF DiskInv, ReachInv
<1>8. WorkInv'
  BY <1>0, <1>1, <1>2, <1>3 DEF HoldInv, WorkInv, Early, Pending, Built, Swapped
<1>9. PointerInv'
  BY <1>0, <1>1, <1>2, <1>4 DEF HoldInv, PointerInv, Pending, Swapped, StoreType, PointerType
<1>10. RecoveryInv'
  BY <1>0, <1>1, <1>2, <1>3 DEF HoldInv, PointerInv, RecoveryInv, Pending, Swapped, Content, StoreType,
     PointerType
<1>11. ApprovalInv'
  BY <1>0, <1>1 DEF HoldInv, ApprovalInv
<1>12. CommandInv'
  BY <1>0, <1>1, <1>2, <1>3 DEF HoldInv, PointerInv, CommandInv, Pending, Content, StoreType,
     PointerType
<1>13. PastInv'
  <2>1. \A r \in everLkg : r # w.rev /\ r \in RevIds
    BY <1>4 DEF DiskInv, OrderInv
  <2>2. \A r \in RevIds : revs[r].op = "cli" =>
           r # w.rev /\ revs[r].parent \in RevIds /\ revs[r].parent # w.rev
    BY <1>4 DEF DiskInv, RevisionInv
  <2>3. ApprovalProvenance' /\ ApprovalsRemembered' /\ ReceiptsEarned'
    BY <1>0, <1>3, <2>1 DEF PastInv, ApprovalProvenance, ApprovalsRemembered, ReceiptsEarned, Content
  <2>4. CommandsPublishOwnChange'
    BY <1>0, <1>3, <2>2 DEF PastInv, CommandsPublishOwnChange, Content
  <2> QED
    BY <2>3, <2>4 DEF PastInv
<1>14. ReaderInv'
  <2>1. \A r \in RevIds : Settled(r) => Settled(r)' /\ revs'[r].content = revs[r].content
    BY <1>3, <1>4
  <2> QED
    BY <1>0, <2>1, ReaderFrame DEF DiskInv, OrderInv
<1> QED
  BY <1>5, <1>6, <1>7, <1>8, <1>9, <1>10, <1>11, <1>12, <1>13, <1>14 DEF DiskInv, HoldInv

(* The manifest completes the revision. *)
LEMMA InvWriteManifest == ASSUME StoreInv, StoreType', WriteManifest PROVE StoreInv'
<1> USE IdRange DEF StoreInv
<1>0. /\ w.pc = "manifest" /\ UNCHANGED <<fence, marker, cur, lkg, hist, legacy, rd, everLkg, blessed>>
  BY DEF WriteManifest, ghosts
<1>1. /\ w'.pc = "verify" /\ w'.op = w.op /\ w'.rev = w.rev /\ w'.base = w.base
      /\ w'.content = w.content /\ w'.approval = w.approval /\ w'.field = w.field
      /\ w'.edited = w.edited
  BY Going DEF WriteManifest, StoreType, HolderType, HolderPcs
<1>2. /\ w.rev \in RevIds /\ w.rev = fence /\ cur < w.rev /\ lkg <= cur /\ revs[w.rev].st = "partial"
      /\ w.content \in Contents
  BY <1>0 DEF HoldInv, WorkInv, PointerInv, Early, Pending, DiskInv, OrderInv, StoreType,
     PointerType, HolderType, Holders
<1>3. /\ revs'[w.rev].st = "ok" /\ revs'[w.rev].content = w.content /\ revs'[w.rev].op = w.op
      /\ revs'[w.rev].parent = IF w.op = "recover" THEN lkg ELSE w.base
      /\ revs'[w.rev].field = w.field /\ revs'[w.rev].edited = w.edited
      /\ \A r \in RevIds \ {w.rev} : revs'[r] = revs[r]
  BY <1>2 DEF WriteManifest, StoreType, RevType
<1>4. /\ \A r \in RevIds : Settled(r) => r # w.rev /\ Settled(r)'
      /\ \A r \in RevIds \ {w.rev} : Settled(r)' <=> Settled(r)
      /\ Settled(w.rev)'
  BY <1>0, <1>1, <1>2, <1>3 DEF Settled, Published
<1>5. w.op # "migrate" => cur \in RevIds /\ cur # w.rev /\ w.base = cur /\ Settled(cur)
  BY <1>0, <1>2 DEF HoldInv, PointerInv, Pending, StoreType, PointerType
<1>6. RevisionInv'
  <2> SUFFICES ASSUME NEW r \in RevIds
               PROVE  /\ r > fence' => revs'[r].st = "absent"
                      /\ Settled(r)' => revs'[r].content \in Contents
                      /\ revs'[r].op = "cli" => /\ Settled(r)' /\ revs'[r].parent \in RevIds
                                                /\ Settled(revs[r].parent)'
    BY DEF RevisionInv
  <2>1. CASE r = w.rev
    <3>1. w.op = "cli" => revs'[r].parent = cur /\ Settled(cur)' /\ cur \in RevIds
      BY <1>0, <1>3, <1>4, <1>5, <2>1
    <3>2. w.op = "cli" => Settled(revs[r].parent)'
      BY <1>0, <3>1 DEF Settled
    <3>3. ~(r > fence')
      BY <1>0, <1>2, <2>1
    <3>4. revs'[r].content \in Contents /\ revs'[r].op = w.op
      BY <1>2, <1>3, <2>1
    <3>5. Settled(r)'
      BY <1>3, <2>1 DEF Settled, Published
    <3> QED
      BY <1>3, <2>1, <3>1, <3>2, <3>3, <3>4, <3>5
  <2>2. CASE r # w.rev
    <3>1. revs'[r] = revs[r] /\ (revs[r].op = "cli" => revs[r].parent \in RevIds /\ Settled(revs[r].parent))
      BY <1>3, <2>2 DEF DiskInv, RevisionInv
    <3>2. revs[r].op = "cli" => Settled(revs[r].parent)'
      BY <1>3, <1>4, <3>1 DEF Settled
    <3> QED
      BY <1>0, <1>4, <2>2, <3>1, <3>2 DEF DiskInv, RevisionInv
  <2> QED
    BY <2>1, <2>2
<1>7. marker # 0 => marker # w.rev /\ marker \in RevIds
  BY <1>2 DEF DiskInv, ReachInv, Published, StoreType, PointerType
<1>8. OrderInv'
  BY <1>0, <1>2, <1>3, <1>4, <1>7 DEF DiskInv, OrderInv, StoreType, PointerType
<1>9. ReachInv'
  BY <1>0, <1>2, <1>3, <1>7, ChainsKept DEF DiskInv, ReachInv
<1>10. WorkInv'
  BY <1>0, <1>1, <1>2, <1>3 DEF HoldInv, WorkInv, Early, Pending, Built, Swapped, Published, Content
<1>11. PointerInv'
  BY <1>0, <1>1, <1>2, <1>4, <1>5 DEF HoldInv, PointerInv, Pending, Swapped
<1>12. RecoveryInv'
  BY <1>0, <1>1, <1>2, <1>3, <1>5 DEF HoldInv, PointerInv, RecoveryInv, Pending, Swapped, Content,
     StoreType, PointerType
<1>13. ApprovalInv' /\ CommandInv'
  BY <1>0, <1>1 DEF HoldInv, ApprovalInv, CommandInv
<1>14. PastInv'
  <2>1. \A r \in everLkg : r # w.rev /\ r \in RevIds
    BY <1>4 DEF DiskInv, OrderInv
  <2>2. ApprovalProvenance' /\ ApprovalsRemembered' /\ ReceiptsEarned'
    BY <1>0, <1>3, <2>1 DEF PastInv, ApprovalProvenance, ApprovalsRemembered, ReceiptsEarned, Content
  <2>3. CommandsPublishOwnChange'
    <3> SUFFICES ASSUME NEW r \in RevIds, revs'[r].op = "cli", ~revs'[r].edited,
                        NEW f \in {"canon", "notes"}, f # revs'[r].field
                 PROVE  Content(r)'[f] = Content(revs[r].parent)'[f]
      BY DEF CommandsPublishOwnChange
    <3>1. CASE r = w.rev
      BY <1>0, <1>3, <1>5, <3>1 DEF HoldInv, CommandInv, Content
    <3>2. CASE r # w.rev
      <4>1. revs'[r] = revs[r] /\ revs[r].parent \in RevIds /\ revs[r].parent # w.rev
        BY <1>3, <1>4, <3>2 DEF DiskInv, RevisionInv
      <4> QED
        BY <1>3, <4>1 DEF PastInv, CommandsPublishOwnChange, Content
    <3> QED
      BY <3>1, <3>2
  <2> QED
    BY <2>2, <2>3 DEF PastInv
<1>15. ReaderInv'
  <2>1. \A r \in RevIds : Settled(r) => Settled(r)' /\ revs'[r].content = revs[r].content
    BY <1>3, <1>4
  <2> QED
    BY <1>0, <2>1, ReaderFrame DEF DiskInv, OrderInv
<1> QED
  BY <1>6, <1>8, <1>9, <1>10, <1>11, <1>12, <1>13, <1>14, <1>15 DEF DiskInv, HoldInv

-----------------------------------------------------------------------------
(* The last checks, and the pointers. *)

(* A step that leaves the disk alone, but for the projections, preserves   *)
(* what it does not concern.                                               *)
LEMMA QuietStep ==
    ASSUME StoreInv, StoreType', HoldInv', fence <= fence',
           UNCHANGED <<revs, marker, cur, lkg, hist, rd, everLkg, blessed>>
    PROVE  StoreInv'
<1>1. DiskInv' /\ PastInv'
  BY DiskFrame, PastFrame DEF StoreInv
<1>2. ReaderInv'
  <2>1. \A r \in RevIds : Settled(r) => Settled(r)' /\ revs'[r].content = revs[r].content
    BY DEF Settled
  <2> QED
    BY <2>1, ReaderFrame DEF StoreInv, DiskInv, OrderInv
<1> QED
  BY <1>1, <1>2 DEF StoreInv

(* Chains depend on the parents only. *)
LEMMA ChainSame ==
    ASSUME StoreType, StoreType', \A n \in RevIds : revs'[n].parent = revs[n].parent
    PROVE  \A n \in 0..MaxFence : Chain'[n] = Chain[n]
<1>1. MaxFence \in 0..MaxFence
  BY StoreAssumption
<1> QED
  BY <1>1, ChainFrame DEF StoreType, RevIds

(* A pointer is on its own chain. *)
LEMMA HeadReached ==
    ASSUME StoreType, ReachInv
    PROVE  /\ cur # 0 => revs[cur].st \in Published
           /\ lkg # 0 => revs[lkg].st \in Published
<1>1. \A n \in 0..MaxFence : n # 0 => n \in Chain[n]
  BY ChainRule DEF StoreType, Walk
<1> QED
  BY <1>1 DEF ReachInv, Ancestors, StoreType, PointerType

(* The revision is verified before a pointer names it. *)
LEMMA InvVerify == ASSUME StoreInv, Verify PROVE HoldInv'
<1> USE IdRange DEF StoreInv, disk, ghosts
<1>0. /\ w.pc = "verify"
      /\ UNCHANGED <<fence, revs, marker, cur, lkg, hist, legacy, everLkg, blessed>>
  BY DEF Verify
<1>1. CASE Release
  BY <1>1, Resting DEF Release
<1>2. CASE ~Release
  <2>1. PICK l \in {"marker", "swap"} : (l = "marker" <=> w.op = "migrate") /\ Goto(l)
    BY <1>2 DEF Verify
  <2>2. /\ w'.pc = l /\ w'.op = w.op /\ w'.rev = w.rev /\ w'.base = w.base
        /\ w'.content = w.content /\ w'.approval = w.approval /\ w'.field = w.field
        /\ w'.edited = w.edited
    BY <2>1, Going DEF StoreType, HolderType, HolderPcs
  <2>3. WorkInv'
    BY <1>0, <2>1, <2>2 DEF HoldInv, WorkInv, Early, Pending, Built, Swapped, Content
  <2>4. PointerInv'
    BY <1>0, <2>1, <2>2 DEF HoldInv, PointerInv, Pending, Swapped, Settled
  <2>5. RecoveryInv'
    BY <1>0, <2>1, <2>2 DEF HoldInv, RecoveryInv, Pending, Swapped, Content
  <2>6. CommandInv'
    BY <2>1, <2>2 DEF CommandInv
  <2>7. /\ w.approval = "carry" => Safety(w.content) = Safety(Content(w.base))
        /\ w.approval # "none" => Eligible(w.content)
    BY <1>2 DEF Verify
  <2>8. w.approval = "carry" => Safety(w.content) \in blessed
    BY <1>0, <2>7 DEF HoldInv, ApprovalInv, PastInv, ApprovalProvenance
  <2>9. w.approval = "recovery" => Safety(w.content) \in blessed
    BY <1>0 DEF HoldInv, ApprovalInv, RecoveryInv, Pending, DiskInv, OrderInv, PastInv,
       ApprovalProvenance
  <2>10. w.approval \in {"none", "explicit", "carry", "recovery"}
    BY DEF StoreType, HolderType, Holders, Approvals
  <2>11. ApprovalInv'
    BY <1>0, <2>1, <2>2, <2>7, <2>8, <2>9, <2>10 DEF HoldInv, ApprovalInv
  <2> QED
    BY <2>3, <2>4, <2>5, <2>6, <2>11 DEF HoldInv
<1> QED
  BY <1>1, <1>2

(* The marker of a migration. *)
LEMMA InvWriteMarker == ASSUME StoreInv, StoreType', WriteMarker PROVE StoreInv'
<1> USE IdRange DEF StoreInv
<1>0. /\ w.pc = "marker" /\ marker' = w.rev
      /\ UNCHANGED <<fence, revs, cur, lkg, hist, legacy, rd, everLkg, blessed>>
  BY DEF WriteMarker, ghosts
<1>1. /\ w'.pc = "swap" /\ w'.op = w.op /\ w'.rev = w.rev /\ w'.base = w.base
      /\ w'.content = w.content /\ w'.approval = w.approval /\ w'.field = w.field
      /\ w'.edited = w.edited
  BY Going DEF WriteMarker, StoreType, HolderType, HolderPcs
<1>2. /\ w.op = "migrate" /\ cur = 0 /\ w.base = 0 /\ w.rev \in 1..fence
      /\ revs[w.rev].st \in Published /\ revs[w.rev].parent = 0 /\ revs[w.rev].op = "migrate"
  BY <1>0 DEF HoldInv, WorkInv, PointerInv, Pending, Built
<1>3. lkg = 0 /\ everLkg = {}
  BY <1>2 DEF DiskInv, OrderInv
<1>4. RevisionInv'
  BY <1>0 DEF DiskInv, RevisionInv, Settled
<1>5. OrderInv'
  BY <1>0, <1>2, <1>3 DEF DiskInv, OrderInv, StoreType, PointerType
<1>6. ReachInv'
  <2>1. \A n \in 0..MaxFence : Chain'[n] = Chain[n]
    BY <1>0, ChainSame
  <2> QED
    BY <1>0, <1>2, <2>1 DEF DiskInv, ReachInv, Ancestors, StoreType, PointerType
<1>7. WorkInv'
  BY <1>0, <1>1 DEF HoldInv, WorkInv, Early, Pending, Built, Swapped, Content
<1>8. PointerInv'
  BY <1>0, <1>1, <1>2 DEF HoldInv, PointerInv, Pending, Swapped, Settled
<1>9. RecoveryInv' /\ ApprovalInv' /\ CommandInv'
  BY <1>0, <1>1, <1>2 DEF HoldInv, RecoveryInv, ApprovalInv, CommandInv
<1>10. PastInv'
  BY <1>0, PastFrame
<1>11. ReaderInv'
  <2>1. \A r \in RevIds : Settled(r) => Settled(r)' /\ revs'[r].content = revs[r].content
    BY <1>0 DEF Settled
  <2> QED
    BY <1>0, <2>1, ReaderFrame DEF DiskInv, OrderInv
<1> QED
  BY <1>4, <1>5, <1>6, <1>7, <1>8, <1>9, <1>10, <1>11 DEF DiskInv, HoldInv

(* The new revision's chain is the revision and the chain it extends. *)
LEMMA InvSwapCurrent == ASSUME StoreInv, StoreType', SwapCurrent PROVE StoreInv'
<1> USE IdRange DEF StoreInv
<1>0. /\ w.pc = "swap" /\ cur' = w.rev
      /\ UNCHANGED <<fence, revs, marker, lkg, hist, legacy, rd, everLkg, blessed>>
  BY DEF SwapCurrent, ghosts
<1>1. PICK l \in {"oldHistory", "repair", "release"} :
         Goto(l) /\ (l = "oldHistory" => w.approval # "none")
  BY DEF SwapCurrent, AfterPublication
<1>2. /\ w'.pc = l /\ w'.op = w.op /\ w'.rev = w.rev /\ w'.base = w.base
      /\ w'.content = w.content /\ w'.approval = w.approval /\ w'.field = w.field
      /\ w'.edited = w.edited
  BY <1>1, Going DEF StoreType, HolderType, HolderPcs
<1>3. /\ w.rev \in 1..fence /\ w.rev \in 0..MaxFence /\ revs[w.rev].st \in Published /\ cur < w.rev
      /\ revs[w.rev].parent = IF w.op = "recover" THEN lkg ELSE w.base
  BY <1>0 DEF HoldInv, WorkInv, PointerInv, Pending, Built, StoreType, HolderType, Holders
<1>4. /\ w.op = "migrate" => marker = w.rev /\ cur = 0 /\ w.base = 0
      /\ w.op # "migrate" => cur # 0 /\ w.base = cur /\ Settled(cur)
  BY <1>0 DEF HoldInv, PointerInv, Pending
<1>5. RevisionInv'
  BY <1>0 DEF DiskInv, RevisionInv, Settled
<1>6. OrderInv'
  BY <1>0, <1>3, <1>4 DEF DiskInv, OrderInv, Settled, StoreType, PointerType
<1>7. ReachInv'
  <2>1. \A n \in 0..MaxFence : Chain'[n] = Chain[n]
    BY <1>0, ChainSame
  <2>2. Chain[0] = {}
    <3>1. 0 \in 0..MaxFence /\ RevType
      BY StoreAssumption DEF StoreType
    <3>2. Chain[0] = Walk(Chain, 0)
      BY <3>1, ChainRule
    <3> QED
      BY <3>2 DEF Walk
  <2>3. revs[w.rev].parent \in {0, cur, lkg}
    BY <1>3, <1>4
  <2>4. Chain[w.rev] \subseteq {w.rev} \cup Chain[cur] \cup Chain[lkg]
    BY <1>3, <2>2, <2>3, ChainRule DEF StoreType, Walk
  <2>5. \A r \in Chain[w.rev] \cup Chain[lkg] : revs[r].st \in Published
    BY <1>3, <2>4 DEF DiskInv, ReachInv, Ancestors
  <2>6. Ancestors(cur)' = Chain[w.rev] /\ Ancestors(lkg)' = Chain[lkg]
    BY <1>0, <1>3, <2>1 DEF Ancestors, StoreType, PointerType
  <2> QED
    BY <1>0, <2>5, <2>6 DEF DiskInv, ReachInv
<1>8. WorkInv'
  BY <1>0, <1>1, <1>2 DEF HoldInv, WorkInv, Early, Pending, Built, Swapped, Content
<1>9. PointerInv'
  BY <1>0, <1>1, <1>2, <1>3 DEF PointerInv, DiskInv, OrderInv, Pending, Swapped
<1>10. RecoveryInv'
  <2>1. w.op = "recover" => lkg # 0 /\ lkg < cur
    BY <1>0 DEF HoldInv, RecoveryInv, Pending
  <2>2. w.op = "recover" => /\ revs[w.rev].parent = lkg /\ w.base = cur /\ marker <= lkg
                            /\ \A r \in everLkg : r <= lkg
    BY <1>3, <1>4, <2>1 DEF DiskInv, OrderInv
  <2>3. w.op = "recover" => marker < w.base /\ w.base \notin everLkg /\ Settled(w.base)
    BY <1>4, <2>1, <2>2
  <2> QED
    BY <1>0, <1>1, <1>2, <1>3, <2>1, <2>2, <2>3 DEF RecoveryInv, Pending, Swapped, Settled
<1>11. ApprovalInv' /\ CommandInv'
  BY <1>0, <1>1, <1>2 DEF HoldInv, ApprovalInv, CommandInv
<1>12. PastInv'
  BY <1>0, PastFrame
<1>13. ReaderInv'
  <2>1. \A r \in RevIds : Settled(r) => Settled(r)' /\ revs'[r].content = revs[r].content
    BY <1>0 DEF Settled
  <2> QED
    BY <1>0, <2>1, ReaderFrame DEF DiskInv, OrderInv
<1> QED
  BY <1>5, <1>6, <1>7, <1>8, <1>9, <1>10, <1>11, <1>12, <1>13 DEF DiskInv, HoldInv

-----------------------------------------------------------------------------
(* The approval takes effect. *)
LEMMA InvPersistOldApproval == ASSUME StoreInv, StoreType', PersistOldApproval PROVE StoreInv'
<1> USE IdRange DEF StoreInv
<1>0. /\ w.pc = "oldHistory"
      /\ UNCHANGED <<fence, revs, marker, cur, lkg, legacy, rd, everLkg, blessed>>
  BY DEF PersistOldApproval, ghosts
<1>1. PICK l \in {"lkg", "repair", "release"} :
         /\ Goto(l) /\ (l = "lkg" => (lkg # 0 => hist'[lkg] = "ok"))
         /\ \A r \in RevIds : hist'[r] = hist[r] \/ (r = lkg /\ hist'[r] = "ok")
  BY DEF PersistOldApproval, AfterPublication, StoreType, PointerType
<1>2. /\ w'.pc = l /\ w'.op = w.op /\ w'.rev = w.rev /\ w'.base = w.base
      /\ w'.content = w.content /\ w'.approval = w.approval /\ w'.field = w.field
      /\ w'.edited = w.edited
  BY <1>1, Going DEF StoreType, HolderType, HolderPcs
<1>3. WorkInv'
  BY <1>0, <1>1, <1>2 DEF HoldInv, WorkInv, Early, Pending, Built, Swapped, Content
<1>4. PointerInv'
  BY <1>0, <1>1, <1>2 DEF HoldInv, PointerInv, Pending, Swapped
<1>5. RecoveryInv'
  BY <1>0, <1>1, <1>2 DEF HoldInv, RecoveryInv, Pending, Swapped, Settled
<1>6. ApprovalInv' /\ CommandInv'
  BY <1>0, <1>1, <1>2 DEF HoldInv, ApprovalInv, CommandInv
<1>7. PastInv'
  <2>1. ApprovalProvenance' /\ CommandsPublishOwnChange'
    BY <1>0 DEF PastInv, ApprovalProvenance, CommandsPublishOwnChange, Content
  <2>2. ApprovalsRemembered'
    BY <1>0, <1>1 DEF PastInv, ApprovalsRemembered
  <2>3. ReceiptsEarned'
    BY <1>0, <1>1 DEF PastInv, ReceiptsEarned, DiskInv, OrderInv
  <2> QED
    BY <2>1, <2>2, <2>3 DEF PastInv
<1>8. DiskInv'
  BY <1>0, DiskFrame
<1>9. ReaderInv'
  <2>1. \A r \in RevIds : Settled(r) => Settled(r)' /\ revs'[r].content = revs[r].content
    BY <1>0 DEF Settled
  <2> QED
    BY <1>0, <2>1, ReaderFrame DEF DiskInv, OrderInv
<1> QED
  BY <1>3, <1>4, <1>5, <1>6, <1>7, <1>8, <1>9 DEF HoldInv

(* The last-known-good pointer. *)
LEMMA InvSwapLkg == ASSUME StoreInv, StoreType', SwapLkg PROVE StoreInv'
<1> USE IdRange DEF StoreInv
<1>0. /\ w.pc = "lkg" /\ lkg' = w.rev /\ everLkg' = everLkg \cup {w.rev}
      /\ blessed' = blessed \cup (IF w.approval = "explicit" THEN {Safety(w.content)} ELSE {})
      /\ UNCHANGED <<fence, revs, marker, cur, hist, legacy, rd>>
  BY DEF SwapLkg
<1>1. /\ w'.pc = "newHistory" /\ w'.op = w.op /\ w'.rev = w.rev /\ w'.base = w.base
      /\ w'.content = w.content /\ w'.approval = w.approval /\ w'.field = w.field
      /\ w'.edited = w.edited
  BY Going DEF SwapLkg, StoreType, HolderType, HolderPcs
<1>2. /\ w.rev \in 1..fence /\ w.rev \in RevIds /\ cur = w.rev /\ lkg < w.rev
      /\ revs[w.rev].st \in Published /\ Content(w.rev) = w.content
      /\ (lkg # 0 => hist[lkg] = "ok")
  BY <1>0 DEF HoldInv, WorkInv, PointerInv, Built, Swapped, StoreType, HolderType, Holders
<1>3. w.approval # "none" /\ Eligible(w.content)
      /\ (w.approval # "explicit" => Safety(w.content) \in blessed)
  BY <1>0 DEF HoldInv, ApprovalInv
<1>4. RevisionInv'
  BY <1>0 DEF DiskInv, RevisionInv, Settled
<1>5. OrderInv'
  BY <1>0, <1>2 DEF DiskInv, OrderInv, Settled, StoreType, PointerType
<1>6. ReachInv'
  <2>1. \A n \in 0..MaxFence : Chain'[n] = Chain[n]
    BY <1>0, ChainSame
  <2>2. Ancestors(cur)' = Ancestors(cur) /\ Ancestors(lkg)' = Ancestors(cur)
    BY <1>0, <1>2, <2>1 DEF Ancestors, StoreType, PointerType
  <2> QED
    BY <1>0, <2>2 DEF DiskInv, ReachInv
<1>7. WorkInv'
  BY <1>0, <1>1 DEF HoldInv, WorkInv, Early, Pending, Built, Swapped, Content
<1>8. PointerInv'
  BY <1>0, <1>1, <1>2 DEF PointerInv, Pending, Swapped
<1>9. RecoveryInv'
  BY <1>0, <1>1, <1>2 DEF HoldInv, RecoveryInv, Pending, Swapped, Settled, StoreType, HolderType,
     Holders
<1>10. ApprovalInv' /\ CommandInv'
  BY <1>0, <1>1 DEF HoldInv, ApprovalInv, CommandInv
<1>11. PastInv'
  <2>1. Content(w.rev)' = w.content
    BY <1>0, <1>1, <1>2 DEF Content
  <2>2. ApprovalProvenance'
    <3>1. \A r \in everLkg : Safety(Content(r)) \in blessed /\ Eligible(Content(r))
      BY DEF PastInv, ApprovalProvenance
    <3>2. Safety(w.content) \in blessed'
      BY <1>0, <1>3
    <3>3. \A r : revs'[r].content = revs[r].content
      BY <1>0
    <3>4. Content(w.rev) = w.content
      BY <1>2
    <3> QED
      BY <1>0, <1>3, <3>1, <3>2, <3>3, <3>4 DEF ApprovalProvenance, Content
  <2>3. ApprovalsRemembered'
    BY <1>0, <1>2, HeadReached DEF PastInv, ApprovalsRemembered, DiskInv, Published
  <2>4. ReceiptsEarned' /\ CommandsPublishOwnChange'
    BY <1>0 DEF PastInv, ReceiptsEarned, CommandsPublishOwnChange, Content
  <2> QED
    BY <2>2, <2>3, <2>4 DEF PastInv
<1>12. ReaderInv'
  <2>1. \A r \in RevIds : Settled(r) => Settled(r)' /\ revs'[r].content = revs[r].content
    BY <1>0 DEF Settled
  <2> QED
    BY <1>0, <2>1, ReaderFrame DEF DiskInv, OrderInv
<1> QED
  BY <1>4, <1>5, <1>6, <1>7, <1>8, <1>9, <1>10, <1>11, <1>12 DEF DiskInv, HoldInv

(* The approval is persisted. *)
LEMMA InvPersistNewApproval == ASSUME StoreInv, StoreType', PersistNewApproval PROVE StoreInv'
<1> USE IdRange DEF StoreInv
<1>0. /\ w.pc = "newHistory"
      /\ UNCHANGED <<fence, revs, marker, cur, lkg, legacy, rd, everLkg, blessed>>
  BY DEF PersistNewApproval, ghosts
<1>1. PICK l \in {"repair", "release"} : Goto(l)
  BY DEF PersistNewApproval, AfterPublication
<1>2. /\ w'.pc = l /\ w'.op = w.op /\ w'.rev = w.rev /\ w'.base = w.base
      /\ w'.content = w.content /\ w'.approval = w.approval /\ w'.field = w.field
      /\ w'.edited = w.edited
  BY <1>1, Going DEF StoreType, HolderType, HolderPcs
<1>3. \A r \in RevIds : r # lkg => hist'[r] = hist[r]
  <2>1. lkg = w.rev
    BY <1>0 DEF HoldInv, PointerInv
  <2> QED
    BY <2>1 DEF PersistNewApproval, StoreType, PointerType
<1>4. WorkInv'
  BY <1>0, <1>1, <1>2 DEF HoldInv, WorkInv, Early, Pending, Built, Swapped, Content
<1>5. PointerInv'
  BY <1>0, <1>1, <1>2 DEF HoldInv, PointerInv, Pending, Swapped
<1>6. RecoveryInv'
  BY <1>0, <1>1, <1>2 DEF HoldInv, RecoveryInv, Pending, Swapped, Settled
<1>7. ApprovalInv' /\ CommandInv'
  BY <1>0, <1>1, <1>2 DEF HoldInv, ApprovalInv, CommandInv
<1>8. PastInv'
  <2>1. ApprovalProvenance' /\ CommandsPublishOwnChange'
    BY <1>0 DEF PastInv, ApprovalProvenance, CommandsPublishOwnChange, Content
  <2>2. ApprovalsRemembered'
    BY <1>0, <1>3 DEF PastInv, ApprovalsRemembered
  <2>3. ReceiptsEarned'
    BY <1>0, <1>3 DEF PastInv, ReceiptsEarned, DiskInv, OrderInv
  <2> QED
    BY <2>1, <2>2, <2>3 DEF PastInv
<1>9. DiskInv'
  BY <1>0, DiskFrame
<1>10. ReaderInv'
  <2>1. \A r \in RevIds : Settled(r) => Settled(r)' /\ revs'[r].content = revs[r].content
    BY <1>0 DEF Settled
  <2> QED
    BY <1>0, <2>1, ReaderFrame DEF DiskInv, OrderInv
<1> QED
  BY <1>4, <1>5, <1>6, <1>7, <1>8, <1>9, <1>10 DEF HoldInv

(* The projections are repaired. *)
LEMMA InvRepair ==
    ASSUME StoreInv, (\E f \in Fields : RepairFile(f)) \/ RepairDone \/ ReleaseLock
    PROVE  HoldInv'
<1> USE IdRange DEF StoreInv, disk, ghosts
<1>1. CASE ReleaseLock
  BY <1>1, Resting DEF ReleaseLock, Release
<1>2. ASSUME NEW f \in Fields, RepairFile(f) PROVE HoldInv'
  <2>1. /\ w.pc = "repair"
        /\ UNCHANGED <<fence, revs, marker, cur, lkg, hist, w, everLkg, blessed>>
    BY <1>2 DEF RepairFile
  <2>2. WorkInv' /\ PointerInv' /\ RecoveryInv' /\ ApprovalInv'
    BY <2>1 DEF HoldInv, WorkInv, PointerInv, RecoveryInv, ApprovalInv, Settled, Content
  <2>3. CommandInv'
    BY <2>1 DEF CommandInv
  <2> QED
    BY <2>2, <2>3 DEF HoldInv
<1>3. CASE RepairDone
  <2>1. w.pc = "repair" /\ UNCHANGED <<fence, revs, marker, cur, lkg, hist, everLkg, blessed>>
    BY <1>3 DEF RepairDone
  <2>2. PICK l \in {"quarantine", "release"} : Goto(l) /\ (l = "quarantine" => w.op = "recover")
    BY <1>3 DEF RepairDone
  <2>3. /\ w'.pc = l /\ w'.op = w.op /\ w'.rev = w.rev /\ w'.base = w.base
        /\ w'.content = w.content /\ w'.approval = w.approval
    BY <2>2, Going DEF StoreType, HolderType, HolderPcs
  <2>4. WorkInv'
    BY <2>1, <2>2, <2>3 DEF HoldInv, WorkInv, Early, Pending, Built, Swapped, Content
  <2>5. PointerInv'
    BY <2>1, <2>2, <2>3 DEF HoldInv, PointerInv, Pending, Swapped
  <2>6. RecoveryInv'
    BY <2>1, <2>2, <2>3 DEF HoldInv, RecoveryInv, Pending, Swapped, Settled
  <2>7. ApprovalInv' /\ CommandInv'
    BY <2>1, <2>2, <2>3 DEF HoldInv, ApprovalInv, CommandInv
  <2> QED
    BY <2>4, <2>5, <2>6, <2>7 DEF HoldInv
<1> QED
  BY <1>1, <1>2, <1>3

-----------------------------------------------------------------------------
(* Revisions are damaged, or moved away. *)

(* The state of one settled revision changes and nothing the pointers      *)
(* reach is lost.                                                          *)
LEMMA InvDamage ==
    ASSUME StoreInv, StoreType', NEW r \in RevIds, Settled(r), Settled(r)',
           \A n \in RevIds \ {r} : revs'[n] = revs[n],
           revs'[r] = [revs[r] EXCEPT !.st = revs'[r].st],
           UNCHANGED <<fence, marker, cur, lkg, hist, rd, everLkg, blessed>>,
           marker = r => revs'[r].st \in Published,
           r \in Ancestors(cur) \cup Ancestors(lkg) => revs'[r].st \in Published,
           r \in everLkg \ {lkg} => revs'[r].st # "quarantined"
    PROVE  DiskInv' /\ PastInv' /\ ReaderInv'
<1> USE IdRange DEF StoreInv
<1>1. /\ revs'[r].parent = revs[r].parent /\ revs'[r].content = revs[r].content
      /\ revs'[r].op = revs[r].op /\ revs'[r].field = revs[r].field
      /\ revs'[r].edited = revs[r].edited
  BY DEF StoreType, RevType, Revisions
<1>2. \A n \in RevIds : /\ revs'[n].parent = revs[n].parent /\ revs'[n].content = revs[n].content
                        /\ revs'[n].op = revs[n].op /\ revs'[n].field = revs[n].field
                        /\ revs'[n].edited = revs[n].edited
  BY <1>1
<1>3. \A n \in RevIds : Settled(n)' <=> Settled(n)
  BY DEF Settled
<1>4. RevisionInv'
  <2> SUFFICES ASSUME NEW n \in RevIds
               PROVE  /\ n > fence' => revs'[n].st = "absent"
                      /\ Settled(n)' => revs'[n].content \in Contents
                      /\ revs'[n].op = "cli" => /\ Settled(n)' /\ revs'[n].parent \in RevIds
                                                /\ Settled(revs[n].parent)'
    BY DEF RevisionInv
  <2>1. n > fence => n # r
    BY DEF DiskInv, RevisionInv, Settled, Published
  <2>2. revs[n].op = "cli" => revs[n].parent \in RevIds /\ Settled(revs[n].parent)
    BY DEF DiskInv, RevisionInv
  <2>3. revs[n].op = "cli" => Settled(revs[n].parent)'
    BY <1>2, <1>3, <2>2 DEF Settled
  <2> QED
    BY <1>2, <1>3, <2>1, <2>2, <2>3 DEF DiskInv, RevisionInv
<1>5. OrderInv'
  BY <1>2, <1>3 DEF DiskInv, OrderInv, StoreType, PointerType
<1>6. ReachInv'
  <2>1. \A n \in 0..MaxFence : Chain'[n] = Chain[n]
    BY <1>2, ChainSame
  <2>2. Ancestors(cur)' = Ancestors(cur) /\ Ancestors(lkg)' = Ancestors(lkg)
    BY <2>1 DEF Ancestors, StoreType, PointerType
  <2>3. Ancestors(cur) \cup Ancestors(lkg) \subseteq RevIds
    BY ChainRule DEF Ancestors, StoreType, PointerType, RevIds
  <2> QED
    BY <2>2, <2>3 DEF DiskInv, ReachInv, StoreType, PointerType
<1>7. PastInv'
  <2>1. \A n \in RevIds : revs[n].op = "cli" => revs[n].parent \in RevIds
    BY DEF DiskInv, RevisionInv
  <2>2. ApprovalProvenance' /\ ReceiptsEarned'
    BY <1>2 DEF PastInv, ApprovalProvenance, ReceiptsEarned, Content
  <2>3. ApprovalsRemembered'
    BY DEF PastInv, ApprovalsRemembered
  <2>4. CommandsPublishOwnChange'
    BY <1>2, <2>1 DEF PastInv, CommandsPublishOwnChange, Content
  <2> QED
    BY <2>2, <2>3, <2>4 DEF PastInv
<1>8. ReaderInv'
  BY <1>2, <1>3, ReaderFrame DEF DiskInv, OrderInv
<1> QED
  BY <1>4, <1>5, <1>6, <1>7, <1>8 DEF DiskInv

(* Recovery sets the damaged revisions aside. *)
LEMMA InvQuarantine == ASSUME StoreInv, StoreType', Quarantine PROVE StoreInv'
<1> USE IdRange DEF StoreInv
<1>0. /\ w.pc = "quarantine"
      /\ UNCHANGED <<fence, marker, cur, lkg, hist, legacy, rd, everLkg, blessed>>
  BY DEF Quarantine, ghosts
<1>1. w'.pc = "release" /\ w'.op = w.op /\ w'.rev = w.rev /\ w'.approval = w.approval
  BY Going DEF Quarantine, StoreType, HolderType, HolderPcs
<1>2. /\ w.op = "recover" /\ cur = w.rev /\ w.rev \in RevIds
      /\ revs[w.rev].parent < w.base /\ w.base < w.rev /\ marker < w.base /\ w.base \notin everLkg
      /\ Settled(w.base) /\ (lkg = w.rev \/ lkg < w.base)
  BY <1>0 DEF HoldInv, WorkInv, PointerInv, RecoveryInv, Swapped, StoreType, HolderType, Holders
<1>3. w.base \in RevIds /\ revs[w.rev].parent \in 0..MaxFence /\ w.base # 0
  BY <1>2 DEF StoreType, HolderType, Holders, RevType, Revisions, RevIds
<1>4. PICK b \in RevIds : b = w.base
  BY <1>3
<1>5. b \notin Ancestors(cur) \cup Ancestors(lkg)
  <2>1. \A n \in 0..MaxFence : Chain[n] = Walk(Chain, n) /\ Chain[n] \subseteq 1..n
    BY ChainRule DEF StoreType
  <2>2. Chain[w.rev] \subseteq {w.rev} \cup 1..revs[w.rev].parent
    <3>1. Chain[w.rev] = Walk(Chain, w.rev) /\ w.rev # 0
      BY <1>2, <2>1
    <3>2. Chain[revs[w.rev].parent] \subseteq 1..revs[w.rev].parent
      BY <1>3, <2>1
    <3> QED
      BY <3>1, <3>2 DEF Walk
  <2>3. b \notin Chain[w.rev]
    BY <1>2, <1>3, <1>4, <2>2
  <2>4. lkg < b => b \notin Chain[lkg]
    BY <1>3, <1>4, <2>1 DEF StoreType, PointerType
  <2> QED
    BY <1>2, <1>4, <2>3, <2>4 DEF Ancestors
<1>6. /\ revs'[b] = [revs[b] EXCEPT !.st = "quarantined"] /\ revs'[b].st = "quarantined"
      /\ \A n \in RevIds \ {b} : revs'[n] = revs[n]
  BY <1>4 DEF Quarantine, StoreType, RevType, Revisions
<1>7. DiskInv' /\ PastInv' /\ ReaderInv'
  <2>1. Settled(b) /\ Settled(b)' /\ marker # b /\ b \notin everLkg
    BY <1>2, <1>4, <1>6 DEF Settled
  <2> QED
    BY <1>0, <1>5, <1>6, <2>1, InvDamage
<1>8. WorkInv'
  BY <1>0, <1>1 DEF HoldInv, WorkInv, Early, Pending, Built, Swapped
<1>9. PointerInv' /\ RecoveryInv' /\ CommandInv'
  BY <1>1 DEF PointerInv, RecoveryInv, CommandInv, Pending, Swapped
<1>10. ApprovalInv'
  BY <1>0, <1>1 DEF HoldInv, ApprovalInv
<1> QED
  BY <1>7, <1>8, <1>9, <1>10 DEF HoldInv

(* A file of a revision is damaged. *)
LEMMA InvCorrupt ==
    ASSUME StoreInv, StoreType', NEW r \in RevIds, NEW role \in {"derived", "raw"}, Corrupt(r, role)
    PROVE  StoreInv'
<1> USE IdRange DEF StoreInv
<1>0. /\ revs[r].st = "ok"
      /\ UNCHANGED <<fence, marker, cur, lkg, hist, legacy, w, rd, everLkg, blessed>>
  BY DEF Corrupt, ghosts
<1>1. /\ revs'[r] = [revs[r] EXCEPT !.st = role] /\ revs'[r].st = role
      /\ \A n \in RevIds \ {r} : revs'[n] = revs[n]
  BY DEF Corrupt, StoreType, RevType, Revisions
<1>2. Settled(r) /\ Settled(r)' /\ revs'[r].st \in Published /\ revs'[r].st # "quarantined"
  BY <1>0, <1>1 DEF Settled, Published
<1>3. DiskInv' /\ PastInv' /\ ReaderInv'
  BY <1>0, <1>1, <1>2, InvDamage
<1>4. /\ \A n \in RevIds : /\ revs'[n].parent = revs[n].parent /\ revs'[n].op = revs[n].op
                           /\ revs'[n].content = revs[n].content
                           /\ Settled(n) => Settled(n)'
                           /\ revs[n].st \in Published => revs'[n].st \in Published
                           /\ revs[n].st \in {"absent", "partial", "derived"} => revs'[n].st = revs[n].st
  BY <1>0, <1>1, <1>2 DEF StoreType, RevType, Revisions, Settled
<1>5. w.pc # "idle" => w.rev \in RevIds
  BY DEF HoldInv, WorkInv, StoreType, PointerType, RevIds
<1>6. WorkInv'
  BY <1>0, <1>4, <1>5 DEF HoldInv, WorkInv, Early, Pending, Built, Swapped, Content
<1>7. PointerInv'
  BY <1>0, <1>4 DEF HoldInv, PointerInv, StoreType, PointerType
<1>8. RecoveryInv'
  <2>1. w.op = "recover" /\ w.pc \in Pending => cur \in RevIds /\ lkg \in RevIds
    BY DEF HoldInv, RecoveryInv, StoreType, PointerType
  <2>2. w.op = "recover" /\ w.pc \in Swapped => w.base \in RevIds /\ w.rev \in RevIds
    <3>1. w.op = "recover" /\ w.pc \in Swapped => w.rev \in RevIds
      BY <1>5 DEF Swapped
    <3> QED
      BY <3>1 DEF HoldInv, RecoveryInv, StoreType, RevType, Revisions, HolderType, Holders, RevIds
  <2> QED
    BY <1>0, <1>4, <2>1, <2>2 DEF HoldInv, RecoveryInv, Content
<1>9. ApprovalInv'
  BY <1>0 DEF HoldInv, ApprovalInv
<1>10. CommandInv'
  <2>1. w.op = "cli" /\ w.pc \in {"build", "manifest"} => w.base \in RevIds
    BY DEF HoldInv, PointerInv, Pending, StoreType, PointerType
  <2> QED
    BY <1>0, <1>4, <2>1 DEF HoldInv, CommandInv, Content, StoreType, PointerType
<1> QED
  BY <1>3, <1>6, <1>7, <1>8, <1>9, <1>10 DEF HoldInv

-----------------------------------------------------------------------------
(* The environment and the reader. *)
LEMMA InvCrash == ASSUME StoreInv, StoreType', Crash PROVE StoreInv'
<1> USE IdRange DEF StoreInv
<1>0. UNCHANGED <<fence, revs, marker, cur, lkg, legacy, rd, everLkg, blessed>> /\ w' = Idle
  BY DEF Crash, ghosts, Release
<1>1. \A r \in RevIds : r # lkg => hist'[r] = hist[r]
  <2>1. w.pc = "newHistory" => w.rev = lkg
    BY DEF HoldInv, PointerInv
  <2> DEFINE half == IF TornWrites THEN {<<"oldHistory", lkg>>, <<"newHistory", w.rev>>} ELSE {}
  <2>2. hist' \in {hist} \cup {[hist EXCEPT ![r] = "torn"] :
                        r \in {r \in RevIds : <<w.pc, r>> \in half /\ hist[r] = "absent"}}
    BY DEF Crash
  <2>3. \A r : <<w.pc, r>> \in half => r = lkg
    BY <2>1
  <2> HIDE DEF half
  <2>4. CASE hist' = hist
    BY <2>4
  <2>5. CASE hist' # hist
    <3>1. PICK t \in RevIds : <<w.pc, t>> \in half /\ hist' = [hist EXCEPT ![t] = "torn"]
      BY <2>2, <2>5
    <3> QED
      BY <2>3, <3>1 DEF StoreType, PointerType
  <2> QED
    BY <2>4, <2>5
<1>2. PastInv'
  <2>1. ApprovalProvenance' /\ CommandsPublishOwnChange'
    BY <1>0 DEF PastInv, ApprovalProvenance, CommandsPublishOwnChange, Content
  <2>2. ApprovalsRemembered'
    BY <1>0, <1>1 DEF PastInv, ApprovalsRemembered
  <2>3. ReceiptsEarned'
    BY <1>0, <1>1 DEF PastInv, ReceiptsEarned, DiskInv, OrderInv
  <2> QED
    BY <2>1, <2>2, <2>3 DEF PastInv
<1>3. DiskInv' /\ HoldInv'
  BY <1>0, DiskFrame, Resting
<1>4. ReaderInv'
  <2>1. \A r \in RevIds : Settled(r) => Settled(r)' /\ revs'[r].content = revs[r].content
    BY <1>0 DEF Settled
  <2> QED
    BY <1>0, <2>1, ReaderFrame DEF DiskInv, OrderInv
<1> QED
  BY <1>2, <1>3, <1>4

(* A user edits the files that the store is built from. *)
LEMMA InvEdit ==
    ASSUME StoreInv, NEW f \in Fields, NEW v \in FieldValues(f), Edit(f, v) PROVE HoldInv'
<1> USE DEF StoreInv
<1>0. UNCHANGED <<fence, revs, marker, cur, lkg, hist, rd, everLkg, blessed>>
  BY DEF Edit, ghosts
<1>1. /\ w'.pc = w.pc /\ w'.op = w.op /\ w'.rev = w.rev /\ w'.base = w.base
      /\ w'.content = w.content /\ w'.approval = w.approval /\ w'.field = w.field
      /\ w'.edited = (w.pc # "idle")
  BY DEF Edit, StoreType, HolderType, Holders
<1>2. WorkInv' /\ PointerInv'
  BY <1>0, <1>1 DEF HoldInv, WorkInv, PointerInv, Settled, Content
<1>3. RecoveryInv' /\ ApprovalInv'
  BY <1>0, <1>1 DEF HoldInv, RecoveryInv, ApprovalInv, Settled, Content
<1>4. CommandInv'
  BY <1>1 DEF CommandInv
<1> QED
  BY <1>2, <1>3, <1>4 DEF HoldInv

(* A reader takes one step. *)
LEMMA InvReader ==
    ASSUME StoreInv, StoreType', ReadPointer \/ ReadRevision \/ ReadApproval \/ ServeRouting
    PROVE  StoreInv'
<1> USE IdRange DEF StoreInv
<1>0. UNCHANGED <<fence, revs, marker, cur, lkg, hist, legacy, w, everLkg, blessed>>
  BY DEF ReadPointer, ReadRevision, ReadApproval, ServeRouting, disk, ghosts
<1>1. DiskInv' /\ PastInv' /\ HoldInv'
  BY <1>0, DiskFrame, PastFrame, HolderFrame
<1>2. SUFFICES ReaderInv'
  BY <1>1
<1>3. lkg # 0 => lkg \in everLkg
  BY DEF DiskInv, OrderInv
<1>4. CASE rd' = NoRead
  BY <1>4 DEF ReaderInv, NoRead
<1>5. CASE ReadPointer
  <2>1. rd'.pc = "validate" /\ rd'.cur = cur /\ cur # 0 /\ rd'.sel = 0
    BY <1>5 DEF ReadPointer
  <2>2. Settled(cur)
    BY <2>1, HeadReached DEF DiskInv, Settled
  <2> QED
    BY <1>0, <2>1, <2>2 DEF ReaderInv, Settled
<1>6. CASE ReadRevision /\ rd' # NoRead
  <2>1. rd.pc = "validate" /\ rd.cur # 0 /\ Settled(rd.cur)
    BY <1>6 DEF ReadRevision, ReaderInv
  <2>2. CASE Valid(rd.cur) /\ rd' = [rd EXCEPT !.pc = "approval", !.sel = rd.cur]
    <3>1. rd'.pc = "approval" /\ rd'.sel = rd.cur /\ rd'.cur = rd.cur
      BY <2>2 DEF StoreType, ReaderType
    <3> QED
      BY <1>0, <2>1, <3>1 DEF ReaderInv, Settled
  <2>3. CASE FallsBack(rd.cur) /\ rd' = [rd EXCEPT !.pc = "legacy", !.sel = lkg]
    <3>1. rd'.pc = "legacy" /\ rd'.sel = lkg /\ rd'.cur = rd.cur
      BY <2>3 DEF StoreType, ReaderType
    <3>2. lkg # 0 /\ Digests(Content(lkg)) = Digests(Content(rd.cur))
      BY <2>3 DEF FallsBack
    <3> QED
      BY <1>0, <1>3, <2>1, <3>1, <3>2 DEF ReaderInv, Settled, Content
  <2> QED
    BY <1>1, <1>6, <2>2, <2>3 DEF ReadRevision
<1>7. CASE ReadApproval /\ rd' # NoRead
  <2>1. rd.pc = "approval" /\ rd.cur # 0 /\ Settled(rd.cur)
    BY <1>7 DEF ReadApproval, ReaderInv
  <2>2. /\ lkg # 0 /\ (lkg # rd.cur => Digests(Content(lkg)) = Digests(Content(rd.cur)))
        /\ rd' = [rd EXCEPT !.pc = "legacy", !.sel = lkg]
    BY <1>7 DEF ReadApproval
  <2>3. rd'.pc = "legacy" /\ rd'.sel = lkg /\ rd'.cur = rd.cur
    BY <2>2 DEF StoreType, ReaderType
  <2> QED
    BY <1>0, <1>3, <2>1, <2>2, <2>3 DEF ReaderInv, Settled, Content
<1>8. CASE ServeRouting /\ rd' # NoRead
  <2>1. rd.pc = "legacy" /\ Eligible(Content(rd.sel)) /\ rd' = [rd EXCEPT !.pc = "served"]
    BY <1>8 DEF ServeRouting
  <2>2. rd'.pc = "served" /\ rd'.sel = rd.sel /\ rd'.cur = rd.cur
    BY <2>1 DEF StoreType, ReaderType
  <2> QED
    BY <1>0, <2>1, <2>2 DEF ReaderInv, Settled, Content
<1> QED
  BY <1>1, <1>4, <1>5, <1>6, <1>7, <1>8

-----------------------------------------------------------------------------
(* The invariant holds. *)
LEMMA InvInit == Init => StoreInv
<1> SUFFICES ASSUME Init PROVE StoreInv
  OBVIOUS
<1> USE StoreAssumption
<1>1. /\ w.pc = "idle" /\ w.op = "none" /\ w.approval = "none" /\ rd.pc = "idle"
      /\ marker = 0 /\ cur = 0 /\ lkg = 0 /\ everLkg = {} /\ fence = 0
      /\ \A r \in RevIds : revs[r].st = "absent" /\ revs[r].op = "none" /\ hist[r] = "absent"
  BY DEF Init, Idle, NoRead, NoRev
<1>2. StoreType
  <2>1. RevType
    BY DEF Init, NoRev, RevType, Revisions, RevStates, Ops
  <2>2. PointerType /\ PlanType
    BY DEF Init, PointerType, PlanType
  <2>3. HolderType
    BY IdleTyped, InputsAssumption DEF Init, HolderType
  <2>4. ReaderType
    BY DEF Init, NoRead, ReaderType, ReaderPcs
  <2> QED
    BY <2>1, <2>2, <2>3, <2>4 DEF StoreType
<1>3. RevisionInv /\ OrderInv
  BY <1>1 DEF RevisionInv, OrderInv, Settled, Published
<1>4. ReachInv
  <2>1. Chain[0] \subseteq 1..0
    BY <1>2, ChainRule DEF StoreType
  <2> QED
    BY <1>1, <2>1 DEF ReachInv, Ancestors
<1>5. HoldInv
  BY <1>1 DEF HoldInv, WorkInv, PointerInv, RecoveryInv, ApprovalInv, CommandInv, Early, Pending,
     Built, Swapped
<1>6. PastInv /\ ReaderInv
  BY <1>1 DEF PastInv, ApprovalProvenance, ApprovalsRemembered, ReceiptsEarned,
     CommandsPublishOwnChange, ReaderInv
<1> QED
  BY <1>2, <1>3, <1>4, <1>5, <1>6 DEF StoreInv, DiskInv

(* Every step of the holder of the lock keeps the invariant. *)
LEMMA InvHolder == ASSUME StoreInv, StoreType', Holder PROVE StoreInv'
<1> USE DEF disk, ghosts
<1>0. fence \in Nat
  BY IdRange DEF StoreInv
<1>1. ASSUME \/ Preflight \/ Verify \/ CheckMigrate \/ CheckSnapshot \/ PrePublishRefuses
             \/ (\E t \in RevIds : CheckRollback(t)) \/ CheckRecover \/ CheckRepair
             \/ RepairDone \/ ReleaseLock
      PROVE StoreInv'
  <2>1. /\ UNCHANGED <<revs, marker, cur, lkg, hist, rd, everLkg, blessed>> /\ fence' = fence
    BY <1>1 DEF Preflight, Verify, CheckMigrate, CheckSnapshot, PrePublishRefuses, CheckRollback,
       CheckRecover, CheckRepair, RepairDone, ReleaseLock
  <2>2. HoldInv'
    BY <1>1, InvPreflight, InvVerify, InvCheckMigrate, InvCheck, InvCheckRepair, InvRepair
  <2> QED
    BY <1>0, <2>1, <2>2, QuietStep
<1>2. ASSUME NEW f \in Fields, NEW v \in FieldValues(f), Mutate(f, v) PROVE StoreInv'
  <2>1. /\ UNCHANGED <<revs, marker, cur, lkg, hist, rd, everLkg, blessed>> /\ fence' = fence
    BY <1>2 DEF Mutate
  <2> QED
    BY <1>0, <1>2, <2>1, InvMutate, QuietStep
<1>3. ASSUME NEW f \in Fields, RepairFile(f) PROVE StoreInv'
  <2>1. /\ UNCHANGED <<revs, marker, cur, lkg, hist, rd, everLkg, blessed>> /\ fence' = fence
    BY <1>3 DEF RepairFile
  <2> QED
    BY <1>0, <1>3, <2>1, InvRepair, QuietStep
<1> QED
  BY <1>1, <1>2, <1>3, InvBuildArtifacts, InvWriteManifest, InvWriteMarker, InvSwapCurrent,
     InvPersistOldApproval, InvSwapLkg, InvPersistNewApproval, InvQuarantine DEF Holder

(* Every step keeps the invariant. *)
LEMMA InvNext == StoreInv /\ [Next]_vars => StoreInv'
<1> SUFFICES ASSUME StoreInv, [Next]_vars PROVE StoreInv'
  OBVIOUS
<1> USE DEF disk, ghosts
<1>0. StoreType' /\ fence \in Nat
  BY TypeNext, IdRange DEF StoreInv, HoldInv
<1>1. CASE UNCHANGED vars
  <2>1. HoldInv' /\ fence' = fence
    BY <1>1, HolderFrame DEF vars, StoreInv
  <2> QED
    BY <1>0, <1>1, <2>1, QuietStep DEF vars
<1>2. ASSUME NEW c \in Inputs, Prepare(c) PROVE StoreInv'
  <2>1. HoldInv' /\ fence' = fence
    BY <1>2, HolderFrame DEF Prepare, StoreInv
  <2> QED
    BY <1>0, <1>2, <2>1, QuietStep DEF Prepare
<1>3. ASSUME NEW op \in ActiveOps, NEW a \in Approvals, Acquire(op, a) PROVE StoreInv'
  <2>1. HoldInv'
    BY <1>3, InvAcquire
  <2>2. fence' = fence + 1 /\ UNCHANGED <<revs, marker, cur, lkg, hist, rd, everLkg, blessed>>
    BY <1>3 DEF Acquire
  <2>3. fence <= fence'
    BY <1>0, <2>2
  <2> QED
    BY <1>0, <2>1, <2>2, <2>3, QuietStep
<1>4. ASSUME NEW f \in Fields, NEW v \in FieldValues(f), Edit(f, v) PROVE StoreInv'
  <2>1. HoldInv' /\ fence' = fence
    BY <1>4, InvEdit DEF Edit
  <2> QED
    BY <1>0, <1>4, <2>1, QuietStep DEF Edit
<1>5. ASSUME NEW r \in RevIds, NEW role \in {"derived", "raw"}, Corrupt(r, role) PROVE StoreInv'
  BY <1>0, <1>5, InvCorrupt
<1> QED
  BY <1>0, <1>1, <1>2, <1>3, <1>4, <1>5, InvHolder, InvReader, InvCrash DEF Next

(* The invariant holds in every state. *)
LEMMA Invariance == Spec => []StoreInv
  BY InvInit, InvNext, PTL DEF Spec

(* The state of the store keeps its declared shape (state.ts, types.ts).   *)
THEOREM TypeCorrect == Spec => []TypeOK
<1>1. StoreInv => TypeOK
  BY DEF StoreInv, StoreType, RevType, Revisions, PointerType, HolderType, Holders, TypeOK
<1> QED
  BY <1>1, Invariance, PTL

(* The pointers, and the parents that rollback and history walk, only ever *)
(* reach complete revisions, whatever crashes or is quarantined.           *)
THEOREM PointersReachComplete == Spec => []PointersComplete
<1>1. StoreInv => PointersComplete
  BY HeadReached DEF StoreInv, DiskInv, ReachInv, PointersComplete
<1> QED
  BY <1>1, Invariance, PTL

(* Last-known-good content was explicitly approved: neither carry-forward  *)
(* nor recovery blesses changed content.                                   *)
THEOREM ApprovalsHaveProvenance == Spec => []ApprovalProvenance
<1>1. StoreInv => ApprovalProvenance
  BY DEF StoreInv, PastInv
<1> QED
  BY <1>1, Invariance, PTL

(* Every revision that last-known-good has moved over keeps a readable     *)
(* receipt and its directory.                                              *)
THEOREM ApprovalsStay == Spec => []ApprovalsRemembered
<1>1. StoreInv => ApprovalsRemembered
  BY DEF StoreInv, PastInv
<1> QED
  BY <1>1, Invariance, PTL

(* Approval receipts exist only for revisions that became last-known-good. *)
THEOREM ReceiptsAreEarned == Spec => []ReceiptsEarned
<1>1. StoreInv => ReceiptsEarned
  BY DEF StoreInv, PastInv
<1> QED
  BY <1>1, Invariance, PTL

(* The lock-free routing read serves only approved, eligible content equal *)
(* to that of the current revision it started from.                        *)
THEOREM ReadersServeApproved == Spec => []RoutingServesApproved
<1>1. StoreInv => RoutingServesApproved
  BY DEF StoreInv, ReaderInv, RoutingServesApproved
<1> QED
  BY <1>1, Invariance, PTL

(* A command publishes its own change over the revision it builds on.      *)
THEOREM CommandsPublishTheirs == Spec => []CommandsPublishOwnChange
<1>1. StoreInv => CommandsPublishOwnChange
  BY DEF StoreInv, PastInv
<1> QED
  BY <1>1, Invariance, PTL

(* A publication extends the history of current; only a recovery of a      *)
(* damaged revision drops one, and with the same content.                  *)
THEOREM HistoryGrows == Spec => OnlyRecoveryDropsHistory
<1> DEFINE A == cur' # cur /\ cur # 0 =>
                   \/ Ancestors(cur) \subseteq Ancestors(cur)'
                   \/ /\ revs[cur'].op = "recover" /\ revs[cur].st = "derived"
                      /\ Digests(Content(cur')) = Digests(Content(cur))
<1>1. StoreInv /\ [Next]_vars => [A]_vars
  <2> SUFFICES ASSUME StoreInv, Next, cur' # cur, cur # 0 PROVE A
    OBVIOUS
  <2>1. SwapCurrent
    BY DEF Next, Holder, Prepare, Acquire, Preflight, Verify, CheckMigrate, CheckSnapshot,
       PrePublishRefuses, CheckRollback, CheckRecover, CheckRepair, RepairDone, ReleaseLock, Mutate,
       RepairFile, BuildArtifacts, WriteManifest, WriteMarker, PersistOldApproval, SwapLkg,
       PersistNewApproval, Quarantine, ReadPointer, ReadRevision, ReadApproval, ServeRouting, Crash,
       Corrupt, Edit, disk
  <2>2. w.pc = "swap" /\ cur' = w.rev /\ revs' = revs /\ StoreType /\ StoreType'
    BY <2>1, TypeNext DEF SwapCurrent, StoreInv, HoldInv
  <2>3. /\ w.op # "migrate" /\ w.base = cur /\ w.rev \in RevIds /\ cur < w.rev
        /\ revs[w.rev].parent = (IF w.op = "recover" THEN lkg ELSE w.base)
        /\ revs[w.rev].op = w.op /\ Content(w.rev) = w.content
    BY <2>2, IdRange DEF StoreInv, HoldInv, WorkInv, PointerInv, Pending, Built, StoreType,
       HolderType, Holders
  <2>4. CASE w.op = "recover"
    BY <2>2, <2>3, <2>4 DEF StoreInv, HoldInv, RecoveryInv, Pending
  <2>5. CASE w.op # "recover"
    <3>1. Ancestors(cur)' = Chain[w.rev]
      BY <2>2, <2>3, IdRange, ChainSame DEF Ancestors
    <3>2. Chain[w.rev] = Walk(Chain, w.rev) /\ w.rev # 0
      BY <2>2, <2>3, IdRange, ChainRule DEF StoreType
    <3>3. Chain[cur] \subseteq Walk(Chain, w.rev)
      BY <2>3, <2>5, <3>2 DEF Walk
    <3> QED
      BY <3>1, <3>2, <3>3 DEF Ancestors
  <2> QED
    BY <2>4, <2>5
<1> QED
  BY <1>1, Invariance, PTL DEF Spec, OnlyRecoveryDropsHistory

-----------------------------------------------------------------------------
(* The store keeps its side of the lock's promise: the pointers are moved  *)
(* by the holder alone, from the revision that it replaces to a later one. *)
(* A recovery is the exception; it leaves the damaged revision behind and  *)
(* continues the last approved one.                                        *)
RecoveryPublished == w.op = "recover" /\ SwapCurrent

(* The current pointer as the register of OneWriter, and the holder known  *)
(* by its fencing token.                                                   *)
Pointer == [id |-> cur, parent |-> IF cur = 0 THEN 0 ELSE revs[cur].parent, seq |-> cur]
Pointers == [id : 0..MaxFence, parent : 0..MaxFence, seq : 0..MaxFence]
Holding == IF w.pc = "idle" THEN {} ELSE {fence}
Turn == INSTANCE OneWriter WITH
    Writers <- RevIds, Values <- Pointers, inside <- Holding, register <- Pointer

(* Every step but the first of an operation keeps the token, and who does  *)
(* not hold the lock does not come to hold it.                             *)
Takes == w.pc = "idle" /\ w'.pc # "idle" /\ fence' = fence + 1 /\ fence < MaxFence
Keeps == fence' = fence /\ (w.pc = "idle" => w'.pc = "idle")

(* The holder's steps after the first. *)
LEMMA HolderKeeps == ASSUME Holder PROVE Keeps
<1>1. ASSUME Preflight \/ CheckMigrate \/ CheckSnapshot \/ PrePublishRefuses \/ CheckRecover
             \/ CheckRepair \/ BuildArtifacts PROVE Keeps
  BY <1>1 DEF Preflight, CheckMigrate, CheckSnapshot, PrePublishRefuses, CheckRecover, CheckRepair,
     BuildArtifacts, Keeps
<1>2. ASSUME WriteManifest \/ Verify \/ WriteMarker \/ SwapCurrent \/ PersistOldApproval \/ SwapLkg
             \/ PersistNewApproval PROVE Keeps
  BY <1>2 DEF WriteManifest, Verify, WriteMarker, SwapCurrent, PersistOldApproval, SwapLkg,
     PersistNewApproval, Keeps
<1>3. ASSUME RepairDone \/ Quarantine \/ ReleaseLock PROVE Keeps
  BY <1>3 DEF RepairDone, Quarantine, ReleaseLock, Keeps
<1>4. ASSUME NEW f \in Fields, NEW v \in FieldValues(f), Mutate(f, v) PROVE Keeps
  BY <1>4 DEF Mutate, Keeps
<1>5. ASSUME NEW r \in RevIds, CheckRollback(r) PROVE Keeps
  BY <1>5 DEF CheckRollback, Keeps
<1>6. ASSUME NEW f \in Fields, RepairFile(f) PROVE Keeps
  BY <1>6 DEF RepairFile, Keeps
<1> QED
  BY <1>1, <1>2, <1>3, <1>4, <1>5, <1>6 DEF Holder

(* Every step takes the lock, or leaves it as it is or gives it up. *)
LEMMA HolderMoves ==
    ASSUME StoreInv, Next PROVE Takes \/ Keeps
<1>0. w \in Holders
  BY DEF StoreInv, StoreType, HolderType
<1>1. ASSUME NEW op \in ActiveOps, NEW a \in Approvals, Acquire(op, a) PROVE Takes
  <2>1. w'.pc = IF op = "cli" THEN "preflight" ELSE "check"
    BY <1>1, Acquiring DEF StoreInv
  <2> QED
    BY <1>1, <2>1 DEF Takes, Acquire
<1>2. ASSUME Holder PROVE Keeps
  BY <1>2, HolderKeeps
<1>3. ASSUME ReadPointer \/ ReadRevision \/ ReadApproval \/ ServeRouting PROVE Keeps
  BY <1>3 DEF ReadPointer, ReadRevision, ReadApproval, ServeRouting, Keeps
<1>4. ASSUME Crash PROVE Keeps
  BY <1>4 DEF Crash, Keeps
<1>5. ASSUME NEW r \in RevIds, NEW role \in {"derived", "raw"}, Corrupt(r, role) PROVE Keeps
  BY <1>5 DEF Corrupt, Keeps
<1>6. ASSUME NEW c \in Inputs, Prepare(c) PROVE Keeps
  BY <1>6 DEF Prepare, Keeps
<1>7. ASSUME NEW f \in Fields, NEW v \in FieldValues(f), Edit(f, v) PROVE Keeps
  BY <1>0, <1>7 DEF Edit, Holders, Keeps
<1> QED
  BY <1>1, <1>2, <1>3, <1>4, <1>5, <1>6, <1>7 DEF Next

(* Only the swap of the holder moves the pointer or changes what it names. *)
SameHead == cur' = cur /\ (cur # 0 => revs'[cur].parent = revs[cur].parent)

(* The holder's other steps. *)
LEMMA HolderPointer ==
    ASSUME StoreInv, Holder, ~SwapCurrent PROVE SameHead
<1> USE DEF disk
<1>0. RevType /\ w \in Holders /\ (cur # 0 => cur \in RevIds)
  BY IdRange DEF StoreInv, StoreType, PointerType, HolderType
<1>1. ASSUME Preflight \/ CheckMigrate \/ CheckSnapshot \/ PrePublishRefuses \/ CheckRecover
             \/ CheckRepair \/ Verify \/ WriteMarker PROVE SameHead
  <2>1. cur' = cur /\ revs' = revs
    BY <1>1 DEF Preflight, CheckMigrate, CheckSnapshot, PrePublishRefuses, CheckRecover,
       CheckRepair, Verify, WriteMarker
  <2> QED
    BY <2>1 DEF SameHead
<1>2. ASSUME PersistOldApproval \/ SwapLkg \/ PersistNewApproval \/ RepairDone \/ ReleaseLock
      PROVE SameHead
  <2>1. cur' = cur /\ revs' = revs
    BY <1>2 DEF PersistOldApproval, SwapLkg, PersistNewApproval, RepairDone, ReleaseLock
  <2> QED
    BY <2>1 DEF SameHead
<1>3. ASSUME NEW f \in Fields, NEW v \in FieldValues(f), Mutate(f, v) PROVE SameHead
  BY <1>3 DEF Mutate, SameHead
<1>4. ASSUME NEW r \in RevIds, CheckRollback(r) PROVE SameHead
  BY <1>4 DEF CheckRollback, SameHead
<1>5. ASSUME NEW f \in Fields, RepairFile(f) PROVE SameHead
  BY <1>5 DEF RepairFile, SameHead
<1>6. ASSUME BuildArtifacts PROVE SameHead
  BY <1>0, <1>6 DEF BuildArtifacts, SameHead, RevType, Revisions
<1>7. ASSUME Quarantine PROVE SameHead
  BY <1>0, <1>7 DEF Quarantine, SameHead, RevType, Revisions
<1>8. ASSUME WriteManifest PROVE SameHead
  <2>1. w.rev # cur
    BY <1>0, <1>8 DEF WriteManifest, StoreInv, HoldInv, PointerInv, Pending, Holders
  <2> DEFINE v == [st |-> "ok", content |-> w.content,
                   parent |-> IF w.op = "recover" THEN lkg ELSE w.base,
                   op |-> w.op, field |-> w.field, edited |-> w.edited]
  <2>2. cur' = cur /\ revs' = [revs EXCEPT ![w.rev] = v]
    BY <1>8 DEF WriteManifest
  <2> HIDE DEF v
  <2> QED
    BY <1>0, <2>1, <2>2 DEF SameHead, RevType
<1> QED
  BY <1>1, <1>2, <1>3, <1>4, <1>5, <1>6, <1>7, <1>8 DEF Holder

(* The steps of everyone. *)
LEMMA PointerStays ==
    ASSUME StoreInv, Next, ~SwapCurrent PROVE UNCHANGED Pointer
<1> USE DEF disk
<1>0. RevType /\ (cur # 0 => cur \in RevIds)
  BY IdRange DEF StoreInv, StoreType, PointerType
<1>1. ASSUME ReadPointer \/ ReadRevision \/ ReadApproval \/ ServeRouting PROVE SameHead
  BY <1>1 DEF ReadPointer, ReadRevision, ReadApproval, ServeRouting, SameHead
<1>2. ASSUME Crash PROVE SameHead
  BY <1>2 DEF Crash, SameHead
<1>3. ASSUME NEW r \in RevIds, NEW role \in {"derived", "raw"}, Corrupt(r, role) PROVE SameHead
  BY <1>0, <1>3 DEF Corrupt, RevType, Revisions, SameHead
<1>4. ASSUME NEW c \in Inputs, Prepare(c) PROVE SameHead
  BY <1>4 DEF Prepare, SameHead
<1>5. ASSUME NEW f \in Fields, NEW v \in FieldValues(f), Edit(f, v) PROVE SameHead
  BY <1>5 DEF Edit, SameHead
<1>6. ASSUME NEW op \in ActiveOps, NEW a \in Approvals, Acquire(op, a) PROVE SameHead
  BY <1>6 DEF Acquire, SameHead
<1>7. SameHead
  BY <1>1, <1>2, <1>3, <1>4, <1>5, <1>6, HolderPointer DEF Next
<1> QED
  BY <1>7 DEF Pointer, SameHead

(* A swap is a write of the register, on the revision that it replaces.    *)
LEMMA SwapWrites ==
    ASSUME StoreInv, StoreType', SwapCurrent, w.op # "recover" PROVE Turn!Write(fence)
<1>1. /\ w.pc = "swap" /\ cur' = w.rev /\ UNCHANGED <<revs, fence>>
      /\ w'.pc # "idle"
  <2>1. w \in Holders
    BY DEF StoreInv, StoreType, HolderType
  <2> QED
    BY <2>1 DEF SwapCurrent, Goto, AfterPublication, Holders
<1>2. Holding = {fence} /\ UNCHANGED Holding
  BY <1>1 DEF Holding
<1>3. /\ cur < w.rev /\ w.rev \in RevIds /\ cur \in 0..MaxFence
      /\ revs[w.rev].parent = w.base /\ w.base = cur
  BY <1>1, IdRange DEF StoreInv, HoldInv, WorkInv, PointerInv, Pending, Built, StoreType,
     HolderType, Holders, PointerType
<1>4. Pointer' = [id |-> w.rev, parent |-> cur, seq |-> w.rev]
  BY <1>1, <1>3 DEF Pointer, RevIds
<1>5. Pointer' \in Pointers /\ Pointer.id = cur /\ Pointer.seq = cur
  BY <1>3, <1>4 DEF Pointers, Pointer, RevIds
<1> QED
  BY <1>2, <1>3, <1>4, <1>5 DEF Turn!Write, RevIds

(* Every step of the store is a step of the register, or none, but for     *)
(* the publication of a recovery.                                          *)
LEMMA TurnStep ==
    ASSUME StoreInv, [Next]_vars, ~RecoveryPublished
    PROVE  [Turn!Next]_<<Holding, Pointer>>
<1>1. CASE UNCHANGED vars
  BY <1>1 DEF vars, Holding, Pointer
<1>2. CASE SwapCurrent
  <2>1. w.pc = "swap" /\ fence \in RevIds /\ StoreType'
    BY <1>2, TypeNext, IdRange DEF SwapCurrent, StoreInv, HoldInv, WorkInv, StoreType, PointerType
  <2> QED
    BY <1>2, <2>1, SwapWrites DEF Turn!Next, RecoveryPublished
<1>3. CASE Next /\ ~SwapCurrent
  <2>1. UNCHANGED Pointer
    BY <1>3, PointerStays
  <2>2. fence \in 0..MaxFence /\ MaxFence \in Nat /\ (w.pc # "idle" => fence \in RevIds)
    BY StoreAssumption DEF StoreInv, StoreType, PointerType, HoldInv, WorkInv, RevIds
  <2>3. CASE /\ w.pc = "idle" /\ w'.pc # "idle"
             /\ fence' = fence + 1 /\ fence < MaxFence
    <3>1. fence + 1 \in RevIds /\ Holding = {} /\ Holding' = {fence + 1}
      BY <2>2, <2>3 DEF Holding, RevIds
    <3> QED
      BY <2>1, <3>1 DEF Turn!Next, Turn!Enter
  <2>4. CASE fence' = fence /\ (w.pc = "idle" => w'.pc = "idle")
    <3>1. CASE w.pc # "idle" /\ w'.pc = "idle"
      BY <2>1, <2>2, <3>1 DEF Turn!Next, Turn!Leave, Holding
    <3>2. CASE ~(w.pc # "idle" /\ w'.pc = "idle")
      BY <2>1, <2>4, <3>2 DEF Holding
    <3> QED
      BY <3>1, <3>2
  <2> QED
    BY <1>3, <2>3, <2>4, HolderMoves DEF Takes, Keeps
<1> QED
  BY <1>2, <1>3, <1>1

(* As long as no recovery publishes, the store implements the one-writer   *)
(* register that the lock implements: whatever crashes, is damaged or      *)
(* edited, and however migrations are resumed, the current pointer is      *)
(* moved by one holder at a time, each to a revision made from the current *)
(* one, and with a later token.                                            *)
THEOREM StoreImplementsRegister == Spec /\ [][~RecoveryPublished]_vars => Turn!Spec
<1>1. Init => Turn!Init
  BY DEF Init, Idle, Turn!Init, Holding, Pointer
<1>2. StoreInv /\ [Next]_vars /\ [~RecoveryPublished]_vars
      => [Turn!Next]_<<Holding, Pointer>>
  <2>1. ASSUME UNCHANGED vars PROVE UNCHANGED <<Holding, Pointer>>
    BY <2>1 DEF vars, Holding, Pointer
  <2> QED
    BY <2>1, TurnStep
<1> QED
  BY Invariance, <1>1, <1>2, PTL DEF Spec, Turn!Spec
=============================================================================
