-------------------------- MODULE DeviceAuthProofs --------------------------
(***************************************************************************)
(* What device authorization guarantees for any number of processes that   *)
(* share a keychain, sign-ins, generations, commands and faults.           *)
(***************************************************************************)
EXTENDS DeviceAuth, TLAPS

(* A process is about to send the request of kind k, or waits for its      *)
(* answer.                                                                 *)
Doing(r, k) == r.pc = k \/ (r.pc = "wait" /\ r.msg.kind = k)
Pairing(r) == Doing(r, "exchange") \/ r.pc = "commitExchange"
Refreshing(r) == Doing(r, "refresh") \/ r.pc = "commitRefresh"
Granted(r, k) == r.pc = "wait" /\ r.msg.kind = k /\ r.ans \in {"ok", "replay"}

(* A record of family f and generation g was once in the keychain. *)
Loaded(f, g) ==
    /\ f \in Families /\ g \in Nat /\ f <= logins /\ g <= fams[f].gen
    /\ cred # None /\ cred.fam = f => g <= cred.gen
    /\ \A q \in Procs : Pairing(proc[q]) => proc[q].pub # f

(* The key k was once pending for that record: it still is, or the answer  *)
(* to it has its receipt, or the keychain has left the family.             *)
Claim(f, g, k) ==
    /\ Loaded(f, g) /\ k \in RefreshKeys /\ k.fam = f /\ k.gen = g
    /\ cred # None /\ cred.fam = f =>
          /\ g = cred.gen => pending = k
          /\ g < cred.gen => \E r \in rcpts : r.pend = k

(* A request that the service may still see. *)
MsgInv(m) ==
    /\ m.kind \in {"exchange", "refresh"} => m.fam <= logins
    /\ m.kind = "refresh" =>
          /\ m.token \in Tokens /\ m.token.gen = m.pend.gen
          /\ Claim(m.fam, m.pend.gen, m.pend)
          /\ m.ctx # None => m.pend.gen <= m.ctx /\ m.ctx <= fams[m.fam].gen

(* What a process has in memory at its place, and what it may rely on. *)
WaitInv(p, r) ==
    IF r.pc = "wait"
    THEN /\ r.msg \in Requests /\ r.msg.by = p /\ MsgInv(r.msg)
         /\ IF r.msg.kind = "refresh" THEN r.msg.fam = r.creds.fam /\ r.msg.pend = r.pend
            ELSE r.msg.fam = r.pub
    ELSE r.msg = None
PlaceInv(r) ==
    /\ r.pc = "show" => r.phase = "status"
    /\ r.pc = "logout" => r.phase = "logout"
    /\ r.pc \in {"load", "mark"} \/ Refreshing(r) =>
          r.phase \in {"status", "logout"} /\ r.pub \in Families
    /\ Doing(r, "status") => r.phase = "status" /\ r.pub \in Families
    /\ Doing(r, "revoke") => r.phase = "logout" /\ r.pub \in Families
    /\ Pairing(r) => r.pub \in Families /\ r.pub <= logins
MemoryInv(r) ==
    /\ r.pc = "mark" => r.creds \in Records /\ Loaded(r.creds.fam, r.creds.gen)
    /\ Refreshing(r) => r.creds \in Records /\ Claim(r.creds.fam, r.creds.gen, r.pend)
AnswerInv(r) ==
    /\ r.pc = "commitExchange" \/ Granted(r, "exchange") => fams[r.pub].st # "none"
    /\ r.pc = "commitRefresh" \/ Granted(r, "refresh") => r.creds.gen < fams[r.creds.fam].gen
    /\ Granted(r, "revoke") => fams[r.pub].dead
    /\ r.phase = "logout" /\ r.token # None /\ r.pc \in {"retire", "retireCred"} =>
          r.pub \in Families /\ fams[r.pub].dead
ProcInv(p, r) == WaitInv(p, r) /\ PlaceInv(r) /\ MemoryInv(r) /\ AnswerInv(r)

(* The receipt of a revocation answers only retries of the same call. *)
AckInv ==
    \A p \in acked : ~At(p, "idle") =>
        /\ Doing(proc[p], "revoke") \/ proc[p].pc \in {"retire", "retireCred"}
        /\ proc[p].phase = "logout" /\ proc[p].pub \in Families /\ fams[proc[p].pub].dead

FamInv ==
    \A f \in Families : /\ fams[f].st = "none" => fams[f].gen = 0 /\ ~fams[f].dead
                        /\ f > logins => fams[f].st = "none"
RcptInv == \A r \in rcpts : r.sealed = r.pend.gen /\ r.pend.gen < fams[r.pend.fam].gen
CredInv == (cred # None => Loaded(cred.fam, cred.gen)) /\ LostAnswerRecoverable

(* Every pairing has a family of its own, which has never been refreshed. *)
PairInv ==
    \A p \in Procs : Pairing(proc[p]) =>
        /\ fams[proc[p].pub].gen = 0
        /\ \A q \in Procs : Pairing(proc[q]) /\ proc[p].pub = proc[q].pub => p = q

Inv ==
    /\ TypeOK /\ FamInv /\ RcptInv /\ CredInv /\ PairInv /\ AckInv /\ ~reused
    /\ \A p \in Procs : ProcInv(p, proc[p])
    /\ \A m \in stray : MsgInv(m)

-----------------------------------------------------------------------------
(* What the ways to go on do to the record of a process. *)

(* The state of a process at rest. *)
LEMMA IdleIs ==
    /\ Idle \in Processes /\ Idle.pc = "idle" /\ Idle.msg = None /\ Idle.token = None
    /\ Idle.phase = "none"
<1>1. 0 \in Ids /\ 1 \in 0..1 /\ "idle" \in Pcs
  BY DeviceAuthAssumption DEF Ids, Pcs
<1> QED
  BY <1>1 DEF Idle, Processes

(* A call of refreshAccessToken ends. *)
LEMMA LeftIs ==
    ASSUME NEW r \in Processes
    PROVE  /\ Left(r) \in Processes /\ Left(r).pc = r.pc /\ Left(r).phase = r.phase
           /\ Left(r).pub = r.pub /\ Left(r).dev = r.dev /\ Left(r).token = r.token
           /\ Left(r).msg = r.msg /\ Left(r).failed = r.failed
<1>1. PICK one \in 0..1 : one = 1
  OBVIOUS
<1>2. PICK no \in BOOLEAN : no = FALSE
  OBVIOUS
<1>3. PICK s : s = [r EXCEPT !.creds = None, !.pend = None, !.ans = None, !.nest = one,
                             !.keep = no, !.twice = no]
  OBVIOUS
<1>4. /\ s \in Processes /\ s.pc = r.pc /\ s.phase = r.phase /\ s.pub = r.pub /\ s.dev = r.dev
      /\ s.token = r.token /\ s.msg = r.msg /\ s.failed = r.failed
  BY <1>3 DEF Processes
<1>5. Left(r) = s
  BY <1>1, <1>2, <1>3 DEF Left
<1> QED
  BY <1>4, <1>5

(* getAuthStatus has its result. *)
LEMMA StatusEndsIs ==
    ASSUME NEW r \in Processes
    PROVE  /\ StatusEnds(r) \in Processes /\ StatusEnds(r).pc = "logout"
           /\ StatusEnds(r).phase = "logout" /\ StatusEnds(r).msg = r.msg
  BY DEF StatusEnds, Processes, Pcs

(* refreshAccessToken has thrown to its caller. *)
LEMMA ThrownIs ==
    ASSUME NEW r \in Processes
    PROVE  /\ RefreshThrown(r) \in Processes
           /\ IF r.phase = "status"
              THEN RefreshThrown(r).pc = "logout" /\ RefreshThrown(r).phase = "logout"
              ELSE RefreshThrown(r).pc = "idle"
           /\ r.msg = None => RefreshThrown(r).msg = None
  BY IdleIs, LeftIs, StatusEndsIs DEF RefreshThrown

(* refreshAccessToken returns a token. *)
LEMMA ReturnsIs ==
    ASSUME NEW r \in Processes, NEW t \in Tokens
    PROVE  /\ RefreshReturns(r, t) \in Processes
           /\ RefreshReturns(r, t).pc = (IF r.phase = "status" THEN "status" ELSE "revoke")
           /\ RefreshReturns(r, t).phase = r.phase /\ RefreshReturns(r, t).pub = r.pub
           /\ RefreshReturns(r, t).msg = r.msg
<1>1. PICK l \in Processes : /\ l = Left(r) /\ l.phase = r.phase /\ l.pub = r.pub /\ l.msg = r.msg
  BY LeftIs
<1>2. PICK c \in Pcs : c = IF r.phase = "status" THEN "status" ELSE "revoke"
  BY DEF Pcs, Kinds
<1>3. RefreshReturns(r, t) = [l EXCEPT !.token = t, !.pc = c]
  BY <1>1, <1>2 DEF RefreshReturns
<1> QED
  BY <1>1, <1>2, <1>3 DEF Processes

(* The catch of refreshAccessToken. *)
LEMMA FailsIs ==
    ASSUME NEW r \in Processes, NEW code
    PROVE  \/ RefreshFails(r, code) = RefreshThrown(r)
           \/ /\ RefreshFails(r, code) \in Processes /\ RefreshFails(r, code).pc = "retire"
              /\ RefreshFails(r, code).msg = r.msg /\ RefreshFails(r, code).token = None
<1>1. PICK l \in Processes : l = Left(r) /\ l.msg = r.msg
  BY LeftIs
<1>2. PICK c \in Pcs : c = "retire"
  BY DEF Pcs
<1>3. r.twice \in BOOLEAN
  BY DEF Processes
<1>4. PICK s : s = [l EXCEPT !.pc = c, !.twice = r.twice, !.token = None]
  OBVIOUS
<1>5. s \in Processes /\ s.pc = "retire" /\ s.msg = r.msg /\ s.token = None
  BY <1>1, <1>2, <1>3, <1>4 DEF Processes
<1>6. RefreshFails(r, code) = s \/ RefreshFails(r, code) = RefreshThrown(r)
  BY <1>1, <1>2, <1>4 DEF RefreshFails
<1> QED
  BY <1>5, <1>6

(* A nested call of refreshAccessToken. *)
LEMMA NestedIs ==
    ASSUME NEW r \in Processes, NEW t \in Tokens
    PROVE  /\ NestedRefresh(r, t) \in Processes /\ NestedRefresh(r, t).pc = "load"
           /\ NestedRefresh(r, t).phase = r.phase /\ NestedRefresh(r, t).pub = r.pub
           /\ NestedRefresh(r, t).msg = r.msg
<1>1. PICK l \in Processes : /\ l = Left(r) /\ l.phase = r.phase /\ l.pub = r.pub /\ l.msg = r.msg
  BY LeftIs
<1>2. PICK c \in Pcs : c = "load"
  BY DEF Pcs
<1>3. PICK b \in BOOLEAN : b = ~r.keep
  OBVIOUS
<1>4. PICK zero \in 0..1 : zero = 0
  OBVIOUS
<1>5. PICK s : s = [l EXCEPT !.pc = c, !.token = t, !.nest = zero, !.twice = b]
  OBVIOUS
<1>6. s \in Processes /\ s.pc = c /\ s.phase = l.phase /\ s.pub = l.pub /\ s.msg = l.msg
  BY <1>5 DEF Processes
<1>7. NestedRefresh(r, t) = s
  BY <1>1, <1>2, <1>3, <1>4, <1>5 DEF NestedRefresh
<1> QED
  BY <1>1, <1>2, <1>6, <1>7

(* An outermost call of refreshAccessToken. *)
LEMMA StartRefreshIs ==
    ASSUME NEW r \in Processes, NEW b \in BOOLEAN
    PROVE  /\ StartRefresh(r, b) \in Processes /\ StartRefresh(r, b).pc = "load"
           /\ StartRefresh(r, b).phase = r.phase /\ StartRefresh(r, b).pub = r.pub
           /\ StartRefresh(r, b).msg = r.msg
<1>1. PICK c \in Pcs : c = "load"
  BY DEF Pcs
<1>2. PICK no \in BOOLEAN : no = FALSE
  OBVIOUS
<1>3. PICK one \in 0..1 : one = 1
  OBVIOUS
<1>4. PICK s : s = [r EXCEPT !.pc = c, !.nest = one, !.keep = b, !.twice = no]
  OBVIOUS
<1>5. s \in Processes /\ s.pc = c /\ s.phase = r.phase /\ s.pub = r.pub /\ s.msg = r.msg
  BY <1>4 DEF Processes
<1>6. StartRefresh(r, b) = s
  BY <1>1, <1>2, <1>3, <1>4 DEF StartRefresh
<1> QED
  BY <1>1, <1>5, <1>6

-----------------------------------------------------------------------------
(* Frames. *)

(* The service goes on, and nobody takes a family that was in use. *)
Onward ==
    /\ logins <= logins'
    /\ \A f \in Families : /\ fams[f].gen <= fams'[f].gen
                           /\ fams[f].st # "none" => fams'[f].st # "none"
                           /\ fams[f].dead => fams'[f].dead
    /\ \A r \in rcpts : \E s \in rcpts' : s.pend = r.pend
    /\ \A q \in Procs : Pairing(proc'[q]) => \/ Pairing(proc[q]) /\ proc'[q].pub = proc[q].pub
                                             \/ proc'[q].pub \in Nat /\ proc'[q].pub > logins
Keeps ==
    /\ \A f, g : Loaded(f, g) => Loaded(f, g)'
    /\ \A f, g, k : Claim(f, g, k) => Claim(f, g, k)'

(* While the keychain is left alone, what was once loaded or pending is    *)
(* still so.                                                               *)
LEMMA Keeping == ASSUME TypeOK, TypeOK', Onward, UNCHANGED store PROVE Keeps
<1> USE DEF store
<1>1. logins \in Nat /\ logins' \in Nat
  BY DeviceAuthAssumption DEF TypeOK
<1>2. ASSUME NEW f \in Families PROVE fams[f].gen \in Nat /\ fams'[f].gen \in Nat /\ f \in Nat
  BY DEF TypeOK, Families
<1>3. ASSUME NEW f, NEW g, Loaded(f, g) PROVE Loaded(f, g)'
  <2>1. f \in Families /\ f \in Nat /\ g \in Nat
    BY <1>2, <1>3 DEF Loaded
  <2>2. f <= logins' /\ g <= fams'[f].gen
    BY <1>1, <1>2, <1>3, <2>1 DEF Loaded, Onward
  <2>3. \A q \in Procs : Pairing(proc'[q]) => proc'[q].pub # f
    BY <1>1, <1>3, <2>1 DEF Loaded, Onward
  <2> QED
    BY <1>3, <2>1, <2>2, <2>3 DEF Loaded, Pairing, Doing
<1>4. ASSUME NEW f, NEW g, NEW k, Claim(f, g, k) PROVE Claim(f, g, k)'
  <2>1. (\E r \in rcpts : r.pend = k) => \E r \in rcpts' : r.pend = k
    BY DEF Onward
  <2> QED
    BY <1>3, <1>4, <2>1 DEF Claim
<1> QED
  BY <1>3, <1>4 DEF Keeps

(* A request that was sent stays good. *)
LEMMA MsgStays ==
    ASSUME TypeOK, TypeOK', Onward, Keeps, NEW m \in Requests, MsgInv(m) PROVE MsgInv(m)'
<1>1. m.fam \in Families /\ (m.ctx # None => m.ctx \in Nat)
  BY DEF Requests
<1>2. m.fam \in Nat /\ logins \in Nat /\ logins' \in Nat
  BY <1>1, DeviceAuthAssumption DEF TypeOK, Families
<1>3. fams[m.fam].gen \in Nat /\ fams'[m.fam].gen \in Nat /\ fams[m.fam].gen <= fams'[m.fam].gen
  BY <1>1 DEF TypeOK, Onward
<1>4. logins <= logins'
  BY DEF Onward
<1>5. Claim(m.fam, m.pend.gen, m.pend) => Claim(m.fam, m.pend.gen, m.pend)'
  BY DEF Keeps
<1>6. m.kind \in {"exchange", "refresh"} => m.fam <= logins'
  BY <1>2, <1>4 DEF MsgInv
<1>7. ASSUME m.ctx # None, m.ctx <= fams[m.fam].gen PROVE m.ctx <= fams'[m.fam].gen
  BY <1>1, <1>3, <1>7
<1> QED
  BY <1>5, <1>6, <1>7 DEF MsgInv

(* A process that does not move keeps what it relies on. *)
LEMMA ProcStays ==
    ASSUME TypeOK, TypeOK', Onward, Keeps, NEW p, NEW r \in Processes, ProcInv(p, r)
    PROVE  ProcInv(p, r)'
<1>1. WaitInv(p, r)'
  BY MsgStays DEF ProcInv, WaitInv
<1>2. r.pub # None => r.pub \in Families /\ r.pub \in Nat
  BY DEF Processes, Families
<1>3. PlaceInv(r)'
  <2>1. logins \in Nat /\ logins' \in Nat /\ logins <= logins'
    BY DeviceAuthAssumption DEF TypeOK, Onward
  <2>2. ASSUME r.pub \in Families, r.pub <= logins PROVE r.pub <= logins'
    BY <2>1, <2>2 DEF Families
  <2> QED
    BY <2>2 DEF ProcInv, PlaceInv
<1>4. MemoryInv(r)'
  BY DEF ProcInv, MemoryInv, Keeps
<1>5. AnswerInv(r)'
  <2>1. ASSUME r.pc = "commitExchange" \/ Granted(r, "exchange") PROVE fams'[r.pub].st # "none"
    BY <2>1 DEF ProcInv, PlaceInv, AnswerInv, Onward, Granted, Pairing, Doing
  <2>2. ASSUME r.pc = "commitRefresh" \/ Granted(r, "refresh")
        PROVE  r.creds.gen < fams'[r.creds.fam].gen
    <3>1. Claim(r.creds.fam, r.creds.gen, r.pend) /\ r.creds.gen < fams[r.creds.fam].gen
      BY <2>2 DEF ProcInv, MemoryInv, AnswerInv, Granted, Refreshing, Doing
    <3>2. PICK f \in Families : f = r.creds.fam
      BY <3>1 DEF Claim, Loaded
    <3>3. PICK g \in Nat : g = r.creds.gen
      BY <3>1 DEF Claim, Loaded
    <3>4. fams[f].gen \in Nat /\ fams'[f].gen \in Nat /\ fams[f].gen <= fams'[f].gen
      BY DEF TypeOK, Onward
    <3> QED
      BY <3>1, <3>2, <3>3, <3>4
  <2>3. ASSUME Granted(r, "revoke") PROVE fams'[r.pub].dead
    BY <2>3 DEF ProcInv, PlaceInv, AnswerInv, Onward, Granted, Doing
  <2>4. ASSUME r.phase = "logout", r.token # None, r.pc \in {"retire", "retireCred"}
        PROVE  r.pub \in Families /\ fams'[r.pub].dead
    BY <2>4 DEF ProcInv, AnswerInv, Onward
  <2> QED
    BY <2>1, <2>2, <2>3, <2>4 DEF AnswerInv, Granted
<1> QED
  BY <1>1, <1>3, <1>4, <1>5 DEF ProcInv

(* How a process may go on once its revocation has its receipt. *)
AckKept(p, n) ==
    \/ n.pc = "idle"
    \/ /\ ~At(p, "idle") /\ n.phase = "logout" /\ n.pub = proc[p].pub
       /\ Doing(n, "revoke") \/ n.pc \in {"retire", "retireCred"}

(* A step of one process that leaves the keychain's record, the families   *)
(* and the receipts alone.                                                 *)
LEMMA LocalStep ==
    ASSUME Inv, NEW p \in Procs, NEW n \in Processes, Update(p, n), ProcInv(p, n),
           UNCHANGED <<store, fams, binds, retired, rcpts, logins, rest>>,
           meta' \in Ids, key' \in Ids, ids' \in Ids,
           commands' \in 0..MaxCommands, faults' \in 0..MaxFaults,
           Pairing(n) => Pairing(proc[p]) /\ n.pub = proc[p].pub,
           acked' \subseteq acked, p \in acked' => AckKept(p, n),
           \A m \in stray' : m \in stray \/ (m \in Requests /\ MsgInv(m))
    PROVE  Inv'
<1> USE DEF store, rest
<1>1. /\ proc' \in [Procs -> Processes] /\ proc'[p] = n
      /\ \A q \in Procs \ {p} : proc'[q] = proc[q]
  BY DEF Update, Inv, TypeOK
<1>2. TypeOK'
  BY <1>1 DEF Inv, TypeOK
<1>3. \A q \in Procs : Pairing(proc'[q]) => Pairing(proc[q]) /\ proc'[q].pub = proc[q].pub
  BY <1>1
<1>4. Onward
  <2>1. \A f \in Families : fams[f].gen \in Nat
    BY DEF Inv, TypeOK
  <2>2. logins \in Nat
    BY DEF Inv, TypeOK
  <2> QED
    BY <1>3, <2>1, <2>2 DEF Onward
<1>5. TypeOK /\ Keeps
  BY <1>2, <1>4, Keeping DEF Inv
<1>6. ASSUME NEW q \in Procs PROVE ProcInv(q, proc[q])'
  <2>1. PICK r \in Processes : r = proc'[q] /\ ProcInv(q, r)
    BY <1>1 DEF Inv, TypeOK
  <2>2. ProcInv(q, r)'
    BY <1>2, <1>4, <1>5, <2>1, ProcStays
  <2> QED
    BY <2>1, <2>2
<1>7. ASSUME NEW m \in stray' PROVE MsgInv(m)'
  BY <1>2, <1>4, <1>5, <1>7, MsgStays DEF Inv, TypeOK
<1>8. FamInv' /\ RcptInv'
  BY DEF Inv, FamInv, RcptInv
<1>9. CredInv'
  BY <1>5 DEF Inv, CredInv, LostAnswerRecoverable, Keeps
<1>10. PairInv'
  <2>1. PairInv /\ fams' = fams
    BY DEF Inv
  <2> QED
    BY <1>3, <2>1 DEF PairInv
<1>11. AckInv'
  <2> SUFFICES ASSUME NEW q \in acked', proc'[q].pc # "idle"
               PROVE  /\ Doing(proc'[q], "revoke") \/ proc'[q].pc \in {"retire", "retireCred"}
                      /\ proc'[q].phase = "logout" /\ proc'[q].pub \in Families
                      /\ fams'[proc'[q].pub].dead
    BY DEF AckInv, At, Doing
  <2>1. q \in acked /\ q \in Procs
    BY DEF Inv, TypeOK
  <2>2. CASE q = p
    BY <1>1, <2>1, <2>2 DEF Inv, AckInv, AckKept
  <2>3. CASE q # p
    BY <1>1, <2>1, <2>3 DEF Inv, AckInv, At
  <2> QED
    BY <2>2, <2>3
<1> QED
  BY <1>2, <1>6, <1>7, <1>8, <1>9, <1>10, <1>11 DEF Inv

(* A process may always rest, or do what relies on nothing. *)
LEMMA FreePlace ==
    ASSUME NEW p, NEW n \in Processes, n.msg = None,
           n.pc \in {"idle", "ident", "pair"} \/ (n.pc = "logout" /\ n.phase = "logout")
    PROVE  ProcInv(p, n) /\ ~Pairing(n)
  BY DEF ProcInv, WaitInv, PlaceInv, MemoryInv, AnswerInv, Pairing, Refreshing, Doing, Granted

(* What a process that is not idle knows. *)
LEMMA Moving ==
    ASSUME Inv, NEW p \in Procs
    PROVE  /\ proc[p] \in Processes /\ ProcInv(p, proc[p])
           /\ p \in acked /\ ~At(p, "idle") =>
                /\ Doing(proc[p], "revoke") \/ proc[p].pc \in {"retire", "retireCred"}
                /\ proc[p].phase = "logout" /\ proc[p].pub \in Families /\ fams[proc[p].pub].dead
           /\ meta \in Ids /\ key \in Ids /\ ids \in Ids
           /\ commands \in 0..MaxCommands /\ faults \in 0..MaxFaults
           /\ \A m \in stray : m \in Requests /\ MsgInv(m)
  BY DEF Inv, TypeOK, AckInv

(* A command begins. *)
LEMMA InvStart == ASSUME Inv, NEW p \in Procs, Start(p) PROVE Inv'
<1>1. /\ commands < MaxCommands /\ commands' = commands + 1 /\ acked' = acked \ {p}
      /\ UNCHANGED <<store, meta, key, ids, fams, binds, retired, rcpts, stray, logins, faults, rest>>
  BY DEF Start, identity
<1>2. PICK n \in Processes : /\ Update(p, n) /\ n.msg = None
                             /\ \/ n.pc = "ident" \/ (n.pc = "show" /\ n.phase = "status")
                                \/ (n.pc = "retire" /\ n.phase = "local")
  <2>1. {"ident", "show", "retire"} \subseteq Pcs
    BY DEF Pcs
  <2>2. PICK i \in Processes : i = Idle /\ i.msg = None
    BY IdleIs
  <2>3. CASE Update(p, [i EXCEPT !.pc = "ident"])
    <3>1. PICK n : n = [i EXCEPT !.pc = "ident"]
      OBVIOUS
    <3>2. n \in Processes /\ n.pc = "ident" /\ n.msg = None
      BY <2>1, <2>2, <3>1 DEF Processes
    <3> QED
      BY <2>3, <3>1, <3>2
  <2>4. CASE Update(p, [i EXCEPT !.pc = "show", !.phase = "status"])
    <3>1. PICK c \in Pcs : c = "show"
      BY <2>1
    <3>2. PICK n : n = [i EXCEPT !.pc = c, !.phase = "status"]
      OBVIOUS
    <3>3. n \in Processes /\ n.pc = c /\ n.phase = "status" /\ n.msg = None
      BY <2>2, <3>2 DEF Processes
    <3> QED
      BY <2>4, <3>1, <3>2, <3>3
  <2>5. CASE Update(p, [i EXCEPT !.pc = "retire", !.phase = "local"])
    <3>1. PICK c \in Pcs : c = "retire"
      BY <2>1
    <3>2. PICK n : n = [i EXCEPT !.pc = c, !.phase = "local"]
      OBVIOUS
    <3>3. n \in Processes /\ n.pc = c /\ n.phase = "local" /\ n.msg = None
      BY <2>2, <3>2 DEF Processes
    <3> QED
      BY <2>5, <3>1, <3>2, <3>3
  <2> QED
    BY <2>2, <2>3, <2>4, <2>5 DEF Start
<1>3. ProcInv(p, n) /\ ~Pairing(n)
  BY <1>2 DEF ProcInv, WaitInv, PlaceInv, MemoryInv, AnswerInv, Pairing, Refreshing, Doing, Granted
<1>4. commands' \in 0..MaxCommands
  BY <1>1, Moving, DeviceAuthAssumption
<1> QED
  BY <1>1, <1>2, <1>3, <1>4, Moving, LocalStep

(* The device id and the key are found or drawn. *)
LEMMA InvEnsureIdentity == ASSUME Inv, NEW p \in Procs, EnsureIdentity(p) PROVE Inv'
<1>1. /\ At(p, "ident") /\ UNCHANGED <<store, fams, binds, retired, rcpts, acked, stray, logins,
                                       commands, faults, rest>>
  BY DEF EnsureIdentity, service, bounds
<1>2. PICK d : d = IF meta = 0 THEN ids + 1 ELSE meta
  OBVIOUS
<1>3. PICK k : k = IF key = 0 THEN ids + 2 ELSE key
  OBVIOUS
<1>4. /\ d <= MaxIds /\ k <= MaxIds /\ meta' = d /\ key' = k
      /\ ids' = IF key = 0 THEN ids + 2 ELSE IF meta = 0 THEN ids + 1 ELSE ids
      /\ Update(p, [proc[p] EXCEPT !.pc = "pair", !.dev = d])
  BY <1>2, <1>3 DEF EnsureIdentity
<1>5. d \in Ids /\ k \in Ids /\ ids' \in Ids
  BY <1>2, <1>3, <1>4, Moving, DeviceAuthAssumption DEF Ids
<1>6. PICK r \in Processes : r = proc[p] /\ r.msg = None /\ p \notin acked
  BY <1>1, Moving DEF ProcInv, WaitInv, At, Doing
<1>7. PICK n : n = [r EXCEPT !.pc = "pair", !.dev = d]
  OBVIOUS
<1>8. "pair" \in Pcs
  BY DEF Pcs
<1>9. n \in Processes /\ n.pc = "pair" /\ n.msg = None
  BY <1>5, <1>6, <1>7, <1>8 DEF Processes
<1>10. ProcInv(p, n) /\ ~Pairing(n)
  BY <1>9, FreePlace
<1>11. Update(p, n)
  BY <1>4, <1>6, <1>7
<1> QED
  BY <1>1, <1>4, <1>5, <1>6, <1>9, <1>10, <1>11, Moving, LocalStep

(* A step of one process that changes nothing else. *)
LEMMA Silent ==
    ASSUME Inv, NEW p \in Procs, NEW n \in Processes, Update(p, n), ProcInv(p, n),
           UNCHANGED <<store, identity, service, stray, bounds, rest>>,
           Pairing(n) => Pairing(proc[p]) /\ n.pub = proc[p].pub,
           p \in acked => AckKept(p, n)
    PROVE  Inv'
<1>1. UNCHANGED <<meta, key, ids, fams, binds, retired, rcpts, acked, stray, logins, commands, faults>>
  BY DEF identity, service, bounds
<1> QED
  BY <1>1, Moving, LocalStep

(* A call of refreshAccessToken may throw at any place. *)
LEMMA ThrownPlace ==
    ASSUME NEW p, NEW r \in Processes, r.msg = None
    PROVE  /\ RefreshThrown(r) \in Processes /\ ProcInv(p, RefreshThrown(r))
           /\ ~Pairing(RefreshThrown(r))
           /\ r.phase # "status" => RefreshThrown(r).pc = "idle"
  BY ThrownIs, FreePlace

(* It may begin for whoever has a family to ask about. *)
LEMMA LoadPlace ==
    ASSUME NEW p, NEW n \in Processes, n.pc = "load", n.msg = None,
           n.phase \in {"status", "logout"}, n.pub \in Families
    PROVE  ProcInv(p, n) /\ ~Pairing(n)
  BY DEF ProcInv, WaitInv, PlaceInv, MemoryInv, AnswerInv, Pairing, Refreshing, Doing, Granted

(* The command shows the status first. *)
LEMMA InvShowStatus == ASSUME Inv, NEW p \in Procs, ShowStatus(p) PROVE Inv'
<1>1. At(p, "show") /\ UNCHANGED <<store, identity, service, stray, bounds, rest>>
  BY DEF ShowStatus
<1>2. PICK r \in Processes : r = proc[p] /\ r.msg = None /\ r.phase = "status" /\ p \notin acked
  BY <1>1, Moving DEF ProcInv, WaitInv, PlaceInv, At, Doing
<1>3. CASE cred = None
  BY <1>1, <1>2, <1>3, StatusEndsIs, FreePlace, Silent DEF ShowStatus
<1>4. CASE cred # None
  <2>1. PICK f \in Families : f = cred.fam
    BY <1>4 DEF Inv, TypeOK, Records
  <2>2. PICK s : s = [r EXCEPT !.pub = f]
    OBVIOUS
  <2>3. s \in Processes /\ s.pub = f /\ s.phase = r.phase /\ s.msg = r.msg
    BY <2>2 DEF Processes
  <2>0. PICK no \in BOOLEAN : no = FALSE
    OBVIOUS
  <2>4. Update(p, StartRefresh(s, no))
    BY <1>2, <1>4, <2>0, <2>1, <2>2 DEF ShowStatus
  <2>5. PICK n \in Processes : /\ n = StartRefresh(s, no) /\ n.pc = "load" /\ n.phase = "status"
                               /\ n.pub = f /\ n.msg = None
    BY <1>2, <2>3, StartRefreshIs
  <2>6. ProcInv(p, n) /\ ~Pairing(n)
    BY <2>5, LoadPlace
  <2> QED
    BY <1>1, <1>2, <2>4, <2>5, <2>6, Silent
<1> QED
  BY <1>3, <1>4

(* loadState: the record and the pending refresh in one read. *)
LEMMA InvLoadState == ASSUME Inv, NEW p \in Procs, LoadState(p) PROVE Inv'
<1>1. At(p, "load") /\ UNCHANGED <<store, identity, service, stray, bounds, rest>>
  BY DEF LoadState
<1>2. PICK r \in Processes : /\ r = proc[p] /\ r.msg = None /\ r.phase \in {"status", "logout"}
                             /\ r.pub \in Families /\ p \notin acked
  BY <1>1, Moving DEF ProcInv, WaitInv, PlaceInv, At, Doing
<1>3. CASE Update(p, RefreshThrown(r))
  BY <1>1, <1>2, <1>3, ThrownPlace, Silent
<1>4. CASE ~Update(p, RefreshThrown(r))
  <2>1. /\ cred # None /\ (pending # None => pending.gen = cred.gen /\ pending.fam = cred.fam)
        /\ Update(p, [r EXCEPT !.creds = cred, !.pend = pending,
                               !.pc = IF pending = None THEN "mark" ELSE "refresh"])
    BY <1>2, <1>4 DEF LoadState
  <2>2. PICK c \in Records : c = cred
    BY <2>1 DEF Inv, TypeOK
  <2>3. PICK k \in RefreshKeys \cup {None} : k = pending
    BY DEF Inv, TypeOK
  <2>4. PICK l \in Pcs : l = IF k = None THEN "mark" ELSE "refresh"
    BY DEF Pcs, Kinds
  <2>5. PICK n : n = [r EXCEPT !.creds = c, !.pend = k, !.pc = l]
    OBVIOUS
  <2>6. /\ n \in Processes /\ n.creds = c /\ n.pend = k /\ n.pc = l /\ n.msg = r.msg
        /\ n.phase = r.phase /\ n.pub = r.pub
    BY <2>5 DEF Processes
  <2>7. Update(p, n)
    BY <2>1, <2>2, <2>3, <2>4, <2>5
  <2>8. Loaded(c.fam, c.gen)
    BY <2>1, <2>2 DEF Inv, CredInv
  <2>9. k # None => Claim(c.fam, c.gen, k)
    BY <2>1, <2>2, <2>3, <2>8 DEF Claim, Records
  <2>10. ProcInv(p, n) /\ ~Pairing(n)
    BY <1>2, <2>4, <2>6, <2>8, <2>9 DEF ProcInv, WaitInv, PlaceInv, MemoryInv, AnswerInv, Pairing,
       Refreshing, Doing, Granted
  <2> QED
    BY <1>1, <1>2, <2>6, <2>7, <2>10, Silent
<1> QED
  BY <1>3, <1>4

(* What logout does when the status is known. *)
LEMMA InvLogout == ASSUME Inv, NEW p \in Procs, Logout(p) PROVE Inv'
<1>1. At(p, "logout") /\ UNCHANGED <<store, identity, service, stray, bounds, rest>>
  BY DEF Logout
<1>2. PICK r \in Processes : r = proc[p] /\ r.msg = None /\ r.phase = "logout" /\ p \notin acked
  BY <1>1, Moving DEF ProcInv, WaitInv, PlaceInv, At, Doing
<1>3. CASE Update(p, Idle)
  BY <1>1, <1>2, <1>3, IdleIs, FreePlace, Silent
<1>4. CASE ~Update(p, Idle)
  <2>1. cred # None
    BY <1>4 DEF Logout
  <2>2. PICK f \in Families : f = cred.fam
    BY <2>1 DEF Inv, TypeOK, Records
  <2>3. PICK s : s = [r EXCEPT !.pub = f]
    OBVIOUS
  <2>4. s \in Processes /\ s.pub = f /\ s.phase = "logout" /\ s.msg = None
    BY <1>2, <2>3 DEF Processes
  <2>0. PICK yes \in BOOLEAN : yes = TRUE
    OBVIOUS
  <2>5. \/ Update(p, [s EXCEPT !.pc = "revoke"])
        \/ Update(p, StartRefresh([s EXCEPT !.token = None], yes))
    BY <1>2, <1>4, <2>0, <2>1, <2>2, <2>3 DEF Logout
  <2>6. CASE Update(p, [s EXCEPT !.pc = "revoke"])
    <3>1. PICK l \in Pcs : l = "revoke"
      BY DEF Pcs, Kinds
    <3>2. PICK n : n = [s EXCEPT !.pc = l]
      OBVIOUS
    <3>3. n \in Processes /\ n.pc = l /\ n.pub = f /\ n.phase = "logout" /\ n.msg = None
      BY <2>4, <3>2 DEF Processes
    <3>4. ProcInv(p, n) /\ ~Pairing(n)
      BY <3>1, <3>3 DEF ProcInv, WaitInv, PlaceInv, MemoryInv, AnswerInv, Pairing, Refreshing,
         Doing, Granted
    <3> QED
      BY <1>1, <1>2, <2>6, <3>1, <3>2, <3>3, <3>4, Silent
  <2>7. CASE Update(p, StartRefresh([s EXCEPT !.token = None], yes))
    <3>1. PICK n : n = [s EXCEPT !.token = None]
      OBVIOUS
    <3>2. n \in Processes /\ n.pub = f /\ n.phase = "logout" /\ n.msg = None
      BY <2>4, <3>1 DEF Processes
    <3>3. PICK o \in Processes : /\ o = StartRefresh(n, yes) /\ o.pc = "load" /\ o.phase = "logout"
                                 /\ o.pub = f /\ o.msg = None
      BY <3>2, StartRefreshIs
    <3>4. ProcInv(p, o) /\ ~Pairing(o)
      BY <3>3, LoadPlace
    <3> QED
      BY <1>1, <1>2, <2>7, <3>1, <3>3, <3>4, Silent
  <2> QED
    BY <2>5, <2>6, <2>7
<1> QED
  BY <1>3, <1>4

(* A process that retires what is stored. *)
LEMMA RetirePlace ==
    ASSUME NEW p, NEW n \in Processes, n.pc \in {"retire", "retireCred"}, n.msg = None,
           n.phase = "logout" /\ n.token # None => n.pub \in Families /\ fams[n.pub].dead
    PROVE  ProcInv(p, n) /\ ~Pairing(n)
  BY DEF ProcInv, WaitInv, PlaceInv, MemoryInv, AnswerInv, Pairing, Refreshing, Doing, Granted

(* Metadata and key are deleted, or one of them. *)
LEMMA InvRetireIdentity == ASSUME Inv, NEW p \in Procs, RetireIdentity(p) PROVE Inv'
<1>1. /\ At(p, "retire")
      /\ UNCHANGED <<store, fams, binds, retired, rcpts, acked, stray, logins, commands, rest>>
  BY DEF RetireIdentity, service
<1>2. PICK r \in Processes : /\ r = proc[p] /\ r.msg = None
                             /\ r.phase = "logout" /\ r.token # None =>
                                   r.pub \in Families /\ fams[r.pub].dead
                             /\ p \in acked => r.phase = "logout"
  BY <1>1, Moving DEF ProcInv, WaitInv, AnswerInv, At
<1>3. PICK c \in Pcs : c = "retireCred"
  BY DEF Pcs
<1>4. PICK b \in BOOLEAN : Update(p, [r EXCEPT !.pc = c, !.failed = b])
  <2>1. PICK yes \in BOOLEAN : yes = TRUE
    OBVIOUS
  <2>2. r.failed \in BOOLEAN
    BY DEF Processes
  <2>3. [r EXCEPT !.pc = c] = [r EXCEPT !.pc = c, !.failed = r.failed]
    BY DEF Processes
  <2> QED
    BY <1>2, <1>3, <2>1, <2>2, <2>3 DEF RetireIdentity, Goto
<1>5. PICK n : n = [r EXCEPT !.pc = c, !.failed = b]
  OBVIOUS
<1>6. /\ n \in Processes /\ n.pc = c /\ n.msg = r.msg /\ n.phase = r.phase /\ n.token = r.token
      /\ n.pub = r.pub
  BY <1>5 DEF Processes
<1>7. ProcInv(p, n) /\ ~Pairing(n)
  BY <1>2, <1>3, <1>6, RetirePlace
<1>8. meta' \in Ids /\ key' \in Ids /\ ids' \in Ids /\ faults' \in 0..MaxFaults
  <2>1. 0 \in Ids
    BY DeviceAuthAssumption DEF Ids
  <2>2. ids' = ids /\ (faults' = faults \/ (faults < MaxFaults /\ faults' = faults + 1))
    BY DEF RetireIdentity, Fault
  <2>3. faults' \in 0..MaxFaults
    BY <2>2, Moving, DeviceAuthAssumption
  <2>4. (meta' = 0 \/ meta' = meta) /\ (key' = 0 \/ key' = key)
    BY DEF RetireIdentity
  <2> QED
    BY <2>1, <2>2, <2>3, <2>4, Moving
<1>9. p \in acked => AckKept(p, n)
  BY <1>1, <1>2, <1>3, <1>6 DEF AckKept, At
<1> QED
  BY <1>1, <1>4, <1>5, <1>6, <1>7, <1>8, <1>9, Moving, LocalStep

(* A request is sent anew, with the same idempotency key. *)
LEMMA RetryPlace ==
    ASSUME NEW p, NEW r \in Processes, ProcInv(p, r), r.pc = "wait",
           NEW n \in Processes, n.pc = r.msg.kind, n.msg = None,
           n.phase = r.phase, n.pub = r.pub, n.creds = r.creds, n.pend = r.pend
    PROVE  ProcInv(p, n) /\ (Pairing(n) => Pairing(r))
<1>1. r.msg.kind \in Kinds
  BY DEF ProcInv, WaitInv, Requests
<1>2. WaitInv(p, n) /\ PlaceInv(n) /\ (Pairing(n) => Pairing(r))
  BY <1>1 DEF ProcInv, WaitInv, PlaceInv, Pairing, Refreshing, Doing, Kinds
<1>3. MemoryInv(n)
  BY <1>1 DEF ProcInv, MemoryInv, Refreshing, Doing, Kinds
<1>4. AnswerInv(n)
  BY <1>1 DEF AnswerInv, Granted, Kinds
<1> QED
  BY <1>2, <1>3, <1>4 DEF ProcInv

(* Who waits for an answer after a receipt waits for the revocation. *)
LEMMA WaitAck ==
    ASSUME Inv, NEW p \in Procs, At(p, "wait"), p \in acked
    PROVE  proc[p].msg.kind = "revoke" /\ proc[p].phase = "logout"
  BY Moving DEF At, Doing

(* An answer is read. *)
LEMMA InvReceive == ASSUME Inv, NEW p \in Procs, Receive(p) PROVE Inv'
<1>1. At(p, "wait") /\ UNCHANGED <<store, identity, service, stray, bounds, rest>>
  BY DEF Receive
<1>2. PICK r \in Processes : r = proc[p] /\ r.pc = "wait" /\ ProcInv(p, r)
  BY <1>1, Moving DEF At
<1>3. PICK k \in Kinds : k = r.msg.kind
  BY <1>2 DEF ProcInv, WaitInv, Requests
<1>4. PICK a \in Answers : a = r.ans
  BY <1>2 DEF Receive, Processes
<1>5. PICK s : s = [r EXCEPT !.msg = None]
  OBVIOUS
<1>6. /\ s \in Processes /\ s.msg = None /\ s.phase = r.phase /\ s.pub = r.pub /\ s.creds = r.creds
      /\ s.pend = r.pend /\ s.ans = r.ans
  BY <1>5 DEF Processes
<1>7. PICK t : t = [s EXCEPT !.ans = None]
  OBVIOUS
<1>8. t \in Processes /\ t.msg = s.msg /\ t.phase = s.phase /\ t.pub = s.pub
  BY <1>6, <1>7 DEF Processes
<1>9. p \in acked => k = "revoke" /\ r.phase = "logout"
  BY <1>1, <1>2, <1>3, WaitAck
<1> DEFINE good == a \in {"ok", "replay"}
<1>10. Update(p,
            IF a = "unavailable" THEN [s EXCEPT !.pc = k, !.ans = None]
            ELSE
            CASE k = "exchange" /\ good -> [s EXCEPT !.pc = "commitExchange", !.ans = None]
              [] k = "refresh" /\ good -> [s EXCEPT !.pc = "commitRefresh"]
              [] k = "refresh" /\ ~good -> RefreshFails(t, a)
              [] k = "status" /\ a \in terminalFailures -> [s EXCEPT !.pc = "retire", !.ans = None]
              [] k = "status" /\ a \notin terminalFailures -> StatusEnds(t)
              [] k = "revoke" /\ RevokeConfirmed(a) -> [s EXCEPT !.pc = "retire", !.ans = None]
              [] OTHER -> Idle)
  BY <1>2, <1>3, <1>4, <1>5, <1>6, <1>7 DEF Receive
<1>11. ASSUME NEW c \in Pcs
       PROVE  /\ [s EXCEPT !.pc = c, !.ans = None] \in Processes
              /\ [s EXCEPT !.pc = c, !.ans = None].pc = c
              /\ [s EXCEPT !.pc = c, !.ans = None].msg = None
              /\ [s EXCEPT !.pc = c, !.ans = None].phase = r.phase
              /\ [s EXCEPT !.pc = c, !.ans = None].pub = r.pub
              /\ [s EXCEPT !.pc = c, !.ans = None].creds = r.creds
              /\ [s EXCEPT !.pc = c, !.ans = None].pend = r.pend
  <2>1. PICK n : n = [s EXCEPT !.pc = c, !.ans = None]
    OBVIOUS
  <2>2. s \in Processes
    BY <1>6
  <2>3. n \in Processes /\ n.pc = c /\ n.msg = s.msg
    BY <2>1, <2>2 DEF Processes
  <2>4. n.phase = s.phase /\ n.pub = s.pub /\ n.creds = s.creds /\ n.pend = s.pend
    BY <2>1, <2>2 DEF Processes
  <2> QED
    BY <1>6, <2>1, <2>3, <2>4
<1>12. Kinds \cup {"commitExchange", "commitRefresh", "retire"} \subseteq Pcs
  BY DEF Pcs
<1>13. CASE a = "unavailable"
  <2>1. PICK n \in Processes : /\ n = [s EXCEPT !.pc = k, !.ans = None] /\ n.pc = k /\ n.msg = None
                               /\ n.phase = r.phase /\ n.pub = r.pub /\ n.creds = r.creds
                               /\ n.pend = r.pend
    BY <1>11, <1>12
  <2>2. Update(p, n)
    <3>1. Update(p, [s EXCEPT !.pc = k, !.ans = None])
      BY <1>10, <1>13
    <3> QED
      BY <2>1, <3>1
  <2>3. ProcInv(p, n) /\ (Pairing(n) => Pairing(r))
    BY <1>2, <1>3, <2>1, RetryPlace
  <2>4. p \in acked => AckKept(p, n)
    BY <1>1, <1>2, <1>9, <2>1 DEF AckKept, At, Doing
  <2> QED
    BY <1>1, <1>2, <2>1, <2>2, <2>3, <2>4, Silent
<1>14. CASE a # "unavailable" /\ k = "exchange" /\ good
  <2>1. PICK c \in Pcs : c = "commitExchange"
    BY <1>12
  <2>2. PICK n \in Processes : /\ n = [s EXCEPT !.pc = c, !.ans = None] /\ n.pc = c /\ n.msg = None
                               /\ n.phase = r.phase /\ n.pub = r.pub
    BY <1>11
  <2>3. Update(p, n)
    BY <1>10, <1>14, <2>1, <2>2
  <2>4. ProcInv(p, n) /\ Pairing(r)
    BY <1>2, <1>3, <1>4, <1>14, <2>1, <2>2 DEF ProcInv, WaitInv, PlaceInv, MemoryInv, AnswerInv,
       Pairing, Refreshing, Doing, Granted
  <2> QED
    BY <1>1, <1>2, <1>9, <1>14, <2>2, <2>3, <2>4, Silent
<1>15. CASE a # "unavailable" /\ k = "refresh" /\ good
  <2>1. PICK c \in Pcs : c = "commitRefresh"
    BY <1>12
  <2>2. PICK n : n = [s EXCEPT !.pc = c]
    OBVIOUS
  <2>3. /\ n \in Processes /\ n.pc = c /\ n.msg = s.msg /\ n.phase = s.phase /\ n.pub = s.pub
        /\ n.creds = s.creds /\ n.pend = s.pend
    BY <1>6, <2>2 DEF Processes
  <2>4. Update(p, n)
    BY <1>10, <1>15, <2>1, <2>2
  <2>5. ProcInv(p, n) /\ ~Pairing(n)
    BY <1>2, <1>3, <1>4, <1>6, <1>15, <2>1, <2>3 DEF ProcInv, WaitInv, PlaceInv, MemoryInv, AnswerInv,
       Pairing, Refreshing, Doing, Granted
  <2> QED
    BY <1>1, <1>2, <1>9, <1>15, <2>3, <2>4, <2>5, Silent
<1>16. CASE a # "unavailable" /\ k = "refresh" /\ ~good
  <2>1. Update(p, RefreshFails(t, a)) /\ p \notin acked
    BY <1>9, <1>10, <1>16
  <2>2. CASE RefreshFails(t, a) = RefreshThrown(t)
    BY <1>1, <1>6, <1>8, <2>1, <2>2, ThrownPlace, Silent
  <2>3. CASE RefreshFails(t, a) # RefreshThrown(t)
    <3>1. PICK n \in Processes : /\ n = RefreshFails(t, a) /\ n.pc = "retire" /\ n.msg = None
                                 /\ n.token = None
      BY <1>6, <1>8, <2>3, FailsIs
    <3>2. ProcInv(p, n) /\ ~Pairing(n)
      BY <3>1, RetirePlace
    <3> QED
      BY <1>1, <2>1, <3>1, <3>2, Silent
  <2> QED
    BY <2>2, <2>3
<1>17. CASE a # "unavailable" /\ k = "status" /\ a \in terminalFailures
  <2>1. PICK c \in Pcs : c = "retire"
    BY <1>12
  <2>2. PICK n \in Processes : /\ n = [s EXCEPT !.pc = c, !.ans = None] /\ n.pc = c /\ n.msg = None
                               /\ n.phase = r.phase
    BY <1>11
  <2>3. Update(p, n)
    BY <1>10, <1>17, <2>1, <2>2
  <2>4. r.phase = "status"
    BY <1>2, <1>3, <1>17 DEF ProcInv, PlaceInv, Doing
  <2>5. ProcInv(p, n) /\ ~Pairing(n)
    BY <2>1, <2>2, <2>4, RetirePlace
  <2> QED
    BY <1>1, <1>9, <1>17, <2>2, <2>3, <2>5, Silent
<1>18. CASE a # "unavailable" /\ k = "status" /\ a \notin terminalFailures
  <2>1. Update(p, StatusEnds(t)) /\ p \notin acked
    BY <1>9, <1>10, <1>18
  <2>2. PICK n \in Processes : n = StatusEnds(t) /\ n.pc = "logout" /\ n.phase = "logout" /\ n.msg = None
    BY <1>6, <1>8, StatusEndsIs
  <2>3. ProcInv(p, n) /\ ~Pairing(n)
    BY <2>2, FreePlace
  <2> QED
    BY <1>1, <2>1, <2>2, <2>3, Silent
<1>19. CASE a # "unavailable" /\ k = "revoke" /\ a = "ok"
  <2>1. PICK c \in Pcs : c = "retire"
    BY <1>12
  <2>2. PICK n \in Processes : /\ n = [s EXCEPT !.pc = c, !.ans = None] /\ n.pc = c /\ n.msg = None
                               /\ n.phase = r.phase /\ n.pub = r.pub
    BY <1>11
  <2>3. Update(p, n)
    BY <1>10, <1>19, <2>1, <2>2 DEF RevokeConfirmed
  <2>4. r.pub \in Families /\ fams[r.pub].dead
    BY <1>2, <1>3, <1>4, <1>19 DEF ProcInv, PlaceInv, AnswerInv, Granted, Doing
  <2>5. ProcInv(p, n) /\ ~Pairing(n)
    BY <2>1, <2>2, <2>4, RetirePlace
  <2>6. p \in acked => AckKept(p, n)
    BY <1>1, <1>2, <1>9, <2>1, <2>2 DEF AckKept, At
  <2> QED
    BY <1>1, <2>2, <2>3, <2>5, <2>6, Silent
<1>20. CASE a # "unavailable" /\ ((k = "revoke" /\ a # "ok") \/ (k = "exchange" /\ ~good))
  <2>1. Update(p, Idle)
    BY <1>10, <1>20 DEF RevokeConfirmed
  <2>2. Idle \in Processes /\ ProcInv(p, Idle) /\ ~Pairing(Idle) /\ AckKept(p, Idle)
    BY IdleIs, FreePlace DEF AckKept
  <2> QED
    BY <1>1, <2>1, <2>2, Silent
<1> QED
  BY <1>13, <1>14, <1>15, <1>16, <1>17, <1>18, <1>19, <1>20 DEF Kinds

(* What a request without an answer ends as. *)
LEMMA UnreachablePlace ==
    ASSUME NEW p, NEW r \in Processes, r.msg = None, NEW kind \in Kinds
    PROVE  /\ Unreachable(r, kind) \in Processes /\ ProcInv(p, Unreachable(r, kind))
           /\ ~Pairing(Unreachable(r, kind))
           /\ kind = "revoke" => Unreachable(r, kind).pc = "idle"
<1>1. CASE kind = "refresh"
  BY <1>1, ThrownPlace DEF Unreachable
<1>2. CASE kind = "status"
  BY <1>2, StatusEndsIs, FreePlace DEF Unreachable
<1>3. CASE kind \in {"exchange", "revoke"}
  BY <1>3, IdleIs, FreePlace DEF Unreachable
<1> QED
  BY <1>1, <1>2, <1>3 DEF Kinds

(* A request goes out with what its sender has in memory. *)
LEMMA SentPlace ==
    ASSUME NEW p, NEW r \in Processes, ProcInv(p, r), r.pc \in Kinds,
           NEW m \in Requests, m.kind = r.pc, m.by = p, m.ctx = None,
           r.pc # "refresh" => m.fam = r.pub,
           r.pc = "refresh" => /\ m.fam = r.creds.fam /\ m.pend = r.pend
                               /\ m.token \in Tokens /\ m.token.gen = r.creds.gen,
           NEW n \in Processes, n.pc = "wait", n.msg = m, n.ans = None,
           n.phase = r.phase, n.pub = r.pub, n.creds = r.creds, n.pend = r.pend
    PROVE  ProcInv(p, n) /\ (Pairing(n) => Pairing(r))
<1>1. MsgInv(m)
  <2>1. CASE m.kind = "exchange"
    BY <2>1 DEF MsgInv, ProcInv, PlaceInv, Pairing, Doing
  <2>2. CASE m.kind = "refresh"
    <3>1. Claim(r.creds.fam, r.creds.gen, r.pend)
      BY <2>2 DEF ProcInv, MemoryInv, Refreshing, Doing
    <3>2. r.pend.gen = r.creds.gen /\ r.creds.fam <= logins
      BY <3>1 DEF Claim, Loaded
    <3> QED
      BY <2>2, <3>1, <3>2 DEF MsgInv
  <2>3. CASE m.kind \in {"status", "revoke"}
    BY <2>3 DEF MsgInv
  <2> QED
    BY <2>1, <2>2, <2>3 DEF Kinds
<1>2. WaitInv(p, n)
  BY <1>1 DEF WaitInv
<1>3. PlaceInv(n) /\ (Pairing(n) => Pairing(r))
  BY DEF ProcInv, PlaceInv, Pairing, Refreshing, Doing, Kinds
<1>4. MemoryInv(n)
  BY DEF ProcInv, MemoryInv, Refreshing, Doing, Kinds
<1>5. AnswerInv(n)
  BY NoneAssumption DEF AnswerInv, Granted, Answers
<1> QED
  BY <1>2, <1>3, <1>4, <1>5 DEF ProcInv

(* The client signs and sends a request. *)
LEMMA InvSend == ASSUME Inv, NEW p \in Procs, NEW kind \in Kinds, Send(p, kind) PROVE Inv'
<1>1. At(p, kind) /\ UNCHANGED <<store, key, fams, binds, retired, rcpts, acked, stray, logins,
                                 commands, faults, rest>>
  BY DEF Send, service, bounds
<1>2. PICK r \in Processes : r = proc[p] /\ r.pc = kind /\ ProcInv(p, r) /\ r.msg = None
  BY <1>1, Moving DEF At, ProcInv, WaitInv, Kinds
<1>3. PICK d : d = IF r.dev # 0 THEN r.dev ELSE IF meta # 0 THEN meta ELSE ids + 1
  OBVIOUS
<1>4. /\ d <= MaxIds /\ meta' = IF r.dev = 0 /\ meta = 0 THEN d ELSE meta
      /\ ids' = IF d > ids THEN d ELSE ids
      /\ key = 0 => Update(p, Unreachable([r EXCEPT !.dev = d], kind))
  BY <1>2, <1>3 DEF Send
<1>5. d \in Ids /\ meta' \in Ids /\ ids' \in Ids /\ key' \in Ids
  <2>1. r.dev \in Ids
    BY DEF Processes
  <2> QED
    BY <1>1, <1>3, <1>4, <2>1, Moving, DeviceAuthAssumption DEF Ids
<1>6. p \in acked => kind = "revoke" /\ r.phase = "logout"
  BY <1>1, <1>2, Moving DEF At, Doing, Kinds
<1>7. CASE key = 0
  <2>1. PICK s : s = [r EXCEPT !.dev = d]
    OBVIOUS
  <2>2. s \in Processes /\ s.msg = r.msg
    BY <1>5, <2>1 DEF Processes
  <2>3. PICK n \in Processes : /\ n = Unreachable(s, kind) /\ ProcInv(p, n) /\ ~Pairing(n)
                               /\ kind = "revoke" => n.pc = "idle"
    BY <1>2, <2>2, UnreachablePlace
  <2>4. Update(p, n)
    BY <1>4, <1>7, <2>1, <2>3
  <2>5. p \in acked => AckKept(p, n)
    BY <1>6, <2>3 DEF AckKept
  <2> QED
    BY <1>1, <1>5, <2>3, <2>4, <2>5, Moving, LocalStep
<1>8. CASE key # 0
  <2>1. r.creds \in Records \/ kind # "refresh"
    BY <1>2 DEF ProcInv, MemoryInv, Refreshing, Doing
  <2>2. PICK f \in Families : f = IF kind = "refresh" THEN r.creds.fam ELSE r.pub
    BY <1>2, <2>1 DEF ProcInv, PlaceInv, Pairing, Doing, Kinds, Records
  <2>3. PICK t \in Tokens \cup {None} :
           /\ t = IF kind = "refresh" THEN [fam |-> r.creds.fam, gen |-> r.creds.gen] ELSE r.token
           /\ kind = "refresh" => t \in Tokens /\ t.gen = r.creds.gen
    <3>1. r.token \in Tokens \cup {None}
      BY DEF Processes
    <3>2. ASSUME kind = "refresh"
          PROVE  /\ [fam |-> r.creds.fam, gen |-> r.creds.gen] \in Tokens
                 /\ [fam |-> r.creds.fam, gen |-> r.creds.gen].gen = r.creds.gen
      BY <2>1, <3>2 DEF Tokens, Records
    <3> QED
      BY <3>1, <3>2
  <2>4. PICK q \in RefreshKeys \cup {None} : q = IF kind = "refresh" THEN r.pend ELSE None
    BY DEF Processes
  <2>5. PICK m : m = [kind |-> kind, by |-> p, fam |-> f, token |-> t, pend |-> q, dev |-> d,
                      sig |-> key, ctx |-> None]
    OBVIOUS
  <2>6. /\ m \in Requests /\ m.kind = kind /\ m.by = p /\ m.ctx = None /\ m.fam = f
        /\ m.token = t /\ m.pend = q
    BY <1>5, <2>5, Moving DEF Requests
  <2>7. PICK w \in Pcs : w = "wait"
    BY DEF Pcs
  <2>8. PICK n : n = [r EXCEPT !.dev = d, !.pc = w, !.msg = m, !.ans = None]
    OBVIOUS
  <2>9. n \in Processes /\ n.pc = w /\ n.msg = m /\ n.ans = None
    BY <1>5, <2>6, <2>8 DEF Processes
  <2>10. n.phase = r.phase /\ n.pub = r.pub /\ n.creds = r.creds /\ n.pend = r.pend
    BY <2>8 DEF Processes
  <2>11. Update(p, n)
    BY <1>2, <1>3, <1>8, <2>2, <2>3, <2>4, <2>5, <2>7, <2>8 DEF Send
  <2>12. ProcInv(p, n) /\ (Pairing(n) => Pairing(r))
    BY <1>2, <2>2, <2>3, <2>4, <2>6, <2>7, <2>9, <2>10, SentPlace
  <2>13. p \in acked => AckKept(p, n)
    BY <1>1, <1>2, <1>6, <2>6, <2>7, <2>9, <2>10 DEF AckKept, At, Doing, Kinds
  <2> QED
    BY <1>1, <1>2, <1>5, <2>9, <2>10, <2>11, <2>12, <2>13, Moving, LocalStep
<1> QED
  BY <1>7, <1>8

(* What is still on its way was good when it was sent. *)
LEMMA UnderwayGood ==
    ASSUME Inv, NEW p \in Procs, NEW m \in Underway(p) PROVE m \in Requests /\ MsgInv(m)
  BY Moving DEF Underway, ProcInv, WaitInv

(* The connection breaks. *)
LEMMA InvBreak == ASSUME Inv, NEW p \in Procs, Break(p) PROVE Inv'
<1>1. /\ At(p, "wait") /\ faults < MaxFaults /\ faults' = faults + 1
      /\ UNCHANGED <<store, meta, key, ids, fams, binds, retired, rcpts, acked, logins, commands, rest>>
      /\ stray' = stray \/ stray' = stray \cup Underway(p)
  BY DEF Break, Fault, identity, service
<1>2. faults' \in 0..MaxFaults
  BY <1>1, Moving, DeviceAuthAssumption
<1>3. \A m \in stray' : m \in stray \/ (m \in Requests /\ MsgInv(m))
  BY <1>1, UnderwayGood
<1>4. PICK r \in Processes : r = proc[p] /\ r.pc = "wait" /\ ProcInv(p, r)
  BY <1>1, Moving DEF At
<1>5. PICK k \in Kinds : k = r.msg.kind
  BY <1>4 DEF ProcInv, WaitInv, Requests
<1>6. p \in acked => k = "revoke" /\ r.phase = "logout"
  BY <1>1, <1>4, <1>5, WaitAck
<1>7. PICK s : s = [r EXCEPT !.msg = None, !.ans = None]
  OBVIOUS
<1>8. /\ s \in Processes /\ s.msg = None /\ s.phase = r.phase /\ s.pub = r.pub /\ s.creds = r.creds
      /\ s.pend = r.pend
  BY <1>7 DEF Processes
<1>9. Update(p, [s EXCEPT !.pc = k]) \/ Update(p, Unreachable(s, k))
  BY <1>4, <1>5, <1>7 DEF Break
<1>10. CASE Update(p, [s EXCEPT !.pc = k])
  <2>1. PICK n : n = [s EXCEPT !.pc = k]
    OBVIOUS
  <2>2. k \in Pcs /\ s \in Processes
    BY <1>8 DEF Pcs
  <2>3. /\ n \in Processes /\ n.pc = k /\ n.msg = s.msg /\ n.phase = s.phase /\ n.pub = s.pub
        /\ n.creds = s.creds /\ n.pend = s.pend
    BY <2>1, <2>2 DEF Processes
  <2>4. ProcInv(p, n) /\ (Pairing(n) => Pairing(r))
    BY <1>4, <1>5, <1>8, <2>3, RetryPlace
  <2>5. p \in acked => AckKept(p, n)
    BY <1>1, <1>4, <1>6, <1>8, <2>3 DEF AckKept, At, Doing
  <2> QED
    BY <1>1, <1>2, <1>3, <1>4, <1>8, <1>10, <2>1, <2>3, <2>4, <2>5, Moving, LocalStep
<1>11. CASE Update(p, Unreachable(s, k))
  <2>1. PICK n \in Processes : /\ n = Unreachable(s, k) /\ ProcInv(p, n) /\ ~Pairing(n)
                               /\ k = "revoke" => n.pc = "idle"
    BY <1>8, UnreachablePlace
  <2>2. p \in acked => AckKept(p, n)
    BY <1>6, <2>1 DEF AckKept
  <2> QED
    BY <1>1, <1>2, <1>3, <1>11, <2>1, <2>2, Moving, LocalStep
<1> QED
  BY <1>9, <1>10, <1>11

(* A process dies. *)
LEMMA InvCrash == ASSUME Inv, NEW p \in Procs, Crash(p) PROVE Inv'
<1>1. /\ Update(p, Idle) /\ faults < MaxFaults /\ faults' = faults + 1
      /\ stray' = stray \cup Underway(p)
      /\ UNCHANGED <<store, meta, key, ids, fams, binds, retired, rcpts, acked, logins, commands, rest>>
  BY DEF Crash, Fault, identity, service
<1>2. faults' \in 0..MaxFaults
  BY <1>1, Moving, DeviceAuthAssumption
<1>3. \A m \in stray' : m \in stray \/ (m \in Requests /\ MsgInv(m))
  BY <1>1, UnderwayGood
<1>4. Idle \in Processes /\ ProcInv(p, Idle) /\ ~Pairing(Idle) /\ AckKept(p, Idle)
  BY IdleIs, FreePlace DEF AckKept
<1> QED
  BY <1>1, <1>2, <1>3, <1>4, Moving, LocalStep

-----------------------------------------------------------------------------
(* The service answers. *)

(* What a good answer to m tells its sender. *)
Deserved(m) ==
    /\ m.kind = "exchange" => fams[m.fam].st # "none"
    /\ m.kind = "refresh" => m.pend.gen < fams[m.fam].gen
    /\ m.kind = "revoke" => fams[m.fam].dead

(* What the service sees was good when it was sent. *)
LEMMA ArrivedGood ==
    ASSUME Inv, NEW m \in Arrived
    PROVE  /\ m \in Requests /\ MsgInv(m) /\ m.by \in Procs /\ m.fam \in Families
           /\ Current(m) => proc[m.by].pc = "wait" /\ proc[m.by].msg = m /\ proc[m.by].ans = None
<1>1. m \in Requests /\ MsgInv(m)
  <2>1. CASE m \in stray
    BY <2>1, Moving DEF Inv, TypeOK
  <2>2. CASE m \notin stray
    <3>1. PICK q \in Procs : Waiting(q) /\ m = proc[q].msg
      BY <2>2 DEF Arrived
    <3> QED
      BY <3>1, Moving DEF Waiting, At, ProcInv, WaitInv
  <2> QED
    BY <2>1, <2>2
<1>2. m.by \in Procs /\ m.fam \in Families
  BY <1>1 DEF Requests
<1> QED
  BY <1>1, <1>2 DEF Current, Waiting, At

(* An answer takes nothing from its process but the waiting. *)
LEMMA AnswerMoves ==
    ASSUME Inv, NEW m \in Arrived, NEW code \in Answers, Answer(m, code)
    PROVE  /\ proc' \in [Procs -> Processes] /\ stray' \subseteq stray
           /\ \A q \in Procs : /\ proc'[q].pc = proc[q].pc /\ proc'[q].msg = proc[q].msg
                               /\ proc'[q].pub = proc[q].pub /\ proc'[q].phase = proc[q].phase
                               /\ proc'[q].creds = proc[q].creds /\ proc'[q].pend = proc[q].pend
                               /\ proc'[q].token = proc[q].token
                               /\ \/ proc'[q] = proc[q]
                                  \/ q = m.by /\ Current(m) /\ proc'[q].ans = code
<1>1. CASE Current(m)
  <2>1. PICK p \in Procs : p = m.by
    BY ArrivedGood
  <2>2. PICK r \in Processes : r = proc[p]
    BY Moving
  <2>3. PICK n : n = [r EXCEPT !.ans = code]
    OBVIOUS
  <2>4. /\ n \in Processes /\ n.pc = r.pc /\ n.msg = r.msg /\ n.pub = r.pub /\ n.phase = r.phase
        /\ n.creds = r.creds /\ n.pend = r.pend /\ n.token = r.token /\ n.ans = code
    BY <2>3 DEF Processes
  <2>5. Update(p, n) /\ stray' = stray
    BY <1>1, <2>1, <2>2, <2>3 DEF Answer
  <2>6. /\ proc' \in [Procs -> Processes] /\ proc'[p] = n
        /\ \A q \in Procs \ {p} : proc'[q] = proc[q]
    BY <2>4, <2>5 DEF Update, Inv, TypeOK
  <2> QED
    BY <1>1, <2>1, <2>2, <2>4, <2>5, <2>6
<1>2. CASE ~Current(m)
  BY <1>2 DEF Answer, Inv, TypeOK
<1> QED
  BY <1>1, <1>2

(* A transaction of the service and its answer. *)
LEMMA AnswerStep ==
    ASSUME Inv, NEW m \in Arrived, NEW code \in Answers, Answer(m, code),
           UNCHANGED <<store, identity, logins, commands>>,
           (TypeOK /\ proc' \in [Procs -> Processes] /\ stray' \subseteq stray) => TypeOK',
           \A f \in Families : /\ fams[f].gen <= fams'[f].gen
                               /\ fams[f].st # "none" => fams'[f].st # "none"
                               /\ fams[f].dead => fams'[f].dead,
           \A r \in rcpts : \E s \in rcpts' : s.pend = r.pend,
           FamInv', RcptInv', LostAnswerRecoverable', ~reused',
           \A q \in Procs : Pairing(proc[q]) => fams'[proc[q].pub].gen = 0,
           Current(m) /\ code \in {"ok", "replay"} => Deserved(m)',
           \A q \in acked' : q \in acked \/ (q = m.by /\ Current(m) /\ m.kind = "revoke" /\ Deserved(m)')
    PROVE  Inv'
<1> USE DEF store
<1>1. TypeOK' /\ proc' \in [Procs -> Processes] /\ stray' \subseteq stray
  BY AnswerMoves DEF Inv
<1>2. \A q \in Procs : Pairing(proc'[q]) => Pairing(proc[q]) /\ proc'[q].pub = proc[q].pub
  BY AnswerMoves DEF Pairing, Doing
<1>3. Onward
  <2>1. logins' = logins /\ logins \in Nat
    BY DEF Inv, TypeOK
  <2> QED
    BY <1>2, <2>1 DEF Onward
<1>4. TypeOK /\ Keeps
  BY <1>1, <1>3, Keeping DEF Inv
<1>5. ASSUME NEW q \in Procs PROVE ProcInv(q, proc[q])'
  <2>1. PICK r \in Processes : r = proc[q] /\ ProcInv(q, r)
    BY Moving
  <2>2. ProcInv(q, r)'
    BY <1>1, <1>3, <1>4, <2>1, ProcStays
  <2>3. CASE proc'[q] = proc[q]
    BY <2>1, <2>2, <2>3
  <2>4. CASE proc'[q] # proc[q]
    <3>1. PICK n \in Processes :
             /\ n = proc'[q] /\ n.pc = r.pc /\ n.msg = r.msg /\ n.pub = r.pub /\ n.phase = r.phase
             /\ n.creds = r.creds /\ n.pend = r.pend /\ n.token = r.token
             /\ q = m.by /\ Current(m) /\ n.ans = code
      BY <1>1, <2>1, <2>4, AnswerMoves
    <3>2. r.pc = "wait" /\ r.msg = m
      BY <2>1, <3>1, ArrivedGood
    <3>3. IF m.kind = "refresh" THEN m.fam = r.creds.fam /\ m.pend.gen = r.creds.gen
          ELSE m.fam = r.pub
      BY <2>1, <3>2 DEF ProcInv, WaitInv, MemoryInv, Refreshing, Doing, Claim
    <3>4. WaitInv(q, n)' /\ PlaceInv(n)' /\ MemoryInv(n)'
      BY <2>2, <3>1, <3>2 DEF ProcInv, WaitInv, PlaceInv, MemoryInv, Refreshing, Pairing, Doing
    <3>5. AnswerInv(n)'
      BY <3>1, <3>2, <3>3 DEF AnswerInv, Granted, Deserved
    <3> QED
      BY <3>1, <3>4, <3>5 DEF ProcInv
  <2> QED
    BY <2>3, <2>4
<1>6. ASSUME NEW x \in stray' PROVE MsgInv(x)'
  BY <1>1, <1>3, <1>4, <1>6, MsgStays DEF Inv, TypeOK
<1>7. CredInv'
  BY <1>4 DEF Inv, CredInv, Keeps
<1>8. PairInv'
  <2>1. ASSUME NEW p \in Procs, Pairing(proc'[p])
        PROVE  /\ fams'[proc'[p].pub].gen = 0
               /\ \A q \in Procs : Pairing(proc'[q]) /\ proc'[p].pub = proc'[q].pub => p = q
    BY <1>2, <2>1 DEF Inv, PairInv
  <2> QED
    BY <2>1 DEF PairInv, Pairing, Doing
<1>9. AckInv'
  <2> SUFFICES ASSUME NEW q \in acked', proc'[q].pc # "idle"
               PROVE  /\ Doing(proc'[q], "revoke") \/ proc'[q].pc \in {"retire", "retireCred"}
                      /\ proc'[q].phase = "logout" /\ proc'[q].pub \in Families
                      /\ fams'[proc'[q].pub].dead
    BY DEF AckInv, At, Doing
  <2>1. q \in Procs
    BY <1>1 DEF TypeOK
  <2>2. CASE q \in acked
    <3>1. proc'[q].pc = proc[q].pc /\ proc'[q].msg = proc[q].msg /\ proc'[q].pub = proc[q].pub
          /\ proc'[q].phase = proc[q].phase
      BY <2>1, AnswerMoves
    <3> QED
      BY <2>1, <2>2, <3>1, Moving DEF At, Doing
  <2>3. CASE q \notin acked
    <3>1. q = m.by /\ Current(m) /\ m.kind = "revoke" /\ fams'[m.fam].dead
      BY <2>3 DEF Deserved
    <3>2. proc[q].pc = "wait" /\ proc[q].msg = m
      BY <3>1, ArrivedGood
    <3>3. m.fam = proc[q].pub /\ proc[q].phase = "logout" /\ proc[q].pub \in Families
      BY <2>1, <3>1, <3>2, Moving DEF ProcInv, WaitInv, PlaceInv, Doing
    <3>4. proc'[q].pc = "wait" /\ proc'[q].msg = m /\ proc'[q].pub = m.fam /\ proc'[q].phase = "logout"
      BY <2>1, <3>2, <3>3, AnswerMoves
    <3> QED
      BY <3>1, <3>3, <3>4 DEF Doing
  <2> QED
    BY <2>2, <2>3
<1> QED
  BY <1>1, <1>5, <1>6, <1>7, <1>8, <1>9 DEF Inv

(* An answer that changes nothing in the service. *)
LEMMA AnswerOnly ==
    ASSUME Inv, NEW m \in Arrived, NEW code \in Answers, Answer(m, code),
           UNCHANGED <<store, identity, service, logins, commands, reused>>,
           faults' \in 0..MaxFaults, singleShot' \in BOOLEAN \cup {None},
           Current(m) /\ code \in {"ok", "replay"} => Deserved(m)
    PROVE  Inv'
<1>1. UNCHANGED <<fams, binds, retired, rcpts, acked, cred, pending, meta, key, ids>>
  BY DEF service, store, identity
<1>2. (TypeOK /\ proc' \in [Procs -> Processes] /\ stray' \subseteq stray) => TypeOK'
  BY <1>1 DEF TypeOK
<1>3. \A f \in Families : fams[f].gen \in Nat
  BY DEF Inv, TypeOK
<1>4. FamInv' /\ RcptInv' /\ LostAnswerRecoverable' /\ ~reused'
  BY <1>1 DEF Inv, CredInv, FamInv, RcptInv, LostAnswerRecoverable
<1>5. \A q \in Procs : Pairing(proc[q]) => fams'[proc[q].pub].gen = 0
  BY <1>1 DEF Inv, PairInv
<1>6. Current(m) /\ code \in {"ok", "replay"} => Deserved(m)'
  BY <1>1 DEF Deserved
<1>7. \A f \in Families : /\ fams[f].gen <= fams'[f].gen
                          /\ fams[f].st # "none" => fams'[f].st # "none"
                          /\ fams[f].dead => fams'[f].dead
  BY <1>1, <1>3
<1>8. (\A r \in rcpts : \E s \in rcpts' : s.pend = r.pend) /\ acked' = acked
  BY <1>1
<1> QED
  BY <1>2, <1>4, <1>5, <1>6, <1>7, <1>8, AnswerStep

(* The answers of the proof check. *)
LEMMA VerdictIs ==
    ASSUME NEW m
    PROVE  ProofVerdict(m) \in {"ok", "invalid_grant", "proof_invalid"} /\ ProofVerdict(m) \in Answers
  BY DEF ProofVerdict, Answers

(* The status is answered. *)
LEMMA InvServeStatus == ASSUME Inv, NEW m \in Arrived, ServeStatus(m) PROVE Inv'
<1>1. m.kind = "status" /\ UNCHANGED <<store, identity, service, bounds, rest>>
  BY DEF ServeStatus
<1>2. PICK code \in Answers : Answer(m, code)
  <2>1. "ok" \in Answers /\ "invalid_token" \in Answers
    BY DEF Answers
  <2> QED
    BY <2>1, VerdictIs DEF ServeStatus
<1>3. Deserved(m)
  BY <1>1 DEF Deserved
<1>4. /\ UNCHANGED <<logins, commands, reused>> /\ faults' \in 0..MaxFaults
      /\ singleShot' \in BOOLEAN \cup {None}
  BY <1>1 DEF bounds, rest, Inv, TypeOK
<1> QED
  BY <1>1, <1>2, <1>3, <1>4, AnswerOnly

(* The context of a family is read. *)
LEMMA InvReadRefreshContext == ASSUME Inv, NEW m \in Arrived, ReadRefreshContext(m) PROVE Inv'
<1>1. /\ m.kind = "refresh" /\ m.ctx = None
      /\ UNCHANGED <<store, identity, service, bounds, rest>>
  BY DEF ReadRefreshContext
<1>2. /\ UNCHANGED <<fams, binds, retired, rcpts, acked, meta, key, ids, logins, commands, faults>>
      /\ UNCHANGED <<singleShot, reused>>
  BY <1>1 DEF service, identity, bounds, rest
<1>3. /\ m \in Requests /\ MsgInv(m) /\ m.by \in Procs /\ m.fam \in Families
      /\ Current(m) => proc[m.by].pc = "wait" /\ proc[m.by].msg = m
  BY ArrivedGood
<1>4. PICK g \in Nat : g = fams[m.fam].gen
  BY <1>3 DEF Inv, TypeOK
<1>5. PICK seen : seen = [m EXCEPT !.ctx = g]
  OBVIOUS
<1>6. /\ seen \in Requests /\ seen.kind = m.kind /\ seen.by = m.by /\ seen.fam = m.fam
      /\ seen.token = m.token /\ seen.pend = m.pend /\ seen.ctx = g
  BY <1>3, <1>5 DEF Requests
<1>7. MsgInv(seen)
  <2>1. m.pend.gen <= g
    BY <1>1, <1>3, <1>4 DEF MsgInv, Claim, Loaded
  <2> QED
    BY <1>1, <1>3, <1>4, <1>6, <2>1 DEF MsgInv
<1>8. \/ \E code \in {"invalid_grant", "proof_invalid"} : Answer(m, code)
      \/ Current(m) /\ Update(m.by, [proc[m.by] EXCEPT !.msg = seen]) /\ UNCHANGED stray
      \/ stray' = (stray \ {m}) \cup {seen} /\ UNCHANGED proc
  BY <1>4, <1>5, VerdictIs DEF ReadRefreshContext
<1>9. CASE \E code \in {"invalid_grant", "proof_invalid"} : Answer(m, code)
  <2>1. PICK code \in {"invalid_grant", "proof_invalid"} : Answer(m, code)
    BY <1>9
  <2>2. code \in Answers /\ code \notin {"ok", "replay"}
    BY DEF Answers
  <2>3. faults' \in 0..MaxFaults /\ singleShot' \in BOOLEAN \cup {None}
    BY <1>2 DEF Inv, TypeOK
  <2> QED
    BY <1>1, <1>2, <2>1, <2>2, <2>3, AnswerOnly
<1>10. CASE Current(m) /\ Update(m.by, [proc[m.by] EXCEPT !.msg = seen]) /\ UNCHANGED stray
  <2>1. PICK p \in Procs : p = m.by
    BY <1>3
  <2>2. PICK r \in Processes : r = proc[p] /\ ProcInv(p, r) /\ r.pc = "wait" /\ r.msg = m
    BY <1>3, <1>10, <2>1, Moving
  <2>3. PICK n : n = [r EXCEPT !.msg = seen]
    OBVIOUS
  <2>4. /\ n \in Processes /\ n.pc = r.pc /\ n.msg = seen /\ n.pub = r.pub /\ n.phase = r.phase
        /\ n.creds = r.creds /\ n.pend = r.pend /\ n.token = r.token /\ n.ans = r.ans
    BY <1>6, <2>3 DEF Processes
  <2>5. WaitInv(p, n)
    BY <1>6, <1>7, <2>1, <2>2, <2>4 DEF ProcInv, WaitInv
  <2>6. PlaceInv(n) /\ MemoryInv(n) /\ AnswerInv(n) /\ (Pairing(n) => Pairing(r))
    BY <1>6, <2>2, <2>4 DEF ProcInv, PlaceInv, MemoryInv, AnswerInv, Pairing, Refreshing, Doing, Granted
  <2>7. p \in acked => AckKept(p, n)
    BY <1>1, <2>2, Moving DEF At, Doing
  <2>8. ProcInv(p, n) /\ Update(p, n)
    BY <1>10, <2>1, <2>2, <2>3, <2>5, <2>6 DEF ProcInv
  <2>9. n \in Processes /\ n.pub = r.pub /\ UNCHANGED <<store, identity, service, stray, bounds, rest>>
    BY <1>1, <1>10, <2>4
  <2> QED
    BY <2>2, <2>6, <2>7, <2>8, <2>9, Silent
<1>11. CASE stray' = (stray \ {m}) \cup {seen} /\ UNCHANGED proc
  <2>1. PICK p \in Procs : p = m.by
    BY <1>3
  <2>2. PICK r \in Processes : r = proc[p] /\ ProcInv(p, r) /\ (p \in acked => AckKept(p, r))
    BY Moving DEF AckKept, At
  <2>3. Update(p, r)
    BY <1>11, <2>2 DEF Update, Inv, TypeOK
  <2>4. \A x \in stray' : x \in stray \/ (x \in Requests /\ MsgInv(x))
    BY <1>6, <1>7, <1>11
  <2>5. UNCHANGED <<store, fams, binds, retired, rcpts, logins, rest>>
    BY <1>1, <1>2
  <2>6. /\ meta' \in Ids /\ key' \in Ids /\ ids' \in Ids
        /\ commands' \in 0..MaxCommands /\ faults' \in 0..MaxFaults /\ acked' \subseteq acked
    BY <1>2, Moving
  <2>7. acked' = acked /\ (Pairing(r) => Pairing(proc[p]) /\ r.pub = proc[p].pub)
    BY <1>2, <2>2
  <2> QED
    BY <2>2, <2>3, <2>4, <2>5, <2>6, <2>7, LocalStep
<1> QED
  BY <1>8, <1>9, <1>10, <1>11

-----------------------------------------------------------------------------
(* A family is made or revoked. *)

FamilyType ==
    [st : {"none", "active", "revoked"}, gen : Nat, dev : Ids, key : Ids, dead : BOOLEAN]

(* No generation moves, and no family that exists is forgotten. *)
FamiliesMove ==
    /\ fams' \in [Families -> FamilyType]
    /\ \A f \in Families : /\ fams'[f].gen = fams[f].gen
                           /\ fams[f].st # "none" => fams'[f].st # "none"
                           /\ fams[f].dead => fams'[f].dead
                           /\ fams'[f].st = "none" => ~fams'[f].dead
                           /\ fams'[f].st # "none" => f <= logins
BindingsMove ==
    binds' \subseteq Ids \X Ids /\ retired' \subseteq Ids \X Ids /\ binds' \cap retired' = {}

(* It disturbs nothing that the keychain and the pairings rely on. *)
LEMMA FamiliesStep ==
    ASSUME Inv, FamiliesMove, UNCHANGED <<store, rcpts, logins>>
    PROVE  /\ FamInv' /\ RcptInv' /\ LostAnswerRecoverable'
           /\ \A q \in Procs : Pairing(proc[q]) => fams'[proc[q].pub].gen = 0
           /\ \A f \in Families : /\ fams[f].gen <= fams'[f].gen
                                  /\ fams[f].st # "none" => fams'[f].st # "none"
                                  /\ fams[f].dead => fams'[f].dead
           /\ \A r \in rcpts : \E s \in rcpts' : s.pend = r.pend
<1> USE DEF store
<1>1. \A f \in Families : f \in Nat /\ fams[f].gen \in Nat /\ fams'[f].gen = fams[f].gen
  BY DEF Inv, TypeOK, Families, FamiliesMove
<1>2. logins \in Nat /\ logins' = logins
  BY DEF Inv, TypeOK
<1>3. FamInv'
  BY <1>1, <1>2 DEF Inv, FamInv, FamiliesMove
<1>4. RcptInv'
  <2>1. \A r \in rcpts : r.pend.fam \in Families
    BY DEF Inv, TypeOK, Receipts, RefreshKeys
  <2> QED
    BY <1>1, <2>1 DEF Inv, RcptInv
<1>5. LostAnswerRecoverable'
  <2>1. cred # None => cred.fam \in Families
    BY DEF Inv, TypeOK, Records
  <2> QED
    BY <1>1, <2>1 DEF Inv, CredInv, LostAnswerRecoverable, FamiliesMove
<1>6. ASSUME NEW q \in Procs, Pairing(proc[q]) PROVE fams'[proc[q].pub].gen = 0
  BY <1>1, <1>6, Moving DEF Inv, PairInv, ProcInv, PlaceInv
<1>7. \A f \in Families : /\ fams[f].gen <= fams'[f].gen
                          /\ fams[f].st # "none" => fams'[f].st # "none"
                          /\ fams[f].dead => fams'[f].dead
  BY <1>1 DEF FamiliesMove
<1> QED
  BY <1>3, <1>4, <1>5, <1>6, <1>7

(* Together with an answer. *)
LEMMA FamiliesAnswer ==
    ASSUME Inv, NEW m \in Arrived, NEW code \in Answers, Answer(m, code), FamiliesMove, BindingsMove,
           UNCHANGED <<store, identity, rcpts, logins, commands>>, ~reused', reused' \in BOOLEAN,
           faults' \in 0..MaxFaults, singleShot' \in BOOLEAN \cup {None}, acked' \subseteq Procs,
           Current(m) /\ code \in {"ok", "replay"} => Deserved(m)',
           \A q \in acked' : q \in acked \/ (q = m.by /\ Current(m) /\ m.kind = "revoke" /\ Deserved(m)')
    PROVE  Inv'
<1>1. (TypeOK /\ proc' \in [Procs -> Processes] /\ stray' \subseteq stray) => TypeOK'
  BY DEF TypeOK, FamiliesMove, FamilyType, BindingsMove, store, identity
<1> QED
  BY <1>1, FamiliesStep, AnswerStep

(* One family is replaced by a later state of itself. *)
LEMMA FamilyMoves ==
    ASSUME Inv, NEW f \in Families, f <= logins, NEW x \in FamilyType, x.gen = fams[f].gen,
           x.st # "none", fams[f].dead => x.dead, fams' = [fams EXCEPT ![f] = x]
    PROVE  FamiliesMove /\ fams'[f] = x
<1>1. fams \in [Families -> FamilyType]
  BY DEF Inv, TypeOK, FamilyType
<1>2. \A g \in Families : fams'[g] = IF g = f THEN x ELSE fams[g]
  BY <1>1
<1>3. \A g \in Families : g \in Nat /\ logins \in Nat
  BY DEF Inv, TypeOK, Families
<1>4. \A g \in Families : fams[g].st # "none" => g <= logins
  BY <1>3 DEF Inv, FamInv
<1>5. \A g \in Families : fams[g].st = "none" => ~fams[g].dead
  BY DEF Inv, FamInv
<1>6. fams' \in [Families -> FamilyType]
  BY <1>1
<1> QED
  BY <1>2, <1>4, <1>5, <1>6 DEF FamiliesMove

(* One family is revoked, with its device or without. *)
LEMMA FamilyRevoked ==
    ASSUME Inv, NEW f \in Families, fams[f].st # "none",
           \/ fams' = [fams EXCEPT ![f].st = "revoked"]
           \/ fams' = [fams EXCEPT ![f].st = "revoked", ![f].dead = TRUE]
    PROVE  /\ FamiliesMove
           /\ fams' = [fams EXCEPT ![f].st = "revoked", ![f].dead = TRUE] => fams'[f].dead
<1>1. PICK o \in FamilyType : o = fams[f]
  BY DEF Inv, TypeOK, FamilyType
<1>2. f <= logins
  BY DEF Inv, FamInv, TypeOK, Families
<1>3. fams \in [Families -> FamilyType]
  BY DEF Inv, TypeOK, FamilyType
<1>4. CASE fams' = [fams EXCEPT ![f].st = "revoked", ![f].dead = TRUE]
  <2>1. PICK x : x = [o EXCEPT !.st = "revoked", !.dead = TRUE]
    OBVIOUS
  <2>2. x \in FamilyType /\ x.gen = o.gen /\ x.st # "none" /\ x.dead
    BY <2>1 DEF FamilyType
  <2>3. fams' = [fams EXCEPT ![f] = x]
    BY <1>1, <1>3, <1>4, <2>1
  <2> QED
    BY <1>1, <1>2, <2>2, <2>3, FamilyMoves
<1>5. CASE fams' # [fams EXCEPT ![f].st = "revoked", ![f].dead = TRUE]
  <2>1. PICK x : x = [o EXCEPT !.st = "revoked"]
    OBVIOUS
  <2>2. x \in FamilyType /\ x.gen = o.gen /\ x.st # "none" /\ x.dead = o.dead
    BY <2>1 DEF FamilyType
  <2>3. fams' = [fams EXCEPT ![f] = x]
    BY <1>1, <1>3, <1>5, <2>1
  <2> QED
    BY <1>1, <1>2, <1>5, <2>2, <2>3, FamilyMoves
<1> QED
  BY <1>4, <1>5

(* device_auth_exchange_v1. *)
LEMMA InvServeExchange == ASSUME Inv, NEW m \in Arrived, ServeExchange(m) PROVE Inv'
<1>1. /\ m.kind = "exchange"
      /\ UNCHANGED <<store, identity, binds, retired, rcpts, acked, bounds, rest>>
  BY DEF ServeExchange
<1>2. UNCHANGED <<logins, commands, faults, singleShot, reused>>
  BY <1>1 DEF bounds, rest
<1>3. m \in Requests /\ m.fam \in Families /\ m.fam <= logins
  BY <1>1, ArrivedGood DEF MsgInv
<1>4. /\ faults' \in 0..MaxFaults /\ singleShot' \in BOOLEAN \cup {None} /\ reused' \in BOOLEAN
      /\ ~reused' /\ acked' \subseteq Procs /\ acked' = acked
  BY <1>1, <1>2 DEF Inv, TypeOK
<1>5. BindingsMove
  BY <1>1 DEF BindingsMove, Inv, TypeOK
<1>6. {"ok", "already_consumed"} \subseteq Answers
  BY DEF Answers
<1>7. CASE ProofVerdict(m) # "ok"
  <2>1. Answer(m, ProofVerdict(m)) /\ fams' = fams
    BY <1>7 DEF ServeExchange
  <2>2. PICK code \in Answers : Answer(m, code) /\ code \notin {"ok", "replay"}
    BY <1>7, <2>1, VerdictIs
  <2>3. UNCHANGED service
    BY <1>1, <2>1 DEF service
  <2> QED
    BY <1>1, <1>2, <1>4, <2>2, <2>3, AnswerOnly
<1>8. CASE ProofVerdict(m) = "ok" /\ fams[m.fam].st # "none"
  <2>1. PICK code \in Answers : Answer(m, code) /\ code \notin {"ok", "replay"}
    BY <1>6, <1>8 DEF ServeExchange
  <2>2. fams' = [fams EXCEPT ![m.fam].st = "revoked", ![m.fam].dead = TRUE]
    BY <1>8 DEF ServeExchange
  <2>3. FamiliesMove
    BY <1>3, <1>8, <2>2, FamilyRevoked
  <2> QED
    BY <1>1, <1>2, <1>4, <1>5, <2>1, <2>3, FamiliesAnswer
<1>9. CASE ProofVerdict(m) = "ok" /\ fams[m.fam].st = "none"
  <2>1. PICK x : x = [st |-> "active", gen |-> 0, dev |-> m.dev, key |-> m.sig, dead |-> FALSE]
    OBVIOUS
  <2>2. m.dev \in Ids /\ m.sig \in Ids
    BY <1>3 DEF Requests
  <2>3. x \in FamilyType /\ x.gen = 0 /\ x.st = "active"
    BY <2>1, <2>2 DEF FamilyType
  <2>4. fams[m.fam].gen = 0 /\ ~fams[m.fam].dead
    BY <1>3, <1>9 DEF Inv, FamInv
  <2>5. fams' = [fams EXCEPT ![m.fam] = x]
    BY <1>9, <2>1 DEF ServeExchange
  <2>6. FamiliesMove /\ fams'[m.fam] = x
    BY <1>3, <2>3, <2>4, <2>5, FamilyMoves
  <2>7. PICK code \in Answers : Answer(m, code)
    BY <1>6, <1>9 DEF ServeExchange
  <2>8. Deserved(m)'
    BY <1>1, <2>3, <2>6 DEF Deserved
  <2> QED
    BY <1>1, <1>2, <1>4, <1>5, <2>6, <2>7, <2>8, FamiliesAnswer
<1> QED
  BY <1>7, <1>8, <1>9

(* device_auth_revoke_v1. *)
LEMMA InvServeRevoke == ASSUME Inv, NEW m \in Arrived, ServeRevoke(m) PROVE Inv'
<1>1. m.kind = "revoke" /\ UNCHANGED <<store, identity, rcpts, bounds, rest>>
  BY DEF ServeRevoke
<1>2. UNCHANGED <<logins, commands, faults, singleShot, reused>>
  BY <1>1 DEF bounds, rest
<1>3. /\ m \in Requests /\ m.by \in Procs /\ m.fam \in Families
      /\ Current(m) => proc[m.by].pc = "wait" /\ proc[m.by].msg = m
  BY ArrivedGood
<1>4. /\ faults' \in 0..MaxFaults /\ singleShot' \in BOOLEAN \cup {None} /\ reused' \in BOOLEAN
      /\ ~reused'
  BY <1>2 DEF Inv, TypeOK
<1>5. PICK f : f = fams[m.fam]
  OBVIOUS
<1>6. PICK code : code = IF m.by \in acked THEN "ok"
                         ELSE IF f.dev # m.dev \/ <<f.dev, f.key>> \notin binds THEN "invalid_grant"
                         ELSE IF f.key # m.sig THEN "proof_invalid"
                         ELSE IF f.dead \/ AccessGood(m) THEN "ok" ELSE "invalid_token"
  OBVIOUS
<1>7. /\ Answer(m, code)
      /\ IF code = "ok" /\ m.by \notin acked
         THEN /\ fams' = [fams EXCEPT ![m.fam].st = "revoked", ![m.fam].dead = TRUE]
              /\ binds' = IF f.dead THEN binds ELSE binds \ Unneeded(m.fam)
              /\ retired' = retired \cup (binds \ binds')
              /\ acked' = IF Current(m) THEN acked \cup {m.by} ELSE acked
         ELSE UNCHANGED <<fams, binds, retired, acked>>
  BY <1>5, <1>6 DEF ServeRevoke
<1>8. code \in Answers /\ code # "replay"
  BY <1>6 DEF Answers
<1>9. CASE code = "ok" /\ m.by \notin acked
  <2>1. fams[m.fam].st # "none"
    <3>1. fams[m.fam].dead \/ fams[m.fam].st = "active"
      BY <1>5, <1>6, <1>9 DEF AccessGood, FamilyLive
    <3> QED
      BY <1>3, <3>1 DEF Inv, FamInv
  <2>2. FamiliesMove /\ fams'[m.fam].dead
    BY <1>3, <1>7, <1>9, <2>1, FamilyRevoked
  <2>3. BindingsMove
    <3>1. binds' \subseteq binds /\ retired' = retired \cup (binds \ binds')
      BY <1>7, <1>9
    <3> QED
      BY <3>1 DEF BindingsMove, Inv, TypeOK
  <2>4. Deserved(m)'
    BY <1>1, <2>2 DEF Deserved
  <2>5. acked' \subseteq Procs /\ \A q \in acked' : q \in acked \/ (q = m.by /\ Current(m))
    BY <1>3, <1>7, <1>9 DEF Inv, TypeOK
  <2> QED
    BY <1>1, <1>2, <1>4, <1>7, <1>8, <2>2, <2>3, <2>4, <2>5, FamiliesAnswer
<1>10. CASE ~(code = "ok" /\ m.by \notin acked)
  <2>1. UNCHANGED service
    BY <1>1, <1>7, <1>10 DEF service
  <2>2. ASSUME Current(m), code = "ok" PROVE Deserved(m)
    <3>1. m.by \in acked /\ ~At(m.by, "idle")
      BY <1>3, <1>10, <2>2 DEF At
    <3>2. fams[proc[m.by].pub].dead
      BY <1>3, <3>1, Moving
    <3>3. m.fam = proc[m.by].pub
      BY <1>1, <1>3, <2>2, Moving DEF ProcInv, WaitInv
    <3> QED
      BY <1>1, <3>2, <3>3 DEF Deserved
  <2> QED
    BY <1>1, <1>2, <1>4, <1>7, <1>8, <2>1, <2>2, AnswerOnly
<1> QED
  BY <1>9, <1>10

-----------------------------------------------------------------------------
(* device_auth_refresh_v1. *)

(* The reuse detection never meets the family that the keychain holds: a   *)
(* token of it that is behind has its receipt.                             *)
LEMMA ReuseIsForeign ==
    ASSUME Inv, NEW m \in Arrived, m.kind = "refresh", ReceiptFor(m) = {}, ~CurrentToken(m), cred # None
    PROVE  cred.fam # m.fam
<1> SUFFICES ASSUME cred.fam = m.fam PROVE FALSE
  OBVIOUS
<1>1. Claim(m.fam, m.pend.gen, m.pend) /\ m.token.gen = m.pend.gen /\ m.fam \in Families
  BY ArrivedGood DEF MsgInv
<1>2. ~\E r \in rcpts : r.pend = m.pend
  BY DEF ReceiptFor
<1>3. PICK g \in Nat : g = m.pend.gen
  BY <1>1 DEF Claim, Loaded
<1>4. PICK c \in Nat : c = cred.gen
  BY DEF Inv, TypeOK, Records
<1>5. PICK h \in Nat : h = fams[m.fam].gen
  BY <1>1 DEF Inv, TypeOK
<1>6. g <= c /\ (g = c => pending = m.pend) /\ ~(g < c)
  BY <1>1, <1>2, <1>3, <1>4 DEF Claim, Loaded
<1>7. c <= h /\ h <= c + 1 /\ (h = c + 1 => \E r \in rcpts : r.pend = pending)
  BY <1>4, <1>5 DEF Inv, CredInv, LostAnswerRecoverable
<1>8. g # h
  BY <1>1, <1>3, <1>5 DEF CurrentToken
<1>9. g = c /\ h = c + 1
  BY <1>6, <1>7, <1>8
<1> QED
  BY <1>2, <1>6, <1>7, <1>9

(* The family rotates: the keychain is behind now, and has what it needs. *)
LEMMA InvRotate ==
    ASSUME Inv, NEW m \in Arrived, m.kind = "refresh", m.ctx # None, FamilyLive(m.fam), Rotate(m),
           UNCHANGED <<store, identity, binds, retired, acked, logins, commands, faults>>
    PROVE  Inv'
<1> USE DEF store
<1>1. /\ m \in Requests /\ m.fam \in Families /\ m.fam <= logins /\ m.token.gen = m.pend.gen
      /\ Claim(m.fam, m.pend.gen, m.pend) /\ m.pend.gen <= m.ctx /\ m.ctx <= fams[m.fam].gen
  BY ArrivedGood DEF MsgInv
<1>2. /\ m.token.gen = fams[m.fam].gen /\ fams' = [fams EXCEPT ![m.fam].gen = @ + 1]
      /\ rcpts' = rcpts \cup {[pend |-> m.pend, sealed |-> m.ctx, open |-> TRUE]}
      /\ Answer(m, "ok") /\ UNCHANGED <<singleShot, reused>>
  BY DEF Rotate, CurrentToken, rest
<1>3. PICK h \in Nat : h = fams[m.fam].gen
  BY <1>1 DEF Inv, TypeOK
<1>4. m.pend.gen = h /\ m.ctx = h /\ m.ctx \in Nat /\ m.pend \in RefreshKeys /\ m.pend.fam = m.fam
  <2>1. m.ctx \in Nat
    BY <1>1 DEF Requests
  <2> QED
    BY <1>1, <1>2, <1>3, <2>1 DEF Claim
<1>5. PICK o \in FamilyType : o = fams[m.fam] /\ o.st = "active"
  BY <1>1 DEF Inv, TypeOK, FamilyType, FamilyLive
<1>6. PICK up \in Nat : up = h + 1
  OBVIOUS
<1>7. PICK x : x = [o EXCEPT !.gen = up]
  OBVIOUS
<1>8. x \in FamilyType /\ x.gen = up /\ x.st = o.st /\ x.dead = o.dead
  BY <1>7 DEF FamilyType
<1>9. fams \in [Families -> FamilyType]
  BY DEF Inv, TypeOK, FamilyType
<1>10. fams' = [fams EXCEPT ![m.fam] = x]
  BY <1>1, <1>2, <1>3, <1>5, <1>6, <1>7, <1>9
<1>11. /\ fams' \in [Families -> FamilyType] /\ fams'[m.fam] = x
       /\ \A f \in Families \ {m.fam} : fams'[f] = fams[f]
  BY <1>1, <1>8, <1>9, <1>10
<1>12. PICK new \in Receipts : /\ new = [pend |-> m.pend, sealed |-> m.ctx, open |-> TRUE]
                               /\ new.pend = m.pend /\ new.sealed = h
  <2>1. PICK yes \in BOOLEAN : yes = TRUE
    OBVIOUS
  <2>2. PICK new : new = [pend |-> m.pend, sealed |-> m.ctx, open |-> yes]
    OBVIOUS
  <2>3. new \in Receipts /\ new.pend = m.pend /\ new.sealed = m.ctx
    BY <1>4, <2>2 DEF Receipts
  <2> QED
    BY <1>4, <2>1, <2>2, <2>3
<1>13. rcpts' = rcpts \cup {new} /\ rcpts \subseteq Receipts
  BY <1>2, <1>12 DEF Inv, TypeOK
<1>14. (TypeOK /\ proc' \in [Procs -> Processes] /\ stray' \subseteq stray) => TypeOK'
  BY <1>2, <1>11, <1>13 DEF TypeOK, FamilyType, identity
<1>15. \A f \in Families : f \in Nat /\ fams[f].gen \in Nat
  BY DEF Inv, TypeOK, Families
<1>16. \A f \in Families : /\ fams[f].gen <= fams'[f].gen
                           /\ fams[f].st # "none" => fams'[f].st # "none"
                           /\ fams[f].dead => fams'[f].dead
  BY <1>3, <1>5, <1>6, <1>8, <1>11, <1>15
<1>17. \A r \in rcpts : \E s \in rcpts' : s.pend = r.pend
  BY <1>13
<1>18. FamInv'
  <2>1. logins' = logins /\ logins \in Nat
    BY DEF Inv, TypeOK
  <2> QED
    BY <1>1, <1>5, <1>8, <1>11, <1>15, <2>1 DEF Inv, FamInv
<1>19. RcptInv'
  <2>1. ASSUME NEW r \in rcpts PROVE r.sealed = r.pend.gen /\ r.pend.gen < fams'[r.pend.fam].gen
    <3>1. r.pend.fam \in Families /\ r.pend.gen \in Nat
      BY <1>13 DEF Receipts, RefreshKeys
    <3>2. r.sealed = r.pend.gen /\ r.pend.gen < fams[r.pend.fam].gen
      BY DEF Inv, RcptInv
    <3>3. fams[r.pend.fam].gen \in Nat /\ fams'[r.pend.fam].gen \in Nat
      BY <1>11, <1>15, <3>1 DEF FamilyType
    <3> QED
      BY <1>16, <3>1, <3>2, <3>3
  <2>2. new.sealed = new.pend.gen /\ new.pend.gen < fams'[new.pend.fam].gen
    BY <1>4, <1>6, <1>8, <1>11, <1>12
  <2> QED
    BY <1>13, <2>1, <2>2 DEF RcptInv
<1>20. LostAnswerRecoverable'
  <2> SUFFICES ASSUME cred # None
               PROVE  /\ fams'[cred.fam].st # "none" /\ cred.gen <= fams'[cred.fam].gen
                      /\ fams'[cred.fam].gen <= cred.gen + 1
                      /\ fams'[cred.fam].gen = cred.gen + 1 =>
                           /\ pending # None /\ pending.fam = cred.fam /\ pending.gen = cred.gen
                           /\ \E r \in rcpts' : r.pend = pending
    BY DEF LostAnswerRecoverable
  <2>1. cred.fam \in Families
    BY DEF Inv, TypeOK, Records
  <2>2. PICK c \in Nat : c = cred.gen
    BY DEF Inv, TypeOK, Records
  <2>3. CASE cred.fam = m.fam
    <3>1. c <= h /\ h <= c
      BY <1>1, <1>3, <1>4, <2>2, <2>3 DEF Claim, Loaded, Inv, CredInv, LostAnswerRecoverable
    <3>2. c = h /\ pending = m.pend
      BY <1>1, <1>4, <2>2, <2>3, <3>1 DEF Claim
    <3>3. pending # None
      BY <1>4, <3>2, NoneAssumption
    <3> QED
      BY <1>4, <1>5, <1>6, <1>8, <1>11, <1>12, <1>13, <2>2, <2>3, <3>2, <3>3
  <2>4. CASE cred.fam # m.fam
    <3>1. fams'[cred.fam] = fams[cred.fam]
      BY <1>11, <2>1, <2>4
    <3> QED
      BY <1>13, <3>1 DEF Inv, CredInv, LostAnswerRecoverable
  <2> QED
    BY <2>3, <2>4
<1>21. ASSUME NEW q \in Procs, Pairing(proc[q]) PROVE fams'[proc[q].pub].gen = 0
  <2>1. proc[q].pub # m.fam /\ proc[q].pub \in Families /\ fams[proc[q].pub].gen = 0
    BY <1>1, <1>21, Moving DEF Claim, Loaded, Inv, PairInv, ProcInv, PlaceInv
  <2> QED
    BY <1>11, <2>1
<1>22. Deserved(m)' /\ ~reused' /\ acked' = acked
  <2>1. m.pend.gen < fams'[m.fam].gen
    BY <1>4, <1>6, <1>8, <1>11
  <2>2. Deserved(m)'
    BY <2>1 DEF Deserved
  <2>3. ~reused'
    BY <1>2 DEF Inv
  <2> QED
    BY <2>2, <2>3
<1>23. PICK code \in Answers : Answer(m, code)
  BY <1>2 DEF Answers
<1> QED
  BY <1>14, <1>16, <1>17, <1>18, <1>19, <1>20, <1>21, <1>22, <1>23, AnswerStep

(* A refresh is served. *)
LEMMA InvServeRefresh == ASSUME Inv, NEW m \in Arrived, ServeRefresh(m) PROVE Inv'
<1>1. /\ m.kind = "refresh" /\ m.ctx # None
      /\ UNCHANGED <<store, identity, binds, retired, acked, logins, commands>>
  BY DEF ServeRefresh
<1>2. m.fam \in Families /\ Claim(m.fam, m.pend.gen, m.pend)
  BY <1>1, ArrivedGood DEF MsgInv
<1>3. {"invalid_grant", "replay", "unavailable", "already_consumed"} \subseteq Answers
  BY DEF Answers
<1>4. BindingsMove /\ acked' \subseteq Procs /\ acked' = acked
  BY <1>1 DEF BindingsMove, Inv, TypeOK
<1>5. /\ singleShot \in BOOLEAN \cup {None} /\ faults \in 0..MaxFaults /\ ~reused /\ reused \in BOOLEAN
  BY DEF Inv, TypeOK
<1>6. ASSUME UNCHANGED <<fams, rcpts, reused>>, faults' \in 0..MaxFaults,
             singleShot' \in BOOLEAN \cup {None}, NEW code \in Answers, Answer(m, code),
             code \in {"ok", "replay"} => Deserved(m)
      PROVE  Inv'
  <2>1. UNCHANGED service
    BY <1>1, <1>6 DEF service
  <2> QED
    BY <1>1, <1>6, <2>1, AnswerOnly
<1>7. ASSUME FamilyLive(m.fam), Revoke(m.fam), UNCHANGED rcpts, faults' \in 0..MaxFaults,
             ~reused', reused' \in BOOLEAN,
             singleShot' \in BOOLEAN \cup {None}, NEW code \in Answers, Answer(m, code),
             code \notin {"ok", "replay"}
      PROVE  Inv'
  <2>1. FamiliesMove
    BY <1>2, <1>7, FamilyRevoked DEF FamilyLive, Revoke
  <2> QED
    BY <1>1, <1>4, <1>7, <2>1, FamiliesAnswer
<1>8. CASE ~FamilyLive(m.fam)
  <2>1. Answer(m, "invalid_grant") /\ UNCHANGED <<fams, rcpts, singleShot, reused, faults>>
    BY <1>8 DEF ServeRefresh, rest
  <2> QED
    BY <1>3, <1>5, <1>6, <2>1
<1>9. CASE FamilyLive(m.fam) /\ Rotate(m) /\ UNCHANGED faults
  BY <1>1, <1>9, InvRotate
<1>10. CASE FamilyLive(m.fam) /\ DetectReuse(m) /\ UNCHANGED faults
  <2>1. /\ ReceiptFor(m) = {} /\ ~CurrentToken(m) /\ Revoke(m.fam) /\ Answer(m, "invalid_grant")
        /\ reused' = (reused \/ (cred # None /\ cred.fam = m.fam)) /\ UNCHANGED <<rcpts, singleShot>>
    BY <1>10 DEF DetectReuse
  <2>2. ~(cred # None /\ cred.fam = m.fam)
    BY <1>1, <2>1, ReuseIsForeign
  <2>3. ~reused' /\ reused' \in BOOLEAN
    BY <1>5, <2>1, <2>2
  <2> QED
    BY <1>3, <1>5, <1>7, <1>10, <2>1, <2>3
<1>11. CASE FamilyLive(m.fam) /\ ReplayRefresh(m) /\ UNCHANGED faults
  <2>1. singleShot' \in BOOLEAN /\ UNCHANGED <<rcpts, reused>>
    BY <1>11, DeviceAuthAssumption DEF ReplayRefresh, RunsSingleShot
  <2>2. PICK r \in rcpts : /\ r.pend = m.pend
                           /\ \/ UNCHANGED fams /\ Answer(m, "replay")
                              \/ Revoke(m.fam) /\ Answer(m, "invalid_grant")
    BY <1>11 DEF ReplayRefresh, ReceiptFor
  <2>3. Deserved(m)
    BY <1>1, <1>2, <2>2 DEF Deserved, Claim, Inv, RcptInv
  <2>4. CASE UNCHANGED fams /\ Answer(m, "replay")
    BY <1>3, <1>5, <1>6, <1>11, <2>1, <2>3, <2>4
  <2>5. CASE Revoke(m.fam) /\ Answer(m, "invalid_grant")
    BY <1>3, <1>5, <1>7, <1>11, <2>1, <2>5
  <2> QED
    BY <2>2, <2>4, <2>5
<1>12. CASE FamilyLive(m.fam) /\ ConsumedOnce(m) /\ UNCHANGED faults
  <2>1. singleShot' \in BOOLEAN /\ Answer(m, "already_consumed") /\ UNCHANGED <<fams, rcpts, reused>>
    BY <1>12, DeviceAuthAssumption DEF ConsumedOnce, RunsSingleShot
  <2> QED
    BY <1>3, <1>5, <1>6, <1>12, <2>1
<1>13. CASE FamilyLive(m.fam) /\ FailClosed(m) /\ Fault
  <2>1. /\ singleShot' \in BOOLEAN /\ Answer(m, "unavailable") /\ UNCHANGED <<rcpts, reused>>
        /\ Revoke(m.fam) \/ UNCHANGED fams
    BY <1>13, DeviceAuthAssumption DEF FailClosed, RunsSingleShot
  <2>2. faults' \in 0..MaxFaults
    BY <1>5, <1>13, DeviceAuthAssumption DEF Fault
  <2>3. CASE UNCHANGED fams
    BY <1>3, <1>6, <2>1, <2>2, <2>3
  <2>4. CASE Revoke(m.fam)
    BY <1>3, <1>5, <1>7, <1>13, <2>1, <2>2, <2>4
  <2> QED
    BY <2>1, <2>3, <2>4
<1> QED
  BY <1>8, <1>9, <1>10, <1>11, <1>12, <1>13 DEF ServeRefresh

-----------------------------------------------------------------------------
(* What happens to the service alone. *)

(* The processes keep what they rely on while the service goes on. *)
LEMMA ServiceStep ==
    ASSUME Inv, TypeOK', UNCHANGED <<store, proc, acked, stray, logins, reused>>,
           \A f \in Families : /\ fams[f].gen <= fams'[f].gen
                               /\ fams[f].st # "none" => fams'[f].st # "none"
                               /\ fams[f].dead => fams'[f].dead,
           \A r \in rcpts : \E s \in rcpts' : s.pend = r.pend,
           FamInv', RcptInv', LostAnswerRecoverable',
           \A q \in Procs : Pairing(proc[q]) => fams'[proc[q].pub].gen = 0
    PROVE  Inv'
<1>1. Onward
  <2>1. logins' = logins /\ logins \in Nat /\ proc' = proc
    BY DEF Inv, TypeOK
  <2> QED
    BY <2>1 DEF Onward
<1>2. TypeOK /\ Keeps
  BY <1>1, Keeping DEF Inv
<1>3. ASSUME NEW q \in Procs PROVE ProcInv(q, proc[q])'
  <2>1. PICK r \in Processes : r = proc'[q] /\ ProcInv(q, r)
    BY Moving
  <2>2. ProcInv(q, r)'
    BY <1>1, <1>2, <2>1, ProcStays
  <2> QED
    BY <2>1, <2>2
<1>4. ASSUME NEW x \in stray' PROVE MsgInv(x)'
  BY <1>1, <1>2, <1>4, MsgStays DEF Inv, TypeOK
<1>5. CredInv'
  BY <1>2 DEF Inv, CredInv, Keeps, store
<1>6. PairInv'
  BY DEF Inv, PairInv, Pairing, Doing
<1>7. AckInv'
  BY DEF Inv, TypeOK, AckInv, At, Doing
<1> QED
  BY <1>3, <1>4, <1>5, <1>6, <1>7 DEF Inv

(* The owner revokes the device from the dashboard. *)
LEMMA InvOwnerRevokes == ASSUME Inv, NEW f \in Families, OwnerRevokes(f) PROVE Inv'
<1>1. /\ fams[f].st # "none" /\ faults < MaxFaults /\ faults' = faults + 1
      /\ fams' = [fams EXCEPT ![f].st = "revoked", ![f].dead = TRUE]
      /\ UNCHANGED <<store, meta, key, ids, proc, rcpts, acked, stray, logins, commands, singleShot, reused>>
  BY DEF OwnerRevokes, Fault, identity, rest
<1>2. FamiliesMove
  BY <1>1, FamilyRevoked
<1>3. BindingsMove
  <2>1. PICK gone \in SUBSET binds : binds' = binds \ gone /\ retired' = retired \cup gone
    BY DEF OwnerRevokes
  <2> QED
    BY <2>1 DEF BindingsMove, Inv, TypeOK
<1>4. faults' \in 0..MaxFaults
  BY <1>1, DeviceAuthAssumption DEF Inv, TypeOK
<1>5. TypeOK'
  BY <1>1, <1>2, <1>3, <1>4 DEF Inv, TypeOK, FamiliesMove, FamilyType, BindingsMove, store
<1> QED
  BY <1>1, <1>2, <1>5, FamiliesStep, ServiceStep

(* A family expires. *)
LEMMA InvFamilyExpires == ASSUME Inv, NEW f \in Families, FamilyExpires(f) PROVE Inv'
<1>1. /\ fams[f].st = "active" /\ faults < MaxFaults /\ faults' = faults + 1
      /\ fams' = [fams EXCEPT ![f].st = "revoked"]
      /\ UNCHANGED <<store, meta, key, ids, proc, binds, retired, rcpts, acked, stray, logins, commands,
                     singleShot, reused>>
  BY DEF FamilyExpires, Fault, identity, rest
<1>2. FamiliesMove
  BY <1>1, FamilyRevoked
<1>3. faults' \in 0..MaxFaults
  BY <1>1, DeviceAuthAssumption DEF Inv, TypeOK
<1>4. TypeOK'
  BY <1>1, <1>2, <1>3 DEF Inv, TypeOK, FamiliesMove, FamilyType, store
<1> QED
  BY <1>1, <1>2, <1>4, FamiliesStep, ServiceStep

(* A refresh window closes. *)
LEMMA InvWindowCloses == ASSUME Inv, NEW r \in rcpts, WindowCloses(r) PROVE Inv'
<1>1. /\ rcpts' = (rcpts \ {r}) \cup {[r EXCEPT !.open = FALSE]}
      /\ UNCHANGED <<store, meta, key, ids, proc, fams, binds, retired, acked, stray, logins, commands,
                     faults, singleShot, reused>>
  BY DEF WindowCloses, identity, bounds, rest
<1>2. PICK s : s = [r EXCEPT !.open = FALSE]
  OBVIOUS
<1>3. r \in Receipts
  BY DEF Inv, TypeOK
<1>4. s \in Receipts /\ s.pend = r.pend /\ s.sealed = r.sealed
  BY <1>2, <1>3 DEF Receipts
<1>5. rcpts' = (rcpts \ {r}) \cup {s}
  BY <1>1, <1>2
<1>6. TypeOK'
  BY <1>1, <1>4, <1>5 DEF Inv, TypeOK, store
<1>7. \A x \in rcpts : \E y \in rcpts' : y.pend = x.pend
  BY <1>4, <1>5
<1>8. FamInv' /\ RcptInv'
  BY <1>1, <1>4, <1>5 DEF Inv, FamInv, RcptInv
<1>9. LostAnswerRecoverable'
  BY <1>1, <1>7 DEF Inv, CredInv, LostAnswerRecoverable, store
<1>10. \A f \in Families : fams[f].gen \in Nat
  BY DEF Inv, TypeOK
<1>11. \A q \in Procs : Pairing(proc[q]) => fams'[proc[q].pub].gen = 0
  BY <1>1 DEF Inv, PairInv
<1> QED
  BY <1>1, <1>6, <1>7, <1>8, <1>9, <1>10, <1>11, ServiceStep

-----------------------------------------------------------------------------
(* The keychain changes, or a sign-in is granted. *)

(* Places that rely on nothing but the command and the family it is about. *)
SafePlace(n) ==
    /\ n.msg = None
    /\ \/ n.pc = "idle"
       \/ n.pc = "logout" /\ n.phase = "logout"
       \/ n.pc = "load" /\ n.phase \in {"status", "logout"} /\ n.pub \in Families
       \/ n.pc = "status" /\ n.phase = "status" /\ n.pub \in Families
       \/ n.pc = "revoke" /\ n.phase = "logout" /\ n.pub \in Families
       \/ n.pc = "retire" /\ n.token = None

(* A process may be there before the step and after it. *)
LEMMA SafeIs ==
    ASSUME NEW p, NEW n \in Processes, SafePlace(n)
    PROVE  ProcInv(p, n) /\ ProcInv(p, n)' /\ ~Pairing(n)
<1>1. ProcInv(p, n) /\ ~Pairing(n)
  BY DEF SafePlace, ProcInv, WaitInv, PlaceInv, MemoryInv, AnswerInv, Pairing, Refreshing, Doing, Granted
<1>2. ProcInv(p, n)'
  BY DEF SafePlace, ProcInv, WaitInv, PlaceInv, MemoryInv, AnswerInv, Pairing, Refreshing, Doing, Granted
<1> QED
  BY <1>1, <1>2

(* A call of refreshAccessToken may throw at any place. *)
LEMMA ThrownSafe ==
    ASSUME NEW r \in Processes, r.msg = None
    PROVE  RefreshThrown(r) \in Processes /\ SafePlace(RefreshThrown(r))
  BY ThrownIs DEF SafePlace

(* A step of one process on what is stored. *)
LEMMA KeychainStep ==
    ASSUME Inv, NEW p \in Procs, NEW n \in Processes, Update(p, n), ProcInv(p, n)', TypeOK', Onward, Keeps,
           UNCHANGED <<fams, rcpts, stray, acked, reused>>, FamInv', CredInv', PairInv',
           p \in acked => AckKept(p, n)
    PROVE  Inv'
<1>1. /\ proc' \in [Procs -> Processes] /\ proc'[p] = n
      /\ \A q \in Procs \ {p} : proc'[q] = proc[q]
  BY DEF Update, Inv, TypeOK
<1>2. ASSUME NEW q \in Procs PROVE ProcInv(q, proc[q])'
  <2>1. CASE q = p
    BY <1>1, <2>1
  <2>2. CASE q # p
    <3>1. PICK r \in Processes : r = proc'[q] /\ ProcInv(q, r)
      BY <1>1, <2>2, Moving
    <3>2. TypeOK /\ ProcInv(q, r)'
      BY <3>1, ProcStays DEF Inv
    <3> QED
      BY <3>1, <3>2
  <2> QED
    BY <2>1, <2>2
<1>3. ASSUME NEW x \in stray' PROVE MsgInv(x)'
  BY <1>3, MsgStays DEF Inv, TypeOK
<1>4. RcptInv' /\ ~reused'
  BY DEF Inv, RcptInv
<1>5. AckInv'
  <2> SUFFICES ASSUME NEW q \in acked', proc'[q].pc # "idle"
               PROVE  /\ Doing(proc'[q], "revoke") \/ proc'[q].pc \in {"retire", "retireCred"}
                      /\ proc'[q].phase = "logout" /\ proc'[q].pub \in Families
                      /\ fams'[proc'[q].pub].dead
    BY DEF AckInv, At, Doing
  <2>1. q \in acked /\ q \in Procs
    BY DEF Inv, TypeOK
  <2>2. CASE q = p
    BY <1>1, <2>1, <2>2 DEF Inv, AckInv, AckKept
  <2>3. CASE q # p
    BY <1>1, <2>1, <2>3 DEF Inv, AckInv, At
  <2> QED
    BY <2>2, <2>3
<1> QED
  BY <1>2, <1>3, <1>4, <1>5 DEF Inv

(* Nobody begins a pairing. *)
LEMMA PairsStay ==
    ASSUME Inv, NEW p \in Procs, NEW n \in Processes, Update(p, n), ~Pairing(n),
           UNCHANGED <<fams, rcpts, logins>>
    PROVE  /\ Onward /\ PairInv' /\ FamInv' /\ ~Pairing(proc'[p])
           /\ \A q \in Procs : Pairing(proc'[q]) => Pairing(proc[q]) /\ proc'[q].pub = proc[q].pub
           /\ proc' \in [Procs -> Processes]
<1>1. /\ proc' \in [Procs -> Processes] /\ proc'[p] = n
      /\ \A q \in Procs \ {p} : proc'[q] = proc[q]
  BY DEF Update, Inv, TypeOK
<1>2. \A q \in Procs : Pairing(proc'[q]) => Pairing(proc[q]) /\ proc'[q].pub = proc[q].pub
  BY <1>1
<1>3. Onward
  <2>1. logins \in Nat /\ \A f \in Families : fams[f].gen \in Nat
    BY DEF Inv, TypeOK
  <2> QED
    BY <1>2, <2>1 DEF Onward
<1>4. PairInv'
  <2>1. PairInv /\ fams' = fams
    BY DEF Inv
  <2> QED
    BY <1>2, <2>1 DEF PairInv
<1>5. FamInv'
  BY DEF Inv, FamInv
<1> QED
  BY <1>1, <1>2, <1>3, <1>4, <1>5

(* commitExchange. *)
LEMMA InvCommitExchange == ASSUME Inv, NEW p \in Procs, CommitExchange(p) PROVE Inv'
<1>1. /\ At(p, "commitExchange") /\ pending' = None /\ Update(p, Idle)
      /\ cred' = [fam |-> proc[p].pub, gen |-> 0, dev |-> proc[p].dev]
      /\ UNCHANGED <<meta, key, ids, fams, binds, retired, rcpts, acked, stray, logins, commands,
                     faults, singleShot, reused>>
  BY DEF CommitExchange, identity, service, bounds, rest
<1>2. PICK i \in Processes : i = Idle /\ SafePlace(i) /\ i.pc = "idle"
  BY IdleIs DEF SafePlace
<1>3. ProcInv(p, i)' /\ ~Pairing(i) /\ AckKept(p, i)
  BY <1>2, SafeIs DEF AckKept
<1>4. /\ Onward /\ PairInv' /\ FamInv' /\ ~Pairing(proc'[p]) /\ proc' \in [Procs -> Processes]
      /\ \A q \in Procs : Pairing(proc'[q]) => Pairing(proc[q]) /\ proc'[q].pub = proc[q].pub
  BY <1>1, <1>2, <1>3, PairsStay
<1>5. /\ Pairing(proc[p]) /\ proc[p].pub \in Families /\ proc[p].pub <= logins
      /\ fams[proc[p].pub].st # "none" /\ fams[proc[p].pub].gen = 0
  BY <1>1, Moving DEF At, Pairing, ProcInv, PlaceInv, AnswerInv, Inv, PairInv
<1>6. PICK f \in Families : f = proc[p].pub
  BY <1>5
<1>7. PICK d \in Ids : d = proc[p].dev
  BY Moving DEF Processes
<1>8. cred' \in Records /\ cred'.fam = f /\ cred'.gen = 0
  BY <1>1, <1>6, <1>7 DEF Records
<1>9. TypeOK'
  BY <1>1, <1>4, <1>8 DEF Inv, TypeOK
<1>10. Keeps
  <2>1. ASSUME NEW h, NEW g, Loaded(h, g) PROVE Loaded(h, g)' /\ h # f
    <3>1. h # f
      BY <1>5, <1>6, <2>1 DEF Loaded
    <3>2. \A q \in Procs : Pairing(proc'[q]) => proc'[q].pub # h
      BY <1>4, <2>1 DEF Loaded
    <3> QED
      BY <1>1, <1>8, <2>1, <3>1, <3>2 DEF Loaded, Pairing, Doing
  <2>2. ASSUME NEW h, NEW g, NEW k, Claim(h, g, k) PROVE Claim(h, g, k)'
    BY <1>8, <2>1, <2>2 DEF Claim
  <2> QED
    BY <2>1, <2>2 DEF Keeps
<1>11. CredInv'
  <2>1. \A q \in Procs : Pairing(proc'[q]) => proc'[q].pub # f
    BY <1>4, <1>5, <1>6 DEF Inv, PairInv
  <2>2. Loaded(f, 0)'
    BY <1>1, <1>5, <1>6, <1>8, <2>1 DEF Loaded, Pairing, Doing
  <2>3. LostAnswerRecoverable'
    BY <1>1, <1>5, <1>6, <1>8 DEF LostAnswerRecoverable
  <2> QED
    BY <1>8, <2>2, <2>3 DEF CredInv
<1> QED
  BY <1>1, <1>2, <1>3, <1>4, <1>9, <1>10, <1>11, KeychainStep

(* markRefreshPending. *)
LEMMA InvMarkRefreshPending == ASSUME Inv, NEW p \in Procs, MarkRefreshPending(p) PROVE Inv'
<1>1. At(p, "mark") /\ UNCHANGED <<cred, identity, service, stray, bounds, rest>>
  BY DEF MarkRefreshPending
<1>2. PICK r \in Processes : /\ r = proc[p] /\ r.msg = None /\ r.phase \in {"status", "logout"}
                             /\ r.pub \in Families /\ p \notin acked
                             /\ r.creds \in Records /\ Loaded(r.creds.fam, r.creds.gen)
  BY <1>1, Moving DEF ProcInv, WaitInv, PlaceInv, MemoryInv, At, Doing
<1>3. PICK c \in RefreshKeys : /\ c = [fam |-> r.creds.fam, gen |-> r.creds.gen, by |-> p]
                               /\ c.fam = r.creds.fam /\ c.gen = r.creds.gen
  <2>1. PICK f \in Families, g \in Nat : f = r.creds.fam /\ g = r.creds.gen
    BY <1>2 DEF Records
  <2>2. PICK k : k = [fam |-> f, gen |-> g, by |-> p]
    OBVIOUS
  <2>3. k \in RefreshKeys /\ k.fam = f /\ k.gen = g
    BY <2>2 DEF RefreshKeys
  <2> QED
    BY <2>1, <2>2, <2>3
<1>4. \/ UNCHANGED pending /\ Update(p, RefreshThrown(r))
      \/ UNCHANGED pending /\ Update(p, Reload(r))
      \/ /\ cred # None /\ cred.gen = r.creds.gen /\ pending = None /\ pending' = c
         /\ Update(p, [r EXCEPT !.pend = c, !.pc = "refresh"])
  BY <1>2, <1>3 DEF MarkRefreshPending, MarkLost, Mark
<1>5. CASE UNCHANGED pending /\ Update(p, RefreshThrown(r))
  BY <1>1, <1>2, <1>5, ThrownPlace, Silent DEF store
<1>6. CASE UNCHANGED pending /\ Update(p, Reload(r))
  <2>1. PICK l \in Pcs : l = "load"
    BY DEF Pcs
  <2>2. PICK n : n = [r EXCEPT !.pc = l, !.creds = None]
    OBVIOUS
  <2>3. n \in Processes /\ n.pc = l /\ n.msg = r.msg /\ n.phase = r.phase /\ n.pub = r.pub
    BY <2>2 DEF Processes
  <2>4. ProcInv(p, n) /\ ~Pairing(n)
    BY <1>2, <2>1, <2>3, LoadPlace
  <2>5. Update(p, n)
    BY <1>6, <2>1, <2>2 DEF Reload
  <2> QED
    BY <1>1, <1>2, <1>6, <2>3, <2>4, <2>5, Silent DEF store
<1>7. CASE /\ cred # None /\ cred.gen = r.creds.gen /\ pending = None /\ pending' = c
           /\ Update(p, [r EXCEPT !.pend = c, !.pc = "refresh"])
  <2>1. PICK l \in Pcs : l = "refresh"
    BY DEF Pcs, Kinds
  <2>2. PICK n : n = [r EXCEPT !.pend = c, !.pc = l]
    OBVIOUS
  <2>3. /\ n \in Processes /\ n.pc = l /\ n.pend = c /\ n.msg = r.msg /\ n.phase = r.phase
        /\ n.pub = r.pub /\ n.creds = r.creds
    BY <2>2 DEF Processes
  <2>4. Update(p, n) /\ ~Pairing(n)
    BY <1>7, <2>1, <2>2, <2>3 DEF Pairing, Doing
  <2>5. UNCHANGED <<cred, meta, key, ids, fams, binds, retired, rcpts, acked, stray, logins, commands,
                    faults, singleShot, reused>>
    BY <1>1 DEF identity, service, bounds, rest
  <2>6. /\ Onward /\ PairInv' /\ FamInv' /\ proc' \in [Procs -> Processes]
        /\ \A q \in Procs : Pairing(proc'[q]) => Pairing(proc[q]) /\ proc'[q].pub = proc[q].pub
    BY <2>3, <2>4, <2>5, PairsStay
  <2>7. TypeOK'
    BY <1>7, <2>5, <2>6 DEF Inv, TypeOK
  <2>8. ASSUME NEW f, NEW g, Loaded(f, g) PROVE Loaded(f, g)'
    <3>1. \A q \in Procs : Pairing(proc'[q]) => proc'[q].pub # f
      BY <2>6, <2>8 DEF Loaded
    <3> QED
      BY <2>5, <2>8, <3>1 DEF Loaded, Pairing, Doing
  <2>9. ASSUME NEW f, NEW g, NEW k, Claim(f, g, k) PROVE Claim(f, g, k)'
    <3>1. k # None /\ (cred.fam = f => g # cred.gen)
      BY <1>7, <2>9, NoneAssumption DEF Claim
    <3> QED
      BY <1>7, <2>5, <2>8, <2>9, <3>1 DEF Claim
  <2>10. Keeps
    BY <2>8, <2>9 DEF Keeps
  <2>11. CredInv'
    <3>1. cred.gen \in Nat /\ fams[cred.fam].gen # cred.gen + 1
      BY <1>7 DEF Inv, CredInv, LostAnswerRecoverable, TypeOK, Records
    <3>2. LostAnswerRecoverable'
      BY <2>5, <3>1 DEF Inv, CredInv, LostAnswerRecoverable
    <3>3. Loaded(cred.fam, cred.gen)
      BY <1>7 DEF Inv, CredInv
    <3>4. PICK f, g : f = cred.fam /\ g = cred.gen
      OBVIOUS
    <3>5. Loaded(f, g)'
      BY <2>8, <3>3, <3>4
    <3> QED
      BY <2>5, <3>2, <3>4, <3>5 DEF CredInv
  <2>12. Claim(r.creds.fam, r.creds.gen, c)'
    <3>1. Loaded(r.creds.fam, r.creds.gen)' /\ r.creds.gen \in Nat
      BY <1>2, <2>8 DEF Records
    <3> QED
      BY <1>3, <1>7, <2>5, <3>1 DEF Claim
  <2>13. ProcInv(p, n)'
    <3>1. WaitInv(p, n)' /\ PlaceInv(n)' /\ AnswerInv(n)'
      BY <1>2, <2>1, <2>3 DEF WaitInv, PlaceInv, AnswerInv, Pairing, Refreshing, Doing, Granted
    <3>2. MemoryInv(n)'
      BY <1>2, <2>1, <2>3, <2>12 DEF MemoryInv
    <3> QED
      BY <3>1, <3>2 DEF ProcInv
  <2> QED
    BY <1>2, <2>3, <2>4, <2>5, <2>6, <2>7, <2>10, <2>11, <2>13, KeychainStep
<1> QED
  BY <1>4, <1>5, <1>6, <1>7

(* Where commitRefresh leads. *)
LEMMA CommitLeads ==
    ASSUME Inv, NEW p \in Procs, CommitRefresh(p)
    PROVE  p \notin acked /\ \E n \in Processes : Update(p, n) /\ SafePlace(n)
<1>1. At(p, "commitRefresh")
  BY DEF CommitRefresh
<1>2. PICK r \in Processes : /\ r = proc[p] /\ r.msg = None /\ r.phase \in {"status", "logout"}
                             /\ r.pub \in Families /\ p \notin acked /\ r.creds \in Records
  BY <1>1, Moving DEF ProcInv, WaitInv, PlaceInv, MemoryInv, Refreshing, At, Doing
<1>3. PICK f \in Families, g \in Nat : f = r.creds.fam /\ g = r.creds.gen
  BY <1>2 DEF Records
<1>4. PICK next : next = [r.creds EXCEPT !.gen = @ + 1]
  OBVIOUS
<1>5. next.fam = f /\ next.gen = g + 1
  BY <1>2, <1>3, <1>4 DEF Records
<1>6. PICK t : t = [fam |-> next.fam, gen |-> next.gen]
  OBVIOUS
<1>7. t \in Tokens
  BY <1>5, <1>6 DEF Tokens
<1>8. \/ Update(p, RefreshThrown(r)) \/ Update(p, RefreshReturns(r, t))
      \/ Update(p, NestedRefresh(r, t)) \/ Update(p, RefreshFails(r, "expired_token"))
  BY <1>2, <1>4, <1>6 DEF CommitRefresh
<1>9. CASE Update(p, RefreshThrown(r))
  BY <1>2, <1>9, ThrownSafe
<1>10. CASE Update(p, RefreshReturns(r, t))
  BY <1>2, <1>7, <1>10, ReturnsIs DEF SafePlace
<1>11. CASE Update(p, NestedRefresh(r, t))
  BY <1>2, <1>7, <1>11, NestedIs DEF SafePlace
<1>12. CASE Update(p, RefreshFails(r, "expired_token"))
  BY <1>2, <1>12, FailsIs, ThrownSafe DEF SafePlace
<1> QED
  BY <1>2, <1>8, <1>9, <1>10, <1>11, <1>12

(* commitRefresh moves the record one generation on, or leaves it. *)
LEMMA CommitMoves ==
    ASSUME Inv, NEW p \in Procs, CommitRefresh(p)
    PROVE  \/ UNCHANGED store
           \/ /\ cred # None /\ pending = proc[p].pend /\ pending' = None
              /\ cred' \in Records /\ cred'.fam = cred.fam /\ cred'.gen = cred.gen + 1
              /\ cred.gen \in Nat /\ fams[cred.fam].gen = cred.gen + 1
<1>1. At(p, "commitRefresh")
  BY DEF CommitRefresh
<1>2. PICK r \in Processes : /\ r = proc[p] /\ r.creds \in Records
                             /\ Claim(r.creds.fam, r.creds.gen, r.pend)
                             /\ r.creds.gen < fams[r.creds.fam].gen
  BY <1>1, Moving DEF ProcInv, MemoryInv, AnswerInv, Refreshing, At
<1>3. PICK f \in Families, g \in Nat : f = r.creds.fam /\ g = r.creds.gen
  BY <1>2 DEF Records
<1>4. PICK next : next = [r.creds EXCEPT !.gen = @ + 1]
  OBVIOUS
<1>5. next \in Records /\ next.fam = f /\ next.gen = g + 1
  BY <1>2, <1>3, <1>4 DEF Records
<1>6. UNCHANGED store \/ (CommitAllowed(r) /\ cred' = next /\ pending' = None)
  BY <1>2, <1>4 DEF CommitRefresh
<1>7. CASE CommitAllowed(r) /\ cred' = next /\ pending' = None
  <2>1. /\ cred # None /\ cred.fam = f /\ pending = r.pend /\ cred.gen = g
    BY <1>2, <1>3, <1>7 DEF CommitAllowed, Claim
  <2>2. fams[f].gen \in Nat /\ fams[f].gen <= g + 1
    BY <2>1 DEF Inv, TypeOK, CredInv, LostAnswerRecoverable
  <2>3. fams[f].gen = g + 1
    BY <1>2, <1>3, <2>2
  <2> QED
    BY <1>2, <1>5, <1>7, <2>1, <2>3
<1> QED
  BY <1>6, <1>7

(* commitRefresh. *)
LEMMA InvCommitRefresh == ASSUME Inv, NEW p \in Procs, CommitRefresh(p) PROVE Inv'
<1>1. UNCHANGED <<identity, service, stray, bounds, rest>>
  BY DEF CommitRefresh
<1>2. p \notin acked
  BY CommitLeads
<1>3. PICK n \in Processes : Update(p, n) /\ SafePlace(n)
  BY CommitLeads
<1>4. ProcInv(p, n) /\ ProcInv(p, n)' /\ ~Pairing(n)
  BY <1>3, SafeIs
<1>5. CASE UNCHANGED store
  BY <1>1, <1>2, <1>3, <1>4, <1>5, Silent
<1>6. CASE ~UNCHANGED store
  <2>1. /\ cred # None /\ pending = proc[p].pend /\ pending' = None
        /\ cred' \in Records /\ cred'.fam = cred.fam /\ cred'.gen = cred.gen + 1
        /\ cred.gen \in Nat /\ fams[cred.fam].gen = cred.gen + 1
    BY <1>6, CommitMoves
  <2>2. UNCHANGED <<meta, key, ids, fams, binds, retired, rcpts, acked, stray, logins, commands,
                    faults, singleShot, reused>>
    BY <1>1 DEF identity, service, bounds, rest
  <2>3. /\ Onward /\ PairInv' /\ FamInv' /\ proc' \in [Procs -> Processes]
        /\ \A q \in Procs : Pairing(proc'[q]) => Pairing(proc[q]) /\ proc'[q].pub = proc[q].pub
    BY <1>3, <1>4, <2>2, PairsStay
  <2>4. TypeOK'
    BY <2>1, <2>2, <2>3 DEF Inv, TypeOK
  <2>5. PICK c \in Nat : c = cred.gen
    BY <2>1
  <2>6. cred # None /\ cred' # None
    BY <2>1, NoneAssumption
  <2>7. ASSUME NEW f, NEW g, Loaded(f, g) PROVE Loaded(f, g)'
    <3>1. \A q \in Procs : Pairing(proc'[q]) => proc'[q].pub # f
      BY <2>3, <2>7 DEF Loaded
    <3>2. g \in Nat /\ (cred'.fam = f => g <= c)
      BY <2>1, <2>5, <2>7 DEF Loaded
    <3>3. cred'.fam = f => g <= cred'.gen
      BY <2>1, <2>5, <3>2
    <3> QED
      BY <2>2, <2>7, <3>1, <3>3 DEF Loaded, Pairing, Doing
  <2>8. \E r \in rcpts : r.pend = pending
    BY <2>1 DEF Inv, CredInv, LostAnswerRecoverable
  <2>9. ASSUME NEW f, NEW g, NEW k, Claim(f, g, k) PROVE Claim(f, g, k)'
    <3>1. ASSUME cred'.fam = f PROVE g # cred'.gen /\ \E r \in rcpts : r.pend = k
      <4>1. g \in Nat /\ g <= c /\ (g = c => pending = k) /\ (g < c => \E r \in rcpts : r.pend = k)
        BY <2>1, <2>5, <2>9, <3>1 DEF Claim, Loaded
      <4>2. g = c \/ g < c
        BY <4>1
      <4>3. g # cred'.gen
        BY <2>1, <2>5, <4>1
      <4> QED
        BY <2>8, <4>1, <4>2, <4>3
    <3> QED
      BY <2>2, <2>7, <2>9, <3>1 DEF Claim
  <2>10. Keeps
    BY <2>7, <2>9 DEF Keeps
  <2>11. CredInv'
    <3>1. LostAnswerRecoverable'
      <4>1. fams[cred.fam].st # "none"
        BY <2>1 DEF Inv, CredInv, LostAnswerRecoverable
      <4>2. PICK u \in Nat : u = cred.gen + 1
        BY <2>1
      <4> QED
        BY <2>1, <2>2, <4>1, <4>2 DEF LostAnswerRecoverable
    <3>2. PICK f, g : f = cred'.fam /\ g = cred'.gen
      OBVIOUS
    <3>3. Loaded(cred.fam, cred.gen)
      BY <2>1 DEF Inv, CredInv
    <3>4. \A q \in Procs : Pairing(proc'[q]) => proc'[q].pub # f
      BY <2>1, <2>3, <3>2, <3>3 DEF Loaded
    <3>5. f \in Families /\ g \in Nat /\ f <= logins /\ g <= fams[f].gen
      BY <2>1, <3>2, <3>3 DEF Loaded
    <3>6. Loaded(f, g)'
      BY <2>2, <3>2, <3>4, <3>5 DEF Loaded, Pairing, Doing
    <3> QED
      BY <3>1, <3>2, <3>6 DEF CredInv
  <2> QED
    BY <1>2, <1>3, <1>4, <2>2, <2>3, <2>4, <2>10, <2>11, KeychainStep
<1> QED
  BY <1>5, <1>6

(* Where the retirement leads. *)
LEMMA RetiredLeads ==
    ASSUME Inv, NEW p \in Procs, At(p, "retireCred"), NEW b \in BOOLEAN, UNCHANGED fams
    PROVE  \E n \in Processes : /\ n = Retired(proc[p], b)
                                /\ ProcInv(p, n) /\ ProcInv(p, n)' /\ ~Pairing(n)
                                /\ p \in acked => AckKept(p, n)
<1>1. PICK r \in Processes : /\ r = proc[p] /\ r.msg = None
                             /\ r.phase = "logout" /\ r.token # None =>
                                   r.pub \in Families /\ fams[r.pub].dead
                             /\ p \in acked => r.phase = "logout"
  BY Moving DEF ProcInv, WaitInv, AnswerInv, At
<1>2. CASE Retired(r, b) = Idle
  <2>1. Idle \in Processes /\ SafePlace(Idle) /\ AckKept(p, Idle)
    BY IdleIs DEF SafePlace, AckKept
  <2>2. PICK i \in Processes : i = Idle /\ ProcInv(p, i) /\ ProcInv(p, i)' /\ ~Pairing(i)
    BY <2>1, SafeIs
  <2> QED
    BY <1>1, <1>2, <2>1, <2>2
<1>3. CASE Retired(r, b) = [r EXCEPT !.twice = FALSE, !.pc = "retire"]
  <2>1. PICK l \in Pcs : l = "retire"
    BY DEF Pcs
  <2>2. PICK no \in BOOLEAN : no = FALSE
    OBVIOUS
  <2>3. PICK n : n = [r EXCEPT !.twice = no, !.pc = l]
    OBVIOUS
  <2>4. /\ n \in Processes /\ n.pc = l /\ n.msg = r.msg /\ n.phase = r.phase /\ n.token = r.token
        /\ n.pub = r.pub
    BY <2>3 DEF Processes
  <2>5. ProcInv(p, n) /\ ~Pairing(n)
    BY <1>1, <2>1, <2>4, RetirePlace
  <2>6. ProcInv(p, n)'
    BY <1>1, <2>1, <2>4 DEF ProcInv, WaitInv, PlaceInv, MemoryInv, AnswerInv, Pairing, Refreshing,
       Doing, Granted
  <2>7. p \in acked => AckKept(p, n)
    BY <1>1, <2>1, <2>4 DEF AckKept, At
  <2>8. Retired(r, b) = n
    BY <1>3, <2>1, <2>2, <2>3
  <2> QED
    BY <1>1, <2>4, <2>5, <2>6, <2>7, <2>8
<1>4. CASE Retired(r, b) = RefreshThrown([r EXCEPT !.token = None, !.failed = FALSE])
  <2>1. PICK no \in BOOLEAN : no = FALSE
    OBVIOUS
  <2>2. PICK s : s = [r EXCEPT !.token = None, !.failed = no]
    OBVIOUS
  <2>3. s \in Processes /\ s.msg = r.msg /\ s.phase = r.phase
    BY <2>2 DEF Processes
  <2>4. PICK n \in Processes : /\ n = RefreshThrown(s) /\ SafePlace(n)
                               /\ r.phase # "status" => n.pc = "idle"
    BY <1>1, <2>3, ThrownIs, ThrownSafe
  <2>5. ProcInv(p, n) /\ ProcInv(p, n)' /\ ~Pairing(n)
    BY <2>4, SafeIs
  <2>6. p \in acked => AckKept(p, n)
    BY <1>1, <2>4 DEF AckKept
  <2>7. Retired(r, b) = n
    BY <1>4, <2>1, <2>2, <2>4
  <2> QED
    BY <1>1, <2>4, <2>5, <2>6, <2>7
<1> QED
  BY <1>1, <1>2, <1>3, <1>4 DEF Retired

(* The credentials are deleted. *)
LEMMA InvRetireCredentials == ASSUME Inv, NEW p \in Procs, RetireCredentials(p) PROVE Inv'
<1>1. /\ At(p, "retireCred")
      /\ UNCHANGED <<meta, key, ids, fams, binds, retired, rcpts, acked, stray, logins, commands,
                     singleShot, reused>>
  BY DEF RetireCredentials, identity, service, rest
<1>2. CASE cred' = None /\ pending' = None /\ UNCHANGED faults /\ Update(p, Retired(proc[p], proc[p].failed))
  <2>1. proc[p].failed \in BOOLEAN
    BY Moving DEF Processes
  <2>2. PICK n \in Processes : /\ n = Retired(proc[p], proc[p].failed) /\ ProcInv(p, n)' /\ ~Pairing(n)
                               /\ p \in acked => AckKept(p, n)
    <3>1. PICK b \in BOOLEAN : b = proc[p].failed
      BY <2>1
    <3> QED
      BY <1>1, <3>1, RetiredLeads
  <2>3. Update(p, n)
    BY <1>2, <2>2
  <2>4. /\ Onward /\ PairInv' /\ FamInv' /\ proc' \in [Procs -> Processes]
        /\ \A q \in Procs : Pairing(proc'[q]) => Pairing(proc[q]) /\ proc'[q].pub = proc[q].pub
    BY <1>1, <2>2, <2>3, PairsStay
  <2>5. TypeOK'
    BY <1>1, <1>2, <2>4 DEF Inv, TypeOK
  <2>6. ASSUME NEW f, NEW g, Loaded(f, g) PROVE Loaded(f, g)'
    <3>1. \A q \in Procs : Pairing(proc'[q]) => proc'[q].pub # f
      BY <2>4, <2>6 DEF Loaded
    <3> QED
      BY <1>1, <1>2, <2>6, <3>1 DEF Loaded, Pairing, Doing
  <2>7. ASSUME NEW f, NEW g, NEW k, Claim(f, g, k) PROVE Claim(f, g, k)'
    BY <1>2, <2>6, <2>7 DEF Claim
  <2>8. Keeps
    BY <2>6, <2>7 DEF Keeps
  <2>9. CredInv'
    BY <1>2 DEF CredInv, LostAnswerRecoverable
  <2> QED
    BY <1>1, <2>2, <2>3, <2>4, <2>5, <2>8, <2>9, KeychainStep
<1>3. CASE Fault /\ UNCHANGED store /\ Update(p, Retired(proc[p], TRUE))
  <2>1. PICK n \in Processes : /\ n = Retired(proc[p], TRUE) /\ ProcInv(p, n) /\ ~Pairing(n)
                               /\ p \in acked => AckKept(p, n)
    <3>1. PICK b \in BOOLEAN : b = TRUE
      OBVIOUS
    <3> QED
      BY <1>1, <3>1, RetiredLeads
  <2>2. Update(p, n)
    BY <1>3, <2>1
  <2>3. faults' \in 0..MaxFaults
    BY <1>3, Moving, DeviceAuthAssumption DEF Fault
  <2> QED
    BY <1>1, <1>3, <2>1, <2>2, <2>3, Moving, LocalStep DEF rest
<1> QED
  BY <1>2, <1>3 DEF RetireCredentials

(* A pairing is granted, under a family that nobody had. *)
LEMMA InvPair == ASSUME Inv, NEW p \in Procs, Pair(p) PROVE Inv'
<1>1. /\ At(p, "pair")
      /\ UNCHANGED <<store, key, ids, fams, retired, rcpts, acked, stray, commands, faults, rest>>
  BY DEF Pair
<1>2. PICK r \in Processes : r = proc[p] /\ r.msg = None /\ p \notin acked
  BY <1>1, Moving DEF ProcInv, WaitInv, At, Doing
<1>3. CASE Update(p, Idle) /\ UNCHANGED <<binds, logins, meta>>
  <2>1. Idle \in Processes /\ ProcInv(p, Idle) /\ ~Pairing(Idle)
    BY IdleIs, FreePlace
  <2>2. UNCHANGED <<store, fams, binds, retired, rcpts, logins, rest>>
    BY <1>1, <1>3
  <2>3. /\ meta' \in Ids /\ key' \in Ids /\ ids' \in Ids
        /\ commands' \in 0..MaxCommands /\ faults' \in 0..MaxFaults
    BY <1>1, <1>3, Moving
  <2> QED
    BY <1>1, <1>2, <1>3, <2>1, <2>2, <2>3, LocalStep
<1>4. CASE ~(Update(p, Idle) /\ UNCHANGED <<binds, logins, meta>>)
  <2>1. PICK b : b = <<r.dev, key>>
    OBVIOUS
  <2>2. /\ ~BindingRefused(b) /\ logins < MaxLogins
        /\ binds' = binds \cup {b} /\ meta' = r.dev /\ logins' = logins + 1
        /\ Update(p, [r EXCEPT !.pc = "exchange", !.pub = logins + 1])
    BY <1>2, <1>4, <2>1 DEF Pair
  <2>3. b \in Ids \X Ids /\ b \notin retired /\ meta' \in Ids
    <3>1. r.dev \in Ids /\ key \in Ids
      BY Moving DEF Processes
    <3> QED
      BY <2>1, <2>2, <3>1 DEF BindingRefused
  <2>4. logins \in Nat /\ logins' \in 0..MaxLogins /\ MaxLogins \in Nat
    BY <2>2, DeviceAuthAssumption DEF Inv, TypeOK
  <2>5. PICK f \in Families : f = logins + 1 /\ f \in Nat
    BY <2>2, <2>4 DEF Families
  <2>6. PICK l \in Pcs : l = "exchange"
    BY DEF Pcs, Kinds
  <2>7. PICK n : n = [r EXCEPT !.pc = l, !.pub = f]
    OBVIOUS
  <2>8. n \in Processes /\ n.pc = l /\ n.msg = r.msg /\ n.pub = f
    BY <2>7 DEF Processes
  <2>9. Update(p, n)
    BY <2>2, <2>5, <2>6, <2>7
  <2>10. /\ proc' \in [Procs -> Processes] /\ proc'[p] = n
         /\ \A q \in Procs \ {p} : proc'[q] = proc[q]
    BY <2>8, <2>9 DEF Update, Inv, TypeOK
  <2>11. TypeOK'
    <3>1. UNCHANGED <<cred, pending, singleShot, reused>>
      BY <1>1 DEF store, rest
    <3>2. binds' \subseteq Ids \X Ids /\ binds' \cap retired' = {}
      BY <1>1, <2>2, <2>3 DEF Inv, TypeOK
    <3> QED
      BY <1>1, <2>3, <2>4, <2>10, <3>1, <3>2 DEF Inv, TypeOK
  <2>12. Onward
    <3>1. \A g \in Families : fams[g].gen \in Nat /\ fams'[g] = fams[g]
      BY <1>1 DEF Inv, TypeOK
    <3>2. logins <= logins'
      BY <2>2, <2>4
    <3>3. \A q \in Procs : Pairing(proc'[q]) => \/ Pairing(proc[q]) /\ proc'[q].pub = proc[q].pub
                                                \/ proc'[q].pub \in Nat /\ proc'[q].pub > logins
      BY <2>4, <2>5, <2>8, <2>10
    <3> QED
      BY <1>1, <3>1, <3>2, <3>3 DEF Onward
  <2>13. TypeOK /\ Keeps
    BY <1>1, <2>11, <2>12, Keeping DEF Inv
  <2>14. \A g \in Families : g \in Nat
    BY DEF Families
  <2>15. FamInv'
    BY <1>1, <2>2, <2>4, <2>14 DEF Inv, FamInv
  <2>16. CredInv'
    BY <1>1, <2>13 DEF Inv, CredInv, LostAnswerRecoverable, Keeps, store
  <2>17. fams[f].st = "none" /\ fams[f].gen = 0
    BY <2>4, <2>5 DEF Inv, FamInv
  <2>18. \A q \in Procs : Pairing(proc[q]) => proc[q].pub \in Families /\ proc[q].pub <= logins
    BY Moving DEF ProcInv, PlaceInv
  <2>19. \A q \in Procs : Pairing(proc[q]) => proc[q].pub # f
    BY <2>4, <2>5, <2>14, <2>18
  <2>20. PairInv'
    <3>1. ASSUME NEW x \in Procs, Pairing(proc'[x])
          PROVE  /\ fams'[proc'[x].pub].gen = 0
                 /\ \A y \in Procs : Pairing(proc'[y]) /\ proc'[x].pub = proc'[y].pub => x = y
      <4>1. CASE x = p
        BY <1>1, <2>8, <2>10, <2>17, <2>19, <4>1
      <4>2. CASE x # p
        BY <1>1, <2>8, <2>10, <2>19, <3>1, <4>2 DEF Inv, PairInv
      <4> QED
        BY <4>1, <4>2
    <3> QED
      BY <3>1 DEF PairInv, Pairing, Doing
  <2>21. ProcInv(p, n)'
    <3>1. f <= logins'
      BY <2>2, <2>4, <2>5
    <3> QED
      BY <1>2, <2>6, <2>8, <3>1 DEF ProcInv, WaitInv, PlaceInv, MemoryInv, AnswerInv, Pairing,
         Refreshing, Doing, Granted
  <2>22. UNCHANGED <<fams, rcpts, stray, acked, reused>>
    BY <1>1 DEF rest
  <2> QED
    BY <1>2, <2>8, <2>9, <2>11, <2>12, <2>13, <2>15, <2>16, <2>20, <2>21, <2>22, KeychainStep
<1> QED
  BY <1>3, <1>4

-----------------------------------------------------------------------------
(* The invariant. *)

(* It holds when the machine has just signed in. *)
LEMMA InvInit == Init => Inv
<1> SUFFICES ASSUME Init PROVE Inv
  OBVIOUS
<1>1. 1 \in Families /\ {0, 1, 2} \subseteq Ids
  BY DeviceAuthAssumption DEF Families, Ids
<1>2. \A p \in Procs : proc[p] = Idle
  BY DEF Init
<1>3. cred \in Records /\ cred.fam = 1 /\ cred.gen = 0 /\ cred # None
  <2>1. cred \in Records /\ cred.fam = 1 /\ cred.gen = 0
    BY <1>1 DEF Init, Records
  <2> QED
    BY <2>1, NoneAssumption
<1>4. fams \in [Families -> FamilyType]
  <2>1. [st |-> "active", gen |-> 0, dev |-> 1, key |-> 2, dead |-> FALSE] \in FamilyType
    BY <1>1 DEF FamilyType
  <2>2. [st |-> "none", gen |-> 0, dev |-> 0, key |-> 0, dead |-> FALSE] \in FamilyType
    BY <1>1 DEF FamilyType
  <2> QED
    BY <2>1, <2>2 DEF Init
<1>5. /\ fams[1].st = "active" /\ fams[1].gen = 0
      /\ \A f \in Families : fams[f].gen = 0 /\ ~fams[f].dead /\ (f # 1 => fams[f].st = "none")
  BY <1>1 DEF Init
<1>6. TypeOK
  <2>1. proc \in [Procs -> Processes]
    BY IdleIs DEF Init
  <2>2. /\ pending = None /\ meta \in Ids /\ key \in Ids /\ ids \in Ids
        /\ retired = {} /\ rcpts = {} /\ acked = {} /\ stray = {}
    BY <1>1 DEF Init
  <2>3. logins \in 0..MaxLogins /\ commands \in 0..MaxCommands /\ faults \in 0..MaxFaults
    BY DeviceAuthAssumption DEF Init
  <2>4. singleShot = None /\ reused \in BOOLEAN
    BY DEF Init
  <2>5. binds \subseteq Ids \X Ids
    BY <1>1 DEF Init
  <2> QED
    BY <1>3, <1>4, <2>1, <2>2, <2>3, <2>4, <2>5 DEF TypeOK, FamilyType
<1>7. ASSUME NEW p \in Procs PROVE ProcInv(p, proc[p]) /\ ~Pairing(proc[p])
  BY <1>2, IdleIs, FreePlace
<1>8. FamInv
  BY <1>5 DEF FamInv, Init, Families
<1>9. Loaded(1, 0)
  BY <1>1, <1>3, <1>5, <1>7 DEF Loaded, Init
<1>10. CredInv
  BY <1>3, <1>5, <1>9 DEF CredInv, LostAnswerRecoverable
<1>11. RcptInv /\ PairInv /\ AckInv /\ ~reused /\ stray = {}
  BY <1>7 DEF Init, RcptInv, PairInv, AckInv
<1> QED
  BY <1>6, <1>7, <1>8, <1>10, <1>11 DEF Inv

(* Every step keeps it. *)
LEMMA InvNext == Inv /\ [Next]_vars => Inv'
<1> SUFFICES ASSUME Inv, [Next]_vars PROVE Inv'
  OBVIOUS
<1>1. CASE UNCHANGED vars
  <2>1. /\ UNCHANGED <<cred, pending, meta, key, ids, proc, fams, binds, retired, rcpts, acked, stray>>
        /\ UNCHANGED <<logins, commands, faults, singleShot, reused>>
    BY <1>1 DEF vars, store, identity, service, bounds, rest
  <2> QED
    BY <2>1 DEF Inv, TypeOK, FamInv, RcptInv, CredInv, LostAnswerRecoverable, PairInv, AckInv, ProcInv,
       WaitInv, PlaceInv, MemoryInv, AnswerInv, MsgInv, Claim, Loaded, Pairing, Refreshing, Doing, Granted, At
<1>2. ASSUME NEW p \in Procs, Start(p) \/ Step(p) \/ Break(p) \/ Crash(p) PROVE Inv'
  <2>1. CASE Start(p) \/ Break(p) \/ Crash(p)
    BY <2>1, InvStart, InvBreak, InvCrash
  <2>2. CASE Step(p)
    BY <2>2, InvEnsureIdentity, InvPair, InvCommitExchange, InvShowStatus, InvLoadState,
       InvMarkRefreshPending, InvCommitRefresh, InvLogout, InvRetireIdentity, InvRetireCredentials,
       InvSend, InvReceive DEF Step
  <2> QED
    BY <1>2, <2>1, <2>2
<1>3. ASSUME Serve PROVE Inv'
  BY <1>3, InvServeExchange, InvReadRefreshContext, InvServeRefresh, InvServeStatus, InvServeRevoke
     DEF Serve
<1>4. ASSUME NEW f \in Families, OwnerRevokes(f) \/ FamilyExpires(f) PROVE Inv'
  BY <1>4, InvOwnerRevokes, InvFamilyExpires
<1>5. ASSUME NEW r \in rcpts, WindowCloses(r) PROVE Inv'
  BY <1>5, InvWindowCloses
<1> QED
  BY <1>1, <1>2, <1>3, <1>4, <1>5 DEF Next

(* Every reachable state satisfies it. *)
LEMMA Invariance == Spec => []Inv
  BY InvInit, InvNext, PTL DEF Spec

-----------------------------------------------------------------------------
(* What follows. *)

(* The variables keep their types; no binding is active and retired. *)
THEOREM TypeCorrect == Spec => []TypeOK
<1>1. Inv => TypeOK
  BY DEF Inv
<1> QED
  BY <1>1, Invariance, PTL

(* However requests and answers are lost, delayed or repeated, however the *)
(* processes of the machine race and die: the reuse detection of           *)
(* device_auth_refresh_v1 never meets a token of the session that the      *)
(* keychain holds.                                                         *)
THEOREM NoFalseAlarm == Spec => []NoFalseReuse
<1>1. Inv => NoFalseReuse
  BY DEF Inv, NoFalseReuse
<1> QED
  BY <1>1, Invariance, PTL

(* The keychain is at most one generation behind the service, and then it  *)
(* has the pending refresh whose receipt the service keeps.                *)
THEOREM LostAnswersRecoverable == Spec => []LostAnswerRecoverable
<1>1. Inv => LostAnswerRecoverable
  BY DEF Inv, CredInv
<1> QED
  BY <1>1, Invariance, PTL

(* refreshDeviceToken seals its answer under the generation that the       *)
(* transaction then commits, though it read it before.                     *)
THEOREM AnswersAreSealed == Spec => []SealedForItsGeneration
<1>1. Inv => SealedForItsGeneration
  BY DEF Inv, RcptInv, SealedForItsGeneration
<1> QED
  BY <1>1, Invariance, PTL

(* A logout that is not local-only retires nothing before the service has  *)
(* revoked the device, by this call or an earlier one.                     *)
THEOREM LogoutIsConfirmed == Spec => []ConfirmedLogoutOnly
<1>1. Inv => ConfirmedLogoutOnly
  BY DEF Inv, ProcInv, AnswerInv, ConfirmedLogoutOnly
<1> QED
  BY <1>1, Invariance, PTL

(* The service and the steps of a process that write no credential leave   *)
(* the keychain alone.                                                     *)
LEMMA StoreAlone ==
    ASSUME [Next]_vars,
           ~\E p \in Procs : CommitExchange(p) \/ CommitRefresh(p) \/ RetireCredentials(p)
    PROVE  UNCHANGED cred
<1>1. CASE UNCHANGED vars
  BY <1>1 DEF vars, store
<1>2. ASSUME NEW p \in Procs, Start(p) \/ Step(p) \/ Break(p) \/ Crash(p) PROVE UNCHANGED cred
  BY <1>2 DEF Start, Step, Break, Crash, EnsureIdentity, Pair, ShowStatus, LoadState, MarkRefreshPending,
     Logout, RetireIdentity, Send, Receive, store
<1>3. ASSUME Serve PROVE UNCHANGED cred
  BY <1>3 DEF Serve, ServeExchange, ReadRefreshContext, ServeRefresh, ServeStatus, ServeRevoke, store
<1>4. ASSUME NEW f \in Families, OwnerRevokes(f) \/ FamilyExpires(f) PROVE UNCHANGED cred
  BY <1>4 DEF OwnerRevokes, FamilyExpires, store
<1>5. ASSUME NEW r \in rcpts, WindowCloses(r) PROVE UNCHANGED cred
  BY <1>5 DEF WindowCloses, store
<1> QED
  BY <1>1, <1>2, <1>3, <1>4, <1>5 DEF Next

(* The stored credential moves one generation at a time within its family, *)
(* and into another family only by signing in: nobody takes it back.       *)
THEOREM CredentialsMoveOn == Spec => NeverRolledBack
<1> DEFINE Moves == cred # None /\ cred' # None /\ cred' # cred =>
                      IF cred'.fam = cred.fam THEN cred'.gen = cred.gen + 1 ELSE cred'.gen = 0
<1>1. ASSUME Inv, [Next]_vars PROVE Moves
  <2>1. CASE \E p \in Procs : CommitExchange(p)
    <3>1. PICK p \in Procs : CommitExchange(p)
      BY <2>1
    <3>2. cred' = [fam |-> proc[p].pub, gen |-> 0, dev |-> proc[p].dev] /\ Pairing(proc[p])
      BY <3>1 DEF CommitExchange, Pairing, At
    <3>3. cred # None => cred.fam # proc[p].pub
      BY <1>1, <3>2 DEF Inv, CredInv, Loaded
    <3> QED
      BY <3>2, <3>3
  <2>2. CASE \E p \in Procs : CommitRefresh(p)
    BY <1>1, <2>2, CommitMoves DEF store
  <2>3. CASE \E p \in Procs : RetireCredentials(p)
    BY <2>3 DEF RetireCredentials, store
  <2> QED
    BY <1>1, <2>1, <2>2, <2>3, StoreAlone
<1>2. Inv /\ [Next]_vars => [Moves]_vars
  BY <1>1
<1> QED
  BY <1>2, Invariance, PTL DEF Spec, NeverRolledBack
=============================================================================
