---------------------------- MODULE DeviceAuth ----------------------------
(***************************************************************************)
(* Device authorization: the processes of one machine that share one       *)
(* credential envelope in the keychain (services/device-auth-use-case.ts,  *)
(* platform/*credential-store.ts), the client that sends their requests    *)
(* (network/device-auth-client.ts), and the service that answers them      *)
(* (apps/web/lib/device-auth, the device_auth functions of the database).  *)
(*                                                                         *)
(* One step is one keychain operation, one database transaction, or one    *)
(* event of the network.  A request or an answer may be lost, a request    *)
(* may arrive after its sender gave up, a process may die at any step, and *)
(* the refresh window of ten minutes may close at any time.                *)
(***************************************************************************)
EXTENDS Integers, FiniteSets

CONSTANTS
    Procs,          \* processes that share the keychain
    Modes,          \* whether the service may run single-shot: values of singleShot
    MaxLogins,      \* bound: pairings that are granted; each makes a family
    MaxIds,         \* bound: device ids and keys ever drawn
    MaxGen,         \* bound: generations of a family
    MaxCommands,    \* bound: commands run
    MaxClosed,      \* bound: refresh windows that close
    MaxFaults,      \* bound: losses, failures, crashes and revocations
    None

ASSUME DeviceAuthAssumption ==
    /\ Modes \subseteq BOOLEAN
    /\ MaxLogins \in Nat \ {0} /\ MaxIds \in Nat \ {0, 1}
    /\ {MaxGen, MaxCommands, MaxClosed, MaxFaults} \subseteq Nat
    /\ None \notin Procs

VARIABLES
    cred,       \* the stored record: its family, generation, and device id
    pending,    \* the stored pending refresh, the durable refresh lock
    meta, key,  \* the stored device id and the device key; 0 when there is none
    proc,       \* each process: the command it runs and what it has in memory
    fams,       \* the token families of the service
    binds,      \* active bindings of device id to key
    retired,    \* bindings retired for ever
    rcpts,      \* refresh receipts
    acked,      \* processes whose revoke call has its receipt
    stray,      \* requests still on their way after their sender gave up
    logins, ids, commands, faults,
    singleShot, \* refreshMode of the service: alpha-single-shot or exact-replay,
                \* fixed for the run, chosen when the first receipt is looked up
    reused      \* history: the stored family was revoked for a reused token

store == <<cred, pending>>
identity == <<meta, key, ids>>
service == <<fams, binds, retired, rcpts, acked>>
bounds == <<logins, commands, faults>>
rest == <<singleShot, reused>>
vars == <<store, identity, proc, service, stray, bounds, rest>>

Families == 1..MaxLogins
Ids == 0..MaxIds
Tokens == [fam : Families, gen : Nat]

(* The key of a refresh is random: it is named by the process that drew it *)
(* and by what its request digest covers.                                  *)
RefreshKeys == [fam : Families, gen : Nat, by : Procs]
Records == [fam : Families, gen : Nat, dev : Ids]
Kinds == {"exchange", "refresh", "status", "revoke"}
Requests == [kind : Kinds, by : Procs, fam : Families, token : Tokens \cup {None},
             pend : RefreshKeys \cup {None}, dev : Ids, sig : Ids,
             ctx : Nat \cup {None}]
Receipts == [pend : RefreshKeys, sealed : Nat, open : BOOLEAN]

Pcs == Kinds \cup {"idle", "ident", "pair", "commitExchange", "show", "load", "mark", "commitRefresh",
                    "logout", "retire", "retireCred", "wait"}
Answers == {"ok", "replay", "unavailable", "invalid_grant", "expired_token", "invalid_token",
            "already_consumed", "proof_invalid"}
Idle == [pc |-> "idle", phase |-> "none", pub |-> None, dev |-> 0,
         creds |-> None, pend |-> None, token |-> None, nest |-> 1, keep |-> FALSE,
         twice |-> FALSE, failed |-> FALSE, msg |-> None, ans |-> None]
Processes == [pc : Pcs, phase : {"none", "status", "logout", "local"}, pub : Families \cup {None},
              dev : Ids, creds : Records \cup {None}, pend : RefreshKeys \cup {None},
              token : Tokens \cup {None}, nest : 0..1, keep : BOOLEAN,
              twice : BOOLEAN, failed : BOOLEAN, msg : Requests \cup {None},
              ans : Answers \cup {None}]
ASSUME NoneAssumption ==
    None \notin Families \cup Tokens \cup RefreshKeys \cup Records \cup Requests \cup Answers \cup Nat

TypeOK ==
    /\ cred \in Records \cup {None} /\ pending \in RefreshKeys \cup {None}
    /\ meta \in Ids /\ key \in Ids /\ ids \in Ids
    /\ proc \in [Procs -> Processes]
    /\ fams \in [Families -> [st : {"none", "active", "revoked"},
                              gen : Nat, dev : Ids, key : Ids, dead : BOOLEAN]]
    /\ binds \subseteq Ids \X Ids /\ retired \subseteq Ids \X Ids
    /\ binds \cap retired = {}
    /\ rcpts \subseteq Receipts /\ acked \subseteq Procs
    /\ stray \subseteq Requests
    /\ logins \in 0..MaxLogins /\ commands \in 0..MaxCommands /\ faults \in 0..MaxFaults
    /\ singleShot \in BOOLEAN \cup {None} /\ reused \in BOOLEAN

(* The machine has just signed in.                                         *)
Init ==
    /\ cred = [fam |-> 1, gen |-> 0, dev |-> 1] /\ pending = None
    /\ meta = 1 /\ key = 2 /\ ids = 2
    /\ proc = [p \in Procs |-> Idle]
    /\ fams = [f \in Families |->
                 IF f = 1 THEN [st |-> "active", gen |-> 0, dev |-> 1, key |-> 2, dead |-> FALSE]
                 ELSE [st |-> "none", gen |-> 0, dev |-> 0, key |-> 0, dead |-> FALSE]]
    /\ binds = {<<1, 2>>} /\ retired = {} /\ rcpts = {} /\ acked = {}
    /\ stray = {}
    /\ logins = 1 /\ commands = 0 /\ faults = 0
    /\ singleShot = None /\ reused = FALSE

-----------------------------------------------------------------------------
(* How a command goes on and ends. *)

At(p, l) == proc[p].pc = l
Update(p, r) == proc' = [proc EXCEPT ![p] = r]
Goto(p, l) == Update(p, [proc[p] EXCEPT !.pc = l])
Fault == faults < MaxFaults /\ faults' = faults + 1

(* getAuthStatus has its result.                                           *)
StatusEnds(r) == [r EXCEPT !.phase = "logout", !.pub = None, !.pc = "logout"]
(* A call of refreshAccessToken ends, and its locals with it.              *)
Left(r) == [r EXCEPT !.creds = None, !.pend = None, !.ans = None, !.nest = 1,
                     !.keep = FALSE, !.twice = FALSE]
(* refreshAccessToken has thrown to its caller.                            *)
RefreshThrown(r) == IF r.phase = "status" THEN StatusEnds(Left(r)) ELSE Idle
(* refreshAccessToken returns a token.                                     *)
RefreshReturns(r, t) ==
    [Left(r) EXCEPT !.token = t, !.pc = IF r.phase = "status" THEN "status" ELSE "revoke"]

terminalFailures == {"invalid_grant", "expired_token", "invalid_token", "already_consumed"}

(* The catch of refreshAccessToken.                                        *)
RefreshFails(r, code) ==
    IF code \in terminalFailures /\ ~r.keep THEN [Left(r) EXCEPT !.pc = "retire", !.twice = r.twice, !.token = None]
    ELSE RefreshThrown(r)

(* A call of refreshAccessToken, outermost or nested for a token near its  *)
(* expiry; the nested call does not receive preserveOnAuthFailure.         *)
StartRefresh(r, keepOnFailure) ==
    [r EXCEPT !.pc = "load", !.nest = 1, !.keep = keepOnFailure, !.twice = FALSE]
NestedRefresh(r, t) ==
    [Left(r) EXCEPT !.pc = "load", !.token = t, !.nest = 0, !.twice = ~r.keep]
Reload(r) == [r EXCEPT !.pc = "load", !.creds = None]

Start(p) ==
    /\ At(p, "idle") /\ commands < MaxCommands
    /\ commands' = commands + 1
    /\ \/ logins < MaxLogins
          /\ Update(p, [Idle EXCEPT !.pc = "ident"])
       \/ Update(p, [Idle EXCEPT !.pc = "show", !.phase = "status"])
       \/ Update(p, [Idle EXCEPT !.pc = "retire", !.phase = "local"])
    /\ acked' = acked \ {p}
    /\ UNCHANGED <<store, identity, fams, binds, retired, rcpts, stray, logins, faults, rest>>

-----------------------------------------------------------------------------
(* Signing in: initiateAndPoll. *)

(* createKey returns the key there is; getDeviceId draws and saves one     *)
(* when no metadata is stored.                                             *)
EnsureIdentity(p) ==
    /\ At(p, "ident")
    /\ LET dev == IF meta = 0 THEN ids + 1 ELSE meta
           k == IF key = 0 THEN ids + 2 ELSE key
       IN /\ dev <= MaxIds /\ k <= MaxIds
          /\ meta' = dev /\ key' = k
          /\ ids' = IF key = 0 THEN ids + 2 ELSE IF meta = 0 THEN ids + 1 ELSE ids
          /\ Update(p, [proc[p] EXCEPT !.pc = "pair", !.dev = dev])
    /\ UNCHANGED <<store, service, stray, bounds, rest>>

(* Mutant: a key that was retired may be bound again.                      *)
RefusedUnlessRetired(b) == b[2] = 0 \/ \E o \in binds : o[1] = b[1] /\ o # b
(* The binding is refused when the device id has another active key, and   *)
(* when it was retired.                                                    *)
BindingRefused(b) == b[2] = 0 \/ b \in retired \/ \E o \in binds : o[1] = b[1] /\ o # b

(* Initiation binds the key, unless the device id has another active key   *)
(* or this key was retired; the owner confirms, and a poll returns the     *)
(* exchange code.  Metadata is saved again after initiation.  A refused,   *)
(* denied, cancelled or expired pairing ends the command.                  *)
Pair(p) ==
    /\ At(p, "pair")
    /\ LET b == <<proc[p].dev, key>>
       IN \/ ~BindingRefused(b) /\ logins < MaxLogins
             /\ binds' = binds \cup {b} /\ meta' = proc[p].dev
             /\ logins' = logins + 1
             /\ Update(p, [proc[p] EXCEPT !.pc = "exchange", !.pub = logins + 1])
          \/ Update(p, Idle) /\ UNCHANGED <<binds, logins, meta>>
    /\ UNCHANGED <<store, key, ids, fams, retired, rcpts, acked, stray, commands, faults, rest>>

(* commitExchange replaces the record and clears what is pending.          *)
CommitExchange(p) ==
    /\ At(p, "commitExchange")
    /\ cred' = [fam |-> proc[p].pub, gen |-> 0, dev |-> proc[p].dev]
    /\ pending' = None
    /\ Update(p, Idle)
    /\ UNCHANGED <<identity, service, stray, bounds, rest>>

-----------------------------------------------------------------------------
(* Refreshing: refreshAccessToken over the credential store. *)

(* getAuthStatus loads the record for the public id it will ask about.     *)
ShowStatus(p) ==
    /\ At(p, "show")
    /\ Update(p, IF cred = None THEN StatusEnds(proc[p])
                 ELSE StartRefresh([proc[p] EXCEPT !.pub = cred.fam], FALSE))
    /\ UNCHANGED <<store, identity, service, stray, bounds, rest>>

(* loadState is atomic.  What it finds missing or of another generation or *)
(* request is thrown before the try: nothing is retired.                   *)
LoadState(p) ==
    /\ At(p, "load")
    /\ Update(p, IF \/ cred = None
                    \/ pending # None /\ pending.gen # cred.gen
                    \/ pending # None /\ pending.fam # cred.fam
                 THEN RefreshThrown(proc[p])
                 ELSE [proc[p] EXCEPT !.creds = cred, !.pend = pending,
                                      !.pc = IF pending = None THEN "mark" ELSE "refresh"])
    /\ UNCHANGED <<store, identity, service, stray, bounds, rest>>

(* Mutant: the mark does not look for another pending refresh.             *)
MarkLostIgnoringPending(r) == cred # None /\ cred.gen # r.creds.gen
(* generation_conflict and pending_conflict.                               *)
MarkLost(r) == cred # None /\ (cred.gen # r.creds.gen \/ pending # None)

(* Mutant: the refresh is sent before its mark is durable.                 *)
MarkUnsaved(candidate) == UNCHANGED pending
Mark(candidate) == pending' = candidate

(* markRefreshPending compares the generation, and lets only one mark win; *)
(* the loser loads again, three times at most: here it may always give up. *)
MarkRefreshPending(p) ==
    /\ At(p, "mark")
    /\ LET r == proc[p]
           candidate == [fam |-> r.creds.fam, gen |-> r.creds.gen, by |-> p]
       IN \/ cred = None /\ Update(p, RefreshThrown(r)) /\ UNCHANGED pending
          \/ MarkLost(r) /\ Update(p, Reload(r)) /\ UNCHANGED pending
          \/ MarkLost(r) /\ Update(p, RefreshThrown(r)) /\ UNCHANGED pending
          \/ /\ cred # None /\ ~MarkLost(r) /\ Mark(candidate)
             /\ Update(p, [r EXCEPT !.pend = candidate, !.pc = "refresh"])
    /\ UNCHANGED <<cred, identity, service, stray, bounds, rest>>

(* The access token expires as its replay window closes; near it is close  *)
(* to expiry, which only a replayed answer can be.                         *)
TokenExpired(t) == \E r \in rcpts : r.pend.fam = t.fam /\ r.pend.gen + 1 = t.gen /\ ~r.open

(* Mutant: the commit does not compare what is pending.                    *)
CommitUncompared(r) == cred # None /\ cred.fam = r.creds.fam
CommitAllowed(r) ==
    cred # None /\ cred.gen = r.pend.gen /\ pending = r.pend /\ cred.fam = r.creds.fam

(* commitRefresh: the record moves on only under the pending refresh that  *)
(* was sent; a repeated commit of the same successor succeeds; a family    *)
(* with another absolute expiry is refused.  The commit comes before any   *)
(* look at how long the access token still lives.                          *)
CommitRefresh(p) ==
    /\ At(p, "commitRefresh")
    /\ LET r == proc[p]
           next == [r.creds EXCEPT !.gen = @ + 1]
           token == [fam |-> next.fam, gen |-> next.gen]
           repeated == cred # None /\ cred.gen = next.gen /\ cred.fam = next.fam /\ pending = None
           first == CommitAllowed(r)
       IN /\ IF first THEN cred' = next /\ pending' = None ELSE UNCHANGED store
          /\ IF ~first /\ ~repeated THEN Update(p, RefreshThrown(r))
             ELSE \/ ~TokenExpired(token) /\ Update(p, RefreshReturns(r, token))
                  \/ (r.ans = "replay" \/ TokenExpired(token)) /\ r.nest = 1
                        /\ Update(p, NestedRefresh(r, token))
                  \/ TokenExpired(token) /\ r.nest = 0
                        /\ Update(p, RefreshFails(r, "expired_token"))
    /\ UNCHANGED <<identity, service, stray, bounds, rest>>

-----------------------------------------------------------------------------
(* Leaving: logout, and retireLocalAuthState. *)

(* The command was only status or whoami, or it is logout and its          *)
(* preflight is over.  The token of the preflight is used again while it   *)
(* lives; otherwise one is fetched under preserveOnAuthFailure.            *)
Logout(p) ==
    /\ At(p, "logout")
    /\ LET r == [proc[p] EXCEPT !.pub = IF cred = None THEN None ELSE cred.fam]
       IN \/ Update(p, Idle)
          \/ Update(p, CASE cred = None -> Idle
                           [] cred # None /\ r.token # None /\ ~TokenExpired(r.token) ->
                                 [r EXCEPT !.pc = "revoke"]
                           [] OTHER -> StartRefresh([r EXCEPT !.token = None], TRUE))
    /\ UNCHANGED <<store, identity, service, stray, bounds, rest>>

(* Metadata and key, then credentials; a deletion that fails does not keep *)
(* the next from being tried, and is reported in the end.                  *)
RetireIdentity(p) ==
    /\ At(p, "retire")
    /\ \/ /\ meta' = 0 /\ key' = 0 /\ UNCHANGED faults
          /\ Goto(p, "retireCred")
       \/ /\ Fault
          /\ \/ meta' = 0 /\ UNCHANGED key
             \/ key' = 0 /\ UNCHANGED meta
          /\ Update(p, [proc[p] EXCEPT !.pc = "retireCred", !.failed = TRUE])
    /\ UNCHANGED <<store, ids, service, stray, logins, commands, rest>>

(* What follows.  A failure is an error of its own: getAuthStatus survives *)
(* it when its refresh had retired, and nobody else does.  Otherwise the   *)
(* catch of the outer refresh retires once more, or the command goes on.   *)
Retired(r, failed) ==
    CASE failed /\ r.token # None -> Idle
      [] ~failed /\ r.twice -> [r EXCEPT !.twice = FALSE, !.pc = "retire"]
      [] OTHER -> RefreshThrown([r EXCEPT !.token = None, !.failed = FALSE])

RetireCredentials(p) ==
    /\ At(p, "retireCred")
    /\ \/ /\ cred' = None /\ pending' = None /\ UNCHANGED faults
          /\ Update(p, Retired(proc[p], proc[p].failed))
       \/ /\ Fault /\ UNCHANGED store
          /\ Update(p, Retired(proc[p], TRUE))
    /\ UNCHANGED <<identity, service, stray, logins, commands, rest>>

-----------------------------------------------------------------------------
(* The client: DeviceAuthClient.request. *)

(* What a request that finds no key, or gets no answer, ends as.           *)
Unreachable(r, kind) ==
    CASE kind = "refresh" -> RefreshThrown(r)
      [] kind = "status" -> StatusEnds(r)
      [] OTHER -> Idle

(* Every attempt is signed anew by the key of that moment; the idempotency *)
(* key stays.  getDeviceId is cached for the life of the process.          *)
Send(p, kind) ==
    /\ At(p, kind)
    /\ LET r == proc[p]
           dev == IF r.dev # 0 THEN r.dev ELSE IF meta # 0 THEN meta ELSE ids + 1
           request == [kind |-> kind, by |-> p,
                       fam |-> IF kind = "refresh" THEN r.creds.fam ELSE r.pub,
                       token |-> IF kind = "refresh" THEN [fam |-> r.creds.fam, gen |-> r.creds.gen]
                                 ELSE r.token,
                       pend |-> IF kind = "refresh" THEN r.pend ELSE None,
                       dev |-> dev, sig |-> key, ctx |-> None]
       IN /\ dev <= MaxIds
          /\ meta' = IF r.dev = 0 /\ meta = 0 THEN dev ELSE meta
          /\ ids' = IF dev > ids THEN dev ELSE ids
          /\ Update(p, IF key = 0 THEN Unreachable([r EXCEPT !.dev = dev], kind)
                       ELSE [r EXCEPT !.dev = dev, !.pc = "wait", !.msg = request, !.ans = None])
    /\ UNCHANGED <<store, key, service, stray, bounds, rest>>

(* The request of p that may still be served when p has stopped waiting; a *)
(* status request that nobody waits for changes nothing.                   *)
Underway(p) ==
    {m \in {proc[p].msg} : m # None /\ proc[p].ans = None /\ m.kind # "status"}

(* The connection breaks or the deadline of ten seconds passes.  What was  *)
(* not served yet is lost or still on its way.  The client tries again or  *)
(* gives up.                                                               *)
Break(p) ==
    /\ At(p, "wait") /\ Fault
    /\ \/ UNCHANGED stray
       \/ stray' = stray \cup Underway(p)
    /\ LET r == [proc[p] EXCEPT !.msg = None, !.ans = None]
       IN \/ Update(p, [r EXCEPT !.pc = proc[p].msg.kind])
          \/ Update(p, Unreachable(r, proc[p].msg.kind))
    /\ UNCHANGED <<store, identity, service, logins, commands, rest>>

(* Mutant: any answer of the service confirms the revocation.              *)
AnyAnswerConfirms(code) == TRUE
RevokeConfirmed(code) == code = "ok"

(* The answer arrives.  A service that is unavailable is asked again.      *)
Receive(p) ==
    /\ At(p, "wait") /\ proc[p].ans # None
    /\ LET r == [proc[p] EXCEPT !.msg = None]
           kind == proc[p].msg.kind
           good == r.ans \in {"ok", "replay"}
       IN Update(p,
            IF r.ans = "unavailable" THEN [r EXCEPT !.pc = kind, !.ans = None]
            ELSE
            CASE kind = "exchange" /\ good -> [r EXCEPT !.pc = "commitExchange", !.ans = None]
              [] kind = "refresh" /\ good -> [r EXCEPT !.pc = "commitRefresh"]
              [] kind = "refresh" /\ ~good -> RefreshFails([r EXCEPT !.ans = None], r.ans)
              [] kind = "status" /\ r.ans \in terminalFailures ->
                    [r EXCEPT !.pc = "retire", !.ans = None]
              [] kind = "status" /\ r.ans \notin terminalFailures -> StatusEnds([r EXCEPT !.ans = None])
              [] kind = "revoke" /\ RevokeConfirmed(r.ans) -> [r EXCEPT !.pc = "retire", !.ans = None]
              [] OTHER -> Idle)
    /\ UNCHANGED <<store, identity, service, stray, bounds, rest>>

(* The process dies; its memory is gone.                                   *)
Crash(p) ==
    /\ ~At(p, "idle") /\ Fault
    /\ Update(p, Idle)
    /\ stray' = stray \cup Underway(p)
    /\ UNCHANGED <<store, identity, service, logins, commands, rest>>

-----------------------------------------------------------------------------
(* The service.  A handler answers the request m, wherever it is; a stray  *)
(* request has nobody to answer to.                                        *)

Waiting(p) == At(p, "wait") /\ proc[p].ans = None
Arrived == {proc[p].msg : p \in {q \in Procs : Waiting(q)}} \cup stray
Current(m) == Waiting(m.by) /\ proc[m.by].msg = m
Answer(m, code) ==
    IF Current(m) THEN /\ Update(m.by, [proc[m.by] EXCEPT !.ans = code])
                       /\ UNCHANGED stray
    ELSE stray' = stray \ {m} /\ UNCHANGED proc

(* getActiveProofKey and the check of the signature.                       *)
ProofVerdict(m) ==
    LET bound == {b \in binds : b[1] = m.dev}
    IN CASE bound = {} -> "invalid_grant"
         [] bound # {} /\ <<m.dev, m.sig>> \notin bound -> "proof_invalid"
         [] OTHER -> "ok"

(* Every binding of the device id that no other active family needs.       *)
Unneeded(f) ==
    {b \in binds : b[1] = fams[f].dev
        /\ ~\E g \in Families \ {f} : fams[g].st = "active" /\ <<fams[g].dev, fams[g].key>> = b}

(* device_auth_exchange_v1: a second request of the same exchange finds    *)
(* the receipt and revokes the lineage whose tokens may have been lost.    *)
ServeExchange(m) ==
    /\ m.kind = "exchange"
    /\ LET verdict == ProofVerdict(m)
           made == fams[m.fam].st # "none"
       IN /\ fams' = IF verdict # "ok" THEN fams
                     ELSE IF made THEN [fams EXCEPT ![m.fam].st = "revoked", ![m.fam].dead = TRUE]
                     ELSE [fams EXCEPT ![m.fam] = [st |-> "active", gen |-> 0, dev |-> m.dev,
                                                   key |-> m.sig, dead |-> FALSE]]
          /\ Answer(m, IF verdict # "ok" THEN verdict ELSE IF made THEN "already_consumed" ELSE "ok")
    /\ UNCHANGED <<store, identity, binds, retired, rcpts, acked, bounds, rest>>

(* refreshDeviceToken reads the context of the family, seals the candidate *)
(* answer under the generation it saw, and only then asks for the          *)
(* transition.                                                             *)
ReadRefreshContext(m) ==
    /\ m.kind = "refresh" /\ m.ctx = None
    /\ LET seen == [m EXCEPT !.ctx = fams[m.fam].gen]
           refused == IF ProofVerdict(m) # "ok" THEN ProofVerdict(m)
                      ELSE IF fams[m.fam].dev # m.dev THEN "invalid_grant" ELSE "no"
       IN IF refused # "no" THEN Answer(m, refused)
          ELSE IF Current(m) THEN Update(m.by, [proc[m.by] EXCEPT !.msg = seen]) /\ UNCHANGED stray
          ELSE stray' = (stray \ {m}) \cup {seen} /\ UNCHANGED proc
    /\ UNCHANGED <<store, identity, service, bounds, rest>>

FamilyLive(f) ==
    /\ fams[f].st = "active" /\ ~fams[f].dead
    /\ <<fams[f].dev, fams[f].key>> \in binds
Revoke(f) == fams' = [fams EXCEPT ![f].st = "revoked"]

(* device_auth_refresh_v1 and device_auth_refresh_single_shot_v1; they     *)
(* differ only for a request that has its receipt.                         *)
RunsSingleShot(b) == b \in Modes /\ singleShot \in {None, b} /\ singleShot' = b
ReceiptFor(m) == {r \in rcpts : r.pend = m.pend}

(* Mutant: any token of the family rotates it.                             *)
AnyToken(m) == TRUE
CurrentToken(m) == m.token.gen = fams[m.fam].gen

(* No receipt and the current token: rotate, and keep the receipt.         *)
Rotate(m) ==
    /\ ReceiptFor(m) = {} /\ CurrentToken(m) /\ fams[m.fam].gen < MaxGen
    /\ fams' = [fams EXCEPT ![m.fam].gen = @ + 1]
    /\ rcpts' = rcpts \cup {[pend |-> m.pend, sealed |-> m.ctx, open |-> TRUE]}
    /\ Answer(m, "ok") /\ UNCHANGED rest

(* No receipt and a token that was replaced: somebody has the token twice. *)
DetectReuse(m) ==
    /\ ReceiptFor(m) = {} /\ ~CurrentToken(m)
    /\ Revoke(m.fam) /\ Answer(m, "invalid_grant")
    /\ reused' = (reused \/ (cred # None /\ cred.fam = m.fam))
    /\ UNCHANGED <<rcpts, singleShot>>

(* The receipt is there: the sealed answer again within the window, while  *)
(* it opens under the generations of the receipt; otherwise fail closed.   *)
ReplayRefresh(m) ==
    /\ RunsSingleShot(FALSE) /\ UNCHANGED <<rcpts, reused>>
    /\ \E r \in ReceiptFor(m) :
         \/ r.open /\ r.sealed = r.pend.gen /\ UNCHANGED fams /\ Answer(m, "replay")
         \/ ~r.open /\ Revoke(m.fam) /\ Answer(m, "invalid_grant")

(* The seal does not open, because it was made for another generation or   *)
(* because the provider has lost the key of its epoch.  failClosed revokes *)
(* the family, if it succeeds.                                             *)
FailClosed(m) ==
    /\ RunsSingleShot(FALSE) /\ UNCHANGED <<rcpts, reused>>
    /\ \E r \in ReceiptFor(m) : r.open
    /\ Revoke(m.fam) \/ UNCHANGED fams
    /\ Answer(m, "unavailable")

ConsumedOnce(m) ==
    /\ RunsSingleShot(TRUE) /\ ReceiptFor(m) # {}
    /\ Answer(m, "already_consumed") /\ UNCHANGED <<fams, rcpts, reused>>

ServeRefresh(m) ==
    /\ m.kind = "refresh" /\ m.ctx # None
    /\ IF ~FamilyLive(m.fam) THEN Answer(m, "invalid_grant") /\ UNCHANGED <<fams, rcpts, rest, faults>>
       ELSE \/ /\ Rotate(m) \/ DetectReuse(m) \/ ReplayRefresh(m) \/ ConsumedOnce(m)
               /\ UNCHANGED faults
            \/ FailClosed(m) /\ Fault
    /\ UNCHANGED <<store, identity, binds, retired, acked, logins, commands>>

(* device_auth_get_status_v1: only the access token of the current         *)
(* generation is good.                                                     *)
AccessGood(m) ==
    /\ m.token # None /\ m.token.fam = m.fam /\ fams[m.fam].dev = m.dev
    /\ FamilyLive(m.fam) /\ m.token.gen = fams[m.fam].gen /\ ~TokenExpired(m.token)

ServeStatus(m) ==
    /\ m.kind = "status"
    /\ Answer(m, IF ProofVerdict(m) # "ok" THEN ProofVerdict(m)
                 ELSE IF AccessGood(m) THEN "ok" ELSE "invalid_token")
    /\ UNCHANGED <<store, identity, service, bounds, rest>>

(* device_auth_get_revoke_key_v1 and device_auth_revoke_v1; the receipt of *)
(* the call answers its retries, though the key is retired by then.        *)
ServeRevoke(m) ==
    /\ m.kind = "revoke"
    /\ LET f == fams[m.fam]
           verdict == IF m.by \in acked THEN "ok"
                      ELSE IF f.dev # m.dev \/ <<f.dev, f.key>> \notin binds THEN "invalid_grant"
                      ELSE IF f.key # m.sig THEN "proof_invalid"
                      ELSE IF f.dead \/ AccessGood(m) THEN "ok" ELSE "invalid_token"
       IN /\ Answer(m, verdict)
          /\ IF verdict = "ok" /\ m.by \notin acked
             THEN /\ fams' = [fams EXCEPT ![m.fam].st = "revoked", ![m.fam].dead = TRUE]
                  /\ binds' = IF f.dead THEN binds ELSE binds \ Unneeded(m.fam)
                  /\ retired' = retired \cup (binds \ binds')
                  /\ acked' = IF Current(m) THEN acked \cup {m.by} ELSE acked
             ELSE UNCHANGED <<fams, binds, retired, acked>>
    /\ UNCHANGED <<store, identity, rcpts, bounds, rest>>

Serve ==
    \E m \in Arrived :
        \/ ServeExchange(m) \/ ReadRefreshContext(m) \/ ServeRefresh(m)
        \/ ServeStatus(m) \/ ServeRevoke(m)

(* device_auth_revoke_my_device_v1, from the dashboard: every binding of   *)
(* the device id is retired.                                               *)
OwnerRevokes(f) ==
    /\ fams[f].st # "none" /\ ~fams[f].dead /\ Fault
    /\ fams' = [fams EXCEPT ![f].st = "revoked", ![f].dead = TRUE]
    /\ LET gone == {b \in binds : b[1] = fams[f].dev}
       IN binds' = binds \ gone /\ retired' = retired \cup gone
    /\ UNCHANGED <<store, identity, proc, rcpts, acked, stray, logins, commands, rest>>

(* Idle or absolute expiry of a family; its device is not revoked. *)
FamilyExpires(f) ==
    /\ fams[f].st = "active" /\ Fault
    /\ fams' = [fams EXCEPT ![f].st = "revoked"]
    /\ UNCHANGED <<store, identity, proc, binds, retired, rcpts, acked, stray, logins, commands, rest>>

(* Ten minutes after a refresh: its answer is replayed no more and its     *)
(* access token has expired.                                               *)
WindowCloses(r) ==
    /\ r.open /\ Cardinality({q \in rcpts : ~q.open}) < MaxClosed
    /\ \A q \in rcpts : q.pend.fam = r.pend.fam /\ q.open => q.pend.gen >= r.pend.gen
    /\ rcpts' = (rcpts \ {r}) \cup {[r EXCEPT !.open = FALSE]}
    /\ UNCHANGED <<store, identity, proc, fams, binds, retired, acked, stray, bounds, rest>>

-----------------------------------------------------------------------------
Step(p) ==
    \/ EnsureIdentity(p) \/ Pair(p) \/ CommitExchange(p)
    \/ ShowStatus(p) \/ LoadState(p) \/ MarkRefreshPending(p) \/ CommitRefresh(p)
    \/ Logout(p) \/ RetireIdentity(p) \/ RetireCredentials(p)
    \/ \E kind \in Kinds : Send(p, kind)
    \/ Receive(p)

Next ==
    \/ \E p \in Procs : Start(p) \/ Step(p) \/ Break(p) \/ Crash(p)
    \/ Serve
    \/ \E f \in Families : OwnerRevokes(f) \/ FamilyExpires(f)
    \/ \E r \in rcpts : WindowCloses(r)

Spec == Init /\ [][Next]_vars

-----------------------------------------------------------------------------
(* Properties. *)

(* Whatever is lost, repeated, delayed or cut short, no process presents   *)
(* a token of the stored family that has been replaced under a key of its  *)
(* own: the reuse detection of device_auth_refresh_v1 never revokes the    *)
(* session of an honest machine.                                           *)
NoFalseReuse == ~reused

(* The keychain is never more than one generation behind the service, and  *)
(* when it is behind, the pending refresh it holds has its receipt: the    *)
(* lost answer is the one that a retry asks for.                           *)
LostAnswerRecoverable ==
    cred # None =>
      LET f == fams[cred.fam]
      IN /\ f.st # "none" /\ cred.gen <= f.gen /\ f.gen <= cred.gen + 1
         /\ f.gen = cred.gen + 1 =>
              /\ pending # None /\ pending.fam = cred.fam /\ pending.gen = cred.gen
              /\ \E r \in rcpts : r.pend = pending

(* The context was read before the transaction that commits, but the       *)
(* answer is always sealed under the generation it commits: a replay       *)
(* within the window never fails its integrity check.                      *)
SealedForItsGeneration == \A r \in rcpts : r.sealed = r.pend.gen

(* A process that has been away for long cannot take the stored credential *)
(* back: within a family it moves one generation at a time, and into       *)
(* another family only by signing in.                                      *)
NeverRolledBack ==
    [][cred # None /\ cred' # None /\ cred' # cred =>
         IF cred'.fam = cred.fam THEN cred'.gen = cred.gen + 1 ELSE cred'.gen = 0]_vars

(* Logout that is not local-only removes nothing before the service has    *)
(* revoked the device: "Unconfirmed logout paths never reach this          *)
(* cleanup."  Only the retirement that follows a confirmed revocation is   *)
(* considered; the nested refresh is not.                                  *)
ConfirmedLogoutOnly ==
    \A p \in Procs :
      /\ proc[p].phase = "logout" /\ proc[p].token # None
      /\ proc[p].pc \in {"retire", "retireCred"}
      => fams[proc[p].pub].dead
=============================================================================
