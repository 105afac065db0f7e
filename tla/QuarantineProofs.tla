-------------------------- MODULE QuarantineProofs --------------------------
(***************************************************************************)
(* What the quarantine protocol guarantees for any number of identical     *)
(* calls, destinations, edits and interrupted calls.                       *)
(***************************************************************************)
EXTENDS Quarantine, FiniteSetTheorems, TLAPS

(* The calls that hold a durable intent, and those that saw the move done. *)
Before == {"check", "load", "boundary", "refused", "digest", "lstatAgain", "authoriseAgain",
           "mover", "rename"}
Sure == {"lstatDigested", "createReceipt", "fillReceipt", "rereadReceipt"}
Seen == {"lstatLeft", "digestMoved", "digestRecovered"} \cup Sure
After == {"lstatMoved"} \cup Seen
Intended == Before \cup After \cup {"recover"}
Unread == {"authorise", "readReceipt", "window", "observe", "replay", "replayDigest", "readIntent"}

Stamped(c) == Complete(intent[Op(c)]) /\ call[c].stamp = intent[Op(c)]
Receipted(c) == Complete(receipt[Op(c)]) /\ call[c].stamp = receipt[Op(c)]

(* What a call knows whatever its place is: a source that it saw empty has *)
(* been moved, and so on.                                                  *)
RunInv(c) ==
    /\ snap # None /\ call[c].result = "failed"
    /\ Op(c) = "restore" => "quarantine" \in faithful
    /\ call[c].known => Stamped(c)
    /\ Saw(c, "from") # Unseen /\ Saw(c, "from") = None => Op(c) \in moved
    /\ /\ snap.ino = "skill" /\ snap.tree = "edited"
       /\ Saw(c, "to") # Unseen /\ SameIdentity(Saw(c, "to"))
       => Op(c) \in faithful

(* What a call may rely on at the place l. *)
PlaceInv(c, l) ==
    /\ l \in Intended => Stamped(c)
    /\ l \in {"replay", "replayDigest"} => Receipted(c)
    /\ l \in Unread => ~call[c].known
    /\ l = "fillIntent" => Intent(c) = Torn
    /\ l \in {"check", "lstatAgain", "authoriseAgain"} => Op(c) = "quarantine"
    /\ l \in {"load", "boundary", "refused"} => Op(c) = "restore"
    /\ l \in {"check", "load", "digest", "lstatAgain", "authoriseAgain"} /\ ~call[c].inTime =>
          ~AuthorityLive(Op(c))
    /\ l = "boundary" /\ ~call[c].inTime => ~live["window"]
    /\ l = "digest" /\ Op(c) = "restore" => call[c].inTime
    /\ l \in {"mover", "rename"} => call[c].inTime
    /\ l \in After => Op(c) \in moved
    /\ l \in Seen /\ snap.tree = "edited" => Op(c) \in faithful
    /\ l \in Sure => Op(c) \in faithful

DoneInv(c) == call[c].result # "conflict" /\ (call[c].result = "receipt" => Receipted(c))
CallInv(c) == IF At(c, "done") THEN DoneInv(c) ELSE RunInv(c) /\ PlaceInv(c, call[c].pc)

(* Only one call writes an intent that it has created. *)
WriterInv ==
    \A c, d \in Callers : At(c, "fillIntent") /\ At(d, "fillIntent") /\ Op(c) = Op(d) => c = d

RecordInv ==
    \A o \in Ops : /\ Complete(receipt[o]) => Complete(intent[o]) /\ receipt[o] = intent[o]
                   /\ Complete(receipt[o]) => o \in faithful
                   /\ o \in moved => Complete(intent[o])

(* Before the preflight nothing has happened to the skill but edits. *)
FreshInv ==
    snap = None => /\ moved = {} /\ \A o \in Ops : intent[o] = None /\ receipt[o] = None
                   /\ \A p \in Places \ {Original} : at[p] # None => at[p].ino = "other"

(* Afterwards the skill is followed by its identity and its tree: a tree   *)
(* that is no more the one of the snapshot never becomes it again, and     *)
(* only the mover empties a place.                                         *)
Good(x) == SameIdentity(x) /\ SameTree(x)
TraceInv ==
    snap # None =>
        /\ dest # Original
        /\ at[Original] = None => "quarantine" \in moved
        /\ "quarantine" \in moved /\ at[dest] = None => "restore" \in moved
        /\ snap.ino = "other" => snap.tree = "edited" /\ moved \subseteq faithful
        /\ \A p \in Places : at[p] # None =>
              /\ snap.tree = "edited" => at[p].tree = "edited"
              /\ snap.ino = "other" => at[p].ino = "other"
        /\ snap.ino = "skill" =>
              /\ Good(at[dest]) => "quarantine" \in faithful
              /\ Good(at[Original]) /\ "quarantine" \in faithful => "restore" \in faithful
WorldInv ==
    /\ FreshInv /\ TraceInv
    /\ \A p \in Places : at[p] # None /\ at[p].ino = "other" => at[p].tree = "edited"

Inv == TypeOK /\ WorldInv /\ RecordInv /\ WriterInv /\ \A c \in Callers : CallInv(c)

-----------------------------------------------------------------------------
(* What the ways to go on do to the record of a call. *)
Views == [Ends -> Objects \cup {None, Unseen}]
(* The record of a call, with the set of views named. *)
LEMMA CallsAre ==
    /\ Calls = [pc : Pcs, op : Ops, stamp : Callers, known : BOOLEAN, saw : Views,
                inTime : BOOLEAN, result : {"failed", "conflict", "receipt"}]
    /\ NothingSeen \in Views
  BY DEF Calls, Views, NothingSeen

(* The fields of a call. *)
LEMMA CallFields ==
    ASSUME TypeOK, NEW c \in Callers
    PROVE  /\ call[c] \in Calls /\ Op(c) \in Ops /\ call[c].stamp \in Callers
           /\ call[c].saw \in [Ends -> Objects \cup {None, Unseen}]
           /\ call[c].inTime \in BOOLEAN /\ call[c].known \in BOOLEAN
  BY DEF TypeOK, Calls, Op

(* The fields of a call that begins. *)
LEMMA NewCallFields ==
    ASSUME TypeOK, NEW c \in Callers, NEW o \in Ops, NEW l \in Pcs
    PROVE  /\ NewCall(c, o, l) \in Calls
           /\ NewCall(c, o, l).pc = l /\ NewCall(c, o, l).op = o /\ NewCall(c, o, l).stamp = c
           /\ NewCall(c, o, l).result = "failed" /\ NewCall(c, o, l).saw = NothingSeen
           /\ ~NewCall(c, o, l).known
<1>1. NothingSeen \in [Ends -> Objects \cup {None, Unseen}]
  BY DEF NothingSeen
<1>2. (o = "restore" /\ live["window"]) \in BOOLEAN
  OBVIOUS
<1> QED
  BY <1>1, <1>2 DEF NewCall, Calls

(* What Goto does to the fields of a call. *)
LEMMA GotoFields ==
    ASSUME TypeOK, NEW c \in Callers, NEW l \in Pcs, Goto(c, l)
    PROVE  /\ call' \in [Callers -> Calls] /\ \A d \in Callers \ {c} : call'[d] = call[d]
           /\ call'[c].pc = l /\ call'[c].op = call[c].op /\ call'[c].stamp = call[c].stamp
           /\ call'[c].known = call[c].known /\ call'[c].saw = call[c].saw
           /\ call'[c].inTime = call[c].inTime /\ call'[c].result = call[c].result
  BY DEF Goto, TypeOK, Calls

(* What Recover does to the fields of a call. *)
LEMMA RecoverFields ==
    ASSUME TypeOK, NEW c \in Callers, NEW why, Recover(c, why)
    PROVE  /\ call' \in [Callers -> Calls] /\ \A d \in Callers \ {c} : call'[d] = call[d]
           /\ call'[c].pc = "recover" /\ call'[c].op = call[c].op /\ call'[c].stamp = call[c].stamp
           /\ call'[c].known = call[c].known /\ call'[c].saw = NothingSeen
           /\ call'[c].inTime = call[c].inTime /\ call'[c].result = call[c].result
<1>1. NothingSeen \in Views
  BY CallsAre
<1>2. call \in [Callers -> Calls]
  BY DEF TypeOK
<1>3. PICK n \in Views : n = NothingSeen
  BY <1>1
<1>4. PICK l \in Pcs : l = "recover"
  BY DEF Pcs
<1>5. PICK r \in Calls : r = call[c]
  BY <1>2
<1>6. call' = [call EXCEPT ![c] = [r EXCEPT !.pc = l, !.saw = n]]
  BY <1>2, <1>3, <1>4, <1>5 DEF Recover
<1>7. PICK s : s = [r EXCEPT !.pc = l, !.saw = n]
  OBVIOUS
<1>8. /\ s \in Calls /\ s.pc = l /\ s.saw = n /\ s.op = r.op /\ s.stamp = r.stamp
      /\ s.known = r.known /\ s.inTime = r.inTime /\ s.result = r.result
  BY <1>7, CallsAre
<1> QED
  BY <1>2, <1>3, <1>4, <1>5, <1>6, <1>7, <1>8

(* What HaveIntent does to the fields of a call. *)
LEMMA IntentFields ==
    ASSUME TypeOK, NEW c \in Callers, NEW t \in Callers, HaveIntent(c, t)
    PROVE  /\ call' \in [Callers -> Calls] /\ \A d \in Callers \ {c} : call'[d] = call[d]
           /\ call'[c].pc = (IF Op(c) = "quarantine" THEN "check" ELSE "load")
           /\ call'[c].op = call[c].op /\ call'[c].stamp = t
           /\ call'[c].known = call[c].known /\ call'[c].saw = NothingSeen
           /\ call'[c].inTime = AuthorityLive(Op(c)) /\ call'[c].result = call[c].result
<1>1. NothingSeen \in Views
  BY CallsAre
<1>2. AuthorityLive(Op(c)) \in BOOLEAN
  BY DEF AuthorityLive, TypeOK, Authorities
<1>3. PICK i \in BOOLEAN : i = AuthorityLive(Op(c))
  BY <1>2
<1>4. PICK l \in Pcs : l = IF Op(c) = "quarantine" THEN "check" ELSE "load"
  BY DEF Pcs
<1>5. call \in [Callers -> Calls]
  BY DEF TypeOK
<1>6. PICK n \in Views : n = NothingSeen
  BY <1>1
<1>7. PICK r \in Calls : r = call[c]
  BY <1>5
<1>8. call' = [call EXCEPT ![c] = [r EXCEPT !.pc = l, !.stamp = t, !.saw = n, !.inTime = i]]
  BY <1>3, <1>4, <1>5, <1>6, <1>7 DEF HaveIntent
<1>9. PICK s : s = [r EXCEPT !.pc = l, !.stamp = t, !.saw = n, !.inTime = i]
  OBVIOUS
<1>10. /\ s \in Calls /\ s.pc = l /\ s.saw = n /\ s.op = r.op /\ s.stamp = t
       /\ s.known = r.known /\ s.inTime = i /\ s.result = r.result
  BY <1>9, CallsAre
<1> QED
  BY <1>3, <1>4, <1>5, <1>6, <1>7, <1>8, <1>9, <1>10

(* What Fail does to the fields of a call. *)
LEMMA FailFields ==
    ASSUME TypeOK, NEW c \in Callers, NEW r, Fail(c, r)
    PROVE  /\ call' \in [Callers -> Calls] /\ \A d \in Callers \ {c} : call'[d] = call[d]
           /\ call'[c].pc = "done" /\ call'[c].result = (IF r = "conflict" THEN "conflict" ELSE "failed")
<1>1. PICK n \in Calls : n = NewCall(c, "quarantine", "done") /\ n.pc = "done"
  BY NewCallFields DEF Ops, Pcs
<1>2. PICK x \in {"failed", "conflict", "receipt"} : x = IF r = "conflict" THEN "conflict" ELSE "failed"
  OBVIOUS
<1>3. call' = [call EXCEPT ![c] = [n EXCEPT !.result = x]]
  BY <1>1, <1>2 DEF Fail
<1> QED
  BY <1>1, <1>2, <1>3 DEF TypeOK, Calls

(* What ReturnReceipt does to the fields of a call. *)
LEMMA ReturnFields ==
    ASSUME TypeOK, NEW c \in Callers, NEW t \in Callers, ReturnReceipt(c, t)
    PROVE  /\ call' \in [Callers -> Calls] /\ \A d \in Callers \ {c} : call'[d] = call[d]
           /\ call'[c].pc = "done" /\ call'[c].result = "receipt" /\ call'[c].stamp = t
           /\ call'[c].op = call[c].op
<1>1. PICK n \in Calls : n = NewCall(c, Op(c), "done") /\ n.pc = "done" /\ n.op = Op(c)
  BY CallFields, NewCallFields DEF Pcs
<1>2. call' = [call EXCEPT ![c] = [n EXCEPT !.result = "receipt", !.stamp = t]]
  BY <1>1 DEF ReturnReceipt
<1> QED
  BY <1>1, <1>2 DEF TypeOK, Calls, Op

-----------------------------------------------------------------------------
(* Frames. *)

(* A call relies on nothing that another call or a user can take from it.  *)
LEMMA OtherCall ==
    ASSUME TypeOK, NEW d \in Callers, CallInv(d), call'[d] = call[d], snap' = snap,
           moved \subseteq moved', faithful \subseteq faithful',
           \A o \in Ops : Complete(intent[o]) => intent'[o] = intent[o],
           \A o \in Ops : Complete(receipt[o]) => receipt'[o] = receipt[o],
           \A a \in Authorities : live'[a] => live[a],
           At(d, "fillIntent") => intent'[Op(d)] = intent[Op(d)]
    PROVE  CallInv(d)'
<1>0. Op(d) \in Ops /\ Op(d)' = Op(d)
  BY CallFields DEF Op
<1>1. Stamped(d) => Stamped(d)'
  BY <1>0 DEF Stamped, Complete, Op
<1>2. Receipted(d) => Receipted(d)'
  BY <1>0 DEF Receipted, Complete, Op
<1>3. ~AuthorityLive(Op(d)) => ~AuthorityLive(Op(d))'
  BY <1>0 DEF AuthorityLive, Authorities
<1>4. DoneInv(d) => DoneInv(d)'
  BY <1>2 DEF DoneInv
<1>5. RunInv(d) => RunInv(d)'
  BY <1>0, <1>1 DEF RunInv, Saw, SameIdentity
<1>6. PlaceInv(d, call[d].pc) => PlaceInv(d, call[d].pc)'
  <2>1. call[d].pc = "fillIntent" => Intent(d)' = Intent(d)
    BY <1>0 DEF Intent, At
  <2>2. live'["window"] => live["window"]
    BY DEF Authorities
  <2> HIDE DEF Before
  <2> QED
    BY <1>0, <1>1, <1>2, <1>3, <2>1, <2>2 DEF PlaceInv
<1> QED
  BY <1>4, <1>5, <1>6 DEF CallInv, At

(* A step that only looks changes one call. *)
LEMMA Looking ==
    ASSUME Inv, NEW c \in Callers, Looks, call' \in [Callers -> Calls],
           \A d \in Callers \ {c} : call'[d] = call[d],
           call'[c].pc # "fillIntent", CallInv(c)'
    PROVE  Inv'
<1> USE DEF Inv, Looks, disk, plan, bounds, past
<1>1. TypeOK'
  BY DEF TypeOK
<1>2. WorldInv'
  BY DEF WorldInv, FreshInv, TraceInv, Good, SameIdentity, SameTree
<1>3. RecordInv'
  BY DEF RecordInv, Complete
<1>4. WriterInv'
  BY DEF WriterInv, At, Op
<1>5. ASSUME NEW d \in Callers PROVE CallInv(d)'
  BY OtherCall, <1>5
<1> QED
  BY <1>1, <1>2, <1>3, <1>4, <1>5

(* A call may always fail. *)
LEMMA LookFail ==
    ASSUME Inv, NEW c \in Callers, NEW r, Looks, Fail(c, r), r # "conflict" PROVE Inv'
<1>1. CallInv(c)' /\ call'[c].pc # "fillIntent"
  BY FailFields DEF Inv, CallInv, DoneInv, At
<1> QED
  BY <1>1, FailFields, Looking DEF Inv

(* A call may return the receipt that is on disk. *)
LEMMA LookReturn ==
    ASSUME Inv, NEW c \in Callers, NEW t, Looks, ReturnReceipt(c, t), Complete(t), t = Receipt(c)
    PROVE  Inv'
<1>0. t \in Callers
  BY DEF Complete
<1>1. CallInv(c)' /\ call'[c].pc # "fillIntent"
  BY <1>0, ReturnFields DEF Inv, CallInv, DoneInv, At, Receipted, Op, Receipt, Looks, disk
<1> QED
  BY <1>0, <1>1, ReturnFields, Looking DEF Inv

(* A call may go where it knows what the place demands. *)
LEMMA LookGoto ==
    ASSUME Inv, NEW c \in Callers, ~At(c, "done"), Looks,
           NEW l \in Pcs, l \notin {"done", "fillIntent"}, Goto(c, l), PlaceInv(c, l)
    PROVE  Inv'
<1> USE DEF Looks, disk, plan, past
<1>1. /\ call'[c].pc = l /\ call'[c].op = call[c].op /\ call'[c].stamp = call[c].stamp
      /\ call'[c].known = call[c].known /\ call'[c].saw = call[c].saw
      /\ call'[c].inTime = call[c].inTime /\ call'[c].result = call[c].result
  BY GotoFields DEF Inv
<1>2. RunInv(c)'
  BY <1>1 DEF Inv, CallInv, RunInv, Op, Saw, Stamped, SameIdentity
<1>3. PlaceInv(c, l)'
  BY <1>1 DEF PlaceInv, Op, Stamped, Receipted, Intent, AuthorityLive
<1>4. CallInv(c)'
  BY <1>1, <1>2, <1>3 DEF CallInv, At
<1> QED
  BY <1>1, <1>4, GotoFields, Looking DEF Inv

(* A call may turn to recovery once its intent is durable. *)
LEMMA LookRecover ==
    ASSUME Inv, NEW c \in Callers, ~At(c, "done"), Looks, NEW r, Recover(c, r), Stamped(c)
    PROVE  Inv'
<1> USE DEF Looks, disk, plan, past
<1>1. /\ call'[c].pc = "recover" /\ call'[c].op = call[c].op /\ call'[c].stamp = call[c].stamp
      /\ call'[c].known = call[c].known /\ call'[c].saw = NothingSeen
      /\ call'[c].inTime = call[c].inTime /\ call'[c].result = call[c].result
  BY RecoverFields DEF Inv
<1>2. call'[c].saw["from"] = Unseen /\ call'[c].saw["to"] = Unseen
  BY <1>1 DEF NothingSeen, Ends
<1>3. RunInv(c)'
  BY <1>1, <1>2 DEF Inv, CallInv, RunInv, Op, Saw, Stamped
<1>4. PlaceInv(c, "recover")'
  BY <1>1 DEF PlaceInv, Op, Stamped, After, Seen, Sure, Unread
<1>5. CallInv(c)'
  BY <1>1, <1>3, <1>4 DEF CallInv, At
<1> QED
  BY <1>1, <1>5, RecoverFields, Looking DEF Inv

(* What the intent holds when the call has it, in the next state. *)
LEMMA IntentInv ==
    ASSUME Inv, NEW c \in Callers, ~At(c, "done"), NEW t \in Callers, HaveIntent(c, t),
           intent'[Op(c)] = t, UNCHANGED <<receipt, plan, live, past>>
    PROVE  CallInv(c)' /\ call'[c].pc # "fillIntent"
<1> USE DEF plan, past
<1>1. /\ call'[c].pc = (IF Op(c) = "quarantine" THEN "check" ELSE "load")
      /\ call'[c].op = call[c].op /\ call'[c].stamp = t
      /\ call'[c].known = call[c].known /\ call'[c].saw = NothingSeen
      /\ call'[c].inTime = AuthorityLive(Op(c)) /\ call'[c].result = call[c].result
  BY IntentFields DEF Inv
<1>2. call'[c].saw["from"] = Unseen /\ call'[c].saw["to"] = Unseen
  BY <1>1 DEF NothingSeen, Ends
<1>3. Stamped(c)'
  BY <1>1 DEF Stamped, Complete, Op
<1>4. RunInv(c)'
  BY <1>1, <1>2, <1>3 DEF Inv, CallInv, RunInv, Op, Saw
<1>5. Op(c) \in {"quarantine", "restore"}
  BY CallFields DEF Inv, Ops
<1>6. AuthorityLive(Op(c))' = AuthorityLive(Op(c)) /\ Op(c)' = Op(c)
  BY <1>1 DEF AuthorityLive, Op
<1>7. PlaceInv(c, "check")' \/ Op(c) # "quarantine"
  BY <1>1, <1>3, <1>6 DEF PlaceInv, After, Seen, Sure, Unread
<1>8. PlaceInv(c, "load")' \/ Op(c) # "restore"
  BY <1>1, <1>3, <1>6 DEF PlaceInv, After, Seen, Sure, Unread
<1> QED
  BY <1>1, <1>4, <1>5, <1>7, <1>8 DEF CallInv, At

(* A call may go on to the move boundary with the intent on disk. *)
LEMMA LookIntent ==
    ASSUME Inv, NEW c \in Callers, ~At(c, "done"), Looks, NEW t, HaveIntent(c, t), Complete(t),
           t = Intent(c)
    PROVE  Inv'
<1>0. t \in Callers
  BY DEF Complete
<1>1. CallInv(c)' /\ call'[c].pc # "fillIntent"
  BY <1>0, IntentInv DEF Looks, disk, Intent
<1> QED
  BY <1>0, <1>1, IntentFields, Looking DEF Inv

-----------------------------------------------------------------------------
(* The steps that only look. *)
LEMMA Running ==
    ASSUME Inv, NEW c \in Callers, ~At(c, "done")
    PROVE  /\ RunInv(c) /\ PlaceInv(c, call[c].pc) /\ snap # None /\ snap \in Objects
           /\ Op(c) \in {"quarantine", "restore"} /\ TraceInv
           /\ (Op(c) = "restore" => "quarantine" \in faithful)
<1>1. RunInv(c) /\ PlaceInv(c, call[c].pc)
  BY DEF Inv, CallInv
<1>2. Op(c) \in {"quarantine", "restore"}
  BY CallFields DEF Inv, Ops
<1> QED
  BY <1>1, <1>2 DEF RunInv, Inv, TypeOK, WorldInv

(* Nothing is known at these places but what was read of the intent. *)
Plain == {"readReceipt", "window", "observe", "readIntent", "digestFrom", "lstatTo", "createIntent",
          "rereadIntent"}
(* Places that demand nothing. *)
LEMMA PlainPlace ==
    ASSUME NEW c, NEW l \in Plain, l \in Unread => ~call[c].known
    PROVE  PlaceInv(c, l) /\ l \in Pcs /\ l \notin {"done", "fillIntent"}
<1>1. l \notin Intended /\ l \notin After /\ l \notin Seen /\ l \notin Sure
  BY DEF Plain, Intended, Before, After, Seen, Sure
<1>2. /\ l \notin {"check", "lstatAgain", "authoriseAgain", "load", "boundary", "refused", "digest"}
      /\ l \notin {"mover", "rename", "replay", "replayDigest", "fillIntent", "done"}
  BY DEF Plain
<1>3. l \in Pcs
  BY DEF Plain, Pcs
<1> QED
  BY <1>1, <1>2, <1>3 DEF PlaceInv

(* The checks at the beginning of a call. *)
LEMMA InvAuthorise == ASSUME Inv, NEW c \in Callers, Authorise(c) \/ CheckWindow(c) PROVE Inv'
<1>0. Looks /\ ~At(c, "done") /\ ~call[c].known
  BY Running DEF Authorise, CheckWindow, At, PlaceInv, Unread
<1>1. CASE \E r \in {"expired"} : Fail(c, r)
  BY <1>0, <1>1, LookFail
<1>2. CASE \E l \in {"readReceipt", "observe"} : Goto(c, l)
  <2>1. PICK l \in {"readReceipt", "observe"} : Goto(c, l)
    BY <1>2
  <2>2. l \in Plain
    BY DEF Plain
  <2> QED
    BY <1>0, <2>1, <2>2, PlainPlace, LookGoto
<1> QED
  BY <1>1, <1>2 DEF Authorise, CheckWindow

(* The receipt is looked up. *)
LEMMA InvReadReceipt == ASSUME Inv, NEW c \in Callers, ReadReceipt(c) PROVE Inv'
<1>0. Looks /\ ~At(c, "done") /\ ~call[c].known
  BY Running DEF ReadReceipt, At, PlaceInv, Unread
<1>1. CASE Fail(c, "unreadable")
  BY <1>0, <1>1, LookFail
<1>2. CASE \E l \in {"readIntent", "window"} : Goto(c, l)
  <2>1. PICK l \in {"readIntent", "window"} : Goto(c, l)
    BY <1>2
  <2>2. l \in Plain
    BY DEF Plain
  <2> QED
    BY <1>0, <2>1, <2>2, PlainPlace, LookGoto
<1>3. CASE Complete(Receipt(c)) /\ ReturnReceipt(c, Receipt(c))
  BY <1>0, <1>3, LookReturn
<1>4. CASE /\ Complete(Receipt(c))
           /\ call' = [call EXCEPT ![c] = [@ EXCEPT !.pc = "replay", !.stamp = Receipt(c)]]
  <2>1. PICK t \in Callers : t = Receipt(c)
    BY <1>4 DEF Complete
  <2>2. PICK l \in Pcs : l = "replay"
    BY DEF Pcs
  <2>3. PICK r \in Calls : r = call[c]
    BY CallFields DEF Inv
  <2>4. PICK s : s = [r EXCEPT !.pc = l, !.stamp = t]
    OBVIOUS
  <2>5. /\ s \in Calls /\ s.pc = l /\ s.saw = r.saw /\ s.op = r.op /\ s.stamp = t
        /\ s.known = r.known /\ s.result = r.result
    BY <2>4, CallsAre
  <2>6. call \in [Callers -> Calls]
    BY DEF Inv, TypeOK
  <2>7. call' \in [Callers -> Calls] /\ call'[c] = s /\ \A d \in Callers \ {c} : call'[d] = call[d]
    BY <1>4, <2>1, <2>2, <2>3, <2>4, <2>5, <2>6
  <2>8. RunInv(c)'
    BY <1>0, <2>3, <2>5, <2>7, Running DEF RunInv, Op, Saw, SameIdentity, Looks, plan, past
  <2>9. PlaceInv(c, "replay")'
    <3>1. Receipted(c)'
      BY <1>0, <2>1, <2>3, <2>5, <2>7 DEF Receipted, Receipt, Complete, Op, Looks, disk
    <3>2. "replay" \notin Intended /\ "replay" \notin After /\ "replay" \notin Seen /\ "replay" \notin Sure
      BY DEF Intended, Before, After, Seen, Sure
    <3>3. ~call'[c].known
      BY <1>0, <2>3, <2>5, <2>7
    <3> QED
      BY <3>1, <3>2, <3>3 DEF PlaceInv
  <2>10. CallInv(c)' /\ call'[c].pc # "fillIntent"
    BY <2>2, <2>5, <2>7, <2>8, <2>9 DEF CallInv, At
  <2> QED
    BY <1>0, <2>7, <2>10, Looking
<1> QED
  BY <1>1, <1>2, <1>3, <1>4 DEF ReadReceipt

(* What is observed has a cause: only the mover empties a place, and the   *)
(* object of the snapshot is where it has been moved to.                   *)
LEMMA EmptySource ==
    ASSUME Inv, NEW c \in Callers, ~At(c, "done"), Source(c) = None
    PROVE  Op(c) \in moved
<1>1. faithful \subseteq moved
  BY DEF Inv, TypeOK
<1> QED
  BY <1>1, Running DEF TraceInv, Source, Place

(* The object of the snapshot at the target has been moved there faithfully. *)
LEMMA GoodTarget ==
    ASSUME Inv, NEW c \in Callers, ~At(c, "done"), snap.ino = "skill", Good(Target(c))
    PROVE  Op(c) \in faithful
  BY Running DEF TraceInv, Target, Place

(* A skill that was edited before the preflight is known by its identity. *)
LEMMA SkillTarget ==
    ASSUME Inv, NEW c \in Callers, ~At(c, "done"), snap.tree = "edited", snap.ino = "skill",
           SameIdentity(Target(c))
    PROVE  Op(c) \in faithful
<1>1. Place(Op(c), "to") \in Places
  BY QuarantineAssumption DEF Inv, TypeOK, Place, Places, Original
<1>2. SameTree(Target(c))
  BY <1>1, Running DEF TraceInv, Target, SameIdentity, SameTree
<1> QED
  BY <1>2, GoodTarget DEF Good

(* A call looks at one end of the move; what it saw moved stays moved. *)
LEMMA InvObserve == ASSUME Inv, NEW c \in Callers, NEW e \in Ends, Observe(c, e) PROVE Inv'
<1>0. Looks /\ ~At(c, "done") /\ call[c].pc # "fillIntent"
  BY DEF Observe, At
<1>1. PICK v \in Objects \cup {None, Unseen} : v = at[Place(Op(c), e)]
  BY QuarantineAssumption DEF Inv, TypeOK, Place, Places, Original
<1>2. PICK r \in Calls : r = call[c]
  BY CallFields DEF Inv
<1>3. PICK n \in Views : n = [r.saw EXCEPT ![e] = v] /\ n[e] = v /\ \A d \in Ends \ {e} : n[d] = r.saw[d]
  <2>1. r.saw \in Views
    BY CallsAre
  <2>2. [r.saw EXCEPT ![e] = v] \in Views
    BY <2>1 DEF Views
  <2> QED
    BY <2>1, <2>2 DEF Views
<1>4. PICK s : s = [r EXCEPT !.saw = n]
  OBVIOUS
<1>5. /\ s \in Calls /\ s.pc = r.pc /\ s.saw = n /\ s.op = r.op /\ s.stamp = r.stamp
      /\ s.known = r.known /\ s.inTime = r.inTime /\ s.result = r.result
  BY <1>4, CallsAre
<1>6. call \in [Callers -> Calls]
  BY DEF Inv, TypeOK
<1>7. call' = [call EXCEPT ![c] = s]
  BY <1>1, <1>2, <1>3, <1>4, <1>6, CallsAre DEF Observe
<1>8. call' \in [Callers -> Calls] /\ call'[c] = s /\ \A d \in Callers \ {c} : call'[d] = call[d]
  BY <1>5, <1>6, <1>7
<1>9. Stamped(c)' = Stamped(c) /\ Receipted(c)' = Receipted(c) /\ Op(c)' = Op(c)
  BY <1>0, <1>2, <1>5, <1>8 DEF Stamped, Receipted, Op, Looks, disk
<1>10. PlaceInv(c, call[c].pc)'
  BY <1>0, <1>2, <1>5, <1>8, <1>9, Running DEF PlaceInv, Looks, disk, plan, past, AuthorityLive, Op, Intent
<1>11. RunInv(c)'
  <2>1. /\ e = "from" => v = Source(c)
        /\ e = "to" => v = Target(c)
    BY <1>1 DEF Source, Target
  <2>2. /\ e = "from" => Saw(c, "from")' = v /\ Saw(c, "to")' = Saw(c, "to")
        /\ e = "to" => Saw(c, "to")' = v /\ Saw(c, "from")' = Saw(c, "from")
    BY <1>2, <1>3, <1>5, <1>8 DEF Saw, Ends
  <2>3. RunInv(c) /\ snap' = snap
    BY <1>0, Running DEF Looks, plan
  <2>4. ASSUME Saw(c, "from")' # Unseen, Saw(c, "from")' = None PROVE Op(c) \in moved
    <3>1. CASE e = "from"
      BY <1>0, <2>1, <2>2, <2>4, <3>1, EmptySource
    <3>2. CASE e = "to"
      BY <2>2, <2>3, <2>4, <3>2 DEF RunInv
    <3> QED
      BY <3>1, <3>2 DEF Ends
  <2>5. ASSUME snap.ino = "skill", snap.tree = "edited", Saw(c, "to")' # Unseen,
               SameIdentity(Saw(c, "to"))'
        PROVE  Op(c) \in faithful
    <3>1. CASE e = "to"
      <4>1. SameIdentity(Target(c))
        BY <2>1, <2>2, <2>3, <2>5, <3>1 DEF SameIdentity
      <4> QED
        BY <1>0, <2>5, <4>1, SkillTarget
    <3>2. CASE e = "from"
      <4>1. SameIdentity(Saw(c, "to")) /\ Saw(c, "to") # Unseen
        BY <2>2, <2>3, <2>5, <3>2 DEF SameIdentity
      <4> QED
        BY <2>3, <2>5, <4>1 DEF RunInv
    <3> QED
      BY <3>1, <3>2 DEF Ends
  <2> QED
    BY <1>0, <1>2, <1>5, <1>8, <1>9, <2>4, <2>5, Running DEF RunInv, Looks, plan, past
<1>12. CallInv(c)'
  BY <1>0, <1>2, <1>5, <1>8, <1>10, <1>11 DEF CallInv, At
<1> QED
  BY <1>0, <1>2, <1>5, <1>8, <1>12, Looking

(* A restore that has its receipt replays it, or goes on to its intent. *)
LEMMA InvReplay ==
    ASSUME Inv, NEW c \in Callers, ReplayObserved(c) \/ ReplayDigest(c) \/ RestoreObserved(c)
    PROVE  Inv'
<1>0. Looks /\ ~At(c, "done") /\ ~call[c].known
  BY Running DEF ReplayObserved, ReplayDigest, RestoreObserved, At, PlaceInv, Unread
<1>1. CASE \E r \in {"inconsistent", "mismatch"} : Fail(c, r)
  BY <1>0, <1>1, LookFail
<1>2. CASE RestoreObserved(c)
  <2>1. "readIntent" \in Plain
    BY DEF Plain
  <2> QED
    BY <1>0, <1>2, <2>1, PlainPlace, LookGoto DEF RestoreObserved
<1>3. CASE At(c, "replay") /\ Goto(c, "replayDigest")
  <2>1. Receipted(c)
    BY <1>0, <1>3, Running DEF PlaceInv, At
  <2>2. PlaceInv(c, "replayDigest")
    BY <1>0, <2>1 DEF PlaceInv, Intended, Before, After, Seen, Sure
  <2> QED
    BY <1>0, <1>3, <2>2, LookGoto DEF Pcs
<1>4. CASE At(c, "replayDigest") /\ ReturnReceipt(c, call[c].stamp)
  <2>1. Receipted(c)
    BY <1>0, <1>4, Running DEF PlaceInv, At
  <2> QED
    BY <1>0, <1>4, <2>1, LookReturn DEF Receipted, Receipt
<1> QED
  BY <1>1, <1>2, <1>3, <1>4 DEF ReplayObserved, ReplayDigest

(* The intent is looked up. *)
LEMMA InvReadIntent == ASSUME Inv, NEW c \in Callers, ReadIntent(c) PROVE Inv'
<1>0. Looks /\ ~At(c, "done")
  BY DEF ReadIntent, At
<1>1. CASE Fail(c, "unreadable")
  BY <1>0, <1>1, LookFail
<1>2. CASE ~Fail(c, "unreadable")
  <2>1. PICK r \in Calls : r = call[c] /\ r.stamp \in Callers
    BY CallFields DEF Inv
  <2>2. PICK l \in {"lstat", "decide"} : l = IF Op(c) = "quarantine" THEN "lstat" ELSE "decide"
    OBVIOUS
  <2>3. PICK k \in BOOLEAN : k = Complete(Intent(c))
    <3>1. Complete(Intent(c)) \in BOOLEAN
      BY DEF Complete
    <3> QED
      BY <3>1
  <2>4. PICK t \in Callers : /\ t = IF Complete(Intent(c)) THEN Intent(c) ELSE r.stamp
                            /\ (k => t = Intent(c))
    BY <2>1, <2>3 DEF Complete
  <2>5. PICK s : s = [r EXCEPT !.pc = l, !.known = k, !.stamp = t]
    OBVIOUS
  <2>6. l \in Pcs
    BY DEF Pcs
  <2>7. /\ s \in Calls /\ s.pc = l /\ s.saw = r.saw /\ s.op = r.op /\ s.stamp = t
        /\ s.known = k /\ s.inTime = r.inTime /\ s.result = r.result
    BY <2>5, <2>6, CallsAre
  <2>8. call \in [Callers -> Calls]
    BY DEF Inv, TypeOK
  <2>9. call' = [call EXCEPT ![c] = s]
    <3>1. s = [call[c] EXCEPT !.pc = IF Op(c) = "quarantine" THEN "lstat" ELSE "decide",
                              !.known = Complete(Intent(c)),
                              !.stamp = IF Complete(Intent(c)) THEN Intent(c) ELSE call[c].stamp]
      BY <2>1, <2>2, <2>3, <2>4, <2>5, CallsAre
    <3> QED
      BY <1>2, <3>1, Zenon DEF ReadIntent
  <2>10. call' \in [Callers -> Calls] /\ call'[c] = s /\ \A d \in Callers \ {c} : call'[d] = call[d]
    BY <2>7, <2>8, <2>9
  <2>11. k => Stamped(c)'
    BY <1>0, <2>1, <2>3, <2>4, <2>7, <2>10 DEF Stamped, Complete, Op, Intent, Looks, disk
  <2>12. RunInv(c)'
    BY <1>0, <2>1, <2>7, <2>10, <2>11, Running DEF RunInv, Op, Saw, SameIdentity, Looks, plan, past
  <2>13. PlaceInv(c, l)'
    BY DEF PlaceInv, Intended, Before, After, Seen, Sure, Unread
  <2>14. CallInv(c)' /\ call'[c].pc # "fillIntent"
    BY <2>7, <2>10, <2>12, <2>13 DEF CallInv, At
  <2> QED
    BY <1>0, <2>10, <2>14, Looking
<1> QED
  BY <1>1, <1>2

(* What a call makes of what it has observed. *)
LEMMA InvRestoreDecides ==
    ASSUME Inv, NEW c \in Callers,
           RestoreDecides(c) \/ RestoreDigest(c) \/ RestoreLstatTo(c) \/ QuarantineDecides(c)
    PROVE  Inv'
<1>0. Looks /\ ~At(c, "done") /\ call[c].pc \in {"decide", "digestFrom", "lstatTo", "lstat"}
  BY DEF RestoreDecides, RestoreDigest, RestoreLstatTo, QuarantineDecides, At
<1>1. CASE \E r \in {"occupied", "inconsistent", "mismatch", "stale"} : Fail(c, r)
  BY <1>0, <1>1, LookFail
<1>2. CASE \E l \in {"digestFrom", "lstatTo", "createIntent"} : Goto(c, l)
  <2>1. PICK l \in {"digestFrom", "lstatTo", "createIntent"} : Goto(c, l)
    BY <1>2
  <2>2. l \in Plain /\ l \notin Unread
    BY DEF Plain, Unread
  <2> QED
    BY <1>0, <2>1, <2>2, PlainPlace, LookGoto
<1>3. call[c].known => Stamped(c)
  BY <1>0, Running DEF RunInv
<1>4. CASE call[c].known /\ Recover(c, "inconsistent")
  BY <1>0, <1>3, <1>4, LookRecover
<1>5. CASE call[c].known /\ HaveIntent(c, call[c].stamp)
  BY <1>0, <1>3, <1>5, LookIntent DEF Stamped, Intent
<1>6. CASE RestoreDecides(c)
  BY <1>1, <1>2, <1>4, <1>6 DEF RestoreDecides
<1>7. CASE RestoreDigest(c) \/ RestoreLstatTo(c)
  BY <1>1, <1>2, <1>5, <1>7 DEF RestoreDigest, RestoreLstatTo
<1>8. CASE QuarantineDecides(c)
  BY <1>1, <1>2, <1>4, <1>5, <1>8 DEF QuarantineDecides
<1> QED
  BY <1>6, <1>7, <1>8

(* A record that another call created is read again. *)
LEMMA InvReread == ASSUME Inv, NEW c \in Callers, RereadIntent(c) \/ RereadReceipt(c) PROVE Inv'
<1>0. Looks /\ ~At(c, "done")
  BY DEF RereadIntent, RereadReceipt, At
<1>1. CASE Fail(c, "unreadable")
  BY <1>0, <1>1, LookFail
<1>2. CASE Complete(Intent(c)) /\ HaveIntent(c, Intent(c))
  BY <1>0, <1>2, LookIntent
<1>3. CASE RereadReceipt(c) /\ Complete(Receipt(c))
  <2>1. Stamped(c) /\ Op(c) \in Ops
    BY <1>0, <1>3, Running, CallFields DEF RereadReceipt, PlaceInv, At, Intended, After, Seen, Sure, Inv
  <2>2. Receipt(c) = call[c].stamp
    BY <1>3, <2>1 DEF Inv, RecordInv, Stamped, Receipt
  <2> QED
    BY <1>0, <1>3, <2>2, LookReturn DEF RereadReceipt
<1> QED
  BY <1>1, <1>2, <1>3 DEF RereadIntent, RereadReceipt

(* The steps between the intent and the rename.                            *)
LEMMA InvBoundary ==
    ASSUME Inv, NEW c \in Callers,
           \/ Check(c) \/ LoadAuthority(c) \/ Boundary(c) \/ DigestBeforeMove(c) \/ LstatAgain(c)
           \/ AuthoriseAgain(c) \/ MoverObserves(c) \/ RenameRefused(c)
    PROVE  Inv'
<1>0. /\ Looks /\ ~At(c, "done") /\ call[c].pc \in Before
      /\ \E l \in Before : At(c, l)
  BY DEF Check, LoadAuthority, Boundary, DigestBeforeMove, LstatAgain, AuthoriseAgain,
     MoverObserves, RenameRefused, At, Before
<1>1. Stamped(c) /\ Op(c) \in {"quarantine", "restore"} /\ PlaceInv(c, call[c].pc)
  BY <1>0, Running DEF PlaceInv, Intended
<1>2. CASE \E r \in {"expired", "unauthorised"} : Fail(c, r)
  BY <1>0, <1>2, LookFail
<1>3. CASE \E r : Recover(c, r)
  BY <1>0, <1>1, <1>3, LookRecover
<1>4. ASSUME NEW l \in Before, Goto(c, l), PlaceInv(c, l) PROVE Inv'
  <2>1. l \in Pcs /\ l \notin {"done", "fillIntent"}
    BY DEF Before, Pcs
  <2> QED
    BY <1>0, <1>4, <2>1, LookGoto
<1>5. \A l \in Before : l \notin Unread /\ l \notin After /\ l \notin Seen /\ l \notin Sure
                        /\ l \notin {"replay", "replayDigest", "fillIntent"}
  BY DEF Before, Unread, After, Seen, Sure
<1>6. CASE Check(c) /\ Goto(c, "digest")
  <2>1. At(c, "check") /\ "digest" \in Before
    BY <1>6 DEF Check, Before
  <2>2. PlaceInv(c, "digest")
    BY <1>1, <1>5, <2>1 DEF PlaceInv, At
  <2> QED
    BY <1>4, <1>6, <2>1, <2>2
<1>7. CASE LoadAuthority(c)
  <2>1. At(c, "load") /\ {"boundary", "refused"} \subseteq Before
    BY <1>7 DEF LoadAuthority, Before
  <2>2. live["hosted"] => PlaceInv(c, "boundary")
    BY <1>1, <1>5, <2>1 DEF PlaceInv, At, AuthorityLive
  <2>3. PlaceInv(c, "refused")
    BY <1>1, <1>5, <2>1 DEF PlaceInv, At
  <2> QED
    BY <1>4, <1>7, <2>1, <2>2, <2>3 DEF LoadAuthority
<1>8. CASE Boundary(c)
  <2>1. /\ At(c, "boundary") /\ live["window"] /\ Goto(c, "digest") => call[c].inTime
        /\ "digest" \in Before
    BY <1>1 DEF PlaceInv, At, Before
  <2>2. At(c, "boundary") /\ live["window"] /\ Goto(c, "digest") => PlaceInv(c, "digest")
    BY <1>1, <1>5, <2>1 DEF PlaceInv, At
  <2> QED
    BY <1>2, <1>4, <1>8, <2>1, <2>2 DEF Boundary
<1>9. CASE DigestBeforeMove(c)
  <2>1. At(c, "digest") /\ {"lstatAgain", "mover"} \subseteq Before
    BY <1>9 DEF DigestBeforeMove, Before
  <2>2. Op(c) = "quarantine" => PlaceInv(c, "lstatAgain")
    BY <1>1, <1>5, <2>1 DEF PlaceInv, At
  <2>3. Op(c) = "restore" => PlaceInv(c, "mover")
    BY <1>1, <1>5, <2>1 DEF PlaceInv, At
  <2> QED
    BY <1>1, <1>3, <1>4, <1>9, <2>1, <2>2, <2>3 DEF DigestBeforeMove
<1>10. CASE LstatAgain(c)
  <2>1. At(c, "lstatAgain") /\ "authoriseAgain" \in Before
    BY <1>10 DEF LstatAgain, Before
  <2>2. PlaceInv(c, "authoriseAgain")
    BY <1>1, <1>5, <2>1 DEF PlaceInv, At
  <2> QED
    BY <1>3, <1>4, <1>10, <2>1, <2>2 DEF LstatAgain
<1>11. CASE AuthoriseAgain(c)
  <2>1. At(c, "authoriseAgain") /\ "mover" \in Before
    BY <1>11 DEF AuthoriseAgain, Before
  <2>2. live["parity"] => call[c].inTime
    BY <1>1, <2>1 DEF PlaceInv, At, AuthorityLive
  <2>3. live["parity"] => PlaceInv(c, "mover")
    BY <1>1, <1>5, <2>1, <2>2 DEF PlaceInv, At
  <2> QED
    BY <1>2, <1>4, <1>11, <2>1, <2>3 DEF AuthoriseAgain
<1>12. CASE MoverObserves(c)
  <2>1. At(c, "mover") /\ "rename" \in Before
    BY <1>12 DEF MoverObserves, Before
  <2>2. PlaceInv(c, "rename")
    BY <1>1, <1>5, <2>1 DEF PlaceInv, At
  <2> QED
    BY <1>3, <1>4, <1>12, <2>1, <2>2 DEF MoverObserves
<1> QED
  BY <1>0, <1>3, <1>6, <1>7, <1>8, <1>9, <1>10, <1>11, <1>12 DEF Check, RenameRefused

(* The steps after the rename, and those of a call that recovers.          *)
LEMMA InvAfterMove ==
    ASSUME Inv, NEW c \in Callers, LstatMoved(c) \/ LstatLeft(c) \/ DigestMoved(c) \/ LstatDigested(c)
    PROVE  Inv'
<1>0. Looks /\ ~At(c, "done") /\ call[c].pc \in After
  BY DEF LstatMoved, LstatLeft, DigestMoved, LstatDigested, At, After, Seen, Sure
<1>1. /\ Stamped(c) /\ Op(c) \in moved /\ PlaceInv(c, call[c].pc) /\ TraceInv /\ snap \in Objects
      /\ (snap.tree = "edited" /\ call[c].pc \in Seen => Op(c) \in faithful)
  BY <1>0, Running DEF PlaceInv, Intended
<1>2. CASE Fail(c, "reconcile")
  BY <1>0, <1>2, LookFail
<1>3. ASSUME NEW l \in After, Goto(c, l), l \in Seen => (snap.tree = "edited" => Op(c) \in faithful),
             l \in Sure => Op(c) \in faithful, l # "fillReceipt"
      PROVE Inv'
  <2>1. l \in Pcs /\ l \notin {"done", "fillIntent"} /\ l \in Intended /\ l \notin Unread
    BY DEF After, Seen, Sure, Pcs, Intended, Unread
  <2>2. /\ l \notin {"check", "lstatAgain", "authoriseAgain", "load", "boundary", "refused", "digest"}
        /\ l \notin {"mover", "rename", "replay", "replayDigest"}
    BY DEF After, Seen, Sure
  <2>3. PlaceInv(c, l)
    BY <1>1, <1>3, <2>1, <2>2 DEF PlaceInv
  <2> QED
    BY <1>0, <1>3, <2>1, <2>3, LookGoto
<1>4. CASE LstatMoved(c) /\ SameIdentity(Target(c)) /\ Goto(c, "lstatLeft")
  <2>1. snap.tree = "edited" => Op(c) \in faithful
    <3>1. snap.ino \in {"skill", "other"}
      BY <1>1 DEF Objects
    <3> QED
      BY <1>0, <1>1, <1>4, <3>1, SkillTarget, Running DEF TraceInv
  <2>2. "lstatLeft" \in After /\ "lstatLeft" \notin Sure
    BY DEF After, Seen, Sure
  <2> QED
    BY <1>3, <1>4, <2>1, <2>2
<1>5. CASE LstatLeft(c) /\ Goto(c, "digestMoved")
  <2>1. "digestMoved" \in After /\ "digestMoved" \notin Sure /\ call[c].pc \in Seen
    BY <1>5 DEF After, Seen, Sure, LstatLeft, At
  <2> QED
    BY <1>1, <1>3, <1>5, <2>1
<1>6. CASE DigestMoved(c) /\ SameTree(Target(c))
  <2>1. call[c].pc \in Seen /\ {"createReceipt", "lstatDigested"} \subseteq After
    BY <1>6 DEF After, Seen, Sure, DigestMoved, At
  <2>2. Op(c) \in faithful
    <3>1. CASE snap.tree = "edited"
      BY <1>1, <2>1, <3>1
    <3>2. CASE snap.tree # "edited"
      <4>1. snap.ino = "skill"
        BY <1>0, <1>1, <3>2, Running DEF TraceInv, Objects
      <4>2. Place(Op(c), "to") \in Places
        BY QuarantineAssumption DEF Inv, TypeOK, Place, Places, Original
      <4>3. Target(c) # None /\ Target(c).tree = snap.tree /\ Target(c) \in Objects
        BY <1>6, <4>2 DEF SameTree, Target, Inv, TypeOK
      <4>4. Target(c).ino # "other"
        BY <3>2, <4>2, <4>3 DEF Inv, WorldInv, Target
      <4>5. Good(Target(c))
        BY <1>6, <4>1, <4>3, <4>4 DEF Good, SameIdentity, Objects
      <4> QED
        BY <1>0, <4>1, <4>5, GoodTarget
    <3> QED
      BY <3>1, <3>2
  <2> QED
    BY <1>2, <1>3, <1>6, <2>1, <2>2 DEF DigestMoved
<1>7. CASE LstatDigested(c) /\ Goto(c, "createReceipt")
  <2>1. "createReceipt" \in After /\ call[c].pc \in Sure
    BY <1>7 DEF After, Seen, Sure, LstatDigested, At
  <2>2. Op(c) \in faithful
    BY <1>1, <2>1 DEF PlaceInv
  <2> QED
    BY <1>3, <1>7, <2>1, <2>2
<1> QED
  BY <1>2, <1>4, <1>5, <1>6, <1>7 DEF LstatMoved, LstatLeft, DigestMoved, LstatDigested

(* A call that recovers has seen the move complete, or has not. *)
LEMMA InvRecovered == ASSUME Inv, NEW c \in Callers, Recovered(c) PROVE Inv'
<1>0. Looks /\ At(c, "recover") /\ ~At(c, "done") /\ Observed(c)
  BY DEF Recovered, At
<1>1. Stamped(c) /\ RunInv(c) /\ TraceInv /\ snap # None /\ snap \in Objects
  BY <1>0, Running DEF PlaceInv, At, Intended
<1>2. CASE \E r \in {"reconcile", "inconsistent"} : Fail(c, r)
  BY <1>0, <1>2, LookFail
<1>3. CASE Recover(c, "again")
  BY <1>0, <1>1, <1>3, LookRecover
<1>4. CASE SawMoved(c) /\ SameIdentity(Saw(c, "to")) /\ Goto(c, "digestRecovered")
  <2>1. Saw(c, "from") # Unseen /\ Saw(c, "from") = None /\ Saw(c, "to") # Unseen
    BY <1>0, <1>4 DEF Observed, SawMoved, Ends
  <2>2. Op(c) \in moved
    BY <1>1, <2>1 DEF RunInv
  <2>3. snap.tree = "edited" => Op(c) \in faithful
    <3>1. snap.ino \in {"skill", "other"}
      BY <1>1 DEF Objects
    <3>2. CASE snap.ino = "skill"
      BY <1>1, <1>4, <2>1, <3>2 DEF RunInv
    <3>3. CASE snap.ino = "other"
      BY <1>1, <2>2, <3>3 DEF TraceInv
    <3> QED
      BY <3>1, <3>2, <3>3
  <2>4. "digestRecovered" \notin Sure /\ "digestRecovered" \notin Unread
    BY DEF Sure, Unread
  <2>5. PlaceInv(c, "digestRecovered")
    BY <1>1, <2>2, <2>3, <2>4 DEF PlaceInv
  <2> QED
    BY <1>0, <1>4, <2>5, LookGoto DEF Pcs
<1> QED
  BY <1>2, <1>3, <1>4 DEF Recovered

-----------------------------------------------------------------------------
(* The steps that write. *)

(* The places a record concerns are the same. *)
LEMMA InvCreateIntent == ASSUME Inv, NEW c \in Callers, CreateIntent(c) PROVE Inv'
<1> USE DEF plan, past, bounds
<1>0. /\ ~At(c, "done") /\ At(c, "createIntent")
      /\ UNCHANGED <<at, receipt, snap, dest, live, edits, aborts, moved, faithful>>
  BY DEF CreateIntent, At
<1>1. CASE Intent(c) # None
  <2>1. UNCHANGED intent /\ Goto(c, "rereadIntent") /\ "rereadIntent" \in Plain
    BY <1>1 DEF CreateIntent, Plain
  <2>2. "rereadIntent" \notin Unread
    BY DEF Unread
  <2> QED
    BY <1>0, <2>1, <2>2, PlainPlace, LookGoto DEF Looks, disk
<1>2. CASE Intent(c) = None
  <2>1. intent' = [intent EXCEPT ![Op(c)] = Torn] /\ Goto(c, "fillIntent") /\ "fillIntent" \in Pcs
    BY <1>2 DEF CreateIntent, Pcs
  <2>2. /\ call' \in [Callers -> Calls] /\ \A d \in Callers \ {c} : call'[d] = call[d]
        /\ call'[c].pc = "fillIntent" /\ call'[c].op = call[c].op /\ call'[c].stamp = call[c].stamp
        /\ call'[c].known = call[c].known /\ call'[c].saw = call[c].saw
        /\ call'[c].result = call[c].result
    BY <2>1, GotoFields DEF Inv
  <2>3. PICK o \in Ops : o = Op(c)
    BY CallFields DEF Inv
  <2>4. /\ ~Complete(None) /\ ~Complete(Torn) /\ None # Torn
    BY QuarantineAssumption DEF Complete
  <2>5. /\ intent \in [Ops -> Callers \cup {None, Torn}] /\ intent[o] = None /\ intent'[o] = Torn
        /\ \A x \in Ops \ {o} : intent'[x] = intent[x]
    BY <1>2, <2>1, <2>3 DEF Inv, TypeOK, Intent
  <2>6. TypeOK'
    BY <1>0, <2>1, <2>2, <2>5 DEF Inv, TypeOK
  <2>7. snap # None
    BY <1>0, Running
  <2>8. WorldInv'
    BY <1>0, <2>7 DEF Inv, WorldInv, FreshInv, TraceInv, Good, SameIdentity, SameTree
  <2>9. RecordInv'
    BY <1>0, <2>4, <2>5 DEF Inv, RecordInv, Complete
  <2>10. ASSUME NEW d \in Callers, At(d, "fillIntent") PROVE Op(d) # o
    <3>1. Intent(d) = Torn
      BY <2>10, Running DEF At, PlaceInv
    <3> QED
      BY <2>4, <2>5, <3>1 DEF Intent
  <2>11. WriterInv'
    BY <2>2, <2>3, <2>10 DEF Inv, WriterInv, At, Op
  <2>12. ~call[c].known
    BY <1>0, <2>3, <2>4, <2>5, Running DEF RunInv, Stamped
  <2>13. CallInv(c)'
    <3>1. RunInv(c)'
      BY <1>0, <2>2, <2>12, Running DEF RunInv, Op, Saw, SameIdentity
    <3>2. PlaceInv(c, "fillIntent")'
      BY <2>2, <2>3, <2>5 DEF PlaceInv, Op, Intent, Intended, Before, After, Seen, Sure, Unread
    <3> QED
      BY <2>2, <3>1, <3>2 DEF CallInv, At
  <2>14. ASSUME NEW d \in Callers \ {c} PROVE CallInv(d)'
    <3>1. At(d, "fillIntent") => intent'[Op(d)] = intent[Op(d)]
      BY <2>5, <2>10, CallFields DEF Inv
    <3>2. \A x \in Ops : Complete(intent[x]) => intent'[x] = intent[x]
      BY <2>4, <2>5
    <3> QED
      BY <1>0, <2>2, <3>1, <3>2, OtherCall DEF Inv
  <2> QED
    BY <2>6, <2>8, <2>9, <2>11, <2>13, <2>14 DEF Inv
<1> QED
  BY <1>1, <1>2

(* The intent is written by the call that created it. *)
LEMMA InvFillIntent == ASSUME Inv, NEW c \in Callers, FillIntent(c) PROVE Inv'
<1> USE DEF plan, past, bounds
<1>0. /\ ~At(c, "done") /\ At(c, "fillIntent") /\ HaveIntent(c, call[c].stamp)
      /\ UNCHANGED <<at, receipt, snap, dest, live, edits, aborts, moved, faithful>>
      /\ intent' = [intent EXCEPT ![Op(c)] = call[c].stamp]
  BY DEF FillIntent, At
<1>1. PICK o \in Ops : o = Op(c)
  BY CallFields DEF Inv
<1>2. PICK t \in Callers : t = call[c].stamp
  BY CallFields DEF Inv
<1>3. intent[o] = Torn /\ ~Complete(Torn)
  BY <1>0, <1>1, Running, QuarantineAssumption DEF PlaceInv, At, Intent, Complete
<1>4. /\ intent \in [Ops -> Callers \cup {None, Torn}] /\ intent'[o] = t
      /\ \A x \in Ops \ {o} : intent'[x] = intent[x]
  BY <1>0, <1>1, <1>2 DEF Inv, TypeOK
<1>5. call' \in [Callers -> Calls] /\ \A d \in Callers \ {c} : call'[d] = call[d]
  BY <1>0, <1>2, IntentFields DEF Inv
<1>6. CallInv(c)' /\ call'[c].pc # "fillIntent"
  BY <1>0, <1>1, <1>2, <1>4, IntentInv
<1>7. TypeOK'
  BY <1>0, <1>2, <1>4, <1>5 DEF Inv, TypeOK
<1>8. snap # None
  BY <1>0, Running
<1>9. WorldInv'
  BY <1>0, <1>8 DEF Inv, WorldInv, FreshInv, TraceInv, Good, SameIdentity, SameTree
<1>10. RecordInv'
  BY <1>0, <1>2, <1>3, <1>4 DEF Inv, RecordInv, Complete
<1>11. WriterInv'
  BY <1>5, <1>6 DEF Inv, WriterInv, At, Op
<1>12. ASSUME NEW d \in Callers \ {c} PROVE CallInv(d)'
  <2>1. At(d, "fillIntent") => intent'[Op(d)] = intent[Op(d)]
    BY <1>0, <1>1, <1>4, CallFields DEF Inv, WriterInv
  <2>2. \A x \in Ops : Complete(intent[x]) => intent'[x] = intent[x]
    BY <1>3, <1>4
  <2> QED
    BY <1>0, <1>5, <2>1, <2>2, OtherCall DEF Inv
<1> QED
  BY <1>6, <1>7, <1>9, <1>10, <1>11, <1>12 DEF Inv

(* The receipt is created. *)
LEMMA InvCreateReceipt == ASSUME Inv, NEW c \in Callers, CreateReceipt(c) PROVE Inv'
<1> USE DEF plan, past, bounds
<1>0. /\ ~At(c, "done") /\ At(c, "createReceipt")
      /\ UNCHANGED <<at, intent, snap, dest, live, edits, aborts, moved, faithful>>
  BY DEF CreateReceipt, At
<1>1. PICK o \in Ops : o = Op(c)
  BY CallFields DEF Inv
<1>2. PICK l \in {"fillReceipt", "rereadReceipt"} :
         /\ Goto(c, l)
         /\ \/ UNCHANGED receipt
            \/ receipt[o] = None /\ receipt' = [receipt EXCEPT ![o] = Torn]
  BY <1>1 DEF CreateReceipt, Receipt
<1>3. l \in Pcs /\ l \in Sure /\ l \in Seen /\ l \in After /\ l \in Intended /\ l \notin Unread
  BY DEF Pcs, Sure, Seen, After, Intended, Unread
<1>4. /\ call' \in [Callers -> Calls] /\ \A d \in Callers \ {c} : call'[d] = call[d]
      /\ call'[c].pc = l /\ call'[c].op = call[c].op /\ call'[c].stamp = call[c].stamp
      /\ call'[c].known = call[c].known /\ call'[c].saw = call[c].saw
      /\ call'[c].result = call[c].result
  BY <1>2, <1>3, GotoFields DEF Inv
<1>5. ~Complete(None) /\ ~Complete(Torn)
  BY QuarantineAssumption DEF Complete
<1>6. /\ receipt' \in [Ops -> Callers \cup {None, Torn}]
      /\ \A x \in Ops : /\ Complete(receipt[x]) => receipt'[x] = receipt[x]
                        /\ Complete(receipt'[x]) => receipt'[x] = receipt[x]
  BY <1>2, <1>5 DEF Inv, TypeOK
<1>7. TypeOK'
  BY <1>0, <1>4, <1>6 DEF Inv, TypeOK
<1>8. WorldInv'
  BY <1>0, Running DEF Inv, WorldInv, FreshInv, TraceInv, Good, SameIdentity, SameTree
<1>9. RecordInv'
  BY <1>0, <1>6 DEF Inv, RecordInv, Complete
<1>10. WriterInv'
  BY <1>4 DEF Inv, WriterInv, At, Op
<1>11. CallInv(c)'
  <2>1. Stamped(c) /\ Op(c) \in moved /\ Op(c) \in faithful
    BY <1>0, Running DEF PlaceInv, At, Intended, After, Seen, Sure
  <2>2. Stamped(c)' /\ Op(c)' \in moved' /\ Op(c)' \in faithful'
    BY <1>0, <1>4, <2>1 DEF Stamped, Op
  <2>3. RunInv(c)'
    BY <1>0, <1>4, <2>2, Running DEF RunInv, Op, Saw, SameIdentity
  <2>4. PlaceInv(c, l)'
    BY <1>3, <2>2 DEF PlaceInv
  <2> QED
    BY <1>4, <2>3, <2>4 DEF CallInv, At
<1>12. ASSUME NEW d \in Callers \ {c} PROVE CallInv(d)'
  BY <1>0, <1>4, <1>6, OtherCall DEF Inv
<1> QED
  BY <1>7, <1>8, <1>9, <1>10, <1>11, <1>12 DEF Inv

(* Whoever writes the receipt writes the time of the intent. *)
LEMMA InvFillReceipt == ASSUME Inv, NEW c \in Callers, FillReceipt(c) PROVE Inv'
<1> USE DEF plan, past, bounds
<1>0. /\ ~At(c, "done") /\ At(c, "fillReceipt") /\ ReturnReceipt(c, call[c].stamp)
      /\ UNCHANGED <<at, intent, snap, dest, live, edits, aborts, moved, faithful>>
      /\ receipt' = [receipt EXCEPT ![Op(c)] = call[c].stamp]
  BY DEF FillReceipt, At
<1>1. PICK o \in Ops : o = Op(c)
  BY CallFields DEF Inv
<1>2. PICK t \in Callers : t = call[c].stamp
  BY CallFields DEF Inv
<1>3. t = intent[o] /\ o \in faithful
  BY <1>0, <1>1, <1>2, Running DEF PlaceInv, At, Stamped, Intended, After, Seen, Sure
<1>4. /\ receipt' \in [Ops -> Callers \cup {None, Torn}] /\ receipt'[o] = t
      /\ \A x \in Ops \ {o} : receipt'[x] = receipt[x]
  BY <1>0, <1>1, <1>2 DEF Inv, TypeOK
<1>5. /\ call' \in [Callers -> Calls] /\ \A d \in Callers \ {c} : call'[d] = call[d]
      /\ call'[c].pc = "done" /\ call'[c].result = "receipt" /\ call'[c].stamp = t
      /\ call'[c].op = call[c].op
  BY <1>0, <1>2, ReturnFields DEF Inv
<1>6. TypeOK'
  BY <1>0, <1>4, <1>5 DEF Inv, TypeOK
<1>7. WorldInv'
  BY <1>0, Running DEF Inv, WorldInv, FreshInv, TraceInv, Good, SameIdentity, SameTree
<1>8. RecordInv'
  BY <1>0, <1>3, <1>4 DEF Inv, RecordInv, Complete
<1>9. WriterInv'
  BY <1>5 DEF Inv, WriterInv, At, Op
<1>10. CallInv(c)'
  BY <1>1, <1>4, <1>5 DEF CallInv, At, DoneInv, Receipted, Complete, Op
<1>11. ASSUME NEW d \in Callers \ {c} PROVE CallInv(d)'
  <2>1. \A x \in Ops : Complete(receipt[x]) => receipt'[x] = receipt[x]
    BY <1>3, <1>4 DEF Inv, RecordInv
  <2> QED
    BY <1>0, <1>5, <2>1, OtherCall DEF Inv
<1> QED
  BY <1>6, <1>7, <1>8, <1>9, <1>10, <1>11 DEF Inv

(* A rename from one of the two places to the other. *)
LEMMA Renaming ==
    ASSUME Inv, NEW c \in Callers, Rename(c)
    PROVE  /\ ~At(c, "done") /\ dest \in Places /\ Original \in Places /\ dest # Original
           /\ \E x \in Objects, y \in Objects, a \in {Original, dest}, b \in {Original, dest} :
                /\ x = at[a] /\ at[b] = None /\ a # b
                /\ y.ino = x.ino /\ y.tree = x.tree
                /\ (a = Original <=> Op(c) = "quarantine")
                /\ at' = [at EXCEPT ![a] = None, ![b] = y]
                /\ faithful' = IF x.ino = snap.ino /\ x.tree = snap.tree
                               THEN faithful \cup {Op(c)} ELSE faithful
<1>0. ~At(c, "done") /\ Source(c) # None /\ Target(c) = None
  BY DEF Rename, RenameAllowed, At
<1>1. dest \in Places /\ Original \in Places /\ dest # Original
  BY <1>0, Running, QuarantineAssumption DEF Inv, TypeOK, TraceInv, Places, Original
<1>2. PICK a \in {Original, dest} : a = Place(Op(c), "from") /\ (a = Original <=> Op(c) = "quarantine")
  BY <1>1 DEF Place
<1>3. PICK b \in {Original, dest} : b = Place(Op(c), "to") /\ a # b
  BY <1>1, <1>2 DEF Place
<1>4. PICK x \in Objects : x = at[a] /\ x = Source(c)
  BY <1>0, <1>1, <1>2 DEF Source, Inv, TypeOK
<1>5. PICK y : y = [x EXCEPT !.fresh = FALSE]
  OBVIOUS
<1>6. y \in Objects /\ y.ino = x.ino /\ y.tree = x.tree
  BY <1>5 DEF Objects
<1>7. at' = [at EXCEPT ![a] = None, ![b] = y]
  BY <1>2, <1>3, <1>4, <1>5 DEF Rename
<1>8. faithful' = IF x.ino = snap.ino /\ x.tree = snap.tree THEN faithful \cup {Op(c)} ELSE faithful
  BY <1>0, <1>4 DEF Rename, SameIdentity, SameTree
<1> QED
  BY <1>0, <1>1, <1>2, <1>3, <1>4, <1>6, <1>7, <1>8 DEF Target

(* The move: the skill leaves one place for the other, and the history     *)
(* records whether it was the skill of the snapshot.                       *)
LEMMA InvRename == ASSUME Inv, NEW c \in Callers, Rename(c) PROVE Inv'
<1> USE DEF plan, past, bounds
<1>0. /\ At(c, "rename") /\ moved' = moved \cup {Op(c)} /\ Reported(c)
      /\ UNCHANGED <<intent, receipt, snap, dest, live, edits, aborts>>
  BY DEF Rename
<1>1. ~At(c, "done") /\ dest \in Places /\ Original \in Places /\ dest # Original
  BY Renaming
<1>2. PICK x \in Objects, y \in Objects, a \in {Original, dest}, b \in {Original, dest} :
        /\ x = at[a] /\ at[b] = None /\ a # b
        /\ y.ino = x.ino /\ y.tree = x.tree
        /\ (a = Original <=> Op(c) = "quarantine")
        /\ at' = [at EXCEPT ![a] = None, ![b] = y]
        /\ faithful' = IF x.ino = snap.ino /\ x.tree = snap.tree
                       THEN faithful \cup {Op(c)} ELSE faithful
  BY Renaming
<1>3. PICK o \in Ops : o = Op(c)
  BY CallFields DEF Inv
<1>4. /\ at' \in [Places -> Objects \cup {None}] /\ at'[a] = None /\ at'[b] = y /\ y # None
      /\ x # None /\ \A p \in Places \ {a, b} : at'[p] = at[p]
  BY <1>1, <1>2, NoneAssumption DEF Inv, TypeOK
<1>5. faithful' \subseteq moved' /\ moved' \subseteq Ops /\ faithful \subseteq faithful'
  BY <1>0, <1>2, <1>3 DEF Inv, TypeOK
<1>6. /\ snap # None /\ snap \in Objects /\ TraceInv /\ Stamped(c)
      /\ o \in {"quarantine", "restore"} /\ (o = "restore" => "quarantine" \in faithful)
  BY <1>0, <1>1, <1>3, Running DEF At, PlaceInv, Intended, Before
<1>7. /\ call' \in [Callers -> Calls] /\ \A d \in Callers \ {c} : call'[d] = call[d]
      /\ call'[c].pc # "fillIntent"
  <2>1. "lstatMoved" \in Pcs
    BY DEF Pcs
  <2> QED
    BY <1>0, <2>1, GotoFields, RecoverFields, FailFields DEF Reported, Inv
<1>8. TypeOK'
  BY <1>0, <1>4, <1>5, <1>7 DEF Inv, TypeOK
<1>9. TraceInv'
  <2>1. /\ at'[Original] = None => "quarantine" \in moved'
        /\ "quarantine" \in moved' /\ at'[dest] = None => "restore" \in moved'
    BY <1>0, <1>1, <1>2, <1>3, <1>4, <1>6
  <2>2. snap.ino = "other" => snap.tree = "edited" /\ moved' \subseteq faithful'
    BY <1>0, <1>1, <1>2, <1>3, <1>4, <1>6 DEF TraceInv
  <2>3. \A p \in Places : at'[p] # None =>
              /\ snap.tree = "edited" => at'[p].tree = "edited"
              /\ snap.ino = "other" => at'[p].ino = "other"
    BY <1>1, <1>2, <1>4, <1>6 DEF TraceInv
  <2>4. ASSUME at'[dest] # None, at'[dest].ino = snap.ino, at'[dest].tree = snap.tree
        PROVE  "quarantine" \in faithful'
    BY <1>2, <1>3, <1>4, <1>6, <2>4
  <2>5. ASSUME at'[Original] # None, at'[Original].ino = snap.ino, at'[Original].tree = snap.tree
        PROVE  "restore" \in faithful'
    BY <1>2, <1>3, <1>4, <1>6, <2>5
  <2> QED
    BY <1>0, <1>1, <2>1, <2>2, <2>3, <2>4, <2>5 DEF TraceInv, Good, SameIdentity, SameTree
<1>10. WorldInv'
  <2>1. \A p \in Places : at'[p] # None /\ at'[p].ino = "other" => at'[p].tree = "edited"
    BY <1>1, <1>2, <1>4 DEF Inv, WorldInv
  <2> QED
    BY <1>0, <1>6, <1>9, <2>1 DEF WorldInv, FreshInv
<1>11. RecordInv'
  BY <1>0, <1>3, <1>5, <1>6 DEF Inv, RecordInv, Stamped, Complete
<1>12. WriterInv'
  BY <1>7 DEF Inv, WriterInv, At, Op
<1>13. CallInv(c)'
  <2>1. RunInv(c)
    BY <1>1, Running
  <2>2. CASE Fail(c, "failed")
    BY <2>2, FailFields DEF Inv, CallInv, DoneInv, At
  <2>3. CASE Goto(c, "lstatMoved")
    <3>1. /\ call'[c].pc = "lstatMoved" /\ call'[c].op = call[c].op /\ call'[c].stamp = call[c].stamp
          /\ call'[c].known = call[c].known /\ call'[c].saw = call[c].saw
          /\ call'[c].result = call[c].result
      BY <2>3, GotoFields DEF Inv, Pcs
    <3>2. Stamped(c)' /\ Op(c)' = Op(c) /\ Op(c)' \in moved'
      BY <1>0, <1>6, <3>1 DEF Stamped, Op
    <3>3. RunInv(c)'
      BY <1>0, <1>5, <2>1, <3>1, <3>2 DEF RunInv, Op, Saw, SameIdentity
    <3>4. PlaceInv(c, "lstatMoved")'
      BY <3>2 DEF PlaceInv, Seen, Sure, Unread
    <3> QED
      BY <3>1, <3>3, <3>4 DEF CallInv, At
  <2>4. CASE Recover(c, "failed")
    <3>1. /\ call'[c].pc = "recover" /\ call'[c].op = call[c].op /\ call'[c].stamp = call[c].stamp
          /\ call'[c].known = call[c].known /\ call'[c].saw = NothingSeen
          /\ call'[c].result = call[c].result
      BY <2>4, RecoverFields DEF Inv
    <3>2. call'[c].saw["from"] = Unseen /\ call'[c].saw["to"] = Unseen
      BY <3>1 DEF NothingSeen, Ends
    <3>3. Stamped(c)' /\ Op(c)' = Op(c)
      BY <1>0, <1>6, <3>1 DEF Stamped, Op
    <3>4. RunInv(c)'
      BY <1>0, <1>5, <2>1, <3>1, <3>2, <3>3 DEF RunInv, Op, Saw
    <3>5. PlaceInv(c, "recover")'
      BY <3>3 DEF PlaceInv, After, Seen, Sure, Unread
    <3> QED
      BY <3>1, <3>4, <3>5 DEF CallInv, At
  <2> QED
    BY <1>0, <2>2, <2>3, <2>4 DEF Reported
<1>14. ASSUME NEW d \in Callers \ {c} PROVE CallInv(d)'
  <2>1. moved \subseteq moved'
    BY <1>0
  <2> QED
    BY <1>0, <1>5, <1>7, <2>1, OtherCall DEF Inv
<1> QED
  BY <1>8, <1>10, <1>11, <1>12, <1>13, <1>14 DEF Inv

-----------------------------------------------------------------------------
(* The rest of the steps. *)

(* A call begins: it knows nothing, and a restore has the receipt of the   *)
(* quarantine that it undoes.                                              *)
LEMMA InvStart == ASSUME Inv, NEW c \in Callers, NEW o \in Ops, Start(c, o) PROVE Inv'
<1>1. PICK l \in {"authorise", "readReceipt"} :
          l = IF o = "quarantine" THEN "authorise" ELSE "readReceipt"
  OBVIOUS
<1>2. l \in Pcs
  BY DEF Pcs
<1>3. PICK n \in Calls :
        /\ n = NewCall(c, o, l) /\ n.pc = l /\ n.op = o /\ n.result = "failed"
        /\ n.saw = NothingSeen /\ ~n.known
  BY <1>2, NewCallFields DEF Inv
<1>4. call' = [call EXCEPT ![c] = n] /\ call \in [Callers -> Calls] /\ Looks /\ snap # None
  BY <1>1, <1>3 DEF Start, Inv, TypeOK
<1>5. call' \in [Callers -> Calls] /\ call'[c] = n /\ \A d \in Callers \ {c} : call'[d] = call[d]
  BY <1>4
<1>6. n.saw["from"] = Unseen /\ n.saw["to"] = Unseen
  BY <1>3 DEF NothingSeen, Ends
<1>7. o = "restore" => "quarantine" \in faithful
  BY DEF Start, Inv, RecordInv, Ops
<1>8. RunInv(c)'
  BY <1>3, <1>4, <1>5, <1>6, <1>7 DEF RunInv, Op, Saw, Looks, plan, past
<1>9. PlaceInv(c, l)'
  BY <1>3, <1>5 DEF PlaceInv, Intended, Before, After, Seen, Sure, Unread
<1>10. CallInv(c)' /\ call'[c].pc # "fillIntent"
  BY <1>3, <1>5, <1>8, <1>9 DEF CallInv, At
<1> QED
  BY <1>4, <1>5, <1>10, Looking

(* The preflight: from now on the skill is followed by its identity. *)
LEMMA InvPreflight == ASSUME Inv, Preflight PROVE Inv'
<1>0. /\ snap = None /\ at[Original] # None /\ snap' = at[Original]
      /\ UNCHANGED <<at, intent, receipt, live, call, edits, aborts, moved, faithful>>
  BY DEF Preflight, disk, bounds, past
<1>1. dest' \in 1..Slots /\ at[dest'] = None
  BY DEF Preflight, Reservable
<1>2. dest' \in Places /\ dest' # Original /\ Original \in Places
  BY <1>1, QuarantineAssumption DEF Places, Original
<1>3. moved = {} /\ faithful = {}
  BY <1>0 DEF Inv, WorldInv, FreshInv, TypeOK
<1>4. TypeOK'
  BY <1>0, <1>2 DEF Inv, TypeOK
<1>5. snap' \in Objects /\ snap' # None
  BY <1>0, <1>2 DEF Inv, TypeOK
<1>6. TraceInv'
  <2>1. snap'.ino = "other" => snap'.tree = "edited"
    BY <1>0, <1>2 DEF Inv, WorldInv
  <2>2. ASSUME NEW p \in Places, at[p] # None
        PROVE  /\ snap'.tree = "edited" => at[p].tree = "edited"
               /\ snap'.ino = "other" => at[p].ino = "other"
    BY <1>0, <2>2 DEF Inv, WorldInv, FreshInv
  <2> QED
    BY <1>0, <1>1, <1>2, <1>3, <1>5, <2>1, <2>2 DEF TraceInv, Good, SameIdentity
<1>7. WorldInv'
  BY <1>0, <1>5, <1>6 DEF Inv, WorldInv, FreshInv
<1>8. RecordInv' /\ WriterInv'
  BY <1>0 DEF Inv, RecordInv, WriterInv, Complete, At, Op
<1>9. ASSUME NEW c \in Callers PROVE CallInv(c)'
  <2>1. At(c, "done") /\ DoneInv(c)
    BY <1>0 DEF Inv, CallInv, RunInv
  <2> QED
    BY <1>0, <2>1 DEF CallInv, DoneInv, Receipted, Complete, At, Op
<1> QED
  BY <1>4, <1>7, <1>8, <1>9 DEF Inv

(* A call ends before its time. *)
LEMMA InvAbort == ASSUME Inv, NEW c \in Callers, Abort(c) PROVE Inv'
<1>0. /\ aborts < MaxAborts /\ aborts' = aborts + 1 /\ Fail(c, "aborted")
      /\ UNCHANGED <<at, intent, receipt, snap, dest, live, edits, moved, faithful>>
  BY DEF Abort, disk, plan, past
<1>1. /\ call' \in [Callers -> Calls] /\ \A d \in Callers \ {c} : call'[d] = call[d]
      /\ call'[c].pc = "done" /\ call'[c].result = "failed"
  BY <1>0, FailFields DEF Inv
<1>2. aborts' \in 0..MaxAborts
  BY <1>0, QuarantineAssumption DEF Inv, TypeOK
<1>3. TypeOK'
  BY <1>0, <1>1, <1>2 DEF Inv, TypeOK
<1>4. WorldInv'
  BY <1>0 DEF Inv, WorldInv, FreshInv, TraceInv, Good, SameIdentity, SameTree
<1>5. RecordInv' /\ WriterInv'
  BY <1>0, <1>1 DEF Inv, RecordInv, WriterInv, Complete, At, Op
<1>6. CallInv(c)'
  BY <1>1 DEF CallInv, DoneInv, At
<1>7. ASSUME NEW d \in Callers \ {c} PROVE CallInv(d)'
  BY <1>0, <1>1, OtherCall DEF Inv
<1> QED
  BY <1>3, <1>4, <1>5, <1>6, <1>7 DEF Inv

(* An authority ends. *)
LEMMA InvAuthorityEnds == ASSUME Inv, NEW a \in Authorities, AuthorityEnds(a) PROVE Inv'
<1>0. /\ live' = [live EXCEPT ![a] = FALSE]
      /\ UNCHANGED <<at, intent, receipt, snap, dest, call, edits, aborts, moved, faithful>>
  BY DEF AuthorityEnds, disk, plan, past, bounds
<1>1. live' \in [Authorities -> BOOLEAN] /\ \A b \in Authorities : live'[b] => live[b]
  BY <1>0 DEF Inv, TypeOK
<1>2. TypeOK'
  BY <1>0, <1>1 DEF Inv, TypeOK
<1>3. WorldInv'
  BY <1>0 DEF Inv, WorldInv, FreshInv, TraceInv, Good, SameIdentity, SameTree
<1>4. RecordInv' /\ WriterInv'
  BY <1>0 DEF Inv, RecordInv, WriterInv, Complete, At, Op
<1>5. ASSUME NEW d \in Callers PROVE CallInv(d)'
  BY <1>0, <1>1, OtherCall DEF Inv
<1> QED
  BY <1>2, <1>3, <1>4, <1>5 DEF Inv

(* An edit takes the tree of the snapshot away and never brings it back. *)
LEMMA InvEdit == ASSUME Inv, NEW p \in Places, Edit(p) PROVE Inv'
<1>0. /\ edits < MaxEdits /\ edits' = edits + 1
      /\ UNCHANGED <<intent, receipt, snap, dest, live, call, aborts, moved, faithful>>
  BY DEF Edit, plan, past
<1>1. PICK x \in Objects : /\ at' = [at EXCEPT ![p] = x] /\ x # None /\ x.tree = "edited"
                           /\ x.ino = "other" \/ (at[p] # None /\ x.ino = at[p].ino)
  <2>1. CASE at[p] # None /\ at' = [at EXCEPT ![p].tree = "edited"]
    <3>1. PICK r \in Objects : r = at[p]
      BY <2>1 DEF Inv, TypeOK
    <3>2. PICK x : x = [r EXCEPT !.tree = "edited"]
      OBVIOUS
    <3>3. x \in Objects /\ x.tree = "edited" /\ x.ino = r.ino
      BY <3>2 DEF Objects
    <3>4. at' = [at EXCEPT ![p] = x]
      BY <2>1, <3>1, <3>2
    <3> QED
      BY <2>1, <3>1, <3>3, <3>4, NoneAssumption
  <2>2. CASE at' = [at EXCEPT ![p] = Stranger]
    <3>1. Stranger \in Objects /\ Stranger.tree = "edited" /\ Stranger.ino = "other"
      BY DEF Stranger, Objects
    <3>2. PICK x : x = Stranger
      OBVIOUS
    <3>3. x # None
      BY <3>1, <3>2, NoneAssumption
    <3>4. x \in Objects /\ at' = [at EXCEPT ![p] = x] /\ x.tree = "edited" /\ x.ino = "other"
      BY <2>2, <3>1, <3>2
    <3> QED
      BY <3>3, <3>4
  <2> QED
    BY <2>1, <2>2 DEF Edit
<1>2. /\ at' \in [Places -> Objects \cup {None}] /\ at'[p] = x
      /\ \A q \in Places \ {p} : at'[q] = at[q]
  BY <1>1 DEF Inv, TypeOK
<1>3. edits' \in 0..MaxEdits
  BY <1>0, QuarantineAssumption DEF Inv, TypeOK
<1>4. TypeOK'
  BY <1>0, <1>2, <1>3 DEF Inv, TypeOK
<1>5. FreshInv'
  BY <1>0, <1>1, <1>2 DEF Inv, WorldInv, FreshInv
<1>6. TraceInv'
  <2> SUFFICES ASSUME snap # None PROVE TraceInv'
    BY <1>0 DEF TraceInv
  <2>1. TraceInv /\ dest \in Places /\ Original \in Places
    BY QuarantineAssumption DEF Inv, WorldInv, TypeOK, Places, Original
  <2>2. \A q \in Places : at'[q] = None => at[q] = None
    BY <1>1, <1>2
  <2>3. \A q \in Places : at'[q] # None =>
            /\ snap.tree = "edited" => at'[q].tree = "edited"
            /\ snap.ino = "other" => at'[q].ino = "other"
    BY <1>1, <1>2, <2>1 DEF TraceInv
  <2>4. ASSUME NEW q \in Places, at'[q] # None, at'[q].ino = snap.ino, at'[q].tree = snap.tree,
               snap.ino = "skill"
        PROVE  Good(at[q])
    BY <1>1, <1>2, <2>1, <2>4 DEF TraceInv, Good, SameIdentity, SameTree
  <2> QED
    BY <1>0, <2>1, <2>2, <2>3, <2>4 DEF TraceInv, Good, SameIdentity, SameTree
<1>7. WorldInv'
  BY <1>1, <1>2, <1>5, <1>6 DEF Inv, WorldInv
<1>8. RecordInv' /\ WriterInv'
  BY <1>0 DEF Inv, RecordInv, WriterInv, Complete, At, Op
<1>9. ASSUME NEW d \in Callers PROVE CallInv(d)'
  BY <1>0, OtherCall DEF Inv
<1> QED
  BY <1>4, <1>7, <1>8, <1>9 DEF Inv

(* The initial state. *)
LEMMA InvInit == ASSUME Init PROVE Inv
<1>1. /\ at = [p \in Places |-> IF p = Original THEN Skill ELSE None]
      /\ snap = None /\ dest = Original /\ edits = 0 /\ aborts = 0 /\ moved = {} /\ faithful = {}
      /\ intent = [o \in Ops |-> None] /\ receipt = [o \in Ops |-> None]
      /\ live = [a \in Authorities |-> TRUE]
      /\ call = [c \in Callers |-> NewCall(c, "quarantine", "done")]
  BY DEF Init
<1>2. Skill \in Objects /\ Skill.ino = "skill"
  BY DEF Skill, Objects
<1>3. ASSUME NEW c \in Callers
      PROVE  call[c] \in Calls /\ call[c].pc = "done" /\ call[c].result = "failed"
  <2>1. NothingSeen \in Views /\ (FALSE /\ live["window"]) \in BOOLEAN
    BY CallsAre
  <2>2. "done" \in Pcs /\ "quarantine" \in Ops
    BY DEF Pcs, Ops
  <2>3. call[c] = NewCall(c, "quarantine", "done")
    BY <1>1
  <2>4. call[c] = [pc |-> "done", op |-> "quarantine", stamp |-> c, known |-> FALSE,
                   saw |-> NothingSeen, inTime |-> FALSE, result |-> "failed"]
    BY <2>3 DEF NewCall
  <2> QED
    BY <2>1, <2>2, <2>4, CallsAre
<1>4. TypeOK
  <2>1. call \in [Callers -> Calls]
    BY <1>1, <1>3
  <2>2. Original \in Places /\ 0 \in 0..MaxEdits /\ 0 \in 0..MaxAborts
    BY QuarantineAssumption DEF Original, Places
  <2> QED
    BY <1>1, <1>2, <2>1, <2>2 DEF TypeOK
<1>5. WorldInv
  BY <1>1, <1>2 DEF WorldInv, FreshInv, TraceInv
<1>6. RecordInv /\ WriterInv
  BY <1>1, <1>3, QuarantineAssumption DEF RecordInv, WriterInv, Complete, At
<1>7. \A c \in Callers : CallInv(c)
  BY <1>3 DEF CallInv, DoneInv, At
<1> QED
  BY <1>4, <1>5, <1>6, <1>7 DEF Inv

(* Every step keeps the invariant. *)
LEMMA InvNext == ASSUME Inv, [Next]_vars PROVE Inv'
<1>1. CASE UNCHANGED vars
  BY <1>1 DEF vars, disk, plan, bounds, past, Inv, TypeOK, WorldInv, FreshInv, TraceInv, Good,
        SameIdentity, SameTree, RecordInv, WriterInv, CallInv, DoneInv, RunInv, PlaceInv, Stamped,
        Receipted, Complete, At, Op, Saw, Intent, AuthorityLive
<1>2. ASSUME NEW c \in Callers, Step(c) PROVE Inv'
  <2> HIDE DEF Inv
  <2>1. CASE \/ Authorise(c) \/ ReadReceipt(c) \/ CheckWindow(c) \/ (\E e \in Ends : Observe(c, e))
             \/ ReplayObserved(c) \/ ReplayDigest(c) \/ RestoreObserved(c) \/ ReadIntent(c)
    BY <2>1, InvAuthorise, InvReadReceipt, InvObserve, InvReplay, InvReadIntent
  <2>2. CASE \/ RestoreDecides(c) \/ RestoreDigest(c) \/ RestoreLstatTo(c) \/ QuarantineDecides(c)
             \/ CreateIntent(c) \/ FillIntent(c) \/ RereadIntent(c)
    BY <2>2, InvRestoreDecides, InvCreateIntent, InvFillIntent, InvReread
  <2>3. CASE \/ Check(c) \/ LoadAuthority(c) \/ Boundary(c) \/ DigestBeforeMove(c)
             \/ LstatAgain(c) \/ AuthoriseAgain(c) \/ MoverObserves(c) \/ RenameRefused(c)
    BY <2>3, InvBoundary
  <2>4. CASE Rename(c)
    BY <2>4, InvRename
  <2>5. CASE \/ LstatMoved(c) \/ LstatLeft(c) \/ DigestMoved(c) \/ LstatDigested(c)
             \/ Recovered(c)
    BY <2>5, InvAfterMove, InvRecovered
  <2>6. CASE CreateReceipt(c) \/ FillReceipt(c) \/ RereadReceipt(c)
    BY <2>6, InvCreateReceipt, InvFillReceipt, InvReread
  <2> QED
    BY <1>2, <2>1, <2>2, <2>3, <2>4, <2>5, <2>6 DEF Step
<1> QED
  BY <1>1, <1>2, InvPreflight, InvStart, InvAbort, InvAuthorityEnds, InvEdit DEF Next

(* The invariant holds in every state. *)
LEMMA Invariance == Spec => []Inv
  BY InvInit, InvNext, PTL DEF Spec

(* Every step leaves a state of the declared shape, whatever the number of *)
(* calls, destinations, edits and interrupted calls.                       *)
THEOREM TypeCorrect == Spec => []TypeOK
<1>1. Inv => TypeOK
  BY DEF Inv
<1> QED
  BY <1>1, Invariance, PTL

(* A receipt is written only for a move of the very object, with the very  *)
(* tree, that the preflight saw, also by a call that recovers.             *)
THEOREM ReceiptsAreFaithful == Spec => []ReceiptsFaithful
<1>1. Inv => ReceiptsFaithful
  BY DEF Inv, RecordInv, ReceiptsFaithful
<1> QED
  BY <1>1, Invariance, PTL

(* Identical calls never conflict, and all return the receipt on disk. *)
THEOREM IdenticalCallsAgree == Spec => []CallsAgree
<1>1. ASSUME Inv, NEW c \in Callers
      PROVE  /\ call[c].result # "conflict"
             /\ call[c].result = "receipt" => call[c].stamp = Receipt(c)
  BY <1>1 DEF Inv, CallInv, DoneInv, RunInv, Receipted, Receipt
<1>2. Inv => CallsAgree
  BY <1>1 DEF CallsAgree
<1> QED
  BY <1>2, Invariance, PTL

(* Nothing is moved before its intent is complete on disk. *)
THEOREM MovesAreIntended == Spec => []MovesHaveIntent
<1>1. Inv => MovesHaveIntent
  BY DEF Inv, TypeOK, RecordInv, MovesHaveIntent
<1> QED
  BY <1>1, Invariance, PTL

-----------------------------------------------------------------------------
(* What a step does to the objects. *)

(* Only an edit and the rename change what is at a place. *)
LEMMA WhoMoves ==
    ASSUME [Next]_vars, at' # at
    PROVE  (\E p \in Places : Edit(p)) \/ \E c \in Callers : Rename(c)
<1> USE DEF vars, disk, plan, bounds, past, Looks
<1>1. ASSUME NEW c \in Callers, Step(c) PROVE Rename(c)
  <2>1. ~(\/ Authorise(c) \/ ReadReceipt(c) \/ CheckWindow(c) \/ (\E e \in Ends : Observe(c, e))
          \/ ReplayObserved(c) \/ ReplayDigest(c) \/ RestoreObserved(c) \/ ReadIntent(c))
    BY DEF Authorise, ReadReceipt, CheckWindow, Observe, ReplayObserved, ReplayDigest,
           RestoreObserved, ReadIntent
  <2>2. ~(\/ RestoreDecides(c) \/ RestoreDigest(c) \/ RestoreLstatTo(c) \/ QuarantineDecides(c)
          \/ CreateIntent(c) \/ FillIntent(c) \/ RereadIntent(c))
    BY DEF RestoreDecides, RestoreDigest, RestoreLstatTo, QuarantineDecides, CreateIntent,
           FillIntent, RereadIntent
  <2>3. ~(\/ Check(c) \/ LoadAuthority(c) \/ Boundary(c) \/ DigestBeforeMove(c)
          \/ LstatAgain(c) \/ AuthoriseAgain(c) \/ MoverObserves(c) \/ RenameRefused(c))
    BY DEF Check, LoadAuthority, Boundary, DigestBeforeMove, LstatAgain, AuthoriseAgain,
           MoverObserves, RenameRefused
  <2>4. ~(\/ LstatMoved(c) \/ LstatLeft(c) \/ DigestMoved(c) \/ LstatDigested(c)
          \/ Recovered(c) \/ CreateReceipt(c) \/ FillReceipt(c) \/ RereadReceipt(c))
    BY DEF LstatMoved, LstatLeft, DigestMoved, LstatDigested, Recovered, CreateReceipt,
           FillReceipt, RereadReceipt
  <2> QED
    BY <1>1, <2>1, <2>2, <2>3, <2>4 DEF Step
<1> QED
  BY <1>1 DEF Next, Preflight, Abort, Start, AuthorityEnds

(* The authority was live when the intent became durable, for every call   *)
(* that moves something.                                                   *)
THEOREM LateCallsAreHarmless == Spec => LateCallsMoveNothing
<1>1. ASSUME Inv, [Next]_vars
      PROVE  [\A c \in Callers : At(c, "rename") /\ at' # at /\ edits' = edits
                                   /\ call'[c] # call[c] => call[c].inTime]_vars
  <2>1. SUFFICES ASSUME NEW c \in Callers, At(c, "rename") PROVE call[c].inTime
    OBVIOUS
  <2>2. PlaceInv(c, "rename")
    BY <1>1, <2>1 DEF Inv, CallInv, At
  <2> QED
    BY <2>2 DEF PlaceInv
<1> QED
  BY <1>1, Invariance, PTL DEF Spec, LateCallsMoveNothing

(* A set that loses one element and gains another keeps its size. *)
LEMMA Swap ==
    ASSUME NEW S, IsFiniteSet(S), NEW a \in S, NEW b, b \notin S
    PROVE  Cardinality((S \ {a}) \cup {b}) = Cardinality(S)
<1>1. IsFiniteSet(S \ {a}) /\ Cardinality(S \ {a}) = Cardinality(S) - 1
  BY FS_RemoveElement
<1>2. Cardinality((S \ {a}) \cup {b}) = Cardinality(S \ {a}) + 1
  BY <1>1, FS_AddElement
<1>3. Cardinality(S) \in Nat
  BY FS_CardinalityType
<1> QED
  BY <1>1, <1>2, <1>3

(* The places of the objects with a device and inode, and the number of    *)
(* them, which only an edit changes.                                       *)
Where(i) == {p \in Places : at[p] # None /\ at[p].ino = i}
(* A rename keeps the number of objects of every identity. *)
LEMMA RenameKeeps ==
    ASSUME Inv, NEW c \in Callers, Rename(c), NEW i
    PROVE  Cardinality(Where(i)') = Cardinality(Where(i))
<1>1. dest \in Places /\ Original \in Places
  BY Renaming
<1>2. PICK x \in Objects, y \in Objects, a \in {Original, dest}, b \in {Original, dest} :
        /\ x = at[a] /\ at[b] = None /\ a # b /\ y.ino = x.ino
        /\ at' = [at EXCEPT ![a] = None, ![b] = y]
  BY Renaming
<1>3. /\ a \in Places /\ b \in Places /\ x # None /\ y # None
      /\ at'[a] = None /\ at'[b] = y /\ \A p \in Places \ {a, b} : at'[p] = at[p]
  BY <1>1, <1>2, NoneAssumption DEF Inv, TypeOK
<1>4. CASE x.ino = i
  <2>1. a \in Where(i) /\ b \notin Where(i) /\ Where(i)' = (Where(i) \ {a}) \cup {b}
    BY <1>2, <1>3, <1>4 DEF Where
  <2>2. IsFiniteSet(Where(i))
    <3>1. IsFiniteSet(Places)
      BY FS_Interval, QuarantineAssumption DEF Places
    <3>2. Where(i) \subseteq Places
      BY DEF Where
    <3> QED
      BY <3>1, <3>2, FS_Subset
  <2> QED
    BY <2>1, <2>2, Swap
<1>5. CASE x.ino # i
  <2>1. Where(i)' = Where(i)
    BY <1>2, <1>3, <1>5 DEF Where
  <2> QED
    BY <2>1
<1> QED
  BY <1>4, <1>5

(* No step but an edit changes how many objects there are of an identity:  *)
(* the mover never replaces what is at its target.                         *)
THEOREM NothingIsOverwritten == Spec => NothingOverwritten
<1>1. ASSUME Inv, [Next]_vars PROVE [edits' = edits => Held' = Held]_vars
  <2> SUFFICES ASSUME edits' = edits PROVE Held' = Held
    OBVIOUS
  <2>1. \A i \in {"skill", "other"} : Cardinality(Where(i)') = Cardinality(Where(i))
    <3>1. CASE at' = at
      BY <3>1 DEF Where
    <3>2. CASE at' # at
      <4>1. \A p \in Places : ~Edit(p)
        BY <1>1, QuarantineAssumption DEF Edit, Inv, TypeOK
      <4> QED
        BY <1>1, <3>2, <4>1, WhoMoves, RenameKeeps
    <3> QED
      BY <3>1, <3>2
  <2>2. Held = {<<i, Cardinality(Where(i))>> : i \in {"skill", "other"}}
    BY DEF Held, Where
  <2>3. Held' = {<<i, Cardinality(Where(i)')>> : i \in {"skill", "other"}}
    BY DEF Held, Where
  <2> QED
    BY <2>1, <2>2, <2>3
<1> QED
  BY <1>1, Invariance, PTL DEF Spec, NothingOverwritten
=============================================================================
