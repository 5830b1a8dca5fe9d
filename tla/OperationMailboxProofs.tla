------------------------ MODULE OperationMailboxProofs ------------------------
(***************************************************************************)
(* Proofs about OperationMailbox, for any processes, calls and keys, and     *)
(* for every scene.  What the properties say of sent, ran and the rows is    *)
(* not inductive: it holds because of where tokens, locks, queue entries and *)
(* the worker are.  The parts of the invariant say this, from the outside    *)
(* in: tokens (TokenInv), what a process holds (IdleInv, LockInv, KeyInv,    *)
(* HostInv, AloneInv), the journal (JournalInv), receipts under way          *)
(* (ReceiptInv), and then what the newest owner may still send (FreshInv),   *)
(* what callers were told (AnswerInv) and what is known of an operation at   *)
(* each stage of its process (StageInv, FactInv).                            *)
(*                                                                         *)
(* The lemmas named ...Effect state once what a step does to one part of     *)
(* the state; each Next... lemma derives from them that every step keeps a   *)
(* part of the invariant.                                                   *)
(***************************************************************************)
EXTENDS OperationMailbox, TLAPS

-----------------------------------------------------------------------------
(* Mailbox and components of p exist. *)
Active(p) == phase[p] \in {"running", "stopping", "emergency"}

(* p was granted the newest token there is. *)
Latest(p) == tok[p] = lease.fence

Busy(p) == worker[p].pc \notin {"idle", "exited"}
Queued(p) == 1..Len(queue[p])

(* Tokens in memory are tokens of the row's past or present; the present one
   belongs to the row's owner, and to the binding once that owner attached. *)
TokenInv ==
    /\ bind <= lease.fence
    /\ lease.fence = 0 => lease.left = "expired"
    /\ \A p \in Owners :
          /\ tok[p] <= lease.fence
          /\ tok[p] > 0 /\ Latest(p) => lease.owner = p
          /\ Active(p) \/ phase[p] = "attaching" => tok[p] > 0
          /\ Active(p) /\ Latest(p) => bind = tok[p]
          /\ \A q \in Owners : tok[p] > 0 /\ tok[p] = tok[q] => p = q

(* A process without components holds nothing, and none begins an operation
   once its mailbox stops. *)
IdleInv ==
    \A p \in Owners :
        /\ ~Active(p) => worker[p].pc = "exited" /\ queue[p] = <<>> /\ futures[p] = {}
        /\ phase[p] # "running" => ~accepting[p] /\ lock[p] = NoCaller

(* The submission lock: who holds it begins an operation whose key has no
   future yet. *)
LockInv ==
    /\ \A c \in Callers : call[c].pc = "begin" => lock[HostOf[c]] = c
    /\ \A p \in Owners, c \in Callers : lock[p] = c =>
          call[c].pc = "begin" /\ HostOf[c] = p /\ KeyOf[c] \notin futures[p]

(* A key is in one place of a mailbox at a time, and has a future while it is
   there. *)
KeyInv ==
    \A p \in Owners :
        /\ \A i \in Queued(p) : queue[p][i].key \in futures[p]
        /\ \A i, j \in Queued(p) : queue[p][i].key = queue[p][j].key => i = j
        /\ Busy(p) => /\ worker[p].key \in futures[p]
                      /\ \A i \in Queued(p) : queue[p][i].key # worker[p].key

(* Every key in a mailbox was submitted there. *)
HostInv ==
    /\ \A c \in Callers : c \notin scene.calls => call[c].pc = "done" /\ call[c].out = "none"
    /\ \A p \in Owners : \A k \in futures[p] :
          \E c \in scene.calls : HostOf[c] = p /\ KeyOf[c] = k

(* Without zombies one process at a time is up. *)
AloneInv ==
    ~Zombies => \A p, q \in Owners :
        p # q /\ phase[p] \notin {"detached", "crashed"} => phase[q] \in {"detached", "crashed"}

(* The journal knows what was ever started, and only that was sent. *)
JournalInv ==
    \A k \in Keys :
        /\ \A s \in OpStates : <<k, s>> \in journal => op[k].state # "none"
        /\ sent[k] > 0 => <<k, "started">> \in journal
        /\ ran[k] => sent[k] > 0
        /\ \A p \in Owners : worker[p].pc = "inflight" /\ worker[p].key = k => sent[k] > 0

(* A receipt that passed its validation was allowed. *)
ReceiptInv ==
    \A p \in Owners : worker[p].valid => worker[p].pc \in Receipts /\ Allowed(worker[p])

(* What the newest owner is about to begin, start or send was not begun,
   started or sent before. *)
FreshInv ==
    \A p \in Owners :
        /\ worker[p].pc = "call" => IsCurrent(p)
        /\ Active(p) /\ Latest(p) =>
              /\ \A c \in Callers : lock[p] = c => op[KeyOf[c]].state = "none"
              /\ \A i \in Queued(p) : /\ <<queue[p][i].key, "started">> \notin journal
                                      /\ op[queue[p][i].key].fence = tok[p]
              /\ worker[p].pc \in {"check1", "start"} =>
                    <<worker[p].key, "started">> \notin journal
              /\ worker[p].pc \in {"check2", "call"} =>
                    <<worker[p].key, "started">> \in journal /\ sent[worker[p].key] = 0
              /\ worker[p].pc \in {"check1", "start", "check2", "call"} =>
                    op[worker[p].key].fence = tok[p]

(* What callers were told is what the row says, for good. *)
AnswerInv ==
    \A c \in Callers :
        /\ call[c].out = "ok" => op[KeyOf[c]].state = "confirmed"
        /\ call[c].out \in {"rejected", "deferred"} => op[KeyOf[c]].state = "rejected"

(* Where an operation is in its process says whether it was sent and ran. *)
StageInv ==
    Apart => \A p \in Owners :
        LET k == worker[p].key pc == worker[p].pc IN
        /\ \A c \in Callers : lock[p] = c => op[KeyOf[c]].state = "none"
        /\ \A i \in Queued(p) : sent[queue[p][i].key] = 0
        /\ pc \in {"check1", "start", "check2", "call", "defer"} => sent[k] = 0
        /\ pc \in {"check2", "call"} /\ IsCurrent(p) => op[k].state = "started"
        /\ pc = "inflight" => sent[k] = 1 /\ ~ran[k] /\ op[k].state \in {"started", "unknown"}
        /\ pc \in {"check3", "confirm"} => ran[k]
        /\ pc = "reject" => ~ran[k]

FactInv ==
    Apart => \A k \in Keys :
        /\ op[k].state = "confirmed" => ran[k]
        /\ op[k].state = "rejected" => ~ran[k]

-----------------------------------------------------------------------------
(* The calls of a scene and their keys. *)
LEMMA SceneType ==
    ASSUME TypeOK
    PROVE  /\ KeyOf \in [Callers -> Keys]
           /\ scene.calls \in SUBSET Callers
           /\ Zombies \in BOOLEAN
BY MailboxAssumption DEF TypeOK, KeyOf, Zombies

(* The values that the actions assign have the right shape. *)
LEMMA ValueTypes ==
    ASSUME TypeOK
    PROVE  /\ AnyKey \in Keys /\ IdleWorker \in Works /\ ExitedWorker \in Works
           /\ \A k \in Keys, s \in OpStates, x \in Codes : Becomes(k, s, x) \in Rows
           /\ \A c \in Callers, pc \in {"idle", "begin", "await", "done"}, v \in BOOLEAN :
                 CallAt(c, pc, v) \in Calls
           /\ \A l \in {"headroom", "current", "expired"} : LeaseLeft(l) \in Leases
           /\ \A p \in Owners, pc \in WorkerPcs, rec \in OpStates, v \in BOOLEAN :
                 [pc |-> pc, key |-> worker[p].key, rec |-> rec, valid |-> v] \in Works
<1>1. AnyKey \in Keys
  BY MailboxAssumption, Zenon DEF AnyKey
<1>2. IdleWorker \in Works /\ ExitedWorker \in Works
  BY <1>1 DEF IdleWorker, ExitedWorker, Works, WorkerPcs, OpStates
<1>3. ASSUME NEW k \in Keys, NEW s \in OpStates, NEW x \in Codes PROVE Becomes(k, s, x) \in Rows
  BY DEF TypeOK, Rows, Becomes
<1>4. ASSUME NEW c \in Callers, NEW pc \in {"idle", "begin", "await", "done"}, NEW v \in BOOLEAN
      PROVE  CallAt(c, pc, v) \in Calls
  BY DEF TypeOK, Calls, CallAt
<1>5. ASSUME NEW l \in {"headroom", "current", "expired"} PROVE LeaseLeft(l) \in Leases
  BY DEF TypeOK, Leases, LeaseLeft
<1>6. ASSUME NEW p \in Owners, NEW pc \in WorkerPcs, NEW rec \in OpStates, NEW v \in BOOLEAN
      PROVE  [pc |-> pc, key |-> worker[p].key, rec |-> rec, valid |-> v] \in Works
  BY DEF TypeOK, Works
<1> QED
  BY <1>1, <1>2, <1>3, <1>4, <1>5, <1>6

(* What resolving the futures of ks does: the futures go, and who awaited one
   of them is done with the outcome. *)
LEMMA ResolveEffect ==
    ASSUME TypeOK, NEW p \in Owners, NEW ks, NEW out \in Outcomes, Resolve(p, ks, out)
    PROVE  /\ futures' \in [Owners -> SUBSET Keys]
           /\ futures'[p] = futures[p] \ ks
           /\ \A q \in Owners \ {p} : futures'[q] = futures[q]
           /\ call' \in [Callers -> Calls]
           /\ \A c \in Callers :
                 \/ call'[c] = call[c]
                 \/ /\ HostOf[c] = p /\ KeyOf[c] \in ks /\ call[c].pc = "await"
                    /\ call'[c].pc = "done" /\ call'[c].out = out
<1>1. futures' = [futures EXCEPT ![p] = futures[p] \ ks] /\ futures \in [Owners -> SUBSET Keys]
  BY DEF Resolve, TypeOK
<1>2. /\ futures' \in [Owners -> SUBSET Keys]
      /\ futures'[p] = futures[p] \ ks
      /\ \A q \in Owners \ {p} : futures'[q] = futures[q]
  BY <1>1
<1>3. call \in [Callers -> Calls]
  BY DEF TypeOK
<1>4. ASSUME NEW c \in Callers
      PROVE  /\ call'[c] \in Calls
             /\ \/ call'[c] = call[c]
                \/ /\ HostOf[c] = p /\ KeyOf[c] \in ks /\ call[c].pc = "await"
                   /\ call'[c].pc = "done" /\ call'[c].out = out
  BY <1>3 DEF Resolve, Calls
<1>5. call' \in [Callers -> Calls]
  BY <1>4 DEF Resolve
<1> QED
  BY <1>2, <1>4, <1>5

(* Moving the worker on keeps its key. *)
LEMMA GotoEffect ==
    ASSUME TypeOK, NEW p \in Owners, NEW pc \in WorkerPcs, NEW rec \in OpStates, Goto(p, pc, rec)
    PROVE  /\ worker' \in [Owners -> Works]
           /\ worker'[p] = [pc |-> pc, key |-> worker[p].key, rec |-> rec, valid |-> FALSE]
           /\ \A q \in Owners \ {p} : worker'[q] = worker[q]
<1>1. worker \in [Owners -> Works]
  BY DEF TypeOK
<1>2. [pc |-> pc, key |-> worker[p].key, rec |-> rec, valid |-> FALSE] \in Works
  BY ValueTypes
<1> QED
  BY <1>1, <1>2 DEF Goto

(* An entry is added at the end of a queue. *)
LEMMA AppendEffect ==
    ASSUME NEW S, NEW s \in Seq(S), NEW e \in S
    PROVE  /\ Append(s, e) \in Seq(S)
           /\ Len(s) \in Nat /\ Len(Append(s, e)) = Len(s) + 1
           /\ \A i \in 1..Len(s) : Append(s, e)[i] = s[i]
           /\ Append(s, e)[Len(s) + 1] = e
OBVIOUS

(* An entry is taken from the front of a queue. *)
LEMMA TailEffect ==
    ASSUME NEW S, NEW s \in Seq(S), s # <<>>
    PROVE  /\ Tail(s) \in Seq(S)
           /\ Len(s) \in Nat /\ Len(s) > 0 /\ Len(Tail(s)) = Len(s) - 1
           /\ \A i \in 1..Len(Tail(s)) : i + 1 \in 1..Len(s) /\ Tail(s)[i] = s[i + 1]
           /\ Head(s) = s[1] /\ Head(s) \in S
OBVIOUS

(* Every step keeps the shape of the variables. *)
LEMMA NextTypeOK == TypeOK /\ [Next]_vars => TypeOK'
<1> SUFFICES ASSUME TypeOK, [Next]_vars PROVE TypeOK'
  OBVIOUS
<1>t. KeyOf \in [Callers -> Keys] /\ HostOf \in [Callers -> Owners]
  BY SceneType, MailboxAssumption
<1>v. /\ AnyKey \in Keys /\ IdleWorker \in Works /\ ExitedWorker \in Works
      /\ \A k \in Keys, s \in OpStates, x \in Codes : Becomes(k, s, x) \in Rows
      /\ \A l \in {"headroom", "current", "expired"} : LeaseLeft(l) \in Leases
  BY ValueTypes
<1>w. \A p \in Owners, pc \in WorkerPcs, rec \in OpStates : Goto(p, pc, rec) => worker' \in [Owners -> Works]
  BY GotoEffect
<1>r. \A p \in Owners, ks, out \in Outcomes : Resolve(p, ks, out) =>
          futures' \in [Owners -> SUBSET Keys] /\ call' \in [Callers -> Calls]
  BY ResolveEffect
<1>c. /\ \A c \in Callers, pc \in {"idle", "begin", "await", "done"}, v \in BOOLEAN : CallAt(c, pc, v) \in Calls
      /\ \A c \in Callers, out \in Outcomes : Answer(c, out) => call' \in [Callers -> Calls]
  <2>1. \A out \in Outcomes : [pc |-> "done", valid |-> FALSE, out |-> out] \in Calls
    BY DEF Calls
  <2>2. call \in [Callers -> Calls]
    BY DEF TypeOK
  <2>3. \A c \in Callers, out \in Outcomes : Answer(c, out) => call' \in [Callers -> Calls]
    BY <2>1, <2>2 DEF Answer
  <2> QED
    BY <2>3, ValueTypes
<1>k. \A p \in Owners : /\ worker[p].pc \in WorkerPcs /\ worker[p].key \in Keys
                        /\ worker[p].rec \in OpStates /\ worker[p].valid \in BOOLEAN
  BY DEF TypeOK, Works
<1>o. \A k \in Keys : op[k].state \in OpStates /\ op[k].fence \in Nat
  BY DEF TypeOK, Rows
<1>l. lease.fence \in Nat
  BY DEF TypeOK, Leases
<1> USE DEF TypeOK, durable, memory, world
<1>1. CASE LeaseWears
  BY <1>1, <1>v DEF LeaseWears
<1>2. ASSUME NEW c \in Callers, CallerStep(c) PROVE TypeOK'
  <2>h. HostOf[c] \in Owners /\ KeyOf[c] \in Keys
    BY <1>t
  <2>1. CASE SubmitRefused(c)
    BY <2>1, <1>c DEF SubmitRefused, Outcomes
  <2>2. CASE SubmitJoins(c)
    BY <2>2, <1>c DEF SubmitJoins
  <2>3. CASE SubmitReplays(c)
    <3>1. \A s : SettledResult(s) \in Outcomes
      BY DEF SettledResult, Outcomes
    <3> QED
      BY <2>3, <3>1, <1>c DEF SubmitReplays
  <2>4. CASE SubmitBegins(c)
    BY <2>4, <2>h, <1>c DEF SubmitBegins
  <2>5. CASE BeginValidate(c)
    <3>1. "ambiguous" \in Outcomes
      BY DEF Outcomes
    <3>2. call' \in [Callers -> Calls] /\ reducer' \in [Owners -> BOOLEAN]
          /\ lock' \in [Owners -> Callers \cup {NoCaller}]
      BY <2>5, <3>1, <2>h, <1>c DEF BeginValidate
    <3> QED
      BY <2>5, <3>2 DEF BeginValidate
  <2>6. CASE BeginCommit(c)
    <3> DEFINE p == HostOf[c] k == KeyOf[c]
    <3>1. "ambiguous" \in Outcomes /\ "pending" \in OpStates
      BY DEF Outcomes, OpStates
    <3>2. op' \in [Keys -> Rows] /\ journal' \subseteq Keys \X OpStates
      <4>1. [state |-> "pending", fence |-> tok[p], code |-> "none"] \in Rows
        BY <2>h, <3>1 DEF Rows, Codes
      <4>2. AfterPending(p, k) \in [Keys -> Rows]
        BY <2>h, <4>1 DEF AfterPending
      <4>3. op' \in [Keys -> Rows]
        BY <2>6, <4>2 DEF BeginCommit
      <4>4. journal' = journal \/ journal' = journal \cup {<<k, "pending">>}
        BY <2>6 DEF BeginCommit
      <4> QED
        BY <2>h, <3>1, <4>3, <4>4
    <3>3. queue' \in [Owners -> Seq(Items)] /\ futures' \in [Owners -> SUBSET Keys]
      <4>1. [key |-> k, rec |-> op'[k].state] \in Items
        BY <3>2, <2>h DEF Items, Rows
      <4>2. Append(queue[p], [key |-> k, rec |-> op'[k].state]) \in Seq(Items)
        BY <4>1, <2>h, AppendEffect
      <4>3. \/ UNCHANGED <<queue, futures>>
            \/ /\ queue' = [queue EXCEPT ![p] = Append(queue[p], [key |-> k, rec |-> op'[k].state])]
               /\ futures' = [futures EXCEPT ![p] = futures[p] \cup {k}]
        BY <2>6 DEF BeginCommit
      <4>4. queue \in [Owners -> Seq(Items)] /\ futures \in [Owners -> SUBSET Keys] /\ p \in Owners /\ k \in Keys
        BY <2>h
      <4> HIDE DEF TypeOK, p, k
      <4>5. queue' \in [Owners -> Seq(Items)]
        BY <4>2, <4>3, <4>4
      <4>6. futures' \in [Owners -> SUBSET Keys]
        BY <4>3, <4>4
      <4> QED
        BY <4>5, <4>6
    <3>4. call' \in [Callers -> Calls]
      <4>1. \/ Answer(c, "ambiguous")
            \/ call' = [call EXCEPT ![c] = CallAt(c, "await", FALSE)]
        BY <2>6 DEF BeginCommit
      <4>2. "ambiguous" \in Outcomes /\ CallAt(c, "await", FALSE) \in Calls
        BY <1>c DEF Outcomes
      <4> QED
        BY <4>1, <4>2, <1>c
    <3> QED
      BY <2>6, <2>h, <3>2, <3>3, <3>4 DEF BeginCommit
  <2> QED
    BY <1>2, <2>1, <2>2, <2>3, <2>4, <2>5, <2>6 DEF CallerStep
<1>3. ASSUME NEW p \in Owners, WorkerStep(p) PROVE TypeOK'
  <2>f. ReceiptFails(p) => /\ worker' \in [Owners -> Works] /\ futures' \in [Owners -> SUBSET Keys]
                           /\ call' \in [Callers -> Calls]
    <3>1. "ambig" \in WorkerPcs /\ "pending" \in OpStates /\ "ambiguous" \in Outcomes
      BY DEF WorkerPcs, OpStates, Outcomes
    <3>2. Resolve(p, {worker[p].key}, "ambiguous") =>
            futures' \in [Owners -> SUBSET Keys] /\ call' \in [Callers -> Calls]
      BY <3>1, ResolveEffect
    <3>3. /\ Goto(p, "ambig", "pending") => worker' \in [Owners -> Works]
          /\ Goto(p, "ambig", worker[p].rec) => worker' \in [Owners -> Works]
      BY <3>1, <1>k, <1>w
    <3> QED
      BY <3>2, <3>3, <1>v DEF ReceiptFails
  <2>1. CASE Take(p)
    <3>1. queue[p] \in Seq(Items) /\ queue[p] # <<>>
      BY <2>1 DEF Take
    <3>2. Tail(queue[p]) \in Seq(Items) /\ Head(queue[p]) \in Items
      BY <3>1, TailEffect
    <3>3. [pc |-> "check1", key |-> Head(queue[p]).key, rec |-> Head(queue[p]).rec, valid |-> FALSE] \in Works
      BY <3>2 DEF Items, Works, WorkerPcs
    <3> QED
      BY <2>1, <3>2, <3>3 DEF Take
  <2>2. CASE CheckFence(p)
    <3>1. \A pc : NextOf(pc) \in WorkerPcs
      BY DEF NextOf, WorkerPcs
    <3>2. "defer" \in WorkerPcs /\ "ambig" \in WorkerPcs
      BY DEF WorkerPcs
    <3> QED
      BY <2>2, <3>1, <3>2, <1>w, <1>k DEF CheckFence
  <2>3. CASE ReceiptValidate(p)
    <3>1. [pc |-> worker[p].pc, key |-> worker[p].key, rec |-> worker[p].rec, valid |-> TRUE] \in Works
      BY <1>k DEF Works
    <3>2. /\ worker' \in [Owners -> Works] /\ futures' \in [Owners -> SUBSET Keys]
          /\ call' \in [Callers -> Calls] /\ reducer' \in [Owners -> BOOLEAN]
      BY <2>3, <2>f, <3>1 DEF ReceiptValidate
    <3> QED
      BY <2>3, <3>2 DEF ReceiptValidate
  <2>4. CASE ReceiptCommit(p)
    <3> DEFINE w == worker[p] to == Target(w.pc)
    <3>1. to \in OpStates /\ "other" \in Codes
      BY DEF Target, OpStates, Codes
    <3>2. op' \in [Keys -> Rows] /\ journal' \subseteq Keys \X OpStates
      <4>1. worker[p].key \in Keys
        BY <1>k
      <4>2. AfterTransition(p, w.key, From(w), to) \in [Keys -> Rows]
        BY <4>1, <3>1, <1>v DEF AfterTransition
      <4>3. op' \in [Keys -> Rows]
        BY <2>4, <4>2 DEF ReceiptCommit
      <4>4. journal' = journal \/ journal' = journal \cup {<<w.key, to>>}
        BY <2>4 DEF ReceiptCommit
      <4> QED
        BY <4>1, <3>1, <4>3, <4>4
    <3>3. ReceiptSucceeds(p) => /\ worker' \in [Owners -> Works] /\ futures' \in [Owners -> SUBSET Keys]
                                /\ call' \in [Callers -> Calls]
      <4> DEFINE out == CASE w.pc = "confirm" -> "ok" [] w.pc = "reject" -> "rejected"
                          [] OTHER -> "ambiguous"
      <4>1. "check2" \in WorkerPcs /\ "started" \in OpStates /\ out \in Outcomes
        BY DEF WorkerPcs, OpStates, Outcomes
      <4>2. ReceiptSucceeds(p) =>
              \/ Goto(p, "check2", "started") /\ UNCHANGED <<futures, call>>
              \/ worker' = [worker EXCEPT ![p] = IdleWorker] /\ Resolve(p, {w.key}, out)
        BY DEF ReceiptSucceeds
      <4> HIDE DEF out
      <4>3. Resolve(p, {w.key}, out) =>
              futures' \in [Owners -> SUBSET Keys] /\ call' \in [Callers -> Calls]
        BY <4>1, ResolveEffect
      <4> QED
        BY <4>1, <4>2, <4>3, <1>w, <1>v
    <3>4. /\ worker' \in [Owners -> Works] /\ futures' \in [Owners -> SUBSET Keys]
          /\ call' \in [Callers -> Calls] /\ reducer' \in [Owners -> BOOLEAN]
      BY <2>4, <2>f, <3>3, <1>v DEF ReceiptCommit, ReceiptInterrupted
    <3> QED
      BY <2>4, <3>2, <3>4 DEF ReceiptCommit
  <2>5. CASE BeforeSend(p)
    <3>1. {"defer", "reject", "ambig"} \subseteq WorkerPcs
      BY DEF WorkerPcs
    <3> QED
      BY <2>5, <3>1, <1>w, <1>k DEF BeforeSend
  <2>6. CASE Dispatch(p)
    <3>1. "inflight" \in WorkerPcs
      BY DEF WorkerPcs
    <3> QED
      BY <2>6, <3>1, <1>w, <1>k DEF Dispatch
  <2>7. CASE RpcReturns(p)
    <3>1. {"check3", "reject", "ambig"} \subseteq WorkerPcs
      BY DEF WorkerPcs
    <3>2. worker' \in [Owners -> Works]
      BY <2>7, <3>1, <1>w, <1>k DEF RpcReturns
    <3>3. ran' \in [Keys -> BOOLEAN]
      BY <2>7, <1>k DEF RpcReturns
    <3> QED
      BY <2>7, <3>2, <3>3 DEF RpcReturns
  <2>8. CASE Defer(p)
    <3>1. {"deferred", "ambiguous"} \subseteq Outcomes /\ "rejected" \in OpStates /\ "other" \in Codes
      BY DEF Outcomes, OpStates, Codes
    <3>2. op' \in [Keys -> Rows]
      BY <2>8, <3>1, <1>k, <1>v DEF Defer, AfterSettleDeferred
    <3>3. futures' \in [Owners -> SUBSET Keys] /\ call' \in [Callers -> Calls]
      <4> DEFINE out == IF CanSettleDeferred(worker[p].key) THEN "deferred" ELSE "ambiguous"
      <4>1. out \in Outcomes /\ Resolve(p, {worker[p].key}, out)
        BY <2>8, <3>1 DEF Defer
      <4> HIDE DEF out
      <4> QED
        BY <4>1, ResolveEffect
    <3> QED
      BY <2>8, <3>2, <3>3, <1>v DEF Defer
  <2> QED
    BY <1>3, <2>1, <2>2, <2>3, <2>4, <2>5, <2>6, <2>7, <2>8 DEF WorkerStep
<1>4. ASSUME NEW p \in Owners, StopStep(p) PROVE TypeOK'
  <2>1. CASE Freeze(p)
    BY <2>1 DEF Freeze
  <2>2. CASE Thaw(p)
    BY <2>2 DEF Thaw
  <2>3. CASE Stop(p)
    BY <2>3 DEF Stop, Phases
  <2>4. CASE CancelWorker(p)
    <3>1. "ambig" \in WorkerPcs
      BY DEF WorkerPcs
    <3>2. worker' \in [Owners -> Works]
      BY <2>4, <3>1, <1>w, <1>k, <1>v DEF CancelWorker
    <3>3. ran' \in [Keys -> BOOLEAN]
      BY <2>4, <1>k DEF CancelWorker
    <3> QED
      BY <2>4, <3>2, <3>3 DEF CancelWorker
  <2>5. CASE StopItem(p)
    <3>1. {"deferred", "ambiguous"} \subseteq Outcomes /\ "rejected" \in OpStates /\ "other" \in Codes
      BY DEF Outcomes, OpStates, Codes
    <3>2. queue[p] \in Seq(Items) /\ queue[p] # <<>>
      BY <2>5 DEF StopItem
    <3>i. Tail(queue[p]) \in Seq(Items) /\ Head(queue[p]) \in Items
      BY <3>2, TailEffect
    <3>3. Head(queue[p]).key \in Keys
      BY <3>i DEF Items
    <3>4. op' \in [Keys -> Rows]
      <4>1. AfterSettleDeferred(Head(queue[p]).key) \in [Keys -> Rows]
        BY <3>1, <3>3, <1>v DEF AfterSettleDeferred
      <4> QED
        BY <2>5, <4>1 DEF StopItem
    <3>5. futures' \in [Owners -> SUBSET Keys] /\ call' \in [Callers -> Calls]
      <4> DEFINE k == Head(queue[p]).key
                 out == IF phase[p] = "emergency" /\ CanSettleDeferred(k) THEN "deferred" ELSE "ambiguous"
      <4>1. out \in Outcomes /\ Resolve(p, {k}, out)
        BY <2>5, <3>1 DEF StopItem
      <4> HIDE DEF out
      <4> QED
        BY <4>1, ResolveEffect
    <3> QED
      BY <2>5, <3>i, <3>4, <3>5 DEF StopItem
  <2>6. CASE StopSettles(p)
    <3>1. "ambiguous" \in Outcomes /\ "unknown" \in OpStates /\ "other" \in Codes /\ "settling" \in Phases
      BY DEF Outcomes, OpStates, Codes, Phases
    <3>2. op' \in [Keys -> Rows]
      <4>1. \/ op' = op
            \/ op' = [k \in Keys |->
                        IF op[k].state \in {"pending", "started"} /\ op[k].fence = tok[p]
                        THEN Becomes(k, "unknown", "other") ELSE op[k]]
        BY <2>6 DEF StopSettles
      <4>2. \A k \in Keys : Becomes(k, "unknown", "other") \in Rows
        BY <3>1, <1>v
      <4> QED
        BY <4>1, <4>2
    <3>3. futures' \in [Owners -> SUBSET Keys] /\ call' \in [Callers -> Calls]
      <4>1. Resolve(p, futures[p], "ambiguous")
        BY <2>6 DEF StopSettles
      <4> QED
        BY <4>1, <3>1, ResolveEffect
    <3> QED
      BY <2>6, <3>1, <3>2, <3>3, <1>v DEF StopSettles
  <2>7. CASE Release(p)
    BY <2>7, <1>v DEF Release, Phases
  <2> QED
    BY <1>4, <2>1, <2>2, <2>3, <2>4, <2>5, <2>6, <2>7 DEF StopStep
<1>5. ASSUME NEW p \in Owners, LifecycleStep(p) PROVE TypeOK'
  <2>1. CASE Renew(p)
    BY <2>1, <1>v DEF Renew
  <2>2. CASE Acquire(p)
    <3>1. "unknown" \in OpStates /\ "takeover" \in Codes /\ "attaching" \in Phases
      BY DEF OpStates, Codes, Phases
    <3>2. lease' \in Leases /\ lease'.fence \in Nat
      BY <2>2, <1>l DEF Acquire, Leases
    <3>3. op' \in [Keys -> Rows]
      BY <2>2, <3>1, <1>v DEF Acquire
    <3> QED
      BY <2>2, <3>1, <3>2, <3>3 DEF Acquire
  <2>3. CASE Attach(p)
    <3>1. {"running", "detached"} \subseteq Phases
      BY DEF Phases
    <3>2. CASE IsCurrent(p)
      <4>1. /\ bind' = tok[p] /\ phase' = [phase EXCEPT ![p] = "running"]
            /\ accepting' = [accepting EXCEPT ![p] = TRUE] /\ reducer' = [reducer EXCEPT ![p] = TRUE]
            /\ worker' = [worker EXCEPT ![p] = IdleWorker]
        BY <2>3, <3>2 DEF Attach
      <4>2. bind' \in Nat /\ phase' \in [Owners -> Phases] /\ accepting' \in [Owners -> BOOLEAN]
        BY <3>1, <4>1
      <4>3. reducer' \in [Owners -> BOOLEAN] /\ worker' \in [Owners -> Works]
        BY <4>1, <1>v
      <4> QED
        BY <2>3, <4>2, <4>3 DEF Attach
    <3>3. CASE ~IsCurrent(p)
      BY <2>3, <3>1, <3>3, <1>v DEF Attach
    <3> QED
      BY <3>2, <3>3
  <2>4. CASE StartupRecovery(p)
    <3>1. "unknown" \in OpStates /\ "other" \in Codes
      BY DEF OpStates, Codes
    <3> QED
      BY <2>4, <3>1, <1>v DEF StartupRecovery
  <2>5. CASE Crash(p)
    <3>1. "crashed" \in Phases /\ <<>> \in Seq(Items)
      BY DEF Phases
    <3>2. [pc |-> "done", valid |-> FALSE, out |-> "gone"] \in Calls
      BY DEF Calls, Outcomes
    <3>3. call' \in [Callers -> Calls]
      BY <2>5, <3>2 DEF Crash
    <3>4. ran' \in [Keys -> BOOLEAN]
      BY <2>5, <1>k DEF Crash
    <3> QED
      BY <2>5, <3>1, <3>3, <3>4, <1>v DEF Crash
  <2>6. CASE ReducerDies(p)
    <3>1. lost' \subseteq Owners \X Senders
      BY <2>6 DEF ReducerDies
    <3>2. reducer' \in [Owners -> BOOLEAN]
      BY <2>6 DEF ReducerDies
    <3> QED
      BY <2>6, <3>1, <3>2, <1>v DEF ReducerDies
  <2> QED
    BY <1>5, <2>1, <2>2, <2>3, <2>4, <2>5, <2>6 DEF LifecycleStep
<1>6. CASE UNCHANGED vars
  BY <1>6 DEF vars
<1> QED
  BY <1>1, <1>2, <1>3, <1>4, <1>5, <1>6 DEF Next

-----------------------------------------------------------------------------
(* Which steps can change what.  Everything else leaves it alone. *)
LEMMA Frame ==
    ASSUME [Next]_vars
    PROVE  /\ scene' = scene
           /\ \/ UNCHANGED <<bind, lease, tok, phase>>
              \/ LeaseWears
              \/ \E p \in Owners : \/ Stop(p) \/ StopSettles(p) \/ Release(p)
                                   \/ Renew(p) \/ Acquire(p) \/ Attach(p) \/ Crash(p)
           /\ \/ UNCHANGED <<op, journal>>
              \/ \E c \in Callers : BeginCommit(c)
              \/ \E p \in Owners : \/ ReceiptCommit(p) \/ Defer(p) \/ StopItem(p) \/ StopSettles(p)
                                   \/ Acquire(p) \/ StartupRecovery(p)
           /\ \/ UNCHANGED <<sent, ran>>
              \/ \E p \in Owners : Dispatch(p) \/ RpcReturns(p) \/ CancelWorker(p) \/ Crash(p)
<1> USE DEF durable, memory, world
<1>1. CASE LeaseWears
  BY <1>1 DEF LeaseWears
<1>2. ASSUME NEW c \in Callers, CallerStep(c)
      PROVE  /\ UNCHANGED <<scene, bind, lease, tok, phase, sent, ran>>
             /\ UNCHANGED <<op, journal>> \/ BeginCommit(c)
  BY <1>2 DEF CallerStep, SubmitRefused, SubmitJoins, SubmitReplays, SubmitBegins, BeginValidate, BeginCommit
<1>3. ASSUME NEW p \in Owners, WorkerStep(p)
      PROVE  /\ UNCHANGED <<scene, bind, lease, tok, phase>>
             /\ UNCHANGED <<op, journal>> \/ ReceiptCommit(p) \/ Defer(p)
             /\ UNCHANGED <<sent, ran>> \/ Dispatch(p) \/ RpcReturns(p)
  <2>1. CASE Take(p) \/ CheckFence(p) \/ ReceiptValidate(p) \/ BeforeSend(p)
    BY <2>1 DEF Take, CheckFence, ReceiptValidate, BeforeSend
  <2>2. CASE Dispatch(p) \/ RpcReturns(p)
    BY <2>2 DEF Dispatch, RpcReturns
  <2>3. CASE ReceiptCommit(p)
    BY <2>3 DEF ReceiptCommit
  <2>4. CASE Defer(p)
    BY <2>4 DEF Defer
  <2> QED
    BY <1>3, <2>1, <2>2, <2>3, <2>4 DEF WorkerStep
<1>4. ASSUME NEW p \in Owners, StopStep(p)
      PROVE  /\ scene' = scene
             /\ UNCHANGED <<bind, lease, tok, phase>> \/ Stop(p) \/ StopSettles(p) \/ Release(p)
             /\ UNCHANGED <<op, journal>> \/ StopItem(p) \/ StopSettles(p)
             /\ UNCHANGED <<sent, ran>> \/ CancelWorker(p)
  <2>1. CASE Freeze(p) \/ Thaw(p) \/ Stop(p)
    BY <2>1 DEF Freeze, Thaw, Stop
  <2>2. CASE CancelWorker(p) \/ Release(p)
    BY <2>2 DEF CancelWorker, Release
  <2>3. CASE StopItem(p)
    BY <2>3 DEF StopItem
  <2>4. CASE StopSettles(p)
    BY <2>4 DEF StopSettles
  <2> QED
    BY <1>4, <2>1, <2>2, <2>3, <2>4 DEF StopStep
<1>5. ASSUME NEW p \in Owners, LifecycleStep(p)
      PROVE  /\ scene' = scene
             /\ Renew(p) \/ Acquire(p) \/ Attach(p) \/ Crash(p) \/ UNCHANGED <<bind, lease, tok, phase>>
             /\ UNCHANGED <<op, journal>> \/ Acquire(p) \/ StartupRecovery(p)
             /\ UNCHANGED <<sent, ran>> \/ Crash(p)
  BY <1>5 DEF LifecycleStep, Renew, Acquire, Attach, StartupRecovery, ReducerDies, Crash
<1>6. CASE UNCHANGED vars
  BY <1>6 DEF vars
<1> QED
  BY <1>1, <1>2, <1>3, <1>4, <1>5, <1>6 DEF Next

(* Every step keeps what is known of the tokens. *)
LEMMA NextTokenInv ==
    ASSUME TypeOK, TokenInv, [Next]_vars
    PROVE  TokenInv'
<1>t. /\ lease.fence \in Nat /\ bind \in Nat /\ tok \in [Owners -> Nat] /\ phase \in [Owners -> Phases]
      /\ lease \in Leases
  BY DEF TypeOK, Leases
<1> USE DEF TokenInv, Active, Latest
<1>1. CASE UNCHANGED <<bind, lease, tok, phase>>
  BY <1>1
<1>2. CASE LeaseWears
  BY <1>2, <1>t DEF LeaseWears, LeaseLeft, memory
<1>3. ASSUME NEW p \in Owners, Stop(p) \/ StopSettles(p) PROVE TokenInv'
  <2>1. /\ UNCHANGED <<bind, lease, tok>>
        /\ \A q \in Owners \ {p} : phase'[q] = phase[q]
        /\ Active(p)
    BY <1>3, <1>t DEF Stop, StopSettles, durable
  <2> QED
    BY <2>1
<1>4. ASSUME NEW p \in Owners, Release(p) \/ Renew(p) PROVE TokenInv'
  <2>1. /\ UNCHANGED <<bind, tok>> /\ lease'.owner = lease.owner /\ lease'.fence = lease.fence
        /\ lease'.left = "expired" \/ lease.left # "expired" \/ lease' = lease
        /\ \A q \in Owners \ {p} : phase'[q] = phase[q]
        /\ phase'[p] = phase[p] \/ phase'[p] = "detached"
    BY <1>4, <1>t DEF Release, Renew, LeaseLeft, memory
  <2> QED
    BY <2>1, <1>t
<1>5. ASSUME NEW p \in Owners, Acquire(p) PROVE TokenInv'
  <2>1. /\ bind' = bind /\ lease' = [owner |-> p, fence |-> lease.fence + 1, left |-> "headroom"]
        /\ phase' = [phase EXCEPT ![p] = "attaching"]
        /\ tok' = [tok EXCEPT ![p] = lease.fence + 1]
    BY <1>5 DEF Acquire
  <2> QED
    BY <2>1, <1>t
<1>6. ASSUME NEW p \in Owners, Attach(p) PROVE TokenInv'
  <2>1. /\ UNCHANGED <<lease, tok>> /\ phase[p] = "attaching"
        /\ \A q \in Owners \ {p} : phase'[q] = phase[q]
        /\ \/ bind' = bind /\ phase'[p] = "detached"
           \/ bind' = tok[p] /\ lease.owner = p /\ lease.fence = tok[p]
    BY <1>6, <1>t DEF Attach, IsCurrent
  <2> QED
    BY <2>1, <1>t
<1>7. ASSUME NEW p \in Owners, Crash(p) PROVE TokenInv'
  BY <1>7, <1>t DEF Crash, durable
<1> QED
  BY <1>1, <1>2, <1>3, <1>4, <1>5, <1>6, <1>7, Frame

-----------------------------------------------------------------------------
(* How a step of the worker leaves its item: it goes on with it, is done with
   it and tells who waits, or drops it because it was cancelled. *)
GoesOn(p) ==
    /\ Busy(p) /\ Busy(p)' /\ worker'[p].key = worker[p].key
    /\ UNCHANGED <<futures, call>>
IsDone(p) ==
    /\ Busy(p) /\ worker'[p] = IdleWorker
    /\ \E out \in Outcomes : Resolve(p, {worker[p].key}, out)
Drops(p) == worker[p].pc # "exited" /\ worker'[p] = ExitedWorker /\ UNCHANGED <<futures, call>>

(* A receipt that fails is followed by one that says unknown, or by the end. *)
LEMMA FailEffect ==
    ASSUME TypeOK, NEW p \in Owners, worker[p].pc \in Receipts, ReceiptFails(p)
    PROVE  /\ \A q \in Owners \ {p} : worker'[q] = worker[q]
           /\ \/ GoesOn(p) /\ worker'[p].pc = "ambig" /\ ~worker'[p].valid
              \/ IsDone(p) /\ Resolve(p, {worker[p].key}, "ambiguous")
<1>t. worker \in [Owners -> Works] /\ worker[p].rec \in OpStates
  BY DEF TypeOK, Works
<1>1. "ambig" \in WorkerPcs /\ "pending" \in OpStates /\ "ambiguous" \in Outcomes
  BY DEF WorkerPcs, OpStates, Outcomes
<1>2. CASE worker[p].pc = "ambig"
  BY <1>2, <1>1, <1>t DEF ReceiptFails, IsDone, Busy, Receipts
<1>3. CASE worker[p].pc # "ambig"
  <2>1. PICK rec \in OpStates : Goto(p, "ambig", rec) /\ UNCHANGED <<futures, call>>
    BY <1>3, <1>1, <1>t DEF ReceiptFails
  <2>2. /\ worker'[p] = [pc |-> "ambig", key |-> worker[p].key, rec |-> rec, valid |-> FALSE]
        /\ \A q \in Owners \ {p} : worker'[q] = worker[q]
    BY <2>1, <1>1, GotoEffect
  <2> QED
    BY <2>1, <2>2 DEF GoesOn, Busy, Receipts
<1> QED
  BY <1>2, <1>3

(* A receipt that succeeds: the operation goes on to its call, or is settled. *)
LEMMA SuccessEffect ==
    ASSUME TypeOK, NEW p \in Owners, worker[p].pc \in Receipts, ReceiptSucceeds(p)
    PROVE  /\ \A q \in Owners \ {p} : worker'[q] = worker[q]
           /\ \/ /\ GoesOn(p) /\ worker[p].pc = "start"
                 /\ worker'[p].pc = "check2" /\ ~worker'[p].valid
              \/ /\ IsDone(p) /\ worker[p].pc # "start"
                 /\ \E out \in {"ok", "rejected", "ambiguous"} :
                       /\ Resolve(p, {worker[p].key}, out)
                       /\ out = "ok" => worker[p].pc = "confirm"
                       /\ out = "rejected" => worker[p].pc = "reject"
<1>t. worker \in [Owners -> Works]
  BY DEF TypeOK
<1>1. /\ "check2" \in WorkerPcs /\ "started" \in OpStates
      /\ {"ok", "rejected", "ambiguous"} \subseteq Outcomes
  BY DEF WorkerPcs, OpStates, Outcomes
<1>2. CASE worker[p].pc = "start"
  <2>1. Goto(p, "check2", "started") /\ UNCHANGED <<futures, call>>
    BY <1>2 DEF ReceiptSucceeds
  <2>2. /\ worker'[p] = [pc |-> "check2", key |-> worker[p].key, rec |-> "started", valid |-> FALSE]
        /\ \A q \in Owners \ {p} : worker'[q] = worker[q]
    BY <2>1, <1>1, GotoEffect
  <2> QED
    BY <2>1, <2>2, <1>2 DEF GoesOn, Busy
<1>3. CASE worker[p].pc # "start"
  <2> DEFINE o == CASE worker[p].pc = "confirm" -> "ok" [] worker[p].pc = "reject" -> "rejected"
                    [] OTHER -> "ambiguous"
  <2>1. worker' = [worker EXCEPT ![p] = IdleWorker] /\ Resolve(p, {worker[p].key}, o)
    BY <1>3 DEF ReceiptSucceeds
  <2>2. /\ o \in {"ok", "rejected", "ambiguous"}
        /\ o = "ok" => worker[p].pc = "confirm"
        /\ o = "rejected" => worker[p].pc = "reject"
    OBVIOUS
  <2> HIDE DEF o
  <2>3. worker'[p] = IdleWorker /\ \A q \in Owners \ {p} : worker'[q] = worker[q]
    BY <2>1, <1>t
  <2>4. IsDone(p)
    BY <2>1, <2>2, <2>3, <1>1 DEF IsDone, Busy, Receipts
  <2> QED
    BY <1>3, <2>1, <2>2, <2>3, <2>4
<1> QED
  BY <1>2, <1>3

(* No step of the worker but Take touches anything of its process except the
   item it works on. *)
LEMMA WorkerEffect ==
    ASSUME TypeOK, NEW p \in Owners,
           \/ CheckFence(p) \/ ReceiptValidate(p) \/ ReceiptCommit(p) \/ BeforeSend(p)
           \/ Dispatch(p) \/ RpcReturns(p) \/ Defer(p) \/ CancelWorker(p)
    PROVE  /\ UNCHANGED <<scene, lease, bind, phase, tok, accepting, lock, queue>>
           /\ \A q \in Owners \ {p} : worker'[q] = worker[q]
           /\ GoesOn(p) \/ IsDone(p) \/ Drops(p)
<1>t. worker \in [Owners -> Works] /\ worker[p].rec \in OpStates
  BY DEF TypeOK, Works
<1>g. ASSUME NEW pc \in WorkerPcs, Goto(p, pc, worker[p].rec), Busy(p), pc \notin {"idle", "exited"},
             UNCHANGED <<futures, call>>
      PROVE  GoesOn(p) /\ \A q \in Owners \ {p} : worker'[q] = worker[q]
  <2>1. /\ worker'[p] = [pc |-> pc, key |-> worker[p].key, rec |-> worker[p].rec, valid |-> FALSE]
        /\ \A q \in Owners \ {p} : worker'[q] = worker[q]
    BY <1>t, <1>g, GotoEffect
  <2> QED
    BY <2>1, <1>g DEF GoesOn, Busy
<1> USE DEF durable, memory, world
<1>1. CASE CheckFence(p)
  <2>1. PICK pc \in {"start", "call", "confirm", "defer", "ambig"} : Goto(p, pc, worker[p].rec)
    BY <1>1 DEF CheckFence, NextOf
  <2>2. pc \in WorkerPcs /\ Busy(p) /\ UNCHANGED <<futures, call>>
    BY <1>1 DEF CheckFence, WorkerPcs, Busy
  <2> QED
    BY <1>1, <2>1, <2>2, <1>g DEF CheckFence
<1>2. CASE ReceiptValidate(p)
  <2>1. CASE ReceiptFails(p)
    BY <1>2, <2>1, FailEffect DEF ReceiptValidate
  <2>2. CASE /\ worker' = [worker EXCEPT ![p] = [pc |-> worker[p].pc, key |-> worker[p].key,
                                                 rec |-> worker[p].rec, valid |-> TRUE]]
             /\ UNCHANGED <<reducer, futures, call>>
    BY <1>2, <2>2, <1>t DEF ReceiptValidate, GoesOn, Busy, Receipts
  <2> QED
    BY <1>2, <2>1, <2>2 DEF ReceiptValidate
<1>3. CASE ReceiptCommit(p)
  <2>1. ReceiptFails(p) \/ ReceiptSucceeds(p) \/ ReceiptInterrupted(p)
    BY <1>3 DEF ReceiptCommit
  <2>2. worker[p].pc \in Receipts /\ UNCHANGED <<scene, lease, bind, phase, tok, accepting, lock, queue>>
    BY <1>3 DEF ReceiptCommit
  <2>3. CASE ReceiptInterrupted(p)
    BY <2>2, <2>3, <1>t DEF ReceiptInterrupted, Drops, Receipts
  <2> QED
    BY <2>1, <2>2, <2>3, FailEffect, SuccessEffect
<1>4. CASE BeforeSend(p)
  <2>1. PICK pc \in {"defer", "reject", "ambig"} : Goto(p, pc, worker[p].rec)
    BY <1>4 DEF BeforeSend
  <2>2. pc \in WorkerPcs /\ Busy(p) /\ UNCHANGED <<futures, call>>
    BY <1>4 DEF BeforeSend, WorkerPcs, Busy
  <2> QED
    BY <1>4, <2>1, <2>2, <1>g DEF BeforeSend
<1>5. CASE Dispatch(p)
  <2>2. "inflight" \in WorkerPcs /\ Busy(p) /\ UNCHANGED <<futures, call>>
    BY <1>5 DEF Dispatch, WorkerPcs, Busy
  <2> QED
    BY <1>5, <2>2, <1>g DEF Dispatch
<1>6. CASE RpcReturns(p)
  <2>1. PICK pc \in {"check3", "reject", "ambig"} : Goto(p, pc, worker[p].rec)
    BY <1>6 DEF RpcReturns
  <2>2. pc \in WorkerPcs /\ Busy(p) /\ UNCHANGED <<futures, call>>
    BY <1>6 DEF RpcReturns, WorkerPcs, Busy
  <2> QED
    BY <1>6, <2>1, <2>2, <1>g DEF RpcReturns
<1>7. CASE Defer(p)
  <2>1. PICK out \in Outcomes : Resolve(p, {worker[p].key}, out)
    BY <1>7 DEF Defer, Outcomes
  <2>2. worker'[p] = IdleWorker /\ \A q \in Owners \ {p} : worker'[q] = worker[q]
    BY <1>7, <1>t DEF Defer
  <2> QED
    BY <1>7, <2>1, <2>2 DEF Defer, IsDone, Busy
<1>8. CASE CancelWorker(p)
  <2>1. CASE worker' = [worker EXCEPT ![p] = ExitedWorker] /\ worker[p].pc # "exited"
    BY <1>8, <2>1, <1>t DEF CancelWorker, Drops
  <2>2. CASE worker[p].pc = "inflight" /\ Goto(p, "ambig", worker[p].rec)
    <3>1. "ambig" \in WorkerPcs /\ Busy(p) /\ UNCHANGED <<futures, call>>
      BY <1>8, <2>2 DEF CancelWorker, WorkerPcs, Busy
    <3> QED
      BY <1>8, <2>2, <3>1, <1>g DEF CancelWorker
  <2> QED
    BY <1>8, <2>1, <2>2 DEF CancelWorker
<1> QED
  BY <1>1, <1>2, <1>3, <1>4, <1>5, <1>6, <1>7, <1>8

-----------------------------------------------------------------------------
(* A resolved future shows in nothing but the waiting calls. *)
LEMMA DoneEffect ==
    ASSUME TypeOK, NEW p \in Owners, NEW ks, NEW out \in Outcomes, Resolve(p, ks, out)
    PROVE  /\ \A q \in Owners : futures'[q] \subseteq futures[q]
           /\ \A c \in Callers : /\ call'[c].pc = "begin" <=> call[c].pc = "begin"
                                 /\ call[c].pc = "done" => call'[c] = call[c]
BY ResolveEffect

(* Every step keeps the local order of a process: what it holds in each phase,
   its submission lock, and where the keys of its mailbox are. *)
LEMMA NextLocalInv ==
    ASSUME TypeOK, TypeOK', IdleInv, LockInv, KeyInv, HostInv, [Next]_vars
    PROVE  IdleInv' /\ LockInv' /\ KeyInv' /\ HostInv'
<1>t. /\ KeyOf \in [Callers -> Keys] /\ HostOf \in [Callers -> Owners] /\ KeyOf' = KeyOf
      /\ scene.calls \in SUBSET Callers /\ scene' = scene /\ NoCaller \notin Callers
  BY SceneType, MailboxAssumption, Frame DEF KeyOf
<1>f. /\ phase \in [Owners -> Phases] /\ accepting \in [Owners -> BOOLEAN]
      /\ lock \in [Owners -> Callers \cup {NoCaller}] /\ queue \in [Owners -> Seq(Items)]
      /\ futures \in [Owners -> SUBSET Keys] /\ worker \in [Owners -> Works] /\ call \in [Callers -> Calls]
  BY DEF TypeOK
<1>s. UNCHANGED <<phase, accepting, lock, queue, futures, worker, call>>
        => IdleInv' /\ LockInv' /\ KeyInv' /\ HostInv'
  BY <1>t DEF IdleInv, LockInv, KeyInv, HostInv, Active, Busy, Queued
<1>w. IdleWorker.pc = "idle" /\ ExitedWorker.pc = "exited"
  BY DEF IdleWorker, ExitedWorker
<1> USE DEF durable, memory, world
<1>1. CASE LeaseWears
  BY <1>1, <1>s DEF LeaseWears
<1>2. ASSUME NEW c \in Callers, CallerStep(c) PROVE IdleInv' /\ LockInv' /\ KeyInv' /\ HostInv'
  <2> DEFINE p == HostOf[c] k == KeyOf[c]
  <2>h. p \in Owners /\ k \in Keys
    BY <1>t
  <2>1. CASE SubmitRefused(c) \/ SubmitJoins(c) \/ SubmitReplays(c)
    <3>1. /\ call[c].pc = "idle" /\ call'[c].pc \notin {"idle", "begin"}
          /\ \A d \in Callers \ {c} : call'[d] = call[d]
          /\ UNCHANGED <<phase, accepting, lock, queue, futures, worker>>
      BY <2>1, <1>f DEF SubmitRefused, SubmitJoins, SubmitReplays, Answer, CallAt
    <3>2. IdleInv' /\ KeyInv'
      BY <3>1 DEF IdleInv, KeyInv, Active, Busy, Queued
    <3>3. LockInv'
      BY <3>1, <1>t DEF LockInv
    <3>4. HostInv'
      BY <3>1, <1>t DEF HostInv
    <3> QED
      BY <3>2, <3>3, <3>4
  <2>2. CASE SubmitBegins(c)
    <3>1. /\ call[c].pc = "idle" /\ call'[c].pc = "begin"
          /\ \A d \in Callers \ {c} : call'[d] = call[d]
          /\ UNCHANGED <<phase, accepting, queue, futures, worker>>
          /\ lock[p] = NoCaller /\ lock'[p] = c /\ k \notin futures[p]
          /\ \A q \in Owners \ {p} : lock'[q] = lock[q]
      BY <2>2, <2>h, <1>f DEF SubmitBegins, CallAt
    <3>2. phase[p] = "running"
      BY <2>2, <2>h DEF SubmitBegins, Admits, IdleInv
    <3>3. IdleInv' /\ KeyInv'
      BY <3>1, <3>2 DEF IdleInv, KeyInv, Active, Busy, Queued
    <3>4. LockInv'
      BY <3>1, <1>t DEF LockInv
    <3>5. HostInv'
      BY <3>1, <1>t DEF HostInv
    <3> QED
      BY <3>3, <3>4, <3>5
  <2>3. CASE BeginValidate(c)
    <3>1. /\ call[c].pc = "begin" /\ \A d \in Callers \ {c} : call'[d] = call[d]
          /\ UNCHANGED <<phase, accepting, queue, futures, worker>>
          /\ \A q \in Owners \ {p} : lock'[q] = lock[q]
          /\ \/ call'[c].pc = "begin" /\ lock' = lock
             \/ call'[c].pc = "done" /\ lock'[p] = NoCaller
      BY <2>3, <2>h, <1>f DEF BeginValidate, CallAt, Answer
    <3>2. IdleInv' /\ KeyInv'
      BY <3>1 DEF IdleInv, KeyInv, Active, Busy, Queued
    <3>3. LockInv'
      BY <3>1, <1>t DEF LockInv
    <3>4. HostInv'
      BY <3>1, <1>t DEF HostInv
    <3> QED
      BY <3>2, <3>3, <3>4
  <2>4. CASE BeginCommit(c)
    <3>1. /\ call[c].pc = "begin" /\ call'[c].pc \in {"done", "await"}
          /\ \A d \in Callers \ {c} : call'[d] = call[d]
          /\ UNCHANGED <<phase, accepting, worker>>
          /\ lock'[p] = NoCaller /\ \A q \in Owners \ {p} : lock'[q] = lock[q]
      BY <2>4, <2>h, <1>f DEF BeginCommit, CallAt, Answer
    <3>2. \/ UNCHANGED <<queue, futures>>
          \/ /\ queue' = [queue EXCEPT ![p] = Append(queue[p], [key |-> k, rec |-> op'[k].state])]
             /\ futures' = [futures EXCEPT ![p] = futures[p] \cup {k}]
      BY <2>4 DEF BeginCommit
    <3>3. lock[p] = c /\ k \notin futures[p] /\ phase[p] = "running" /\ c \in scene.calls
      BY <3>1, <2>h, <1>t DEF LockInv, IdleInv, HostInv
    <3>4. CASE UNCHANGED <<queue, futures>>
      <4>1. IdleInv' /\ KeyInv'
        BY <3>1, <3>4, <3>3 DEF IdleInv, KeyInv, Active, Busy, Queued
      <4>2. LockInv'
        BY <3>1, <3>3, <3>4, <1>t DEF LockInv
      <4>3. HostInv'
        BY <3>1, <3>3, <3>4, <1>t DEF HostInv
      <4> QED
        BY <4>1, <4>2, <4>3
    <3>5. CASE /\ queue' = [queue EXCEPT ![p] = Append(queue[p], [key |-> k, rec |-> op'[k].state])]
               /\ futures' = [futures EXCEPT ![p] = futures[p] \cup {k}]
      <4> DEFINE e == [key |-> k, rec |-> op'[k].state]
      <4>1. e \in Items
        BY <2>h DEF TypeOK, Rows, Items
      <4>2. /\ Len(queue[p]) \in Nat /\ Len(queue'[p]) = Len(queue[p]) + 1
            /\ \A i \in 1..Len(queue[p]) : queue'[p][i] = queue[p][i]
            /\ queue'[p][Len(queue[p]) + 1].key = k
            /\ \A q \in Owners \ {p} : queue'[q] = queue[q]
        BY <3>5, <4>1, <2>h, <1>f, AppendEffect
      <4>3. futures'[p] = futures[p] \cup {k} /\ \A q \in Owners \ {p} : futures'[q] = futures[q]
        BY <3>5, <2>h, <1>f
      <4> HIDE DEF p, k, e
      <4>4. IdleInv'
        BY <3>1, <3>3, <4>2, <4>3, <2>h DEF IdleInv, Active
      <4>5. KeyInv'
        <5> SUFFICES ASSUME NEW q \in Owners
                     PROVE  /\ \A i \in Queued(q)' : queue'[q][i].key \in futures'[q]
                            /\ \A i, j \in Queued(q)' : queue'[q][i].key = queue'[q][j].key => i = j
                            /\ Busy(q)' => /\ worker'[q].key \in futures'[q]
                                           /\ \A i \in Queued(q)' : queue'[q][i].key # worker'[q].key
          BY DEF KeyInv
        <5>1. CASE q # p
          BY <5>1, <3>1, <4>2, <4>3 DEF KeyInv, Busy, Queued
        <5>2. CASE q = p
          <6>1. \A i \in Queued(p)' : \/ i \in Queued(p) /\ queue'[p][i] = queue[p][i]
                                      \/ i = Len(queue[p]) + 1 /\ queue'[p][i].key = k
            BY <4>2 DEF Queued
          <6> QED
            BY <5>2, <6>1, <3>1, <3>3, <4>3, <2>h DEF KeyInv, Busy
        <5> QED
          BY <5>1, <5>2
      <4>6. LockInv'
        BY <3>1, <3>3, <4>3, <2>h, <1>t DEF LockInv
      <4>7. HostInv'
        <5>1. HostOf[c] = p /\ KeyOf[c] = k
          BY DEF p, k
        <5> QED
          BY <5>1, <3>1, <3>3, <4>3, <1>t DEF HostInv
      <4> QED
        BY <4>4, <4>5, <4>6, <4>7
    <3> QED
      BY <3>2, <3>4, <3>5
  <2> QED
    BY <1>2, <2>1, <2>2, <2>3, <2>4 DEF CallerStep
<1>3. ASSUME NEW p \in Owners,
             /\ UNCHANGED <<scene, lease, bind, phase, tok, accepting, lock, queue>>
             /\ \A q \in Owners \ {p} : worker'[q] = worker[q]
             /\ GoesOn(p) \/ IsDone(p) \/ Drops(p)
      PROVE  IdleInv' /\ LockInv' /\ KeyInv' /\ HostInv'
  <2>1. CASE GoesOn(p)
    <3>1. IdleInv' /\ KeyInv'
      BY <1>3, <2>1 DEF GoesOn, IdleInv, KeyInv, Active, Busy, Queued
    <3>2. LockInv' /\ HostInv'
      BY <1>3, <2>1, <1>t DEF GoesOn, LockInv, HostInv
    <3> QED
      BY <3>1, <3>2
  <2>2. CASE Drops(p)
    <3>1. IdleInv' /\ KeyInv'
      BY <1>3, <2>2, <1>w DEF Drops, IdleInv, KeyInv, Active, Busy, Queued
    <3>2. LockInv' /\ HostInv'
      BY <1>3, <2>2, <1>t DEF Drops, LockInv, HostInv
    <3> QED
      BY <3>1, <3>2
  <2>3. CASE IsDone(p)
    <3>1. PICK out \in Outcomes : Resolve(p, {worker[p].key}, out)
      BY <2>3 DEF IsDone
    <3>2. /\ futures'[p] = futures[p] \ {worker[p].key}
          /\ \A q \in Owners \ {p} : futures'[q] = futures[q]
      BY <3>1, ResolveEffect
    <3>3. /\ \A q \in Owners : futures'[q] \subseteq futures[q]
          /\ \A c \in Callers : /\ call'[c].pc = "begin" <=> call[c].pc = "begin"
                                /\ call[c].pc = "done" => call'[c] = call[c]
      BY <3>1, DoneEffect
    <3>4. Busy(p) /\ worker'[p].pc = "idle"
      BY <2>3, <1>w DEF IsDone
    <3>5. IdleInv'
      BY <1>3, <3>2, <3>4 DEF IdleInv, Active, Busy
    <3>6. KeyInv'
      BY <1>3, <3>2, <3>4 DEF KeyInv, Busy, Queued
    <3>7. LockInv'
      BY <1>3, <3>3, <1>t DEF LockInv
    <3>8. HostInv'
      BY <3>3, <1>t DEF HostInv
    <3> QED
      BY <3>5, <3>6, <3>7, <3>8
  <2> QED
    BY <1>3, <2>1, <2>2, <2>3
<1>4. ASSUME NEW p \in Owners, Take(p) PROVE IdleInv' /\ LockInv' /\ KeyInv' /\ HostInv'
  <2>1. /\ UNCHANGED <<phase, accepting, lock, futures, call>>
        /\ phase[p] \in {"running", "stopping"} /\ queue[p] # <<>> /\ worker[p].pc = "idle"
        /\ worker'[p].key = Head(queue[p]).key /\ worker'[p].pc = "check1"
        /\ queue'[p] = Tail(queue[p])
        /\ \A q \in Owners \ {p} : worker'[q] = worker[q] /\ queue'[q] = queue[q]
    BY <1>4, <1>f DEF Take, Working
  <2>2. /\ Len(queue[p]) \in Nat /\ Len(queue[p]) > 0 /\ Len(queue'[p]) = Len(queue[p]) - 1
        /\ \A i \in 1..Len(queue'[p]) : i + 1 \in 1..Len(queue[p]) /\ queue'[p][i] = queue[p][i + 1]
        /\ worker'[p].key = queue[p][1].key
    BY <2>1, <1>f, TailEffect
  <2>3. IdleInv'
    BY <2>1 DEF IdleInv, Active
  <2>4. KeyInv'
    <3> SUFFICES ASSUME NEW q \in Owners
                 PROVE  /\ \A i \in Queued(q)' : queue'[q][i].key \in futures'[q]
                        /\ \A i, j \in Queued(q)' : queue'[q][i].key = queue'[q][j].key => i = j
                        /\ Busy(q)' => /\ worker'[q].key \in futures'[q]
                                       /\ \A i \in Queued(q)' : queue'[q][i].key # worker'[q].key
      BY DEF KeyInv
    <3>1. CASE q # p
      BY <3>1, <2>1 DEF KeyInv, Busy, Queued
    <3>2. CASE q = p
      <4>1. \A i \in Queued(p)' : i \in Nat /\ i + 1 \in Queued(p) /\ i + 1 # 1 /\ queue'[p][i] = queue[p][i + 1]
        BY <2>2 DEF Queued
      <4>2. 1 \in Queued(p)
        BY <2>2 DEF Queued
      <4>3. \A i, j \in Queued(p)' : i + 1 = j + 1 => i = j
        BY <4>1
      <4>4. /\ \A i \in Queued(p) : queue[p][i].key \in futures[p]
            /\ \A i, j \in Queued(p) : queue[p][i].key = queue[p][j].key => i = j
        BY DEF KeyInv
      <4>5. \A i, j \in Queued(p)' : queue'[p][i].key = queue'[p][j].key => i = j
        BY <4>1, <4>3, <4>4
      <4>6. \A i \in Queued(p)' : queue'[p][i].key \in futures[p] /\ queue'[p][i].key # queue[p][1].key
        BY <4>1, <4>2, <4>4
      <4> QED
        BY <3>2, <4>2, <4>4, <4>5, <4>6, <2>1, <2>2
    <3> QED
      BY <3>1, <3>2
  <2>5. LockInv' /\ HostInv'
    BY <2>1, <1>t DEF LockInv, HostInv
  <2> QED
    BY <2>3, <2>4, <2>5
<1>5. ASSUME NEW p \in Owners, Freeze(p) \/ Thaw(p) \/ Stop(p) PROVE IdleInv' /\ LockInv' /\ KeyInv' /\ HostInv'
  <2>1. /\ UNCHANGED <<lock, queue, futures, worker, call>>
        /\ \A q \in Owners \ {p} : phase'[q] = phase[q] /\ accepting'[q] = accepting[q]
        /\ phase[p] = "running"
        /\ \/ phase'[p] = "running"
           \/ phase'[p] \in {"stopping", "emergency"} /\ ~accepting'[p] /\ lock[p] = NoCaller
    BY <1>5, <1>f DEF Freeze, Thaw, Stop
  <2>2. IdleInv'
    BY <2>1 DEF IdleInv, Active
  <2>3. LockInv' /\ KeyInv' /\ HostInv'
    BY <2>1, <1>t DEF LockInv, KeyInv, HostInv, Busy, Queued
  <2> QED
    BY <2>2, <2>3
<1>6. ASSUME NEW p \in Owners, StopItem(p) PROVE IdleInv' /\ LockInv' /\ KeyInv' /\ HostInv'
  <2>1. /\ UNCHANGED <<phase, accepting, lock, worker>> /\ queue[p] # <<>>
        /\ phase[p] \in {"stopping", "emergency"} /\ worker[p].pc = "exited"
        /\ queue'[p] = Tail(queue[p]) /\ \A q \in Owners \ {p} : queue'[q] = queue[q]
    BY <1>6, <1>f DEF StopItem
  <2>2. PICK out \in Outcomes : Resolve(p, {Head(queue[p]).key}, out)
    BY <1>6 DEF StopItem, Outcomes
  <2>3. /\ Len(queue[p]) \in Nat /\ Len(queue[p]) > 0 /\ Len(queue'[p]) = Len(queue[p]) - 1
        /\ \A i \in 1..Len(queue'[p]) : i + 1 \in 1..Len(queue[p]) /\ queue'[p][i] = queue[p][i + 1]
        /\ Head(queue[p]) = queue[p][1]
    BY <2>1, <1>f, TailEffect
  <2>4. /\ futures'[p] = futures[p] \ {queue[p][1].key}
        /\ \A q \in Owners \ {p} : futures'[q] = futures[q]
    BY <2>2, <2>3, ResolveEffect
  <2>5. /\ \A q \in Owners : futures'[q] \subseteq futures[q]
        /\ \A c \in Callers : /\ call'[c].pc = "begin" <=> call[c].pc = "begin"
                              /\ call[c].pc = "done" => call'[c] = call[c]
    BY <2>2, DoneEffect
  <2>6. IdleInv'
    BY <2>1, <2>4 DEF IdleInv, Active
  <2>7. KeyInv'
    <3> SUFFICES ASSUME NEW q \in Owners
                 PROVE  /\ \A i \in Queued(q)' : queue'[q][i].key \in futures'[q]
                        /\ \A i, j \in Queued(q)' : queue'[q][i].key = queue'[q][j].key => i = j
                        /\ Busy(q)' => /\ worker'[q].key \in futures'[q]
                                       /\ \A i \in Queued(q)' : queue'[q][i].key # worker'[q].key
      BY DEF KeyInv
    <3>1. CASE q # p
      BY <3>1, <2>1, <2>4 DEF KeyInv, Busy, Queued
    <3>2. CASE q = p
      <4>1. \A i \in Queued(p)' : i \in Nat /\ i + 1 \in Queued(p) /\ i + 1 # 1 /\ queue'[p][i] = queue[p][i + 1]
        BY <2>3 DEF Queued
      <4>2. 1 \in Queued(p)
        BY <2>3 DEF Queued
      <4>3. \A i, j \in Queued(p)' : i + 1 = j + 1 => i = j
        BY <4>1
      <4>4. ~Busy(p)'
        BY <2>1 DEF Busy
      <4> QED
        BY <3>2, <4>1, <4>2, <4>3, <4>4, <2>4 DEF KeyInv
    <3> QED
      BY <3>1, <3>2
  <2>8. LockInv'
    BY <2>1, <2>5, <1>t DEF LockInv
  <2>9. HostInv'
    BY <2>5, <1>t DEF HostInv
  <2> QED
    BY <2>6, <2>7, <2>8, <2>9
<1>7. ASSUME NEW p \in Owners, StopSettles(p) PROVE IdleInv' /\ LockInv' /\ KeyInv' /\ HostInv'
  <2>1. /\ UNCHANGED <<accepting, lock, queue>> /\ queue[p] = <<>>
        /\ phase[p] \in {"stopping", "emergency"} /\ phase'[p] = "settling"
        /\ worker'[p] = ExitedWorker
        /\ \A q \in Owners \ {p} : phase'[q] = phase[q] /\ worker'[q] = worker[q]
    BY <1>7, <1>f DEF StopSettles
  <2>2. "ambiguous" \in Outcomes /\ Resolve(p, futures[p], "ambiguous")
    BY <1>7 DEF StopSettles, Outcomes
  <2>3. futures'[p] = {} /\ \A q \in Owners \ {p} : futures'[q] = futures[q]
    BY <2>2, ResolveEffect
  <2>4. /\ \A q \in Owners : futures'[q] \subseteq futures[q]
        /\ \A c \in Callers : /\ call'[c].pc = "begin" <=> call[c].pc = "begin"
                              /\ call[c].pc = "done" => call'[c] = call[c]
    BY <2>2, DoneEffect
  <2>5. IdleInv'
    BY <2>1, <2>3, <1>w DEF IdleInv, Active
  <2>6. KeyInv'
    <3>1. \A i \in Queued(p) : FALSE
      BY <2>1 DEF Queued
    <3> QED
      BY <2>1, <2>3, <3>1, <1>w DEF KeyInv, Busy, Queued
  <2>7. LockInv'
    BY <2>1, <2>4, <1>t DEF LockInv
  <2>8. HostInv'
    BY <2>4, <1>t DEF HostInv
  <2> QED
    BY <2>5, <2>6, <2>7, <2>8
<1>8. ASSUME NEW p \in Owners, Release(p) \/ Acquire(p) \/ Attach(p) PROVE IdleInv' /\ LockInv' /\ KeyInv' /\ HostInv'
  <2>1. /\ UNCHANGED <<lock, queue, futures, call>> /\ ~Active(p)
        /\ \A q \in Owners \ {p} : phase'[q] = phase[q] /\ accepting'[q] = accepting[q] /\ worker'[q] = worker[q]
        /\ \/ accepting'[p] = accepting[p] /\ worker'[p] = worker[p] /\ phase'[p] \in {"detached", "attaching"}
           \/ phase'[p] = "running" /\ worker'[p] = IdleWorker
    BY <1>8, <1>f DEF Release, Acquire, Attach, Active
  <2>2. IdleInv'
    BY <2>1 DEF IdleInv, Active
  <2>3. KeyInv'
    BY <2>1, <1>w DEF KeyInv, Busy, Queued
  <2>4. LockInv' /\ HostInv'
    BY <2>1, <1>t DEF LockInv, HostInv
  <2> QED
    BY <2>2, <2>3, <2>4
<1>9. ASSUME NEW p \in Owners, Crash(p) PROVE IdleInv' /\ LockInv' /\ KeyInv' /\ HostInv'
  <2>1. /\ \A q \in Owners \ {p} : /\ phase'[q] = phase[q] /\ accepting'[q] = accepting[q] /\ lock'[q] = lock[q]
                                   /\ queue'[q] = queue[q] /\ futures'[q] = futures[q] /\ worker'[q] = worker[q]
        /\ phase'[p] = "crashed" /\ ~accepting'[p] /\ lock'[p] = NoCaller /\ queue'[p] = <<>>
        /\ futures'[p] = {} /\ worker'[p] = ExitedWorker
    BY <1>9, <1>f DEF Crash
  <2>2. /\ \A c \in Callers : HostOf[c] # p \/ call[c].pc = "done" => call'[c] = call[c]
        /\ \A c \in Callers : HostOf[c] = p => call'[c].pc = "done"
    BY <1>9, <1>f DEF Crash
  <2>3. IdleInv'
    BY <2>1, <1>w DEF IdleInv, Active
  <2>4. KeyInv'
    <3>1. \A i \in Queued(p)' : FALSE
      BY <2>1 DEF Queued
    <3> QED
      BY <2>1, <3>1, <1>w DEF KeyInv, Busy, Queued
  <2>5. LockInv'
    BY <2>1, <2>2, <1>t DEF LockInv
  <2>6. HostInv'
    BY <2>1, <2>2, <1>t DEF HostInv
  <2> QED
    BY <2>3, <2>4, <2>5, <2>6
<1>10. ASSUME NEW p \in Owners, Renew(p) \/ StartupRecovery(p) \/ ReducerDies(p)
       PROVE  IdleInv' /\ LockInv' /\ KeyInv' /\ HostInv'
  BY <1>10, <1>s DEF Renew, StartupRecovery, ReducerDies
<1>11. CASE UNCHANGED vars
  BY <1>11, <1>s DEF vars
<1>12. ASSUME NEW p \in Owners, WorkerStep(p) PROVE IdleInv' /\ LockInv' /\ KeyInv' /\ HostInv'
  BY <1>12, <1>3, <1>4, WorkerEffect DEF WorkerStep
<1>13. ASSUME NEW p \in Owners, StopStep(p) PROVE IdleInv' /\ LockInv' /\ KeyInv' /\ HostInv'
  BY <1>13, <1>3, <1>5, <1>6, <1>7, <1>8, WorkerEffect DEF StopStep
<1> QED
  BY <1>1, <1>2, <1>8, <1>9, <1>10, <1>11, <1>12, <1>13 DEF Next, LifecycleStep

(* Without zombies one process at a time stays up. *)
LEMMA NextAloneInv ==
    ASSUME TypeOK, AloneInv, [Next]_vars
    PROVE  AloneInv'
<1>t. phase \in [Owners -> Phases] /\ Zombies' = Zombies
  BY Frame DEF TypeOK, Zombies
<1>1. CASE UNCHANGED <<bind, lease, tok, phase>>
  BY <1>1, <1>t DEF AloneInv
<1>2. CASE LeaseWears
  BY <1>2, <1>t DEF AloneInv, LeaseWears, memory
<1>3. ASSUME NEW p \in Owners,
             Stop(p) \/ StopSettles(p) \/ Release(p) \/ Renew(p) \/ Attach(p) \/ Crash(p)
      PROVE  AloneInv'
  <2>1. /\ \A q \in Owners \ {p} : phase'[q] = phase[q]
        /\ phase[p] \notin {"detached", "crashed"} \/ phase'[p] \in {"detached", "crashed", phase[p]}
    BY <1>3, <1>t DEF Stop, StopSettles, Release, Renew, Attach, Crash, memory
  <2> QED
    BY <2>1, <1>t DEF AloneInv
<1>4. ASSUME NEW p \in Owners, Acquire(p) PROVE AloneInv'
  BY <1>4, <1>t DEF AloneInv, Acquire
<1> QED
  BY <1>1, <1>2, <1>3, <1>4, Frame

-----------------------------------------------------------------------------
(* What a receipt that reaches the transaction does: to the row and the
   journal, and to the worker that waits for it. *)
LEMMA CommitEffect ==
    ASSUME TypeOK, ReceiptInv, NEW p \in Owners, ReceiptCommit(p)
    PROVE  /\ worker[p].pc \in Receipts /\ worker[p].key \in Keys
           /\ From(worker[p]) \in {"pending", "started"}
           /\ \/ UNCHANGED <<op, journal>>
              \/ /\ bind = tok[p]
                 /\ op[worker[p].key].state = From(worker[p])
                 /\ op'[worker[p].key].state = Target(worker[p].pc)
                 /\ op'[worker[p].key].fence = op[worker[p].key].fence
                 /\ \A k \in Keys \ {worker[p].key} : op'[k] = op[k]
                 /\ journal' = journal \cup {<<worker[p].key, Target(worker[p].pc)>>}
           /\ \/ GoesOn(p) /\ worker'[p].pc = "ambig" /\ ~worker'[p].valid
              \/ /\ GoesOn(p) /\ worker[p].pc = "start" /\ worker'[p].pc = "check2" /\ ~worker'[p].valid
                 /\ op'[worker[p].key].state = "started"
                 /\ bind = tok[p] => <<worker[p].key, "started">> \in journal'
              \/ /\ IsDone(p)
                 /\ \E out \in {"ok", "rejected", "ambiguous"} :
                       /\ Resolve(p, {worker[p].key}, out)
                       /\ out = "ok" => op'[worker[p].key].state = "confirmed"
                       /\ out = "rejected" => op'[worker[p].key].state = "rejected"
              \/ Drops(p)
<1> DEFINE w == worker[p] k == w.key to == Target(w.pc)
<1>t. /\ op \in [Keys -> Rows] /\ worker \in [Owners -> Works]
      /\ k \in Keys /\ w.pc \in Receipts /\ w.valid
  BY DEF TypeOK, Works, ReceiptCommit
<1>1. From(w) \in {"pending", "started"}
  BY <1>t DEF ReceiptInv, Allowed, From
<1>2. CASE ReceiptFails(p) /\ UNCHANGED <<op, journal>>
  BY <1>1, <1>2, <1>t, FailEffect
<1>3. CASE /\ op' = AfterTransition(p, k, From(w), to)
           /\ ~TransitionFails(p, k, From(w), to)
           /\ journal' = IF bind = tok[p] THEN journal \cup {<<k, to>>} ELSE journal
           /\ \/ op'[k].state = to /\ ReceiptSucceeds(p)
              \/ op'[k].state # to /\ ReceiptFails(p)
              \/ ReceiptInterrupted(p)
  <2>1. \/ UNCHANGED <<op, journal>>
        \/ /\ bind = tok[p] /\ op[k].state = From(w)
           /\ op'[k].state = to /\ op'[k].fence = op[k].fence
           /\ \A j \in Keys \ {k} : op'[j] = op[j]
           /\ journal' = journal \cup {<<k, to>>}
    BY <1>3, <1>t DEF AfterTransition, TransitionFails, Passes, Becomes
  <2>2. CASE ReceiptInterrupted(p)
    BY <1>1, <1>t, <2>1, <2>2 DEF ReceiptInterrupted, Drops, Receipts
  <2>3. CASE op'[k].state # to /\ ReceiptFails(p)
    BY <1>1, <1>t, <2>1, <2>3, FailEffect
  <2>4. CASE op'[k].state = to /\ ReceiptSucceeds(p)
    <3>1. \/ /\ GoesOn(p) /\ w.pc = "start"
             /\ worker'[p].pc = "check2" /\ ~worker'[p].valid
          \/ /\ IsDone(p) /\ w.pc # "start"
             /\ \E out \in {"ok", "rejected", "ambiguous"} :
                   /\ Resolve(p, {k}, out)
                   /\ out = "ok" => w.pc = "confirm"
                   /\ out = "rejected" => w.pc = "reject"
      BY <2>4, <1>t, SuccessEffect
    <3>2. /\ w.pc = "start" => to = "started"
          /\ w.pc = "confirm" => to = "confirmed"
          /\ w.pc = "reject" => to = "rejected"
      BY DEF Target
    <3>3. bind = tok[p] => <<k, to>> \in journal'
      BY <1>3
    <3>4. CASE GoesOn(p) /\ w.pc = "start" /\ worker'[p].pc = "check2" /\ ~worker'[p].valid
      BY <1>1, <1>t, <2>1, <2>4, <3>2, <3>3, <3>4
    <3>5. ASSUME IsDone(p), NEW out \in {"ok", "rejected", "ambiguous"}, Resolve(p, {k}, out),
                 out = "ok" => w.pc = "confirm", out = "rejected" => w.pc = "reject"
          PROVE  /\ IsDone(p)
                 /\ \E o \in {"ok", "rejected", "ambiguous"} :
                       /\ Resolve(p, {k}, o)
                       /\ o = "ok" => op'[k].state = "confirmed"
                       /\ o = "rejected" => op'[k].state = "rejected"
      BY <2>4, <3>2, <3>5
    <3> QED
      BY <1>1, <1>t, <2>1, <3>1, <3>4, <3>5
  <2> QED
    BY <1>3, <2>2, <2>3, <2>4
<1> QED
  BY <1>2, <1>3 DEF ReceiptCommit

(* A row that exists is changed by receipts, deferrals, takeovers and
   recovery; none of them makes it vanish or changes a known outcome. *)
LEMMA RowEffect ==
    ASSUME TypeOK, ReceiptInv, NEW p \in Owners,
           \/ ReceiptCommit(p) \/ Defer(p) \/ StopItem(p) \/ StopSettles(p)
           \/ Acquire(p) \/ StartupRecovery(p)
    PROVE  /\ \A k \in Keys :
                 \/ op'[k] = op[k]
                 \/ /\ op[k].state \in {"pending", "started", "unknown"}
                    /\ op'[k].state # "none" /\ op'[k].fence = op[k].fence
           /\ ~ReceiptCommit(p) => journal' = journal
<1>t. op \in [Keys -> Rows] /\ worker[p].key \in Keys /\ queue \in [Owners -> Seq(Items)]
  BY DEF TypeOK, Works
<1>d. ASSUME NEW k \in Keys, op' = AfterSettleDeferred(k)
      PROVE  \A j \in Keys : \/ op'[j] = op[j]
                             \/ /\ op[j].state \in {"pending", "started", "unknown"}
                                /\ op'[j].state # "none" /\ op'[j].fence = op[j].fence
  BY <1>t, <1>d DEF AfterSettleDeferred, CanSettleDeferred, Becomes
<1>1. CASE ReceiptCommit(p)
  <2>1. Target(worker[p].pc) # "none"
    BY DEF Target
  <2> QED
    BY <1>1, <2>1, CommitEffect
<1>2. CASE Defer(p)
  BY <1>2, <1>t, <1>d DEF Defer
<1>3. CASE StopItem(p)
  <2>1. Head(queue[p]) \in Items
    BY <1>3, <1>t, TailEffect DEF StopItem
  <2>2. Head(queue[p]).key \in Keys
    BY <2>1 DEF Items
  <2> QED
    BY <1>3, <1>d, <2>2 DEF StopItem
<1>4. CASE StopSettles(p)
  BY <1>4, <1>t DEF StopSettles, Becomes
<1>5. CASE Acquire(p)
  BY <1>5, <1>t DEF Acquire, Becomes
<1>6. CASE StartupRecovery(p)
  BY <1>6, <1>t DEF StartupRecovery, Becomes
<1> QED
  BY <1>1, <1>2, <1>3, <1>4, <1>5, <1>6

(* begin(): the pending row is written only over no row, by the owner the
   binding names. *)
LEMMA BeginEffect ==
    ASSUME TypeOK, NEW c \in Callers, BeginCommit(c)
    PROVE  /\ call[c].pc = "begin"
           /\ UNCHANGED <<scene, lease, bind, phase, tok, accepting, reducer, worker, sent, ran>>
           /\ \A k \in Keys \ {KeyOf[c]} : op'[k] = op[k]
           /\ \/ op'[KeyOf[c]] = op[KeyOf[c]]
              \/ /\ op[KeyOf[c]].state = "none" /\ bind = tok[HostOf[c]]
                 /\ op'[KeyOf[c]] = [state |-> "pending", fence |-> tok[HostOf[c]], code |-> "none"]
           /\ \/ journal' = journal
              \/ bind = tok[HostOf[c]] /\ journal' = journal \cup {<<KeyOf[c], "pending">>}
           /\ \/ UNCHANGED <<queue, futures>>
              \/ /\ queue' = [queue EXCEPT ![HostOf[c]] =
                                Append(queue[HostOf[c]], [key |-> KeyOf[c], rec |-> op'[KeyOf[c]].state])]
                 /\ futures' = [futures EXCEPT ![HostOf[c]] = futures[HostOf[c]] \cup {KeyOf[c]}]
                 /\ op'[KeyOf[c]].state # "none"
                 /\ bind = tok[HostOf[c]] => <<KeyOf[c], "pending">> \in journal'
<1>t. op \in [Keys -> Rows] /\ KeyOf[c] \in Keys
  BY SceneType DEF TypeOK
<1>1. CASE ~reducer[HostOf[c]]
  BY <1>1 DEF BeginCommit, world
<1>2. CASE reducer[HostOf[c]]
  <2>1. op' = AfterPending(HostOf[c], KeyOf[c])
    BY <1>2 DEF BeginCommit
  <2>2. /\ \A k \in Keys \ {KeyOf[c]} : op'[k] = op[k]
        /\ \/ op'[KeyOf[c]] = op[KeyOf[c]]
           \/ /\ op[KeyOf[c]].state = "none" /\ bind = tok[HostOf[c]]
              /\ op'[KeyOf[c]] = [state |-> "pending", fence |-> tok[HostOf[c]], code |-> "none"]
    BY <2>1, <1>t DEF AfterPending, Passes
  <2>3. journal' = IF bind = tok[HostOf[c]] THEN journal \cup {<<KeyOf[c], "pending">>} ELSE journal
    BY <1>2 DEF BeginCommit
  <2>4. \/ UNCHANGED <<queue, futures>>
        \/ /\ queue' = [queue EXCEPT ![HostOf[c]] =
                          Append(queue[HostOf[c]], [key |-> KeyOf[c], rec |-> op'[KeyOf[c]].state])]
           /\ futures' = [futures EXCEPT ![HostOf[c]] = futures[HostOf[c]] \cup {KeyOf[c]}]
           /\ op'[KeyOf[c]].state # "none"
    BY <1>2 DEF BeginCommit
  <2>5. call[c].pc = "begin" /\ UNCHANGED <<scene, lease, bind, phase, tok, accepting, reducer, worker, sent, ran>>
    BY DEF BeginCommit, world
  <2> QED
    BY <2>2, <2>3, <2>4, <2>5
<1> QED
  BY <1>1, <1>2

(* A receipt is validated before it is committed. *)
LEMMA NextReceiptInv ==
    ASSUME TypeOK, ReceiptInv, [Next]_vars
    PROVE  ReceiptInv'
<1>t. worker \in [Owners -> Works]
  BY DEF TypeOK
<1>w. ~IdleWorker.valid /\ ~ExitedWorker.valid
  BY DEF IdleWorker, ExitedWorker
<1>u. ASSUME NEW p \in Owners, \A q \in Owners \ {p} : worker'[q] = worker[q],
             worker'[p] = worker[p] \/ ~worker'[p].valid
      PROVE  ReceiptInv'
  BY <1>u DEF ReceiptInv, Allowed
<1>s. worker' = worker => ReceiptInv'
  BY DEF ReceiptInv, Allowed
<1>g. ASSUME NEW p \in Owners, NEW pc, NEW rec, Goto(p, pc, rec) PROVE ReceiptInv'
  <2>1. ~worker'[p].valid /\ \A q \in Owners \ {p} : worker'[q] = worker[q]
    BY <1>g, <1>t DEF Goto
  <2> QED
    BY <2>1, <1>u
<1>r. ASSUME NEW p \in Owners, worker' = [worker EXCEPT ![p] = IdleWorker] \/ worker' = [worker EXCEPT ![p] = ExitedWorker]
      PROVE  ReceiptInv'
  <2>1. ~worker'[p].valid /\ \A q \in Owners \ {p} : worker'[q] = worker[q]
    BY <1>r, <1>t, <1>w
  <2> QED
    BY <2>1, <1>u
<1>f. ASSUME NEW p \in Owners, ReceiptFails(p) PROVE ReceiptInv'
  BY <1>f, <1>g, <1>r DEF ReceiptFails
<1> USE DEF durable, memory, world
<1>1. CASE LeaseWears
  BY <1>1, <1>s DEF LeaseWears
<1>2. ASSUME NEW c \in Callers, CallerStep(c) PROVE ReceiptInv'
  BY <1>2, <1>s DEF CallerStep, SubmitRefused, SubmitJoins, SubmitReplays, SubmitBegins, BeginValidate, BeginCommit
<1>3. ASSUME NEW p \in Owners, WorkerStep(p) PROVE ReceiptInv'
  <2>1. CASE Take(p)
    <3>1. ~worker'[p].valid /\ \A q \in Owners \ {p} : worker'[q] = worker[q]
      BY <2>1, <1>t DEF Take
    <3> QED
      BY <3>1, <1>u
  <2>2. CASE CheckFence(p)
    BY <2>2, <1>g DEF CheckFence
  <2>3. CASE ReceiptValidate(p)
    <3>1. CASE ReceiptFails(p)
      BY <3>1, <1>f
    <3>2. CASE /\ worker[p].pc \in Receipts /\ Allowed(worker[p])
               /\ worker' = [worker EXCEPT ![p] = [pc |-> worker[p].pc, key |-> worker[p].key,
                                                   rec |-> worker[p].rec, valid |-> TRUE]]
      BY <3>2, <1>t DEF ReceiptInv, Allowed
    <3> QED
      BY <2>3, <3>1, <3>2 DEF ReceiptValidate
  <2>4. CASE ReceiptCommit(p)
    <3>1. ReceiptFails(p) \/ ReceiptSucceeds(p) \/ ReceiptInterrupted(p)
      BY <2>4 DEF ReceiptCommit
    <3>2. CASE ReceiptSucceeds(p)
      BY <3>2, <1>g, <1>r DEF ReceiptSucceeds
    <3>3. CASE ReceiptInterrupted(p)
      BY <3>3, <1>r DEF ReceiptInterrupted
    <3> QED
      BY <3>1, <3>2, <3>3, <1>f
  <2>5. CASE BeforeSend(p)
    BY <2>5, <1>g DEF BeforeSend
  <2>6. CASE Dispatch(p)
    BY <2>6, <1>g DEF Dispatch
  <2>7. CASE RpcReturns(p)
    BY <2>7, <1>g DEF RpcReturns
  <2>8. CASE Defer(p)
    BY <2>8, <1>r DEF Defer
  <2> QED
    BY <1>3, <2>1, <2>2, <2>3, <2>4, <2>5, <2>6, <2>7, <2>8 DEF WorkerStep
<1>4. ASSUME NEW p \in Owners, StopStep(p) PROVE ReceiptInv'
  <2>1. CASE CancelWorker(p)
    BY <2>1, <1>g, <1>r DEF CancelWorker
  <2>2. CASE StopSettles(p)
    BY <2>2, <1>r DEF StopSettles
  <2> QED
    BY <1>4, <2>1, <2>2, <1>s DEF StopStep, Freeze, Thaw, Stop, StopItem, Release
<1>5. ASSUME NEW p \in Owners, LifecycleStep(p) PROVE ReceiptInv'
  <2>1. CASE Attach(p)
    BY <2>1, <1>r, <1>s DEF Attach
  <2>2. CASE Crash(p)
    BY <2>2, <1>r DEF Crash
  <2> QED
    BY <1>5, <2>1, <2>2, <1>s DEF LifecycleStep, Renew, Acquire, StartupRecovery, ReducerDies
<1>6. CASE UNCHANGED vars
  BY <1>6, <1>s DEF vars
<1> QED
  BY <1>1, <1>2, <1>3, <1>4, <1>5, <1>6 DEF Next

-----------------------------------------------------------------------------
(* Where a worker can get to, and by which step. *)
LEMMA PcEffect ==
    ASSUME TypeOK, ReceiptInv, [Next]_vars, NEW p \in Owners
    PROVE  \/ worker'[p].pc = worker[p].pc /\ worker'[p].key = worker[p].key
           \/ worker'[p].pc \in {"idle", "exited", "ambig"}
           \/ Take(p) /\ worker'[p].pc = "check1" /\ worker'[p].key = Head(queue[p]).key
           \/ /\ worker'[p].key = worker[p].key
              /\ \/ /\ CheckFence(p) /\ MutationSafe(p)
                    /\ \/ worker[p].pc = "check1" /\ worker'[p].pc = "start"
                       \/ worker[p].pc = "check2" /\ worker'[p].pc = "call"
                       \/ worker[p].pc = "check3" /\ worker'[p].pc = "confirm"
                 \/ CheckFence(p) /\ worker[p].pc \in {"check1", "check2"} /\ worker'[p].pc = "defer"
                 \/ ReceiptCommit(p) /\ worker[p].pc = "start" /\ worker'[p].pc = "check2"
                 \/ BeforeSend(p) /\ worker[p].pc = "call" /\ worker'[p].pc \in {"defer", "reject"}
                 \/ Dispatch(p) /\ worker[p].pc = "call" /\ worker'[p].pc = "inflight"
                 \/ RpcReturns(p) /\ worker[p].pc = "inflight" /\ worker'[p].pc \in {"check3", "reject"}
<1> DEFINE Goal ==
           \/ worker'[p].pc = worker[p].pc /\ worker'[p].key = worker[p].key
           \/ worker'[p].pc \in {"idle", "exited", "ambig"}
           \/ Take(p) /\ worker'[p].pc = "check1" /\ worker'[p].key = Head(queue[p]).key
           \/ /\ worker'[p].key = worker[p].key
              /\ \/ /\ CheckFence(p) /\ MutationSafe(p)
                    /\ \/ worker[p].pc = "check1" /\ worker'[p].pc = "start"
                       \/ worker[p].pc = "check2" /\ worker'[p].pc = "call"
                       \/ worker[p].pc = "check3" /\ worker'[p].pc = "confirm"
                 \/ CheckFence(p) /\ worker[p].pc \in {"check1", "check2"} /\ worker'[p].pc = "defer"
                 \/ ReceiptCommit(p) /\ worker[p].pc = "start" /\ worker'[p].pc = "check2"
                 \/ BeforeSend(p) /\ worker[p].pc = "call" /\ worker'[p].pc \in {"defer", "reject"}
                 \/ Dispatch(p) /\ worker[p].pc = "call" /\ worker'[p].pc = "inflight"
                 \/ RpcReturns(p) /\ worker[p].pc = "inflight" /\ worker'[p].pc \in {"check3", "reject"}
<1>t. worker \in [Owners -> Works]
  BY DEF TypeOK
<1>w. IdleWorker.pc = "idle" /\ ExitedWorker.pc = "exited"
  BY DEF IdleWorker, ExitedWorker
<1>s. worker'[p] = worker[p] => Goal
  OBVIOUS
<1>e. worker'[p] \in {IdleWorker, ExitedWorker} => Goal
  BY <1>w
<1>g. \A pc, rec : Goto(p, pc, rec) => worker'[p].pc = pc /\ worker'[p].key = worker[p].key
  BY <1>t DEF Goto
<1> USE DEF durable, memory, world
<1>1. CASE LeaseWears
  BY <1>1, <1>s DEF LeaseWears
<1>2. ASSUME NEW c \in Callers, CallerStep(c) PROVE Goal
  BY <1>2, <1>s DEF CallerStep, SubmitRefused, SubmitJoins, SubmitReplays, SubmitBegins, BeginValidate, BeginCommit
<1>3. ASSUME NEW q \in Owners, WorkerStep(q) PROVE Goal
  <2>1. CASE q # p
    <3>1. CASE Take(q)
      BY <3>1, <2>1, <1>t, <1>s DEF Take
    <3> QED
      BY <1>3, <2>1, <3>1, <1>s, WorkerEffect DEF WorkerStep
  <2>2. CASE q = p /\ Take(p)
    BY <2>2, <1>t DEF Take
  <2>3. CASE q = p /\ CheckFence(p)
    BY <2>3, <1>g DEF CheckFence, NextOf
  <2>4. CASE q = p /\ ReceiptValidate(p)
    <3>1. CASE ReceiptFails(p)
      BY <2>4, <3>1, FailEffect, <1>w DEF ReceiptValidate, IsDone
    <3>2. CASE worker' = [worker EXCEPT ![p] = [pc |-> worker[p].pc, key |-> worker[p].key,
                                                rec |-> worker[p].rec, valid |-> TRUE]]
      BY <3>2, <1>t
    <3> QED
      BY <2>4, <3>1, <3>2 DEF ReceiptValidate
  <2>5. CASE q = p /\ ReceiptCommit(p)
    BY <2>5, CommitEffect, <1>e DEF GoesOn, IsDone, Drops
  <2>6. CASE q = p /\ BeforeSend(p)
    BY <2>6, <1>g DEF BeforeSend
  <2>7. CASE q = p /\ Dispatch(p)
    BY <2>7, <1>g DEF Dispatch
  <2>8. CASE q = p /\ RpcReturns(p)
    BY <2>8, <1>g DEF RpcReturns
  <2>9. CASE q = p /\ Defer(p)
    BY <2>9, <1>e, <1>t DEF Defer
  <2> QED
    BY <1>3, <2>1, <2>2, <2>3, <2>4, <2>5, <2>6, <2>7, <2>8, <2>9 DEF WorkerStep
<1>4. ASSUME NEW q \in Owners, StopStep(q) PROVE Goal
  <2>1. CASE CancelWorker(q)
    <3>1. CASE worker' = [worker EXCEPT ![q] = ExitedWorker]
      BY <3>1, <1>t, <1>s, <1>e
    <3>2. CASE Goto(q, "ambig", worker[q].rec)
      BY <3>2, <1>g, <1>t, <1>s DEF Goto
    <3> QED
      BY <2>1, <3>1, <3>2 DEF CancelWorker
  <2>2. CASE StopSettles(q)
    BY <2>2, <1>t, <1>s, <1>e DEF StopSettles
  <2> QED
    BY <1>4, <2>1, <2>2, <1>s DEF StopStep, Freeze, Thaw, Stop, StopItem, Release
<1>5. ASSUME NEW q \in Owners, LifecycleStep(q) PROVE Goal
  <2>1. CASE Attach(q)
    BY <2>1, <1>t, <1>s, <1>e DEF Attach
  <2>2. CASE Crash(q)
    BY <2>2, <1>t, <1>s, <1>e DEF Crash
  <2> QED
    BY <1>5, <2>1, <2>2, <1>s DEF LifecycleStep, Renew, Acquire, StartupRecovery, ReducerDies
<1>6. CASE UNCHANGED vars
  BY <1>6, <1>s DEF vars
<1> QED
  BY <1>1, <1>2, <1>3, <1>4, <1>5, <1>6 DEF Next

(* The submission lock is taken by a call that begins. *)
LEMMA LockEffect ==
    ASSUME TypeOK, [Next]_vars, NEW p \in Owners, NEW c \in Callers, lock'[p] = c
    PROVE  lock[p] = c \/ (SubmitBegins(c) /\ HostOf[c] = p)
<1>t. lock \in [Owners -> Callers \cup {NoCaller}] /\ NoCaller \notin Callers /\ HostOf \in [Callers -> Owners]
  BY MailboxAssumption DEF TypeOK
<1> USE DEF durable, memory, world
<1>1. CASE LeaseWears
  BY <1>1 DEF LeaseWears
<1>2. ASSUME NEW d \in Callers, CallerStep(d) PROVE lock[p] = c \/ (SubmitBegins(c) /\ HostOf[c] = p)
  <2>1. CASE SubmitBegins(d)
    BY <2>1, <1>t DEF SubmitBegins
  <2>2. CASE BeginValidate(d)
    BY <2>2, <1>t DEF BeginValidate
  <2>3. CASE BeginCommit(d)
    BY <2>3, <1>t DEF BeginCommit
  <2> QED
    BY <1>2, <2>1, <2>2, <2>3 DEF CallerStep, SubmitRefused, SubmitJoins, SubmitReplays
<1>3. ASSUME NEW q \in Owners, WorkerStep(q) PROVE lock' = lock
  BY <1>3, WorkerEffect DEF WorkerStep, Take
<1>4. ASSUME NEW q \in Owners, StopStep(q) PROVE lock' = lock
  BY <1>4 DEF StopStep, Freeze, Thaw, Stop, CancelWorker, StopItem, StopSettles, Release
<1>5. ASSUME NEW q \in Owners, LifecycleStep(q) PROVE lock'[p] = lock[p] \/ lock'[p] = NoCaller
  <2>1. CASE Crash(q)
    BY <2>1, <1>t DEF Crash
  <2> QED
    BY <1>5, <2>1 DEF LifecycleStep, Renew, Acquire, Attach, StartupRecovery, ReducerDies
<1>6. CASE UNCHANGED vars
  BY <1>6 DEF vars
<1> QED
  BY <1>1, <1>2, <1>3, <1>4, <1>5, <1>6, <1>t DEF Next

(* What is queued was queued before, or is what a call just began. *)
LEMMA QueueEffect ==
    ASSUME TypeOK, TypeOK', [Next]_vars, NEW p \in Owners, NEW i \in Queued(p)'
    PROVE  \/ \E j \in Queued(p) : queue'[p][i].key = queue[p][j].key
           \/ \E c \in Callers : /\ BeginCommit(c) /\ HostOf[c] = p /\ queue'[p][i].key = KeyOf[c]
                                 /\ futures' = [futures EXCEPT ![p] = futures[p] \cup {KeyOf[c]}]
                                 /\ op'[KeyOf[c]].state # "none"
<1> DEFINE Old == \E j \in Queued(p) : queue'[p][i].key = queue[p][j].key
<1>t. queue \in [Owners -> Seq(Items)] /\ HostOf \in [Callers -> Owners]
  BY MailboxAssumption DEF TypeOK
<1>s. queue'[p] = queue[p] => Old
  BY DEF Queued
<1>d. ASSUME NEW q \in Owners, queue[q] # <<>>, queue' = [queue EXCEPT ![q] = Tail(queue[q])]
      PROVE  Old
  <2>1. CASE q # p
    BY <2>1, <1>d, <1>s, <1>t
  <2>2. CASE q = p
    <3>1. queue'[p] = Tail(queue[p])
      BY <2>2, <1>d, <1>t
    <3>2. \A j \in 1..Len(Tail(queue[p])) : j + 1 \in 1..Len(queue[p]) /\ Tail(queue[p])[j] = queue[p][j + 1]
      BY <2>2, <1>d, <1>t, TailEffect
    <3> QED
      BY <3>1, <3>2 DEF Queued
  <2> QED
    BY <2>1, <2>2
<1> USE DEF durable, memory, world
<1>1. CASE LeaseWears
  BY <1>1, <1>s DEF LeaseWears
<1>2. ASSUME NEW c \in Callers, BeginCommit(c)
      PROVE  \/ Old
             \/ /\ HostOf[c] = p /\ queue'[p][i].key = KeyOf[c]
                /\ futures' = [futures EXCEPT ![p] = futures[p] \cup {KeyOf[c]}]
                /\ op'[KeyOf[c]].state # "none"
  <2> DEFINE e == [key |-> KeyOf[c], rec |-> op'[KeyOf[c]].state]
  <2>1. CASE UNCHANGED queue
    BY <2>1, <1>s
  <2>2. CASE /\ queue' = [queue EXCEPT ![HostOf[c]] = Append(queue[HostOf[c]], e)]
             /\ futures' = [futures EXCEPT ![HostOf[c]] = futures[HostOf[c]] \cup {KeyOf[c]}]
             /\ op'[KeyOf[c]].state # "none"
    <3>1. CASE HostOf[c] # p
      BY <2>2, <3>1, <1>s, <1>t
    <3>2. CASE HostOf[c] = p
      <4>1. KeyOf[c] \in Keys
        BY SceneType
      <4>2. e \in Items
        BY <4>1 DEF TypeOK, Rows, Items
      <4>3. queue'[p] = Append(queue[p], e)
        BY <2>2, <3>2, <1>t
      <4>4. /\ Len(queue[p]) \in Nat /\ Len(queue'[p]) = Len(queue[p]) + 1
            /\ \A j \in 1..Len(queue[p]) : queue'[p][j] = queue[p][j]
            /\ queue'[p][Len(queue[p]) + 1] = e
        BY <4>2, <4>3, <1>t, AppendEffect
      <4>5. CASE i \in Queued(p)
        BY <4>4, <4>5 DEF Queued
      <4>6. CASE i \notin Queued(p)
        <5>1. i = Len(queue[p]) + 1
          BY <4>4, <4>6 DEF Queued
        <5> QED
          BY <5>1, <4>4, <2>2, <3>2
      <4> QED
        BY <4>5, <4>6
    <3> QED
      BY <3>1, <3>2
  <2> QED
    BY <1>2, <2>1, <2>2, BeginEffect
<1>3. ASSUME NEW c \in Callers, CallerStep(c), ~BeginCommit(c) PROVE Old
  BY <1>3, <1>s DEF CallerStep, SubmitRefused, SubmitJoins, SubmitReplays, SubmitBegins, BeginValidate
<1>4. ASSUME NEW q \in Owners, WorkerStep(q) PROVE Old
  <2>1. CASE Take(q)
    BY <2>1, <1>d DEF Take
  <2> QED
    BY <1>4, <2>1, <1>s, WorkerEffect DEF WorkerStep
<1>5. ASSUME NEW q \in Owners, StopStep(q) PROVE Old
  <2>1. CASE StopItem(q)
    BY <2>1, <1>d DEF StopItem
  <2> QED
    BY <1>5, <2>1, <1>s DEF StopStep, Freeze, Thaw, Stop, CancelWorker, StopSettles, Release
<1>6. ASSUME NEW q \in Owners, LifecycleStep(q) PROVE Old
  <2>1. CASE Crash(q)
    <3>1. CASE q = p
      BY <2>1, <3>1, <1>t DEF Crash, Queued
    <3>2. CASE q # p
      BY <2>1, <3>2, <1>t, <1>s DEF Crash
    <3> QED
      BY <3>1, <3>2
  <2> QED
    BY <1>6, <2>1, <1>s DEF LifecycleStep, Renew, Acquire, Attach, StartupRecovery, ReducerDies
<1>7. CASE UNCHANGED vars
  BY <1>7, <1>s DEF vars
<1> QED
  BY <1>1, <1>2, <1>3, <1>4, <1>5, <1>6, <1>7 DEF Next

-----------------------------------------------------------------------------
(* The binding names at most one of the processes with the newest token. *)
LEMMA BindingNamesOne ==
    ASSUME TypeOK, TokenInv, NEW p \in Owners, NEW q \in Owners, Active(p), Latest(p), bind = tok[q]
    PROVE  q = p
BY DEF TypeOK, TokenInv

(* A process with components and the newest token had both before, or has
   just attached with nothing in its mailbox. *)
LEMMA LatestWas ==
    ASSUME TypeOK, TokenInv, IdleInv, [Next]_vars, NEW p \in Owners, Active(p)', Latest(p)'
    PROVE  /\ tok'[p] = tok[p]
           /\ \/ Active(p) /\ Latest(p)
              \/ /\ worker'[p].pc = "idle" /\ queue'[p] = <<>> /\ lock'[p] = NoCaller
<1>t. /\ tok \in [Owners -> Nat] /\ phase \in [Owners -> Phases] /\ lease.fence \in Nat
      /\ worker \in [Owners -> Works]
  BY DEF TypeOK, Leases
<1> USE DEF Active, Latest
<1>1. CASE UNCHANGED <<bind, lease, tok, phase>>
  BY <1>1
<1>2. CASE LeaseWears
  BY <1>2 DEF LeaseWears, LeaseLeft, memory
<1>3. ASSUME NEW q \in Owners, Stop(q) \/ StopSettles(q) \/ Crash(q)
      PROVE  tok'[p] = tok[p] /\ Active(p) /\ Latest(p)
  BY <1>3, <1>t DEF Stop, StopSettles, Crash, durable
<1>4. ASSUME NEW q \in Owners, Release(q) \/ Renew(q)
      PROVE  tok'[p] = tok[p] /\ Active(p) /\ Latest(p)
  BY <1>4, <1>t DEF Release, Renew, LeaseLeft, memory
<1>5. ASSUME NEW q \in Owners, Acquire(q) PROVE FALSE
  BY <1>5, <1>t DEF Acquire, TokenInv
<1>6. ASSUME NEW q \in Owners, Attach(q)
      PROVE  /\ tok'[p] = tok[p]
             /\ \/ Active(p) /\ Latest(p)
                \/ worker'[p].pc = "idle" /\ queue'[p] = <<>> /\ lock'[p] = NoCaller
  BY <1>6, <1>t DEF Attach, IdleInv, IdleWorker
<1> QED
  BY <1>1, <1>2, <1>3, <1>4, <1>5, <1>6, Frame

(* The lease of a process that may dispatch does not go. *)
LEMMA CurrentStays ==
    ASSUME TypeOK, TokenInv, IdleInv, [Next]_vars, NEW p \in Owners, IsCurrent(p), worker[p].pc = "call"
    PROVE  IsCurrent(p)'
<1>t. tok \in [Owners -> Nat] /\ phase[p] \in {"running", "stopping", "emergency"}
  BY DEF TypeOK, IdleInv, Active
<1> USE DEF IsCurrent
<1>1. CASE UNCHANGED <<bind, lease, tok, phase>>
  BY <1>1
<1>2. CASE LeaseWears
  BY <1>2 DEF LeaseWears, LeaseLeft, memory
<1>3. ASSUME NEW q \in Owners, Stop(q) \/ StopSettles(q) \/ Crash(q) \/ Attach(q)
      PROVE  IsCurrent(p)'
  BY <1>3 DEF Stop, StopSettles, Crash, Attach, durable
<1>4. ASSUME NEW q \in Owners, Release(q) PROVE IsCurrent(p)'
  BY <1>4, <1>t DEF Release
<1>5. ASSUME NEW q \in Owners, Renew(q) PROVE IsCurrent(p)'
  BY <1>5 DEF Renew, LeaseLeft, memory
<1>6. ASSUME NEW q \in Owners, Acquire(q) PROVE FALSE
  BY <1>6 DEF Acquire
<1> QED
  BY <1>1, <1>2, <1>3, <1>4, <1>5, <1>6, Frame

(* How rows and journal change, for the key of interest. *)
LEMMA LedgerEffect ==
    ASSUME TypeOK, ReceiptInv, LockInv, [Next]_vars, NEW k \in Keys
    PROVE  /\ journal \subseteq journal'
           /\ <<k, "started">> \in journal' \ journal =>
                 \E p \in Owners : /\ ReceiptCommit(p) /\ bind = tok[p]
                                   /\ worker[p].pc = "start" /\ worker[p].key = k
           /\ op[k].state # "none" => op'[k].state # "none"
           /\ op[k].state \in {"confirmed", "rejected"} => op'[k].state = op[k].state
           /\ op'[k].fence # op[k].fence \/ (op[k].state = "none" /\ op'[k].state # "none") =>
                 \E c \in Callers : /\ BeginCommit(c) /\ KeyOf[c] = k /\ bind = tok[HostOf[c]]
                                    /\ lock[HostOf[c]] = c
<1>1. CASE UNCHANGED <<op, journal>>
  BY <1>1
<1>2. ASSUME NEW c \in Callers, BeginCommit(c)
      PROVE  /\ journal \subseteq journal'
             /\ <<k, "started">> \in journal' => <<k, "started">> \in journal
             /\ op[k].state # "none" => op'[k] = op[k]
             /\ op'[k] = op[k] \/ (KeyOf[c] = k /\ bind = tok[HostOf[c]] /\ lock[HostOf[c]] = c)
  <2>1. /\ call[c].pc = "begin"
        /\ \A j \in Keys \ {KeyOf[c]} : op'[j] = op[j]
        /\ \/ op'[KeyOf[c]] = op[KeyOf[c]]
           \/ op[KeyOf[c]].state = "none" /\ bind = tok[HostOf[c]]
        /\ \/ journal' = journal
           \/ journal' = journal \cup {<<KeyOf[c], "pending">>}
    BY <1>2, BeginEffect
  <2>2. <<k, "started">> # <<KeyOf[c], "pending">>
    OBVIOUS
  <2>3. lock[HostOf[c]] = c
    BY <2>1 DEF LockInv
  <2>4. journal \subseteq journal' /\ (<<k, "started">> \in journal' => <<k, "started">> \in journal)
    BY <2>1, <2>2
  <2> QED
    BY <2>1, <2>3, <2>4
<1>3. ASSUME NEW p \in Owners,
             \/ ReceiptCommit(p) \/ Defer(p) \/ StopItem(p) \/ StopSettles(p)
             \/ Acquire(p) \/ StartupRecovery(p)
      PROVE  /\ \/ op'[k] = op[k]
                \/ /\ op[k].state \in {"pending", "started", "unknown"}
                   /\ op'[k].state # "none" /\ op'[k].fence = op[k].fence
             /\ journal \subseteq journal'
             /\ <<k, "started">> \in journal' \ journal =>
                   ReceiptCommit(p) /\ bind = tok[p] /\ worker[p].pc = "start" /\ worker[p].key = k
  <2>1. /\ \/ op'[k] = op[k]
           \/ /\ op[k].state \in {"pending", "started", "unknown"}
              /\ op'[k].state # "none" /\ op'[k].fence = op[k].fence
        /\ ~ReceiptCommit(p) => journal' = journal
    BY <1>3, RowEffect
  <2>2. CASE ReceiptCommit(p)
    <3>1. \/ journal' = journal
          \/ bind = tok[p] /\ journal' = journal \cup {<<worker[p].key, Target(worker[p].pc)>>}
      BY <2>2, CommitEffect
    <3>2. Target(worker[p].pc) = "started" => worker[p].pc = "start"
      BY DEF Target
    <3> QED
      BY <2>1, <2>2, <3>1, <3>2
  <2> QED
    BY <2>1, <2>2
<1> QED
  BY <1>1, <1>2, <1>3, Frame

(* Every step keeps the newest owner ahead of the journal: what it is about to
   begin, start or send was not begun, started or sent before. *)
LEMMA NextFreshInv ==
    ASSUME TypeOK, TypeOK', TokenInv, IdleInv, LockInv, KeyInv, JournalInv, ReceiptInv, FreshInv, [Next]_vars
    PROVE  FreshInv'
<1>k. KeyOf \in [Callers -> Keys] /\ KeyOf' = KeyOf /\ HostOf \in [Callers -> Owners] /\ NoCaller \notin Callers
  BY SceneType, Frame, MailboxAssumption DEF KeyOf
<1>t. /\ op \in [Keys -> Rows] /\ queue \in [Owners -> Seq(Items)] /\ worker \in [Owners -> Works]
      /\ sent \in [Keys -> Nat] /\ tok \in [Owners -> Nat]
  BY DEF TypeOK
<1> SUFFICES ASSUME NEW p \in Owners
             PROVE  /\ worker'[p].pc = "call" => IsCurrent(p)'
                    /\ Active(p)' /\ Latest(p)' =>
                          /\ \A c \in Callers : lock'[p] = c => op'[KeyOf[c]].state = "none"
                          /\ \A i \in Queued(p)' : /\ <<queue'[p][i].key, "started">> \notin journal'
                                                   /\ op'[queue'[p][i].key].fence = tok'[p]
                          /\ worker'[p].pc \in {"check1", "start"} =>
                                <<worker'[p].key, "started">> \notin journal'
                          /\ worker'[p].pc \in {"check2", "call"} =>
                                <<worker'[p].key, "started">> \in journal' /\ sent'[worker'[p].key] = 0
                          /\ worker'[p].pc \in {"check1", "start", "check2", "call"} =>
                                op'[worker'[p].key].fence = tok'[p]
  BY <1>k DEF FreshInv
<1>1. worker'[p].pc = "call" => IsCurrent(p)'
  <2>1. CASE worker[p].pc = "call"
    BY <2>1, CurrentStays DEF FreshInv
  <2>2. CASE CheckFence(p) /\ MutationSafe(p)
    BY <2>2, WorkerEffect DEF MutationSafe, IsCurrent
  <2> QED
    BY <2>1, <2>2, PcEffect
<1>2. ASSUME Active(p)', Latest(p)', ~(Active(p) /\ Latest(p))
      PROVE  worker'[p].pc = "idle" /\ queue'[p] = <<>> /\ lock'[p] = NoCaller
  BY <1>2, LatestWas
<1>3. ASSUME Active(p), Latest(p), tok'[p] = tok[p]
      PROVE  /\ \A c \in Callers : lock'[p] = c => op'[KeyOf[c]].state = "none"
             /\ \A i \in Queued(p)' : /\ <<queue'[p][i].key, "started">> \notin journal'
                                      /\ op'[queue'[p][i].key].fence = tok[p]
             /\ worker'[p].pc \in {"check1", "start"} =>
                   <<worker'[p].key, "started">> \notin journal'
             /\ worker'[p].pc \in {"check2", "call"} =>
                   <<worker'[p].key, "started">> \in journal' /\ sent'[worker'[p].key] = 0
             /\ worker'[p].pc \in {"check1", "start", "check2", "call"} =>
                   op'[worker'[p].key].fence = tok[p]
  <2>f. /\ \A c \in Callers : lock[p] = c => op[KeyOf[c]].state = "none"
        /\ \A i \in Queued(p) : /\ <<queue[p][i].key, "started">> \notin journal
                                /\ op[queue[p][i].key].fence = tok[p]
        /\ worker[p].pc \in {"check1", "start"} => <<worker[p].key, "started">> \notin journal
        /\ worker[p].pc \in {"check2", "call"} =>
              <<worker[p].key, "started">> \in journal /\ sent[worker[p].key] = 0
        /\ worker[p].pc \in {"check1", "start", "check2", "call"} => op[worker[p].key].fence = tok[p]
    BY <1>3 DEF FreshInv
  <2>b. bind = tok[p] /\ tok[p] > 0
    BY <1>3 DEF TokenInv
  <2>q. \A q \in Owners : bind = tok[q] => q = p
    BY <1>3, BindingNamesOne
  (* Only p itself writes "started", for the key its worker starts. *)
  <2>j. ASSUME NEW k \in Keys, <<k, "started">> \in journal', <<k, "started">> \notin journal
        PROVE  ReceiptCommit(p) /\ worker[p].pc = "start" /\ worker[p].key = k
    BY <2>j, <2>q, LedgerEffect
  (* Only a call of p that holds its lock writes a row. *)
  <2>o. ASSUME NEW k \in Keys, op'[k].fence # op[k].fence \/ (op[k].state = "none" /\ op'[k].state # "none")
        PROVE  \E c \in Callers : BeginCommit(c) /\ KeyOf[c] = k /\ HostOf[c] = p /\ lock[p] = c
    <3>1. PICK c \in Callers : BeginCommit(c) /\ KeyOf[c] = k /\ bind = tok[HostOf[c]] /\ lock[HostOf[c]] = c
      BY <2>o, LedgerEffect
    <3>2. HostOf[c] = p
      BY <3>1, <2>q, <1>k
    <3> QED
      BY <3>1, <3>2
  (* Only p itself may send. *)
  <2>d. ASSUME NEW k \in Keys, sent'[k] # sent[k]
        PROVE  Dispatch(p) /\ worker[p].key = k
    <3>1. PICK q \in Owners : Dispatch(q)
      BY <2>d, Frame DEF RpcReturns, CancelWorker, Crash
    <3>2. worker[q].key = k
      BY <2>d, <3>1, <1>t DEF Dispatch
    <3>3. IsCurrent(q)
      BY <3>1 DEF Dispatch, FreshInv
    <3>4. q = p
      BY <3>3, <1>3, <2>b DEF IsCurrent, Latest, TokenInv
    <3> QED
      BY <3>1, <3>2, <3>4
  <2>1. ASSUME NEW c \in Callers, lock'[p] = c PROVE op'[KeyOf[c]].state = "none"
    <3>1. CASE lock[p] = c
      <4>1. op[KeyOf[c]].state = "none" /\ KeyOf[c] \in Keys
        BY <3>1, <2>f, <1>k
      <4>2. ASSUME op'[KeyOf[c]].state # "none" PROVE FALSE
        <5>1. PICK d \in Callers : BeginCommit(d) /\ HostOf[d] = p /\ lock[p] = d
          BY <4>1, <4>2, <2>o
        <5>2. lock'[p] = NoCaller
          BY <5>1 DEF BeginCommit, TypeOK
        <5> QED
          BY <5>2, <2>1, <1>k
      <4> QED
        BY <4>2
    <3>2. CASE SubmitBegins(c)
      BY <3>2 DEF SubmitBegins, durable
    <3> QED
      BY <2>1, <3>1, <3>2, LockEffect
  <2>2. ASSUME NEW i \in Queued(p)'
        PROVE  /\ <<queue'[p][i].key, "started">> \notin journal'
               /\ op'[queue'[p][i].key].fence = tok[p]
    <3>1. ASSUME NEW j \in Queued(p), queue'[p][i].key = queue[p][j].key
          PROVE  /\ <<queue'[p][i].key, "started">> \notin journal'
                 /\ op'[queue'[p][i].key].fence = tok[p]
      <4> DEFINE k == queue[p][j].key
      <4>1. k \in Keys /\ k \in futures[p]
        <5>1. queue[p] \in Seq(Items) /\ j \in 1..Len(queue[p])
          BY <1>t DEF Queued
        <5>2. queue[p][j] \in Items
          BY <5>1
        <5> QED
          BY <5>2 DEF Items, KeyInv
      <4>2. <<k, "started">> \notin journal /\ op[k].fence = tok[p]
        BY <2>f
      <4>3. <<k, "started">> \notin journal'
        <5> SUFFICES ASSUME <<k, "started">> \in journal' PROVE FALSE
          OBVIOUS
        <5>1. worker[p].pc = "start" /\ worker[p].key = k
          BY <4>1, <4>2, <2>j
        <5> QED
          BY <5>1 DEF KeyInv, Busy
      <4>4. op'[k].fence = op[k].fence
        <5> SUFFICES ASSUME op'[k].fence # op[k].fence PROVE FALSE
          OBVIOUS
        <5>1. PICK c \in Callers : KeyOf[c] = k /\ lock[p] = c
          BY <4>1, <2>o
        <5> QED
          BY <5>1, <4>1 DEF LockInv
      <4> QED
        BY <3>1, <4>2, <4>3, <4>4
    <3>2. ASSUME NEW c \in Callers, BeginCommit(c), HostOf[c] = p, queue'[p][i].key = KeyOf[c],
                 op'[KeyOf[c]].state # "none"
          PROVE  /\ <<queue'[p][i].key, "started">> \notin journal'
                 /\ op'[queue'[p][i].key].fence = tok[p]
      <4> DEFINE k == KeyOf[c]
      <4>1. lock[p] = c /\ k \in Keys
        BY <3>2, <1>k DEF LockInv, BeginCommit
      <4>2. op[k].state = "none"
        BY <4>1, <2>f
      <4>3. <<k, "started">> \notin journal
        BY <4>1, <4>2 DEF JournalInv, OpStates
      <4>4. <<k, "started">> \notin journal'
        <5>1. journal' = journal \/ journal' = journal \cup {<<k, "pending">>}
          BY <3>2, BeginEffect
        <5>2. <<k, "started">> # <<k, "pending">>
          OBVIOUS
        <5> QED
          BY <5>1, <5>2, <4>3
      <4>5. op'[k] = [state |-> "pending", fence |-> tok[p], code |-> "none"]
        BY <3>2, <4>2, BeginEffect
      <4> QED
        BY <3>2, <4>4, <4>5
    <3> QED
      BY <3>1, <3>2, QueueEffect
  <2>3. ASSUME worker'[p].pc = worker[p].pc, worker'[p].key = worker[p].key
        PROVE  /\ worker'[p].pc \in {"check1", "start"} =>
                     <<worker'[p].key, "started">> \notin journal'
               /\ worker'[p].pc \in {"check2", "call"} =>
                     <<worker'[p].key, "started">> \in journal' /\ sent'[worker'[p].key] = 0
               /\ worker'[p].pc \in {"check1", "start", "check2", "call"} =>
                     op'[worker'[p].key].fence = tok[p]
    <3> DEFINE k == worker[p].key
    <3>1. k \in Keys
      BY <1>t DEF Works
    <3>2. worker[p].pc \in {"check1", "start"} => <<k, "started">> \notin journal'
      <4>1. ~(ReceiptCommit(p) /\ worker[p].pc = "start")
        <5> SUFFICES ASSUME ReceiptCommit(p), worker[p].pc = "start" PROVE FALSE
          OBVIOUS
        <5>1. worker'[p].pc \in {"ambig", "check2"} \/ IsDone(p) \/ Drops(p)
          BY CommitEffect
        <5>2. worker'[p].pc # "start"
          BY <5>1 DEF IsDone, Drops, IdleWorker, ExitedWorker
        <5> QED
          BY <2>3, <5>2
      <4> QED
        BY <3>1, <4>1, <2>f, <2>j
    <3>3. worker[p].pc \in {"check2", "call"} => <<k, "started">> \in journal' /\ sent'[k] = 0
      <4>1. journal \subseteq journal'
        BY <3>1, LedgerEffect
      <4>2. ~Dispatch(p)
        <5>1. Dispatch(p) => worker[p].pc = "call" /\ worker'[p].pc = "inflight"
          BY <1>t DEF Dispatch, Goto
        <5> QED
          BY <5>1, <2>3
      <4> QED
        BY <3>1, <4>1, <4>2, <2>f, <2>d
    <3>4. worker[p].pc \in {"check1", "start", "check2", "call"} => op'[k].fence = tok[p]
      <4> SUFFICES ASSUME worker[p].pc \in {"check1", "start", "check2", "call"}, op'[k].fence # op[k].fence
                   PROVE  FALSE
        BY <2>f
      <4>1. PICK c \in Callers : KeyOf[c] = k /\ lock[p] = c
        BY <3>1, <2>o
      <4>2. k \in futures[p]
        BY DEF KeyInv, Busy
      <4> QED
        BY <4>1, <4>2 DEF LockInv
    <3> QED
      BY <2>3, <3>2, <3>3, <3>4
  <2>4. ASSUME worker'[p].pc # worker[p].pc \/ worker'[p].key # worker[p].key
        PROVE  /\ worker'[p].pc \in {"check1", "start"} =>
                     <<worker'[p].key, "started">> \notin journal'
               /\ worker'[p].pc \in {"check2", "call"} =>
                     <<worker'[p].key, "started">> \in journal' /\ sent'[worker'[p].key] = 0
               /\ worker'[p].pc \in {"check1", "start", "check2", "call"} =>
                     op'[worker'[p].key].fence = tok[p]
    <3>1. CASE Take(p) /\ worker'[p].pc = "check1" /\ worker'[p].key = Head(queue[p]).key
      <4>1. queue[p] # <<>> /\ UNCHANGED <<op, journal>>
        BY <3>1 DEF Take, durable
      <4>2. Len(queue[p]) \in Nat /\ Len(queue[p]) > 0 /\ Head(queue[p]) = queue[p][1]
        BY <4>1, <1>t, TailEffect
      <4>3. 1 \in Queued(p)
        BY <4>2 DEF Queued
      <4> QED
        BY <3>1, <4>1, <4>2, <4>3, <2>f
    <3>2. CASE CheckFence(p) /\ worker'[p].key = worker[p].key
               /\ (\/ worker[p].pc = "check1" /\ worker'[p].pc = "start"
                   \/ worker[p].pc = "check2" /\ worker'[p].pc = "call")
      BY <3>2, <2>f DEF CheckFence, durable, world
    <3>3. CASE ReceiptCommit(p) /\ worker[p].pc = "start" /\ worker'[p].pc = "check2"
               /\ worker'[p].key = worker[p].key
      <4> DEFINE k == worker[p].key
      <4>1. k \in Keys /\ <<k, "started">> \notin journal /\ op[k].fence = tok[p]
        BY <3>3, <2>f, <1>t DEF Works
      <4>2. sent[k] = 0 /\ sent' = sent
        BY <3>3, <4>1, <1>t DEF JournalInv, ReceiptCommit, world
      <4>3. <<k, "started">> \in journal' /\ op'[k].fence = op[k].fence
        <5>1. ~IsDone(p) /\ ~Drops(p)
          BY <3>3 DEF IsDone, Drops, IdleWorker, ExitedWorker
        <5>2. /\ bind = tok[p] => <<k, "started">> \in journal'
              /\ op'[k] = op[k] \/ op'[k].fence = op[k].fence
          BY <3>3, <5>1, CommitEffect
        <5> QED
          BY <5>2, <2>b
      <4> QED
        BY <3>3, <4>1, <4>2, <4>3
    <3> QED
      BY <2>4, <3>1, <3>2, <3>3, PcEffect
  <2> QED
    BY <2>1, <2>2, <2>3, <2>4
<1>4. ASSUME Active(p)', Latest(p)', ~(Active(p) /\ Latest(p))
      PROVE  /\ \A c \in Callers : lock'[p] # c
             /\ \A i \in Queued(p)' : FALSE
             /\ worker'[p].pc \notin {"check1", "start", "check2", "call"}
  BY <1>2, <1>4, <1>k DEF Queued
<1> QED
  BY <1>1, <1>3, <1>4, LatestWas

(* Every step keeps the journal ahead of the dispatch, and an operation is
   dispatched once. *)
LEMMA NextJournalInv ==
    ASSUME TypeOK, TypeOK', TokenInv, IdleInv, LockInv, JournalInv, ReceiptInv, FreshInv,
           AtMostOnceDispatch, [Next]_vars
    PROVE  JournalInv' /\ AtMostOnceDispatch'
<1>t. /\ op \in [Keys -> Rows] /\ worker \in [Owners -> Works]
      /\ sent \in [Keys -> Nat] /\ ran \in [Keys -> BOOLEAN] /\ sent' \in [Keys -> Nat]
  BY DEF TypeOK
<1>n. ASSUME NEW k \in Keys PROVE sent[k] \in Nat /\ sent'[k] \in Nat
  BY <1>t
<1>1. ASSUME NEW p \in Owners, Dispatch(p)
      PROVE  /\ worker[p].key \in Keys /\ sent[worker[p].key] = 0 /\ sent'[worker[p].key] = 1
             /\ <<worker[p].key, "started">> \in journal
             /\ \A k \in Keys \ {worker[p].key} : sent'[k] = sent[k]
  <2>1. worker[p].pc = "call" /\ worker[p].key \in Keys
    BY <1>1, <1>t DEF Dispatch, Works
  <2>2. IsCurrent(p) /\ Active(p)
    BY <2>1 DEF FreshInv, IdleInv
  <2>3. <<worker[p].key, "started">> \in journal /\ sent[worker[p].key] = 0
    BY <2>1, <2>2 DEF FreshInv, IsCurrent, Latest
  <2> QED
    BY <1>1, <2>1, <2>3, <1>t DEF Dispatch
<1>2. ASSUME NEW k \in Keys
      PROVE  sent'[k] = sent[k] \/ (sent[k] = 0 /\ sent'[k] = 1 /\ <<k, "started">> \in journal)
  BY <1>1, Frame DEF RpcReturns, CancelWorker, Crash
<1>3. AtMostOnceDispatch'
  <2> SUFFICES ASSUME NEW k \in Keys PROVE sent'[k] <= 1
    BY DEF AtMostOnceDispatch
  <2>1. sent'[k] = sent[k] \/ sent'[k] = 1
    BY <1>2
  <2>2. sent[k] <= 1
    BY DEF AtMostOnceDispatch
  <2> QED
    BY <2>1, <2>2
<1>g. ASSUME NEW k \in Keys, sent[k] > 0 PROVE sent'[k] > 0
  <2>1. sent'[k] = sent[k] \/ sent'[k] = 1
    BY <1>2
  <2> QED
    BY <2>1, <1>g
<1>4. ASSUME NEW k \in Keys PROVE sent'[k] > 0 => <<k, "started">> \in journal'
  BY <1>2, <1>4, LedgerEffect DEF JournalInv
<1>5. ASSUME NEW k \in Keys PROVE ran'[k] => sent'[k] > 0
  <2>1. CASE ran'[k] = ran[k]
    <3>1. ran[k] => sent[k] > 0
      BY DEF JournalInv
    <3> QED
      BY <2>1, <3>1, <1>g
  <2>2. ASSUME NEW p \in Owners, RpcReturns(p) \/ CancelWorker(p) \/ Crash(p), ran'[k] # ran[k]
        PROVE  sent'[k] > 0
    <3>1. worker[p].pc = "inflight" /\ worker[p].key = k /\ sent' = sent
      BY <2>2, <1>t DEF RpcReturns, CancelWorker, Crash
    <3> QED
      BY <3>1 DEF JournalInv
  <2> QED
    BY <2>1, <2>2, Frame DEF Dispatch
<1>6. ASSUME NEW k \in Keys, NEW p \in Owners, worker'[p].pc = "inflight", worker'[p].key = k
      PROVE  sent'[k] > 0
  <2>1. CASE worker[p].pc = "inflight" /\ worker[p].key = k
    <3>1. sent[k] > 0
      BY <2>1 DEF JournalInv
    <3> QED
      BY <3>1, <1>g
  <2>2. CASE Dispatch(p) /\ worker[p].key = k
    <3>1. sent'[k] = 1
      BY <2>2, <1>1
    <3> QED
      BY <3>1
  <2> QED
    BY <1>6, <2>1, <2>2, PcEffect
<1>7. ASSUME NEW k \in Keys, NEW s \in OpStates, <<k, s>> \in journal' PROVE op'[k].state # "none"
  <2>1. CASE <<k, s>> \in journal
    BY <2>1, LedgerEffect DEF JournalInv
  <2>2. CASE <<k, s>> \notin journal
    <3>1. ASSUME NEW c \in Callers, BeginCommit(c) PROVE op'[k].state # "none"
      <4>1. KeyOf[c] = k /\ s = "pending" /\ bind = tok[HostOf[c]]
        <5>1. \/ journal' = journal
              \/ bind = tok[HostOf[c]] /\ journal' = journal \cup {<<KeyOf[c], "pending">>}
          BY <3>1, BeginEffect
        <5>2. bind = tok[HostOf[c]] /\ <<k, s>> = <<KeyOf[c], "pending">>
          BY <2>2, <1>7, <5>1
        <5> QED
          BY <5>2
      <4>2. op' = AfterPending(HostOf[c], k)
        BY <2>2, <3>1, <4>1, <1>7 DEF BeginCommit
      <4> QED
        BY <4>1, <4>2, <2>2, <1>t DEF AfterPending, Passes
    <3>2. ASSUME NEW p \in Owners, ReceiptCommit(p) PROVE op'[k].state # "none"
      <4>1. Target(worker[p].pc) # "none"
        BY DEF Target
      <4>2. \/ journal' = journal
            \/ /\ op'[worker[p].key].state = Target(worker[p].pc)
               /\ journal' = journal \cup {<<worker[p].key, Target(worker[p].pc)>>}
        BY <3>2, CommitEffect
      <4>3. /\ op'[worker[p].key].state = Target(worker[p].pc)
            /\ <<k, s>> = <<worker[p].key, Target(worker[p].pc)>>
        BY <4>2, <2>2, <1>7
      <4> QED
        BY <4>1, <4>3
    <3> QED
      BY <2>2, <3>1, <3>2, <1>7, Frame, RowEffect
  <2> QED
    BY <2>1, <2>2
<1> QED
  BY <1>3, <1>4, <1>5, <1>6, <1>7 DEF JournalInv

-----------------------------------------------------------------------------
(* One row moves to another state, and no other row does. *)
Moves(k, from, to) ==
    /\ k \in Keys /\ op[k].state \in from /\ op'[k].state = to
    /\ \A j \in Keys \ {k} : op'[j] = op[j]

(* Rows whose outcome nobody vouches for become unknown. *)
Lapses(k) == op[k].state \in {"pending", "started"} /\ op'[k].state = "unknown"

(* What a step does to the states of the rows. *)
LEMMA StateEffect ==
    ASSUME TypeOK, ReceiptInv, [Next]_vars
    PROVE  \/ op' = op
           \/ /\ UNCHANGED <<sent, ran>>
              /\ \/ \E c \in Callers : BeginCommit(c) /\ Moves(KeyOf[c], {"none"}, "pending")
                 \/ \E p \in Owners :
                       \/ /\ ReceiptCommit(p)
                          /\ Moves(worker[p].key, {From(worker[p])}, Target(worker[p].pc))
                          /\ From(worker[p]) \in {"pending", "started"} /\ worker[p].pc \in Receipts
                       \/ /\ Defer(p) /\ CanSettleDeferred(worker[p].key)
                          /\ Moves(worker[p].key, {"pending", "started", "unknown"}, "rejected")
                       \/ /\ StopItem(p) /\ CanSettleDeferred(Head(queue[p]).key)
                          /\ Moves(Head(queue[p]).key, {"pending", "started", "unknown"}, "rejected")
                       \/ /\ StopSettles(p) \/ Acquire(p) \/ StartupRecovery(p)
                          /\ \A k \in Keys : op'[k] = op[k] \/ Lapses(k)
<1>t. op \in [Keys -> Rows] /\ queue \in [Owners -> Seq(Items)] /\ \A p \in Owners : worker[p].key \in Keys
  BY DEF TypeOK, Works
<1>1. ASSUME NEW c \in Callers, BeginCommit(c)
      PROVE  \/ op' = op
             \/ UNCHANGED <<sent, ran>> /\ Moves(KeyOf[c], {"none"}, "pending")
  <2>1. KeyOf[c] \in Keys
    BY SceneType
  <2>2. /\ UNCHANGED <<sent, ran>>
        /\ op' = op \/ op' = AfterPending(HostOf[c], KeyOf[c])
    BY <1>1 DEF BeginCommit, world
  <2> QED
    BY <2>1, <2>2, <1>t DEF AfterPending, Moves
<1>2. ASSUME NEW p \in Owners, ReceiptCommit(p)
      PROVE  \/ op' = op
             \/ /\ UNCHANGED <<sent, ran>>
                /\ Moves(worker[p].key, {From(worker[p])}, Target(worker[p].pc))
                /\ From(worker[p]) \in {"pending", "started"} /\ worker[p].pc \in Receipts
  <2>1. UNCHANGED <<sent, ran>>
    BY <1>2 DEF ReceiptCommit, world
  <2> QED
    BY <1>2, <2>1, CommitEffect DEF Moves
<1>3. ASSUME NEW k \in Keys, op' = AfterSettleDeferred(k)
      PROVE  \/ op' = op
             \/ CanSettleDeferred(k) /\ Moves(k, {"pending", "started", "unknown"}, "rejected")
  BY <1>3, <1>t DEF AfterSettleDeferred, CanSettleDeferred, Becomes, Moves
<1>4. ASSUME NEW p \in Owners, Defer(p)
      PROVE  \/ op' = op
             \/ /\ UNCHANGED <<sent, ran>> /\ CanSettleDeferred(worker[p].key)
                /\ Moves(worker[p].key, {"pending", "started", "unknown"}, "rejected")
  BY <1>3, <1>4, <1>t DEF Defer, world
<1>5. ASSUME NEW p \in Owners, StopItem(p)
      PROVE  \/ op' = op
             \/ /\ UNCHANGED <<sent, ran>> /\ CanSettleDeferred(Head(queue[p]).key)
                /\ Moves(Head(queue[p]).key, {"pending", "started", "unknown"}, "rejected")
  <2>1. Head(queue[p]) \in Items
    BY <1>5, <1>t, TailEffect DEF StopItem
  <2>2. Head(queue[p]).key \in Keys
    BY <2>1 DEF Items
  <2>3. UNCHANGED <<sent, ran>> /\ (op' = op \/ op' = AfterSettleDeferred(Head(queue[p]).key))
    BY <1>5 DEF StopItem, world
  <2> QED
    BY <2>2, <2>3, <1>3
<1>6. ASSUME NEW p \in Owners, StopSettles(p) \/ Acquire(p) \/ StartupRecovery(p)
      PROVE  UNCHANGED <<sent, ran>> /\ \A k \in Keys : op'[k] = op[k] \/ Lapses(k)
  <2>1. CASE StopSettles(p)
    BY <2>1, <1>t DEF StopSettles, Becomes, Lapses, world
  <2>2. CASE Acquire(p)
    BY <2>2, <1>t DEF Acquire, Becomes, Lapses, world
  <2>3. CASE StartupRecovery(p)
    BY <2>3, <1>t DEF StartupRecovery, Becomes, Lapses, world
  <2> QED
    BY <1>6, <2>1, <2>2, <2>3
<1> QED
  BY <1>1, <1>2, <1>4, <1>5, <1>6, Frame

(* What a step does to the world: an operation in flight may run. *)
LEMMA WorldEffect ==
    ASSUME TypeOK, [Next]_vars
    PROVE  \/ UNCHANGED <<sent, ran>>
           \/ \E p \in Owners :
                 /\ Dispatch(p) /\ op' = op /\ ran' = ran /\ worker[p].key \in Keys
                 /\ sent' = [sent EXCEPT ![worker[p].key] = sent[worker[p].key] + 1]
           \/ \E p \in Owners :
                 /\ RpcReturns(p) \/ CancelWorker(p) \/ Crash(p)
                 /\ worker[p].pc = "inflight" /\ worker[p].key \in Keys
                 /\ worker'[p].pc \in {"check3", "reject", "ambig", "exited"}
                 /\ worker'[p].pc = "reject" => ran' = ran
                 /\ ran' = ran \/ ran' = [ran EXCEPT ![worker[p].key] = TRUE]
                 /\ worker'[p].pc = "check3" => ran' = [ran EXCEPT ![worker[p].key] = TRUE]
                 /\ op' = op /\ sent' = sent
<1>t. /\ ran \in [Keys -> BOOLEAN] /\ worker \in [Owners -> Works]
      /\ \A p \in Owners : worker[p].key \in Keys
  BY DEF TypeOK, Works
<1>b. ASSUME NEW k \in Keys, \E b \in BOOLEAN : ran' = [ran EXCEPT ![k] = ran[k] \/ b]
      PROVE  ran' = ran \/ ran' = [ran EXCEPT ![k] = TRUE]
  <2>1. PICK b \in BOOLEAN : ran' = [ran EXCEPT ![k] = ran[k] \/ b]
    BY <1>b
  <2>2. CASE b = TRUE
    <3>1. (ran[k] \/ b) = TRUE
      BY <2>2
    <3> QED
      BY <2>1, <3>1
  <2>3. CASE b = FALSE
    <3>1. (ran[k] \/ b) = ran[k]
      BY <2>3, <1>t
    <3> QED
      BY <2>1, <3>1, <1>t
  <2> QED
    BY <2>2, <2>3
<1>1. ASSUME NEW p \in Owners, Dispatch(p)
      PROVE  /\ op' = op /\ ran' = ran
             /\ sent' = [sent EXCEPT ![worker[p].key] = sent[worker[p].key] + 1]
  BY <1>1 DEF Dispatch, durable
<1> DEFINE Ends(p) ==
                 /\ worker[p].pc = "inflight"
                 /\ worker'[p].pc \in {"check3", "reject", "ambig", "exited"}
                 /\ worker'[p].pc = "reject" => ran' = ran
                 /\ ran' = ran \/ ran' = [ran EXCEPT ![worker[p].key] = TRUE]
                 /\ worker'[p].pc = "check3" => ran' = [ran EXCEPT ![worker[p].key] = TRUE]
                 /\ op' = op /\ sent' = sent
<1>2. ASSUME NEW p \in Owners, RpcReturns(p) PROVE Ends(p)
  <2>1. worker[p].pc = "inflight" /\ op' = op /\ sent' = sent
    BY <1>2 DEF RpcReturns, durable
  <2>g. ASSUME NEW pc, Goto(p, pc, worker[p].rec) PROVE worker'[p].pc = pc
    BY <2>g, <1>t DEF Goto
  <2>2. CASE Goto(p, "check3", worker[p].rec) /\ ran' = [ran EXCEPT ![worker[p].key] = TRUE]
    BY <2>1, <2>2, <2>g
  <2>3. CASE Goto(p, "reject", worker[p].rec) /\ UNCHANGED ran
    BY <2>1, <2>3, <2>g
  <2>4. CASE Goto(p, "ambig", worker[p].rec) /\ \E b \in BOOLEAN : ran' = [ran EXCEPT ![worker[p].key] = ran[worker[p].key] \/ b]
    BY <2>1, <2>4, <2>g, <1>b, <1>t
  <2> QED
    BY <1>2, <2>2, <2>3, <2>4 DEF RpcReturns
<1>3. ASSUME NEW p \in Owners, CancelWorker(p)
      PROVE  UNCHANGED <<sent, ran>> \/ Ends(p)
  <2>1. op' = op /\ sent' = sent
    BY <1>3 DEF CancelWorker, durable
  <2>2. CASE /\ worker[p].pc = "inflight" /\ Goto(p, "ambig", worker[p].rec)
             /\ \E b \in BOOLEAN : ran' = [ran EXCEPT ![worker[p].key] = ran[worker[p].key] \/ b]
    <3>1. worker'[p].pc = "ambig"
      BY <2>2, <1>t DEF Goto
    <3> QED
      BY <2>1, <2>2, <3>1, <1>b, <1>t
  <2> QED
    BY <1>3, <2>1, <2>2 DEF CancelWorker
<1>4. ASSUME NEW p \in Owners, Crash(p)
      PROVE  UNCHANGED <<sent, ran>> \/ Ends(p)
  <2>1. op' = op /\ sent' = sent /\ worker'[p].pc = "exited"
    BY <1>4, <1>t DEF Crash, durable, ExitedWorker
  <2>2. CASE /\ worker[p].pc = "inflight"
             /\ \E b \in BOOLEAN : ran' = [ran EXCEPT ![worker[p].key] = ran[worker[p].key] \/ b]
    BY <2>1, <2>2, <1>b, <1>t
  <2> QED
    BY <1>4, <2>1, <2>2 DEF Crash
<1> QED
  BY <1>1, <1>2, <1>3, <1>4, <1>t, Frame

(* Every step keeps the answers in agreement with the rows. *)
LEMMA NextAnswerInv ==
    ASSUME TypeOK, LockInv, ReceiptInv, AnswerInv, [Next]_vars
    PROVE  AnswerInv'
<1>k. KeyOf \in [Callers -> Keys] /\ KeyOf' = KeyOf /\ call \in [Callers -> Calls]
  BY SceneType, Frame DEF KeyOf, TypeOK
<1> DEFINE Told(c) ==
        /\ call'[c].out = "ok" => op'[KeyOf[c]].state = "confirmed"
        /\ call'[c].out \in {"rejected", "deferred"} => op'[KeyOf[c]].state = "rejected"
<1> SUFFICES ASSUME NEW c \in Callers PROVE Told(c)
  BY <1>k DEF AnswerInv
<1>s. ASSUME call'[c].out = call[c].out PROVE Told(c)
  <2>1. /\ call[c].out = "ok" => op[KeyOf[c]].state = "confirmed"
        /\ call[c].out \in {"rejected", "deferred"} => op[KeyOf[c]].state = "rejected"
    BY DEF AnswerInv
  <2>2. op[KeyOf[c]].state \in {"confirmed", "rejected"} => op'[KeyOf[c]].state = op[KeyOf[c]].state
    BY <1>k, LedgerEffect
  <2> QED
    BY <1>s, <2>1, <2>2
<1>r. ASSUME NEW p \in Owners, NEW ks, NEW out \in Outcomes, Resolve(p, ks, out),
             \A k \in ks : /\ out = "ok" => op'[k].state = "confirmed"
                           /\ out \in {"rejected", "deferred"} => op'[k].state = "rejected"
      PROVE  Told(c)
  <2>1. \/ call'[c] = call[c]
        \/ KeyOf[c] \in ks /\ call'[c].out = out
    BY <1>r, ResolveEffect
  <2> QED
    BY <1>r, <2>1, <1>s
<1>u. call' = call => Told(c)
  BY <1>s
<1>a. ASSUME NEW d \in Callers, NEW out, Answer(d, out), out \notin {"ok", "rejected", "deferred"}
      PROVE  Told(c)
  BY <1>a, <1>s, <1>k DEF Answer
<1>g. ASSUME NEW d \in Callers, NEW pc, NEW v, call' = [call EXCEPT ![d] = CallAt(d, pc, v)]
      PROVE  Told(c)
  BY <1>g, <1>s, <1>k DEF CallAt
<1>d. ASSUME NEW p \in Owners, NEW k \in Keys, op' = AfterSettleDeferred(k),
             Resolve(p, {k}, IF CanSettleDeferred(k) THEN "deferred" ELSE "ambiguous")
      PROVE  Told(c)
  <2>1. "deferred" \in Outcomes /\ "ambiguous" \in Outcomes
    BY DEF Outcomes
  <2>2. CASE CanSettleDeferred(k)
    <3>1. Resolve(p, {k}, "deferred")
      BY <1>d, <2>2
    <3>2. op'[k].state = "rejected"
      BY <1>d, <2>2 DEF AfterSettleDeferred, Becomes, TypeOK
    <3> QED
      BY <3>1, <3>2, <2>1, <1>r
  <2>3. CASE ~CanSettleDeferred(k)
    <3>1. Resolve(p, {k}, "ambiguous")
      BY <1>d, <2>3
    <3> QED
      BY <3>1, <2>1, <1>r
  <2> QED
    BY <2>2, <2>3
<1>o. {"ok", "rejected", "ambiguous"} \subseteq Outcomes
  BY DEF Outcomes
<1> HIDE DEF Told
<1> USE DEF durable, memory, world
<1>1. CASE LeaseWears
  BY <1>1, <1>u DEF LeaseWears
<1>2. ASSUME NEW d \in Callers, CallerStep(d) PROVE Told(c)
  <2>1. CASE SubmitRefused(d)
    BY <2>1, <1>a DEF SubmitRefused
  <2>2. CASE SubmitJoins(d) \/ SubmitBegins(d)
    BY <2>2, <1>g DEF SubmitJoins, SubmitBegins
  <2>3. CASE SubmitReplays(d)
    <3>1. CASE d = c
      <4>1. op' = op /\ call'[c].out = SettledResult(op[KeyOf[c]].state)
        BY <2>3, <3>1, <1>k DEF SubmitReplays, Answer
      <4> QED
        BY <4>1 DEF SettledResult, Told
    <3>2. CASE d # c
      BY <2>3, <3>2, <1>s, <1>k DEF SubmitReplays, Answer
    <3> QED
      BY <3>1, <3>2
  <2>4. CASE BeginValidate(d)
    BY <2>4, <1>a, <1>g DEF BeginValidate
  <2>5. CASE BeginCommit(d)
    BY <2>5, <1>a, <1>g DEF BeginCommit
  <2> QED
    BY <1>2, <2>1, <2>2, <2>3, <2>4, <2>5 DEF CallerStep
<1>3. ASSUME NEW p \in Owners, WorkerStep(p) PROVE Told(c)
  <2>1. CASE Take(p) \/ CheckFence(p) \/ BeforeSend(p) \/ Dispatch(p) \/ RpcReturns(p)
    BY <2>1, <1>u DEF Take, CheckFence, BeforeSend, Dispatch, RpcReturns
  <2>2. CASE ReceiptValidate(p)
    <3>1. CASE ReceiptFails(p)
      BY <3>1, <1>u, <1>r, <1>o DEF ReceiptFails
    <3> QED
      BY <2>2, <3>1, <1>u DEF ReceiptValidate
  <2>3. CASE ReceiptCommit(p)
    <3>1. CASE UNCHANGED call
      BY <3>1, <1>u
    <3>2. ASSUME NEW out \in {"ok", "rejected", "ambiguous"}, Resolve(p, {worker[p].key}, out),
                 out = "ok" => op'[worker[p].key].state = "confirmed",
                 out = "rejected" => op'[worker[p].key].state = "rejected"
          PROVE  Told(c)
      BY <3>2, <1>r, <1>o
    <3> QED
      BY <2>3, <3>1, <3>2, CommitEffect DEF GoesOn, Drops
  <2>4. CASE Defer(p)
    <3>1. worker[p].key \in Keys
      BY DEF TypeOK, Works
    <3> QED
      BY <2>4, <3>1, <1>d DEF Defer
  <2> QED
    BY <1>3, <2>1, <2>2, <2>3, <2>4 DEF WorkerStep
<1>4. ASSUME NEW p \in Owners, StopStep(p) PROVE Told(c)
  <2>1. CASE StopItem(p)
    <3>1. Head(queue[p]) \in Items
      BY <2>1, TailEffect DEF StopItem, TypeOK
    <3>2. Head(queue[p]).key \in Keys
      BY <3>1 DEF Items
    <3>3. CASE Resolve(p, {Head(queue[p]).key}, "ambiguous")
      BY <3>3, <1>r, <1>o
    <3> QED
      BY <2>1, <3>2, <3>3, <1>d DEF StopItem
  <2>2. CASE StopSettles(p)
    <3>1. Resolve(p, futures[p], "ambiguous")
      BY <2>2 DEF StopSettles
    <3> QED
      BY <3>1, <1>r, <1>o
  <2> QED
    BY <1>4, <2>1, <2>2, <1>u DEF StopStep, Freeze, Thaw, Stop, CancelWorker, Release
<1>5. ASSUME NEW p \in Owners, LifecycleStep(p) PROVE Told(c)
  <2>1. CASE Crash(p)
    <3>1. call'[c] = call[c] \/ call'[c].out = "gone"
      BY <2>1 DEF Crash
    <3> QED
      BY <3>1, <1>s DEF Told
  <2> QED
    BY <1>5, <2>1, <1>u DEF LifecycleStep, Renew, Acquire, Attach, StartupRecovery, ReducerDies
<1>6. CASE UNCHANGED vars
  BY <1>6, <1>u DEF vars
<1> QED
  BY <1>1, <1>2, <1>3, <1>4, <1>5, <1>6 DEF Next

-----------------------------------------------------------------------------
(* Process p is at work on the operation k. *)
Holds(p, k) == k \in futures[p] \/ \E c \in Callers : lock[p] = c /\ KeyOf[c] = k

(* While no two live processes submit the same key, one process at most is at
   work on an operation. *)
LEMMA Sole ==
    ASSUME TypeOK, AloneInv, IdleInv, LockInv, HostInv, Apart,
           NEW p \in Owners, NEW q \in Owners, NEW k \in Keys, Holds(p, k), Holds(q, k)
    PROVE  p = q
<1>n. NoCaller \notin Callers
  BY MailboxAssumption
<1>1. ASSUME NEW r \in Owners, Holds(r, k)
      PROVE  /\ \E c \in scene.calls : HostOf[c] = r /\ KeyOf[c] = k
             /\ phase[r] \notin {"detached", "crashed"}
  <2>1. CASE k \in futures[r]
    BY <2>1 DEF HostInv, IdleInv, Active
  <2>2. ASSUME NEW c \in Callers, lock[r] = c, KeyOf[c] = k
        PROVE  /\ \E d \in scene.calls : HostOf[d] = r /\ KeyOf[d] = k
               /\ phase[r] \notin {"detached", "crashed"}
    <3>1. call[c].pc = "begin" /\ HostOf[c] = r
      BY <2>2 DEF LockInv
    <3>2. c \in scene.calls
      BY <3>1 DEF HostInv
    <3>3. phase[r] = "running"
      BY <2>2, <1>n DEF IdleInv
    <3> QED
      BY <2>2, <3>1, <3>2, <3>3
  <2> QED
    BY <1>1, <2>1, <2>2 DEF Holds
<1>2. CASE ~Zombies
  BY <1>1, <1>2 DEF AloneInv
<1>3. CASE \A c, d \in scene.calls : KeyOf[c] = KeyOf[d] => HostOf[c] = HostOf[d]
  <2>1. PICK c \in scene.calls : HostOf[c] = p /\ KeyOf[c] = k
    BY <1>1
  <2>2. PICK d \in scene.calls : HostOf[d] = q /\ KeyOf[d] = k
    BY <1>1
  <2> QED
    BY <2>1, <2>2, <1>3
<1> QED
  BY <1>2, <1>3 DEF Apart

(* A lease that is current with a process was so before the step. *)
LEMMA CurrentWas ==
    ASSUME TypeOK, IdleInv, [Next]_vars, NEW p \in Owners, Active(p), IsCurrent(p)'
    PROVE  IsCurrent(p)
<1>t. tok \in [Owners -> Nat] /\ phase[p] \in {"running", "stopping", "emergency"}
  BY DEF TypeOK, Active
<1> USE DEF IsCurrent
<1>1. CASE UNCHANGED <<bind, lease, tok, phase>>
  BY <1>1
<1>2. CASE LeaseWears
  BY <1>2 DEF LeaseWears, LeaseLeft, memory
<1>3. ASSUME NEW q \in Owners, Stop(q) \/ StopSettles(q) \/ Crash(q) \/ Attach(q)
      PROVE  IsCurrent(p)
  BY <1>3 DEF Stop, StopSettles, Crash, Attach, durable
<1>4. ASSUME NEW q \in Owners, Release(q) PROVE IsCurrent(p)
  BY <1>4, <1>t DEF Release, LeaseLeft
<1>5. ASSUME NEW q \in Owners, Renew(q) PROVE IsCurrent(p)
  BY <1>5 DEF Renew, LeaseLeft, memory
<1>6. ASSUME NEW q \in Owners, Acquire(q) PROVE FALSE
  BY <1>6, <1>t DEF Acquire
<1> QED
  BY <1>1, <1>2, <1>3, <1>4, <1>5, <1>6, Frame

(* What a step does to an operation that p has in its mailbox: only p sends it
   and sees it run, and only p settles it; others can only make it unknown,
   and not while p owns the session and works on it under its own token. *)
LEMMA KeyEffect ==
    ASSUME TypeOK, TokenInv, AloneInv, IdleInv, LockInv, KeyInv, HostInv, ReceiptInv, Apart,
           [Next]_vars, NEW p \in Owners, NEW k \in Keys, k \in futures[p]
    PROVE  /\ sent'[k] = sent[k] \/ (Dispatch(p) /\ worker[p].key = k)
           /\ \/ ran'[k] = ran[k]
              \/ /\ worker[p].pc = "inflight" /\ worker[p].key = k
                 /\ worker'[p].pc \in {"check3", "ambig", "exited"}
           /\ \/ op'[k].state = op[k].state
              \/ ReceiptCommit(p) /\ worker[p].key = k
              \/ Defer(p) /\ worker[p].key = k
              \/ StopItem(p)
              \/ /\ Lapses(k)
                 /\ worker[p].pc \in {"idle", "exited"} \/ ~IsCurrent(p) \/ op[k].fence # tok[p]
<1>n. Holds(p, k)
  BY DEF Holds
<1>o. ASSUME NEW q \in Owners, Busy(q), worker[q].key = k PROVE q = p
  BY <1>n, <1>o, Sole DEF Holds, KeyInv
<1>t. /\ sent \in [Keys -> Nat] /\ ran \in [Keys -> BOOLEAN] /\ tok \in [Owners -> Nat]
      /\ op \in [Keys -> Rows]
  BY DEF TypeOK
<1>1. sent'[k] = sent[k] \/ (Dispatch(p) /\ worker[p].key = k)
  <2>1. ASSUME NEW q \in Owners, Dispatch(q),
               sent' = [sent EXCEPT ![worker[q].key] = sent[worker[q].key] + 1], worker[q].key \in Keys
        PROVE  sent'[k] = sent[k] \/ (Dispatch(p) /\ worker[p].key = k)
    <3>1. CASE worker[q].key # k
      BY <2>1, <3>1, <1>t
    <3>2. CASE worker[q].key = k
      <4>1. q = p
        BY <2>1, <3>2, <1>o DEF Dispatch, Busy
      <4> QED
        BY <4>1, <2>1, <3>2
    <3> QED
      BY <3>1, <3>2
  <2> QED
    BY <2>1, WorldEffect
<1>2. \/ ran'[k] = ran[k]
      \/ /\ worker[p].pc = "inflight" /\ worker[p].key = k
         /\ worker'[p].pc \in {"check3", "ambig", "exited"}
  <2>1. ASSUME NEW q \in Owners, worker[q].pc = "inflight", worker[q].key \in Keys,
               worker'[q].pc \in {"check3", "reject", "ambig", "exited"},
               worker'[q].pc = "reject" => ran' = ran,
               ran' = ran \/ ran' = [ran EXCEPT ![worker[q].key] = TRUE]
        PROVE  \/ ran'[k] = ran[k]
               \/ /\ worker[p].pc = "inflight" /\ worker[p].key = k
                  /\ worker'[p].pc \in {"check3", "ambig", "exited"}
    <3>1. CASE worker[q].key # k
      BY <2>1, <3>1, <1>t
    <3>2. CASE worker[q].key = k
      <4>1. q = p
        BY <2>1, <3>2, <1>o DEF Busy
      <4> QED
        BY <4>1, <2>1, <3>2
    <3> QED
      BY <3>1, <3>2
  <2> QED
    BY <2>1, WorldEffect
<1>3. \/ op'[k].state = op[k].state
      \/ ReceiptCommit(p) /\ worker[p].key = k
      \/ Defer(p) /\ worker[p].key = k
      \/ StopItem(p)
      \/ /\ Lapses(k)
         /\ worker[p].pc \in {"idle", "exited"} \/ ~IsCurrent(p) \/ op[k].fence # tok[p]
  <2> SUFFICES ASSUME op'[k].state # op[k].state
               PROVE  \/ ReceiptCommit(p) /\ worker[p].key = k
                      \/ Defer(p) /\ worker[p].key = k
                      \/ StopItem(p)
                      \/ /\ Lapses(k)
                         /\ worker[p].pc \in {"idle", "exited"} \/ ~IsCurrent(p) \/ op[k].fence # tok[p]
    OBVIOUS
  <2>1. ASSUME NEW c \in Callers, BeginCommit(c), Moves(KeyOf[c], {"none"}, "pending") PROVE FALSE
    <3>1. KeyOf[c] = k
      BY <2>1 DEF Moves
    <3>2. HostOf[c] \in Owners /\ lock[HostOf[c]] = c
      BY <2>1, MailboxAssumption DEF BeginCommit, LockInv
    <3>3. HostOf[c] = p
      BY <3>1, <3>2, <1>n, Sole DEF Holds
    <3> QED
      BY <3>1, <3>2, <3>3 DEF LockInv
  <2>2. ASSUME NEW q \in Owners, ReceiptCommit(q), Moves(worker[q].key, {From(worker[q])}, Target(worker[q].pc)),
               worker[q].pc \in Receipts
        PROVE  ReceiptCommit(p) /\ worker[p].key = k
    <3>1. worker[q].key = k
      BY <2>2 DEF Moves
    <3>2. q = p
      BY <2>2, <3>1, <1>o DEF Receipts, Busy
    <3> QED
      BY <2>2, <3>1, <3>2
  <2>3. ASSUME NEW q \in Owners, Defer(q), Moves(worker[q].key, {"pending", "started", "unknown"}, "rejected")
        PROVE  Defer(p) /\ worker[p].key = k
    <3>1. worker[q].key = k
      BY <2>3 DEF Moves
    <3>2. q = p
      BY <2>3, <3>1, <1>o DEF Defer, Busy
    <3> QED
      BY <2>3, <3>1, <3>2
  <2>4. ASSUME NEW q \in Owners, StopItem(q), Moves(Head(queue[q]).key, {"pending", "started", "unknown"}, "rejected")
        PROVE  StopItem(p)
    <3>1. Head(queue[q]).key = k
      BY <2>4 DEF Moves
    <3>2. queue[q] \in Seq(Items) /\ queue[q] # <<>>
      BY <2>4 DEF StopItem, TypeOK
    <3>3. Len(queue[q]) \in Nat /\ Len(queue[q]) > 0 /\ Head(queue[q]) = queue[q][1]
      BY <3>2, TailEffect
    <3>4. k \in futures[q]
      BY <3>1, <3>3 DEF KeyInv, Queued
    <3>5. q = p
      BY <3>4, <1>n, Sole DEF Holds
    <3> QED
      BY <2>4, <3>5
  <2>5. ASSUME NEW q \in Owners, StopSettles(q), Lapses(k)
        PROVE  worker[p].pc \in {"idle", "exited"} \/ ~IsCurrent(p) \/ op[k].fence # tok[p]
    <3>1. CASE q = p
      BY <2>5, <3>1 DEF StopSettles
    <3>2. CASE q # p
      <4>1. bind = tok[q] /\ op[k].fence = tok[q]
        BY <2>5, <1>t DEF StopSettles, Lapses
      <4>2. Active(q) /\ tok[q] > 0
        BY <2>5 DEF StopSettles, Active, TokenInv
      <4>3. tok[p] # tok[q]
        BY <3>2, <4>2 DEF TokenInv
      <4> QED
        BY <4>1, <4>3
    <3> QED
      BY <3>1, <3>2
  <2>6. ASSUME NEW q \in Owners, Acquire(q) PROVE ~IsCurrent(p)
    BY <2>6 DEF Acquire, IsCurrent
  <2>7. ASSUME NEW q \in Owners, StartupRecovery(q), Lapses(k) PROVE ~IsCurrent(p) \/ op[k].fence # tok[p]
    BY <2>7, <1>t DEF StartupRecovery, Lapses, IsCurrent
  <2>8. op' # op
    OBVIOUS
  <2>9. ASSUME NEW q \in Owners, StopSettles(q) \/ Acquire(q) \/ StartupRecovery(q),
               \A j \in Keys : op'[j] = op[j] \/ Lapses(j)
        PROVE  /\ Lapses(k)
               /\ worker[p].pc \in {"idle", "exited"} \/ ~IsCurrent(p) \/ op[k].fence # tok[p]
    <3>1. Lapses(k)
      BY <2>9
    <3> QED
      BY <3>1, <2>9, <2>5, <2>6, <2>7
  <2> QED
    BY <2>8, <2>1, <2>2, <2>3, <2>4, <2>9, StateEffect
<1> QED
  BY <1>1, <1>2, <1>3

(* Every step keeps what the stages say, and the facts they rest on. *)
LEMMA NextStageInv ==
    ASSUME TypeOK, TypeOK', TokenInv, AloneInv, IdleInv, LockInv, KeyInv, HostInv, JournalInv,
           ReceiptInv, FreshInv, StageInv, [Next]_vars
    PROVE  StageInv'
<1>k. /\ KeyOf \in [Callers -> Keys] /\ KeyOf' = KeyOf /\ Apart' = Apart
      /\ HostOf \in [Callers -> Owners] /\ NoCaller \notin Callers
  BY SceneType, Frame, MailboxAssumption DEF KeyOf, Apart, Zombies
<1>t. /\ op \in [Keys -> Rows] /\ queue \in [Owners -> Seq(Items)] /\ worker \in [Owners -> Works]
      /\ sent \in [Keys -> Nat] /\ lock \in [Owners -> Callers \cup {NoCaller}]
  BY DEF TypeOK
<1>r. /\ ran \in [Keys -> BOOLEAN] /\ \A q \in Owners : worker[q].key \in Keys
  BY DEF TypeOK, Works
<1> SUFFICES ASSUME Apart, NEW p \in Owners
             PROVE  /\ \A c \in Callers : lock'[p] = c => op'[KeyOf[c]].state = "none"
                    /\ \A i \in Queued(p)' : sent'[queue'[p][i].key] = 0
                    /\ worker'[p].pc \in {"check1", "start", "check2", "call", "defer"} =>
                          sent'[worker'[p].key] = 0
                    /\ worker'[p].pc \in {"check2", "call"} /\ IsCurrent(p)' =>
                          op'[worker'[p].key].state = "started"
                    /\ worker'[p].pc = "inflight" =>
                          /\ sent'[worker'[p].key] = 1 /\ ~ran'[worker'[p].key]
                          /\ op'[worker'[p].key].state \in {"started", "unknown"}
                    /\ worker'[p].pc \in {"check3", "confirm"} => ran'[worker'[p].key]
                    /\ worker'[p].pc = "reject" => ~ran'[worker'[p].key]
  BY <1>k DEF StageInv
<1> DEFINE k == worker[p].key
<1>s. /\ \A c \in Callers : lock[p] = c => op[KeyOf[c]].state = "none"
      /\ \A i \in Queued(p) : sent[queue[p][i].key] = 0
      /\ worker[p].pc \in {"check1", "start", "check2", "call", "defer"} => sent[k] = 0
      /\ worker[p].pc \in {"check2", "call"} /\ IsCurrent(p) => op[k].state = "started"
      /\ worker[p].pc = "inflight" => sent[k] = 1 /\ ~ran[k] /\ op[k].state \in {"started", "unknown"}
      /\ worker[p].pc \in {"check3", "confirm"} => ran[k]
      /\ worker[p].pc = "reject" => ~ran[k]
  BY DEF StageInv
<1>u. ASSUME NEW j \in Keys, sent[j] = 0 PROVE ~ran[j]
  <2>1. ~(sent[j] > 0)
    BY <1>u
  <2> QED
    BY <2>1 DEF JournalInv
<1>f. Busy(p) => k \in Keys /\ k \in futures[p] /\ Active(p)
  BY <1>r DEF KeyInv, Busy, IdleInv
<1>1. ASSUME NEW c \in Callers, lock'[p] = c PROVE op'[KeyOf[c]].state = "none"
  <2>1. CASE lock[p] = c
    <3> SUFFICES ASSUME op'[KeyOf[c]].state # "none" PROVE FALSE
      OBVIOUS
    <3>1. op[KeyOf[c]].state = "none" /\ KeyOf[c] \in Keys
      BY <2>1, <1>s, <1>k
    <3>2. PICK d \in Callers : BeginCommit(d) /\ KeyOf[d] = KeyOf[c] /\ lock[HostOf[d]] = d
      BY <3>1, LedgerEffect
    <3>3. HostOf[d] = p
      BY <2>1, <3>1, <3>2, <1>k, Sole DEF Holds
    <3>4. lock'[p] = NoCaller
      BY <3>2, <3>3, <1>t DEF BeginCommit
    <3> QED
      BY <1>1, <3>4, <1>k
  <2>2. CASE SubmitBegins(c)
    BY <2>2 DEF SubmitBegins, durable
  <2> QED
    BY <1>1, <2>1, <2>2, LockEffect
<1>2. ASSUME NEW i \in Queued(p)' PROVE sent'[queue'[p][i].key] = 0
  <2>1. ASSUME NEW j \in Queued(p), queue'[p][i].key = queue[p][j].key
        PROVE  sent'[queue'[p][i].key] = 0
    <3> DEFINE l == queue[p][j].key
    <3>1. queue[p] \in Seq(Items) /\ j \in 1..Len(queue[p])
      BY <1>t DEF Queued
    <3>2. queue[p][j] \in Items
      BY <3>1
    <3>3. l \in Keys /\ l \in futures[p]
      BY <3>2 DEF Items, KeyInv
    <3>4. ~(Dispatch(p) /\ worker[p].key = l)
      BY DEF KeyInv, Busy, Dispatch
    <3>5. sent'[l] = sent[l]
      BY <3>3, <3>4, KeyEffect
    <3>6. sent[l] = 0
      BY <1>s
    <3> QED
      BY <2>1, <3>5, <3>6
  <2>2. ASSUME NEW c \in Callers, BeginCommit(c), HostOf[c] = p, queue'[p][i].key = KeyOf[c]
        PROVE  sent'[queue'[p][i].key] = 0
    <3>1. lock[p] = c /\ KeyOf[c] \in Keys
      BY <2>2, <1>k DEF LockInv, BeginCommit
    <3>2. op[KeyOf[c]].state = "none"
      BY <3>1, <1>s
    <3>3. <<KeyOf[c], "started">> \notin journal
      BY <3>1, <3>2 DEF JournalInv, OpStates
    <3>4. ~(sent[KeyOf[c]] > 0) /\ sent[KeyOf[c]] \in Nat
      BY <3>1, <3>3, <1>t DEF JournalInv
    <3>5. sent' = sent
      BY <2>2 DEF BeginCommit, world
    <3> QED
      BY <2>2, <3>4, <3>5
  <2> QED
    BY <2>1, <2>2, QueueEffect
<1> DEFINE Stage ==
               /\ worker'[p].pc \in {"check1", "start", "check2", "call", "defer"} =>
                     sent'[worker'[p].key] = 0
               /\ worker'[p].pc \in {"check2", "call"} /\ IsCurrent(p)' =>
                     op'[worker'[p].key].state = "started"
               /\ worker'[p].pc = "inflight" =>
                     /\ sent'[worker'[p].key] = 1 /\ ~ran'[worker'[p].key]
                     /\ op'[worker'[p].key].state \in {"started", "unknown"}
               /\ worker'[p].pc \in {"check3", "confirm"} => ran'[worker'[p].key]
               /\ worker'[p].pc = "reject" => ~ran'[worker'[p].key]
(* The worker stays where it is. *)
<1>3. ASSUME worker'[p].pc = worker[p].pc, worker'[p].key = worker[p].key,
             worker[p].pc \notin {"idle", "exited", "ambig"}
      PROVE  Stage
  <2>1. Busy(p) /\ k \in Keys /\ k \in futures[p] /\ Active(p)
    BY <1>3, <1>f DEF Busy
  <2>2. sent'[k] = sent[k]
    <3>1. Dispatch(p) => worker[p].pc = "call" /\ worker'[p].pc = "inflight"
      BY <1>t DEF Dispatch, Goto
    <3> QED
      BY <1>3, <2>1, <3>1, KeyEffect
  <2>3. ran'[k] = ran[k]
    <3>1. \/ ran'[k] = ran[k]
          \/ worker[p].pc = "inflight" /\ worker'[p].pc \in {"check3", "ambig", "exited"}
      BY <2>1, KeyEffect
    <3> QED
      BY <1>3, <3>1
  <2>4. ASSUME worker[p].pc \in {"check2", "call"}, IsCurrent(p)' PROVE op'[k].state = "started"
    <3>1. IsCurrent(p)
      BY <2>1, <2>4, CurrentWas
    <3>2. op[k].state = "started"
      BY <2>4, <3>1, <1>s
    <3>3. op[k].fence = tok[p]
      BY <2>1, <2>4, <3>1 DEF FreshInv, IsCurrent, Latest
    <3>4. ~ReceiptCommit(p) /\ ~Defer(p) /\ ~StopItem(p)
      BY <2>4 DEF ReceiptCommit, Receipts, Defer, StopItem
    <3> QED
      BY <2>1, <2>4, <3>1, <3>2, <3>3, <3>4, KeyEffect
  <2>5. ASSUME worker[p].pc = "inflight" PROVE op'[k].state \in {"started", "unknown"}
    <3>1. op[k].state \in {"started", "unknown"}
      BY <2>5, <1>s
    <3>2. ~ReceiptCommit(p) /\ ~Defer(p) /\ ~StopItem(p)
      BY <2>5 DEF ReceiptCommit, Receipts, Defer, StopItem
    <3> QED
      BY <2>1, <3>1, <3>2, KeyEffect DEF Lapses
  <2>6. worker[p].pc \in {"check1", "start", "check2", "call", "defer"} => sent'[k] = 0
    BY <2>2, <1>s
  <2>7. worker[p].pc = "inflight" => sent'[k] = 1 /\ ~ran'[k]
    BY <2>2, <2>3, <1>s
  <2>8. (worker[p].pc \in {"check3", "confirm"} => ran'[k]) /\ (worker[p].pc = "reject" => ~ran'[k])
    BY <2>3, <1>s
  <2> QED
    BY <1>3, <2>4, <2>5, <2>6, <2>7, <2>8
<1>4. ASSUME worker'[p].pc \in {"idle", "exited", "ambig"} PROVE Stage
  BY <1>4
<1>5. ASSUME Take(p), worker'[p].pc = "check1", worker'[p].key = Head(queue[p]).key PROVE Stage
  <2>1. queue[p] \in Seq(Items) /\ queue[p] # <<>> /\ sent' = sent
    BY <1>5, <1>t DEF Take, world
  <2>2. Len(queue[p]) \in Nat /\ Len(queue[p]) > 0 /\ Head(queue[p]) = queue[p][1]
    BY <2>1, TailEffect
  <2>3. sent[Head(queue[p]).key] = 0
    BY <2>2, <1>s DEF Queued
  <2> QED
    BY <1>5, <2>1, <2>3
<1>6. ASSUME CheckFence(p), worker'[p].key = k,
             \/ worker[p].pc = "check1" /\ worker'[p].pc = "start"
             \/ worker[p].pc = "check2" /\ worker'[p].pc = "call"
             \/ worker[p].pc = "check3" /\ worker'[p].pc = "confirm"
             \/ worker[p].pc \in {"check1", "check2"} /\ worker'[p].pc = "defer"
      PROVE  Stage
  <2>1. UNCHANGED <<op, lease, tok, sent, ran>>
    BY <1>6 DEF CheckFence, durable, world
  <2>2. IsCurrent(p)' = IsCurrent(p)
    BY <2>1 DEF IsCurrent
  <2> QED
    BY <1>6, <2>1, <2>2, <1>s
<1>7. ASSUME ReceiptCommit(p), worker'[p].key = k, worker[p].pc = "start", worker'[p].pc = "check2"
      PROVE  Stage
  <2>1. sent' = sent
    BY <1>7 DEF ReceiptCommit, world
  <2>2. ~IsDone(p) /\ ~Drops(p)
    BY <1>7 DEF IsDone, Drops, IdleWorker, ExitedWorker
  <2>3. op'[k].state = "started"
    BY <1>7, <2>2, CommitEffect
  <2> QED
    BY <1>7, <2>1, <2>3, <1>s
<1>8. ASSUME BeforeSend(p), worker'[p].key = k, worker[p].pc = "call", worker'[p].pc \in {"defer", "reject"}
      PROVE  Stage
  <2>1. UNCHANGED <<sent, ran>>
    BY <1>8 DEF BeforeSend, world
  <2>2. sent[k] = 0
    BY <1>8, <1>s
  <2>3. ~ran[k]
    BY <2>2, <1>u, <1>r
  <2> QED
    BY <1>8, <2>1, <2>2, <2>3
<1>9. ASSUME Dispatch(p), worker'[p].key = k, worker[p].pc = "call", worker'[p].pc = "inflight"
      PROVE  Stage
  <2>1. op' = op /\ ran' = ran /\ sent'[k] = sent[k] + 1
    BY <1>9, <1>t, <1>r DEF Dispatch, durable
  <2>2. sent[k] = 0
    BY <1>9, <1>s
  <2>3. ~ran[k]
    BY <2>2, <1>u, <1>r
  <2>4. op[k].state = "started"
    BY <1>9, <1>s DEF FreshInv
  <2>5. sent'[k] = 1
    BY <2>1, <2>2
  <2>6. ~ran'[k] /\ op'[k].state = "started"
    BY <2>1, <2>3, <2>4
  <2> QED
    BY <1>9, <2>5, <2>6
<1>10. ASSUME RpcReturns(p), worker'[p].key = k, worker[p].pc = "inflight", worker'[p].pc \in {"check3", "reject"}
       PROVE  Stage
  <2>1. ~ran[k]
    BY <1>10, <1>s
  <2>g. ASSUME NEW pc, Goto(p, pc, worker[p].rec) PROVE worker'[p].pc = pc
    BY <2>g, <1>t DEF Goto
  <2>2. \/ worker'[p].pc = "check3" /\ ran' = [ran EXCEPT ![k] = TRUE]
        \/ worker'[p].pc = "reject" /\ ran' = ran
    BY <1>10, <2>g DEF RpcReturns
  <2>3. CASE worker'[p].pc = "check3" /\ ran' = [ran EXCEPT ![k] = TRUE]
    <3>1. ran'[k]
      BY <2>3, <1>r
    <3> QED
      BY <1>10, <2>3, <3>1
  <2>4. CASE worker'[p].pc = "reject" /\ ran' = ran
    BY <1>10, <2>1, <2>4
  <2> QED
    BY <2>2, <2>3, <2>4
<1>11. Stage
  <2> HIDE DEF Stage
  <2> QED
    BY <1>3, <1>4, <1>5, <1>6, <1>7, <1>8, <1>9, <1>10, PcEffect
<1> QED
  BY <1>1, <1>2, <1>11

(* Every step keeps the durable outcomes true. *)
LEMMA NextFactInv ==
    ASSUME TypeOK, TypeOK', AloneInv, IdleInv, LockInv, KeyInv, HostInv, JournalInv,
           ReceiptInv, StageInv, FactInv, [Next]_vars
    PROVE  FactInv'
<1>k. Apart' = Apart
  BY Frame DEF Apart, Zombies, KeyOf
<1>t. /\ op \in [Keys -> Rows] /\ ran \in [Keys -> BOOLEAN] /\ queue \in [Owners -> Seq(Items)]
      /\ sent \in [Keys -> Nat]
  BY DEF TypeOK
<1> SUFFICES ASSUME Apart, NEW k \in Keys
             PROVE  /\ op'[k].state = "confirmed" => ran'[k]
                    /\ op'[k].state = "rejected" => ~ran'[k]
  BY <1>k DEF FactInv
<1>f. (op[k].state = "confirmed" => ran[k]) /\ (op[k].state = "rejected" => ~ran[k])
  BY DEF FactInv
<1>u. ASSUME sent[k] = 0 PROVE ~ran[k]
  <2>1. ~(sent[k] > 0)
    BY <1>u
  <2> QED
    BY <2>1 DEF JournalInv
<1>1. CASE op' = op /\ ran' = ran
  BY <1>1, <1>f
<1>2. ASSUME NEW p \in Owners, worker[p].pc = "inflight", worker[p].key \in Keys, op' = op,
             ran' = ran \/ ran' = [ran EXCEPT ![worker[p].key] = TRUE]
      PROVE  /\ op'[k].state = "confirmed" => ran'[k]
             /\ op'[k].state = "rejected" => ~ran'[k]
  <2>1. CASE ran'[k] = ran[k]
    BY <1>2, <2>1, <1>f
  <2>2. CASE ran'[k] # ran[k]
    <3>1. worker[p].key = k
      BY <1>2, <2>2, <1>t
    <3>2. op[k].state \in {"started", "unknown"}
      BY <1>2, <3>1 DEF StageInv
    <3> QED
      BY <1>2, <3>2
  <2> QED
    BY <2>1, <2>2
<1>3. ASSUME NEW p \in Owners, Moves(worker[p].key, {From(worker[p])}, Target(worker[p].pc)),
             worker[p].pc \in Receipts, ran' = ran
      PROVE  /\ op'[k].state = "confirmed" => ran'[k]
             /\ op'[k].state = "rejected" => ~ran'[k]
  <2>1. CASE worker[p].key # k
    BY <1>3, <2>1, <1>f DEF Moves
  <2>2. CASE worker[p].key = k
    <3>1. op'[k].state = Target(worker[p].pc)
      BY <1>3, <2>2 DEF Moves
    <3>2. /\ Target(worker[p].pc) = "confirmed" => worker[p].pc = "confirm"
          /\ Target(worker[p].pc) = "rejected" => worker[p].pc = "reject"
      BY DEF Target
    <3>3. (worker[p].pc = "confirm" => ran[k]) /\ (worker[p].pc = "reject" => ~ran[k])
      BY <2>2 DEF StageInv
    <3> QED
      BY <1>3, <3>1, <3>2, <3>3
  <2> QED
    BY <2>1, <2>2
<1>4. ASSUME NEW j, Moves(j, {"pending", "started", "unknown"}, "rejected"), sent[j] = 0, ran' = ran
      PROVE  /\ op'[k].state = "confirmed" => ran'[k]
             /\ op'[k].state = "rejected" => ~ran'[k]
  BY <1>4, <1>f, <1>u DEF Moves
<1>5. ASSUME NEW p \in Owners, Defer(p) PROVE sent[worker[p].key] = 0
  BY <1>5 DEF Defer, StageInv
<1>6. ASSUME NEW p \in Owners, StopItem(p) PROVE sent[Head(queue[p]).key] = 0
  <2>1. queue[p] \in Seq(Items) /\ queue[p] # <<>>
    BY <1>6, <1>t DEF StopItem
  <2>2. Len(queue[p]) \in Nat /\ Len(queue[p]) > 0 /\ Head(queue[p]) = queue[p][1]
    BY <2>1, TailEffect
  <2> QED
    BY <2>2 DEF Queued, StageInv
<1>7. ASSUME NEW j, Moves(j, {"none"}, "pending"), ran' = ran
      PROVE  /\ op'[k].state = "confirmed" => ran'[k]
             /\ op'[k].state = "rejected" => ~ran'[k]
  BY <1>7, <1>f DEF Moves
<1>8. ASSUME \A j \in Keys : op'[j] = op[j] \/ Lapses(j), ran' = ran
      PROVE  /\ op'[k].state = "confirmed" => ran'[k]
             /\ op'[k].state = "rejected" => ~ran'[k]
  BY <1>8, <1>f DEF Lapses
<1>9. CASE op' = op
  BY <1>9, <1>1, <1>2, WorldEffect
<1>10. CASE op' # op
  BY <1>10, <1>3, <1>4, <1>5, <1>6, <1>7, <1>8, StateEffect
<1> QED
  BY <1>9, <1>10

-----------------------------------------------------------------------------
(* The inductive invariant. *)
IInv ==
    /\ TypeOK /\ TokenInv /\ IdleInv /\ LockInv /\ KeyInv /\ HostInv /\ AloneInv
    /\ JournalInv /\ ReceiptInv /\ FreshInv /\ AtMostOnceDispatch
    /\ AnswerInv /\ StageInv /\ FactInv

(* It holds before any process has started. *)
LEMMA InitIInv == Init => IInv
<1> SUFFICES ASSUME Init PROVE IInv
  OBVIOUS
<1>k. AnyKey \in Keys /\ HostOf \in [Callers -> Owners] /\ NoCaller \notin Callers
  BY MailboxAssumption, Zenon DEF AnyKey
<1>e. /\ ExitedWorker \in Works /\ ExitedWorker.pc = "exited" /\ ~ExitedWorker.valid
  BY <1>k DEF ExitedWorker, Works, WorkerPcs, OpStates
<1>r. NoRow \in Rows /\ NoRow.state = "none"
  BY DEF NoRow, Rows, OpStates, Codes
<1>i. /\ op = [k \in Keys |-> NoRow] /\ journal = {} /\ bind = 0
      /\ lease = [owner |-> NoOwner, fence |-> 0, left |-> "expired"]
      /\ phase = [p \in Owners |-> "detached"] /\ tok = [p \in Owners |-> 0]
      /\ accepting = [p \in Owners |-> FALSE] /\ reducer = [p \in Owners |-> FALSE]
      /\ lock = [p \in Owners |-> NoCaller] /\ queue = [p \in Owners |-> <<>>]
      /\ futures = [p \in Owners |-> {}] /\ worker = [p \in Owners |-> ExitedWorker]
      /\ lost = {} /\ sent = [k \in Keys |-> 0] /\ ran = [k \in Keys |-> FALSE]
  BY DEF Init
<1>c. \A c \in Callers : /\ call[c].out = "none" /\ call[c] \in Calls
                         /\ call[c].pc = IF c \in scene.calls THEN "idle" ELSE "done"
  BY DEF Init, Calls, Outcomes
<1>1. TypeOK
  <2>1. call \in [Callers -> Calls]
    BY <1>c DEF Init
  <2>2. lease \in Leases
    BY <1>i DEF Leases
  <2>3. queue \in [Owners -> Seq(Items)]
    BY <1>i
  <2>4. scene \in Scenes
    BY DEF Init
  <2>5. op \in [Keys -> Rows] /\ worker \in [Owners -> Works]
    BY <1>i, <1>e, <1>r
  <2>6. phase \in [Owners -> Phases]
    BY <1>i DEF Phases
  <2> QED
    BY <2>1, <2>2, <2>3, <2>4, <2>5, <2>6, <1>i DEF TypeOK
<1>2. TokenInv
  BY <1>i DEF TokenInv, Active, Latest
<1>3. IdleInv /\ LockInv
  BY <1>i, <1>c, <1>k, <1>e DEF IdleInv, LockInv, Active
<1>4. KeyInv
  BY <1>i, <1>e DEF KeyInv, Queued, Busy
<1>5. HostInv /\ AloneInv
  BY <1>i, <1>c DEF HostInv, AloneInv
<1>6. JournalInv /\ AtMostOnceDispatch
  BY <1>i, <1>e DEF JournalInv, AtMostOnceDispatch
<1>7. ReceiptInv /\ FreshInv
  BY <1>i, <1>e, <1>k DEF ReceiptInv, FreshInv, Active
<1>8. AnswerInv
  BY <1>c DEF AnswerInv
<1>9. StageInv
  <2>1. ASSUME NEW p \in Owners
        PROVE  worker[p].pc = "exited" /\ lock[p] \notin Callers /\ Queued(p) = {}
    BY <1>i, <1>e, <1>k DEF Queued
  <2> QED
    BY <2>1 DEF StageInv
<1>10. FactInv
  BY <1>i, <1>r DEF FactInv
<1> QED
  BY <1>1, <1>2, <1>3, <1>4, <1>5, <1>6, <1>7, <1>8, <1>9, <1>10 DEF IInv

(* Every step keeps it. *)
LEMMA NextIInv == IInv /\ [Next]_vars => IInv'
<1> SUFFICES ASSUME IInv, [Next]_vars PROVE IInv'
  OBVIOUS
<1> USE DEF IInv
<1>1. TypeOK'
  BY NextTypeOK
<1>2. TokenInv' /\ AloneInv' /\ ReceiptInv' /\ AnswerInv'
  BY NextTokenInv, NextAloneInv, NextReceiptInv, NextAnswerInv
<1>3. IdleInv' /\ LockInv' /\ KeyInv' /\ HostInv'
  BY <1>1, NextLocalInv
<1>4. FreshInv' /\ JournalInv' /\ AtMostOnceDispatch'
  BY <1>1, NextFreshInv, NextJournalInv
<1>5. StageInv' /\ FactInv'
  BY <1>1, NextStageInv, NextFactInv
<1> QED
  BY <1>1, <1>2, <1>3, <1>4, <1>5

(* The invariant holds throughout: tokens, mailboxes, journal, rows and
   answers stay in the agreement that the results below rest on. *)
THEOREM Invariance == Spec => []IInv
BY InitIInv, NextIInv, PTL DEF Spec

(* Every variable keeps its shape, for any processes, callers and keys. *)
THEOREM TypeCorrect == Spec => []TypeOK
<1>1. IInv => TypeOK
  BY DEF IInv
<1> QED
  BY <1>1, Invariance, PTL

(* "automatic replay is forbidden" (mailbox.py): through crashes, takeovers,
   zombies and repeated submissions, with any number of processes and calls,
   the RPC of a key leaves copilotD at most once. *)
THEOREM DispatchedOnce == Spec => []AtMostOnceDispatch
<1>1. IInv => AtMostOnceDispatch
  BY DEF IInv
<1> QED
  BY <1>1, Invariance, PTL

(* What the rows and the answers of submit() say is true of the world, unless
   two live processes submit the same key. *)
THEOREM OutcomesTrue == Spec => []OutcomesAreFacts
<1>1. ASSUME IInv PROVE OutcomesAreFacts
  <2>1. RejectedNeverRan
    BY <1>1 DEF IInv, RejectedNeverRan, FactInv
  <2>2. \A c \in Callers : KeyOf[c] \in Keys
    BY <1>1, SceneType DEF IInv
  <2>3. OutcomeHonest
    BY <1>1, <2>2 DEF IInv, OutcomeHonest, AnswerInv, FactInv
  <2> QED
    BY <2>1, <2>3 DEF OutcomesAreFacts
<1> QED
  BY <1>1, Invariance, PTL

-----------------------------------------------------------------------------
(* The ledger's view of the rows. *)
States == [k \in Keys |-> op[k].state]

(* Every step is one of the ledger, or leaves the ledger alone. *)
LEMMA StepRefines ==
    ASSUME IInv, [Next]_vars, Apart
    PROVE  Ledger!Next \/ UNCHANGED Ledger!ledger
<1> USE DEF IInv
<1>t. /\ op \in [Keys -> Rows] /\ ran \in [Keys -> BOOLEAN] /\ queue \in [Owners -> Seq(Items)]
      /\ sent \in [Keys -> Nat] /\ \A p \in Owners : worker[p].key \in Keys
  BY DEF TypeOK, Works
<1>s. States' = [k \in Keys |-> op'[k].state]
  BY DEF States
<1>u. ASSUME NEW j \in Keys, sent[j] = 0 PROVE ~ran[j]
  <2>1. ~(sent[j] > 0)
    BY <1>u
  <2> QED
    BY <2>1 DEF JournalInv
<1>m. ASSUME NEW k, NEW from, NEW to, Moves(k, from, to)
      PROVE  k \in Keys /\ States[k] \in from /\ States' = [States EXCEPT ![k] = to]
  BY <1>m, <1>s DEF Moves, States
<1>n. ASSUME NEW k \in Keys,
             \/ Ledger!Open(k) \/ Ledger!Start(k) \/ Ledger!Send(k)
             \/ Ledger!Run(k) \/ Ledger!Confirm(k) \/ Ledger!Reject(k)
      PROVE  Ledger!Next
  BY <1>n DEF Ledger!Next
<1>p. ASSUME NEW S \in SUBSET Keys, Ledger!Orphan(S) PROVE Ledger!Next
  BY <1>p DEF Ledger!Next
<1>0. CASE UNCHANGED <<op, sent, ran>>
  BY <1>0 DEF Ledger!ledger
<1>1. ASSUME NEW p \in Owners, Dispatch(p), op' = op, ran' = ran,
             sent' = [sent EXCEPT ![worker[p].key] = sent[worker[p].key] + 1]
      PROVE  Ledger!Next
  <2> DEFINE k == worker[p].key
  <2>1. worker[p].pc = "call" /\ k \in Keys
    BY <1>1, <1>t DEF Dispatch
  <2>2. sent[k] = 0 /\ op[k].state = "started"
    BY <2>1 DEF StageInv, FreshInv
  <2>3. Ledger!Send(k)
    BY <1>1, <2>1, <2>2 DEF Ledger!Send
  <2> QED
    BY <2>1, <2>3, <1>n
<1>2. ASSUME NEW p \in Owners, worker[p].pc = "inflight", op' = op, sent' = sent,
             ran' = [ran EXCEPT ![worker[p].key] = TRUE]
      PROVE  Ledger!Next
  <2> DEFINE k == worker[p].key
  <2>1. k \in Keys /\ sent[k] = 1 /\ ~ran[k] /\ op[k].state \in {"started", "unknown"}
    BY <1>2, <1>t DEF StageInv
  <2>2. Ledger!Run(k)
    BY <1>2, <2>1 DEF Ledger!Run
  <2> QED
    BY <2>1, <2>2, <1>n
<1>3. ASSUME NEW k, Moves(k, {"none"}, "pending"), UNCHANGED <<sent, ran>> PROVE Ledger!Next
  <2>1. k \in Keys /\ States[k] = "none" /\ States' = [States EXCEPT ![k] = "pending"]
    BY <1>3, <1>m
  <2>2. Ledger!Open(k)
    BY <1>3, <2>1 DEF Ledger!Open, States
  <2> QED
    BY <2>1, <2>2, <1>n
<1>4. ASSUME NEW p \in Owners, Moves(worker[p].key, {From(worker[p])}, Target(worker[p].pc)),
             From(worker[p]) \in {"pending", "started"}, worker[p].pc \in Receipts, UNCHANGED <<sent, ran>>
      PROVE  Ledger!Next
  <2>0. PICK k \in Keys : k = worker[p].key
    BY <1>t
  <2>1. /\ k \in Keys /\ States[k] = From(worker[p])
        /\ States' = [States EXCEPT ![k] = Target(worker[p].pc)]
    BY <2>0, <1>4, <1>m
  <2>2. CASE worker[p].pc = "start"
    <3>1. Ledger!Start(k)
      BY <1>4, <2>1, <2>2 DEF Ledger!Start, States, From, Target
    <3> QED
      BY <2>1, <3>1, <1>n
  <2>3. CASE worker[p].pc = "confirm"
    <3>1. ran[k]
      BY <2>0, <2>3 DEF StageInv
    <3>2. Ledger!Confirm(k)
      BY <1>4, <2>1, <2>3, <3>1 DEF Ledger!Confirm, States, From, Target
    <3> QED
      BY <2>1, <3>2, <1>n
  <2>4. CASE worker[p].pc = "reject"
    <3>1. ~ran[k]
      BY <2>0, <2>4 DEF StageInv
    <3>2. Ledger!Reject(k)
      BY <1>4, <2>1, <2>4, <3>1 DEF Ledger!Reject, States, From, Target
    <3> QED
      BY <2>1, <3>2, <1>n
  <2>5. CASE worker[p].pc = "ambig"
    <3>1. States' = [j \in Keys |-> IF j \in {k} THEN "unknown" ELSE States[j]]
      BY <2>1, <2>5 DEF Target, States
    <3>2. Ledger!Orphan({k})
      BY <1>4, <2>1, <3>1 DEF Ledger!Orphan, States
    <3> QED
      BY <2>1, <3>2, <1>p
  <2> QED
    BY <1>4, <2>2, <2>3, <2>4, <2>5 DEF Receipts
<1>5. ASSUME NEW k, Moves(k, {"pending", "started", "unknown"}, "rejected"), sent[k] = 0,
             UNCHANGED <<sent, ran>>
      PROVE  Ledger!Next
  <2>1. /\ k \in Keys /\ States[k] \in {"pending", "started", "unknown"}
        /\ States' = [States EXCEPT ![k] = "rejected"]
    BY <1>5, <1>m
  <2>2. ~ran[k]
    BY <1>5, <2>1, <1>u
  <2>3. Ledger!Reject(k)
    BY <1>5, <2>1, <2>2 DEF Ledger!Reject, States
  <2> QED
    BY <2>1, <2>3, <1>n
<1>6. ASSUME NEW p \in Owners, Defer(p) PROVE sent[worker[p].key] = 0
  BY <1>6 DEF Defer, StageInv
<1>7. ASSUME NEW p \in Owners, StopItem(p) PROVE sent[Head(queue[p]).key] = 0
  <2>1. queue[p] \in Seq(Items) /\ queue[p] # <<>>
    BY <1>7, <1>t DEF StopItem
  <2>2. Len(queue[p]) \in Nat /\ Len(queue[p]) > 0 /\ Head(queue[p]) = queue[p][1]
    BY <2>1, TailEffect
  <2> QED
    BY <2>2 DEF Queued, StageInv
<1>8. ASSUME \A k \in Keys : op'[k] = op[k] \/ Lapses(k), UNCHANGED <<sent, ran>> PROVE Ledger!Next
  <2>0. PICK S \in SUBSET Keys : S = {k \in Keys : Lapses(k)}
    OBVIOUS
  <2>1. \A k \in S : States[k] \in {"pending", "started"}
    BY <2>0 DEF Lapses, States
  <2>2. States' = [k \in Keys |-> IF k \in S THEN "unknown" ELSE States[k]]
    BY <1>8, <2>0, <1>s DEF Lapses, States
  <2>3. Ledger!Orphan(S)
    BY <1>8, <2>1, <2>2 DEF Ledger!Orphan, States
  <2> QED
    BY <2>3, <1>p
<1>9. CASE op' = op
  BY <1>9, <1>0, <1>1, <1>2, WorldEffect
<1>10. CASE op' # op
  BY <1>10, <1>3, <1>4, <1>5, <1>6, <1>7, <1>8, StateEffect
<1> QED
  BY <1>9, <1>10

(* The envelope implements the ledger, step by step: written before sent, sent
   at most once, settled once and truthfully, as long as no two live processes
   submit the same key. *)
THEOREM RefinesLedger == Spec => ImplementsLedger
<1>1. Init => Ledger!Init
  BY DEF Init, Ledger!Init, NoRow
<1>2. IInv /\ [Next]_vars => [Apart => Ledger!Next]_(Ledger!ledger)
  BY StepRefines
<1> QED
  BY <1>1, <1>2, Invariance, PTL DEF Spec, ImplementsLedger

(* A settled row stays as it is, except that an operation a takeover orphaned
   before it was ever sent may still be settled as deferred. *)
THEOREM SettledStays == Spec => SettledIsFinal
<1>1. ASSUME IInv, [Next]_vars, Apart, NEW k \in Keys, op[k].state \in Settled, op'[k].state # op[k].state
      PROVE  /\ op[k].state = "unknown" /\ op[k].code = "takeover"
             /\ op'[k].state = "rejected"
             /\ sent[k] = 0
  <2> USE <1>1 DEF IInv
  <2>1. ASSUME NEW j, CanSettleDeferred(j), sent[j] = 0, Moves(j, {"pending", "started", "unknown"}, "rejected")
        PROVE  /\ op[k].state = "unknown" /\ op[k].code = "takeover"
               /\ op'[k].state = "rejected"
               /\ sent[k] = 0
    BY <2>1 DEF Moves, CanSettleDeferred, Settled
  <2>2. ASSUME NEW p \in Owners, Defer(p) PROVE sent[worker[p].key] = 0
    BY <2>2 DEF Defer, StageInv
  <2>3. ASSUME NEW p \in Owners, StopItem(p) PROVE sent[Head(queue[p]).key] = 0
    <3>1. queue[p] \in Seq(Items) /\ queue[p] # <<>>
      BY <2>3 DEF StopItem, TypeOK
    <3>2. Len(queue[p]) \in Nat /\ Len(queue[p]) > 0 /\ Head(queue[p]) = queue[p][1]
      BY <3>1, TailEffect
    <3> QED
      BY <3>2 DEF Queued, StageInv
  <2>4. ~ \E c \in Callers : Moves(KeyOf[c], {"none"}, "pending")
    BY DEF Moves, Settled
  <2>5. ~ \E p \in Owners : /\ Moves(worker[p].key, {From(worker[p])}, Target(worker[p].pc))
                            /\ From(worker[p]) \in {"pending", "started"}
    BY DEF Moves, Settled
  <2>6. ~ \A j \in Keys : op'[j] = op[j] \/ Lapses(j)
    BY DEF Lapses, Settled
  <2> QED
    BY <2>1, <2>2, <2>3, <2>4, <2>5, <2>6, StateEffect
<1>2. IInv /\ [Next]_vars =>
         [ Apart => \A k \in Keys :
             op[k].state \in Settled /\ op'[k].state # op[k].state =>
                /\ op[k].state = "unknown" /\ op[k].code = "takeover"
                /\ op'[k].state = "rejected"
                /\ sent[k] = 0 ]_vars
  BY <1>1
<1> QED
  BY <1>2, Invariance, PTL DEF Spec, SettledIsFinal
=============================================================================
