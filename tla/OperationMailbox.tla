--------------------------- MODULE OperationMailbox ---------------------------
(***************************************************************************)
(* The crash envelope of mutating SDK calls for one session: OperationStore *)
(* and CommandMailbox (copilotd/core/mailbox.py), the reducer's operation   *)
(* receipts (copilotd/core/reducer.py), and what a lease takeover           *)
(* (storage/leases.py), an attachment (core/bindings.py) and a restart      *)
(* (core/recovery.py) do to the durable rows.                               *)
(*                                                                         *)
(* Owners are processes.  Each has at most one mailbox with one worker task, *)
(* a submission lock and a reducer.  A receipt passes the reducer in two     *)
(* steps: the worker asks the lease store whether it is still the owner, and *)
(* then a transaction looks only at the binding's fence.  Between the two    *)
(* another process may take the lease, and even attach.                     *)
(*                                                                         *)
(* The lease is abstracted to how much of it is left; OwnerLease shows why a *)
(* lease with mutation headroom cannot run out before the call it guards    *)
(* has been dispatched.                                                     *)
(***************************************************************************)
EXTENDS Naturals, Sequences, FiniteSets

CONSTANTS
    Owners,        \* processes
    NoOwner,
    Callers,       \* one-shot submit() calls
    NoCaller,
    Keys,          \* idempotency keys
    HostOf,        \* HostOf[c]: the process the call is made in
    Deferrable,    \* keys submitted with defer_on_fence_loss
    Scenes         \* who calls, with which key, and what may happen to the processes

ASSUME MailboxAssumption ==
    /\ NoOwner \notin Owners /\ NoCaller \notin Callers /\ Keys # {}
    /\ HostOf \in [Callers -> Owners]
    /\ Deferrable \subseteq Keys
    /\ Scenes \subseteq [calls : SUBSET Callers, keyOf : [Callers -> Keys],
                         exempt : SUBSET Keys, zombies : BOOLEAN, deaths : BOOLEAN,
                         fences : Nat]

VARIABLES
    scene,     \* the scene of this behaviour
    op,        \* op[k]: the session_operations row
    journal,   \* internal event ids in event_journal: <<key, state>>
    lease,     \* the owner lease row, with the time it has left
    bind,      \* owner_fence_token of the session binding
    phase,     \* phase[p]: the runtime's lifecycle
    tok,       \* tok[p]: the token the mailbox and the inbox were built with
    accepting, \* accepting[p]: CommandMailbox._accepting
    reducer,   \* reducer[p]: whether the EventReducerWorker task runs
    lock,      \* lock[p]: the caller that holds _submission_lock
    queue,     \* queue[p]: CommandMailbox._queue
    futures,   \* futures[p]: keys with an unresolved future
    worker,    \* worker[p]: where CommandMailbox._run is
    call,      \* call[c]: where a submit() call is, and what it was told
    lost,      \* the receipts that nobody will ever acknowledge
    sent,      \* sent[k]: how often the RPC of k left a process
    ran        \* ran[k]: whether the runtime carried out k

durable == <<op, journal, lease, bind>>
memory == <<phase, tok, accepting, reducer, lock, queue, futures, worker, call,
            lost>>
world == <<sent, ran>>
vars == <<scene, durable, memory, world>>

KeyOf == scene.keyOf       \* KeyOf[c]: the idempotency key of the call
Exempt == scene.exempt     \* keys submitted with allow_when_frozen: close()'s disconnect
Zombies == scene.zombies   \* whether a process may outlive its lease
Deaths == scene.deaths     \* whether a reducer may fail on other events than receipts
MaxFence == scene.fences   \* bound: no token above this one is granted

OpStates == {"none", "pending", "started", "confirmed", "rejected", "unknown"}
Settled == {"confirmed", "rejected", "unknown"}
Codes == {"none", "takeover", "other"}
Phases == {"detached", "attaching", "running", "stopping", "emergency", "settling", "crashed"}
WorkerPcs == {"idle", "check1", "start", "check2", "call", "inflight", "check3",
              "confirm", "reject", "defer", "ambig", "exited"}
Outcomes == {"none", "ok", "rejected", "deferred", "ambiguous", "refused", "gone"}

NoRow == [state |-> "none", fence |-> 0, code |-> "none"]
AnyKey == CHOOSE k \in Keys : TRUE
IdleWorker == [pc |-> "idle", key |-> AnyKey, rec |-> "none", valid |-> FALSE]
ExitedWorker == [pc |-> "exited", key |-> AnyKey, rec |-> "none", valid |-> FALSE]

Init ==
    /\ scene \in Scenes
    /\ op = [k \in Keys |-> NoRow]
    /\ journal = {}
    /\ lease = [owner |-> NoOwner, fence |-> 0, left |-> "expired"]
    /\ bind = 0
    /\ phase = [p \in Owners |-> "detached"]
    /\ tok = [p \in Owners |-> 0]
    /\ accepting = [p \in Owners |-> FALSE]
    /\ reducer = [p \in Owners |-> FALSE]
    /\ lock = [p \in Owners |-> NoCaller]
    /\ queue = [p \in Owners |-> <<>>]
    /\ futures = [p \in Owners |-> {}]
    /\ worker = [p \in Owners |-> ExitedWorker]
    /\ call = [c \in Callers |-> [pc |-> IF c \in scene.calls THEN "idle" ELSE "done",
                                  valid |-> FALSE, out |-> "none"]]
    /\ lost = {}
    /\ sent = [k \in Keys |-> 0]
    /\ ran = [k \in Keys |-> FALSE]

(* is_current and has_mutation_headroom of the lease that p holds *)
IsCurrent(p) == lease.owner = p /\ lease.fence = tok[p] /\ lease.left # "expired"
MutationSafe(p) == IsCurrent(p) /\ lease.left = "headroom"
LeaseLeft(left) == [owner |-> lease.owner, fence |-> lease.fence, left |-> left]

-----------------------------------------------------------------------------
(* Receipts in the reducer's transaction.  A receipt of a process whose token
   is not the binding's is skipped, and acknowledged all the same.          *)

Passes(p, id) == bind = tok[p] /\ id \notin journal

(* The row of k in another state; it keeps the token it was begun with. *)
Becomes(k, state, code) == [state |-> state, fence |-> op[k].fence, code |-> code]

(* copilotd.operation.transition: compare-and-set on the row's state.  The
   event id names the target state only. *)
TransitionFails(p, k, from, to) == Passes(p, <<k, to>>) /\ op[k].state # from

AfterTransition(p, k, from, to) ==
    IF Passes(p, <<k, to>>) /\ op[k].state = from
    THEN [op EXCEPT ![k] = Becomes(k, to, "other")]
    ELSE op

(* settle_deferred: an UPDATE outside the reducer, whatever the fence is. *)
CanSettleDeferred(k) ==
    \/ op[k].state \in {"pending", "started"}
    \/ op[k].state = "unknown" /\ op[k].code = "takeover"

AfterSettleDeferred(k) ==
    IF CanSettleDeferred(k)
    THEN [op EXCEPT ![k] = Becomes(k, "rejected", "other")]
    ELSE op

(* The outcome that resolves the future of k in p reaches every caller that
   awaits it. *)
Resolve(p, ks, out) ==
    /\ futures' = [futures EXCEPT ![p] = @ \ ks]
    /\ call' = [c \in Callers |->
                  IF HostOf[c] = p /\ KeyOf[c] \in ks /\ call[c].pc = "await"
                  THEN [pc |-> "done", valid |-> call[c].valid, out |-> out]
                  ELSE call[c]]

-----------------------------------------------------------------------------
(* submit()                                                                *)

Answer(c, out) ==
    call' = [call EXCEPT ![c] = [pc |-> "done", valid |-> FALSE, out |-> out]]

(* The call goes on. *)
CallAt(c, pc, valid) == [pc |-> pc, valid |-> valid, out |-> call[c].out]

(* A frozen mailbox still admits what is submitted with allow_when_frozen;
   close() does so before it stops the components. *)
Admits(c) ==
    \/ accepting[HostOf[c]]
    \/ KeyOf[c] \in Exempt /\ phase[HostOf[c]] = "running"

(* Not accepting: MailboxNotAccepting. *)
SubmitRefused(c) ==
    /\ call[c].pc = "idle"
    /\ phase[HostOf[c]] \in {"running", "stopping", "emergency"}
    /\ ~Admits(c)
    /\ Answer(c, "refused")
    /\ UNCHANGED <<durable, phase, tok, accepting, reducer, lock, queue, futures, worker, world, lost, scene>>

(* An unresolved future of the same key is joined. *)
SubmitJoins(c) ==
    LET p == HostOf[c] IN
    /\ call[c].pc = "idle" /\ Admits(c) /\ lock[p] = NoCaller
    /\ KeyOf[c] \in futures[p]
    /\ call' = [call EXCEPT ![c] = CallAt(c, "await", FALSE)]
    /\ UNCHANGED <<durable, phase, tok, accepting, reducer, lock, queue, futures, worker, world, lost, scene>>

(* Deviation: an uncertain operation is reported as refused. *)
SettledResultOptimistic(state) == IF state = "confirmed" THEN "ok" ELSE "rejected"

(* settled_result: a row that exists is never executed again. *)
SettledResult(state) ==
    CASE state = "confirmed" -> "ok"
      [] state = "rejected" -> "rejected"
      [] OTHER -> "ambiguous"

SubmitReplays(c) ==
    LET p == HostOf[c] k == KeyOf[c] IN
    /\ call[c].pc = "idle" /\ Admits(c) /\ lock[p] = NoCaller
    /\ k \notin futures[p]
    /\ op[k].state # "none"
    /\ Answer(c, SettledResult(op[k].state))
    /\ UNCHANGED <<durable, phase, tok, accepting, reducer, lock, queue, futures, worker, world, lost, scene>>

(* begin() finds no row and commits the pending receipt, holding the lock. *)
SubmitBegins(c) ==
    LET p == HostOf[c] k == KeyOf[c] IN
    /\ call[c].pc = "idle" /\ Admits(c) /\ lock[p] = NoCaller
    /\ k \notin futures[p]
    /\ op[k].state = "none"
    /\ lock' = [lock EXCEPT ![p] = c]
    /\ call' = [call EXCEPT ![c] = CallAt(c, "begin", FALSE)]
    /\ UNCHANGED <<durable, phase, tok, accepting, reducer, queue, futures, worker, world, lost, scene>>

BeginValidate(c) ==
    LET p == HostOf[c] IN
    /\ call[c].pc = "begin" /\ ~call[c].valid /\ <<p, "begin">> \notin lost
    /\ IF reducer[p] /\ IsCurrent(p)
       THEN /\ call' = [call EXCEPT ![c] = CallAt(c, "begin", TRUE)]
            /\ UNCHANGED <<reducer, lock>>
       ELSE /\ reducer' = [reducer EXCEPT ![p] = FALSE]
            /\ lock' = [lock EXCEPT ![p] = NoCaller]
            /\ Answer(c, "ambiguous")
    /\ UNCHANGED <<durable, phase, tok, accepting, queue, futures, worker, world, lost, scene>>

(* copilotd.operation.pending, then the row is read back: whatever row is
   there now is taken for the one just created, and is queued. *)
AfterPending(p, k) ==
    IF Passes(p, <<k, "pending">>) /\ op[k].state = "none"
    THEN [op EXCEPT ![k] = [state |-> "pending", fence |-> tok[p], code |-> "none"]]
    ELSE op

BeginCommit(c) ==
    LET p == HostOf[c] k == KeyOf[c] IN
    /\ call[c].pc = "begin" /\ call[c].valid
    /\ lock' = [lock EXCEPT ![p] = NoCaller]
    /\ IF ~reducer[p]
       THEN Answer(c, "ambiguous") /\ UNCHANGED <<op, journal, queue, futures>>
       ELSE /\ op' = AfterPending(p, k)
            /\ journal' = IF bind = tok[p] THEN journal \cup {<<k, "pending">>} ELSE journal
            /\ IF op'[k].state = "none"
               THEN Answer(c, "ambiguous") /\ UNCHANGED <<queue, futures>>
               ELSE /\ queue' = [queue EXCEPT ![p] = Append(@, [key |-> k, rec |-> op'[k].state])]
                    /\ futures' = [futures EXCEPT ![p] = @ \cup {k}]
                    /\ call' = [call EXCEPT ![c] = CallAt(c, "await", FALSE)]
    /\ UNCHANGED <<lease, bind, phase, tok, accepting, reducer, worker, world, lost, scene>>

CallerStep(c) ==
    \/ SubmitRefused(c) \/ SubmitJoins(c) \/ SubmitReplays(c) \/ SubmitBegins(c)
    \/ BeginValidate(c) \/ BeginCommit(c)

-----------------------------------------------------------------------------
(* The worker task: _run and _execute                                      *)

Working(p) == phase[p] \in {"running", "stopping"}

Goto(p, pc, rec) ==
    worker' = [worker EXCEPT ![p] = [pc |-> pc, key |-> worker[p].key, rec |-> rec,
                                     valid |-> FALSE]]

Take(p) ==
    /\ Working(p) /\ worker[p].pc = "idle" /\ queue[p] # <<>>
    /\ worker' = [worker EXCEPT ![p] = [pc |-> "check1", key |-> Head(queue[p]).key,
                                        rec |-> Head(queue[p]).rec, valid |-> FALSE]]
    /\ queue' = [queue EXCEPT ![p] = Tail(@)]
    /\ UNCHANGED <<durable, phase, tok, accepting, reducer, lock, futures, call, world, lost, scene>>

(* The three fence checks; a lost fence defers only before the dispatch. *)
NextOf(pc) == CASE pc = "check1" -> "start" [] pc = "check2" -> "call" [] OTHER -> "confirm"

CheckFence(p) ==
    LET w == worker[p] IN
    /\ w.pc \in {"check1", "check2", "check3"}
    /\ Goto(p, IF MutationSafe(p) THEN NextOf(w.pc)
               ELSE IF w.pc # "check3" /\ w.key \in Deferrable THEN "defer"
               ELSE "ambig", w.rec)
    /\ UNCHANGED <<durable, phase, tok, accepting, reducer, lock, queue, futures, call, world, lost, scene>>

(* transition(): the states it is called with, per step of the worker. *)
Target(pc) == CASE pc = "start" -> "started" [] pc = "confirm" -> "confirmed"
                [] pc = "reject" -> "rejected" [] OTHER -> "unknown"
From(w) == IF w.pc = "ambig" THEN w.rec ELSE IF w.pc = "start" THEN "pending" ELSE "started"
Allowed(w) ==
    CASE w.pc = "start" -> w.rec = "pending"
      [] w.pc = "ambig" -> w.rec \in {"pending", "started"}
      [] OTHER -> TRUE

(* A transition that could not be committed: errors before the call and in
   the REJECTED receipt end in _run's handler, which still holds the record
   begin() returned; _finish_ambiguous swallows its own. *)
ReceiptFails(p) ==
    LET w == worker[p] IN
    IF w.pc = "ambig"
    THEN /\ worker' = [worker EXCEPT ![p] = IdleWorker]
         /\ Resolve(p, {w.key}, "ambiguous")
    ELSE /\ Goto(p, "ambig", IF w.pc = "reject" THEN "pending" ELSE w.rec)
         /\ UNCHANGED <<futures, call>>

Receipts == {"start", "confirm", "reject", "ambig"}

ReceiptValidate(p) ==
    LET w == worker[p] IN
    /\ w.pc \in Receipts /\ ~w.valid /\ <<p, "worker">> \notin lost
    /\ IF Allowed(w) /\ reducer[p] /\ IsCurrent(p)
       THEN /\ worker' = [worker EXCEPT ![p] = [pc |-> w.pc, key |-> w.key, rec |-> w.rec,
                                                valid |-> TRUE]]
            /\ UNCHANGED <<reducer, futures, call>>
       ELSE /\ reducer' = [reducer EXCEPT ![p] = @ /\ ~Allowed(w)]
            /\ ReceiptFails(p)
    /\ UNCHANGED <<durable, phase, tok, accepting, lock, queue, world, lost, scene>>

ReceiptSucceeds(p) ==
    LET w == worker[p] IN
    IF w.pc = "start"
    THEN Goto(p, "check2", "started") /\ UNCHANGED <<futures, call>>
    ELSE /\ worker' = [worker EXCEPT ![p] = IdleWorker]
         /\ Resolve(p, {w.key}, CASE w.pc = "confirm" -> "ok" [] w.pc = "reject" -> "rejected"
                                  [] OTHER -> "ambiguous")

(* The worker was cancelled while it awaited the receipt: once that is
   committed, CommittedCancellation ends the task; the future stays open. *)
ReceiptInterrupted(p) ==
    /\ phase[p] \in {"stopping", "emergency"}
    /\ worker' = [worker EXCEPT ![p] = ExitedWorker]
    /\ UNCHANGED <<futures, call>>

ReceiptCommit(p) ==
    LET w == worker[p] k == w.key to == Target(w.pc) IN
    /\ w.pc \in Receipts /\ w.valid
    /\ IF ~reducer[p] \/ TransitionFails(p, k, From(w), to)
       THEN /\ reducer' = [reducer EXCEPT ![p] = FALSE]
            /\ ReceiptFails(p)
            /\ UNCHANGED <<op, journal>>
       ELSE /\ op' = AfterTransition(p, k, From(w), to)
            /\ journal' = IF bind = tok[p] THEN journal \cup {<<k, to>>} ELSE journal
            /\ \/ op'[k].state = to /\ ReceiptSucceeds(p)
               \/ op'[k].state # to /\ ReceiptFails(p)
               \/ ReceiptInterrupted(p)
            /\ UNCHANGED reducer
    /\ UNCHANGED <<lease, bind, phase, tok, accepting, lock, queue, world, lost, scene>>

(* operation(): it may defer, refuse or fail before it reaches the SDK. *)
BeforeSend(p) ==
    LET w == worker[p] IN
    /\ w.pc = "call"
    /\ \/ w.key \in Deferrable /\ Goto(p, "defer", w.rec)
       \/ Goto(p, "reject", w.rec)
       \/ Goto(p, "ambig", w.rec)
    /\ UNCHANGED <<durable, phase, tok, accepting, reducer, lock, queue, futures, call, world, lost, scene>>

Dispatch(p) ==
    /\ worker[p].pc = "call"
    /\ sent' = [sent EXCEPT ![worker[p].key] = @ + 1]
    /\ Goto(p, "inflight", worker[p].rec)
    /\ UNCHANGED <<durable, phase, tok, accepting, reducer, lock, queue, futures, call, ran, lost, scene>>

(* Deviation: a timeout is taken for a refusal. *)
RpcReturnsTimeoutRejects(p) ==
    LET w == worker[p] IN
    /\ w.pc = "inflight"
    /\ \/ Goto(p, "check3", w.rec) /\ ran' = [ran EXCEPT ![w.key] = TRUE]
       \/ Goto(p, "reject", w.rec) /\ \E b \in BOOLEAN : ran' = [ran EXCEPT ![w.key] = @ \/ b]
    /\ UNCHANGED <<durable, phase, tok, accepting, reducer, lock, queue, futures, call, sent, lost, scene>>

(* Deviation: a call that timed out is sent again. *)
RpcReturnsResends(p) ==
    LET w == worker[p] IN
    /\ w.pc = "inflight"
    /\ Goto(p, "call", w.rec)
    /\ \E b \in BOOLEAN : ran' = [ran EXCEPT ![w.key] = @ \/ b]
    /\ UNCHANGED <<durable, phase, tok, accepting, reducer, lock, queue, futures, call, sent, lost, scene>>

(* The SDK answers, refuses, or leaves the outcome open (timeout, transport). *)
RpcReturns(p) ==
    LET w == worker[p] IN
    /\ w.pc = "inflight"
    /\ \/ Goto(p, "check3", w.rec) /\ ran' = [ran EXCEPT ![w.key] = TRUE]
       \/ Goto(p, "reject", w.rec) /\ UNCHANGED ran
       \/ Goto(p, "ambig", w.rec) /\ \E b \in BOOLEAN : ran' = [ran EXCEPT ![w.key] = @ \/ b]
    /\ UNCHANGED <<durable, phase, tok, accepting, reducer, lock, queue, futures, call, sent, lost, scene>>

(* _defer_for_fence_loss, and OperationDeferred out of operation(). *)
Defer(p) ==
    LET k == worker[p].key IN
    /\ worker[p].pc = "defer"
    /\ op' = AfterSettleDeferred(k)
    /\ Resolve(p, {k}, IF CanSettleDeferred(k) THEN "deferred" ELSE "ambiguous")
    /\ worker' = [worker EXCEPT ![p] = IdleWorker]
    /\ UNCHANGED <<journal, lease, bind, phase, tok, accepting, reducer, lock, queue, world, lost, scene>>

WorkerStep(p) ==
    \/ Take(p) \/ CheckFence(p) \/ ReceiptValidate(p) \/ ReceiptCommit(p)
    \/ BeforeSend(p) \/ Dispatch(p) \/ RpcReturns(p) \/ Defer(p)

-----------------------------------------------------------------------------
(* Stopping.  Both ways first take the submission lock.                    *)

(* freeze(): the runtime found its lease gone, or close() drains the mailbox. *)
Freeze(p) ==
    /\ phase[p] = "running" /\ accepting[p]
    /\ accepting' = [accepting EXCEPT ![p] = FALSE]
    /\ UNCHANGED <<durable, phase, tok, reducer, lock, queue, futures, worker, call, world, lost, scene>>

(* thaw(): close() was blocked.  It also undoes the freeze of a lost fence. *)
Thaw(p) ==
    /\ phase[p] = "running" /\ ~accepting[p]
    /\ accepting' = [accepting EXCEPT ![p] = TRUE]
    /\ UNCHANGED <<durable, phase, tok, reducer, lock, queue, futures, worker, call, world, lost, scene>>

Stop(p) ==
    /\ phase[p] = "running" /\ lock[p] = NoCaller
    /\ \E way \in {"stopping", "emergency"} : phase' = [phase EXCEPT ![p] = way]
    /\ accepting' = [accepting EXCEPT ![p] = FALSE]
    /\ UNCHANGED <<durable, tok, reducer, lock, queue, futures, worker, call, world, lost, scene>>

(* Deviation: a call cancelled in flight is settled as deferred. *)
CancelWorkerDefers(p) ==
    LET w == worker[p] IN
    /\ phase[p] \in {"stopping", "emergency"}
    /\ \/ /\ w.pc \in {"idle", "check1", "check2", "check3", "call"}
          /\ worker' = [worker EXCEPT ![p] = ExitedWorker]
          /\ UNCHANGED ran
       \/ /\ w.pc = "inflight"
          /\ Goto(p, "defer", w.rec)
          /\ \E b \in BOOLEAN : ran' = [ran EXCEPT ![w.key] = @ \/ b]
    /\ UNCHANGED <<durable, phase, tok, accepting, reducer, lock, queue, futures, call, sent, lost, scene>>

(* worker.cancel(), after the drain timed out or at once in an emergency.  A
   receipt under way is awaited; a call under way is first recorded as
   unknown ("mailbox_cancelled"). *)
CancelWorker(p) ==
    LET w == worker[p] IN
    /\ phase[p] \in {"stopping", "emergency"}
    /\ \/ /\ w.pc \in {"idle", "check1", "check2", "check3", "call"}
          /\ worker' = [worker EXCEPT ![p] = ExitedWorker]
          /\ UNCHANGED ran
       \/ /\ w.pc = "inflight"
          /\ Goto(p, "ambig", w.rec)
          /\ \E b \in BOOLEAN : ran' = [ran EXCEPT ![w.key] = @ \/ b]
    /\ UNCHANGED <<durable, phase, tok, accepting, reducer, lock, queue, futures, call, sent, lost, scene>>

(* stop(): queued items fail with OperationAmbiguous; emergency_stop(): they
   are settled as deferred, one by one. *)
StopItem(p) ==
    LET k == Head(queue[p]).key IN
    /\ phase[p] \in {"stopping", "emergency"} /\ worker[p].pc = "exited" /\ queue[p] # <<>>
    /\ queue' = [queue EXCEPT ![p] = Tail(@)]
    /\ IF phase[p] = "emergency"
       THEN /\ op' = AfterSettleDeferred(k)
            /\ Resolve(p, {k}, IF CanSettleDeferred(k) THEN "deferred" ELSE "ambiguous")
       ELSE /\ Resolve(p, {k}, "ambiguous")
            /\ UNCHANGED op
    /\ UNCHANGED <<journal, lease, bind, phase, tok, accepting, reducer, lock, worker, world, lost, scene>>

(* Deviation: the futures of interrupted operations are left unresolved. *)
StopSettlesSilently(p) ==
    /\ phase[p] \in {"stopping", "emergency"} /\ queue[p] = <<>> /\ worker[p].pc \in {"idle", "exited"}
    /\ worker' = [worker EXCEPT ![p] = ExitedWorker]
    /\ reducer' = [reducer EXCEPT ![p] = FALSE]
    /\ phase' = [phase EXCEPT ![p] = "settling"]
    /\ UNCHANGED <<durable, tok, accepting, lock, queue, futures, call, world, lost, scene>>

(* stop() drains a mailbox that empties itself, then marks every unsettled
   operation of its token unknown (the receipt may fail, which is swallowed),
   then fails what futures are left. *)
StopSettles(p) ==
    /\ phase[p] \in {"stopping", "emergency"} /\ queue[p] = <<>> /\ worker[p].pc \in {"idle", "exited"}
    /\ phase[p] = "emergency" => worker[p].pc = "exited"
    /\ <<p, "stop">> \notin lost
    /\ \/ /\ phase[p] = "stopping" /\ reducer[p] /\ bind = tok[p]
          /\ op' = [k \in Keys |->
                      IF op[k].state \in {"pending", "started"} /\ op[k].fence = tok[p]
                      THEN Becomes(k, "unknown", "other") ELSE op[k]]
       \/ UNCHANGED op
    /\ Resolve(p, futures[p], "ambiguous")
    /\ worker' = [worker EXCEPT ![p] = ExitedWorker]
    /\ reducer' = [reducer EXCEPT ![p] = FALSE]
    /\ phase' = [phase EXCEPT ![p] = "settling"]
    /\ UNCHANGED <<journal, lease, bind, tok, accepting, lock, queue, world, lost, scene>>

(* The owner lease is given back last, if it still is this tenure. *)
Release(p) ==
    /\ phase[p] = "settling"
    /\ phase' = [phase EXCEPT ![p] = "detached"]
    /\ lease' = IF IsCurrent(p) THEN LeaseLeft("expired") ELSE lease
    /\ UNCHANGED <<op, journal, bind, tok, accepting, reducer, lock, queue, futures, worker, call, world, lost, scene>>

StopStep(p) ==
    \/ Freeze(p) \/ Thaw(p) \/ Stop(p) \/ CancelWorker(p) \/ StopItem(p) \/ StopSettles(p) \/ Release(p)

-----------------------------------------------------------------------------
(* Lease, attachment, crash and restart                                    *)

(* The lease runs down and is renewed.  It does not run out between a fence
   check and the dispatch that follows it. *)
LeaseWears ==
    /\ \/ lease.left = "headroom" /\ lease' = LeaseLeft("current")
       \/ /\ lease.left = "current"
          /\ \A p \in Owners : worker[p].pc # "call"
          /\ lease' = LeaseLeft("expired")
    /\ UNCHANGED <<op, journal, bind, memory, world, scene>>

Renew(p) ==
    /\ Working(p) /\ IsCurrent(p) /\ lease.left = "current"
    /\ lease' = LeaseLeft("headroom")
    /\ UNCHANGED <<op, journal, bind, memory, world, scene>>

(* acquire() with a new token, and _orphan_previous_owners. *)
Acquire(p) ==
    /\ phase[p] = "detached"
    /\ lease.left = "expired" /\ lease.fence < MaxFence
    /\ Zombies \/ \A q \in Owners : phase[q] \in {"detached", "crashed"}
    /\ lease' = [owner |-> p, fence |-> lease.fence + 1, left |-> "headroom"]
    /\ op' = [k \in Keys |->
                IF op[k].state \in {"pending", "started"} /\ op[k].fence # lease'.fence
                THEN Becomes(k, "unknown", "takeover") ELSE op[k]]
    /\ phase' = [phase EXCEPT ![p] = "attaching"]
    /\ tok' = [tok EXCEPT ![p] = lease'.fence]
    /\ UNCHANGED <<journal, bind, accepting, reducer, lock, queue, futures, worker, call, world, lost, scene>>

(* begin_attachment() and _start_components(); BindingConflict if the lease
   is no longer current. *)
Attach(p) ==
    /\ phase[p] = "attaching"
    /\ IF IsCurrent(p)
       THEN /\ bind' = tok[p]
            /\ phase' = [phase EXCEPT ![p] = "running"]
            /\ accepting' = [accepting EXCEPT ![p] = TRUE]
            /\ reducer' = [reducer EXCEPT ![p] = TRUE]
            /\ worker' = [worker EXCEPT ![p] = IdleWorker]
       ELSE /\ phase' = [phase EXCEPT ![p] = "detached"]
            /\ UNCHANGED <<bind, accepting, reducer, worker>>
    /\ UNCHANGED <<op, journal, lease, tok, lock, queue, futures, call, world, lost, scene>>

(* StartupRecoveryInventory.run: no current lease carries the row's token. *)
StartupRecovery(p) ==
    LET orphan(k) == /\ op[k].state \in {"pending", "started"}
                     /\ ~(lease.fence = op[k].fence /\ lease.left # "expired")
    IN
    /\ phase[p] = "detached"
    /\ \E k \in Keys : orphan(k)
    /\ op' = [k \in Keys |->
                IF orphan(k) THEN Becomes(k, "unknown", "other") ELSE op[k]]
    /\ UNCHANGED <<journal, lease, bind, memory, world, scene>>

(* The receipts of p that wait for the reducer: begin()'s, the worker's, and the
   one with which stop() marks what is unsettled. *)
Senders == {"begin", "worker", "stop"}

Waits(p, who) ==
    \/ who = "begin" /\ \E c \in Callers : HostOf[c] = p /\ call[c].pc = "begin" /\ ~call[c].valid
    \/ who = "worker" /\ worker[p].pc \in Receipts /\ ~worker[p].valid /\ Allowed(worker[p])
    \/ who = "stop" /\ phase[p] = "stopping" /\ queue[p] = <<>> /\ worker[p].pc = "exited"

(* EventReducerWorker._run fails on some batch, of whatever events.  It then
   drains the inbox once: what it finds there is answered with the error, and
   a receipt that is reserved but not yet put is lost.  A death that meets no
   receipt shows when the next one is refused, and is left until then. *)
ReducerDies(p) ==
    /\ Deaths /\ reducer[p] /\ \E who \in Senders : Waits(p, who)
    /\ reducer' = [reducer EXCEPT ![p] = FALSE]
    /\ \E late \in SUBSET {who \in Senders : Waits(p, who)} : lost' = lost \cup ({p} \X late)
    /\ UNCHANGED <<durable, phase, tok, accepting, lock, queue, futures, worker, call, world, scene>>

(* The process dies; a call in flight may or may not have been carried out. *)
Crash(p) ==
    /\ phase[p] # "crashed"
    /\ IF worker[p].pc = "inflight"
       THEN \E b \in BOOLEAN : ran' = [ran EXCEPT ![worker[p].key] = @ \/ b]
       ELSE UNCHANGED ran
    /\ phase' = [phase EXCEPT ![p] = "crashed"]
    /\ accepting' = [accepting EXCEPT ![p] = FALSE]
    /\ reducer' = [reducer EXCEPT ![p] = FALSE]
    /\ lock' = [lock EXCEPT ![p] = NoCaller]
    /\ queue' = [queue EXCEPT ![p] = <<>>]
    /\ futures' = [futures EXCEPT ![p] = {}]
    /\ worker' = [worker EXCEPT ![p] = ExitedWorker]
    /\ call' = [c \in Callers |->
                  IF HostOf[c] = p /\ call[c].pc # "done"
                  THEN [pc |-> "done", valid |-> FALSE, out |-> "gone"] ELSE call[c]]
    /\ lost' = {r \in lost : r[1] # p}
    /\ UNCHANGED <<durable, tok, sent, scene>>

LifecycleStep(p) ==
    Renew(p) \/ Acquire(p) \/ Attach(p) \/ StartupRecovery(p) \/ ReducerDies(p) \/ Crash(p)

Next ==
    \/ LeaseWears
    \/ \E c \in Callers : CallerStep(c)
    \/ \E p \in Owners : WorkerStep(p) \/ StopStep(p) \/ LifecycleStep(p)

(* The event loop runs every task that can run; an RPC ends at its timeout. *)
Fairness ==
    /\ \A c \in Callers : WF_vars(BeginValidate(c)) /\ WF_vars(BeginCommit(c))
    /\ \A p \in Owners :
          /\ WF_vars(WorkerStep(p))
          /\ WF_vars(CancelWorker(p)) /\ WF_vars(StopItem(p)) /\ WF_vars(StopSettles(p))

Spec == Init /\ [][Next]_vars
FairSpec == Spec /\ Fairness

-----------------------------------------------------------------------------
(* The rows, items and tasks that the variables hold. *)
Rows == [state : OpStates, fence : Nat, code : Codes]
Leases == [owner : Owners \cup {NoOwner}, fence : Nat, left : {"headroom", "current", "expired"}]
Items == [key : Keys, rec : OpStates]
Works == [pc : WorkerPcs, key : Keys, rec : OpStates, valid : BOOLEAN]
Calls == [pc : {"idle", "begin", "await", "done"}, valid : BOOLEAN, out : Outcomes]

(* The shape of every variable. *)
TypeOK ==
    /\ scene \in Scenes
    /\ op \in [Keys -> Rows] /\ journal \subseteq Keys \X OpStates
    /\ lease \in Leases /\ bind \in Nat
    /\ phase \in [Owners -> Phases] /\ tok \in [Owners -> Nat]
    /\ accepting \in [Owners -> BOOLEAN] /\ reducer \in [Owners -> BOOLEAN]
    /\ lock \in [Owners -> Callers \cup {NoCaller}]
    /\ queue \in [Owners -> Seq(Items)] /\ futures \in [Owners -> SUBSET Keys]
    /\ worker \in [Owners -> Works] /\ call \in [Callers -> Calls]
    /\ lost \subseteq Owners \X Senders
    /\ sent \in [Keys -> Nat] /\ ran \in [Keys -> BOOLEAN]

(* "automatic replay is forbidden": however often a key is submitted, by
   whichever process, before and after crashes and takeovers, its RPC leaves
   copilotD at most once. *)
AtMostOnceDispatch == \A k \in Keys : sent[k] <= 1

(* No two processes that live at the same time submit the same key. *)
Apart ==
    ~Zombies \/ \A c, d \in scene.calls : KeyOf[c] = KeyOf[d] => HostOf[c] = HostOf[d]

(* A durable 'rejected' means the runtime did not carry the operation out:
   a deferral may be retried under a new key only because of this. *)
RejectedNeverRan == Apart => \A k \in Keys : op[k].state = "rejected" => ~ran[k]

(* What a caller of submit() is told agrees with the world: success only for
   an operation that ran and is confirmed, and rejection or deferral only for
   one that did not run. *)
OutcomeHonest ==
    Apart => \A c \in Callers :
        /\ call[c].out = "ok" => ran[KeyOf[c]] /\ op[KeyOf[c]].state = "confirmed"
        /\ call[c].out \in {"rejected", "deferred"} => ~ran[KeyOf[c]]

(* A settled row stays as it is, except that the process that never
   dispatched an operation orphaned by a takeover may turn it to rejected. *)
SettledIsFinal ==
    [][ Apart => \A k \in Keys :
          op[k].state \in Settled /\ op'[k].state # op[k].state =>
             /\ op[k].state = "unknown" /\ op[k].code = "takeover"
             /\ op'[k].state = "rejected"
             /\ sent[k] = 0 ]_vars

(* The call waits for a receipt that was lost with the reducer: its own, or, of
   the worker or of stop(), the one its future depends on. *)
Stranded(c) ==
    \/ call[c].pc = "begin" /\ <<HostOf[c], "begin">> \in lost
    \/ call[c].pc = "await" /\ (<<HostOf[c], "worker">> \in lost \/ <<HostOf[c], "stop">> \in lost)

(* Every submit() call that got past admission is answered, or its process
   dies, whatever fence loss, dead reducer, stop or emergency stop meets it;
   the one thing that leaves a future unresolved is a receipt lost between its
   reservation and the inbox of a reducer that has died (EveryCommitAnswered of
   ReducerInbox fails for the same reason).  A receipt that begins after that is refused, and its call
   is answered. *)
EveryCallAnswered ==
    \A c \in Callers :
        ~Zombies /\ call[c].pc \in {"begin", "await"} ~> call[c].pc = "done" \/ Stranded(c)

(* Does not hold: a receipt reserved before the reducer died is not answered. *)
NobodyStranded == \A c \in Callers : ~Stranded(c)

(* The mailbox, the reducer's receipts, takeovers and recovery together keep
   the ledger's promise: written before sent, sent at most once, settled once,
   and truthful, as long as no two live processes submit the same key. *)
Ledger == INSTANCE OperationLedger WITH state <- [k \in Keys |-> op[k].state]
ImplementsLedger == Ledger!Init /\ [][Apart => Ledger!Next]_(Ledger!ledger)

(* What the durable record and the answers of submit() say of an operation
   is true. *)
OutcomesAreFacts == RejectedNeverRan /\ OutcomeHonest
=============================================================================
