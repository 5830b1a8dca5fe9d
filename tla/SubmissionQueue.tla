---------------------------- MODULE SubmissionQueue ----------------------------
(***************************************************************************)
(* How a user's message gets from the durable queue to the SDK: send(), the *)
(* queue pump and _dispatch_submission (copilotd/core/session_runtime.py),  *)
(* the reducer's submission receipts and its reading of user.message and    *)
(* session.idle (copilotd/core/reducer.py), and what a lease takeover and a *)
(* restart do to the rows.                                                  *)
(*                                                                         *)
(* Two tasks of a runtime may dispatch the same row: the pump, which holds  *)
(* _queue_dispatch_lock from the selection of the row to its receipt, and   *)
(* the send() of an immediate message (a steer), which takes the lock only  *)
(* to look at the row.  They use different operation keys, so the mailbox   *)
(* runs both; only the 'submitting' receipt decides between them.           *)
(*                                                                         *)
(* A runtime is named by its fence token; the one of the highest token owns *)
(* the session, older ones are zombies.  OperationMailbox models the window *)
(* between acquiring the lease and attaching, and what a receipt goes       *)
(* through; here a receipt is one step and a takeover is one step.          *)
(***************************************************************************)
EXTENDS Naturals, Sequences, FiniteSets

CONSTANTS
    Subs,          \* submission ids
    Pump,          \* the dispatcher that serves the queue
    NoOp,          \* source_operation_id IS NULL
    MaxFence,      \* bound: no token above this one is granted
    MaxAttempt,    \* bound on the attempts of a dispatch
    Hazards,       \* the troubles that may befall a run
    Scenes         \* who steers, whether a process may die, and the bounds of a behaviour

ASSUME QueueAssumption ==
    /\ Pump \notin Subs /\ NoOp \notin [sub : Subs, path : {"send", "queue"}, attempt : Nat]
    /\ MaxFence \in Nat \ {0} /\ MaxAttempt \in Nat \ {0}
    /\ Scenes \subseteq [steers : SUBSET Subs, crashes : BOOLEAN,
                         attempts : 1..MaxAttempt, troubles : Nat]
    /\ Hazards \subseteq {"drain", "transition", "timeout", "thin lease", "frame"}

VARIABLES
    scene,      \* the scene of this behaviour
    row,        \* row[s]: submissions joined with message_queue
    order,      \* message_queue.position
    ops,        \* ops[k]: state of the session_operations row of a dispatch
    journal,    \* internal event ids that can recur: <<submission, kind, attempt>>
    own,        \* the token of the session's owner
    draining,   \* global_config.restart_draining
    changing,   \* a mode, model, agent or remote transition is pending
    content,    \* prompts in the volatile content store
    broken,     \* broken[t]: the reducer of t died of a handler error
    dispatcher, \* dispatcher[<<t, d>>]: where the pump, or a steer's send(), is
    mailbox,    \* mailbox[t]: the operations queued in CommandMailbox
    worker,     \* worker[t]: where the mailbox worker is
    troubles,   \* how many troubles may still come
    frame,      \* frame[s]: what became of the session.send frame
    sent,       \* sent[s]: how often a frame of s left a process
    inbound,    \* submissions the runtime accepted and has not begun
    busy,       \* whether the runtime is processing
    events,     \* SDK events on their way: user messages and idles
    foreign     \* the newest row made for an uncorrelated user.message

durable == <<row, order, ops, journal, own, draining, changing, scene>>
memory == <<content, broken, dispatcher, mailbox, worker>>
runtime == <<frame, sent, inbound, busy, events>>
vars == <<durable, memory, troubles, runtime, foreign>>

steers == scene.steers   \* the submissions sent with mode = "immediate"
Fences == 1..MaxFence
Dispatchers == {Pump} \cup steers
Keys == [sub : Subs, path : {"send", "queue"}, attempt : 0..MaxAttempt - 1]
SubmissionStates == {"absent", "local_queued", "submitting", "submitted", "submitted_unknown",
                     "observed_active", "loop_idle", "outcome_unknown", "rejected", "cancelled"}
QueueStates == {"absent", "local_queued", "blocked", "submitting", "submitted",
                "submitted_unknown", "outcome_unknown", "rejected", "cancelled",
                "content_unavailable"}
Unsettled == {"submitting", "submitted", "submitted_unknown", "observed_active"}

NoRow == [state |-> "absent", queue |-> "absent", src |-> NoOp, accepted |-> FALSE,
          observed |-> FALSE, attempt |-> 0, immediate |-> FALSE]
AtRest == [pc |-> "idle", key |-> NoOp, out |-> "none"]
Resting == [pc |-> "idle", key |-> NoOp]

Init ==
    /\ scene \in Scenes
    /\ row = [s \in Subs |-> NoRow]
    /\ order = <<>>
    /\ ops = [k \in Keys |-> "none"]
    /\ journal = {}
    /\ own = 1
    /\ draining = FALSE /\ changing = FALSE
    /\ content = {}
    /\ broken = [t \in Fences |-> FALSE]
    /\ dispatcher = [x \in Fences \X Dispatchers |-> AtRest]
    /\ mailbox = [t \in Fences |-> <<>>]
    /\ worker = [t \in Fences |-> Resting]
    /\ troubles = scene.troubles
    /\ frame = [s \in Subs |-> "none"]
    /\ sent = [s \in Subs |-> 0]
    /\ inbound = {} /\ busy = FALSE /\ events = <<>>
    /\ foreign = "none"

(* A runtime whose receipts the reducer commits; those of others raise. *)
Live(t) == t = own /\ ~broken[t]
Quiet == ~busy /\ inbound = {}
LockFree == dispatcher[<<own, Pump>>].pc = "idle"
Trouble(kind) == kind \in Hazards /\ troubles > 0 /\ troubles' = troubles - 1

-----------------------------------------------------------------------------
(* Admission                                                               *)

(* steer() wants to see a turn in progress, and then calls send(). *)
SteerSeesTurn(s) ==
    /\ Live(own) /\ busy /\ row[s].state = "absent" /\ dispatcher[<<own, s>>].pc = "idle"
    /\ dispatcher' = [dispatcher EXCEPT ![<<own, s>>].pc = "steer"]
    /\ UNCHANGED <<durable, content, broken, mailbox, worker, troubles, runtime, foreign>>

(* copilotd.submission.queued, or nothing when the row is there already. *)
Admit(s) ==
    /\ Live(own) /\ row[s].state = "absent" /\ ~draining
    /\ IF s \in steers
       THEN /\ dispatcher[<<own, s>>].pc = "steer" /\ ~changing
            /\ dispatcher' = [dispatcher EXCEPT ![<<own, s>>].pc = "idle"]
       ELSE UNCHANGED dispatcher
    /\ row' = [row EXCEPT ![s] = [NoRow EXCEPT !.state = "local_queued",
                                  !.queue = "local_queued", !.immediate = s \in steers]]
    /\ order' = Append(order, s)
    /\ content' = content \cup {s}
    /\ UNCHANGED <<ops, journal, own, draining, scene, changing, broken, mailbox, worker,
                   troubles, runtime, foreign>>

(* The immediate branch of send(), at first and when the caller repeats it. *)
SteerLooks(s) ==
    LET x == <<own, s>> IN
    /\ Live(own) /\ LockFree /\ dispatcher[x].pc = "idle"
    /\ row[s].state = "local_queued" /\ row[s].attempt < scene.attempts
    /\ dispatcher' = [dispatcher EXCEPT ![x] =
           [pc |-> "submit", out |-> "none",
            key |-> [sub |-> s, path |-> "send", attempt |-> row[s].attempt]]]
    /\ content' = content \cup {s}
    /\ UNCHANGED <<durable, broken, mailbox, worker, troubles, runtime, foreign>>

-----------------------------------------------------------------------------
(* The pump: _dispatch_next_queued under _queue_dispatch_lock              *)

SetPc(x, at) == dispatcher' = [dispatcher EXCEPT ![x].pc = at]
Rest(x) == dispatcher' = [dispatcher EXCEPT ![x] = AtRest]

Waiting == {i \in DOMAIN order : row[order[i]].queue = "local_queued"}

\* Deviation: the newest message is served first.
Newest == order[CHOOSE i \in Waiting : \A j \in Waiting : j <= i]

(* ORDER BY position LIMIT 1 *)
First == order[CHOOSE i \in Waiting : \A j \in Waiting : i <= j]

\* Deviation: only what the runtime was seen to work on holds the queue up.
SomethingUnsettledSeen ==
    (\E s \in Subs : row[s].state = "observed_active") \/ foreign = "observed_active"

SomethingUnsettled ==
    (\E s \in Subs : row[s].state \in Unsettled) \/ foreign = "observed_active"

\* Deviation: the pump looks at the queue while a dispatch of its own is under way.
PumpFindsQuietUnlocked ==
    /\ Live(own) /\ Waiting # {} /\ Quiet
    /\ SetPc(<<own, Pump>>, "ready")
    /\ UNCHANGED <<durable, content, broken, mailbox, worker, troubles, runtime, foreign>>

PumpFindsQuiet ==
    /\ Live(own) /\ LockFree /\ Waiting # {} /\ Quiet
    /\ SetPc(<<own, Pump>>, "ready")
    /\ UNCHANGED <<durable, content, broken, mailbox, worker, troubles, runtime, foreign>>

PumpYields(t) ==
    /\ dispatcher[<<t, Pump>>].pc = "ready"
    /\ ~Live(t) \/ SomethingUnsettled \/ Waiting = {}
    /\ Rest(<<t, Pump>>)
    /\ UNCHANGED <<durable, content, broken, mailbox, worker, troubles, runtime, foreign>>

(* copilotd.queue.blocked; nothing but the user takes the row out again. *)
PumpBlocks(t) ==
    LET s == First IN
    /\ dispatcher[<<t, Pump>>].pc = "ready" /\ Live(t)
    /\ ~SomethingUnsettled /\ Waiting # {} /\ changing
    /\ row' = [row EXCEPT ![s].queue = "blocked"]
    /\ Rest(<<t, Pump>>)
    /\ UNCHANGED <<order, ops, journal, own, draining, scene, changing, content, broken, mailbox,
                   worker, troubles, runtime, foreign>>

\* Deviation: only one half of the row is given up.
UnavailableHalf(r) == [r EXCEPT !.state = IF @ = "local_queued" THEN "rejected" ELSE @]

(* _mark_queue_content_unavailable *)
Unavailable(r) ==
    [r EXCEPT !.queue = IF @ \in {"cancelled", "submitted"} THEN @ ELSE "content_unavailable",
              !.state = IF @ = "local_queued" THEN "rejected" ELSE @]

(* The row at the head is dispatched, or given up for want of its prompt. *)
PumpServes(t) ==
    LET s == First IN
    /\ dispatcher[<<t, Pump>>].pc = "ready" /\ Live(t)
    /\ ~SomethingUnsettled /\ Waiting # {} /\ ~changing
    /\ row[s].attempt < scene.attempts
    /\ IF s \in content
       THEN /\ dispatcher' = [dispatcher EXCEPT ![<<t, Pump>>] =
                 [pc |-> "submit", out |-> "none",
                  key |-> [sub |-> s, path |-> "queue", attempt |-> row[s].attempt]]]
            /\ UNCHANGED row
       ELSE row' = [row EXCEPT ![s] = Unavailable(@)] /\ Rest(<<t, Pump>>)
    /\ UNCHANGED <<order, ops, journal, own, draining, scene, changing, content, broken, mailbox,
                   worker, troubles, runtime, foreign>>

-----------------------------------------------------------------------------
(* _dispatch_submission hands the operation to the mailbox.                *)

SettledResult(state) ==
    CASE state = "confirmed" -> "ok" [] state = "rejected" -> "rejected" [] OTHER -> "ambiguous"

(* begin() commits the pending receipt; it raises in a runtime that lost. *)
Hand(t, d) ==
    LET x == <<t, d>> k == dispatcher[x].key IN
    /\ dispatcher[x].pc = "submit"
    /\ IF ~Live(t)
       THEN Rest(x) /\ UNCHANGED <<ops, mailbox>>
       ELSE IF ops[k] # "none"
       THEN /\ dispatcher' = [dispatcher EXCEPT ![x].pc = "finish", ![x].out = SettledResult(ops[k])]
            /\ UNCHANGED <<ops, mailbox>>
       ELSE /\ ops' = [ops EXCEPT ![k] = "pending"]
            /\ mailbox' = [mailbox EXCEPT ![t] = Append(@, k)]
            /\ SetPc(x, "await")
    /\ UNCHANGED <<row, order, journal, own, draining, scene, changing, content, broken, worker,
                   troubles, runtime, foreign>>

Take(t) ==
    /\ worker[t].pc = "idle" /\ mailbox[t] # <<>>
    /\ worker' = [worker EXCEPT ![t] = [pc |-> "check", key |-> Head(mailbox[t])]]
    /\ mailbox' = [mailbox EXCEPT ![t] = Tail(@)]
    /\ UNCHANGED <<durable, content, broken, dispatcher, troubles, runtime, foreign>>

(* The worker is done with k: the dispatcher that awaits it is told. *)
Deliver(t, out) ==
    /\ worker' = [worker EXCEPT ![t] = Resting]
    /\ dispatcher' = [x \in Fences \X Dispatchers |->
           IF x[1] = t /\ dispatcher[x].pc = "await" /\ dispatcher[x].key = worker[t].key
           THEN [dispatcher[x] EXCEPT !.pc = "finish", !.out = out]
           ELSE dispatcher[x]]

Goto(t, pc) == worker' = [worker EXCEPT ![t].pc = pc] /\ UNCHANGED dispatcher

(* What the mailbox writes to the operation's row: a receipt of a runtime
   that lost is not committed, settle_deferred is a plain UPDATE. *)
Settled(t, k, state) == IF Live(t) THEN [ops EXCEPT ![k] = state] ELSE ops
DeferSettled(k) == [ops EXCEPT ![k] = IF @ \in {"pending", "started", "unknown"} THEN "rejected" ELSE @]

Fails(t) == ops' = Settled(t, worker[t].key, "unknown") /\ Deliver(t, "ambiguous")

-----------------------------------------------------------------------------
(* _requeue_pre_send_without_reducer: a transaction of its own, that asks
   neither the lease nor the binding's fence. *)

SourceMatches(k) ==
    LET r == row[k.sub] IN
    \/ r.state = "local_queued" /\ r.queue = "local_queued" /\ r.src = NoOp
    \/ r.state \in {"submitting", "submitted_unknown"} /\ r.queue = r.state /\ r.src = k

CanRequeue(k) ==
    LET r == row[k.sub] IN
    r.attempt = k.attempt /\ ~r.accepted /\ ~r.observed /\ SourceMatches(k)

Backlog(r) ==
    [r EXCEPT !.state = "local_queued", !.queue = "local_queued", !.src = NoOp, !.attempt = @ + 1]

Requeue(k) == row' = IF CanRequeue(k) THEN [row EXCEPT ![k.sub] = Backlog(@)] ELSE row

WaitsAgain(k) ==
    LET r == row[k.sub] IN
    r.attempt > k.attempt /\ r.state = "local_queued" /\ r.queue = "local_queued"

-----------------------------------------------------------------------------
(* The mailbox worker and the operation dispatch()                         *)

(* The fence checks around the STARTED receipt. *)
WorkerStarts(t) ==
    /\ worker[t].pc = "check" /\ Live(t)
    /\ ops' = [ops EXCEPT ![worker[t].key] = "started"]
    /\ Goto(t, "claim")
    /\ UNCHANGED <<row, order, journal, own, draining, scene, changing, content, broken, mailbox,
                   troubles, runtime, foreign>>

(* _defer_for_fence_loss: requeue, then settle the operation. *)
WorkerDefers(t) ==
    LET k == worker[t].key IN
    /\ worker[t].pc = "check"
    /\ IF t = own THEN Trouble("thin lease") ELSE UNCHANGED troubles
    /\ Requeue(k)
    /\ ops' = DeferSettled(k)
    /\ Deliver(t, "fence")
    /\ UNCHANGED <<order, journal, own, draining, scene, changing, content, broken, mailbox,
                   runtime, foreign>>

(* A receipt the worker needs cannot be committed. *)
WorkerCannotCommit(t) ==
    /\ \/ worker[t].pc = "check" /\ t = own /\ broken[t]
       \/ worker[t].pc \in {"claim", "accept"} /\ ~Live(t)
       \/ worker[t].pc = "assert" /\ t = own /\ broken[t]
    /\ Fails(t)
    /\ UNCHANGED <<row, order, journal, own, draining, scene, changing, content, broken, mailbox,
                   troubles, runtime, foreign>>

(* copilotd.submission.submitting: while the service drains, the claim only
   counts as an attempt; otherwise the row's state decides who wins. *)
Claimed(k) ==
    IF draining
    THEN IF row[k.sub].queue = "local_queued" /\ row[k.sub].attempt = k.attempt
         THEN [row EXCEPT ![k.sub].attempt = @ + 1] ELSE row
    ELSE IF row[k.sub].state = "local_queued"
         THEN [row EXCEPT ![k.sub].state = "submitting", ![k.sub].queue = "submitting",
                          ![k.sub].src = k]
         ELSE row

(* "submission queue state diverged while claiming" *)
ClaimDiverges(k) ==
    ~draining /\ row[k.sub].state = "local_queued" /\ row[k.sub].queue # "local_queued"

WorkerClaims(t) ==
    LET k == worker[t].key IN
    /\ worker[t].pc = "claim" /\ Live(t)
    /\ IF ClaimDiverges(k)
       THEN /\ broken' = [broken EXCEPT ![t] = TRUE]
            /\ Deliver(t, "ambiguous")
            /\ UNCHANGED row
       ELSE row' = Claimed(k) /\ Goto(t, "read") /\ UNCHANGED broken
    /\ UNCHANGED <<order, ops, journal, own, draining, scene, changing, content, mailbox,
                   troubles, runtime, foreign>>

\* Deviation: a row that nobody else claimed is taken for claimed.
OwnsClaimUnlessTaken(k) == row[k.sub].src \in {k, NoOp}

(* The claim is read back: claimed, deferred or cancelled. *)
OwnsClaim(k) ==
    row[k.sub].state = "submitting" /\ row[k.sub].queue = "submitting" /\ row[k.sub].src = k

WorkerReadsClaim(t) ==
    LET k == worker[t].key IN
    /\ worker[t].pc = "read"
    /\ IF OwnsClaim(k) THEN Goto(t, "assert") /\ UNCHANGED ops
       ELSE IF WaitsAgain(k) THEN ops' = DeferSettled(k) /\ Deliver(t, "deferred")
       ELSE ops' = Settled(t, k, "rejected") /\ Deliver(t, IF Live(t) THEN "rejected" ELSE "ambiguous")
    /\ UNCHANGED <<row, order, journal, own, draining, scene, changing, content, broken, mailbox,
                   troubles, runtime, foreign>>

(* _assert_claimed_dispatchable *)
Dispatchable(k) == ~draining /\ ~changing /\ (row[k.sub].immediate \/ Quiet)

WorkerAsserts(t) ==
    /\ worker[t].pc = "assert" /\ Live(t) /\ Dispatchable(worker[t].key)
    /\ Goto(t, "send")
    /\ UNCHANGED <<durable, content, broken, mailbox, troubles, runtime, foreign>>

(* copilotd.submission.pre_send_deferred, journalled once per attempt *)
PreSendDeferred(k) ==
    LET s == k.sub IN
    IF /\ <<s, "deferred", k.attempt>> \notin journal
       /\ row[s].state = "submitting" /\ ~row[s].accepted /\ ~row[s].observed
    THEN [row EXCEPT ![s] = [row[s] EXCEPT !.state = "local_queued", !.src = NoOp,
              !.queue = IF @ = "submitting" THEN "local_queued" ELSE @,
              !.attempt = IF row[s].queue = "submitting" THEN @ + 1 ELSE @]]
    ELSE row

WorkerLosesReadiness(t) ==
    LET k == worker[t].key IN
    /\ worker[t].pc = "assert" /\ Live(t)
    /\ IF Dispatchable(k) THEN Trouble("thin lease") ELSE UNCHANGED troubles
    /\ row' = PreSendDeferred(k)
    /\ journal' = journal \cup {<<k.sub, "deferred", k.attempt>>}
    /\ ops' = DeferSettled(k)
    /\ Deliver(t, "deferred")
    /\ UNCHANGED <<order, own, draining, scene, changing, content, broken, mailbox,
                   runtime, foreign>>

(* A runtime that finds itself fenced requeues past the reducer. *)
WorkerFenced(t) ==
    LET k == worker[t].key IN
    /\ worker[t].pc = "assert" /\ t # own
    /\ Requeue(k)
    /\ IF CanRequeue(k) \/ WaitsAgain(k)
       THEN ops' = DeferSettled(k) /\ Deliver(t, "deferred")
       ELSE Fails(t)
    /\ UNCHANGED <<order, journal, own, draining, scene, changing, content, broken, mailbox,
                   troubles, runtime, foreign>>

(* The frame exceeds the runtime's limit: refused before it is sent. *)
WorkerRefusesFrame(t) ==
    /\ worker[t].pc = "send" /\ Live(t) /\ Trouble("frame")
    /\ ops' = Settled(t, worker[t].key, "rejected")
    /\ Deliver(t, "rejected")
    /\ UNCHANGED <<row, order, journal, own, draining, scene, changing, content, broken, mailbox,
                   runtime, foreign>>

(* session.send.  The lease had mutation headroom a moment ago, so it is
   still held (OwnerLease). *)
WorkerSends(t) ==
    LET s == worker[t].key.sub IN
    /\ worker[t].pc = "send" /\ t = own
    /\ sent' = [sent EXCEPT ![s] = @ + 1]
    /\ frame' = [frame EXCEPT ![s] = "sent"]
    /\ Goto(t, "inflight")
    /\ UNCHANGED <<durable, content, broken, mailbox, troubles, inbound, busy, events, foreign>>

(* _sdk_call returns: an id, a refusal, or neither in time; an answer that
   finds the lease gone or thin counts for nothing. *)
WorkerHears(t) ==
    LET k == worker[t].key IN
    /\ worker[t].pc = "inflight"
    /\ \/ t = own /\ frame[k.sub] = "taken" /\ Goto(t, "accept") /\ UNCHANGED <<ops, troubles>>
       \/ t = own /\ frame[k.sub] = "refused" /\ UNCHANGED troubles
          /\ ops' = Settled(t, k, "rejected")
          /\ Deliver(t, IF Live(t) THEN "rejected" ELSE "ambiguous")
       \/ (IF t = own THEN Trouble("timeout") ELSE UNCHANGED troubles) /\ Fails(t)
    /\ UNCHANGED <<row, order, journal, own, draining, scene, changing, content, broken, mailbox,
                   runtime, foreign>>

(* copilotd.submission.accepted *)
Accepted(s) ==
    [row EXCEPT ![s] = [row[s] EXCEPT
        !.state = IF @ \in {"local_queued", "submitting", "submitted_unknown"}
                  THEN "submitted" ELSE @,
        !.accepted = @ \/ row[s].state \in {"local_queued", "submitting", "submitted",
                              "submitted_unknown", "observed_active", "loop_idle"},
        !.queue = IF @ \in {"local_queued", "submitting", "submitted_unknown"}
                     /\ row[s].state # "rejected"
                  THEN "submitted" ELSE @]]

WorkerAccepts(t) ==
    LET k == worker[t].key IN
    /\ worker[t].pc = "accept" /\ Live(t)
    /\ row' = Accepted(k.sub)
    /\ content' = content \ {k.sub}
    /\ ops' = [ops EXCEPT ![k] = "confirmed"]
    /\ Deliver(t, "ok")
    /\ UNCHANGED <<order, journal, own, draining, scene, changing, broken, mailbox, troubles,
                   runtime, foreign>>

-----------------------------------------------------------------------------
(* How _dispatch_submission ends: the receipts that settle the row.        *)

\* Deviation: the queue is told of the rejection and the submission is not.
RejectedQueueOnly(s) ==
    [row EXCEPT ![s].queue = IF @ = "submitting" THEN "rejected" ELSE @]

(* copilotd.submission.rejected: after an acceptance only an incident is
   recorded, and an observed message is split off into a row of its own. *)
Rejected(s) ==
    LET r == row[s] IN
    IF r.state = "rejected" THEN row
    ELSE IF r.accepted
    THEN [row EXCEPT ![s].queue =
             IF @ \in {"local_queued", "submitting", "submitted_unknown"} THEN "submitted" ELSE @]
    ELSE [row EXCEPT ![s] = [row[s] EXCEPT !.state = "rejected", !.observed = FALSE,
             !.queue = IF @ \in {"local_queued", "submitting", "submitted", "submitted_unknown"}
                       THEN "rejected" ELSE @]]

SplitOff(s) ==
    LET r == row[s] IN
    IF r.state # "rejected" /\ ~r.accepted /\ r.observed THEN r.state ELSE foreign

\* Deviation: no answer is taken for a refusal.
DoubtedAsRejected(s) == Rejected(s)

(* copilotd.submission.acceptance_unknown *)
Doubted(s) ==
    LET known == row[s].observed \/ row[s].accepted IN
    [row EXCEPT ![s] = [row[s] EXCEPT
        !.state = IF @ = "rejected" \/ known THEN @ ELSE "submitted_unknown",
        !.queue = IF @ \in {"local_queued", "submitting"}
                  THEN IF known THEN "submitted" ELSE "submitted_unknown" ELSE @]]

Finish(t, d) ==
    LET x == <<t, d>> k == dispatcher[x].key s == k.sub out == dispatcher[x].out
        fresh == Live(t) /\ <<s, out, 0>> \notin journal IN
    /\ dispatcher[x].pc = "finish"
    /\ row' = CASE out = "fence" /\ CanRequeue(k) -> [row EXCEPT ![s] = Backlog(@)]
                [] out = "rejected" /\ fresh -> Rejected(s)
                [] out = "ambiguous" /\ fresh -> Doubted(s)
                [] OTHER -> row
    /\ foreign' = IF out = "rejected" /\ fresh THEN SplitOff(s) ELSE foreign
    /\ journal' = IF fresh /\ out \in {"rejected", "ambiguous"}
                  THEN journal \cup {<<s, out, 0>>} ELSE journal
    /\ content' = IF Live(t) /\ out \in {"ok", "rejected", "ambiguous"} THEN content \ {s} ELSE content
    /\ Rest(x)
    /\ UNCHANGED <<order, ops, own, draining, scene, changing, broken, mailbox, worker, troubles, runtime>>

-----------------------------------------------------------------------------
(* What the user does to the queue, under _queue_dispatch_lock             *)

Cancellable == {s \in Subs : row[s].queue \in {"local_queued", "blocked"}}

(* copilotd.submission.cancel_queued, for one item or for the whole queue *)
Cancel(S) ==
    /\ Live(own) /\ LockFree /\ S # {}
    /\ row' = [s \in Subs |->
                 IF s \in S
                 THEN [row[s] EXCEPT !.queue = "cancelled",
                                     !.state = IF @ = "local_queued" THEN "cancelled" ELSE @]
                 ELSE row[s]]
    /\ UNCHANGED <<order, ops, journal, own, draining, scene, changing, memory, troubles, runtime, foreign>>

(* copilotd.queue.replaced: the new row goes to the end of the queue. *)
Replace(old, new) ==
    /\ Live(own) /\ LockFree /\ ~draining /\ ~changing
    /\ old \in Cancellable /\ row[new].state = "absent" /\ new \notin steers
    /\ row' = [row EXCEPT ![old].queue = "cancelled", ![old].state = "cancelled",
                          ![new] = [NoRow EXCEPT !.state = "local_queued",
                                    !.queue = "local_queued", !.immediate = row[old].immediate]]
    /\ order' = Append(order, new)
    /\ content' = content \cup {new}
    /\ UNCHANGED <<ops, journal, own, draining, scene, changing, broken, dispatcher, mailbox, worker,
                   troubles, runtime, foreign>>

-----------------------------------------------------------------------------
(* The SDK's runtime, and the reducer reading its events                   *)

RuntimeTakes(s) ==
    /\ frame[s] = "sent"
    /\ \/ frame' = [frame EXCEPT ![s] = "taken"] /\ inbound' = inbound \cup {s}
       \/ frame' = [frame EXCEPT ![s] = "refused"] /\ UNCHANGED inbound
    /\ UNCHANGED <<durable, memory, troubles, sent, busy, events, foreign>>

(* An immediate message joins the running turn, others wait for its end. *)
RuntimeBegins(s) ==
    /\ s \in inbound /\ (busy => row[s].immediate)
    /\ inbound' = inbound \ {s} /\ busy' = TRUE
    /\ events' = Append(events, s)
    /\ UNCHANGED <<durable, memory, troubles, frame, sent, foreign>>

(* The idle event bears the time it came: it names the rows created by then. *)
RuntimeIdles ==
    /\ busy /\ inbound = {}
    /\ busy' = FALSE
    /\ events' = Append(events, [idle |-> {s \in Subs : row[s].state # "absent"}])
    /\ UNCHANGED <<durable, memory, troubles, frame, sent, inbound, foreign>>

(* user.message: the accepted id, or failing that the one row whose send has
   begun and whose prompt it is; otherwise a runtime_observed row. *)
Correlates(s) ==
    LET r == row[s] IN
    /\ ~r.observed
    /\ \/ r.state = "submitting"
       \/ r.accepted /\ r.state \in {"submitted", "submitted_unknown", "outcome_unknown"}

ReduceUserMessage(s) ==
    /\ Live(own) /\ events # <<>> /\ Head(events) = s
    /\ IF Correlates(s)
       THEN /\ row' = [row EXCEPT ![s] = [row[s] EXCEPT !.state = "observed_active", !.observed = TRUE,
                          !.queue = IF @ = "outcome_unknown" THEN "submitted" ELSE @]]
            /\ UNCHANGED foreign
       ELSE foreign' = "observed_active" /\ UNCHANGED row
    /\ events' = Tail(events)
    /\ UNCHANGED <<order, ops, journal, own, draining, scene, changing, memory, troubles,
                   frame, sent, inbound, busy>>

(* session.idle ends what was observed, and gives up on what was not. *)
Idled(r, created) ==
    IF r.state = "observed_active" THEN [r EXCEPT !.state = "loop_idle"]
    ELSE IF created /\ r.state \in {"submitting", "submitted", "submitted_unknown"} /\ ~r.observed
    THEN [r EXCEPT !.state = "outcome_unknown",
                   !.queue = IF @ \in {"submitting", "submitted", "submitted_unknown"}
                             THEN "outcome_unknown" ELSE @]
    ELSE r

ReduceIdle ==
    /\ Live(own) /\ events # <<>> /\ Head(events) \notin Subs
    /\ row' = [s \in Subs |-> Idled(row[s], s \in Head(events).idle)]
    /\ foreign' = IF foreign = "observed_active" THEN "loop_idle" ELSE foreign
    /\ events' = Tail(events)
    /\ UNCHANGED <<order, ops, journal, own, draining, scene, changing, memory, troubles,
                   frame, sent, inbound, busy>>

-----------------------------------------------------------------------------
(* Circumstances                                                           *)

DrainBegins ==
    /\ ~draining /\ Trouble("drain") /\ draining' = TRUE
    /\ UNCHANGED <<row, order, ops, journal, own, changing, scene, memory, runtime, foreign>>

DrainEnds ==
    /\ draining /\ draining' = FALSE
    /\ UNCHANGED <<row, order, ops, journal, own, changing, scene, memory, troubles, runtime, foreign>>

TransitionBegins ==
    /\ ~changing /\ Trouble("transition") /\ changing' = TRUE
    /\ UNCHANGED <<row, order, ops, journal, own, draining, scene, memory, runtime, foreign>>

TransitionSettles ==
    /\ changing /\ changing' = FALSE
    /\ UNCHANGED <<row, order, ops, journal, own, draining, scene, memory, troubles, runtime, foreign>>

\* Deviation: the successor tries again what the owner was submitting.
OrphanedRetries(r) ==
    IF r.state \in {"submitting", "submitted"} THEN Backlog(r) ELSE r

(* _orphan_previous_owners, on the rows of the queue *)
Orphaned(r) ==
    LET state == IF r.state \in {"submitting", "submitted"} THEN "submitted_unknown"
                 ELSE IF r.state \in {"submitted_unknown", "observed_active", "loop_idle"}
                 THEN "outcome_unknown" ELSE r.state IN
    [r EXCEPT !.state = state,
              !.queue = IF @ = "submitting" /\ state = "submitted_unknown" THEN state ELSE @]

(* What a new owner finds in any case: the lease ran out. *)
NewOwner ==
    /\ own < MaxFence /\ own' = own + 1
    /\ ops' = [k \in Keys |-> IF ops[k] \in {"pending", "started"} THEN "unknown" ELSE ops[k]]
    /\ foreign' = IF foreign = "observed_active" THEN "outcome_unknown" ELSE foreign
    /\ events' = SelectSeq(events, LAMBDA e : e \in Subs)
    /\ busy' = FALSE /\ inbound' = {}
    /\ UNCHANGED <<order, journal, draining, scene, changing, broken, troubles, frame, sent>>

(* The process attaches anew while tasks of the former runtime go on.  The
   lease cannot run out between the last check of a send and the send. *)
TakeOver ==
    /\ NewOwner
    /\ worker[own].pc # "send"
    /\ row' = [s \in Subs |-> Orphaned(row[s])]
    /\ UNCHANGED <<content, dispatcher, mailbox, worker>>

(* The process dies and with it the prompts: recovery at startup gives up
   the rows that still need one. *)
Restart ==
    /\ scene.crashes /\ NewOwner
    /\ row' = [s \in Subs |-> IF s \in Cancellable THEN Unavailable(row[s]) ELSE Orphaned(row[s])]
    /\ content' = {}
    /\ dispatcher' = [x \in Fences \X Dispatchers |-> AtRest]
    /\ mailbox' = [t \in Fences |-> <<>>]
    /\ worker' = [t \in Fences |-> Resting]

-----------------------------------------------------------------------------
PumpStep(t) == PumpYields(t) \/ PumpBlocks(t) \/ PumpServes(t)

WorkerProceeds(t) ==
    \/ Take(t) \/ WorkerStarts(t) \/ WorkerCannotCommit(t) \/ WorkerClaims(t)
    \/ WorkerReadsClaim(t) \/ WorkerAsserts(t) \/ WorkerFenced(t) \/ WorkerSends(t)
    \/ WorkerHears(t) \/ WorkerAccepts(t)
WorkerStep(t) ==
    WorkerProceeds(t) \/ WorkerDefers(t) \/ WorkerLosesReadiness(t) \/ WorkerRefusesFrame(t)

ReducerStep == (\E s \in Subs : ReduceUserMessage(s)) \/ ReduceIdle
RuntimeStep == (\E s \in Subs : RuntimeTakes(s) \/ RuntimeBegins(s)) \/ RuntimeIdles

Next ==
    \/ \E s \in Subs : Admit(s)
    \/ \E s \in steers : SteerSeesTurn(s) \/ SteerLooks(s)
    \/ PumpFindsQuiet
    \/ \E t \in Fences : PumpStep(t) \/ WorkerStep(t)
    \/ \E t \in Fences, d \in Dispatchers : Hand(t, d) \/ Finish(t, d)
    \/ \E S \in {{s} : s \in Cancellable} \cup {Cancellable} : Cancel(S)
    \/ \E old, new \in Subs : Replace(old, new)
    \/ RuntimeStep \/ ReducerStep
    \/ DrainBegins \/ DrainEnds \/ TransitionBegins \/ TransitionSettles
    \/ TakeOver \/ Restart

Spec == Init /\ [][Next]_vars

(* Every task runs on; the runtime takes, begins and ends what it was sent; a
   drain and a pending transition come to an end.  The user need do nothing. *)
Fairness ==
    /\ WF_vars(PumpFindsQuiet)
    /\ \A t \in Fences : WF_vars(PumpStep(t)) /\ WF_vars(WorkerProceeds(t))
    /\ \A t \in Fences : WF_vars(WorkerDefers(t) \/ WorkerLosesReadiness(t))
    /\ \A t \in Fences, d \in {Pump} \cup Subs :
          /\ WF_vars(d \in Dispatchers /\ Hand(t, d))
          /\ WF_vars(d \in Dispatchers /\ Finish(t, d))
    /\ WF_vars(RuntimeStep) /\ WF_vars(ReducerStep)
    /\ WF_vars(DrainEnds) /\ WF_vars(TransitionSettles)

FairSpec == Spec /\ Fairness

-----------------------------------------------------------------------------
(* Properties                                                              *)

TypeOK ==
    /\ scene \in Scenes
    /\ \A s \in Subs :
          /\ row[s].state \in SubmissionStates /\ row[s].queue \in QueueStates
          /\ row[s].src \in Keys \cup {NoOp} /\ row[s].attempt \in Nat
    /\ ops \in [Keys -> {"none", "pending", "started", "confirmed", "rejected", "unknown"}]
    /\ own \in Fences /\ content \subseteq Subs /\ inbound \subseteq Subs
    /\ frame \in [Subs -> {"none", "sent", "taken", "refused"}]

(* No message reaches the SDK twice, whichever of the pump, a repeated steer,
   a requeue past the reducer and a successor dispatch it. *)
AtMostOnce == \A s \in Subs : sent[s] <= 1

(* What is on record as rejected was not carried out by the runtime, unless it
   is a steer. *)
RejectedNeverRan == \A s \in Subs \ steers : row[s].state = "rejected" => frame[s] # "taken"

(* What the user was told is cancelled was never sent, and never will be. *)
CancelledNeverSent == \A s \in Subs : row[s].state = "cancelled" => sent[s] = 0

(* The message id that send() returned is kept with the submission. *)
AcceptanceKept == \A k \in Keys : ops[k] = "confirmed" => row[k.sub].accepted

(* Where nobody steers, no claim finds the two halves of a row apart, which
   kills the reducer. *)
ReducerSurvives == steers = {} => \A t \in Fences : ~broken[t]

(* A message that waits can be sent: its prompt, which only memory holds, is
   discarded no sooner than the row leaves the queue. *)
WaitingHasContent == \A s \in Subs : row[s].queue = "local_queued" => s \in content

(* The pump sends in the order of admission, and only when no earlier dispatch
   of its own still waits to be seen; steers may come in between. *)
PumpOrder ==
    [][\A s \in Subs \ steers : sent'[s] # sent[s] =>
          /\ \A r \in Subs \ (steers \cup {s}) :
                row[r].state \notin {"submitting", "submitted", "submitted_unknown"}
          /\ \A i, j \in DOMAIN order :
                order[j] = s /\ i < j /\ order[i] \notin steers =>
                   row[order[i]].queue # "local_queued"]_vars

(* A queued message is dispatched, or blocked for the user to decide, unless a
   message before it was sent and nobody knows what became of it. *)
QueueDrains ==
    \A s \in Subs :
       row[s].queue = "local_queued" ~>
          \/ row[s].queue # "local_queued"
          \/ \E r \in Subs : row[r].state = "submitted_unknown"

(* A message blocked by a pending transition is queued again. *)
BlockedReturns ==
    \A s \in Subs : row[s].queue = "blocked" ~> row[s].queue # "blocked"

(* What the user is told of a message that was not carried out is true. *)
OutcomesAreFacts == RejectedNeverRan /\ CancelledNeverSent

(* The two halves of a row and the text in memory agree. *)
RowsAgree == ReducerSurvives /\ WaitingHasContent
=============================================================================
