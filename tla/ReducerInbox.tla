---------------------------- MODULE ReducerInbox ----------------------------
(***************************************************************************)
(* The bounded queue of one attached session (core/inbox.py) and its only  *)
(* consumer, EventReducerWorker (core/reducer.py).  Producers live on two  *)
(* sides of a thread boundary:                                             *)
(*                                                                         *)
(*   - SDK threads deliver events through SdkEventIngress, which never     *)
(*     blocks: an event that finds the inbox full is lost and recorded;    *)
(*   - coroutines of the event loop commit internal receipts and wait for  *)
(*     the reducer's acknowledgement (commit_internal), or post a snapshot *)
(*     request without waiting (submit_internal).                          *)
(*                                                                         *)
(* A producer first reserves a slot and an inbox_seq under _lock, then     *)
(* hands the envelope to the loop with call_soon_threadsafe, and the loop  *)
(* puts it on the queue.  The three steps are separate actions.  The loop  *)
(* is one thread: `loop` names the coroutine it is running between its     *)
(* reservation and its call_soon, when no other coroutine or callback may  *)
(* run but an SDK thread may.                                              *)
(***************************************************************************)
EXTENDS Naturals, Sequences, FiniteSets, SequencesExt

CONSTANTS
    Committers,   \* coroutines that call commit_internal, once each
    Posters,      \* coroutines that call submit_internal, once each
    Stopper,      \* the coroutine that calls EventReducerWorker.stop
    Supervisor,   \* SessionRuntime._overflow_supervisor
    SdkThreads,   \* threads the SDK runs its event callback on
    NoOne,        \* no thread, no coroutine
    Capacity,     \* capacity of the inbox
    BatchSize,    \* most envelopes the reducer takes at once
    MaxEvents,    \* bound: events the SDK delivers
    MayFail,      \* whether the reducer's transaction or validator may fail
    MayStop       \* whether the runtime stops the reducer

ASSUME InboxAssumption ==
    /\ Capacity \in Nat \ {0} /\ BatchSize \in Nat \ {0} /\ MaxEvents \in Nat
    /\ MayFail \in BOOLEAN /\ MayStop \in BOOLEAN
    /\ Stopper # Supervisor
    /\ {Stopper, Supervisor} \cap (Committers \cup Posters) = {}
    /\ Committers \cap Posters = {}
    /\ NoOne \notin Committers \cup Posters \cup SdkThreads
                      \cup {Stopper, Supervisor}
    /\ SdkThreads \cap (Committers \cup Posters \cup {Stopper, Supervisor}) = {}

\* Coroutines that wait for an acknowledgement, and all coroutines.
Waiters == Committers \cup {Stopper, Supervisor}
Coroutines == Waiters \cup Posters

VARIABLES
    outstanding,  \* _outstanding: slots reserved and not acknowledged
    nextSeq,      \* _next_inbox_seq
    closed,       \* _closed
    sdkClosed,    \* _sdk_closed
    space,        \* _space_available is set
    lost,         \* _overflow.lost_count
    overflowed,   \* overflow_event is set
    ready,        \* callbacks handed to the loop, oldest first
    queue,        \* _queue
    batch,        \* the envelopes the worker holds and has not acknowledged
    reducer,       \* where the worker's coroutine is
    cancelling,   \* worker.cancel() was called
    stopping,     \* EventReducerWorker._stopping
    loop,         \* the coroutine between its reservation and its call_soon
    pc,           \* where each coroutine is
    seqOf,        \* the inbox_seq each producer holds
    sdk,          \* where each SDK thread is
    ingress,      \* holder of SdkEventIngress._submission_lock
    delivered,    \* events the SDK has delivered
    reduced,      \* the inbox_seqs the reducer committed, in commit order
    sdkSeqs,      \* the inbox_seqs that carry SDK events
    incidents,    \* invalid SDK events recorded by persist_incident
    bound         \* session_bindings still names this generation and fence

counters == <<outstanding, nextSeq, lost, space>>
gates    == <<closed, sdkClosed, overflowed>>
pipeline == <<ready, queue, batch>>
control  == <<reducer, cancelling, stopping>>
producer == <<loop, pc, seqOf>>
threads  == <<sdk, ingress, delivered>>
store    == <<reduced, sdkSeqs, incidents, bound>>
inboxVars     == <<counters, gates, pipeline, control, producer, threads, store>>

Envelope(p, n) == [from |-> p, seq |-> n]
Put(p, n)      == [run |-> "put", env |-> Envelope(p, n)]
Run(what)      == [run |-> what, env |-> Envelope(NoOne, 0)]

InboxInit ==
    /\ outstanding = 0 /\ nextSeq = 0 /\ lost = 0 /\ space = TRUE
    /\ closed = FALSE /\ sdkClosed = FALSE /\ overflowed = FALSE
    /\ ready = <<>> /\ queue = <<>> /\ batch = <<>>
    /\ reducer = "get" /\ cancelling = FALSE /\ stopping = FALSE
    /\ loop = NoOne
    /\ pc = [p \in Coroutines |-> "idle"]
    /\ seqOf = [p \in Coroutines \cup SdkThreads |-> 0]
    /\ sdk = [t \in SdkThreads |-> "idle"]
    /\ ingress = NoOne /\ delivered = 0
    /\ reduced = <<>> /\ sdkSeqs = {} /\ incidents = 0 /\ bound = TRUE

---------------------------------------------------------------------------
(* Reservation, _reserve, under the lock.                                  *)

Full == outstanding >= Capacity

\* The branch of _reserve that grants a slot.
TakeSlot(p) ==
    /\ ~closed
    /\ ~Full
    /\ nextSeq' = nextSeq + 1
    /\ outstanding' = outstanding + 1
    /\ seqOf' = [seqOf EXCEPT ![p] = nextSeq + 1]

\* The slot just granted was the last one: _clear_space_available.
LastSlot == outstanding + 1 >= Capacity

\* The branch of _reserve that records a loss.
RecordOverflow ==
    /\ ~closed
    /\ Full
    /\ nextSeq' = nextSeq + 1
    /\ lost' = lost + 1

---------------------------------------------------------------------------
(* SDK threads, submit_sdk inside SdkEventIngress.__call__.                *)

\* Deviation: events of two SDK threads are not serialised by the ingress.
SdkCallUnlocked(t) ==
    /\ sdk[t] = "idle"
    /\ ~sdkClosed
    /\ delivered < MaxEvents
    /\ delivered' = delivered + 1
    /\ sdk' = [sdk EXCEPT ![t] = "checked"]
    /\ UNCHANGED <<ingress, counters, gates, pipeline, control, producer, store>>

\* The ingress lock is taken and _sdk_closed is read in a first critical
\* section of the inbox lock.
SdkCall(t) ==
    /\ ingress = NoOne
    /\ sdk[t] = "idle"
    /\ delivered < MaxEvents
    /\ delivered' = delivered + 1
    /\ IF sdkClosed THEN UNCHANGED <<sdk, ingress>>
       ELSE /\ ingress' = t
            /\ sdk' = [sdk EXCEPT ![t] = "checked"]
    /\ UNCHANGED <<counters, gates, pipeline, control, producer, store>>

\* _reserve(source="sdk") grants a slot; a clear of _space_available crosses
\* the thread boundary as a callback.
SdkReserve(t) ==
    /\ sdk[t] = "checked"
    /\ TakeSlot(t)
    /\ sdk' = [sdk EXCEPT ![t] = "reserved"]
    /\ ready' = IF LastSlot THEN Append(ready, Run("clear")) ELSE ready
    /\ sdkSeqs' = sdkSeqs \cup {nextSeq + 1}
    /\ UNCHANGED <<lost, space, gates, queue, batch, control, loop, pc, ingress,
                   delivered, reduced, incidents, bound>>

\* Deviation: a number is spent on the lost event and no loss is recorded.
SdkOverflowSilent(t) ==
    /\ sdk[t] = "checked"
    /\ ~closed
    /\ Full
    /\ nextSeq' = nextSeq + 1
    /\ sdk' = [sdk EXCEPT ![t] = "idle"]
    /\ ingress' = NoOne
    /\ UNCHANGED <<outstanding, space, lost, gates, pipeline, control, producer,
                   delivered, store>>

\* The inbox is full: the event is lost, recorded, and overflow_event will be
\* set by the loop.
SdkOverflow(t) ==
    /\ sdk[t] = "checked"
    /\ RecordOverflow
    /\ ready' = ready \o <<Run("clear"), Run("overflow")>>
    /\ sdk' = [sdk EXCEPT ![t] = "idle"]
    /\ ingress' = NoOne
    /\ UNCHANGED <<outstanding, space, gates, queue, batch, control, producer,
                   delivered, store>>

\* The inbox was closed after submit_sdk had looked at _sdk_closed.
SdkRefused(t) ==
    /\ sdk[t] = "checked"
    /\ closed
    /\ sdk' = [sdk EXCEPT ![t] = "idle"]
    /\ ingress' = NoOne
    /\ UNCHANGED <<counters, gates, pipeline, control, producer, delivered, store>>

\* _schedule: call_soon_threadsafe(_put_reserved), outside the inbox lock.
SdkSchedule(t) ==
    /\ sdk[t] = "reserved"
    /\ ready' = Append(ready, Put(t, seqOf[t]))
    /\ sdk' = [sdk EXCEPT ![t] = "idle"]
    /\ ingress' = NoOne
    /\ UNCHANGED <<counters, gates, queue, batch, control, producer, delivered,
                   store>>

---------------------------------------------------------------------------
(* Coroutines on the loop thread.                                          *)

\* _space_available.set() releases every coroutine in its wait().
Wake(at) == [p \in Coroutines |-> IF at[p] = "waiting" THEN "woken" ELSE at[p]]

\* Where a coroutine stands when it calls _reserve.
MayTry(p) ==
    /\ loop = NoOne
    /\ \/ p \in Committers \cup Posters /\ pc[p] = "idle"
       \/ pc[p] = "woken"

\* _reserve in commit_internal or submit_internal grants a slot.  The
\* coroutine goes on to _schedule without yielding.
LoopReserve(p) ==
    /\ MayTry(p)
    /\ TakeSlot(p)
    /\ space' = (space /\ ~LastSlot)
    /\ pc' = [pc EXCEPT ![p] = "reserved"]
    /\ loop' = p
    /\ UNCHANGED <<lost, gates, pipeline, control, threads, store>>

\* commit_internal finds the inbox full: clear and wait for space.
LoopWait(p) ==
    /\ MayTry(p)
    /\ p \in Waiters
    /\ ~closed
    /\ Full
    /\ space' = FALSE
    /\ pc' = [pc EXCEPT ![p] = "waiting"]
    /\ UNCHANGED <<outstanding, nextSeq, lost, gates, pipeline, control, loop,
                   seqOf, threads, store>>

\* submit_internal finds the inbox full: the receipt is lost and recorded.
LoopOverflow(p) ==
    /\ MayTry(p)
    /\ p \in Posters
    /\ RecordOverflow
    /\ space' = FALSE
    /\ ready' = Append(ready, Run("overflow"))
    /\ pc' = [pc EXCEPT ![p] = "dropped"]
    /\ UNCHANGED <<outstanding, gates, queue, batch, control, loop, seqOf,
                   threads, store>>

\* The inbox is closed: commit_internal raises, submit_internal returns False.
LoopRefused(p) ==
    /\ MayTry(p)
    /\ closed
    /\ pc' = [pc EXCEPT ![p] = "refused"]
    /\ UNCHANGED <<counters, gates, pipeline, control, loop, seqOf, threads, store>>

\* _schedule on the loop thread; commit_internal then awaits commit_ack.
LoopSchedule(p) ==
    /\ loop = p
    /\ ready' = Append(ready, Put(p, seqOf[p]))
    /\ pc' = [pc EXCEPT ![p] = IF p \in Waiters THEN "acking" ELSE "posted"]
    /\ loop' = NoOne
    /\ UNCHANGED <<counters, gates, queue, batch, control, seqOf, threads, store>>

\* A caller cancelled while it waits for space leaves.  Cancelled while it
\* waits for commit_ack, it keeps waiting (_await_commit_ack).
CancelWait(p) ==
    /\ loop = NoOne
    /\ p \in Committers
    /\ pc[p] \in {"waiting", "woken"}
    /\ pc' = [pc EXCEPT ![p] = "cancelled"]
    /\ UNCHANGED <<counters, gates, pipeline, control, loop, seqOf, threads, store>>

\* The loop runs its oldest callback: _put_reserved, _space_available.clear or
\* overflow_event.set.  The QueueFull branch of _put_reserved needs a queue of
\* Capacity envelopes beside the reserved one, which SlotsAccounted excludes.
RunCallback ==
    /\ loop = NoOne
    /\ ready # <<>>
    /\ ready' = Tail(ready)
    /\ LET cb == Head(ready) IN
         /\ queue' = IF cb.run = "put" THEN Append(queue, cb.env) ELSE queue
         /\ space' = (space /\ cb.run # "clear")
         /\ overflowed' = (overflowed \/ cb.run = "overflow")
    /\ UNCHANGED <<outstanding, nextSeq, lost, closed, sdkClosed, batch, control,
                   producer, threads, store>>

---------------------------------------------------------------------------
(* The overflow supervisor: on overflow_event it closes the SDK side, waits *)
(* in join() for the inbox to drain and commits a recovery incident.        *)

SuperviseOverflow ==
    /\ loop = NoOne
    /\ pc[Supervisor] = "idle"
    /\ overflowed
    /\ sdkClosed' = TRUE
    /\ pc' = [pc EXCEPT ![Supervisor] = "joining"]
    /\ UNCHANGED <<counters, closed, overflowed, pipeline, control, loop, seqOf,
                   threads, store>>

\* join() returns once nothing is outstanding; the commit follows.
JoinReturns ==
    /\ loop = NoOne
    /\ pc[Supervisor] = "joining"
    /\ outstanding = 0
    /\ pc' = [pc EXCEPT ![Supervisor] = "woken"]
    /\ UNCHANGED <<counters, gates, pipeline, control, loop, seqOf, threads, store>>

---------------------------------------------------------------------------
(* The reducer worker.                                                     *)

Seqs(envs) == [i \in DOMAIN envs |-> envs[i].seq]
Senders(envs) == {envs[i].from : i \in DOMAIN envs} \cap Waiters

\* Deviation: acknowledge frees the slots and forgets the space waiters.
AcknowledgeMute(envs, result) ==
    /\ outstanding' = outstanding - Len(envs)
    /\ space' = space
    /\ pc' = [p \in Coroutines |-> IF p \in Senders(envs) THEN result ELSE pc[p]]

\* acknowledge(envelope, error) for each of envs: free the slots, set
\* _space_available, resolve commit_ack.
Acknowledge(envs, result) ==
    /\ outstanding' = outstanding - Len(envs)
    /\ space' = TRUE
    /\ pc' = [p \in Coroutines |->
                IF p \in Senders(envs) THEN result ELSE Wake(pc)[p]]

\* get() and the get_nowait() loop.
WorkerTake ==
    /\ loop = NoOne
    /\ reducer = "get"
    /\ ~cancelling
    /\ queue # <<>>
    /\ LET n == IF Len(queue) < BatchSize THEN Len(queue) ELSE BatchSize IN
         /\ batch' = SubSeq(queue, 1, n)
         /\ queue' = SubSeq(queue, n + 1, Len(queue))
    /\ reducer' = "validating"
    /\ UNCHANGED <<counters, gates, ready, cancelling, stopping, producer, threads,
                   store>>

\* The fence validator finds the fence current.
WorkerValidate ==
    /\ loop = NoOne
    /\ reducer = "validating"
    /\ bound
    /\ ~cancelling
    /\ reducer' = "adapting"
    /\ UNCHANGED <<counters, gates, pipeline, cancelling, stopping, producer,
                   threads, store>>

\* Deviation: the invalid event keeps its slot.
WorkerIncidentKeepsSlot(i) ==
    /\ loop = NoOne
    /\ reducer = "adapting"
    /\ i \in DOMAIN batch
    /\ batch[i].from \in SdkThreads
    /\ incidents' = incidents + 1
    /\ batch' = RemoveAt(batch, i)
    /\ UNCHANGED <<counters, gates, ready, queue, control, producer, threads,
                   reduced, sdkSeqs, bound>>

\* InvalidSdkEvent: persist_incident, then acknowledge that envelope alone.
WorkerIncident(i) ==
    /\ loop = NoOne
    /\ reducer = "adapting"
    /\ i \in DOMAIN batch
    /\ batch[i].from \in SdkThreads
    /\ incidents' = incidents + 1
    /\ batch' = RemoveAt(batch, i)
    /\ Acknowledge(<<batch[i]>>, "committed")
    /\ UNCHANGED <<nextSeq, lost, gates, ready, queue, control, loop, seqOf,
                   threads, reduced, sdkSeqs, bound>>

\* Every event of the batch was invalid: nothing to persist.
WorkerNothingLeft ==
    /\ loop = NoOne
    /\ reducer = "adapting"
    /\ batch = <<>>
    /\ reducer' = "get"
    /\ UNCHANGED <<counters, gates, pipeline, cancelling, stopping, producer,
                   threads, store>>

\* persist: one transaction, shielded from cancellation; events of a
\* generation the binding no longer names are skipped.
WorkerCommit ==
    /\ reducer = "adapting"
    /\ batch # <<>>
    /\ reduced' = IF bound THEN reduced \o Seqs(batch) ELSE reduced
    /\ reducer' = "persisted"
    /\ UNCHANGED <<counters, gates, pipeline, cancelling, stopping, producer,
                   threads, sdkSeqs, incidents, bound>>

\* persist returned: acknowledge the batch; the stop receipt ends the loop.
WorkerAck ==
    /\ loop = NoOne
    /\ reducer = "persisted"
    /\ ~cancelling
    /\ Acknowledge(batch, "committed")
    /\ batch' = <<>>
    /\ reducer' = IF stopping /\ Stopper \in Senders(batch) THEN "stopped" ELSE "get"
    /\ UNCHANGED <<nextSeq, lost, gates, ready, queue, cancelling, stopping, loop,
                   seqOf, threads, store>>

\* Deviation: the error is not handed to the waiting coroutines.
FailPendingSilently(result) ==
    /\ Acknowledge(batch \o queue, "committed")
    /\ batch' = <<>> /\ queue' = <<>>
    /\ closed' = TRUE /\ sdkClosed' = TRUE
    /\ reducer' = "dead"

\* The batch is acknowledged with the error, then fail_pending closes the
\* inbox and drains the queue with the same error.
FailPending(result) ==
    /\ Acknowledge(batch \o queue, result)
    /\ batch' = <<>> /\ queue' = <<>>
    /\ closed' = TRUE /\ sdkClosed' = TRUE
    /\ reducer' = "dead"

\* The validator says the fence is lost or raises, or a transaction fails.
WorkerFails ==
    /\ loop = NoOne
    /\ \/ reducer = "validating" /\ (MayFail \/ ~bound)
       \/ reducer = "adapting" /\ MayFail
    /\ FailPending("failed")
    /\ UNCHANGED <<nextSeq, lost, overflowed, ready, cancelling, stopping, loop,
                   seqOf, threads, store>>

\* worker.cancel() takes effect in get(), in the validator, in
\* persist_incident ...
WorkerCancelled ==
    /\ loop = NoOne
    /\ cancelling
    /\ \/ reducer \in {"get", "validating"}
       \/ reducer = "adapting" /\ \E i \in DOMAIN batch : batch[i].from \in SdkThreads
    /\ FailPending("failed")
    /\ UNCHANGED <<nextSeq, lost, overflowed, ready, cancelling, stopping, loop,
                   seqOf, threads, store>>

\* ... and out of persist only once the transaction has committed: persist
\* raises CommittedCancellation, which the same handlers pass on.
WorkerCommittedCancelled ==
    /\ loop = NoOne
    /\ cancelling
    /\ reducer = "persisted"
    /\ FailPending("committedCancel")
    /\ UNCHANGED <<nextSeq, lost, overflowed, ready, cancelling, stopping, loop,
                   seqOf, threads, store>>

---------------------------------------------------------------------------
(* Stopping the reducer, and losing the session to another process.        *)

WorkerDone == reducer \in {"stopped", "dead"}

\* stop(): close the SDK side; commit the stop receipt unless the worker is
\* already done.
StopCall ==
    /\ MayStop
    /\ loop = NoOne
    /\ pc[Stopper] = "idle"
    /\ stopping' = TRUE
    /\ sdkClosed' = TRUE
    /\ closed' = (closed \/ WorkerDone)
    /\ pc' = [pc EXCEPT ![Stopper] = IF WorkerDone THEN "closed" ELSE "woken"]
    /\ UNCHANGED <<counters, overflowed, pipeline, reducer, cancelling, loop, seqOf,
                   threads, store>>

\* stop() runs into its timeout while it waits for space: cancel the worker.
\* emergency_stop() cancels it at once.
StopCancels ==
    /\ MayStop
    /\ loop = NoOne
    /\ pc[Stopper] \in {"idle", "waiting"}
    /\ stopping' = TRUE
    /\ sdkClosed' = TRUE
    /\ cancelling' = ~WorkerDone
    /\ pc' = [pc EXCEPT ![Stopper] = "closing"]
    /\ UNCHANGED <<counters, closed, overflowed, pipeline, reducer, loop, seqOf,
                   threads, store>>

\* The finally clauses: close() the inbox.  A cancelled worker is awaited for
\* a bounded time only.
StopCloses ==
    /\ loop = NoOne
    /\ pc[Stopper] \in {"committed", "failed", "committedCancel", "refused",
                        "closing"}
    /\ closed' = TRUE
    /\ sdkClosed' = TRUE
    /\ pc' = Wake([pc EXCEPT ![Stopper] = "closed"])
    /\ space' = TRUE
    /\ UNCHANGED <<outstanding, nextSeq, lost, overflowed, pipeline, control, loop,
                   seqOf, threads, store>>

\* Another process takes the session over (begin_attachment).
FenceMoves ==
    /\ MayFail
    /\ bound
    /\ bound' = FALSE
    /\ UNCHANGED <<counters, gates, pipeline, control, producer, threads, reduced,
                   sdkSeqs, incidents>>

---------------------------------------------------------------------------
SdkNext(t) ==
    SdkCall(t) \/ SdkReserve(t) \/ SdkOverflow(t) \/ SdkRefused(t) \/ SdkSchedule(t)

LoopNext(p) ==
    \/ LoopReserve(p) \/ LoopWait(p) \/ LoopOverflow(p) \/ LoopRefused(p)
    \/ LoopSchedule(p)

WorkerNext ==
    \/ WorkerTake \/ WorkerValidate \/ WorkerNothingLeft \/ WorkerCommit
    \/ WorkerAck \/ WorkerFails \/ WorkerCancelled \/ WorkerCommittedCancelled

InboxNext ==
    \/ \E t \in SdkThreads : SdkNext(t)
    \/ \E p \in Coroutines : LoopNext(p) \/ CancelWait(p)
    \/ \E i \in 1..BatchSize : WorkerIncident(i)
    \/ RunCallback \/ SuperviseOverflow \/ JoinReturns \/ WorkerNext
    \/ StopCall \/ StopCancels \/ StopCloses \/ FenceMoves

InboxSpec == InboxInit /\ [][InboxNext]_inboxVars

\* Every thread runs: the SDK's callback is a few instructions, the event loop
\* runs each ready callback and each coroutine whose await is over, and the
\* reducer's transaction ends one way or the other.
InboxFairness ==
    /\ \A t \in SdkThreads : WF_inboxVars(SdkNext(t) /\ sdk[t] # "idle")
    /\ \A p \in Coroutines : WF_inboxVars(LoopNext(p) /\ pc[p] # "idle")
    /\ WF_inboxVars(RunCallback) /\ WF_inboxVars(SuperviseOverflow) /\ WF_inboxVars(JoinReturns)
    /\ WF_inboxVars(WorkerNext) /\ WF_inboxVars(StopCloses)

InboxFairSpec == InboxSpec /\ InboxFairness

---------------------------------------------------------------------------
(* Properties.                                                             *)

Envelopes == [from : Coroutines \cup SdkThreads, seq : Nat]

InboxTypeOK ==
    /\ outstanding \in 0..Capacity
    /\ nextSeq \in Nat /\ lost \in Nat /\ incidents \in Nat /\ delivered \in Nat
    /\ {space, closed, sdkClosed, overflowed, cancelling, stopping, bound} \subseteq BOOLEAN
    /\ \A i \in DOMAIN ready :
         /\ ready[i].run \in {"put", "clear", "overflow"}
         /\ ready[i].run = "put" => ready[i].env \in Envelopes
    /\ \A envs \in {queue, batch} : \A i \in DOMAIN envs : envs[i] \in Envelopes
    /\ reducer \in {"get", "validating", "adapting", "persisted", "stopped", "dead"}
    /\ loop \in Coroutines \cup {NoOne}
    /\ \A p \in Coroutines :
         pc[p] \in {"idle", "joining", "waiting", "woken", "reserved", "acking",
                    "posted", "dropped", "committed", "failed", "committedCancel",
                    "refused", "cancelled", "closing", "closed"}
    /\ \A t \in SdkThreads : sdk[t] \in {"idle", "checked", "reserved"}
    /\ ingress \in SdkThreads \cup {NoOne}
    /\ \A i \in DOMAIN reduced : reduced[i] \in 1..nextSeq
    /\ sdkSeqs \subseteq 1..nextSeq

\* Callbacks that will put an envelope on the queue.
Puts == {i \in DOMAIN ready : ready[i].run = "put"}

\* Every reserved slot is held by exactly one envelope on its way from a
\* producer to an acknowledgement, so a slot is neither leaked nor freed twice
\* and the put of a reserved envelope never finds the queue full
\* (_put_reserved, acknowledge).
SlotsAccounted ==
    /\ outstanding =
         Cardinality(Puts) + Len(queue) + Len(batch)
           + Cardinality({t \in SdkThreads : sdk[t] = "reserved"})
           + Cardinality({p \in Coroutines : pc[p] = "reserved"})
    /\ Puts # {} => Len(queue) < Capacity

\* While the reducer lives and owns the session, every inbox_seq handed out is
\* journaled, recorded as an incident, counted in the overflow incident, or
\* still on its way: no receipt disappears without a trace (_reserve,
\* _record_overflow_locked, _reduce_loop).
NothingVanishes ==
    reducer # "dead" /\ bound =>
        nextSeq = Len(reduced) + incidents + lost + outstanding
                    - (IF reducer = "persisted" THEN Len(batch) ELSE 0)

\* The journal and what is on its way to it, in the order it will arrive; a
\* callback that puts nothing stands in the line with the number 0.
Line ==
    reduced \o (IF reducer = "persisted" THEN <<>> ELSE Seqs(batch)) \o Seqs(queue)
      \o [i \in DOMAIN ready |-> ready[i].env.seq]

Increasing(s) == \A i, j \in DOMAIN s : i < j => s[i] < s[j]

\* SDK events reach the journal in the order in which the ingress received
\* them, whatever threads the SDK delivers them on (SdkEventIngress.__call__).
SdkOrder ==
    \A i, j \in DOMAIN Line :
        i < j /\ {Line[i], Line[j]} \subseteq sdkSeqs => Line[i] < Line[j]

\* What commit_internal reports is true: a return means the receipt was
\* committed, unless another process owns the session by now; an error means it
\* was not (acknowledge, fail_pending).
CommitHonest ==
    \A p \in Waiters :
        /\ pc[p] = "committed" /\ bound => Contains(reduced, seqOf[p])
        /\ pc[p] = "failed" => ~Contains(reduced, seqOf[p])

Answers == {"committed", "failed", "committedCancel", "refused", "cancelled"}

\* Every commit_internal call returns or raises: a waiter for space is woken
\* and gets a slot, a waiter for an acknowledgement receives it
\* (_space_available, _await_commit_ack).
EveryCommitAnswered ==
    \A p \in Committers :
        pc[p] \in {"waiting", "woken", "acking"} ~> pc[p] \in Answers

\* A lost event ends in a committed recovery incident: the supervisor is woken,
\* its join() returns and its own receipt finds room (_overflow_supervisor).
OverflowSurfaced == lost > 0 ~> pc[Supervisor] = "committed"

\* The order the design document states: the reducer processes receipts in the
\* order of their inbox_seq (docs/copilotD-detailed-design.md:1303).
ReducedInSeqOrder == Increasing(reduced)

\* What the exception's name and docstring state: CommittedCancellation reports
\* a cancellation observed after the transaction committed
\* (core/volatile_content.py:37, raised to the callers by fail_pending).
CommittedMeansCommitted ==
    \A p \in Waiters :
        pc[p] = "committedCancel" /\ bound => Contains(reduced, seqOf[p])

\* The slots of the inbox and the numbers it hands out are accounted for, all
\* of them, at every moment.
ReceiptsAccounted == SlotsAccounted /\ NothingVanishes
=============================================================================
