# Verification of copilotD

copilotD is a daemon that attaches Copilot SDK sessions to Discord threads.  Its
state lives in one SQLite database; several processes (an old daemon, its
replacement, a command line tool) may reach for the same session, SDK events
arrive on foreign threads, and every mutating SDK call can time out with an
unknown outcome.  This directory holds TLA+ models of the parts that keep this
consistent, the TLC runs that check them on small instances, and TLAPS proofs
for every size.

Paths below are relative to the repository; the code is under `src/copilotd/`.

## The system

| Component | State | Operations | Hard behaviour |
|---|---|---|---|
| Owner lease (`storage/leases.py`, renewal in `core/session_runtime.py`) | one row per session: owner id, fencing token, expiry | acquire, renew, release, is_current, has_mutation_headroom | timestamps read before the transaction, expiry during a call, crash, stale lease objects |
| Operation store and command mailbox (`core/mailbox.py`) | `session_operations` rows, a queue, futures by idempotency key, an admission flag | submit, begin, transition, settle_deferred, freeze, thaw, stop, emergency_stop | unknown outcomes, retries under the same key, processes that outlive their lease, cancellation at any await |
| Reducer inbox (`core/inbox.py`) | slots, sequence numbers, queue, overflow record | submit_sdk, submit_internal, commit_internal, acknowledge, join, close, fail_pending | SDK threads against the event loop, a full queue, cancellation during a commit |
| Reducer worker and event reducer (`core/reducer.py`) | the batch, `event_journal`, all projections | validate, adapt, persist, stop | a takeover between validation and transaction, partial failure of a batch |
| Session runtime (`core/session_runtime.py`) | lifecycle state, handle, lease, component tasks | attach, send, queue pump, settings, native operations, schedules, snapshots, close, shutdown | locks held across awaits, immediate and queued dispatch, stale snapshots |
| Bindings (`core/bindings.py`), registry and creation (`core/sessions.py`), deletion (`core/session_deletion.py`) | `session_bindings`: intent, attachment state, generation, fence; creation intents | create, begin_attachment, begin_close, finish_disconnect, delete | compare-and-set on row version across processes, two runtimes of one thread, unknown deletions |
| Startup recovery (`core/recovery.py`) | all rows with an owner that is gone | one inventory transaction | runs beside live processes |
| Scheduler (`core/scheduler.py`, `core/schedule_time.py`) | definitions, runs with lease and fence | plan, claim, renew, enqueue, retry, finalize, restart | expired claims of slow workers, misfires, clock changes, repeated and skipped hours |
| Render outbox (`render/outbox.py`, its transport in `discord_app.py`) | rows per session and key, posted messages, reactions | queue, revise, replay, claim, deliver | lost answers, a text that is gone after a crash, a row that is revised while it is sent |
| Projects (`core/projects.py`) and worktrees (`core/worktrees.py`) | configuration tables with versions, intents with git claims | bind, edit, snapshot; create, close, recover | reads in several steps, git processes that outlive their parent, a crash between database and file system |
| Service control and manager (`ops/control.py`, `ops/service.py`) | admission fences, markers on disk, restart intents | quiesce, acknowledge, prepare, commit, adopt, roll back | an acknowledgement that is stale when written, managers that die between two steps |
| Interactions and protocol responses (`core/interactions.py`, `core/protocol.py`) | pending questions, responses | request, respond, expire | a timeout against a late answer |
| Discord side (`discord_app.py`, `discord_requests.py`, `discord_http_limiter.py`) | request queue, rate buckets | execute, coalesce, admit | queue limit, shared pauses |

The interactions that matter: a runtime acquires the **lease**, moves the
**binding** to its token and starts an **inbox**, a **reducer worker** and a
**mailbox**.  Mutations are submitted to the mailbox; its receipts travel
through the inbox and are committed by the reducer, which asks the lease store
whether the process is still the owner and then, inside the transaction, looks
only at the binding.  A takeover writes the lease row, orphans the previous
owner's operations, and later moves the binding.  User messages and schedule
runs are rows of the **submission queue**, which the pump hands to the mailbox;
what the SDK says of them comes back through the inbox, and the reducer queues
what is to be shown in the **outbox**.  A **restart** closes admission, waits
until all of this has drained and hands the sessions to the next process.

What makes each part correct:

- lease: no two processes have a guarded SDK call in flight; a token names one
  tenure;
- mailbox: an operation is on record before it is sent, is sent at most once
  whoever retries, and what is recorded and reported about it is true;
- inbox: every number handed out ends in the journal, an incident or the
  overflow record; whoever waits is answered;
- submission queue: a message is sent at most once and in order, what is on
  record about it is true, and it does not wait for ever;
- sessions: one thread and one SDK session per intent, one runtime that speaks
  for it, and a deleted session stays deleted;
- settings, native operations, runtime schedules: what is shown as current or
  as done is so, in whichever order receipts, events and snapshots come;
- scheduler: the next run is the first occurrence, none is overlooked, a run's
  prompt is sent once, and its end is announced;
- outbox and reactions: no message twice, what is recorded as sent is shown,
  nothing vanishes without a notice, and the outbox empties;
- projects and worktrees: a session starts from a configuration that its
  project really had; a worktree is whole or gone;
- restart: one at a time, and a handoff that is adopted as clean lost nothing.

## Modules

| Module | Content |
|---|---|
| `OwnerLease` | the lease row, its clock, and the guard of SDK calls |
| `OperationLedger` | the abstract promise of the operation envelope |
| `OperationMailbox` | mailbox, operation receipts, takeover, attachment, restart |
| `ReducerInbox` | inbox, its producers on both sides of the thread boundary, the worker, overflow supervision |
| `SubmissionQueue` | messages from admission to the SDK: pump, immediate send, claim, receipts, user.message and idle, takeover and restart |
| `SessionLifecycle` | a session from its creation intent to its deletion: registry, runtimes, attach, close, shutdown |
| `SessionSettings` | mode, model, agent and remote access: desired, pending and observed |
| `NativeOperations` | builtin commands, side questions, compaction, Fleet and task actions |
| `RuntimeSchedules` | the schedules the SDK's runtime keeps and the registry of them |
| `SchedulePlans` | schedule definitions, wall time, and the planner |
| `ScheduleRuns` | a run from its planning to its settlement |
| `RenderOutbox` | rendered messages, their dispatcher and the thread in Discord |
| `SubmissionReactions` | the emoji on the user's message |
| `ProjectConfig` | project bindings, configuration tables, versions and snapshots |
| `Worktrees` | one worktree from its intent to its removal |
| `ServiceRestart` | the restart transaction between manager, process and replacement |
| `OperationMailboxProofs`, `ReducerInboxProofs`, `SubmissionQueueProofs`, `NativeOperationsProofs` | inductive invariants and theorems of the modules they are named after |
| `LeaseReactionsProofs` | the same for `OwnerLease` and `SubmissionReactions` |
| `ScheduleRestartProofs` | the same for `ServiceRestart` and `ScheduleRuns` |
| `PlansWorktreesProofs` | the same for `Worktrees` and `SchedulePlans` |
| `SessionProofs` | the same for `ProjectConfig`, `RuntimeSchedules` and `SessionLifecycle` |
| `MC...` | constants, scenes, symmetry and compositions for TLC |

Definitions whose comment starts with *Deviation* are variants of the definition
after them with a plausible mistake.  No specification uses them; `PROJECT.json`
lists the property each one breaks.

Some MC modules put two or three modules into one run.  These parts do not
interact: the variable `part` says in the initial state which of them a
behaviour is about, and the others never begin.  Such a run is the union of the
runs of its parts.  Inside a part, `scene`, `cast` or `kind` picks one of several
set-ups in the same way.

### OwnerLease

`row` is the `session_owner_leases` row; `held[o]` is `self._lease`; `store[o]`
is a lease-store call that has read `time.time()` and has not reached its
transaction; `rpc[o]` is a guarded SDK call.  Each store call is two actions
(`AcquireCall`/`AcquireCommit`, `RenewCall`/`RenewCommit`,
`ReleaseCall`/`ReleaseCommit`) because the timestamp is taken before the
transaction.  `AcquireConflict`, `RenewFenceLost` and `RenewError` are the error
paths.  A fenced runtime has a frozen mailbox, which refuses submissions while
the worker goes on with queued items, so `RpcCall` is possible in mode `fenced`.

Left out: the period of the renewal loop (a renewal may come at any time, so
nothing depends on punctuality) and the five attempts of an attachment (each is
an `AcquireCall`).  Owner ids are unique per process, so a restart is another
owner.

Assumed: the processes share one wall clock (they share a host), the SDK's
timeout ends a call, and the event loop needs at most `Slack` from reading the
clock in the headroom check to the start of the RPC.  `TimingAssumption` is
`Slack + OpTimeout < Headroom < Ttl`; the code has 60 s of lease, 40 s of
headroom and 30 s calls.  Compaction (six minutes) does not satisfy it and is
listed as a hazard without a property.

### OperationMailbox and OperationLedger

`op[k]` is the row of an idempotency key, `journal` the internal event ids that
make receipts idempotent, `lease` the lease abstracted to how much is left of it
(`headroom`, `current`, `expired`), `bind` the binding's token.  Per process:
lifecycle `phase`, `accepting`, `lock` (`_submission_lock`), `queue`, `futures`
and the `worker`, whose `pc` walks through `_execute`: fence check, *started*
receipt, fence check, call, fence check, settling receipt.  Each receipt is two
actions (`ReceiptValidate`, `ReceiptCommit`), as are the pending receipts of
`begin()` (`BeginValidate`, `BeginCommit`): the reducer validates the lease
before the transaction, and the transaction looks at the binding.  A receipt
that does not pass is skipped and acknowledged; the caller reads the row back.

Who waits for a receipt depends on the reducer.  `ReducerDies` ends it with any of
the receipts that were reserved and not yet put: the inbox drains what it has, and
these are put afterwards and never acknowledged (`lost`; `ReducerInbox` has the
steps).  A lost receipt of a submission, of a worker or of `stop()` leaves its
sender where it is, so the sender takes no further step.

`sent` and `ran` describe the world outside: how often the RPC left a process
and whether the runtime carried it out.  `Crash` and `RpcReturns` leave `ran`
open where the outcome is unknown.

`OperationLedger` states the promise without processes: written down before
sent, sent at most once, settled once, `confirmed` and `rejected` true.  The
refinement mapping takes `state` from the rows.

Abstractions: a runtime generation is identified with its token; reacquisition
with the same token is left to `OwnerLease`; the capacity of 1024 of the queue
is not reached; one receipt per transaction (batches are in `ReducerInbox`);
`LeaseWears`
does not expire a lease between a passed check and the dispatch, which
`OwnerLease` proves (`CallOutlived`); a worker that ignores its cancellation
beyond the timeout of `stop()` is not modelled; results kept for replay are not.
`Freeze` and `Thaw` come at any time: freezes come from fence losses, overflow
and `close()`, thaws from a blocked `close()`.  `Exempt` keys are submitted with
`allow_when_frozen`, as the disconnect of `close()` is.

### ReducerInbox

A producer reserves a slot and a number under the lock, hands the envelope to
the loop with `call_soon_threadsafe`, and the loop puts it on the queue: three
actions.  `ready` is the loop's callback list; clearing the space event and
setting the overflow event from an SDK thread also go through it.  The loop is
one thread: while `loop` names a coroutine between its reservation and its
scheduling, only SDK threads take steps.  Otherwise coroutines and callbacks
interleave freely, which allows more orders than the loop's FIFO.  The worker's
states are `get`, `validating`, `adapting`, `persisted`, `stopped`, `dead`;
`WorkerCommit` is a transaction of its own thread and may happen in between.

Left out: the branch of `_schedule` for a closed loop (the process is ending)
and the `QueueFull` branch of `_put_reserved`, which `SlotsAccounted` shows
unreachable; the observers of a service quiesce; the callback after acceptance
in `SdkEventIngress`.  `commit_recovered_sdk` is a committer.

### SubmissionQueue

`row[s]` joins `submissions` and `message_queue`: `state` is the submission's,
`queue` the queue item's (all `blocked_*` states are one), `src` the
`source_operation_id`, `accepted` and `observed` whether the message id and the
user event id are set.  `dispatcher` says where the pump of a runtime, or a
steer's `send()`, is; the pump holds `_queue_dispatch_lock` exactly while it is
not idle.  `worker` walks through `dispatch()`: fence check and *started*
receipt, claim, reading the claim back, `_assert_claimed_dispatchable` with the
last fence check, the send, the answer, the acceptance.  `Finish` is what
`_dispatch_submission` does with the outcome.  `frame`, `sent`, `inbound` and
`busy` describe the SDK's runtime, `events` what it tells the reducer.

`Hazards` and the scene's `troubles` choose what goes wrong: a restart being drained, a
configuration transition, an RPC without answer, a lease without headroom, a
frame that is too large.  Takeovers and restarts are bounded by `MaxFence`: a
takeover leaves the tasks of the old runtime running, a restart ends them and
loses the prompts, and recovery at startup then gives up the rows that need one.

Abstractions: a receipt is one step (the two steps of a receipt, and the window
between lease and binding, are in `OperationMailbox`), and so are a takeover, a
cancellation and a replacement.  `changing` stands for every pending transition
and for a drifted configuration snapshot.  A user message is matched by the
accepted id or to the row being submitted; the SDK's interaction ids are not
modelled, nor are attachments, schedule rows, autopilot continuations, aborted
idles, the `active_unknown` receipt of a forced close and the completion of
`loop_idle` by snapshots.

### SessionLifecycle

`b` is the `session_bindings` row, `lease` the lease row, `intent` the creation
intent, `rt[r]` a runtime in memory with the state of its lifecycle lock, its
handle and the job that holds the lock, `reg` what the registry holds.  A
behaviour has a cast of two tasks (a creation, an attachment, a scheduled
target, an overflow recovery, a shutdown, a deletion), because the interesting
races are between two of them; each step of a task between two awaits is an
action.  The runtimes of one process share an owner id, so a lease that is still
live does not keep them apart: what does is the row version of the binding and
the registry.  A runtime that stopped for good is terminal (`term`): `for_thread`
no longer finds it.  Abstractions: one thread; the contents of a recovery are the
other modules' affair; a lapse of the lease is one step; `begin_reattach` and the
marks of permissions are left out.

### SessionSettings, NativeOperations, RuntimeSchedules

These three are clients of the mailbox, which they have reduced to its outcomes:
confirmed, rejected, unknown.  In `SessionSettings` `row` has the desired value,
the pending transition and the observed value of one setting, which receipts of
calls, SDK events (`net`) and snapshots (`snap`, read in one step and merged in
another) all write; `sdk` is the value the session really has and `late` a
request that was given up and may still take effect; `raced` remembers that a
snapshot, a second mode or model change, or a late remote event read in the light of
a newer pending change made the row show another value, which `SettingsTrue` leaves
out.  In `NativeOperations` `row`
is the table of the sort of operation the behaviour is about, `seen` the receipts
the journal has, `work` and `net` the compactions and their events, which carry
no key.  A compaction's row remembers the inbox number it was written at; `After`
is the comparison of an event's `sdk_receive_seq` with it, which starts again at
zero in every generation, so that an event read from the log by a later process may
be passed over.  A Fleet run has a submission and a lease: the *started* receipt
makes both, `session.idle` makes the submission `loop_idle` (and does nothing while
it is still being submitted), a snapshot or the end of its tasks settles it and ends
the lease, and a late task opens it again.  In `RuntimeSchedules` there is no SDK call
that makes a schedule and names it: a create lists, invokes, lists again and takes
the one that is new.  An SDK event and the request for a snapshot that it causes are
two items of the inbox (`reduce_event`, `snapshot_requested`; `asks` counts the
requests under way), so the list of an earlier query can be reduced between them.

Abstractions: values of a setting are small sets; a listing is a set of ids; a
snapshot's freshness is whether events came in between.  What the tables say
besides (texts, counters, costs) is left out.

### SchedulePlans

Pure wall-time arithmetic and the planner around it.  Time is in half minutes,
so that a time between two minutes exists; a zone has at most one change of its
offset, a gap or a fold.  `next_after` searches through wall times the way the
code does; `Occurrences` is the reference definition, the set of all instants
whose wall time matches.  Toggling, deletion, running by hand, a planner tick
that read the clock earlier and a jump of the clock are actions.

### ScheduleRuns

`run` is the row of `schedule_runs` with status, attempt, lease, fence and what
was announced; `queue`, `sub`, `content` are the rows of the submission it
becomes; `worker` is the scheduler's tick between its awaits; `admin` and
`intent` are a restart that an operator prepares, with or without force.  A lease
or a delay is live until the environment lets it run out.  The submission queue
behind it is reduced to idle, claimed, sent.

### RenderOutbox and SubmissionReactions

`row` is `render_outbox` (a `content_unavailable` row stands for one revision of
its source), `content` the volatile texts, `mapping` the message of a key,
`intents` the batch checkpoints with their nonces, `thread` what Discord shows,
and `d` the dispatcher between its awaits.  A request ends well, is limited,
fails for now or for good, fails before it is made (`local`, which blocks the row
without a notice and, where it is a notice that is sent, ends the render loop), or is
carried out without an answer.  `NothingVanishes` says of a text that was not shown
that something not older of its key is queued or shown, or that somebody gave it up on
record: the notice itself may be refused (`GivenUp`; `NoticeRetained` below).
`SubmissionReactions` has the lanes of one message: the admission reaction, the
submission's reaction with its failures that are lifted again, and the
dispatcher.  `recover_reaction_outbox` reads in one step and writes in another, for the
dispatcher (which then finishes its claim in a third), for a restart, and for the queue
of a session that finds the text of a message gone (`pump`).  `crossed` remembers that
the queue's recovery wrote what was no longer so: two recoveries are then at work at
once, and the later write can be the older reading.

### ProjectConfig and Worktrees

`ProjectConfig` has the projects with their tables and versions, the revision
log, and the two families of commands; the channel's family resolves the project
in one step and writes in another.  `session_config_snapshot` reads the version,
then each table, then compares.  Of the worktree intents it has which are under way,
which failed, and which were reserved again (`reserve_again`, the branch of
`_reserve_intent` that does not look at the parent).  `Worktrees` walks one intent through git claim,
git process (`child`, which holds a file lock and may survive its parent),
project, target session, closing and compensation, for two callers and two
process generations.

### ServiceRestart

`fence` are the rows of `service_admission_fences`, `pend` and `marks` the marker
files that outlive the process, `bot` the process with its control worker, the
numbers it has read and the callback it is counting, `mgr` the managers.  A
compare-and-set of the acknowledgement, and each check of a manager before its
write, is an action of its own; `txn` is the manager that holds the write lock.
`dirty` and `clean` are history: fences under which a callback was lost, and
fences that were adopted as clean.  Left out: the Windows form of the forced end,
which also disables the service, and launchd's own restarts, which `StartBot`
stands for.

## Runs

| Run | Shows | Distinct states |
|---|---|---|
| `owner_lease` | guarded calls own the session and are exclusive, tokens are unique, takeovers come after the expiry | 532,220 |
| `mailbox` | one key retried across crash and restart, two live processes with one key, a process that outlives its lease with two keys: sent at most once, rows and answers true, a refinement of `OperationLedger` | 2,678,357 |
| `queue_inbox` | messages are sent once, those that are no steers one at a time and in order, and rejected or cancelled only if they were not sent, also with a steer that the pump dispatches too; slots, numbers, SDK order and acknowledgements of the inbox are right with overflow, failure, stop and takeover | 2,301,916 |
| `progress` | every submit() call is answered or has lost a receipt with the reducer, every commit_internal() call is answered, and queued messages leave the queue | 127,382 |
| `schedule_runs` | a run's prompt is sent once and not after a cancellation, its end is announced, and it ends; one restart at a time, a clean handoff lost nothing, and every fence ends | 267,764 |
| `plans_worktrees` | the next run is the first occurrence, runs are occurrences and none is overlooked; git and fork run once, worktrees are whole or gone | 2,238,461 |
| `render_outbox` | no duplicate messages, what is recorded as sent is shown, nothing vanishes silently, the outbox empties | 348,129 |
| `reactions` | success is shown only for complete work, a delivered outcome is on the message, an outcome reaches it, unless two recoveries crossed | 1,451,622 |
| `session_config` | one thread, one SDK session, one runtime that speaks, deletions for good; snapshots and revisions are configurations the project had | 3,468,619 |
| `session_controls` | a session that lets messages through has the settings the user asked for; a create makes one schedule and is confirmed with it; the registry shows no schedule that is not there, and all that are once its snapshots are in | 7,141,312 |
| `native_operations` | a key's request is sent once, and its record is true | 4,094,566 |

One more run ends in a counterexample to a statement of the repository:
`inbox_lost_ack` (162 states) shows that a receipt between its reservation and
its put, when the reducer fails, is put on the queue after the drain and is never
acknowledged; its caller waits for good.

These definitions hold on the instance of the run named, which does not list
them, to keep the number of properties down: `OutcomeIsFinal` of `ScheduleRuns` and
`NormalIsIdle` of `ServiceRestart` (`schedule_runs`; both also theorems),
`AttachSettlesTruly` of `SessionSettings` and `FinalStays` of `RuntimeSchedules`
(`session_controls`; the latter also a theorem), `SubmissionKept` and `CompactionFinal` of
`NativeOperations` (`native_operations`; also theorems), `OverflowSurfaced`
of `ReducerInbox` (`progress`).

### Further counterexamples

These statements fail too.  The first group are definitions of the modules; each
can be seen by checking the named definition on the run named, changed as said.

| Definition | Run | What happens |
|---|---|---|
| `RejectedNeverRan` of `OperationMailbox`, without its exception for rivals | `mailbox` | `begin()` takes the row of a rival for its own, and the stale process marks it rejected while the rival's call runs |
| `ReducedInSeqOrder` | `queue_inbox` | scheduling happens outside the lock (`core/inbox.py:309`), so receipts can be reduced out of `inbox_seq` order; the readiness check, which compares maxima, can pass with a receipt still pending |
| `CommittedMeansCommitted` | `inbox_lost_ack` with `MayFail = FALSE`, `MayStop = TRUE` | `emergency_stop` during a commit hands `CommittedCancellation` to callers whose receipts were not in the batch (`core/reducer.py:9130`) |
| `RejectedNeverRan` of `SubmissionQueue` with steers | `queue_inbox` | a steer that its own `send()` and the pump both dispatch is recorded as rejected although it was sent, if the first dispatch times out before the second reads its claim (`core/session_runtime.py:1077`) |
| `PumpOrder` for steers too | `queue_inbox` with three messages | a steer's `send()` claims and sends its message while the pump's operation waits in the mailbox; the pump then sends although the steer is still `submitted`: `_assert_claimed_dispatchable` looks at the runtime, not at the rows (`core/session_runtime.py:7133`) |
| `ReducerSurvives` with steers | `queue_inbox` | the pump blocks a row for a pending transition while the steer's operation is queued; the claim then raises "submission queue state diverged while claiming" in the reducer (`core/reducer.py:3305`) |
| `AcceptanceKept` | `queue_inbox` | a steer's message id is dropped when the turn's idle is reduced between its claim and its acceptance: `outcome_unknown` is missing in the UPDATE at `core/reducer.py:3706` |
| `BlockedReturns` | `progress`, queue part | no code takes a row out of `blocked_config_unknown` or `blocked_remote_transition` once the transition has settled (`core/session_runtime.py:931`; the design document, lines 967 and 970, says it returns) |
| `NobodyStranded` | `mailbox` | a submission whose pending receipt was reserved before the reducer failed, and put after the drain, waits for good (`core/inbox.py:241`) |
| `NoticeRetained` | `render_outbox` | the notice of a lost text is blocked itself when Discord refuses it, or after `max_transient_attempts` (`render/outbox.py:597`), against line 117 of the README |
| `EverySentIsShown` | `reactions` | a reaction that is not finished is marked as sent though never shown, if the lease runs out between the dispatcher's check and the reading of its recovery; an outcome, if the queue's recovery writes an owner token that it read before a shutdown was reduced, and the dispatcher's recovery reads after it (`render/outbox.py:1879`, `1904`, `1347`); the next restart shows it |
| `EveryParentLives` | `session_config` | an intent that failed no longer holds its project, the channel is bound again, and the same command then reserves the intent again under the retired project (`core/worktrees.py:2198`) |
| `NeverInDoubt` | `session_controls` | a schedule is made while a list query is under way; its event is reduced, the old list comes in before the request of the event, counts as fresh, and the schedule that runs is set to unknown until the next snapshot (`core/session_runtime.py:2464`, `core/reducer.py:5271`) |
| `LeaseEnds` | `native_operations` | a Fleet run settles as complete, its key is called again after a restart and becomes unknown, a late task opens its lease again, and the next settlement leaves it open with an unknown outcome (`core/reducer.py:6245`) |
| `CompletionCounts` | `native_operations` | the events of a compaction are read from the log by the next generation, whose numbers start at zero; they are lower than the one in the row, so both are passed over, and the row stays unknown and keeps the session from being ready (`core/reducer.py:6092`, `core/inbox.py:45`) |
| `FailureIsMarked` | `reactions` | a failure of a submission that was reopened after its success leaves the success emoji (`core/reducer.py:1036`; design document, lines 1561-1563) |
| `PendingIsCurrent` for mode and model | `session_controls` | an attach keeps a pending change whose observed value is another (`core/reducer.py:4534`), and nothing settles it: sending and `set_mode` are refused from then on (design document, lines 1114-1116) |
| `ReplacementSpared` | `schedule_runs`, restart part | with `--force` the worker exits by itself once it sees "prepared"; the replacement may be up before the manager commits, and the manager's error path then ends the replacement |

The second group was found while modelling.  Each is a behaviour of the module
named, not of a definition in it.

| Module | What happens |
|---|---|
| `OperationMailbox` | `settle_deferred` (`core/mailbox.py:277`) is an unfenced update: a process that lost its lease still writes rows, which the design document forbids |
| `ScheduleRuns` | a run is announced as failed although its prompt was sent: the redrive of a closed session's run fails and its retries are used up while the attached pump sends the queued row (`core/scheduler.py:778`, `core/reducer.py:3311`) |
| | `enqueue` takes over an existing submission without looking at status or fence and revives a run that had ended (`core/scheduler.py:990`) |
| | a run claimed in its second attempt, with a crash before `mark_target_started` and a lease still live at a quick restart, stays claimed |
| | the startup inventory sets `outcome_unknown` on a run announced as accepted, which is not announced again |
| | a late correlation makes a run active again after a restart was prepared |
| `RenderOutbox` | the second message of a payload, whose answer was lost, stays when the next revision has one message (`discord_app.py:1907`) |
| | a row blocked before it had a mapping leaves its posted parts, and the next revision edits the notice instead |
| | a compensation supersedes a `content_unavailable` row while it is being sent; "claim was lost" then ends the render loop (`core/reducer.py:883`, `render/outbox.py:687`) |
| | attempts are not reset by a revision, so a row revised several times is blocked by its first transient failure (`render/outbox.py:1379`) |
| `SubmissionReactions` | a superseded delivery can leave two emojis on a message (design document, line 1566) |
| `ProjectConfig` | a command of the channel's family that races a new binding is written to the retired project |
| | versions made by the channel's family have no row in `project_config_revisions` |
| | `remove_project_env` does not look for servers that refer to the variable, as `remove_variable` does |
| | `add_mcp_server` stores fields that `_sdk_mcp_server_config` refuses (`core/projects.py:2076`) |
| `Worktrees` | a recovery pass that meets a live create in `target_creating` marks it for intervention; the create's `mark_ready` then fails (`core/worktrees.py:1235`, `2343`) |
| | a conflict on the last renewal leaves the intent in `git_creating` until the next create or restart |
| | a killed `git add` that left only the branch is reported as a branch "not owned by this intent" |
| | `reconcile_target` of a blank worktree takes a bound thread for the session |
| `SessionLifecycle` | a schedule made after `_reject_schedule_references` lets a scheduled run attach the session that is being deleted |
| | `replace` pops a runtime that another task holds; a refused attach releases the lease both share |
| | the deletion of a closed session that needs a teardown always fails with `ClosedSessionRequiresReactivation` (`core/session_deletion.py:187`; design document, line 1083) |
| | `begin_close` by a stale READY runtime can close the attachment of a newer generation |
| | a crash during attach or close, with a quick restart while the old lease is live, leaves the row in its transitional state until another restart |
| | `OwnerConflict` on `attach_create` leaves the intent in CREATING; `attach_resume` refreshes the binding before it checks its state |
| `SessionSettings` | two calls of `set_mode` or `set_model` both dispatch (`core/session_runtime.py:2824`, `2950`); a drift cannot be repaired by `set_mode` |
| | the agents snapshot stamps a later time than the event of the change, which is then dropped |
| | a remote snapshot writes back the row it read and undoes a confirmation in between (`core/session_runtime.py:2062`) |
| | a late not-steerable event after remote was switched off sets it to unknown (`core/reducer.py:6838`); an agent change confirmed by its event is set to unknown by its own late receipt (`core/reducer.py:6334`) |
| | a late remote event that says only "not steerable" is taken for the target of a pending change to off or export (`core/reducer.py:6838`) |
| `NativeOperations` | a confirmed command, Fleet or task row becomes unknown when its key is called again after a restart (`core/reducer.py:5920`, `6198`, `6245`) |
| | rows left pending by a crash are not reconciled, except those of compactions |
| | two callers of `compact` both pass its check (`core/session_runtime.py:3590`), and the events of one are attributed to the other (`core/reducer.py:6072`): `crossed` |
| | an unresolved compaction blocks readiness (`core/session_runtime.py:2192`), where the design document (line 2568) has it block ordinary submissions only |
| | two calls of `continue_native_command` can both use one selection |
| `RuntimeSchedules` | a create whose invocation was rejected keeps its baseline and, called again, is confirmed with somebody else's schedule (`core/session_runtime.py:4396`) |
| | a schedule row in state unknown blocks readiness and every later attach, and cancelling cannot resolve it |
| `ServiceRestart` | a manager killed after the acknowledgement leaves the process quiesced until another request, more than 60 s later, supersedes the fence |

From reading, not modelled: the cancellation of the control worker
(`ops/control.py:83`) reopens admission under an acknowledged fence it does not
release; recovery sets every pending protocol request to `content_unavailable`
(`core/recovery.py:176`), so that the later update to `unknown` (`274`) matches
nothing; the timer of an interaction that loses against an answer finds the
content discarded and returns the fallback although the row is resolved; a
handler cancelled during the commit of its "requested" receipt leaves a pending
row with a lease and no handler (`core/interactions.py:280`); `close()` of the
request coordinator while a callback's failure is being logged leaves its waiters
without an answer (`discord_requests.py:375`).

### Bounds

All bounds are constants, or fields of the scenes, with comments; each is large
enough for the case its property is about.

- `owner_lease`: three owner ids (a holder, a contender and one that sees both
  tokens), a lease of 4 with a headroom of 3 and a clock to 7, for an expiry, a
  takeover and a second tenure's call.
- `mailbox`: two processes and three calls, for a first submission, a retry or
  join in the same process and a retry in the successor; two or three tokens; the
  reducer may die in the scenes of one key retried and of a process that outlives
  its lease.
- `queue_inbox`: two messages, enough for one to overtake, hold up or be taken
  for the other; two tokens; one trouble out of five.  Two troubles without a
  steer also pass (1,033,634 states).  The inbox has two slots, two events, two
  SDK threads, a failure and a stop.
- `progress`: a one-slot inbox; two troubles and four attempts in the queue,
  which are more than the troubles can use up; the drain is left out, because
  the pump uses an attempt with every poll while it lasts.
- `schedule_runs`: one run of each kind, two attempts, four claims, one crash
  (two crashes pass with 403,807 states); two managers in four scenes of modes,
  callbacks and crashes (a fifth, of a forced and a replayed restart, passes too).
- `plans_worktrees`: three zones (none, gap, fold), expressions of up to two
  times around the change, an interval, one clock jump and one toggle; two
  callers, two process generations, two claims and one fault (two faults pass with
  3,506,473 states of `Worktrees` alone).
- `render_outbox`: a card that shrinks from two messages to one, and two rows of
  one key; one replay, one crash, one failing request of each kind, two attempts.
  Restarts of a render loop that ended by itself do not count as crashes.
- `reactions`: three events after the submission was queued (of the work, one that
  resumes it and one that fails it), two tokens, one fault: a failing request or a
  restart.  Crossed recoveries need no more.
- `session_config`: casts of two tasks, two runtimes in memory, two generations,
  two processes, one fault; two projects, three versions and one command under
  way.
- `session_controls`: two calls, one fault and one drift (two faults pass for the
  agent); two create actions, three calls, two faults, one schedule of the
  session's own, where the two kinds of schedule are interchangeable (symmetry).
- `native_operations`: two keys, two callers, three calls, two faults, one
  compaction of the session's own.

Deadlock is not checked: calls are made once, bounds are reached, and a fenced
runtime with nothing queued is at rest, so each instance really stops.

### Fairness

`progress`, `schedule_runs`, `render_outbox`, `reactions` and `inbox_lost_ack`
use it.  Weak fairness is put on steps the event loop owes: a task whose await is
over is resumed, a ready callback runs, a cancelled task ends, an SDK callback
that has begun finishes, and a transaction or an RPC under `asyncio.timeout` ends
one way or the other.  No fairness is put on new calls, SDK events, lease expiry
(of sessions), renewals, acquisition, stop requests, freezes, or crashes.  The
finite number of SDK events means that a commit cannot be starved by an endless
stream of events that take every freed slot; the code does not exclude this.  In
the queue the pump polls for ever, the runtime answers and ends what it took, and
a pending transition settles; nothing is asked of the user.  Without an answer (a
timeout) a message that was never carried out stays `submitted_unknown` and holds
up the queue, which `QueueDrains` allows.  That a receipt is acknowledged is not
assumed: a receipt the reducer lost has no step, and `EveryCallAnswered` promises an
answer to everybody else, also to those who wait for a worker that is not itself
waiting for such a receipt.  After a takeover a backfilled user
message can hold the queue up as well, until a snapshot settles it, so the queue
of `progress` has one owner.

In `schedule_runs` the worker's loop, the startup, the passing of leases and
delays and the turn of a session are weakly fair; the claim of a run, the pump's
send and the reconciliation of its submission are strongly fair, since another
run or a lock may disable them again and again while the loops that try them
never end.  `RunEnds` excludes behaviours with a crash or a drain.  The control
worker and the managers of a restart are weakly fair as far as their own next
step goes; a manager may be killed, and `FenceEnds` then promises nothing.  The
outbox's dispatcher and the restart after a crash are weakly fair (`Empties`);
the reactions need the dispatcher and the end of a recovery that the queue has begun
(`OutcomeShown`).

## Proofs

Each component has an inductive invariant, a conjunction of named parts: `IInv`, or,
where a proof module holds a second or a third component, `ReactionInv`, `RunsInv`,
`PlansInv`, `ScheduleInv` and `CreationInv`.  That the initial states satisfy it and
that every step keeps it is proved action by action, and the theorems about the
properties follow.  They hold for every value of the constants that satisfies the
component's named assumption.

**`LeaseReactionsProofs`**, lease (`TimingAssumption`), proves type correctness,
`CallOwnsSession`, `ExclusiveCall`, `FenceNamesOneOwner` and
`TakeoverOnlyAfterExpiry`.  That a call owns the session depends on what the row
was when its check passed and on what others may do since, so the invariant has

- `ClockInv`, `StampInv`: timestamps of calls lie in the past, and a lease never
  reaches further than a TTL from a timestamp read;
- `TokenInv`: held tokens are at most the row's, and a token held by a process
  is the row's only if the row names that process;
- `ModeInv`: what mode, held token and calls have to do with each other;
- `CallInv`: for a call that passed its check, the row is still the caller's
  tenure and its expiry is at least the check's time plus the headroom.

After the check the row can only be changed by its owner's renewal, which does not
shorten it below the headroom, or by an acquisition with a timestamp at or after
the expiry.  Lemma `CallOutlived` shows that the deadlines keep the clock below
that expiry as long as the call lasts.

**`OperationMailboxProofs`** proves type correctness, `AtMostOnceDispatch`,
`OutcomesAreFacts`, that a settled row stays settled, and `ImplementsLedger`: the
mailbox refines `OperationLedger`.  The parts say which token the lease, the
binding and each process hold (`TokenInv`, `IdleInv`, `LockInv`), who holds a key
(`KeyInv`, `HostInv`, `AloneInv`), what the journal and the pending receipts say of
it (`JournalInv`, `ReceiptInv`, `FreshInv`), what a caller is told (`AnswerInv`),
and how far its worker is (`StageInv`, `FactInv`).  The binding's token is the
newest owner's, so only that process journals *started* for a key, and only it
passes the fence check between that receipt and the call.  Lemma `Sole`: where
no rival submits the same key, one process holds it, so a row is settled by the
one who knows.  `StepRefines` maps each step to a step of the ledger or a stutter:
`BeginCommit` opens, `ReceiptCommit` starts or settles, `Dispatch` sends,
`RpcReturns`, `CancelWorker` and `Crash` let the runtime have run it, `Defer` and
`StopItem` reject, and `Acquire`, `StartupRecovery` and `StopSettles` orphan.

**`SubmissionQueueProofs`** (`QueueAssumption`) proves `AtMostOnce`,
`OutcomesAreFacts`, `RowsAgree` and `PumpOrder`, for any number of messages, steers,
attempts, tokens and troubles.  The argument turns on `source_operation_id`.
`KeyInv`: the key of a dispatch is in one mailbox or with one worker, and the
dispatcher it belongs to waits for it.  `SrcInv`: the key in a row is that of a
claim that was made.  `StageInv`: a worker that got past reading the claim back has
its key in the row, and `SentInv`: what was sent was sent under that key and its
worker will not send again.  Only a requeue takes a key out of a row; it needs the
worker of that key, before the send, so nothing was sent when a second claim is
made, by whichever runtime.  For the outcomes, `OpInv` (a rejected operation is over
and did nothing) and `OutInv` (a dispatcher is told what the operation's row says)
give `RejectedInv`.  For the prompts, a message is `Closed` when nobody is left who
could queue it again, and `ContentInv` says that a prompt is discarded only then;
this needs that a row in doubt was not claimed by a former runtime (`HandInv`).
`PumpInv` says that the rows before the one the pump serves stay out of the way
while it holds the lock, which gives the order and, without steers, that a claim
never finds the halves of a row apart.  Lemmas `SourceKept` and `Onward` prove the
parts for every step described by a few facts (what it may do to a row, a desk, a
key); each action is then shown to be such a step.

**`ScheduleRestartProofs`**, restart (`RestartAssumption`), proves type correctness,
`HandoffSafe` and `NormalIsIdle`.  Besides the shape of the rows (`ShapeInv`,
`GenInv`, `OneInv`, `TxnInv`) the parts say: the fence a process holds as
acknowledged, prepared or committed is its active one and it observes it
(`PhaseInv`, `HeldInv`); a callback counted after the numbers were read shows in
the producers, so that the compare-and-set fails, or in the violations after it
(`CountInv`); a callback that was lost leaves a violation, a pending file or a
marker that outlives its process (`LossInv`); so a fence adopted as clean lost
nothing (`CleanInv`).  For `NormalIsIdle`, `SnapshotInv`: while the journal has not
moved since the snapshot, the blocking work has not either.  The proof also shows
that the branch of `LookAgain` that finds an irreversible fence is not reached.

**`NativeOperationsProofs`** (`NativeAssumption`) proves type correctness,
`SentOnce`, `RecordsTrue`, `CompactionFinal` (for finite `Keys`) and
`SubmissionKept`.  `MailInv` and `TryInv`: the mailbox has an open key once, and a
key is sent from its head and only while it is untried.  `Dead` says that a key had
no effect and none is to come; `OutcomeInv`, `EventInv`, `CallInv` and `RowInv` say
that whoever repeats an outcome (a caller, an event, a row) repeats a true one,
except for a row that the event of another compaction settled.  `LeaseInv`:
a Fleet submission that lives has the lease, through idle events, late tasks and
settlements; unknown receipts are written only for keys that are not kept, so a run
that is kept does not keep the session's lease through one.  `SubmissionInv`: the journal drops the
confirmation it already has, so a replay does not overwrite the submission.
`CompactionFinal` needs that the newest unresolved row exists.

**`SessionProofs`**, configuration (no assumption), proves `ConfigIsTrue`.  `LogInv`: the log
of all versions has each project as it is and knows no later version of it, so a
new version is new.  `ReaderInv`: if the project of a reader is still active and
still has the version the reader saw, what was read so far is what the tables
say.  It is inductive because every change of a table makes a new version and a
retired project is never active again; a project bound in between therefore fails
the reader's last check.  `ActiveInv`: a channel has one project.  An intent under way
holds its project against `bind` and `unbind`, unless it was reserved again after the
project went.

**`SessionProofs`**, runtime schedules (`SchedulesAssumption`), proves `ScheduleIsTrue`,
`RegistryTrue` and `FinalStays`, for any number of schedules, create actions, calls and
faults.  `RegistryInv`: every difference between the registry and the runtime is an event
under way, or was lost with a process and is found by the snapshot of the next attach
(`RowOK`); a listing is true of the runtime up to what its events tell, or is not fresh
and will not be used (`ListOK`), or it is older than a schedule whose request for another
snapshot is still under way, and can only put that schedule in doubt.  `EventsInOrder`: the first event of a schedule says that
it was made, so an end never comes before its row.  `CreateInv`: one create is under way
at a time (`CallOK`), and when it takes its baseline every schedule that another action
made has a row, so it is in the baseline or has ended (`BaseOK`); what is new afterwards
is therefore the action's own.  Without the part on foreign schedules the confirmation
would not follow: a baseline is only as good as the listing it was taken from.

**`SessionProofs`**, lifecycle (no assumption), proves `OneSession` and `DeletedForGood`,
for every cast of tasks and any number of runtimes, generations, processes and faults.
`AskInv`: whoever is to ask the SDK for the session is alone, nobody asked before, and the
intent has said so first (`creating`), which is why a repeated delivery, a crash or a lost
answer does not lead to a second request.  `StepInv`: the step the creation has come to
agrees with what the intent says of the thread.  `GoneInv`: without a session nothing of it
is there (no handle, no attached row, no deletion under way), and a session recorded as
deleted is gone.  Most steps are *calm*: they leave the intent, the SDK and the histories
alone and make no runtime ask and no deleted row return; lemma `CalmKeeps` proves the
invariant for all of them.  The creation's own steps, the entry of its attach, the attach
RPC and the delete RPC are proved one by one.

**`PlansWorktreesProofs`**, worktrees (no assumption), proves `GitOnce`, `DirectoryTrue` and
`NoReturn` (an intent whose target is being made, or that is taken down, never
returns to an earlier stage), for any number of callers, generations, claims and
faults.  `FenceInv`: a fence and the git process behind its gate belong to one
caller, and an add that runs belongs to the last claim, whose caller waits for it or
is gone; nobody else may settle that claim, so the intent stays in `git_creating`.
`TaskInv`: what a caller listed is still the past of the intent, and what it has
seen on its way (a project, a session, the beginning of the end) is still true,
because no step takes it back (`Forward`).  `MakeInv`: one caller makes the target,
and a fork that is being made has not been made yet.  `RowInv` ties the stage of the
intent to the project, the directory and the session; `DirectoryTrue` alone is not
inductive, since a late caller could still open a session or register the project of
a worktree that is being removed.  It cannot, because a worktree without a project
is compensated only after its parent stopped for good, and one with a project in use
only after its fork was refused.

**`PlansWorktreesProofs`**, plans (`PlansAssumption`), proves `NextIsFirst` and
`RunsCoverPlan`, for every zone with one change of its offset, every set of expressions,
intervals and graces and any clock.  The searches of `schedule_time.py` are proved against
the reference definition: `CronNextIsFirst` and `CronPreviousIsLatest` for cron
expressions, `NextAfterIsFirst` and `LatestDueIsLatest` for all kinds.  Wall time runs
back only over the change of the offset, and by the length of the fold, which is what
`_overlap_window` returns inside it; so every wall that ends the search lies at or after
that of the first occurrence, and the candidates at hand then include it.  `PlansInv` adds
to `NextIsFirst` that the runs made are occurrences and that, under the policy *latest*, no
occurrence between the creation and the next run is without a run for it or for a later
one.

**`ReducerInboxProofs`** (`InboxAssumption`) proves type correctness,
`ReceiptsAccounted`, `CommitHonest` and `SdkOrder`, for any capacity, batch size and
number of producers.  `Slots`: every slot in use has one holder, a scheduled put, an
envelope of the queue or of the batch, or a producer that has reserved and not put.
`Order`: journal, batch, queue and scheduled puts form one line in which no number
stands twice and the numbers of SDK events increase.  `Holders`: the number a producer
has reserved is yet to enter that line and comes after all of it, which is where the
lock of `SdkEventIngress` is needed (`Locks`).  `InFlight`: an envelope in the line
carries the number of its sender, which has no answer yet.  `NothingVanishes`: the
numbers handed out are journaled, incidents, lost or outstanding.  `Reports`: a caller
told of success has its number in the journal, and one told of failure has not, and
the reducer is dead, so it will not get there.

**`LeaseReactionsProofs`**, reactions (`ReactionsAssumption`: no event of the work
asks for success), proves `ReactionIsTrue`.  `ReactionInv` says what the row of the
reaction hides (`RowOK`): a shutdown or render failure hides a state and a resume
that may be another such failure, to any depth, so the invariant asks for a set of
resumes closed under what its members hide, in which every hidden success is one of a
submission that was complete.  `SentInv`: what is recorded as delivered is on the
message, and so is an outcome recorded as sent, or about to be without a delivery, as
long as no recovery of the queue is at work or has crossed another.  Recoveries write
what they read earlier, so the invariant says of every payload read or queued that the
row can only have moved on (`PastInv`), whose owner it names (`FenceInv`), and that one
found not to be current does not become current again (`StaleInv`).  `HandInv`: every
change of a payload gives the outbox row a new revision, so the item in the dispatcher's
hand is the row's, or the row has been revised since and will not be marked as sent.  `LaneInv`: the admission's emoji is
out of the way before the submission's is delivered, so removing it never removes
the reaction.

**`ScheduleRestartProofs`**, runs (`ScheduleAssumption`), proves type correctness,
`PromptOnce`, `SettledAnnounced` and `OutcomeIsFinal` for any number of runs,
attempts, claims and crashes.  Beyond the types, `RunsInv` says of each run (`RunOK`):
a submission that is not queued yet, or queued again, was not sent and the pump does
not have it, so a send comes from the one claim of the queued row; a run announced as
cancelled has both its rows cancelled, so nobody claims it, and a worker that arrives
late finds no row to take over; a run that ended without an announcement has an
unknown end and the process that will announce it is not up yet; nobody holds a run
that completed, was blocked or was cancelled, and the worker that may still believe it
holds one does not have it in hand.  The last two make `OutcomeIsFinal` hold: `enqueue`
takes over an earlier row without looking at the run's status, and would otherwise
reopen a run that is over.  The lemmas `RowStep`, `EndOfTick`, `InHand` and `AllRuns`
carry the invariant over a step on the tables, one that ends the worker's tick, one
that keeps a run in its hand and one that touches every run; each action is shown to
be such a step.

What is only model-checked, and why:

- liveness (`EveryCallAnswered`, `EveryCommitAnswered`, `QueueDrains`, `RunEnds`,
  `FenceEnds`, `Empties`, `OutcomeShown`): fairness and `ENABLED` are outside what
  the prover handles;
- `NoDuplicate` and `ThreadIsTrue` of `RenderOutbox`: claims, checkpoints and the thread
  are filtered and sorted sequences (`SelectSeq`, `SetToSortSeq`), what is known of them is
  known by induction over the sequence, which the prover cannot do;
- `OneHandle` of `SessionLifecycle`: it is checked for casts of two tasks.  A runtime that
  the registry gave up may be in the hands of one task while the other two work with its
  successors; whether it holds for casts of three is open, so nothing is claimed for them;
- `SettingsTrue` of `SessionSettings`: its exceptions are histories, and an inductive
  invariant has to say for each of the four settings what every order of receipts, late
  effects, events and snapshots leaves behind.  TLC checks it with two callers for each
  setting and, apart from the run, with three for mode, model and remote access.

## Plan

In this order:

1. Proofs for `SessionSettings` and, with the posted messages as a set instead of a
   sequence, for `RenderOutbox`; `OneHandle` with casts of three tasks.
2. An abstract specification of the submission queue.
3. Interactions and protocol responses; the request coordinator and the limiter
   of the Discord side; attachments.

## Not modelled

Text layout (`render/markdown.py`, `render/tables.py`, `render/sanitizer.py`),
configuration, command line, logging, probes and test harnesses, and the
operating system's service managers: they are pure or belong to systems outside
this code.  Interactions, protocol responses, hooks, attachments, extensions, the
request coordinator and the HTTP limiter of the Discord side, and the gateway lock
have state of their own and are left for later; `PROJECT.json` says of each
component how far it is covered.  SQLite transactions are taken as atomic and
isolated.
