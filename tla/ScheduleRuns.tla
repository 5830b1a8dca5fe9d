----------------------------- MODULE ScheduleRuns -----------------------------
(***************************************************************************)
(* The life of a schedule run: a row of schedule_runs that workers claim   *)
(* under a lease and a fence, dispatch as a row of the session's message   *)
(* queue, and that the event reducer, the startup recovery and a forced    *)
(* restart settle (core/scheduler.py, the schedule parts of                *)
(* core/reducer.py, core/recovery.py and core/session_runtime.py).         *)
(*                                                                         *)
(* A lease or a retry delay is live until the environment lets it run out, *)
(* which it may at any moment: a process may be suspended for longer than  *)
(* the 60 s of a lease.  The submission of a run has an id computed from   *)
(* the run, so a run has at most one row in each of the two tables.        *)
(***************************************************************************)
EXTENDS Naturals, FiniteSets

CONSTANTS
  Runs,          \* schedule runs
  MaxAttempts,   \* SCHEDULE_MAX_ATTEMPTS
  MaxFence,      \* bound on the claims of a run
  MaxCrashes,    \* bound on process crashes
  Restarts       \* whether an operator asks for restarts

ASSUME ScheduleAssumption ==
  /\ MaxAttempts \in Nat \ {0} /\ MaxFence \in Nat /\ MaxCrashes \in Nat
  /\ Restarts \in BOOLEAN

VARIABLES
  run,      \* the rows of schedule_runs
  queue,    \* state of the run's row in message_queue
  sub,      \* state of the run's row in submissions
  seen,     \* evidence of the submission: an accepted message id, an observed user event
  content,  \* the queued prompt is in the volatile content store
  made,     \* the run's session_creation_intent has its thread
  pump,     \* what the session runtime does with the submission: idle, claimed, sent
  worker,   \* where the process's scheduler worker is in its tick
  sched,    \* scheduler_state.worker_state: recovered or running, or draining
  admin,    \* where the operator's prepare_restart is
  intent,   \* restart_intents: none, or prepared with or without force
  sends,    \* history: prompts handed to the runtime, per run
  deaths    \* crashes so far

rows == <<run, queue, sub, seen>>
runVars == <<run, queue, sub, seen, content, made, pump, worker, sched, admin, intent, sends, deaths>>
-----------------------------------------------------------------------------
Unknown == {"outcome_unknown", "target_unknown", "dispatch_unknown"}
Terminal == {"semantic_complete", "blocked", "failed", "cancelled"} \cup Unknown
Active == {"claimed", "submitting", "accepted", "waiting"}
Status == {"planned", "pending", "retry_wait"} \cup Active \cup Terminal

\* Submissions whose outcome is still open: they hold a liveness lease.
Open == {"submitting", "submitted", "submitted_unknown", "observed_active"}
Settled == {"semantic_complete", "semantic_blocked", "rejected", "outcome_unknown", "cancelled"}
SubState == {"none", "local_queued"} \cup Open \cup Settled
QueueState == {"none", "local_queued", "submitting", "submitted", "submitted_unknown", "rejected",
               "outcome_unknown", "failed", "cancelled", "content_unavailable"}

NewRun(kind, backed) == [kind |-> kind, backed |-> backed, status |-> "planned",
           attempt |-> 0, fence |-> 0, owner |-> FALSE, lease |-> "none",
           target |-> FALSE, create |-> FALSE, thread |-> FALSE, queued |-> FALSE, send |-> FALSE,
           accepted |-> FALSE, due |-> FALSE, intent |-> FALSE, told |-> "none",
           idle |-> FALSE, temp |-> "no"]

\* The classes of SchedulerDispatchError, as its flags are tried in turn.
Errors == {"target_unknown", "dispatch_unknown", "blocked", "permanent", "retryable"}

\* A run of a new_session schedule, of a message schedule, and of a message schedule whose
\* session is closed and is attached for the run only.  The prompt of a backed run can be
\* read again from Discord.
Kinds == {"new_session", "message", "closed"}
IsNew(r) == run[r].kind = "new_session"

\* The gateway lock lets one process live at a time; its sessions are attached after startup.
Serving == worker.at \notin {"down", "inventoried"}
Idle == [at |-> "idle"]
Down == [at |-> "down"]

RunsInit ==
  /\ run \in [Runs -> {NewRun(kind, backed) : kind \in Kinds, backed \in BOOLEAN}]
  /\ queue = [r \in Runs |-> "none"] /\ sub = [r \in Runs |-> "none"]
  /\ seen = [r \in Runs |-> {}] /\ content = [r \in Runs |-> FALSE]
  /\ made = [r \in Runs |-> FALSE] /\ pump = [r \in Runs |-> "idle"]
  /\ worker = Down
  /\ sched = "recovered" /\ admin = [at |-> "idle"] /\ intent = "none"
  /\ sends = [r \in Runs |-> 0] /\ deaths = 0

Free(x) == [x EXCEPT !.owner = FALSE, !.lease = "none"]
Mine(r) == run[r].owner /\ run[r].fence = worker.fence
HasRow(q) == q \notin {"none", "cancelled", "failed"}
Return == worker' = Idle
-----------------------------------------------------------------------------
(***************************************************************************)
(* Settling a run.  Both finalizers queue one announcement per run: told   *)
(* is the status of scheduler_render_intents.                              *)
(***************************************************************************)
\* _finalize_in_transaction of the scheduler
Finalized(x, status) ==
  IF x.status \in Terminal /\ x.intent THEN x
  ELSE [Free(x) EXCEPT !.status = status, !.told = status, !.intent = TRUE]

\* Deviation: no announcement is queued.
FinalizedSilently(x, status, idle) == [Free(x) EXCEPT !.status = status, !.idle = idle]

\* _finalize_schedule_run_from_reducer: it looks at no lease
FinalizedByReducer(x, status, idle) ==
  IF x.intent /\ x.status # "accepted" THEN x
  ELSE [Free(x) EXCEPT !.status = status, !.told = status, !.intent = TRUE, !.idle = idle]

\* The state an error puts a run into.
AfterError(error, attempt) ==
  CASE error \in Unknown \cup {"blocked"} -> error
    [] error = "permanent" \/ attempt >= MaxAttempts -> "failed"
    [] OTHER -> "retry_wait"

Waiting(x) == [Free(x) EXCEPT !.status = "retry_wait", !.due = FALSE]
-----------------------------------------------------------------------------
(***************************************************************************)
(* Planning, claiming and dispatching                                      *)
(***************************************************************************)
\* The planner's insertion of a run, or run_now's.
Plan(r) ==
  /\ run[r].status = "planned" /\ sched # "draining"
  /\ run' = [run EXCEPT ![r].status = "pending"]
  /\ UNCHANGED <<queue, sub, seen, content, made, pump, worker, sched, admin, intent, sends, deaths>>

\* Deviation: a run whose retry is due is not found.
ClaimablePending(r) ==
  \/ run[r].status = "pending"
  \/ run[r].status = "claimed" /\ run[r].lease # "live" /\ ~run[r].target /\ ~run[r].send

Claimable(r) ==
  LET x == run[r] IN
  \/ x.status = "pending"
  \/ x.status = "retry_wait" /\ x.due
  \/ x.status = "claimed" /\ x.lease # "live" /\ ~x.target /\ ~x.send
  \/ x.status = "submitting" /\ x.lease # "live" /\ ~x.send /\ ~HasRow(queue[r])

claim_next(r) ==
  LET x == run[r]
      attempt == IF x.status = "claimed" THEN x.attempt ELSE x.attempt + 1
  IN /\ worker.at = "idle" /\ sched # "draining" /\ Claimable(r) /\ x.fence < MaxFence
     /\ IF attempt > MaxAttempts
        THEN /\ run' = [run EXCEPT ![r] = Finalized(x, "failed")]
             /\ UNCHANGED worker
        ELSE /\ run' = [run EXCEPT ![r] = [x EXCEPT !.status = "claimed", !.owner = TRUE,
                           !.lease = "live", !.fence = @ + 1, !.attempt = attempt, !.due = FALSE]]
             /\ worker' = [at |-> "claimed", run |-> r,
                           fence |-> x.fence + 1, attempt |-> attempt]
     /\ UNCHANGED <<queue, sub, seen, content, made, pump, sched, admin, intent, sends, deaths>>

\* A lost fence raises out of the tick: the worker goes on with its next tick.
mark_target_started ==
  LET r == worker.run IN
  /\ worker.at = "claimed"
  /\ IF Mine(r) /\ run[r].status = "claimed"
     THEN /\ run' = [run EXCEPT ![r].status = "submitting", ![r].target = TRUE,
                                ![r].create = @ \/ IsNew(r)]
          /\ worker' = [worker EXCEPT !.at = "target"]
     ELSE Return /\ UNCHANGED run
  /\ UNCHANGED <<queue, sub, seen, content, made, pump, sched, admin, intent, sends, deaths>>

\* The creation service makes the thread while the worker waits for its target.
CreateThread ==
  /\ worker.at = "target" /\ IsNew(worker.run) /\ ~made[worker.run]
  /\ made' = [made EXCEPT ![worker.run] = TRUE]
  /\ UNCHANGED <<rows, content, pump, worker, sched, admin, intent, sends, deaths>>

\* The adapter returned a target: record_target.
record_target ==
  LET r == worker.run IN
  /\ worker.at = "target" /\ (IsNew(r) => made[r])
  /\ Mine(r) /\ run[r].status \in {"claimed", "submitting"}
  /\ run' = [run EXCEPT ![r].thread = TRUE,
               ![r].temp = IF run[r].kind = "closed" /\ @ = "no" THEN "held" ELSE @]
  /\ worker' = [worker EXCEPT !.at = "recorded"]
  /\ UNCHANGED <<queue, sub, seen, content, made, pump, sched, admin, intent, sends, deaths>>

\* Deviation: every attempt inserts a submission of its own.
FreshSubmission(r) == FALSE

\* An insertion finds the row of an earlier submission of the run and fails.
Duplicate(r) == sub[r] # "none"

\* enqueue: an earlier row that is not settled is taken over, whoever holds the run.
enqueue ==
  LET r == worker.run
      existing == queue[r] \notin {"none", "cancelled", "submitted", "failed"}
  IN /\ worker.at = "recorded" /\ sched # "draining"
     /\ \/ /\ existing
           /\ run' = [run EXCEPT ![r] = [Free(@) EXCEPT !.status = "submitting", !.queued = TRUE]]
           /\ content' = [content EXCEPT ![r] = TRUE]
           /\ UNCHANGED <<queue, sub>>
        \/ /\ ~existing /\ Mine(r) /\ run[r].status \in {"claimed", "submitting"}
           /\ ~Duplicate(r)
           /\ run' = [run EXCEPT ![r] = [Free(@) EXCEPT !.status = "submitting", !.queued = TRUE,
                                                       !.thread = TRUE]]
           /\ queue' = [queue EXCEPT ![r] = "local_queued"]
           /\ sub' = [sub EXCEPT ![r] = "local_queued"]
           /\ content' = [content EXCEPT ![r] = TRUE]
     /\ Return
     /\ UNCHANGED <<seen, made, pump, sched, admin, intent, sends, deaths>>

\* Whatever fails between the claim and the insertion, retry_or_fail settles it: the run
\* must still carry the worker's lease and fence, and its status is not looked at.
retry_or_fail ==
  LET r == worker.run IN
  /\ worker.at \in {"target", "recorded"}
  /\ \E error \in Errors :
       LET next == AfterError(error, worker.attempt) IN
       run' = IF ~Mine(r) THEN run
              ELSE IF next # "retry_wait" THEN [run EXCEPT ![r] = Finalized(@, next)]
              ELSE IF run[r].send THEN run
              ELSE [run EXCEPT ![r] = Waiting(@)]
  /\ Return
  /\ UNCHANGED <<queue, sub, seen, content, made, pump, sched, admin, intent, sends, deaths>>

\* transition_queued_submission_error, called with the worker's fence or without one:
\* a terminal run, a live lease of somebody else and a started send are left alone.
QueuedError(r, error, fenced, lost) ==
  LET x == run[r]
      next == AfterError(error, x.attempt)
      ready == /\ x.status \notin Terminal /\ ~x.send
               /\ IF fenced THEN TRUE ELSE ~x.owner \/ x.lease # "live"
  IN CASE ready /\ next = "retry_wait" /\ x.status \in {"claimed", "submitting", "retry_wait"} ->
            run' = [run EXCEPT ![r] = Waiting(x)] /\ UNCHANGED <<queue, sub>>
       [] ready /\ next # "retry_wait" ->
            /\ run' = [run EXCEPT ![r] = Finalized(x, next)]
            /\ queue' = [queue EXCEPT ![r] =
                 IF @ \in {"none", "submitted", "cancelled", "failed", "content_unavailable"} THEN @
                 ELSE IF lost THEN "content_unavailable" ELSE "failed"]
            /\ sub' = [sub EXCEPT ![r] = IF @ = "local_queued" THEN "rejected" ELSE @]
       [] OTHER -> UNCHANGED <<run, queue, sub>>

\* The prompt of a source-backed run cannot be read at dispatch.
source_failed ==
  LET r == worker.run IN
  /\ worker.at = "recorded" /\ run[r].backed
  /\ \E error \in {"blocked", "permanent", "retryable"} :
       IF Mine(r) THEN QueuedError(r, error, TRUE, TRUE) ELSE UNCHANGED <<run, queue, sub>>
  /\ Return
  /\ UNCHANGED <<seen, content, made, pump, sched, admin, intent, sends, deaths>>

\* queued_runs_for_redrive: rows in the queue whose claim ran out lose it, and a row that
\* the session's own pump will not take (closed session, lost prompt) is taken up.
Queued(r) == queue[r] = "local_queued" /\ sub[r] = "local_queued" /\ ~run[r].send

redrive(r) ==
  LET x == run[r]
      stale == x.status \in {"claimed", "submitting"} /\ x.owner /\ x.lease # "live"
      y == IF stale THEN [Free(x) EXCEPT !.status = "submitting"] ELSE x
  IN /\ worker.at = "idle" /\ sched # "draining" /\ Queued(r)
     /\ y.status = "submitting" /\ y.lease # "live"
     /\ (run[r].kind = "closed" \/ (run[r].backed /\ ~content[r]))
     /\ run' = [run EXCEPT ![r] = y]
     /\ worker' = [at |-> "redrive", run |-> r]
     /\ UNCHANGED <<queue, sub, seen, content, made, pump, sched, admin, intent, sends, deaths>>

\* The redrive ends: the prompt is back and the session attached, or an error settles the run.
redrive_done ==
  LET r == worker.run IN
  /\ worker.at = "redrive"
  /\ \/ /\ content' = [content EXCEPT ![r] = @ \/ (run[r].backed /\ Queued(r))]
        /\ UNCHANGED <<run, queue, sub>>
     \/ /\ \E error \in Errors, lost \in {run[r].backed, FALSE} :
             QueuedError(r, error, FALSE, lost)
        /\ UNCHANGED content
  /\ Return
  /\ UNCHANGED <<seen, made, pump, sched, admin, intent, sends, deaths>>

\* reconcile_submissions: the run follows the submission it queued.
FromSubmission ==
  [semantic_complete |-> "semantic_complete", semantic_blocked |-> "blocked", rejected |-> "failed",
   submitted_unknown |-> "outcome_unknown", outcome_unknown |-> "outcome_unknown"]

reconcile_submissions(r) ==
  LET x == run[r] IN
  /\ worker.at = "idle" /\ sched # "draining"
  /\ x.status \in {"submitting", "accepted", "waiting"} /\ x.queued
  /\ run' = [run EXCEPT ![r] =
       IF sub[r] \in DOMAIN FromSubmission THEN Finalized(x, FromSubmission[sub[r]])
       ELSE IF sub[r] = "submitted" THEN [x EXCEPT !.status = "accepted", !.accepted = @ \/ "accepted" \in seen[r]]
       ELSE IF sub[r] = "observed_active" THEN [x EXCEPT !.status = "waiting", !.accepted = @ \/ "accepted" \in seen[r]]
       ELSE x]
  /\ run' # run
  /\ UNCHANGED <<queue, sub, seen, content, made, pump, worker, sched, admin, intent, sends, deaths>>

\* _release_temporary_targets: a closed session attached for the run goes back to closed.
release_temporary(r) ==
  /\ worker.at = "idle" /\ run[r].temp = "held" /\ run[r].intent
  /\ run[r].status \in {"semantic_complete", "blocked", "failed", "cancelled"}
  /\ run' = [run EXCEPT ![r].temp = "released"]
  /\ UNCHANGED <<queue, sub, seen, content, made, pump, worker, sched, admin, intent, sends, deaths>>
-----------------------------------------------------------------------------
(***************************************************************************)
(* The session runtime and its reducer                                     *)
(***************************************************************************)
\* copilotd.submission.submitting: the pump owns the head of the queue.  Only a claimed or
\* submitting run is marked as being sent.
PumpClaim(r) ==
  /\ pump[r] = "idle" /\ queue[r] = "local_queued" /\ sub[r] = "local_queued" /\ content[r]
  /\ sched # "draining"
  /\ sub' = [sub EXCEPT ![r] = "submitting"] /\ queue' = [queue EXCEPT ![r] = "submitting"]
  /\ pump' = [pump EXCEPT ![r] = "claimed"]
  /\ run' = [run EXCEPT ![r] =
       IF @.queued /\ @.status \in {"claimed", "submitting"}
       THEN [@ EXCEPT !.status = "submitting", !.send = TRUE] ELSE @]
  /\ UNCHANGED <<seen, content, made, worker, sched, admin, intent, sends, deaths>>

\* copilotd.submission.pre_send_deferred
PumpDefer(r) ==
  /\ pump[r] = "claimed" /\ sub[r] = "submitting" /\ seen[r] = {}
  /\ pump' = [pump EXCEPT ![r] = "idle"]
  /\ sub' = [sub EXCEPT ![r] = "local_queued"]
  /\ queue' = [queue EXCEPT ![r] = IF @ = "submitting" THEN "local_queued" ELSE @]
  /\ run' = [run EXCEPT ![r].send = IF run[r].status = "submitting" /\ ~run[r].accepted
                                    THEN FALSE ELSE @]
  /\ UNCHANGED <<seen, content, made, worker, sched, admin, intent, sends, deaths>>

PumpSend(r) ==
  /\ pump[r] = "claimed"
  /\ pump' = [pump EXCEPT ![r] = "sent"] /\ sends' = [sends EXCEPT ![r] = @ + 1]
  /\ UNCHANGED <<rows, content, made, worker, sched, admin, intent, deaths>>

\* copilotd.submission.accepted
Accepted(r) ==
  /\ pump[r] = "sent" /\ sub[r] # "rejected"
  /\ pump' = [pump EXCEPT ![r] = "idle"] /\ seen' = [seen EXCEPT ![r] = @ \cup {"accepted"}]
  /\ sub' = [sub EXCEPT ![r] = IF @ \in {"submitting", "submitted_unknown"} THEN "submitted" ELSE @]
  /\ queue' = [queue EXCEPT ![r] = IF @ \in {"submitting", "submitted_unknown"} THEN "submitted" ELSE @]
  /\ run' = [run EXCEPT ![r] =
       IF @.queued /\ @.status \in {"claimed", "submitting", "accepted"}
       THEN [@ EXCEPT !.status = "accepted", !.accepted = TRUE] ELSE @]
  /\ UNCHANGED <<content, made, worker, sched, admin, intent, sends, deaths>>

\* copilotd.submission.acceptance_unknown
AcceptanceUnknown(r) ==
  /\ pump[r] = "sent"
  /\ pump' = [pump EXCEPT ![r] = "idle"]
  /\ sub' = [sub EXCEPT ![r] = IF @ = "rejected" \/ seen[r] # {} THEN @ ELSE "submitted_unknown"]
  /\ queue' = [queue EXCEPT ![r] = IF @ # "submitting" THEN @
                                   ELSE IF seen[r] # {} THEN "submitted" ELSE "submitted_unknown"]
  /\ run' = [run EXCEPT ![r] =
       IF ~@.queued THEN @
       ELSE IF ~@.accepted /\ seen[r] = {} THEN FinalizedByReducer(@, "dispatch_unknown", FALSE)
       ELSE IF @.status \in {"submitting", "accepted", "waiting"} /\ seen[r] # {}
       THEN [@ EXCEPT !.status = "waiting"] ELSE @]
  /\ UNCHANGED <<seen, content, made, worker, sched, admin, intent, sends, deaths>>

\* copilotd.submission.rejected: the runtime refused the prompt before it took it.
Rejected(r) ==
  /\ pump[r] = "claimed" /\ sub[r] # "rejected" /\ seen[r] = {}
  /\ pump' = [pump EXCEPT ![r] = "idle"]
  /\ sub' = [sub EXCEPT ![r] = "rejected"]
  /\ queue' = [queue EXCEPT ![r] =
       IF @ \in {"local_queued", "submitting", "submitted", "submitted_unknown"} THEN "rejected" ELSE @]
  /\ run' = [run EXCEPT ![r] = IF @.queued THEN FinalizedByReducer(@, "failed", FALSE) ELSE @]
  /\ UNCHANGED <<seen, content, made, worker, sched, admin, intent, sends, deaths>>

\* The user event, then the end of the turn.
Observed(r) ==
  /\ "observed" \notin seen[r]
  /\ sub[r] = "submitted" \/ (sub[r] = "submitting" /\ pump[r] = "sent")
  /\ sub' = [sub EXCEPT ![r] = "observed_active"]
  /\ seen' = [seen EXCEPT ![r] = @ \cup {"observed"}]
  /\ UNCHANGED <<run, queue, content, made, pump, worker, sched, admin, intent, sends, deaths>>

Completed(r) ==
  /\ sub[r] = "observed_active"
  /\ \E outcome \in {"semantic_complete", "semantic_blocked"} : sub' = [sub EXCEPT ![r] = outcome]
  /\ UNCHANGED <<run, queue, seen, content, made, pump, worker, sched, admin, intent, sends, deaths>>

\* session.idle without a user event for a submission: nobody will ever observe it...
IdleUncorrelated(r) ==
  /\ sub[r] \in {"submitting", "submitted", "submitted_unknown"} /\ pump[r] # "claimed"
  /\ "observed" \notin seen[r]
  /\ sub' = [sub EXCEPT ![r] = "outcome_unknown"]
  /\ queue' = [queue EXCEPT ![r] =
       IF @ \in {"submitting", "submitted", "submitted_unknown"} THEN "outcome_unknown" ELSE @]
  /\ run' = [run EXCEPT ![r] = FinalizedByReducer(@, "outcome_unknown", TRUE)]
  /\ UNCHANGED <<seen, content, made, pump, worker, sched, admin, intent, sends, deaths>>

\* ... unless the event comes late: the run is taken up again, its announcement rewritten.
LateCorrelation(r) ==
  /\ sub[r] = "outcome_unknown" /\ seen[r] = {"accepted"}
  /\ sub' = [sub EXCEPT ![r] = "observed_active"] /\ seen' = [seen EXCEPT ![r] = @ \cup {"observed"}]
  /\ queue' = [queue EXCEPT ![r] = IF @ = "outcome_unknown" THEN "submitted" ELSE @]
  /\ run' = [run EXCEPT ![r] =
       IF @.queued /\ @.status = "outcome_unknown" /\ @.idle
       THEN [@ EXCEPT !.status = "accepted", !.told = "accepted", !.idle = FALSE] ELSE @]
  /\ UNCHANGED <<content, made, pump, worker, sched, admin, intent, sends, deaths>>

\* copilotd.submission.active_unknown: the runtime of the session is torn down by force.
ActiveUnknown(r) ==
  /\ sub[r] \in Open /\ pump[r] # "claimed"
  /\ sub' = [sub EXCEPT ![r] = "outcome_unknown"]
  /\ run' = [run EXCEPT ![r] = IF @.queued /\ @.status \in {"submitting", "accepted", "waiting"}
                               THEN FinalizedByReducer(@, "outcome_unknown", FALSE) ELSE @]
  /\ UNCHANGED <<queue, seen, content, made, pump, worker, sched, admin, intent, sends, deaths>>

\* Deviation: a row that is being submitted can still be cancelled.
CancelledLate(r) ==
  /\ queue[r] \in {"local_queued", "submitting"} /\ sub[r] \in {"local_queued", "submitting"}
  /\ queue' = [queue EXCEPT ![r] = "cancelled"] /\ sub' = [sub EXCEPT ![r] = "cancelled"]
  /\ run' = [run EXCEPT ![r] = FinalizedByReducer(@, "cancelled", FALSE)]
  /\ UNCHANGED <<seen, content, made, pump, worker, sched, admin, intent, sends, deaths>>

\* copilotd.submission.cancel_queued: the user cancels the queued item.
Cancelled(r) ==
  /\ queue[r] = "local_queued" /\ sub[r] = "local_queued"
  /\ queue' = [queue EXCEPT ![r] = "cancelled"] /\ sub' = [sub EXCEPT ![r] = "cancelled"]
  /\ run' = [run EXCEPT ![r] = FinalizedByReducer(@, "cancelled", FALSE)]
  /\ UNCHANGED <<seen, content, made, pump, worker, sched, admin, intent, sends, deaths>>
-----------------------------------------------------------------------------
(***************************************************************************)
(* Time, crashes and startup                                               *)
(***************************************************************************)
LeaseRunsOut(r) ==
  /\ run[r].lease = "live"
  /\ run' = [run EXCEPT ![r].lease = "expired"]
  /\ UNCHANGED <<queue, sub, seen, content, made, pump, worker, sched, admin, intent, sends, deaths>>

\* renew_run, by the renewal task that runs beside the dispatch
renew_run ==
  /\ worker.at \in {"target", "recorded"} /\ Mine(worker.run)
  /\ run[worker.run].lease = "expired"
  /\ run[worker.run].status \in {"claimed", "submitting"}
  /\ run' = [run EXCEPT ![worker.run].lease = "live"]
  /\ UNCHANGED <<queue, sub, seen, content, made, pump, worker, sched, admin, intent, sends, deaths>>

RetryDue(r) ==
  /\ run[r].status = "retry_wait" /\ ~run[r].due
  /\ run' = [run EXCEPT ![r].due = TRUE]
  /\ UNCHANGED <<queue, sub, seen, content, made, pump, worker, sched, admin, intent, sends, deaths>>

\* The process dies: its worker, its sends in flight and the volatile prompts are gone.
Dies ==
  /\ worker.at # "down" /\ deaths < MaxCrashes
  /\ deaths' = deaths + 1
  /\ worker' = Down
  /\ content' = [r \in Runs |-> FALSE] /\ pump' = [r \in Runs |-> "idle"]
  /\ admin' = [at |-> "idle"]
  /\ UNCHANGED <<rows, made, sched, intent, sends>>

\* The run as StartupRecoveryInventory leaves it: the statements apply in this order.
Inventoried(r, lost, unknown) ==
  LET x == run[r]
      state == IF lost THEN "rejected" ELSE sub[r]
      after == IF ~unknown THEN state
               ELSE IF state \in {"submitting", "submitted"} THEN "submitted_unknown"
               ELSE IF state \in {"submitted_unknown", "observed_active"} THEN "outcome_unknown"
               ELSE state
      open == x.status \in {"claimed", "submitting"} /\ x.lease # "live"
      y == CASE open /\ x.create /\ ~x.send /\ ~x.thread /\ queue[r] = "none" /\ ~made[r] ->
                  [Free(x) EXCEPT !.status = "retry_wait", !.due = TRUE]
             [] open /\ x.status = "submitting" /\ x.send /\ ~x.accepted /\ seen[r] = {} ->
                  [x EXCEPT !.status = "dispatch_unknown"]
             [] open /\ ~x.send /\ ~x.create -> [Free(x) EXCEPT !.status = "retry_wait"]
             [] x.status \in {"accepted", "waiting"} /\ after \in {"submitted_unknown", "outcome_unknown"} ->
                  [x EXCEPT !.status = "outcome_unknown"]
             [] OTHER -> x
  IN [run |-> y, sub |-> after, queue |-> IF lost THEN "content_unavailable" ELSE queue[r]]

\* A restarted process first takes the inventory.  unknown: the session's owner lease ran out.
inventory ==
  /\ worker.at = "down"
  /\ \E unknown \in SUBSET {r \in Runs : sub[r] \in Open} :
       LET lost == {r \in Runs : /\ queue[r] = "local_queued" /\ ~content[r]
                                 /\ ~(run[r].backed /\ Queued(r) /\ ~run[r].accepted
                                      /\ run[r].status \in {"claimed", "submitting", "retry_wait"})}
           new == [r \in Runs |-> Inventoried(r, r \in lost, r \in unknown)]
       IN /\ run' = [r \in Runs |-> new[r].run] /\ sub' = [r \in Runs |-> new[r].sub]
          /\ queue' = [r \in Runs |-> new[r].queue]
  /\ worker' = [at |-> "inventoried"]
  /\ UNCHANGED <<seen, content, made, pump, sched, admin, intent, sends, deaths>>

\* The run as SchedulerRepository.recover leaves it, its closing finalizations included.
Recovered(r) ==
  LET x == run[r]
      free == x.lease # "live"
      a == IF x.status \in {"claimed", "submitting", "retry_wait"} /\ free /\ HasRow(queue[r])
           THEN [Free(x) EXCEPT !.status = IF x.status = "retry_wait" /\ ~x.due THEN @ ELSE "submitting",
                                !.queued = TRUE, !.thread = TRUE]
           ELSE x
      open == a.status \in {"claimed", "submitting"} /\ free
      late == a.create /\ ~a.thread /\ ~a.send /\ ~a.intent /\ made[r] /\ queue[r] = "none"
      b == CASE open /\ a.send /\ seen[r] = {} -> [Free(a) EXCEPT !.status = "dispatch_unknown"]
             [] (open \/ a.status = "target_unknown") /\ late ->
                  [Free(a) EXCEPT !.status = "retry_wait", !.due = TRUE, !.thread = TRUE]
             [] open /\ ~late /\ ~a.send /\ queue[r] = "none" -> [Free(a) EXCEPT !.status = "retry_wait", !.due = TRUE]
             [] a.status \in {"accepted", "waiting"} /\ sub[r] \in {"submitted_unknown", "outcome_unknown"} ->
                  [a EXCEPT !.status = "outcome_unknown"]
             [] OTHER -> a
  IN IF b.status \in Unknown /\ ~b.intent THEN Finalized(b, b.status) ELSE b

\* recover: then the worker may start.  Prompts that Discord still has are read again.
recover ==
  /\ worker.at = "inventoried"
  /\ run' = [r \in Runs |-> Recovered(r)]
  /\ content' = [r \in Runs |-> content[r] \/ (run[r].backed /\ Queued(r))]
  /\ sched' = "recovered" /\ intent' = "none"
  /\ Return
  /\ UNCHANGED <<queue, sub, seen, made, pump, admin, sends, deaths>>
-----------------------------------------------------------------------------
(***************************************************************************)
(* prepare_restart: drain, look for blockers, give up or force             *)
(***************************************************************************)
Blocked == \E r \in Runs : run[r].status \in Active \/ sub[r] \in Open \cup {"local_queued"}

prepare_restart ==
  /\ Restarts /\ admin.at = "idle" /\ intent = "none" /\ Serving
  /\ \E force \in BOOLEAN : admin' = [at |-> "draining", force |-> force]
  /\ sched' = "draining"
  /\ UNCHANGED <<rows, content, made, pump, worker, intent, sends, deaths>>

restart_refused ==
  /\ admin.at = "draining" /\ ~admin.force /\ Blocked
  /\ admin' = [at |-> "idle"] /\ sched' = "running"
  /\ UNCHANGED <<rows, content, made, pump, worker, intent, sends, deaths>>

restart_prepared ==
  /\ admin.at = "draining" /\ ~admin.force /\ ~Blocked
  /\ admin' = [at |-> "idle"] /\ intent' = "prepared"
  /\ UNCHANGED <<rows, content, made, pump, worker, sched, sends, deaths>>

\* A forced restart reads the active runs and what it will call them,...
force_read ==
  /\ admin.at = "draining" /\ admin.force
  /\ admin' = [at |-> "forcing", targets |->
       [r \in {q \in Runs : run[q].status \in Active} |->
          IF run[r].status \in {"accepted", "waiting"} \/ (run[r].queued /\ seen[r] # {})
          THEN "outcome_unknown" ELSE "dispatch_unknown"]]
  /\ UNCHANGED <<rows, content, made, pump, worker, sched, intent, sends, deaths>>

\* ... settles them one by one...
force_run(r) ==
  LET x == run[r]
      over == x.status \in Terminal /\ x.intent
      started == x.send \/ x.accepted \/ seen[r] # {}
  IN /\ admin.at = "forcing" /\ r \in DOMAIN admin.targets
     /\ run' = [run EXCEPT ![r] = Finalized(x, admin.targets[r])]
     /\ queue' = [queue EXCEPT ![r] =
          IF over \/ @ \in {"none", "submitted", "failed", "cancelled"} THEN @
          ELSE IF x.send \/ seen[r] # {} THEN "submitted_unknown" ELSE "cancelled"]
     /\ sub' = [sub EXCEPT ![r] =
          IF over \/ ~x.queued \/ @ \notin Open \cup {"local_queued"} THEN @
          ELSE IF started THEN "outcome_unknown" ELSE "cancelled"]
     /\ admin' = [admin EXCEPT !.targets = [q \in DOMAIN @ \ {r} |-> @[q]]]
     /\ UNCHANGED <<seen, content, made, pump, worker, sched, intent, sends, deaths>>

\* ... and then whatever else was open.
force_rest ==
  /\ admin.at = "forcing" /\ DOMAIN admin.targets = {}
  /\ sub' = [r \in Runs |-> IF sub[r] \in {"submitting", "submitted"} THEN "submitted_unknown"
                            ELSE IF sub[r] \in Open THEN "outcome_unknown" ELSE sub[r]]
  /\ admin' = [at |-> "idle"] /\ intent' = "forced"
  /\ UNCHANGED <<run, queue, seen, content, made, pump, worker, sched, sends, deaths>>
-----------------------------------------------------------------------------
Startup == inventory \/ recover

SchedulerStep ==
  \/ mark_target_started \/ CreateThread \/ record_target \/ enqueue
  \/ retry_or_fail \/ source_failed \/ redrive_done
  \/ \E r \in Runs : \/ claim_next(r) \/ redrive(r) \/ reconcile_submissions(r)
                      \/ release_temporary(r)

TurnStep(r) ==
  \/ PumpClaim(r) \/ PumpSend(r) \/ Accepted(r) \/ AcceptanceUnknown(r)
  \/ Rejected(r) \/ Observed(r) \/ Completed(r)

SessionStep(r) ==
  TurnStep(r) \/ PumpDefer(r) \/ IdleUncorrelated(r) \/ LateCorrelation(r)
  \/ ActiveUnknown(r) \/ Cancelled(r)

RunsNext ==
  \/ Startup \/ SchedulerStep \/ renew_run \/ Dies
  \/ \E r \in Runs : (Serving /\ SessionStep(r)) \/ Plan(r) \/ LeaseRunsOut(r) \/ RetryDue(r) \/ force_run(r)
  \/ prepare_restart \/ restart_refused \/ restart_prepared \/ force_read \/ force_rest

RunsSpec == RunsInit /\ [][RunsNext]_runVars

\* The worker ticks for ever, time passes, the pump and the reducer run, and the model ends every
\* turn it was given.  A prompt is not put back before its send for ever.
RunsFairness ==
  /\ WF_runVars(Startup) /\ WF_runVars(SchedulerStep)
  /\ \A r \in Runs : /\ WF_runVars(LeaseRunsOut(r)) /\ WF_runVars(RetryDue(r))
                      /\ WF_runVars(Serving /\ TurnStep(r))
                      /\ SF_runVars(Serving /\ PumpSend(r))
                      /\ SF_runVars(claim_next(r)) /\ SF_runVars(reconcile_submissions(r))

RunsFairSpec == RunsSpec /\ RunsFairness
-----------------------------------------------------------------------------
RunsTypeOK ==
  /\ \A r \in Runs :
       /\ run[r].status \in Status /\ run[r].attempt \in 0..MaxAttempts /\ run[r].fence \in 0..MaxFence
       /\ run[r].owner \in BOOLEAN /\ run[r].lease \in {"none", "live", "expired"}
       /\ run[r].told \in Terminal \cup {"none", "accepted"}
       /\ queue[r] \in QueueState /\ sub[r] \in SubState /\ seen[r] \subseteq {"accepted", "observed"}
       /\ content[r] \in BOOLEAN /\ made[r] \in BOOLEAN /\ pump[r] \in {"idle", "claimed", "sent"}
       /\ sends[r] \in Nat
  /\ sched \in {"recovered", "running", "draining"} /\ intent \in {"none", "prepared", "forced"}
  /\ deaths \in 0..MaxCrashes

\* A run's prompt is sent once, whatever is retried, driven again, recovered after a crash or
\* cut short by a forced restart: the scheduler's promise of no duplicate prompt.
SentOnce == \A r \in Runs : sends[r] <= 1

\* A run announced as cancelled was never handed to the model: cancel_queued races the pump's
\* claim of the same row, and a forced restart cancels rows it believes unsent.
CancelledNeverSent == \A r \in Runs : run[r].told = "cancelled" => sends[r] = 0

\* While a process is up, no run has ended without an announcement on its way to Discord: the
\* two finalizers, the inventory's bare status updates and recover's closing pass agree.
SettledAnnounced == \A r \in Runs : Serving /\ run[r].status \in Terminal => run[r].intent

\* A run that completed, was blocked by the model or was cancelled keeps that status: late
\* events, recovery and a forced restart do not reopen it.
OutcomeIsFinal ==
  [][\A r \in Runs : run[r].status \in {"semantic_complete", "blocked", "cancelled"} /\ run[r].intent
                      => run'[r].status = run[r].status]_runVars

\* While nobody crashes the process or drains it, a planned run comes to an end that is announced.
RunEnds ==
  [](deaths = 0 /\ sched # "draining") => \A r \in Runs : run[r].status = "pending" ~> run[r].intent

\* The prompt of a run is sent once, and never if the run is announced as cancelled.
PromptOnce == SentOnce /\ CancelledNeverSent
=============================================================================
