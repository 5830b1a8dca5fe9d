-------------------------- MODULE SessionLifecycle --------------------------
(***************************************************************************)
(* One session from its creation to its deletion: the creation intent      *)
(* (core/sessions.py), the binding row (core/bindings.py), the registry of *)
(* runtimes, the attach, close and shutdown of a runtime under its         *)
(* lifecycle lock (core/session_runtime.py) and the deletion               *)
(* (core/session_deletion.py).  The runtimes of one process share its      *)
(* owner id, and so the fence of a lease that is still live.               *)
(***************************************************************************)
EXTENDS Integers

CONSTANTS
  Casts,        \* the sets of tasks that a behaviour may have
  MaxRuntimes,  \* bound on the runtimes of the session in memory at one time
  MaxGen,       \* no task begins an attachment past this generation
  MaxProc,      \* bound on process restarts
  MaxFaults     \* bound on failures, lost answers and lapses of the lease

VARIABLES
  cast,     \* the tasks of this behaviour
  b,        \* the row of session_bindings
  lease,    \* the row of session_owner_leases
  intent,   \* the row of session_creation_intents
  sdk,      \* the session at the SDK: none, open or gone
  sched,    \* a schedule refers to the thread
  rt,       \* the runtimes
  reg,      \* the runtime the registry holds, 0 for none
  task,     \* the tasks that work on the session
  accepting, \* the registry has not been shut down
  proc,     \* the process, by number: its owner id
  threads,  \* history: threads made for the intent
  creates,  \* history: SDK sessions made for the intent
  faults

lifecycleVars == <<cast, b, lease, intent, sdk, sched, rt, reg, task, accepting, proc, threads, creates, faults>>

Runtimes == 1..MaxRuntimes
Tasks == {"attach", "create", "delete", "sched", "overflow"}
Free == [st |-> "free", gen |-> 0, fence |-> 0, lease |-> 0, handle |-> FALSE, term |-> FALSE, renews |-> FALSE,
         job |-> "none", to |-> "none", by |-> "none", failed |-> "no", cancelled |-> FALSE, doomed |-> "no", ends |-> FALSE, was |-> "none"]
\* r: the runtime in hand; old: the runtime it replaces; x: reactivate, uncertain_create, temporary
Idle == [pc |-> "idle", r |-> 0, old |-> 0, x |-> FALSE]
NoBinding == [intent |-> "none", att |-> "absent", gen |-> 0, fence |-> 0, reason |-> "none"]

\* Where nobody creates the session it is there, made and detached by an earlier process.
LifecycleInit ==
  /\ cast \in Casts
  /\ IF "create" \in cast
     THEN /\ b = NoBinding /\ intent = [st |-> "none", thread |-> FALSE] /\ sdk = "none"
          /\ threads = 0 /\ creates = 0
     ELSE /\ b = [NoBinding EXCEPT !.intent = "active"] /\ intent = [st |-> "attached", thread |-> TRUE] /\ sdk = "open"
          /\ threads = 1 /\ creates = 1
  /\ lease = [own |-> 0, fence |-> 0, live |-> FALSE] /\ sched = FALSE /\ proc = 1 /\ accepting = TRUE
  /\ rt = [r \in Runtimes |-> Free] /\ reg = 0 /\ task = [t \in Tasks |-> Idle]
  /\ faults = 0

Acts(t) == t \in cast /\ task[t] = Idle
World == <<cast, accepting, sdk, sched, proc, threads, creates>>
Fault == faults < MaxFaults /\ faults' = faults + 1
-----------------------------------------------------------------------------
(***************************************************************************)
(* The lease and the binding row                                           *)
(***************************************************************************)
\* is_current, and the headroom the mutations ask for
Current(r) == lease.live /\ lease.own = proc /\ lease.fence = rt[r].lease
Transitional == {"creating", "resuming", "disconnecting"}
Bound == Transitional \cup {"attached"}
OwnFence(r) == b.fence = rt[r].fence
\* latest.runtime_generation = self.binding.runtime_generation, and the fence with it
Own(r) == b.gen = rt[r].gen /\ b.fence = rt[r].fence
UnknownAttached(r) == IF Own(r) /\ b.att = "attached" THEN [b EXCEPT !.att = "ru"] ELSE b
\* mark_recovery_unknown where the row is still this runtime's
Unknown(r) == IF Own(r) /\ b.att \in Bound THEN [b EXCEPT !.att = "ru"] ELSE b

\* acquire: the same fence while the process itself holds a live lease, else the next one
Conflict == lease.live /\ lease.own # proc
Acquired == IF lease.live THEN lease ELSE [own |-> proc, fence |-> lease.fence + 1, live |-> TRUE]
\* release: refused (FenceLost) once the row names another owner or fence
Releasable(r) == lease.own = proc /\ lease.fence = rt[r].lease
Released(r) == IF rt[r].lease # 0 /\ Releasable(r) THEN [lease EXCEPT !.live = FALSE] ELSE lease

\* begin_attachment, in one transaction
MayAttach(r) ==
  /\ Current(r)
  /\ b.intent = "active" \/ (b.intent = "closed" /\ b.reason \in {"scheduler", "cleanup"})
  /\ b.att \in {"absent", "ru", "owner_conflict"} \/ (b.att = "attached" /\ b.fence # rt[r].lease)

\* lease: it is not renewed in time
lapse ==
  /\ lease.live /\ Fault /\ lease' = [lease EXCEPT !.live = FALSE]
  /\ UNCHANGED <<b, intent, World, rt, reg, task>>
-----------------------------------------------------------------------------
(***************************************************************************)
(* A runtime that no task refers to, its own renewal included, is gone      *)
(***************************************************************************)
Held(r, tk, rg) == rg = r \/ \E t \in Tasks : r \in {tk[t].r, tk[t].old}
Swept(f, tk, rg) ==
  [r \in Runtimes |-> IF \/ Held(r, tk, rg) \/ f[r].job # "none" \/ f[r].doomed # "no" \/ f[r].failed # "no"
                         \/ f[r].ends \/ f[r].renews
                      THEN f[r] ELSE Free]
To(t, place) == [task EXCEPT ![t].pc = place]
\* A task ends; what it referred to may be swept.
Finish(t) == task' = [task EXCEPT ![t] = Idle] /\ rt' = Swept(rt, task', reg)

\* The caller of a job learns how it ended.
Told(r, res) ==
  IF rt[r].by = "none" THEN task
  ELSE [task EXCEPT ![rt[r].by].pc = IF @ # "wait_close" THEN res ELSE IF res = "ok" THEN "closed" ELSE "unclosed"]
JobEnds(r, row, res) ==
  /\ task' = Told(r, res)
  /\ rt' = Swept([rt EXCEPT ![r] = [row EXCEPT !.job = "none", !.to = "none", !.by = "none"]], task', reg)
-----------------------------------------------------------------------------
(***************************************************************************)
(* SessionRegistry: replace, retire, quarantine                            *)
(***************************************************************************)
\* for_thread: a runtime whose handle is terminal (_handle_terminal) is passed over.
for_thread == IF reg = 0 THEN "none" ELSE IF rt[reg].st = "terminal" \/ rt[reg].term THEN "none" ELSE rt[reg].st
RegState == IF reg = 0 THEN "none" ELSE rt[reg].st
IsDown(r) == IF r = 0 THEN TRUE ELSE rt[r].doomed = "no"
MutationLocked == \E t \in Tasks : task[t].pc = "replacing"
Doom(r, how) == IF r = 0 \/ rt[r].doomed # "no" THEN rt ELSE [rt EXCEPT ![r].doomed = how]

\* replace, its first half: the runtime is popped and its shutdown awaited.
replace_pop(t) ==
  /\ task[t].pc = "pop" /\ ~MutationLocked
  /\ IF accepting THEN
       /\ reg' = 0 /\ rt' = Doom(reg, "shutdown")
       /\ task' = [task EXCEPT ![t].pc = "replacing", ![t].old = reg, ![t].r = 0]
     ELSE task' = To(t, "bad") /\ UNCHANGED <<reg, rt>>
  /\ UNCHANGED <<b, lease, intent, World, faults>>

\* replace, its second half: a new runtime for the binding.
replace_put(t) ==
  /\ task[t].pc = "replacing"
  /\ IsDown(task[t].old)
  /\ LET tk == [task EXCEPT ![t].old = 0]
         f == Swept(rt, tk, 0)
     IN \E r \in {n \in Runtimes : f[n] = Free /\ \A m \in Runtimes : f[m] = Free => n <= m} :
          /\ rt' = [f EXCEPT ![r] = [Free EXCEPT !.st = "detached", !.gen = b.gen, !.fence = b.fence]]
          /\ reg' = r
          /\ task' = [tk EXCEPT ![t].pc = "have", ![t].r = r]
  /\ UNCHANGED <<b, lease, intent, World, faults>>

\* quarantine_failure, quarantine_all: popped under the lock, shut down outside it.
quarantine ==
  /\ reg # 0 /\ rt[reg].handle /\ ~MutationLocked /\ Fault
  /\ reg' = 0 /\ rt' = Doom(reg, "emergency")
  /\ UNCHANGED <<b, lease, intent, World, task>>

\* SessionRuntime.shutdown, under the lifecycle lock, to the mark on the row
shutdown_mark(r) ==
  /\ rt[r].doomed # "no" /\ rt[r].job = "none"
  /\ LET fenced == rt[r].st = "fenced" IN
     IF rt[r].st = "closed" THEN
       /\ rt' = Swept([rt EXCEPT ![r].doomed = "no"], task, reg)
       /\ UNCHANGED b
     ELSE
       /\ b' = IF fenced THEN b ELSE Unknown(r)
       /\ rt' = [rt EXCEPT ![r].job = "shutdown",
                           ![r].to = IF fenced THEN "fenced" ELSE IF b' # b \/ @ = "ru" \/ rt[r].st = "ru" THEN "ru"
                                     ELSE "detached"]
  /\ UNCHANGED <<lease, intent, World, reg, task, faults>>

\* _stop_components(release_owner): the handle is dropped and the lease given back
Stopped(row) == [row EXCEPT !.handle = FALSE, !.term = TRUE, !.lease = 0, !.renews = FALSE, !.ends = FALSE]
StopFails(r) == rt[r].lease # 0 /\ ~Releasable(r)

\* Without emergency a lease of another makes the shutdown raise: replace raises with it.
shutdown_stop(r) ==
  /\ rt[r].job = "shutdown"
  /\ LET raises == StopFails(r) /\ rt[r].doomed # "emergency" /\ rt[r].st # "fenced"
     IN /\ task' = [t \in Tasks |-> IF task[t].pc = "replacing" /\ task[t].old = r /\ raises
                                    THEN [task[t] EXCEPT !.pc = "bad", !.old = 0] ELSE task[t]]
        /\ rt' = Swept([rt EXCEPT ![r] = [Stopped(rt[r]) EXCEPT
                                            !.job = "none", !.to = "none", !.doomed = "no",
                                            !.st = IF raises /\ rt[r].to # "ru" THEN rt[r].st ELSE rt[r].to]], task', reg)
  /\ lease' = Released(r)
  /\ UNCHANGED <<b, intent, World, reg, faults>>
-----------------------------------------------------------------------------
(***************************************************************************)
(* SessionRuntime: attach                                                  *)
(***************************************************************************)
\* activate
Activated == [b EXCEPT !.intent = "active"]

\* attach_resume: a closed session asks for a reactivation or a scheduled run.
attach_resume(t) ==
  /\ task[t].pc = "resume"
  /\ LET r == task[t].r
         reactivate == t = "attach" /\ task[t].x
         refused == b.intent = "closed" /\ ~reactivate /\ b.reason # "scheduler"
     IN /\ b' = IF b.intent = "closed" /\ reactivate THEN Activated ELSE b
        /\ task' = To(t, IF refused THEN "bad" ELSE "enter")
        /\ rt' = [rt EXCEPT ![r].gen = b.gen, ![r].fence = b.fence]
  /\ UNCHANGED <<lease, intent, World, reg, faults>>

\* _attach: the lifecycle lock is taken
attach_enter(t) ==
  /\ task[t].pc = "enter" /\ rt[task[t].r].job = "none"
  /\ LET r == task[t].r IN
     IF rt[r].st # "detached" THEN task' = To(t, "bad") /\ UNCHANGED rt
     ELSE /\ task' = To(t, "wait")
          /\ rt' = [rt EXCEPT ![r].st = "attaching", ![r].job = "acquire", ![r].by = t,
                              ![r].to = IF t = "create" /\ ~task[t].x THEN "creating" ELSE "resuming"]
  /\ UNCHANGED <<b, lease, intent, World, reg, faults>>

attach_acquire(r) ==
  /\ rt[r].job = "acquire"
  /\ IF Conflict THEN JobEnds(r, [rt[r] EXCEPT !.st = "detached"], "bad") /\ UNCHANGED lease
     ELSE /\ lease' = Acquired /\ UNCHANGED task
          /\ rt' = [rt EXCEPT ![r].lease = Acquired.fence, ![r].renews = TRUE, ![r].job = "begin"]
  /\ UNCHANGED <<b, intent, World, reg, faults>>

begin_attachment_same_generation(r) ==
  /\ rt[r].job = "begin"
  /\ IF MayAttach(r) THEN
       /\ b' = [b EXCEPT !.att = rt[r].to, !.gen = IF @ = 0 THEN 1 ELSE @, !.fence = rt[r].lease]
       /\ rt' = [rt EXCEPT ![r].gen = b'.gen, ![r].fence = b'.fence,
                           ![r].job = IF rt[r].to = "resuming" THEN "probe" ELSE "rpc"]
     ELSE rt' = [rt EXCEPT ![r].job = "unwind", ![r].failed = "bad"] /\ UNCHANGED b
  /\ UNCHANGED <<lease, intent, World, reg, task, faults>>

begin_attachment(r) ==
  /\ rt[r].job = "begin"
  /\ IF MayAttach(r) THEN
       /\ b' = [b EXCEPT !.att = rt[r].to, !.gen = @ + 1, !.fence = rt[r].lease]
       /\ rt' = [rt EXCEPT ![r].gen = b'.gen, ![r].fence = b'.fence,
                           ![r].job = IF rt[r].to = "resuming" THEN "probe" ELSE "rpc"]
     ELSE rt' = [rt EXCEPT ![r].job = "unwind", ![r].failed = "bad"] /\ UNCHANGED b
  /\ UNCHANGED <<lease, intent, World, reg, task, faults>>

\* check_session_in_use: the row is marked and the lease given back before the error is raised.
attach_probe(r) ==
  /\ rt[r].job = "probe"
  /\ \/ rt' = [rt EXCEPT ![r].job = "rpc"] /\ UNCHANGED <<b, lease, task, faults>>
     \/ \E att \in {"ru", "owner_conflict"} :
          /\ Fault
          /\ IF Own(r) /\ b.att \in {"creating", "resuming"} THEN
               /\ b' = [b EXCEPT !.att = att] /\ lease' = Released(r)
               /\ JobEnds(r, [Stopped(rt[r]) EXCEPT !.st = "ru"], IF att = "ru" THEN "unknown" ELSE "bad")
             ELSE /\ rt' = [rt EXCEPT ![r].job = "unwind", ![r].failed = "bad"]
                  /\ UNCHANGED <<b, lease, task>>
  /\ UNCHANGED <<intent, World, reg>>

\* create_session or resume_session; _sdk_call looks at the row and the lease after the answer.
attach_rpc(r) ==
  /\ rt[r].job = "rpc"
  /\ \/ /\ IF rt[r].to = "creating" THEN sdk' = "open" /\ creates' = creates + 1
           ELSE sdk = "open" /\ UNCHANGED <<sdk, creates>>
        /\ rt' = IF Own(r) /\ Current(r) THEN [rt EXCEPT ![r].handle = TRUE, ![r].term = FALSE, ![r].job = "mark"]
                 ELSE [rt EXCEPT ![r].handle = TRUE, ![r].job = "none", ![r].failed = "unknown"]
        /\ UNCHANGED faults
     \/ \* the answer is lost, or the SDK refuses
        /\ IF sdk = "open" \/ rt[r].to = "creating" THEN Fault ELSE UNCHANGED faults
        /\ \/ UNCHANGED <<sdk, creates>>
           \/ rt[r].to = "creating" /\ sdk' = "open" /\ creates' = creates + 1
        /\ rt' = [rt EXCEPT ![r].job = "unwind", ![r].failed = "unknown"]
  /\ UNCHANGED <<cast, accepting, b, lease, intent, sched, proc, threads, reg, task>>

\* _cleanup_attachment_failure: the lease goes first, the row is marked by its fence after
attach_unwind(r) ==
  /\ \/ /\ rt[r].job = "unwind"
        /\ lease' = Released(r)
        /\ rt' = [rt EXCEPT ![r] = [Stopped(rt[r]) EXCEPT !.st = "ru", !.job = "unwound", !.lease = rt[r].lease]]
        /\ UNCHANGED <<b, task>>
     \/ /\ rt[r].job = "unwound"
        /\ b' = IF b.fence = rt[r].lease /\ b.att \in {"creating", "resuming"} THEN [b EXCEPT !.att = "ru"] ELSE b
        /\ JobEnds(r, [rt[r] EXCEPT !.lease = 0, !.failed = "no"], rt[r].failed) /\ UNCHANGED lease
  /\ UNCHANGED <<intent, World, reg, faults>>

\* The event log is recovered, the permissions are set, mark_attached; then the settings are reconciled.
attach_mark(r) ==
  /\ rt[r].job = "mark"
  /\ LET mine == Own(r) /\ b.att \in {"creating", "resuming"}
         fails(res) == rt' = [rt EXCEPT ![r].job = "none", ![r].failed = res]
     IN \/ /\ IF mine THEN b' = [b EXCEPT !.att = "attached"] /\ rt' = [rt EXCEPT ![r].job = "settle"]
              ELSE fails("bad") /\ UNCHANGED b
           /\ UNCHANGED faults
        \/ \* recovery of the log fails
           /\ Fault /\ b' = (IF mine THEN [b EXCEPT !.att = "ru"] ELSE b) /\ fails("unknown")
        \/ \* mark_attached_blocked
           /\ Fault /\ b' = (IF mine THEN [b EXCEPT !.att = "attached"] ELSE b) /\ fails("bad")
  /\ UNCHANGED <<lease, intent, World, reg, task>>

attach_ready(r) ==
  /\ rt[r].job = "settle"
  /\ \/ /\ IF Own(r) /\ Current(r)
           THEN JobEnds(r, [rt[r] EXCEPT !.st = "ready"], "ok")
           ELSE rt' = [rt EXCEPT ![r].job = "none", ![r].failed = "bad"] /\ UNCHANGED task
        /\ UNCHANGED faults
     \/ /\ Fault /\ rt' = [rt EXCEPT ![r].job = "none", ![r].failed = "bad"] /\ UNCHANGED task
  /\ UNCHANGED <<b, lease, intent, World, reg>>

\* _cleanup_failed_attach takes the lock again: a shutdown may have come in between.
cleanup_failed_attach(r) ==
  /\ rt[r].failed # "no" /\ rt[r].job = "none"
  /\ IF rt[r].lease = 0 /\ ~rt[r].handle
     THEN /\ JobEnds(r, [rt[r] EXCEPT !.failed = "no", !.st = IF @ = "attaching" THEN "detached" ELSE @], rt[r].failed)
          /\ UNCHANGED b
     ELSE /\ b' = Unknown(r) /\ UNCHANGED task
          /\ rt' = [rt EXCEPT ![r].job = "stop", ![r].to = "ru"]
  /\ UNCHANGED <<lease, intent, World, reg, faults>>

\* The end of a cleanup, a finalization, a recovery or a close: _stop_components, then the state.
stop_components(r) ==
  /\ rt[r].job = "stop"
  /\ lease' = Released(r)
  /\ LET raises == StopFails(r)
         cleanup == rt[r].failed # "no"
     IN JobEnds(r, [Stopped(rt[r]) EXCEPT !.failed = "no", !.st = IF raises /\ ~cleanup THEN @ ELSE rt[r].to],
                IF cleanup THEN IF raises THEN "unknown" ELSE rt[r].failed
                ELSE IF rt[r].to = "ru" \/ raises THEN "bad" ELSE "ok")
  /\ UNCHANGED <<b, intent, World, reg, faults>>
-----------------------------------------------------------------------------
(***************************************************************************)
(* What happens to an attached runtime                                     *)
(***************************************************************************)
\* _renew_owner, _fence_after_renewal_failure: outside the lifecycle lock
renewal_fails(r) ==
  /\ rt[r].renews /\ rt[r].lease # 0 /\ ~Current(r)
  /\ b' = Unknown(r)
  /\ rt' = [rt EXCEPT ![r].st = "fenced", ![r].renews = FALSE]
  /\ UNCHANGED <<lease, intent, World, reg, task, faults>>

\* session.shutdown reaches the callback and the reducer; a finalization is due.
shutdown_event(r) ==
  /\ rt[r].handle /\ rt[r].st \in {"ready", "attaching"} /\ ~rt[r].ends /\ Fault
  /\ b' = IF Own(r) /\ b.intent = "active" THEN [b EXCEPT !.att = "ru"] ELSE b
  /\ rt' = [rt EXCEPT ![r].ends = TRUE, ![r].was = rt[r].st, ![r].st = "terminal", ![r].term = TRUE]
  /\ UNCHANGED <<lease, intent, World, reg, task>>

\* session.resume with the shutdown as its parent takes it back.
resume_event(r) ==
  /\ rt[r].ends /\ rt[r].handle /\ sdk = "open"
  /\ b' = IF Own(r) /\ b.intent = "active" /\ b.att = "ru" THEN [b EXCEPT !.att = "attached"] ELSE b
  /\ rt' = [rt EXCEPT ![r].ends = FALSE, ![r].term = FALSE, ![r].was = "none",
                      ![r].st = IF @ = "terminal" THEN rt[r].was ELSE @]
  /\ UNCHANGED <<lease, intent, World, reg, task, faults>>

finalize_handle_shutdown(r) ==
  /\ rt[r].ends /\ rt[r].job = "none" /\ rt[r].failed = "no"
  /\ b' = Unknown(r)
  /\ rt' = [rt EXCEPT ![r].job = "stop", ![r].to = "ru", ![r].ends = FALSE, ![r].was = "none"]
  /\ UNCHANGED <<lease, intent, World, reg, task, faults>>

\* _overflow_supervisor: the queue of events overflowed; disconnect, then attach again.
overflow(r) ==
  /\ reg = r /\ rt[r].st = "ready" /\ rt[r].job = "none" /\ Acts("overflow")
  /\ b.gen < MaxGen /\ Fault
  /\ b' = IF Own(r) /\ b.att = "attached" THEN [b EXCEPT !.att = "ru"] ELSE b
  /\ rt' = [rt EXCEPT ![r].st = "ru", ![r].job = "stop", ![r].to = "detached", ![r].by = "overflow"]
  /\ task' = [task EXCEPT !["overflow"] = [Idle EXCEPT !.pc = "recover", !.r = r]]
  /\ UNCHANGED <<lease, intent, World, reg>>

overflow_attach ==
  /\ task["overflow"].pc = "ok"
  /\ IF rt[task["overflow"].r].st = "detached"
     THEN task' = To("overflow", "resume") /\ UNCHANGED rt
     ELSE Finish("overflow")
  /\ UNCHANGED <<b, lease, intent, World, reg, faults>>

overflow_fails ==
  /\ task["overflow"].pc \in {"bad", "unknown"}
  /\ task' = [task EXCEPT !["overflow"] = Idle]
  /\ rt' = Swept([rt EXCEPT ![task["overflow"].r].st = "ru"], task', reg)
  /\ UNCHANGED <<b, lease, intent, World, reg, faults>>

\* close: _assert_owned_handle, then freeze, drain and (forced) tear down
close_begin(r, by) ==
  /\ rt[r].job = "none"
  /\ LET owned == rt[r].handle /\ Current(r)
         place == IF rt[r].st = "ready" /\ owned THEN "wait_close" ELSE "unclosed"
     IN /\ rt' = CASE rt[r].st # "ready" -> rt
                   [] rt[r].st = "ready" /\ ~owned -> [rt EXCEPT ![r].st = "fenced"]
                   [] OTHER -> [rt EXCEPT ![r].job = "close", ![r].by = by]
        /\ task' = IF by = "none" THEN task ELSE [task EXCEPT ![by].pc = place, ![by].r = r]
  /\ UNCHANGED <<b, lease, intent, World, reg, faults>>

close(r) == reg = r /\ rt[r].st = "ready" /\ close_begin(r, "none")

\* begin_close takes the row as it is, whoever attached it.
begin_close(r) ==
  /\ rt[r].job = "close"
  /\ IF b.att = "attached" THEN
       /\ b' = [b EXCEPT !.intent = "closed", !.att = "disconnecting"]
       /\ rt' = [rt EXCEPT ![r].st = "closing", ![r].job = "disconnect", ![r].gen = b.gen, ![r].fence = b.fence]
       /\ UNCHANGED task
     ELSE JobEnds(r, rt[r], "bad") /\ UNCHANGED b
  /\ UNCHANGED <<lease, intent, World, reg, faults>>

\* The disconnect through the mailbox, and finish_disconnect whatever came of it.
finish_close(r) ==
  /\ rt[r].job = "disconnect"
  /\ LET allowed == rt[r].st \in {"ready", "closing"} /\ rt[r].handle /\ Current(r) IN
     \E succeeded \in BOOLEAN :
       /\ IF allowed THEN IF succeeded THEN UNCHANGED faults ELSE Fault
          ELSE ~succeeded /\ UNCHANGED faults
       /\ IF b.att = "disconnecting"
          THEN /\ b' = [b EXCEPT !.att = IF succeeded THEN "absent" ELSE "ru"]
               /\ rt' = [rt EXCEPT ![r].job = "stop", ![r].to = IF succeeded THEN "closed" ELSE "ru"]
               /\ UNCHANGED task
          ELSE JobEnds(r, [rt[r] EXCEPT !.st = IF allowed THEN @ ELSE "fenced"], "bad") /\ UNCHANGED b
  /\ UNCHANGED <<lease, intent, World, reg>>
-----------------------------------------------------------------------------
(***************************************************************************)
(* SessionRegistry.ensure_attached                                         *)
(***************************************************************************)
\* A message, a resume command, a retry or the startup: one transition per thread.
ensure_attached(reactivate) ==
  /\ accepting /\ "attach" \in cast /\ b.intent \in {"active", "closed"} /\ b.gen < MaxGen
  /\ b.intent = "closed" /\ b.reason # "scheduler" => reactivate
  /\ ~(for_thread = "ready" /\ b.intent = "active")
  /\ IF task["attach"].pc = "idle"
     THEN task' = [task EXCEPT !["attach"] = [Idle EXCEPT !.pc = "look", !.x = reactivate]]
     ELSE reactivate /\ ~task["attach"].x /\ task' = [task EXCEPT !["attach"].x = TRUE]
  /\ UNCHANGED <<b, lease, intent, World, rt, reg, faults>>

\* _retry_eager_resume: after a failed attach, and once more when the lease of another has run out
Eligible(row) == row.intent = "active" \/ (row.intent = "closed" /\ row.reason = "scheduler")
retry_eager_resume == Eligible(b) /\ ensure_attached(FALSE)

\* recover_protected_bindings: eager_bindings gives a closed session with a queued run its reason back.
Protected == IF b.intent = "closed" /\ b.reason = "none" /\ sched THEN [b EXCEPT !.reason = "scheduler"] ELSE b
recover_protected_bindings ==
  /\ accepting /\ Acts("attach") /\ for_thread # "ready" /\ b.gen < MaxGen
  /\ Eligible(Protected) /\ (Protected.intent = "closed" => sched)
  /\ b' = Protected
  /\ task' = [task EXCEPT !["attach"] = [Idle EXCEPT !.pc = "look"]]
  /\ UNCHANGED <<lease, intent, World, rt, reg, faults>>

\* The deletion awaits the transition: it has the runtime in hand, or the error.
Answered(ok) ==
  [task EXCEPT !["attach"] = Idle,
               !["delete"] = IF @.pc # "attaching" THEN @
                             ELSE IF ok THEN [@ EXCEPT !.pc = "close", !.r = task["attach"].r]
                             ELSE [@ EXCEPT !.pc = "bad"]]
AttachEnds(ok) == task' = Answered(ok) /\ rt' = Swept(rt, task', reg)

Replaceable == {"none", "closed", "fenced", "ru", "terminal"}

ensure_attached_look ==
  /\ task["attach"].pc = "look"
  /\ RegState = "terminal" => ~rt[reg].ends
  /\ LET t == [task["attach"] EXCEPT !.r = reg] IN
     CASE b.intent = "closed" /\ b.reason # "scheduler" /\ ~t.x -> AttachEnds(FALSE)
       [] ~(b.intent = "closed" /\ b.reason # "scheduler" /\ ~t.x) /\ (RegState \in Replaceable) ->
            task' = To("attach", "pop") /\ UNCHANGED rt
       [] OTHER -> task' = [task EXCEPT !["attach"] = [t EXCEPT !.pc = "have"]] /\ UNCHANGED rt
  /\ UNCHANGED <<b, lease, intent, World, reg, faults>>

ensure_attached_have ==
  /\ task["attach"].pc \in {"have", "ok", "bad", "unknown"}
  /\ IF task["attach"].pc = "have" /\ rt[task["attach"].r].st = "detached"
     THEN task' = To("attach", "resume") /\ UNCHANGED rt
     ELSE AttachEnds(task["attach"].pc \in {"have", "ok"} /\ rt[task["attach"].r].st = "ready")
  /\ UNCHANGED <<b, lease, intent, World, reg, faults>>
-----------------------------------------------------------------------------
(***************************************************************************)
(* SessionCreationService                                                  *)
(***************************************************************************)
Create(place) == [task EXCEPT !["create"].pc = place]
Marked(status) == [intent EXCEPT !.st = status]

create_from_source ==
  /\ Acts("create") /\ b.gen < MaxGen
  /\ intent' = IF intent.st = "none" THEN Marked("reserved") ELSE intent
  /\ task' = Create(IF intent.thread THEN "bind" ELSE "find")
  /\ UNCHANGED <<b, lease, World, rt, reg, faults>>

\* A thread whose creation is in doubt and that is not found is never made again.
find_thread ==
  /\ task["create"].pc = "find"
  /\ IF threads > 0 THEN intent' = [st |-> "thread_created", thread |-> TRUE] /\ task' = Create("bind")
     ELSE IF intent.st \in {"thread_creating", "unknown"} THEN task' = Create("idle") /\ UNCHANGED intent
     ELSE intent' = Marked("thread_creating") /\ task' = Create("thread")
  /\ UNCHANGED <<b, lease, World, rt, reg, faults>>

create_thread ==
  /\ task["create"].pc = "thread"
  /\ \/ /\ threads' = threads + 1 /\ intent' = [st |-> "thread_created", thread |-> TRUE]
        /\ task' = Create("bind") /\ UNCHANGED faults
     \/ /\ Fault /\ threads' \in {threads, threads + 1} /\ intent' = Marked("unknown") /\ task' = Create("idle")
  /\ UNCHANGED <<cast, accepting, b, lease, sdk, sched, proc, creates, rt, reg>>

create_binding ==
  /\ task["create"].pc = "bind"
  /\ b' = IF b.intent = "none" THEN [b EXCEPT !.intent = "active"] ELSE b
  /\ task' = Create("runtime")
  /\ UNCHANGED <<lease, intent, World, rt, reg, faults>>

create_runtime ==
  /\ task["create"].pc = "runtime"
  /\ task' = IF for_thread \in {"none", "ru", "fenced"} THEN Create("pop")
             ELSE [task EXCEPT !["create"].pc = "have", !["create"].r = reg]
  /\ UNCHANGED <<b, lease, intent, World, rt, reg, faults>>

create_attach_afresh ==
  /\ task["create"].pc = "have"
  /\ IF rt[task["create"].r].st = "detached" THEN
       LET uncertain == intent.st \in {"attached", "unknown"} IN
       /\ intent' = Marked("creating") /\ UNCHANGED rt
       /\ task' = [task EXCEPT !["create"].x = uncertain, !["create"].pc = IF uncertain THEN "resume" ELSE "enter"]
     ELSE intent' = Marked("attached") /\ Finish("create")
  /\ UNCHANGED <<b, lease, World, reg, faults>>

\* The intent says CREATING before the SDK is asked; from then on the session is resumed.
create_attach ==
  /\ task["create"].pc = "have"
  /\ IF rt[task["create"].r].st = "detached" THEN
       LET uncertain == intent.st \in {"creating", "attached", "unknown"} IN
       /\ intent' = Marked("creating") /\ UNCHANGED rt
       /\ task' = [task EXCEPT !["create"].x = uncertain, !["create"].pc = IF uncertain THEN "resume" ELSE "enter"]
     ELSE intent' = Marked("attached") /\ Finish("create")
  /\ UNCHANGED <<b, lease, World, reg, faults>>

create_ends ==
  /\ task["create"].pc \in {"ok", "bad", "unknown"}
  /\ intent' = CASE task["create"].pc = "ok" -> Marked("attached")
                 [] task["create"].pc = "unknown" -> Marked("unknown")
                 [] OTHER -> intent
  /\ Finish("create")
  /\ UNCHANGED <<b, lease, World, reg, faults>>
-----------------------------------------------------------------------------
(***************************************************************************)
(* Scheduled runs on a closed session (core/scheduler_adapter.py)          *)
(***************************************************************************)
schedule ==
  /\ b.intent \in {"active", "closed"} /\ "sched" \in cast /\ ~sched /\ sched' = TRUE
  /\ UNCHANGED <<cast, accepting, b, lease, intent, sdk, proc, threads, creates, rt, reg, task, faults>>

unschedule ==
  /\ sched /\ task["sched"] = Idle /\ sched' = FALSE
  /\ UNCHANGED <<cast, accepting, b, lease, intent, sdk, proc, threads, creates, rt, reg, task, faults>>

\* _prepare_binding: the reason lets a closed session be attached for the run.
prepare_binding ==
  /\ sched /\ Acts("sched") /\ b.intent = "closed" /\ b.gen < MaxGen
  /\ b' = [b EXCEPT !.reason = "scheduler"]
  /\ task' = [task EXCEPT !["sched"] = IF for_thread \in {"none", "closed", "fenced", "ru"}
                                       THEN [Idle EXCEPT !.pc = "pop"] ELSE [Idle EXCEPT !.pc = "have", !.r = reg]]
  /\ UNCHANGED <<lease, intent, World, rt, reg, faults>>

prepare_attach ==
  /\ task["sched"].pc \in {"have", "ok", "bad", "unknown"}
  /\ IF task["sched"].pc = "have" /\ rt[task["sched"].r].st = "detached"
     THEN task' = To("sched", "resume") /\ UNCHANGED rt
     ELSE IF task["sched"].pc \in {"have", "ok"} /\ b.att = "attached"
     THEN task' = To("sched", "release") /\ UNCHANGED rt
     ELSE Finish("sched")
  /\ UNCHANGED <<b, lease, intent, World, reg, faults>>

\* release_temporary_target: close without force, then the reason is taken back.
release_temporary_target ==
  \/ task["sched"].pc = "release" /\ for_thread \notin {"none", "closed"} /\ close_begin(reg, "sched")
  \/ /\ \/ task["sched"].pc = "release" /\ for_thread \in {"none", "closed"}
        \/ task["sched"].pc \in {"closed", "unclosed"}
     /\ b' = IF b.reason = "scheduler" /\ task["sched"].pc # "unclosed" THEN [b EXCEPT !.reason = "none"] ELSE b
     /\ Finish("sched")
     /\ UNCHANGED <<lease, intent, World, reg, faults>>
-----------------------------------------------------------------------------
(***************************************************************************)
(* SessionDeletionService                                                  *)
(***************************************************************************)
Delete(place) == [task EXCEPT !["delete"].pc = place]

\* delete: schedules are looked at once; a session with a live projection is torn down first.
delete ==
  /\ Acts("delete") /\ b.intent # "none"
  /\ b.intent = "deleted" \/ ~sched
  /\ \E projected \in BOOLEAN :
       LET torn == b.att # "absent" \/ projected IN
       /\ b.intent = "closed" \/ ~projected
       /\ b' = IF b.intent = "closed" /\ torn THEN [b EXCEPT !.reason = "cleanup"] ELSE b
       /\ task' = Delete(CASE b.intent = "deleted" -> "retire"
                           [] b.intent \in {"deleting", "delete_unknown"} -> "reconcile"
                           [] b.intent = "active" -> "attaching"
                           [] b.intent = "closed" /\ ~torn -> "check"
                           [] OTHER -> IF for_thread \in Replaceable THEN "pop" ELSE "held")
  /\ UNCHANGED <<lease, intent, World, rt, reg, faults>>

\* _destructive_teardown of an active session goes through ensure_attached ...
teardown_attach ==
  /\ task["delete"].pc = "attaching"
  /\ \/ /\ for_thread = "ready" /\ b.intent = "active"
        /\ task' = [task EXCEPT !["delete"].pc = "close", !["delete"].r = reg]
     \/ /\ task["attach"].pc = "idle" /\ ~(for_thread = "ready" /\ b.intent = "active")
        /\ task' = IF b.intent = "active" /\ b.gen < MaxGen
                   THEN [task EXCEPT !["attach"] = [Idle EXCEPT !.pc = "look"]] ELSE Delete("bad")
  /\ UNCHANGED <<b, lease, intent, World, rt, reg, faults>>

\* ... that of a closed one attaches the runtime at hand.
teardown_have ==
  /\ task["delete"].pc \in {"held", "have"}
  /\ LET r == IF task["delete"].pc = "held" THEN reg ELSE task["delete"].r IN
     task' = IF r = 0 THEN Delete("bad")
             ELSE [task EXCEPT !["delete"].r = r, !["delete"].pc = IF rt[r].st = "detached" THEN "resume" ELSE "close"]
  /\ UNCHANGED <<b, lease, intent, World, rt, reg, faults>>

teardown_close == task["delete"].pc \in {"close", "ok"} /\ close_begin(task["delete"].r, "delete")

\* A close that failed is enough once the row says closed; the reason is taken back.
teardown_closed ==
  /\ task["delete"].pc \in {"closed", "unclosed"}
  /\ b' = IF b.reason = "cleanup" THEN [b EXCEPT !.reason = "none"] ELSE b
  /\ task' = [task EXCEPT !["delete"] = IF @.pc = "unclosed" /\ b.intent # "closed" THEN Idle
                                        ELSE [Idle EXCEPT !.pc = "check"]]
  /\ rt' = Swept(rt, task', reg)
  /\ UNCHANGED <<lease, intent, World, reg, faults>>

teardown_fails ==
  /\ task["delete"].pc \in {"bad", "unknown"} /\ Finish("delete")
  /\ UNCHANGED <<b, lease, intent, World, reg, faults>>

\* _reconcile_missing: a session that is gone is deleted, one in doubt stays delete_unknown.
reconcile_missing ==
  /\ task["delete"].pc = "reconcile"
  /\ \/ sdk # "open" /\ task' = Delete("deleted") /\ UNCHANGED <<b, faults>>
     \/ /\ sdk = "open" /\ b' = [b EXCEPT !.intent = "delete_unknown"]
        /\ task' = Delete("check") /\ UNCHANGED faults
     \/ Fault /\ b' = [b EXCEPT !.intent = "delete_unknown"] /\ task' = Delete("idle")
  /\ UNCHANGED <<lease, intent, World, rt, reg>>

delete_check ==
  /\ task["delete"].pc = "check"
  /\ task' = Delete(IF b.intent \in {"closed", "deleting", "delete_unknown"} /\ b.att \in {"absent", "ru"}
                    THEN "begin" ELSE "idle")
  /\ UNCHANGED <<b, lease, intent, World, rt, reg, faults>>

begin_attempt ==
  /\ task["delete"].pc = "begin"
  /\ IF b.intent \in {"closed", "deleting", "delete_unknown"}
     THEN b' = [b EXCEPT !.intent = "deleting"] /\ task' = Delete("rpc")
     ELSE task' = Delete("idle") /\ UNCHANGED b
  /\ UNCHANGED <<lease, intent, World, rt, reg, faults>>

delete_rpc_unasked ==
  /\ task["delete"].pc = "rpc"
  /\ \/ sdk' = (IF sdk = "open" THEN "gone" ELSE sdk) /\ UNCHANGED faults
     \/ Fault /\ sdk' \in {sdk, IF sdk = "open" THEN "gone" ELSE sdk}
  /\ task' = Delete("deleted")
  /\ UNCHANGED <<cast, accepting, b, lease, intent, sched, proc, threads, creates, rt, reg>>

\* delete_session; after an error session_exists decides, or nothing does.
delete_rpc ==
  /\ task["delete"].pc = "rpc"
  /\ \/ sdk = "open" /\ sdk' = "gone" /\ task' = Delete("deleted") /\ UNCHANGED faults
     \/ sdk # "open" /\ task' = Delete("deleted") /\ UNCHANGED <<sdk, faults>>
     \/ /\ Fault /\ sdk' \in {sdk, IF sdk = "open" THEN "gone" ELSE sdk}
        /\ \E known \in BOOLEAN : task' = Delete(IF known /\ sdk' # "open" THEN "deleted" ELSE "unknown_outcome")
  /\ UNCHANGED <<cast, accepting, b, lease, intent, sched, proc, threads, creates, rt, reg>>

delete_mark ==
  /\ task["delete"].pc \in {"deleted", "unknown_outcome"}
  /\ b' = CASE b.intent \notin {"deleting", "delete_unknown"} -> b
            [] b.intent \in {"deleting", "delete_unknown"} /\ task["delete"].pc = "deleted" ->
                 [b EXCEPT !.intent = "deleted", !.att = "absent", !.reason = "none"]
            [] OTHER -> [b EXCEPT !.intent = "delete_unknown"]
  /\ task' = Delete(IF task["delete"].pc = "deleted" THEN "retire" ELSE "idle")
  /\ UNCHANGED <<lease, intent, World, rt, reg, faults>>

\* retire: the runtime is popped, and shut down unless it has ended.
retire ==
  /\ task["delete"].pc = "retire" /\ ~MutationLocked
  /\ reg' = 0
  /\ LET ended == RegState \in {"none", "closed", "ru", "terminal"} IN
     /\ task' = [task EXCEPT !["delete"].pc = "cleanup", !["delete"].old = IF ended THEN 0 ELSE reg]
     /\ rt' = Swept(IF ended THEN rt ELSE Doom(reg, "shutdown"), task', 0)
  /\ UNCHANGED <<b, lease, intent, World, faults>>

\* _finish_cleanup: what the session left in the database goes, its lease too.
finish_cleanup ==
  /\ task["delete"].pc = "cleanup"
  /\ IsDown(task["delete"].old)
  /\ lease' = [own |-> 0, fence |-> 0, live |-> FALSE]
  /\ Finish("delete")
  /\ UNCHANGED <<b, intent, World, reg, faults>>
-----------------------------------------------------------------------------
(***************************************************************************)
(* SessionRegistry.shutdown; a crash, and the inventory of the next process *)
(***************************************************************************)
\* close_admission, then the attachment under way is cancelled ...
registry_shutdown ==
  /\ "shutdown" \in cast /\ accepting /\ ~MutationLocked
  /\ accepting' = FALSE
  /\ LET r == task["attach"].r IN
     IF task["attach"].pc = "wait"
     THEN rt' = [rt EXCEPT ![r].cancelled = rt[r].failed = "no"] /\ UNCHANGED task
     ELSE AttachEnds(FALSE)
  /\ UNCHANGED <<cast, b, lease, intent, sdk, sched, proc, threads, creates, reg, faults>>

\* ... which unwinds it where there is no handle yet, and disconnects where there is one;
cancel_attach(r) ==
  /\ rt[r].cancelled /\ rt[r].job \in {"acquire", "begin", "probe", "rpc", "mark", "settle"}
  /\ CASE rt[r].job = "acquire" ->
            /\ lease' = IF lease.own = proc THEN [lease EXCEPT !.live = FALSE] ELSE lease
            /\ JobEnds(r, [rt[r] EXCEPT !.st = "detached", !.cancelled = FALSE], "bad") /\ UNCHANGED <<b, faults>>
       [] rt[r].job \in {"begin", "probe", "rpc"} ->
            /\ rt' = [rt EXCEPT ![r].job = "unwind", ![r].failed = "bad", ![r].cancelled = FALSE]
            /\ UNCHANGED <<b, lease, task, faults>>
       [] OTHER ->
            \E disconnected \in BOOLEAN :
              LET mine == b.fence = rt[r].lease /\ b.att \in Bound
                  reset == disconnected /\ mine /\ b.att # "disconnecting" IN
              /\ IF Own(r) /\ Current(r) /\ ~disconnected THEN Fault ELSE UNCHANGED faults
              /\ disconnected => Own(r) /\ Current(r)
              /\ b' = IF reset THEN [b EXCEPT !.att = "absent"] ELSE IF mine THEN [b EXCEPT !.att = "ru"] ELSE b
              /\ rt' = [rt EXCEPT ![r].job = "stop", ![r].to = IF reset THEN "detached" ELSE "ru",
                                  ![r].failed = "bad", ![r].cancelled = FALSE]
              /\ UNCHANGED <<lease, task>>
  /\ UNCHANGED <<intent, World, reg>>

\* ... then the runtimes are popped and shut down.
registry_stop ==
  /\ ~accepting /\ task["attach"].pc = "idle" /\ reg # 0
  /\ reg' = 0 /\ rt' = Doom(reg, "shutdown")
  /\ UNCHANGED <<b, lease, intent, World, task, faults>>

\* Only the bindings of leases that have run out are marked.
restart ==
  /\ proc < MaxProc /\ proc' = proc + 1 /\ accepting' = TRUE
  /\ rt' = [r \in Runtimes |-> Free] /\ reg' = 0 /\ task' = [t \in Tasks |-> Idle]
  /\ \E expired \in BOOLEAN :
       /\ lease' = [lease EXCEPT !.live = @ /\ ~expired]
       /\ b' = IF ~lease'.live /\ b.att \in Bound THEN [b EXCEPT !.att = "ru"] ELSE b
  /\ UNCHANGED <<cast, intent, sdk, sched, threads, creates, faults>>

LifecycleNext ==
  \/ lapse \/ quarantine \/ restart \/ registry_shutdown \/ registry_stop
  \/ \E t \in Tasks : replace_pop(t) \/ replace_put(t) \/ attach_resume(t) \/ attach_enter(t)
  \/ \E r \in Runtimes :
       \/ shutdown_mark(r) \/ shutdown_stop(r) \/ attach_acquire(r) \/ begin_attachment(r) \/ attach_probe(r)
       \/ attach_rpc(r) \/ attach_unwind(r) \/ attach_mark(r) \/ attach_ready(r) \/ cleanup_failed_attach(r)
       \/ stop_components(r) \/ renewal_fails(r) \/ shutdown_event(r) \/ resume_event(r) \/ finalize_handle_shutdown(r)
       \/ cancel_attach(r) \/ overflow(r) \/ close(r) \/ begin_close(r) \/ finish_close(r)
  \/ overflow_attach \/ overflow_fails
  \/ \E reactivate \in BOOLEAN : ensure_attached(reactivate)
  \/ retry_eager_resume \/ recover_protected_bindings \/ ensure_attached_look \/ ensure_attached_have
  \/ create_from_source \/ find_thread \/ create_thread \/ create_binding \/ create_runtime \/ create_attach
  \/ create_ends
  \/ schedule \/ unschedule \/ prepare_binding \/ prepare_attach \/ release_temporary_target
  \/ delete \/ teardown_attach \/ teardown_have \/ teardown_close \/ teardown_closed \/ teardown_fails
  \/ reconcile_missing \/ delete_check \/ begin_attempt \/ delete_rpc \/ delete_mark \/ retire \/ finish_cleanup

LifecycleSpec == LifecycleInit /\ [][LifecycleNext]_lifecycleVars
-----------------------------------------------------------------------------
(***************************************************************************)
(* Properties                                                              *)
(***************************************************************************)
\* However often the source is delivered again, and wherever a crash or a lost answer falls, its
\* thread and its SDK session are made at most once (_create_from_source_locked marks before it acts).
OneSession == threads <= 1 /\ creates <= 1

\* A row in a transition is being worked on by a runtime that will move it on, unless an earlier process
\* left it: begin_attachment refuses such a row, so one that nobody works on is lost to this process.
Working(r) == rt[r].job \in {"probe", "rpc", "mark", "disconnect", "unwind", "unwound", "stop"} \/ rt[r].failed # "no"
LeftByCrash == proc > 1 /\ (lease.own # proc \/ b.fence # lease.fence)
NoOrphan == b.att \in Transitional => (\E r \in Runtimes : Working(r)) \/ LeftByCrash

\* A row attached under the live lease of this process is that of a runtime with a handle: nothing else
\* could close it, and begin_attachment refuses it as long as the lease is renewed.
AttachedIsHeld ==
  b.att = "attached" /\ lease.live /\ lease.own = proc /\ b.fence = lease.fence
    => \E r \in Runtimes : rt[r].gen = b.gen /\ rt[r].handle

\* Of the runtimes of a process that share a fence at most one passes the checks that _sdk_call makes after
\* each RPC; runtimes on their way down and a close that took over the row are left out.
Speaks(r) ==
  /\ rt[r].handle /\ rt[r].gen = b.gen /\ rt[r].fence = b.fence /\ Current(r)
  /\ rt[r].doomed = "no" /\ rt[r].st # "closing"
OneSpeaker == \A r, q \in Runtimes : Speaks(r) /\ Speaks(q) => r = q

\* A session recorded as deleted is gone at the SDK, and no late attach brings its row back.
DeletedForGood == b.intent = "deleted" => sdk # "open" /\ b.att = "absent"

\* A row in a transition has a runtime that moves it on, an attached one exactly one that speaks for it.
OneHandle == NoOrphan /\ AttachedIsHeld /\ OneSpeaker
=============================================================================
