-------------------------- MODULE RuntimeSchedules --------------------------
(***************************************************************************)
(* The schedules a session's runtime keeps for /after and /every, and the  *)
(* registry of them in runtime_schedules.  There is no call that makes a   *)
(* schedule and names it: a create action invokes a builtin command and    *)
(* looks for the one schedule that was not there before.  The registry is  *)
(* written by SDK events, by snapshots and by the receipts of the actions. *)
(***************************************************************************)
EXTENDS Integers, Sequences

CONSTANTS
  Actions,    \* create actions (their idempotency keys)
  MaxId,      \* bound on schedules; their ids are 1..MaxId, given out in order
  MaxCalls,   \* bound on create calls, retries included
  MaxTrouble, \* bound on crashes, refusals and lost answers
  MaxOwn      \* bound on schedules the session makes and cancels by itself

ASSUME SchedulesAssumption == MaxId \in Nat /\ 0 \notin Actions

VARIABLES
  live,    \* the schedules of the runtime
  every,   \* the recurring ones among all there ever were
  made,    \* history: the action whose invocation made a schedule, 0 if none did or it was given up
  events,  \* SDK events on their way to the reducer, in order
  rows,    \* runtime_schedules: the state of each id
  need,    \* reconciliation_state: requested_epoch > applied_epoch
  asks,    \* snapshot requests that follow an event that was reduced, on their way themselves
  listing, \* the snapshot query under way; behind: events that come in before its answer
  act,     \* runtime_schedule_actions of the create actions
  base,    \* the volatile baseline of each action; a set, or Gone
  op,      \* session_operations of the invocations
  given,   \* an invocation given up that may still take effect, or 0
  pc,      \* the create call of each action
  cancel,  \* a cancel call
  st,      \* the session: up, down or attaching
  calls, trouble, own,
  again    \* history: actions that were called again after a call that found nothing

scheduleVars == <<live, every, made, events, rows, need, asks, listing, act, base, op,
                  given, pc, cancel, st, calls, trouble, own, again>>

ScheduleIds == 1..MaxId
Absent == "none"
Gone == {0}
NoListing == [by |-> Absent, ids |-> {}, fresh |-> TRUE, behind |-> 0]
NoCancel == [pc |-> "idle", id |-> 0]
Final == {"cancelled", "triggered"}
attached == st = "up"
Trouble == trouble < MaxTrouble /\ trouble' = trouble + 1

SchedulesInit ==
  /\ live = {} /\ every = {} /\ made = <<>> /\ events = <<>>
  /\ rows = [i \in ScheduleIds |-> Absent] /\ need = FALSE /\ asks = 0 /\ listing = NoListing
  /\ act = [a \in Actions |-> [st |-> Absent, id |-> 0]] /\ base = [a \in Actions |-> Gone]
  /\ op = [a \in Actions |-> Absent] /\ given = 0 /\ pc = [a \in Actions |-> "idle"]
  /\ cancel = NoCancel /\ st = "up" /\ calls = 0 /\ trouble = 0 /\ own = 0 /\ again = {}

Runtime == <<live, every, made, given, own>>
Registry == <<rows, need, asks, listing, events>>
Creates == <<act, base, op, pc, calls, again>>
-----------------------------------------------------------------------------
(***************************************************************************)
(* The runtime                                                             *)
(***************************************************************************)
\* A schedule is made, for the action by or by itself (0).
Make(by) ==
  /\ Len(made) < MaxId /\ made' = Append(made, by)
  /\ LET i == Len(made) + 1
     IN live' = live \cup {i} /\ every' \in {every, every \cup {i}} /\ events' = Append(events, [type |-> "created", id |-> i])
Drop(i) == live' = live \ {i} /\ events' = Append(events, [type |-> "cancelled", id |-> i])

SdkActs ==
  /\ st # "down" /\ own < MaxOwn /\ own' = own + 1
  /\ \/ Make(0)
     \/ \E i \in live : Drop(i) /\ UNCHANGED <<every, made>>
  /\ UNCHANGED <<rows, need, asks, listing, act, base, op, given, pc, cancel, st, calls, trouble, again>>
\* A schedule is due: the prompt it sends names it; a recurring one is armed again.
SdkFires(i) ==
  /\ st # "down" /\ i \in live /\ own < MaxOwn /\ own' = own + 1
  /\ live' = IF i \in every THEN live ELSE live \ {i}
  /\ events' = IF i \in every THEN events \o <<[type |-> "fired", id |-> i], [type |-> "rearmed", id |-> i]>>
            ELSE Append(events, [type |-> "fired", id |-> i])
  /\ UNCHANGED <<every, made, rows, need, asks, listing, act, base, op, given, pc, cancel, st, calls, trouble, again>>
SdkTakesEffect ==
  /\ st # "down" /\ given # 0 /\ given' = 0
  /\ Make(0) \/ UNCHANGED <<live, every, made, events>>
  /\ UNCHANGED <<rows, need, asks, listing, act, base, op, pc, cancel, st, calls, trouble, own, again>>
-----------------------------------------------------------------------------
(***************************************************************************)
(* The registry                                                            *)
(***************************************************************************)
ApplyScheduleEvent(e) ==
  CASE e.type = "cancelled" -> [rows EXCEPT ![e.id] = IF @ \in {Absent, "triggered"} THEN @ ELSE "cancelled"]
    [] e.type = "rearmed" -> [rows EXCEPT ![e.id] = IF @ \in {Absent} \cup Final THEN @ ELSE "active"]
    [] e.type = "created" -> [rows EXCEPT ![e.id] = IF @ \in Final THEN @ ELSE "active"]
    [] e.type = "fired" -> [rows EXCEPT ![e.id] = IF @ \in {"active", "unknown"} /\ e.id \notin every THEN "triggered" ELSE @]
\* Deviation: an event does not ask for a snapshot.
AsksNothing(e) == FALSE
\* The events whose arrival (_on_sdk_event_accepted) asks for a new snapshot
AsksSnapshot(e) == e.type \in {"created", "cancelled", "rearmed"}
reduce_event ==
  LET e == Head(events)
  IN /\ st # "down" /\ events # <<>> /\ events' = Tail(events)
     /\ rows' = ApplyScheduleEvent(e)
     /\ \/ asks' = IF AsksSnapshot(e) THEN asks + 1 ELSE asks
        \/ st = "attaching" /\ listing.by = Absent /\ asks' = asks   \* read from the log: nobody asks
     /\ listing' = [listing EXCEPT !.behind = IF @ = 0 THEN 0 ELSE @ - 1]
     /\ UNCHANGED <<Runtime, Creates, need, cancel, st, trouble>>
\* The request is an item of its own, reduced after its event; the snapshot under way becomes an old one.
snapshot_requested ==
  /\ st # "down" /\ asks > 0 /\ asks' = asks - 1
  /\ need' = TRUE /\ listing' = [listing EXCEPT !.fresh = listing.by = Absent]
  /\ UNCHANGED <<Runtime, Creates, events, rows, cancel, st, trouble>>

\* A query is asked for when none is pending, or serves the one that is; queries take turns.
Query(who) == listing.by = Absent /\ need' = TRUE /\ listing' = [by |-> who, ids |-> live, fresh |-> TRUE, behind |-> Len(events)]
\* What is in a snapshot is there; what is not is in doubt, unless the snapshot was overtaken.
Merged(s) ==
  [i \in ScheduleIds |-> IF i \in s.ids THEN (IF rows[i] \in Final THEN rows[i] ELSE "active")
                 ELSE IF s.fresh /\ rows[i] = "active" THEN "unknown" ELSE rows[i]]
\* Events sent before the answer was made are reduced before it is.
Commit == listing.behind = 0 /\ rows' = Merged(listing) /\ need' = (need /\ ~listing.fresh) /\ listing' = NoListing

\* A create call lists to learn the baseline, to look for a schedule before it invokes and to check after.
Asking == [list |-> "listing", seek |-> "seeking", check |-> "checking"]
Asked == [listing |-> "listed", seeking |-> "sought", checking |-> "checked"]
\* The reconcile loop serves a request; the query may fail, and the request stays.
reconcile ==
  /\ attached /\ need /\ Query("loop") /\ UNCHANGED <<Runtime, Creates, asks, events, rows, cancel, st, trouble>>
reconciled ==
  /\ attached /\ listing.by = "loop" /\ Commit
  /\ UNCHANGED <<Runtime, Creates, asks, events, cancel, st, trouble>>
reconcile_fails ==
  /\ st # "down" /\ listing.by # Absent /\ listing.behind = 0 /\ Trouble /\ listing' = NoListing
  /\ st' = IF st = "attaching" THEN "down" ELSE st
  \* a listing that failed shows the registry as it is
  /\ pc' = [a \in Actions |-> IF listing.by = "create" /\ pc[a] \in DOMAIN Asked THEN Asked[pc[a]] ELSE pc[a]]
  /\ cancel' = IF listing.by = "cancel" THEN [cancel EXCEPT !.pc = IF @ = "listing" THEN "listed" ELSE "idle"] ELSE cancel
  /\ UNCHANGED <<Runtime, rows, need, asks, events, act, base, op, calls, again>>
-----------------------------------------------------------------------------
(***************************************************************************)
(* create_runtime_schedule                                                 *)
(***************************************************************************)
Step(a, p) == pc' = [pc EXCEPT ![a] = p]
\* Deviation: two create calls may run side by side.
LockIgnored == TRUE
LockFree == \A a \in Actions : pc[a] \in {"idle"}
HasBaseline(a) == act[a].st # Absent => base[a] # Gone
\* A call for an action that has its schedule just lists; one whose baseline is gone gives up.
create_runtime_schedule(a) ==
  /\ attached /\ pc[a] = "idle" /\ LockFree /\ calls < MaxCalls /\ calls' = calls + 1
  /\ act[a].id = 0 /\ HasBaseline(a)
  /\ Step(a, IF act[a].st = Absent THEN "list" ELSE "seek")
  /\ again' = IF act[a].st = Absent THEN again ELSE again \cup {a}
  /\ UNCHANGED <<Runtime, Registry, act, base, op, cancel, st, trouble>>

\* Each listing asks the runtime for a snapshot first; it fails if the session is not owned.
list(a) ==
  /\ attached /\ pc[a] \in DOMAIN Asking
  /\ \/ Query("create") /\ Step(a, Asking[pc[a]]) /\ UNCHANGED trouble
     \/ Trouble /\ Step(a, "idle") /\ UNCHANGED <<need, listing>>
  /\ UNCHANGED <<Runtime, rows, asks, events, act, base, op, calls, again, cancel, st>>
listed(a) ==
  /\ attached /\ pc[a] \in DOMAIN Asked /\ listing.by = "create" /\ Commit /\ Step(a, Asked[pc[a]])
  /\ UNCHANGED <<Runtime, asks, events, act, base, op, calls, again, cancel, st, trouble>>

\* The schedules there are before the invocation are made the baseline of the action.
record_baseline(a) ==
  /\ attached /\ pc[a] = "listed" /\ Step(a, "invoke")
  /\ act' = [act EXCEPT ![a].st = "pending"]
  /\ base' = [base EXCEPT ![a] = {i \in ScheduleIds : rows[i] \in {"active", "unknown"}}]
  /\ UNCHANGED <<Runtime, Registry, op, calls, again, cancel, st, trouble>>

Created(a) == {i \in ScheduleIds : rows[i] = "active" /\ i \notin base[a]}
Settle(a, s, i) ==
  /\ act' = [act EXCEPT ![a] = [st |-> s, id |-> i]] /\ base' = [base EXCEPT ![a] = Gone] /\ Step(a, "idle")
Confirm(a, i) == Settle(a, "confirmed", i)
SettleUnknown(a) == Settle(a, "unknown", 0)
One(S) == \E i \in S : S = {i}
\* find_created: exactly one new schedule is the one; it is looked for again for ten seconds.
find_created(a) ==
  LET new == Created(a)
  IN /\ attached /\ pc[a] \in {"sought", "checked"}
     /\ \/ \E i \in new : One(new) /\ Confirm(a, i)
        \/ new = {} /\ Step(a, IF pc[a] = "sought" THEN "seek" ELSE "check") /\ UNCHANGED <<act, base>>
        \/ new = {} /\ pc[a] = "sought" /\ Step(a, "invoke") /\ UNCHANGED <<act, base>>
        \/ new # {} /\ ~One(new) /\ pc[a] = "sought" /\ Step(a, "idle") /\ UNCHANGED <<act, base>>
        \/ ~One(new) /\ pc[a] = "checked" /\ SettleUnknown(a)
     /\ UNCHANGED <<Runtime, Registry, op, calls, again, cancel, st, trouble>>

\* Deviation: an invocation that was not confirmed is made again.
InvokesAgain(a) == op[a] # "confirmed"
FirstInvocation(a) == op[a] = Absent
Blocked == \E i \in ScheduleIds : rows[i] = "unknown"
\* The builtin command.  Schedules in doubt keep the session from being quiet; an invocation that was
\* made before answers what it came to.
invoke(a) ==
  /\ attached /\ pc[a] = "invoke"
  /\ IF Blocked \/ ~FirstInvocation(a)
     THEN /\ Step(a, IF Blocked \/ op[a] = "rejected" THEN "idle" ELSE "check")
          /\ UNCHANGED <<op, live, every, made, events, given, trouble>>
     ELSE \* rejected, done, or done (or not) without an answer
          \/ Trouble /\ op' = [op EXCEPT ![a] = "rejected"] /\ Step(a, "idle") /\ UNCHANGED <<live, every, made, events, given>>
          \/ /\ Make(a) /\ UNCHANGED given /\ Step(a, "check")
             /\ \/ op' = [op EXCEPT ![a] = "confirmed"] /\ UNCHANGED trouble
                \/ Trouble /\ op' = [op EXCEPT ![a] = "unknown"]
          \/ Trouble /\ given = 0 /\ given' = 1 /\ op' = [op EXCEPT ![a] = "unknown"] /\ Step(a, "check") /\ UNCHANGED <<live, every, made, events>>
  /\ UNCHANGED <<rows, need, asks, listing, act, base, calls, again, cancel, st, own>>
-----------------------------------------------------------------------------
(***************************************************************************)
(* cancel_runtime_schedule                                                 *)
(***************************************************************************)
cancel_runtime_schedule ==
  /\ attached /\ cancel.pc = "idle" /\ calls < MaxCalls /\ calls' = calls + 1 /\ Query("cancel")
  /\ \E i \in ScheduleIds : rows[i] # Absent /\ cancel' = [pc |-> "listing", id |-> i]
  /\ UNCHANGED <<Runtime, rows, asks, events, act, base, op, pc, again, st, trouble>>
cancel_listed ==
  /\ attached /\ cancel.pc = "listing" /\ listing.by = "cancel" /\ Commit /\ cancel' = [cancel EXCEPT !.pc = "listed"]
  /\ UNCHANGED <<Runtime, asks, events, Creates, st, trouble>>
\* schedule.stop: nothing to do any more, stopped, not there, or no answer
stop(i) ==
  /\ attached /\ cancel = [pc |-> "listed", id |-> i]
  /\ IF rows[i] \in Final THEN cancel' = NoCancel /\ UNCHANGED <<live, events, trouble>>
     ELSE \/ i \in live /\ Drop(i) /\ ((cancel' = [cancel EXCEPT !.pc = "ok"] /\ UNCHANGED trouble) \/ (cancel' = NoCancel /\ Trouble))
          \/ i \notin live /\ cancel' = NoCancel /\ UNCHANGED <<live, events, trouble>>
          \/ Trouble /\ cancel' = NoCancel /\ UNCHANGED <<live, events>>
  /\ UNCHANGED <<every, made, given, own, rows, need, asks, listing, Creates, st>>
\* The receipt of a confirmed cancellation
cancelled ==
  /\ attached /\ cancel.pc = "ok" /\ cancel' = NoCancel
  /\ rows' = [rows EXCEPT ![cancel.id] = IF @ \in {Absent, "triggered"} THEN @ ELSE "cancelled"]
  /\ UNCHANGED <<Runtime, need, asks, listing, events, Creates, st, trouble>>
-----------------------------------------------------------------------------
(***************************************************************************)
(* A crash and the next attach                                             *)
(***************************************************************************)
\* The runtime may die with the process, and the schedules with it; its event log stays.
loses_process ==
  /\ st # "down" /\ Trouble /\ st' = "down"
  /\ live' \in {live, {}} /\ given' = 0 /\ asks' = 0 /\ listing' = NoListing /\ cancel' = NoCancel
  /\ base' = [a \in Actions |-> Gone] /\ pc' = [a \in Actions |-> "idle"]
  /\ op' = [a \in Actions |-> IF op[a] = "confirmed" THEN "unknown" ELSE op[a]]
  /\ UNCHANGED <<every, made, own, events, rows, need, act, calls, again>>
\* The log is read to its end, then the schedules are asked for; one in doubt keeps the session down.
attach_schedules ==
  /\ \/ st = "down" /\ st' = "attaching" /\ UNCHANGED <<rows, need, listing>>
     \/ st = "attaching" /\ events = <<>> /\ Query("attach") /\ UNCHANGED <<rows, st>>
     \/ /\ st = "attaching" /\ listing.by = "attach" /\ Commit
        /\ st' = IF need' THEN "attaching" ELSE IF \E i \in ScheduleIds : rows'[i] = "unknown" THEN "down" ELSE "up"
  /\ UNCHANGED <<Runtime, Creates, asks, events, cancel, trouble>>

SchedulesNext ==
  \/ \E a \in Actions : create_runtime_schedule(a) \/ list(a) \/ listed(a) \/ record_baseline(a) \/ find_created(a) \/ invoke(a)
  \/ \E i \in ScheduleIds : SdkFires(i) \/ stop(i)
  \/ cancel_runtime_schedule \/ cancel_listed \/ cancelled
  \/ SdkActs \/ SdkTakesEffect \/ reduce_event \/ snapshot_requested \/ reconcile \/ reconciled \/ reconcile_fails \/ loses_process \/ attach_schedules
SchedulesSpec == SchedulesInit /\ [][SchedulesNext]_scheduleVars
-----------------------------------------------------------------------------
SchedulesTypeOK ==
  /\ asks \in Nat
  /\ live \subseteq 1..Len(made) /\ every \subseteq 1..Len(made) /\ rows \in [ScheduleIds -> {Absent, "active", "unknown"} \cup Final]
  /\ \A i \in ScheduleIds : rows[i] # Absent => i <= Len(made)
  /\ st \in {"up", "down", "attaching"}
  /\ \A a \in Actions : pc[a] # "idle" => attached /\ (act[a].st = Absent \/ base[a] # Gone)

\* However often a create is called, it makes one schedule.
CreatedOnce == \A i, j \in DOMAIN made : made[i] = made[j] /\ made[i] # 0 => i = j

\* The schedule that the first call of a create action is confirmed with is the one its own invocation made,
\* however the listings, the events and other schedules came in between.  The exceptions are schedules nobody
\* waits for any more: those the session makes by itself and those of an invocation that took effect after it
\* was given up.
ConfirmedOwn == \A a \in Actions \ again : act[a].id # 0 => made[act[a].id] \in {a, 0}

\* A schedule that was cancelled or has fired does not come back, whatever old snapshot is merged.
FinalStays == [][\A i \in ScheduleIds : rows[i] \in Final => rows'[i] = rows[i]]_scheduleVars

\* When no event is on its way, an attached session's registry calls no schedule active that the runtime does not
\* have, and has every one the runtime has, if only in doubt; when no snapshot is asked for either it shows exactly
\* those of the runtime, whatever snapshots, receipts and restarts came in between.
Shown(state) == {i \in ScheduleIds : rows[i] = state}
RegistryTrue ==
  attached /\ events = <<>> =>
    /\ Shown("active") \subseteq live /\ live \subseteq Shown("active") \cup Shown("unknown")
    /\ ~need /\ asks = 0 => Shown("active") = live

\* A schedule whose event was reduced is not in doubt (a snapshot older than the schedule that is reduced before
\* the event's request puts it in doubt, until the next one).
NeverInDoubt == attached /\ events = <<>> => Shown("active") = live

\* A create makes one schedule and is confirmed with that one.
ScheduleIsTrue == CreatedOnce /\ ConfirmedOwn
=============================================================================
