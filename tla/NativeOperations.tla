-------------------------- MODULE NativeOperations --------------------------
(***************************************************************************)
(* The one-shot operations of a session beside sending: builtin commands,  *)
(* side questions, compaction of the history, Fleet and task actions.      *)
(* Each one checks, goes through the command mailbox, commits a pending    *)
(* row within the operation, calls the SDK, and its caller commits what    *)
(* came of it.  A key names the operation in all its retries.  The command *)
(* mailbox is the one of OperationMailbox, reduced to its outcomes.  A     *)
(* behaviour is about one sort of operation, chosen in Init.               *)
(***************************************************************************)
EXTENDS Integers, Sequences, FiniteSets

CONSTANTS
  Kinds,      \* the sorts of operation looked at
  Keys,       \* the idempotency keys; 0 is none of them
  Callers,    \* tasks that call at the same time
  MaxCalls,   \* bound on calls, retries included
  MaxFaults,  \* bound on crashes, refusals and lost answers
  MaxAuto     \* bound on compactions the session makes by itself

ASSUME NativeAssumption == Kinds \subseteq {"command", "ask", "compact", "fleet", "task"} /\ 0 \notin Keys

VARIABLES
  kind,    \* the sort of this behaviour
  op,      \* session_operations
  kept,    \* keys whose result the volatile store of this process has
  row,     \* the table of this sort of operation
  seen,    \* internal_event_ids the journal has, per key
  res,     \* what the SDK answered to a command
  sel,     \* keys whose list of subcommands the volatile store has
  fleet,   \* the submission of a Fleet run and its liveness lease
  call,    \* the callers
  mbox,    \* keys in the command mailbox
  step,    \* how far the first one is
  work,    \* compactions the SDK is at, 0 for one of its own
  net,     \* SDK events of compactions not reduced yet; the event log has them too
  st,      \* the session: up, down or attaching
  calls, faults, autos,
  ran,     \* history: keys whose request took effect
  tries,   \* history: how often a request was sent
  crossed  \* history: keys that were settled by the event of another compaction

vars == <<kind, op, kept, row, seen, res, sel, fleet, call, mbox, step, work, net, st, calls, faults, autos, ran, tries, crossed>>

None == "none"
Free == [pc |-> "idle", key |-> 0, parent |-> 0]
Unresolved == {k \in Keys : row[k].st \in {"pending", "started", "unknown"}}

Init ==
  /\ kind \in Kinds
  /\ op = [k \in Keys |-> None] /\ kept = {}
  /\ row = [k \in Keys |-> [st |-> None, sub |-> FALSE, begun |-> FALSE, old |-> FALSE, at |-> 0]]
  /\ seen = [k \in Keys |-> {}] /\ res = [k \in Keys |-> None] /\ sel = {}
  /\ fleet = [k \in Keys |-> [sub |-> None, lease |-> FALSE]]
  /\ call = [c \in Callers |-> Free] /\ mbox = <<>> /\ step = "idle"
  /\ work = {} /\ net = <<>> /\ st = "up"
  /\ calls = 0 /\ faults = 0 /\ autos = 0 /\ ran = {} /\ tries = [k \in Keys |-> 0] /\ crossed = {}

up == st = "up"
Fault == faults < MaxFaults /\ faults' = faults + 1
Histories == <<ran, tries, crossed>>
Sdk == <<work, net, ran, tries, crossed>>
-----------------------------------------------------------------------------
(***************************************************************************)
(* The reducer                                                             *)
(***************************************************************************)
Pending(k) ==
  IF row[k].st # None THEN row
  ELSE [row EXCEPT ![k].st = "pending", ![k].at = Cardinality({j \in Keys : row[j].st # None})]

\* Each sort of operation has its own settled receipt, which finds the row or changes nothing.
CommandSettled(k, s, sub) == IF row[k].st = None THEN row ELSE [row EXCEPT ![k].st = s, ![k].sub = sub]
EphemeralSettled(k, s) == IF row[k].st = None THEN row ELSE [row EXCEPT ![k].st = s]
\* An outcome, once known, stays.
CompactionSettled(k, s) == IF row[k].st \in {None, "confirmed", "rejected"} THEN row ELSE [row EXCEPT ![k].st = s]
FleetSettled(k, s) == IF row[k].st = None THEN row ELSE [row EXCEPT ![k].st = s]
\* Deviation: every outcome takes the lease.
FleetSubmissionHolds(k, s) ==
  IF fleet[k].sub = None THEN fleet
  ELSE [fleet EXCEPT ![k] = [sub |-> CASE s = "confirmed" -> "observed_active" [] s = "rejected" -> "rejected" [] s = "unknown" -> "outcome_unknown",
                             lease |-> TRUE]]
FleetSubmission(k, s) ==
  IF fleet[k].sub = None THEN fleet
  ELSE [fleet EXCEPT ![k] = [sub |-> CASE s = "confirmed" -> "observed_active" [] s = "rejected" -> "rejected" [] s = "unknown" -> "outcome_unknown",
                             lease |-> @.lease \/ s = "confirmed"]]
TaskSettled(k, s) == IF row[k].st = None THEN row ELSE [row EXCEPT ![k].st = s]

\* A receipt the journal has already is dropped.
Receipt(k, id, s, sub) ==
  IF id \in seen[k] THEN UNCHANGED <<row, seen, fleet, sel>>
  ELSE /\ seen' = [seen EXCEPT ![k] = @ \cup {id}]
       /\ row' = CASE kind = "command" -> CommandSettled(k, s, sub) [] kind = "ask" -> EphemeralSettled(k, s)
                   [] kind = "compact" -> CompactionSettled(k, s) [] kind = "fleet" -> FleetSettled(k, s)
                   [] kind = "task" -> TaskSettled(k, s)
       /\ fleet' = IF kind = "fleet" THEN FleetSubmission(k, s) ELSE fleet
       /\ sel' = IF kind = "command" /\ s = "confirmed" /\ res[k] = "select" THEN sel \cup {k} ELSE sel \ {k}

\* The run an SDK event of a compaction is taken to be about: the newest one, begun ones first when it ends, among
\* those the event was received after (sdk_receive_seq_before < sdk_receive_seq).
Newest(S) == CHOOSE k \in S : \A j \in S : row[j].at <= row[k].at
StartsFor(S) == {k \in S : row[k].st \in {"pending", "unknown"}}
EndsFor(S) == LET begun == {k \in S : row[k].begun} IN IF begun # {} THEN begun ELSE S
Concerns(e, S) == IF e.type = "start" THEN StartsFor(S) ELSE EndsFor(S)
ApplyCompactionEvent(e, S) ==
  LET k == Newest(Concerns(e, S))
  IN IF Concerns(e, S) = {} THEN row
     ELSE IF e.type = "start" THEN [row EXCEPT ![k].st = "started", ![k].begun = TRUE, ![k].old = FALSE]
     ELSE [row EXCEPT ![k].st = IF e.ok THEN "confirmed" ELSE "rejected"]
\* The sequence starts again in every generation: what an older one wrote may be more or less than the event's.
After(e, S) ==
  \E luck \in SUBSET {k \in Keys : row[k].old} : S = {k \in Unresolved : k \in luck \/ (~row[k].old /\ k \notin e.ahead)}
deliver ==
  /\ st # "down" /\ net # <<>> /\ net' = Tail(net)
  /\ \E S \in SUBSET Keys :
       /\ After(Head(net), S) /\ row' = ApplyCompactionEvent(Head(net), S)
       /\ crossed' = IF Head(net).type = "complete" /\ S # {} /\ Newest(EndsFor(S)) # Head(net).key
                     THEN crossed \cup {Newest(EndsFor(S))} ELSE crossed
  /\ UNCHANGED <<kind, op, kept, seen, res, sel, fleet, call, mbox, step, work, st, calls, faults, autos, ran, tries>>
-----------------------------------------------------------------------------
(***************************************************************************)
(* A call                                                                  *)
(***************************************************************************)
\* operational_blockers, which a task action does not ask: an unresolved compaction, an active lease
Blocked == (kind = "compact" /\ Unresolved # {}) \/ \E k \in Keys : fleet[k].lease
To(c, pc) == call' = [call EXCEPT ![c].pc = pc]
Begin(c, k, parent) ==
  /\ up /\ call[c].pc = "idle" /\ calls < MaxCalls /\ calls' = calls + 1 /\ ~Blocked
  /\ call' = [call EXCEPT ![c] = [pc |-> "checked", key |-> k, parent |-> parent]]
  /\ UNCHANGED <<kind, op, kept, row, seen, res, sel, fleet, mbox, step, Sdk, st, faults, autos>>

invoke_native_command(c) == kind = "command" /\ \E k \in Keys : Begin(c, k, 0)
\* A choice among the subcommands of an earlier answer, as long as the answer is still there
continue_native_command(c) ==
  kind = "command" /\ \E p \in sel, k \in Keys : k # p /\ row[p].st = "confirmed" /\ res[p] = "select" /\ Begin(c, k, p)
ask_ephemeral(c) == kind = "ask" /\ \E k \in Keys : Begin(c, k, 0)
\* The check for another unresolved compaction is not repeated once the operation runs.
compact(c) == kind = "compact" /\ \E k \in Keys : Begin(c, k, 0)
start_fleet(c) == kind = "fleet" /\ \E k \in Keys : Begin(c, k, 0)
task_action(c) == kind = "task" /\ \E k \in Keys : Begin(c, k, 0)

InFlight(k) == \E i \in DOMAIN mbox : mbox[i] = k
\* Deviation: what is not confirmed is refused.
ReplayedRefused(k) == IF op[k] = "confirmed" /\ k \in kept THEN "ok" ELSE "rej"
\* What a settled operation answers to a call with its key.  The answer to a side question is not kept;
\* a result that was kept is gone after a restart.
Replayed(k) ==
  CASE op[k] = "rejected" -> "rej"
    [] op[k] = "confirmed" /\ kind = "ask" -> "idle"
    [] op[k] = "confirmed" /\ kind # "ask" /\ k \in kept -> "ok"
    [] OTHER -> "unk"
\* Deviation: an operation whose outcome is not known is sent again.
MayReplayUnknown(k) == op[k] \in {"none", "unknown"}
FirstTime(k) == op[k] = "none"
submit(c) ==
  LET k == call[c].key
  IN /\ up /\ call[c].pc = "checked"
     /\ IF InFlight(k) THEN To(c, "waiting") /\ UNCHANGED <<op, mbox>>
        ELSE IF FirstTime(k) THEN To(c, "waiting") /\ op' = [op EXCEPT ![k] = "open"] /\ mbox' = Append(mbox, k)
        ELSE To(c, Replayed(k)) /\ UNCHANGED <<op, mbox>>
     /\ UNCHANGED <<kind, kept, row, seen, res, sel, fleet, step, Sdk, st, calls, faults, autos>>

Head1 == Head(mbox)
Running(s) == up /\ mbox # <<>> /\ step = s
\* The mailbox settles the operation and everyone who waits for it learns how it ended.
Finish(s) ==
  /\ op' = [op EXCEPT ![Head1] = s] /\ mbox' = Tail(mbox) /\ step' = "idle"
  /\ kept' = IF s = "confirmed" /\ kind # "ask" THEN kept \cup {Head1} ELSE kept
  /\ call' = [c \in Callers |-> IF call[c].pc = "waiting" /\ call[c].key = Head1
                                THEN [call[c] EXCEPT !.pc = CASE s = "confirmed" -> "ok" [] s = "rejected" -> "rej" [] s = "unknown" -> "unk"]
                                ELSE call[c]]

\* Some of the events on their way, the first ones, have been received when a row is written (last_sdk_receive_seq).
Received(k) ==
  \E n \in 0..Len(net) :
    /\ \A i \in DOMAIN net : net[i].ahead # {} => i <= n
    /\ net' = [i \in DOMAIN net |-> IF i <= n THEN [net[i] EXCEPT !.ahead = @ \cup {k}] ELSE net[i]]
\* The operation starts and commits its pending row, or the fence is not safe any more, or the manifest
\* of commands has changed.
dispatch ==
  /\ Running("idle")
  /\ \/ /\ step' = "rpc" /\ row' = Pending(Head1) /\ Received(Head1)
        /\ fleet' = IF kind = "fleet" /\ fleet[Head1].sub = None THEN [fleet EXCEPT ![Head1].sub = "submitting"] ELSE fleet
        /\ UNCHANGED <<op, kept, call, mbox, faults>>
     \/ Fault /\ Finish("unknown") /\ UNCHANGED <<row, fleet, net>>
     \/ Fault /\ kind = "command" /\ Finish("rejected") /\ UNCHANGED <<row, fleet, net>>
  /\ UNCHANGED <<kind, seen, res, sel, work, Histories, st, calls, autos>>

\* The SDK call of everything but a compaction: refused, done, or done (or not) without an answer that
\* could be used: the answer was lost, a check of it failed, or one of several task calls did.
rpc ==
  /\ Running("rpc") /\ kind # "compact" /\ tries' = [tries EXCEPT ![Head1] = @ + 1]
  /\ \/ Fault /\ Finish("rejected") /\ kind # "ask" /\ UNCHANGED <<ran, res>>
     \/ /\ ran' = ran \cup {Head1}
        /\ \E r \in IF kind = "command" THEN {"completed", "prompt", "select"} ELSE {"completed"} : res' = [res EXCEPT ![Head1] = r]
        /\ \/ Finish("confirmed") /\ UNCHANGED faults
           \/ Fault /\ Finish("unknown")
     \/ Fault /\ Finish("unknown") /\ UNCHANGED <<ran, res>>
  /\ UNCHANGED <<kind, row, seen, sel, fleet, work, net, st, calls, autos, crossed>>

Sent(type, k, ok) == [type |-> type, key |-> k, ok |-> ok, ahead |-> {}]
\* The compaction request reaches the SDK, is refused at once, or is lost on the way.
compact_history ==
  /\ Running("rpc") /\ kind = "compact" /\ tries' = [tries EXCEPT ![Head1] = @ + 1]
  /\ \/ work' = work \cup {Head1} /\ net' = Append(net, Sent("start", Head1, TRUE)) /\ step' = "working"
        /\ UNCHANGED <<op, kept, call, mbox, faults>>
     \/ Fault /\ Finish("rejected") /\ UNCHANGED <<work, net>>
     \/ Fault /\ Finish("unknown") /\ UNCHANGED <<work, net>>
  /\ UNCHANGED <<kind, row, seen, res, sel, fleet, st, calls, autos, ran, crossed>>
\* The answer is waited for, but not for ever.
compact_times_out ==
  /\ Running("working") /\ Fault /\ Finish("unknown")
  /\ UNCHANGED <<kind, row, seen, res, sel, fleet, Sdk, st, calls, autos>>
\* After a good answer the event log is caught up with before the operation is confirmed.
compact_answered ==
  /\ \/ Running("compacted") /\ net = <<>> /\ Finish("confirmed")
     \/ Running("failed") /\ Finish("rejected")
  /\ UNCHANGED <<kind, row, seen, res, sel, fleet, Sdk, st, calls, faults, autos>>

\* The SDK ends a compaction, one that was asked for or one of its own.
SdkCompletes(k) ==
  /\ k \in work /\ work' = work \ {k}
  /\ \E ok \in BOOLEAN :
       /\ net' = Append(net, Sent("complete", k, ok))
       /\ step' = IF up /\ step = "working" /\ mbox # <<>> /\ Head1 = k THEN (IF ok THEN "compacted" ELSE "failed") ELSE step
       /\ ran' = IF ok THEN ran \cup ({k} \ {0}) ELSE ran
  /\ UNCHANGED <<kind, op, kept, row, seen, res, sel, fleet, call, mbox, st, calls, faults, autos, tries, crossed>>
SdkCompacts ==
  /\ kind = "compact" /\ up /\ work = {} /\ autos < MaxAuto /\ autos' = autos + 1
  /\ work' = {0} /\ net' = Append(net, Sent("start", 0, TRUE))
  /\ UNCHANGED <<kind, op, kept, row, seen, res, sel, fleet, call, mbox, step, st, calls, faults, Histories>>

\* The caller commits the outcome it learnt.
settle(c) ==
  LET k == call[c].key
      s == CASE call[c].pc = "ok" -> "confirmed" [] call[c].pc = "rej" -> "rejected" [] call[c].pc = "unk" -> "unknown"
  IN /\ up /\ call[c].pc \in {"ok", "rej", "unk"} /\ Receipt(k, s, s, FALSE)
     /\ To(c, IF s = "confirmed" /\ kind = "command"
              THEN (IF call[c].parent # 0 THEN "chosen" ELSE IF res[k] = "prompt" THEN "prompt" ELSE "idle") ELSE "idle")
     /\ UNCHANGED <<kind, op, kept, res, mbox, step, Sdk, st, calls, faults, autos>>
\* A list of subcommands is used up once one was invoked.
use_selection(c) ==
  /\ up /\ call[c].pc = "chosen" /\ sel' = sel \ {call[c].parent} /\ To(c, "idle")
  /\ UNCHANGED <<kind, op, kept, row, seen, res, fleet, mbox, step, Sdk, st, calls, faults, autos>>
\* The prompt a command came back with is sent under a key of its own (see SubmissionQueue), then recorded.
send_prompt(c) ==
  /\ up /\ call[c].pc = "prompt"
  /\ \/ Receipt(call[c].key, "agent-submission", "confirmed", TRUE) /\ UNCHANGED faults
     \/ Fault /\ UNCHANGED <<row, seen, fleet, sel>>
  /\ To(c, "idle")
  /\ UNCHANGED <<kind, op, kept, res, mbox, step, Sdk, st, calls, autos>>
-----------------------------------------------------------------------------
(***************************************************************************)
(* The submission of a Fleet run                                           *)
(***************************************************************************)
Live == {"observed_active", "loop_idle", "continuation_expected"}
Ended == {"semantic_complete", "semantic_blocked", "observed_aborted"}
\* Deviation: a loop that is idle releases its lease.
MovedFree(S, to) == fleet' = [k \in Keys |-> IF k \in S THEN [sub |-> to[k], lease |-> FALSE] ELSE fleet[k]]
\* The submissions of S go on to what to says; one that has ended releases its lease.
Moved(S, to) ==
  fleet' = [k \in Keys |-> IF k \in S THEN [sub |-> to[k], lease |-> fleet[k].lease /\ to[k] \notin Ended] ELSE fleet[k]]
InState(states) == {k \in Keys : fleet[k].sub \in states}
FleetUnchanged == UNCHANGED <<kind, op, kept, row, seen, res, sel, call, mbox, step, Sdk, st, calls, faults, autos>>
\* The loop comes to rest, or is aborted.  A submission whose receipt is not there yet is passed over.
session_idle ==
  LET S == InState({"observed_active", "continuation_expected"})
  IN /\ st # "down" /\ S # {}
     /\ \E to \in [S -> {"loop_idle", "continuation_expected", "semantic_blocked"}] \cup [S -> {"observed_aborted"}] : Moved(S, to)
     /\ FleetUnchanged
\* Snapshots taken after that which show no work left settle a submission at rest.
settle_loop_idle ==
  /\ st # "down"
  /\ \E S \in SUBSET InState({"loop_idle"}) :
       S # {} /\ \E to \in [S -> {"semantic_complete", "semantic_blocked"}] : Moved(S, to)
  /\ FleetUnchanged
\* Autopilot goes on (a task says so, or its next message is there); a late task opens what was complete.
task_event(k) ==
  /\ st # "down"
  /\ \/ fleet[k].sub \in Live /\ fleet' = [fleet EXCEPT ![k].sub = "continuation_expected"]
     \/ fleet[k].sub \in Live /\ fleet' = [fleet EXCEPT ![k] = [sub |-> "observed_active", lease |-> TRUE]]
     \/ fleet[k].sub = "semantic_complete" /\ fleet' = [fleet EXCEPT ![k] = [sub |-> "loop_idle", lease |-> TRUE]]
  /\ FleetUnchanged
-----------------------------------------------------------------------------
(***************************************************************************)
(* Compactions left open, a crash and the next attach                      *)
(***************************************************************************)
\* With the event log caught up, a compaction without a completion becomes unknown, once per occasion.
ReconcileUnresolved(basis) ==
  LET open == {k \in Keys : row[k].st \in {"pending", "started"} /\ basis \notin seen[k]}
  IN /\ row' = [k \in Keys |-> IF k \in open THEN CompactionSettled(k, "unknown")[k] ELSE row[k]]
     /\ seen' = [k \in Keys |-> IF k \in open THEN seen[k] \cup {basis} ELSE seen[k]]
reconcile_compaction ==
  /\ up /\ kind = "compact" /\ net = <<>> /\ ReconcileUnresolved("explicit")
  /\ UNCHANGED <<kind, op, kept, res, sel, fleet, call, mbox, step, Sdk, st, calls, faults, autos>>

\* The runtime may die with the process.
crash ==
  /\ up /\ Fault /\ st' = "down"
  /\ op' = [k \in Keys |-> IF op[k] = "open" THEN "unknown" ELSE op[k]]
  /\ kept' = {} /\ sel' = {} /\ call' = [c \in Callers |-> Free] /\ mbox' = <<>> /\ step' = "idle"
  /\ fleet' = [k \in Keys |-> [sub |-> CASE fleet[k].sub = "submitting" -> "submitted_unknown"
                                       [] fleet[k].sub \in Live \cup {"submitted_unknown"} -> "outcome_unknown"
                                       [] OTHER -> fleet[k].sub, lease |-> FALSE]]
  /\ work' \in {work, {}} /\ net' = [i \in DOMAIN net |-> [net[i] EXCEPT !.ahead = {}]]
  /\ row' = [k \in Keys |-> [row[k] EXCEPT !.old = row[k].st # None]]
  /\ UNCHANGED <<kind, seen, res, calls, autos, Histories>>
resume ==
  /\ st = "down" /\ st' = "attaching"
  /\ UNCHANGED <<kind, op, kept, row, seen, res, sel, fleet, call, mbox, step, Sdk, calls, faults, autos>>
\* The log is read to its end; a compaction that is still unresolved keeps the session from being ready.
attached ==
  /\ st = "attaching" /\ net = <<>>
  /\ IF kind = "compact" THEN ReconcileUnresolved("attach") ELSE UNCHANGED <<row, seen>>
  /\ st' = IF kind = "compact" /\ Unresolved # {} THEN "down" ELSE "up"
  /\ UNCHANGED <<kind, op, kept, res, sel, fleet, call, mbox, step, Sdk, calls, faults, autos>>

Next ==
  \/ \E c \in Callers :
       \/ invoke_native_command(c) \/ continue_native_command(c) \/ ask_ephemeral(c) \/ compact(c) \/ start_fleet(c) \/ task_action(c)
       \/ submit(c) \/ settle(c) \/ use_selection(c) \/ send_prompt(c)
  \/ dispatch \/ rpc \/ compact_history \/ compact_times_out \/ compact_answered \/ deliver \/ session_idle \/ settle_loop_idle
  \/ \E k \in Keys \cup {0} : SdkCompletes(k)
  \/ \E k \in Keys : task_event(k)
  \/ SdkCompacts \/ reconcile_compaction \/ crash \/ resume \/ attached
Spec == Init /\ [][Next]_vars
-----------------------------------------------------------------------------
TypeOK ==
  /\ kind \in Kinds /\ st \in {"up", "down", "attaching"} /\ step \in {"idle", "rpc", "working", "compacted", "failed"}
  /\ op \in [Keys -> {None, "open", "confirmed", "rejected", "unknown"}] /\ kept \subseteq Keys /\ sel \subseteq Keys
  /\ \A k \in Keys : row[k].st \in {None, "pending", "started", "confirmed", "rejected", "unknown"}
  /\ \A c \in Callers : call[c].pc = "waiting" => InFlight(call[c].key)

\* What the row of an operation says of it is true through retries, lost answers, restarts and replays:
\* a rejected one had no effect, a confirmed one had.  The exception is a compaction that was settled by the
\* event of another one, which the events cannot tell apart.
OutcomeTrue ==
  \A k \in Keys \ crossed :
    /\ row[k].st = "rejected" => k \notin ran
    /\ row[k].st = "confirmed" => k \in ran

\* A compaction the SDK made is settled once its events are reduced (one whose events are read from the log by a
\* later generation may be passed over, stays unknown and keeps the session from being ready).
CompletionCounts == kind = "compact" /\ net = <<>> => Unresolved \cap ran = {}

\* However often a key is called, before and after a restart, its request is sent once.
SentOnce == \A k \in Keys : tries[k] <= 1

\* A Fleet run holds the session's liveness while its submission lives, and only then: it was started, and the
\* receipts, idle events, snapshots, late tasks and restarts in between left no lease behind.  The exception is a
\* submission that a late task opened in a later process, where the key's next call finds no result and calls the
\* outcome unknown.
LeaseTrue ==
  \A k \in Keys :
    /\ fleet[k].sub \in Live => fleet[k].lease
    /\ fleet[k].lease => k \in ran /\ (fleet[k].sub \in Live \/ (k \notin kept /\ fleet[k].sub = "outcome_unknown"))
\* No lease outlives its submission (it does in that case).
LeaseEnds == \A k \in Keys : fleet[k].lease => fleet[k].sub \in Live

\* A command that stays confirmed keeps the submission of its prompt, whoever settles it again.
SubmissionKept == [][\A k \in Keys : row[k].sub /\ row'[k].st = "confirmed" => row'[k].sub]_vars

\* The outcome of a compaction is final: receipts of the caller, of the reconciliation and SDK events come
\* in any order, and none of them changes an outcome that is known.
CompactionFinal ==
  [][kind = "compact" => \A k \in Keys : row[k].st \in {"confirmed", "rejected"} => row'[k].st = row[k].st]_vars

\* What is on record of an operation, and what it holds, is true.
RecordsTrue == OutcomeTrue /\ LeaseTrue
=============================================================================
