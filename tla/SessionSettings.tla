-------------------------- MODULE SessionSettings --------------------------
(***************************************************************************)
(* The four settings of a live session: its mode, its model, the selected  *)
(* agent and remote access.  Each has a desired value (not remote), a      *)
(* pending transition and the value the runtime was last observed to have; *)
(* a change is committed as pending, sent to the SDK through the command   *)
(* mailbox, read back and settled, while SDK events and snapshots write    *)
(* the same columns.  A behaviour is about one setting, chosen in Init.    *)
(***************************************************************************)
EXTENDS Integers, Sequences, FiniteSets

CONSTANTS
  Settings,   \* the settings looked at
  Callers,    \* the calls a user makes, numbered from 1
  MaxFaults,  \* bound on crashes, refusals and lost answers
  MaxDrift    \* bound on changes the session makes by itself

ASSUME SettingsAssumption == Settings \subseteq {"mode", "model", "agent", "remote"}

VARIABLES
  kind,    \* the setting of this behaviour
  row,     \* its columns of session_bindings
  tr,      \* runtime_agent_transitions, runtime_remote_transitions
  sdk,     \* the value in the SDK session
  late,    \* the call whose request timed out and may still take effect, or 0
  net,     \* SDK events on their way to the reducer, in order
  clock,   \* SDK timestamps: changes of the value so far
  call,    \* the calls
  mbox,    \* calls in the command mailbox, the first one running
  snap,    \* the snapshot query under way
  up,      \* the session is attached and READY
  faults, drifts,
  ran,     \* history: calls whose request took effect
  raced    \* history: a snapshot was merged although a change had overtaken it, a mode or model
           \* was changed by a call whose pending receipt the row did not take, or a remote event
           \* was taken for the value of another change that was pending

vars == <<kind, row, tr, sdk, late, net, clock, call, mbox, snap, up, faults, drifts, ran, raced>>

None == "none"
Base == [mode |-> "interactive", model |-> "m1", agent |-> "default", remote |-> "off"]
Others == [mode |-> {"plan"}, model |-> {"m2"}, agent |-> {"x", "y"}, remote |-> {"on", "export"}]
Values == {Base[kind]} \cup Others[kind]
Transitional == kind \in {"agent", "remote"}
NoSnap == [pc |-> "idle", val |-> None, crossed |-> FALSE]

Init ==
  /\ kind \in Settings
  /\ row = [desired |-> Base[kind], pending |-> None, tid |-> 0, runtime |-> Base[kind], ts |-> 0]
  /\ tr = [c \in Callers |-> [st |-> None, prev |-> None, at |-> 0]]
  /\ sdk = Base[kind] /\ late = 0 /\ net = <<>> /\ clock = 0
  /\ call = [c \in Callers |-> [pc |-> "idle", to |-> None, prev |-> None]]
  /\ mbox = <<>> /\ snap = NoSnap /\ up = TRUE
  /\ faults = 0 /\ drifts = 0 /\ ran = {} /\ raced = FALSE

Fault == faults < MaxFaults /\ faults' = faults + 1
Session == <<kind, sdk, late, net, clock, up, drifts, ran>>
World == <<Session, raced>>
Cleared(r) == [r EXCEPT !.pending = None, !.tid = 0]
-----------------------------------------------------------------------------
(***************************************************************************)
(* The reducer: internal receipts                                          *)
(***************************************************************************)
\* mode.confirmed and mode.observed; t = 0 for an observation without a transition
ModeObserved(r, v, t) ==
  LET matches == r.pending = v /\ t \in {0, r.tid}
      seen == [r EXCEPT !.runtime = v]
  IN IF matches THEN [Cleared(seen) EXCEPT !.desired = v] ELSE seen
ModePending(r, v, t) == IF r.pending = None THEN [r EXCEPT !.pending = v, !.tid = t] ELSE r
ModeUnknown(r) == [r EXCEPT !.runtime = "unknown"]
ModeRejected(r, t) == IF r.tid = t THEN Cleared(r) ELSE r

ModelPending(r, v, t) == IF r.pending = None THEN [r EXCEPT !.pending = v, !.tid = t] ELSE r
ApplyModelObservation(r, v, t) ==
  LET confirmed == r.pending = v /\ t \in {0, r.tid}
      seen == [r EXCEPT !.runtime = v]
  IN IF confirmed THEN [Cleared(seen) EXCEPT !.desired = v] ELSE seen
ModelUnknown(r) == [r EXCEPT !.runtime = "unknown"]
ModelRejected(r, t) == IF r.tid = t THEN Cleared(r) ELSE r

\* What an observed agent does to the row, whatever the source of the observation
AgentSeen(r, v) ==
  LET seen == [r EXCEPT !.runtime = v]
  IN IF r.pending = v THEN [Cleared(seen) EXCEPT !.desired = v] ELSE seen
\* Observations carry the wall clock, which is past every event sent so far.
Stamped(r, at) == [r EXCEPT !.ts = IF @ > at THEN @ ELSE at]
AgentObserved(r, v, at) == Stamped(AgentSeen(r, v), at)
AgentPending(r, v, t) == IF r.pending = None THEN [r EXCEPT !.pending = v, !.tid = t] ELSE r
\* agent_transition.settled: every form of it is for the transition the row names
AgentSettled(r, t, st, v, clear, seen) ==
  IF r.tid # t THEN r
  ELSE CASE st = "confirmed" -> [Cleared(r) EXCEPT !.desired = v, !.runtime = v]
         [] st = "unknown" /\ clear -> [Cleared(r) EXCEPT !.runtime = seen]
         [] st = "unknown" /\ ~clear -> [r EXCEPT !.runtime = "unknown"]
         [] st = "rejected" -> [Cleared(r) EXCEPT !.runtime = IF seen = None THEN @ ELSE seen]

\* Turning remote access off may take over a transition whose outcome is unknown.
RemotePending(r, v, t) ==
  IF r.tid = 0 \/ (v = "off" /\ r.runtime = "unknown") THEN [r EXCEPT !.pending = v, !.tid = t] ELSE r
RemoteSettled(r, t, st, v) ==
  IF r.tid # t THEN r
  ELSE CASE st = "confirmed" -> [Cleared(r) EXCEPT !.runtime = v]
         [] st = "unknown" -> [r EXCEPT !.runtime = "unknown"]
         [] st = "rejected" -> Cleared(r)
\* Deviation: forcing remote access off leaves the transition pending.
RemoteObservedKeeps(r, v, at) == Stamped([r EXCEPT !.runtime = v], at)
RemoteObserved(r, v, at) == Stamped([Cleared(r) EXCEPT !.runtime = v], at)
-----------------------------------------------------------------------------
(***************************************************************************)
(* The reducer: SDK events                                                 *)
(***************************************************************************)
\* session.mode_changed; asked: an exit_plan_mode interaction that was resolved to this mode
ModeChanged(r, e) ==
  LET seen == [r EXCEPT !.runtime = e.val, !.desired = IF r.pending = e.val \/ e.asked THEN e.val ELSE @]
  IN IF r.pending = e.val THEN Cleared(seen) ELSE seen
ModelChange(r, e) == ApplyModelObservation(r, e.val, 0)
ApplySelectedAgentEvent(r, e) == IF r.ts > e.ts THEN r ELSE [AgentSeen(r, e.val) EXCEPT !.ts = e.ts]
\* The event only says whether the session is steerable.
ApplyRemoteEvent(r, e) ==
  IF r.ts > e.ts THEN r
  ELSE [r EXCEPT !.ts = e.ts, !.runtime = IF e.val = "on" THEN "on" ELSE IF r.pending \in {"off", "export"} THEN r.pending ELSE "unknown"]

deliver ==
  LET e == Head(net)
      new == CASE kind = "mode" -> ModeChanged(row, e)
               [] kind = "model" -> ModelChange(row, e)
               [] kind = "agent" -> ApplySelectedAgentEvent(row, e)
               [] kind = "remote" -> ApplyRemoteEvent(row, e)
  IN /\ up /\ net # <<>> /\ net' = Tail(net)
     /\ row' = new
     \* the selected agent was the target of the transition under way
     /\ tr' = IF kind = "agent" /\ row.ts <= e.ts /\ row.tid # 0 /\ row.pending = e.val
              THEN [tr EXCEPT ![row.tid].st = IF @ \in {"pending", "unknown"} THEN "confirmed" ELSE @] ELSE tr
     /\ snap' = IF snap.pc = "idle" THEN snap ELSE [snap EXCEPT !.crossed = TRUE]
     /\ raced' = (raced \/ (kind = "remote" /\ row.ts <= e.ts /\ new.runtime \notin {e.val, "unknown"}))
     /\ UNCHANGED <<kind, sdk, late, clock, call, mbox, up, faults, drifts, ran>>
-----------------------------------------------------------------------------
(***************************************************************************)
(* The session at the SDK                                                  *)
(***************************************************************************)
\* The value changes and an event says so; for remote access it tells only steerability apart.
Changes(v, asked) ==
  /\ sdk' = v /\ clock' = clock + 1
  /\ net' = IF v = sdk \/ (kind = "remote" /\ "on" \notin {v, sdk}) THEN net
            ELSE Append(net, [val |-> v, ts |-> clock + 1, asked |-> asked])

\* The session changes by itself; a mode also because the user let it leave the plan mode.
SdkDrifts ==
  /\ up /\ drifts < MaxDrift /\ drifts' = drifts + 1
  /\ \E v \in Values \ {sdk}, asked \in BOOLEAN :
       (asked => kind = "mode") /\ (kind = "remote" => v # "export" /\ sdk # "export") /\ Changes(v, asked)
  /\ UNCHANGED <<kind, row, tr, late, call, mbox, snap, up, faults, ran, raced>>

\* A request whose answer was given up takes effect after all, or never; the SDK serves requests in order.
SdkLate ==
  /\ up /\ late # 0 /\ late' = 0
  /\ \/ Changes(call[late].to, FALSE) /\ ran' = ran \cup {late}
     \/ UNCHANGED <<sdk, clock, net, ran>>
  /\ UNCHANGED <<kind, row, tr, call, mbox, snap, up, faults, drifts, raced>>
-----------------------------------------------------------------------------
(***************************************************************************)
(* A call                                                                  *)
(***************************************************************************)
\* What _assert_dispatchable and the readiness blockers ask of this setting
Ready(r) ==
  /\ r.pending = None /\ r.tid = 0
  /\ IF kind = "remote" THEN r.runtime # "unknown" ELSE r.runtime = r.desired
Dispatchable == Ready(row)

Begin(c, v, pc, r) ==
  /\ call' = [call EXCEPT ![c] = [pc |-> pc, to |-> v, prev |-> row.runtime]]
  /\ row' = r /\ mbox' = IF pc = "queued" THEN Append(mbox, c) ELSE mbox
  /\ raced' = (raced \/ (kind \in {"mode", "model"} /\ pc = "queued" /\ r.tid # c))
  /\ UNCHANGED <<Session, tr, snap, faults>>

\* set_mode and set_model: the checks, then the pending receipt, whether or not the row takes it.
set_mode(c) ==
  /\ kind = "mode" /\ up
  /\ \/ \E v \in Values : call[c].pc = "idle" /\ Dispatchable /\ Begin(c, v, "checked", row)
     \/ call[c].pc = "checked" /\ Begin(c, call[c].to, "queued", ModePending(row, call[c].to, c))
set_model(c) ==
  /\ kind = "model" /\ up
  /\ \/ \E v \in Values : call[c].pc = "idle" /\ Dispatchable /\ Begin(c, v, "checked", row)
     \/ call[c].pc = "checked" /\ Begin(c, call[c].to, "queued", ModelPending(row, call[c].to, c))

\* select_agent, deselect_agent: the blockers, with a fresh snapshot once no other query is under way,
\* then the value the change starts from
change_agent(c) ==
  /\ kind = "agent" /\ up
  /\ \/ /\ call[c].pc = "idle" /\ snap.pc = "idle"
        /\ LET r == AgentObserved(row, sdk, clock + 1)
           IN Ready(r) /\ \E v \in Values : Begin(c, v, "checked", r)
     \/ call[c].pc = "checked" /\ Begin(c, call[c].to, "queued", row)
\* Off is allowed from everywhere; on and export only from off, with nothing pending.
set_remote(c) ==
  /\ kind = "remote" /\ up /\ call[c].pc = "idle" /\ snap.pc = "idle"
  /\ \E v \in Values :
       /\ v # row.runtime
       /\ v = "off" \/ (row.runtime = "off" /\ Dispatchable)
       /\ Begin(c, v, "queued", row)

Runs(c) == up /\ mbox # <<>> /\ Head(mbox) = c
To(c, pc) == call' = [call EXCEPT ![c].pc = pc]
\* The mailbox is done with the call; the caller learns how it ended.
Ends(c, pc) == To(c, pc) /\ mbox' = Tail(mbox)

\* The mailbox starts the operation, or gives it up because the fence is not safe any more.
dispatch(c) ==
  /\ Runs(c) /\ call[c].pc = "queued"
  /\ \/ To(c, IF Transitional THEN "admit" ELSE "set") /\ UNCHANGED <<mbox, faults>>
     \/ Fault /\ Ends(c, "unk")
  /\ UNCHANGED <<World, row, tr, snap>>

\* The transition is made durable within the operation...
admit(c) ==
  /\ Runs(c) /\ call[c].pc = "admit" /\ To(c, "claim")
  /\ row' = IF kind = "agent" THEN AgentPending(row, call[c].to, c) ELSE RemotePending(row, call[c].to, c)
  /\ tr' = [tr EXCEPT ![c] = [st |-> "pending", prev |-> call[c].prev, at |-> Cardinality({d \in Callers : tr[d].st # None})]]
  /\ UNCHANGED <<World, mbox, snap, faults>>
\* ...and read back: the call goes on only if the row names it and nothing moved since it was checked.
HoldsClaim(c) == row.runtime = call[c].prev /\ row.pending = call[c].to /\ row.tid = c
claim(c) ==
  /\ Runs(c) /\ call[c].pc = "claim"
  /\ IF HoldsClaim(c) THEN To(c, "set") /\ UNCHANGED mbox ELSE Ends(c, "rej")
  /\ UNCHANGED <<World, row, tr, snap, faults>>

\* The SDK request: answered, answered too late to be heard, or given up before it took effect.
request(c) ==
  /\ Runs(c) /\ call[c].pc = "set" /\ late = 0
  /\ \/ Changes(call[c].to, FALSE) /\ ran' = ran \cup {c} /\ UNCHANGED late
        /\ \/ To(c, "get") /\ UNCHANGED <<mbox, faults>>
           \/ Fault /\ Ends(c, "unk")
     \/ Fault /\ Ends(c, "unk") /\ late' = c /\ UNCHANGED <<sdk, clock, net, ran>>
  /\ UNCHANGED <<kind, row, tr, snap, up, drifts, raced>>
\* The value is read back; remote access has nothing to read it from.
readback(c) ==
  /\ Runs(c) /\ call[c].pc = "get"
  /\ \/ Ends(c, IF kind = "remote" \/ sdk = call[c].to THEN "ok" ELSE "unk") /\ UNCHANGED faults
     \/ Fault /\ Ends(c, "unk")
  /\ UNCHANGED <<World, row, tr, snap>>

\* The caller commits what came of it.
Receipt(c, st) ==
  LET v == call[c].to
  IN CASE kind = "mode" -> (CASE st = "confirmed" -> ModeObserved(row, v, c)
                              [] st = "unknown" -> ModeUnknown(row) [] st = "rejected" -> ModeRejected(row, c))
       [] kind = "model" -> (CASE st = "confirmed" -> ApplyModelObservation(row, v, c)
                               [] st = "unknown" -> ModelUnknown(row) [] st = "rejected" -> ModelRejected(row, c))
       [] kind = "agent" -> AgentSettled(row, c, st, v, FALSE, None)
       [] kind = "remote" -> RemoteSettled(row, c, st, v)
Outcome(c) == CASE call[c].pc = "ok" -> "confirmed" [] call[c].pc = "unk" -> "unknown" [] call[c].pc = "rej" -> "rejected"
settle(c) ==
  LET st == Outcome(c)
  IN /\ up /\ call[c].pc \in {"ok", "unk", "rej"} /\ To(c, st)
     /\ row' = Receipt(c, st)
     /\ tr' = IF Transitional /\ tr[c].st # None THEN [tr EXCEPT ![c].st = st] ELSE tr
     /\ UNCHANGED <<World, mbox, snap, faults>>
-----------------------------------------------------------------------------
(***************************************************************************)
(* Snapshots of the agents and of remote access                            *)
(***************************************************************************)
\* The agents are asked of the SDK; for remote access the row itself is read again.
query_snapshot ==
  /\ up /\ Transitional /\ snap.pc = "idle"
  /\ snap' = [pc |-> "read", val |-> IF kind = "agent" THEN sdk ELSE row.runtime, crossed |-> FALSE]
  /\ UNCHANGED <<World, row, tr, call, mbox, faults>>
\* Deviation: a snapshot is merged whatever came in since it was asked for.
MergeAnyway == TRUE
\* A snapshot that SDK events crossed is put off; it is asked for again.
MayMerge == ~snap.crossed
ApplySnapshot(r) == IF kind = "agent" THEN AgentObserved(r, snap.val, clock + 1) ELSE [r EXCEPT !.runtime = snap.val]
commit_snapshot ==
  /\ up /\ snap.pc = "read" /\ snap' = NoSnap
  /\ row' = IF MayMerge THEN ApplySnapshot(row) ELSE row
  /\ raced' = (raced \/ (~snap.crossed /\ snap.val # IF kind = "agent" THEN sdk ELSE row.runtime))
  /\ UNCHANGED <<kind, tr, sdk, late, net, clock, call, mbox, up, faults, drifts, ran>>
-----------------------------------------------------------------------------
(***************************************************************************)
(* A crash and the next attach                                             *)
(***************************************************************************)
\* Calls, events and queries of the process are gone; a call that ended keeps what it learnt.
Stops ==
  /\ up /\ Fault /\ up' = FALSE
  /\ mbox' = <<>> /\ net' = <<>> /\ late' = 0 /\ snap' = NoSnap
  /\ UNCHANGED <<kind, tr, sdk, clock, drifts, ran, raced>>
Ended(c) == call[c].pc \in {"idle", "confirmed", "unknown", "rejected"}
crash ==
  /\ Stops /\ UNCHANGED row
  /\ call' = [c \in Callers |-> IF Ended(c) THEN call[c] ELSE [call[c] EXCEPT !.pc = "lost"]]
\* An emergency stop defers what the mailbox had not begun; the caller may still commit that it was refused.
emergency_stop(c) ==
  /\ Stops /\ call[c].pc = "queued" /\ row' = Receipt(c, "rejected")
  /\ call' = [d \in Callers |-> IF d = c THEN [call[c] EXCEPT !.pc = "rejected"]
                                ELSE IF Ended(d) THEN call[d] ELSE [call[d] EXCEPT !.pc = "lost"]]

\* The transition to settle: the one the row names, else the newest unsettled one
Unsettled == {c \in Callers : tr[c].st \in {"pending", "unknown"}}
Picked == IF row.tid \in Unsettled THEN row.tid ELSE CHOOSE c \in Unsettled : \A d \in Unsettled : tr[d].at <= tr[c].at
ReconcileAgent(v) ==
  IF Unsettled = {} /\ row.tid = 0
  THEN row' = AgentObserved(row, v, clock + 1) /\ UNCHANGED tr
  ELSE LET t == IF Unsettled = {} THEN row.tid ELSE Picked
           prev == IF Unsettled = {} THEN row.desired ELSE tr[t].prev
           target == IF Unsettled = {} THEN row.pending ELSE call[t].to
           st == IF v = target THEN "confirmed" ELSE IF v = prev THEN "rejected" ELSE "unknown"
       \* the agents snapshot that primes readiness follows
       IN /\ row' = AgentObserved(AgentSettled(row, t, st, target, st = "unknown", v), v, clock + 1)
          /\ tr' = [tr EXCEPT ![t].st = st]
\* Remote access is forced off whatever it was.
ReconcileRemote ==
  /\ row' = RemoteObserved(row, "off", clock + 1)
  /\ tr' = IF row.tid # 0 THEN [tr EXCEPT ![row.tid].st = IF @ \in {"pending", "unknown"} THEN "unknown" ELSE @] ELSE tr

\* begin_attachment forgets the mode and the model; the resumed session may have another value.
attach ==
  /\ ~up /\ up' = TRUE
  /\ \E v \in Values :
       /\ IF v = sdk THEN drifts' = drifts ELSE drifts < MaxDrift /\ drifts' = drifts + 1
       /\ sdk' = IF kind = "remote" THEN "off" ELSE v
       /\ CASE kind = "mode" -> row' = ModeObserved(ModeUnknown(row), v, 0) /\ UNCHANGED tr
            [] kind = "model" -> row' = ApplyModelObservation(ModelUnknown(row), v, 0) /\ UNCHANGED tr
            [] kind = "agent" -> ReconcileAgent(v)
            [] kind = "remote" -> ReconcileRemote
  /\ clock' = clock + 1
  /\ UNCHANGED <<kind, late, net, call, mbox, snap, faults, ran, raced>>

Next ==
  \/ \E c \in Callers :
       \/ set_mode(c) \/ set_model(c) \/ change_agent(c) \/ set_remote(c)
       \/ dispatch(c) \/ admit(c) \/ claim(c) \/ request(c) \/ readback(c) \/ settle(c) \/ emergency_stop(c)
  \/ deliver \/ SdkDrifts \/ SdkLate \/ query_snapshot \/ commit_snapshot \/ crash \/ attach
Spec == Init /\ [][Next]_vars
-----------------------------------------------------------------------------
TypeOK ==
  /\ kind \in Settings /\ sdk \in Values /\ late \in Callers \cup {0}
  /\ row \in [desired : Values, pending : Values \cup {None}, tid : Callers \cup {0}, runtime : Values \cup {"unknown"}, ts : Nat]
  /\ \A c \in Callers : tr[c].st \in {None, "pending", "confirmed", "unknown", "rejected"}
  /\ snap.pc \in {"idle", "read"} /\ Len(mbox) <= Cardinality(Callers)

Settled == {"idle", "checked", "confirmed", "unknown", "rejected", "lost"}
Quiet == up /\ net = <<>> /\ late = 0 /\ snap.pc = "idle" /\ \A c \in Callers : call[c].pc \in Settled

\* When no call, event or snapshot is on its way, a session that lets messages through really has the
\* value the user asked for (for remote access, the one the row shows), whatever order the receipts of
\* two calls, late effects, SDK events, snapshots and restarts came in.  The exceptions are changes the
\* session makes by itself, a snapshot that was overtaken by a change whose event had not come in when
\* it was merged, a mode or model change that runs although another one holds the pending column, and
\* a late remote event, which names no value, that was taken for another change that was pending.
SendsAsDesired ==
  Dispatchable /\ Quiet /\ ~raced /\ drifts = 0 => sdk = (IF kind = "remote" THEN row.runtime ELSE row.desired)

\* An attach that finds an agent transition left behind settles it for what it was: confirmed only if
\* a request for its target took effect (or the session began with it), rejected only if its own did not, as long as the session changed nothing
\* by itself.
AttachSettlesTruly ==
  [][~up /\ up' /\ kind = "agent" /\ row.tid # 0 /\ drifts' = 0 =>
       LET t == row.tid
       IN /\ tr'[t].st = "rejected" => t \notin ran
          /\ tr'[t].st = "confirmed" => call[t].to = Base[kind] \/ \E c \in ran : call[c].to = call[t].to]_vars

\* The pending transition of an attached session was begun in this attachment: an attach settles what
\* the process before it left behind.
PendingIsCurrent == up /\ row.tid # 0 => call[row.tid].pc # "lost"
TransitionIsCurrent == Transitional => PendingIsCurrent

\* What lets messages through is the value the user asked for, and no transition is left behind.
SettingsTrue == SendsAsDesired /\ TransitionIsCurrent
=============================================================================
