---------------------------- MODULE ServiceRestart ----------------------------
(***************************************************************************)
(* The durable restart transaction of ops/service.py and ops/control.py.   *)
(* A manager (the restart command or the watchdog, another process) asks   *)
(* the bot to stop admitting work by a row of service_admission_fences;    *)
(* the bot's ServiceControlWorker quiesces, drains and acknowledges; the   *)
(* manager takes a snapshot, prepares a forced restart, commits the owner  *)
(* handoff and replaces the bot; the replacement adopts the fence.  SDK    *)
(* callbacks arrive all the time and are counted, durably, under a fence.  *)
(* A restart that is adopted as clean must not have lost one of them.      *)
(***************************************************************************)
EXTENDS Integers

CONSTANTS Managers,     \* restart commands and watchdog passes
          Scenes,       \* bounds: what each manager wants ("absent": nothing), callbacks, crashes
          MaxFences,    \* bound: fences ever requested
          Capacity,     \* of the reducer inbox
          NoTxn         \* nobody holds the write lock of the database

Modes == {"normal", "force", "replay", "absent"}
RestartAssumption ==
  /\ Scenes \subseteq [mode : [Managers -> Modes], events : Nat, crashes : Nat]
  /\ MaxFences \in Nat /\ Capacity \in Nat \ {0} /\ NoTxn \notin Managers

VARIABLES
  scene,     \* one of Scenes
  fence,     \* the rows of service_admission_fences
  pend,      \* fences with a marker in their .pending directory
  marks,     \* fences with a .loss or .accounting-failure marker
  journal,   \* MAX(journal_id) of event_journal
  work,      \* rows that block a restart: queue, operations, leases
  bot,       \* the process the service manager keeps running
  mgr,       \* the restarters
  txn,       \* the manager inside BEGIN IMMEDIATE
  dirty,     \* history: fences under which a received callback was lost
  clean,     \* history: fences adopted without marking work unknown
  crashes
vars == <<scene, fence, pend, marks, journal, work, bot, mgr, txn, dirty, clean, crashes>>
durable == <<scene, fence, pend, marks, journal, work>>

Fences == 1..MaxFences
Reversible == {"requested", "acknowledged", "violated"}
Irreversible == {"prepared", "committed"}
ActiveFences == {f \in Fences : fence[f].state \in Reversible \cup Irreversible}
NoFence == [state |-> "none", gen |-> 0, producers |-> 0, ackP |-> -1, ackJ |-> -1, violations |-> 0]
Phases == {"down", "starting", "adopting", "idle", "begin", "drain0", "top", "depth", "journal",
           "drain", "after", "depth2", "journal2", "ack", "rollback", "ending"}
Fresh(g) == [gen |-> g, phase |-> "starting", active |-> 0, seen |-> "none", watch |-> FALSE,
             violations |-> 0, depth |-> 0, callback |-> "none", lost |-> FALSE,
             producers |-> 0, before |-> 0, high |-> 0, after |-> 0, received |-> 0]
Up == bot.phase # "down"
Running == bot.phase \notin {"down", "starting", "adopting"}
StateOf(f) == fence[f].state

Mode == scene.mode

Init ==
  /\ scene \in Scenes
  /\ fence = [f \in Fences |-> NoFence]
  /\ pend = {} /\ marks = {} /\ journal = 0 /\ work \in BOOLEAN
  /\ bot = [Fresh(1) EXCEPT !.phase = "idle"]
  /\ mgr = [m \in Managers |-> [pc |-> "idle", fence |-> 0, gen |-> 0, blocked |-> FALSE, sure |-> FALSE]]
  /\ txn = NoTxn /\ dirty = {} /\ clean = {} /\ crashes = 0

-----------------------------------------------------------------------------
(* Callbacks: _reserve with the observers of the quiesce. *)

(* _record_producer_sync's UPDATE. *)
Counted(row) ==
  IF row.state \notin Reversible \cup Irreversible THEN row
  ELSE [row EXCEPT !.producers = @ + 1,
                   !.violations = IF row.state = "requested" THEN @ ELSE @ + 1,
                   !.state = IF @ = "acknowledged" THEN "violated" ELSE @]

(* The rest of _reserve: a slot, or an overflow that _record_loss_sync marks. *)
Admit(b) ==
  IF b.depth < Capacity
  THEN /\ bot' = [b EXCEPT !.depth = @ + 1]
       /\ UNCHANGED <<marks, dirty>>
  ELSE /\ bot' = [b EXCEPT !.lost = TRUE]
       /\ marks' = IF b.watch THEN marks \cup {b.active} ELSE marks
       /\ dirty' = IF b.watch THEN dirty \cup {b.active} ELSE dirty

Receive ==
  /\ Running /\ bot.callback = "none" /\ bot.received < scene.events
  /\ LET b == [bot EXCEPT !.received = @ + 1] IN
     IF b.watch
     THEN /\ bot' = [b EXCEPT !.violations = @ + 1, !.callback = "marked"]
          /\ pend' = pend \cup {b.active}
          /\ UNCHANGED <<marks, dirty>>
     ELSE Admit(b) /\ UNCHANGED pend
  /\ UNCHANGED <<scene, fence, journal, work, mgr, txn, clean, crashes>>

Account ==
  /\ Up /\ bot.callback = "marked" /\ txn = NoTxn
  /\ fence' = [fence EXCEPT ![bot.active] = Counted(@)]
  /\ bot' = [bot EXCEPT !.callback = "counted"]
  /\ UNCHANGED <<scene, pend, marks, journal, work, mgr, txn, dirty, clean, crashes>>

(* sqlite3.connect(timeout = 0): the database may be locked; the callback raises and is lost. *)
AccountFails ==
  /\ Up /\ bot.callback = "marked"
  /\ marks' = marks \cup {bot.active}
  /\ dirty' = dirty \cup {bot.active}
  /\ bot' = [bot EXCEPT !.callback = "none"]
  /\ UNCHANGED <<scene, fence, pend, journal, work, mgr, txn, clean, crashes>>

Enter ==
  /\ Up /\ bot.callback = "counted"
  /\ pend' = pend \ {bot.active}
  /\ Admit([bot EXCEPT !.callback = "none"])
  /\ UNCHANGED <<scene, fence, journal, work, mgr, txn, clean, crashes>>

(* The reducer commits a receipt; what it says may begin or end work. *)
Reduce ==
  /\ Running /\ bot.depth > 0 /\ txn = NoTxn
  /\ bot' = [bot EXCEPT !.depth = @ - 1]
  /\ journal' = journal + 1
  /\ work' \in BOOLEAN
  /\ UNCHANGED <<scene, fence, pend, marks, mgr, txn, dirty, clean, crashes>>

-----------------------------------------------------------------------------
(* The process: death, start and adoption. *)

Dying == /\ bot' = [bot EXCEPT !.phase = "down", !.depth = 0, !.callback = "none"]
         /\ dirty' = dirty \cup {f \in ActiveFences : /\ fence[f].gen = bot.gen
                                                      /\ bot.depth > 0 \/ bot.callback # "none"}

Crash ==
  /\ Running /\ crashes < scene.crashes
  /\ Dying /\ crashes' = crashes + 1
  /\ UNCHANGED <<durable, mgr, txn, clean>>

StartBot ==
  /\ ~Up
  /\ bot' = [Fresh(bot.gen + 1) EXCEPT !.received = bot.received]
  /\ UNCHANGED <<durable, mgr, txn, dirty, clean, crashes>>

(* setup_hook: recovery_fence. *)
LookForFence ==
  /\ bot.phase = "starting"
  /\ \/ /\ ActiveFences = {}
        /\ bot' = [bot EXCEPT !.phase = "idle"]
     \/ \E f \in ActiveFences :
          bot' = [bot EXCEPT !.phase = "adopting", !.active = f, !.seen = fence[f].state]
  /\ UNCHANGED <<durable, mgr, txn, dirty, clean, crashes>>

(* recover_for_replacement finishes a prepared handoff first. *)
AdoptPrepared ==
  /\ bot.phase = "adopting" /\ bot.seen = "prepared" /\ txn = NoTxn
  /\ \/ /\ StateOf(bot.active) = "prepared"
        /\ fence' = [fence EXCEPT ![bot.active].state = "committed"]
        /\ bot' = [bot EXCEPT !.seen = "committed"]
        /\ UNCHANGED dirty
     \/ /\ StateOf(bot.active) # "prepared"
        /\ Dying /\ UNCHANGED fence
  /\ UNCHANGED <<scene, pend, marks, journal, work, mgr, txn, clean, crashes>>

(* A bug: the rows are compared, the marker files are not. *)
AsAcknowledgedRows(f) ==
  /\ fence[f].producers = fence[f].ackP
  /\ journal = fence[f].ackJ
  /\ fence[f].violations = 0

(* What the replacement compares with the acknowledgement before it calls the handoff clean. *)
AsAcknowledged(f) ==
  /\ fence[f].producers = fence[f].ackP
  /\ journal = fence[f].ackJ
  /\ fence[f].violations = 0
  /\ f \notin pend \cup marks

Adopt ==
  /\ bot.phase = "adopting" /\ bot.seen # "prepared" /\ txn = NoTxn
  /\ LET f == bot.active
         still == IF bot.seen = "committed" THEN {"committed"} ELSE Reversible IN
     \/ /\ StateOf(f) \in still
        /\ fence' = [fence EXCEPT ![f].state = "released"]
        /\ clean' = IF bot.seen = "committed" /\ AsAcknowledged(f) THEN clean \cup {f} ELSE clean
        /\ pend' = pend \ {f} /\ marks' = marks \ {f}
        /\ bot' = [bot EXCEPT !.phase = "idle", !.active = 0, !.seen = "none"]
        /\ UNCHANGED dirty
     \/ /\ StateOf(f) \notin still
        /\ Dying /\ UNCHANGED <<fence, clean, pend, marks>>
  /\ UNCHANGED <<scene, journal, work, mgr, txn, crashes>>

-----------------------------------------------------------------------------
(* ServiceControlWorker. *)

Goto(p) == bot' = [bot EXCEPT !.phase = p]
NoOthers == UNCHANGED <<scene, journal, work, mgr, txn, clean, crashes>>

(* _poll_once without an active fence: the oldest request, ours or another process's. *)
Pick ==
  /\ bot.phase = "idle" /\ bot.active = 0 /\ txn = NoTxn
  /\ \E f \in {g \in Fences : StateOf(g) = "requested"} :
       IF fence[f].gen = bot.gen
       THEN /\ bot' = [bot EXCEPT !.phase = "begin", !.active = f]
            /\ UNCHANGED fence
       ELSE /\ fence' = [fence EXCEPT ![f].state = "released"]
            /\ UNCHANGED bot
  /\ UNCHANGED <<pend, marks, dirty>> /\ NoOthers

(* A bug: a fence that moved on is always rolled back. *)
PollRollsBack ==
  /\ bot.phase = "idle" /\ bot.active # 0
  /\ StateOf(bot.active) # "acknowledged" /\ Goto("rollback")
  /\ UNCHANGED <<fence, pend, marks, dirty>> /\ NoOthers

(* _poll_once under an active fence; an irreversible one ends the process. *)
Poll ==
  /\ bot.phase = "idle" /\ bot.active # 0
  /\ LET state == StateOf(bot.active) IN
     \/ state \in Irreversible /\ Dying /\ UNCHANGED fence
     \/ state \in {"released", "violated"} /\ Goto("rollback") /\ UNCHANGED <<fence, dirty>>
     \/ /\ state = "acknowledged" /\ bot.depth > 0 /\ txn = NoTxn
        /\ fence' = [fence EXCEPT ![bot.active] = Counted(@)]
        /\ UNCHANGED <<bot, dirty>>
  /\ UNCHANGED <<pend, marks>> /\ NoOthers

(* begin_service_quiesce: close admission, install the observers under the inbox lock. *)
Begin ==
  /\ bot.phase = "begin" /\ bot.callback = "none"
  /\ bot' = [bot EXCEPT !.phase = "drain0", !.watch = TRUE, !.violations = 0]
  /\ marks' = IF bot.lost THEN marks \cup {bot.active} ELSE marks
  /\ UNCHANGED <<fence, pend, dirty>> /\ NoOthers

(* inbox.join, at the end of the begin and as the final drain. *)
Drained ==
  /\ bot.phase \in {"drain0", "drain"} /\ bot.depth = 0
  /\ Goto(IF bot.phase = "drain0" THEN "top" ELSE "after")
  /\ UNCHANGED <<fence, pend, marks, dirty>> /\ NoOthers

(* _mark_quiesce_failed, then _rollback_quiesce. *)
Failed(row) == IF row.state # "requested" THEN row
               ELSE [row EXCEPT !.state = "violated", !.violations = @ + 1]
GiveUp == txn = NoTxn /\ fence' = [fence EXCEPT ![bot.active] = Failed(@)] /\ Goto("rollback")

(* _await_or_abort and _retry_requested_fence: the deadline, or the fence moved on. *)
LookAgain ==
  /\ bot.phase \in {"begin", "drain0", "drain", "top"}
  /\ LET state == StateOf(bot.active) IN
     \/ state \in Irreversible /\ Dying /\ UNCHANGED fence
     \/ state \notin Irreversible \cup {"requested"} /\ Goto("rollback") /\ UNCHANGED <<fence, dirty>>
     \/ state = "requested" /\ GiveUp /\ UNCHANGED dirty
  /\ UNCHANGED <<pend, marks>> /\ NoOthers

ReadBefore ==
  /\ UNCHANGED <<pend, marks, dirty>> /\ NoOthers
  /\ \/ /\ bot.phase = "top" /\ StateOf(bot.active) = "requested"
        /\ bot' = [bot EXCEPT !.phase = "depth", !.producers = fence[bot.active].producers]
        /\ UNCHANGED fence
     \/ /\ bot.phase = "depth" /\ bot.violations = 0
        /\ bot' = [bot EXCEPT !.phase = "journal", !.before = bot.depth]
        /\ UNCHANGED fence
     \/ bot.phase = "depth" /\ bot.violations > 0 /\ GiveUp
     \/ /\ bot.phase = "journal" /\ bot.active \notin pend \cup marks
        /\ bot' = [bot EXCEPT !.phase = "drain", !.high = journal]
        /\ UNCHANGED fence
     \/ bot.phase = "journal" /\ bot.active \in pend \cup marks /\ GiveUp

(* The same numbers after the final drain; a difference starts over. *)
SameAsBefore == bot.before = 0 /\ bot.producers = bot.after /\ bot.high = journal

ReadAfter ==
  /\ UNCHANGED <<pend, marks, dirty>> /\ NoOthers
  /\ \/ /\ bot.phase = "after"
        /\ bot' = [bot EXCEPT !.phase = "depth2", !.after = fence[bot.active].producers]
        /\ UNCHANGED fence
     \/ bot.phase = "depth2" /\ bot.depth = 0 /\ bot.violations = 0 /\ Goto("journal2") /\ UNCHANGED fence
     \/ bot.phase = "depth2" /\ bot.depth = 0 /\ bot.violations > 0 /\ GiveUp
     \/ /\ bot.phase = "depth2" /\ bot.depth > 0 /\ txn = NoTxn
        /\ fence' = [fence EXCEPT ![bot.active] = Failed(Counted(@))]
        /\ Goto("rollback")
     \/ /\ bot.phase = "journal2" /\ bot.active \notin pend \cup marks
        /\ Goto(IF SameAsBefore THEN "ack" ELSE "top")
        /\ UNCHANGED fence
     \/ bot.phase = "journal2" /\ bot.active \in pend \cup marks /\ GiveUp

(* The compare-and-set that acknowledges. *)
MayAcknowledge(f) ==
  /\ StateOf(f) = "requested" /\ fence[f].violations = 0
  /\ fence[f].producers = bot.producers
  /\ journal = bot.high

Acknowledge ==
  /\ bot.phase = "ack" /\ txn = NoTxn
  /\ LET f == bot.active IN
     \/ /\ MayAcknowledge(f)
        /\ fence' = [fence EXCEPT ![f].state = "acknowledged", ![f].ackP = bot.producers, ![f].ackJ = bot.high]
        /\ Goto("idle")
     \/ ~MayAcknowledge(f) /\ Goto("top") /\ UNCHANGED fence
  /\ UNCHANGED <<pend, marks, dirty>> /\ NoOthers

(* _rollback_quiesce: end_service_quiesce reopens admission, or runs into its timeout. *)
Rollback ==
  /\ UNCHANGED <<pend, marks, dirty>> /\ NoOthers
  /\ \/ /\ bot.phase = "rollback" /\ txn = NoTxn
        /\ fence' = [fence EXCEPT ![bot.active].state = IF @ = "violated" THEN "released" ELSE @]
        /\ Goto("ending")
     \/ /\ bot.phase = "ending" /\ bot.callback = "none"
        /\ bot' = [bot EXCEPT !.phase = "idle", !.active = 0, !.watch = FALSE, !.violations = 0]
        /\ UNCHANGED fence
     \/ /\ bot.phase = "ending" /\ bot.callback = "none"
        /\ \E w \in {bot.watch, FALSE} : bot' = [bot EXCEPT !.phase = "idle", !.watch = w]
        /\ UNCHANGED fence

WorkerStep == Pick \/ Poll \/ Begin \/ Drained \/ LookAgain \/ ReadBefore \/ ReadAfter
              \/ Acknowledge \/ Rollback

-----------------------------------------------------------------------------
(* The managers: ServiceManager.restart and _watchdog_restart. *)

Set(m, r) == mgr' = [mgr EXCEPT ![m] = r]
At(m, pc) == mgr[m].pc = pc
To(m, pc) == Set(m, [mgr[m] EXCEPT !.pc = pc])
Quit(m) == To(m, "abort")
BotKept == UNCHANGED <<bot, dirty, clean, crashes>>
DataKept == UNCHANGED <<scene, pend, marks, journal, work>>

(* status(): the process the heartbeat and the service manager agree on. *)
Look(m) ==
  /\ At(m, "idle") /\ Mode[m] # "absent" /\ Running
  /\ Set(m, [mgr[m] EXCEPT !.pc = "request", !.gen = bot.gen])
  /\ UNCHANGED <<fence, txn>> /\ DataKept /\ BotKept

(* A bug: another manager's fence is not looked for. *)
RequestBeside(m) ==
  /\ At(m, "request") /\ txn = NoTxn
  /\ \E n \in {f \in Fences : StateOf(f) = "none"} :
       /\ fence' = [fence EXCEPT ![n] = [NoFence EXCEPT !.state = "requested", !.gen = mgr[m].gen]]
       /\ Set(m, [mgr[m] EXCEPT !.pc = "wait", !.fence = n])
  /\ UNCHANGED txn /\ DataKept /\ BotKept

(* request_quiesce: one active fence at a time; a stale one is superseded. *)
Request(m) ==
  /\ At(m, "request") /\ txn = NoTxn
  /\ \/ ActiveFences # {} /\ To(m, "failed") /\ UNCHANGED fence
     \/ /\ \A f \in ActiveFences : StateOf(f) \in Reversible
        /\ \E n \in {f \in Fences : StateOf(f) = "none"} :
             /\ \A f \in 1..(n - 1) : StateOf(f) # "none"
             /\ fence' = [f \in Fences |->
                            IF f = n THEN [NoFence EXCEPT !.state = "requested", !.gen = mgr[m].gen]
                            ELSE IF f \in ActiveFences THEN [fence[f] EXCEPT !.state = "released"]
                            ELSE fence[f]]
             /\ Set(m, [mgr[m] EXCEPT !.pc = "wait", !.fence = n])
  /\ UNCHANGED txn /\ DataKept /\ BotKept

(* _require_fence_state: the acknowledgement still describes the process. *)
StillAcknowledged(f, states) == StateOf(f) \in states /\ AsAcknowledged(f)

(* wait_for_quiesce. *)
WaitAcknowledged(m) ==
  /\ At(m, "wait")
  /\ To(m, IF StateOf(mgr[m].fence) = "acknowledged" THEN "snapshot" ELSE "abort")
  /\ UNCHANGED <<fence, txn>> /\ DataKept /\ BotKept

SnapshotUnderFence(m) ==
  /\ At(m, "snapshot") /\ txn = NoTxn
  /\ IF StillAcknowledged(mgr[m].fence, {"acknowledged"})
     THEN Set(m, [mgr[m] EXCEPT !.pc = "decide", !.blocked = work])
     ELSE Quit(m)
  /\ UNCHANGED <<fence, txn>> /\ DataKept /\ BotKept

(* _revalidate_restart_identity. *)
SameProcess(m) == Up /\ bot.gen = mgr[m].gen

Decide(m) ==
  /\ At(m, "decide")
  /\ IF /\ SameProcess(m) /\ StillAcknowledged(mgr[m].fence, {"acknowledged", "prepared"})
        /\ mgr[m].blocked => Mode[m] # "normal"
     THEN To(m, IF Mode[m] = "force" THEN "prepare" ELSE "recheck")
     ELSE Quit(m)
  /\ UNCHANGED <<fence, txn>> /\ DataKept /\ BotKept

(* prepare_force, in a thread of its own that the manager waits for with a deadline. *)
Unawaited == {"late", "later"}

PrepareBegin(m) ==
  /\ At(m, "prepare") \/ At(m, "later")
  /\ txn = NoTxn
  /\ IF StillAcknowledged(mgr[m].fence, {"acknowledged"})
     THEN To(m, IF At(m, "later") THEN "late" ELSE "preparing") /\ txn' = m
     ELSE To(m, IF At(m, "later") THEN "failed" ELSE "abort") /\ UNCHANGED txn
  /\ UNCHANGED fence /\ DataKept /\ BotKept

PrepareWrite(m) ==
  /\ At(m, "preparing") \/ At(m, "late")
  /\ fence' = [fence EXCEPT ![mgr[m].fence].state = "prepared"]
  /\ txn' = NoTxn
  /\ \/ At(m, "late") /\ To(m, "failed")
     \/ At(m, "preparing") /\ To(m, "overdue")
     \/ At(m, "preparing") /\ Set(m, [mgr[m] EXCEPT !.pc = "recheck", !.sure = TRUE])
  /\ DataKept /\ BotKept

(* ForcePreparationUncertain: the bot is terminated; the thread may still begin or commit. *)
PrepareTimeout(m) ==
  /\ \/ At(m, "prepare") /\ To(m, "later")
     \/ At(m, "preparing") /\ To(m, "late")
     \/ At(m, "overdue") /\ To(m, "failed")
  /\ IF Up THEN Dying ELSE UNCHANGED <<bot, dirty>>
  /\ UNCHANGED <<fence, txn, clean, crashes>> /\ DataKept

Recheck(m) ==
  /\ At(m, "recheck")
  /\ IF SameProcess(m) /\ StillAcknowledged(mgr[m].fence, {"acknowledged", "prepared"})
     THEN To(m, "commit") ELSE Quit(m)
  /\ UNCHANGED <<fence, txn>> /\ DataKept /\ BotKept

(* commit_quiesce: the checks and the write are one transaction, the markers are files beside it. *)
CommitBegin(m) ==
  /\ At(m, "commit") /\ txn = NoTxn
  /\ IF StillAcknowledged(mgr[m].fence, {"acknowledged", "prepared"})
     THEN To(m, "committing") /\ txn' = m
     ELSE Quit(m) /\ UNCHANGED txn
  /\ UNCHANGED fence /\ DataKept /\ BotKept

CommitWrite(m) ==
  /\ At(m, "committing")
  /\ fence' = [fence EXCEPT ![mgr[m].fence].state = "committed"]
  /\ txn' = NoTxn /\ To(m, "restart")
  /\ DataKept /\ BotKept

(* _restart_bot, or _terminate_bot_fail_closed when that fails: whatever runs is replaced. *)
RestartBot(m) ==
  /\ At(m, "restart") /\ To(m, "done")
  /\ IF Up THEN Dying ELSE UNCHANGED <<bot, dirty>>
  /\ UNCHANGED <<fence, txn, clean, crashes>> /\ DataKept

(* A bug: a restart that gives up leaves its fence behind. *)
AbortKeepsFence(m) ==
  /\ At(m, "abort") /\ txn = NoTxn /\ To(m, "failed")
  /\ UNCHANGED <<fence, pend, marks, bot, dirty, scene, txn, journal, work, clean, crashes>>

(* The error path of restart: an irreversible fence is committed and the bot terminated, *)
(* any other is released (release_quiesce) with its markers. *)
Abort(m) ==
  /\ At(m, "abort") /\ txn = NoTxn /\ To(m, "failed")
  /\ LET f == mgr[m].fence IN
     \/ /\ mgr[m].sure \/ StateOf(f) \in Irreversible
        /\ fence' = [fence EXCEPT ![f].state = IF @ = "prepared" THEN "committed" ELSE @]
        /\ IF Up THEN Dying ELSE UNCHANGED <<bot, dirty>>
        /\ UNCHANGED <<pend, marks>>
     \/ /\ ~mgr[m].sure /\ StateOf(f) \notin Irreversible
        /\ fence' = [fence EXCEPT ![f].state = IF @ \in Reversible THEN "released" ELSE @]
        /\ pend' = pend \ {f} /\ marks' = marks \ {f}
        /\ UNCHANGED <<bot, dirty>>
  /\ UNCHANGED <<scene, txn, journal, work, clean, crashes>>

(* The manager's process is killed, or ends before a thread nobody waits for; an open *)
(* transaction is rolled back. *)
Killed(m) ==
  /\ mgr[m].pc \notin {"idle", "done", "failed", "killed"}
  /\ To(m, IF mgr[m].pc \in Unawaited THEN "failed" ELSE "killed")
  /\ txn' = IF txn = m THEN NoTxn ELSE txn
  /\ UNCHANGED fence /\ DataKept /\ BotKept

ManagerStep(m) ==
  \/ Request(m) \/ WaitAcknowledged(m) \/ SnapshotUnderFence(m) \/ Decide(m)
  \/ PrepareBegin(m) \/ PrepareWrite(m) \/ PrepareTimeout(m) \/ Recheck(m)
  \/ CommitBegin(m) \/ CommitWrite(m) \/ RestartBot(m) \/ Abort(m)

BotStep == Account \/ AccountFails \/ Enter \/ Reduce
           \/ StartBot \/ LookForFence \/ AdoptPrepared \/ Adopt \/ WorkerStep

Next == \/ BotStep \/ Receive \/ Crash
        \/ \E m \in Managers : Look(m) \/ ManagerStep(m) \/ Killed(m)

Spec == Init /\ [][Next]_vars
Fairness == WF_vars(BotStep) /\ \A m \in Managers : WF_vars(ManagerStep(m))

-----------------------------------------------------------------------------
TypeOK ==
  /\ fence \in [Fences -> [state : {"none", "released"} \cup Reversible \cup Irreversible, gen : Nat,
                           producers : Nat, ackP : Int, ackJ : Int, violations : Nat]]
  /\ scene \in Scenes /\ pend \subseteq Fences /\ marks \subseteq Fences /\ journal \in Nat /\ work \in BOOLEAN
  /\ bot.phase \in Phases /\ bot.active \in Fences \cup {0} /\ bot.depth \in 0..Capacity
  /\ bot.callback \in {"none", "marked", "counted"}
  /\ txn \in Managers \cup {NoTxn} /\ dirty \subseteq Fences /\ clean \subseteq Fences

(* recover_for_replacement: a handoff the replacement adopts as clean, without setting anything *)
(* to unknown, lost no callback that the old process had received under its fence. *)
NothingLostSilently == clean \cap dirty = {}

(* prepare_force and _commit_owner_handoff are points of no return: the process whose fence is *)
(* prepared or committed never admits work again. *)
IrreversibleHolds ==
  \A f \in Fences : (StateOf(f) \in Irreversible /\ Running /\ bot.gen = fence[f].gen) => bot.watch

(* commit_quiesce: a restart that is neither forced nor replayed is committed only while nothing *)
(* blocks it, although the snapshot that found nothing is older than the commit. *)
NormalIsIdle ==
  [][\A m \in Managers : (CommitWrite(m) /\ Mode[m] = "normal") => ~work]_vars

(* restart, ServiceControlWorker and recover_for_replacement together bring every fence to an *)
(* end, unless a manager is killed in between. *)
FenceEnds ==
  \A f \in Fences : (f \in ActiveFences) ~> (f \notin ActiveFences \/ \E m \in Managers : At(m, "killed"))

(* _terminate_bot_fail_closed and _restart_bot replace the process the fence names, never its *)
(* replacement. *)
ReplacementSpared ==
  [][\A m \in Managers : (Abort(m) \/ RestartBot(m)) => (bot'.phase = bot.phase \/ bot.gen = mgr[m].gen)]_vars

(* request_quiesce: there is at most one restart at a time. *)
OneFence == \A f, g \in ActiveFences : f = g

(* One restart at a time, whose handoff loses nothing in silence and is never taken back. *)
HandoffSafe == OneFence /\ NothingLostSilently /\ IrreversibleHolds
=============================================================================
