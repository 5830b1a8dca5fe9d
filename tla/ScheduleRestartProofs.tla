------------------------ MODULE ScheduleRestartProofs ------------------------
(***************************************************************************)
(* Proofs about ServiceRestart, for every set of managers, every mixture   *)
(* of restarts and every capacity of the inbox: there is one restart at a  *)
(* time, a handoff adopted as clean lost no callback, and a process whose  *)
(* fence is past the point of no return stays closed.  And about           *)
(* ScheduleRuns, the runs that such a restart waits for or cuts short, for *)
(* every set of runs, every number of attempts, claims and crashes: a      *)
(* prompt is sent once, an end is announced, and an end is final.          *)
(***************************************************************************)
EXTENDS ServiceRestart, ScheduleRuns, TLAPS

-----------------------------------------------------------------------------
(* The shape of the state. *)

States == {"none", "released"} \cup Reversible \cup Irreversible
Callbacks == {"none", "marked", "counted"}
Stages == {"idle", "request", "wait", "snapshot", "decide", "prepare", "later", "preparing", "late",
           "overdue", "recheck", "commit", "committing", "restart", "abort", "done", "failed", "killed"}
FenceRows == [state : States, gen : Nat, producers : Nat, ackP : Int, ackJ : Int, violations : Nat]
Processes == [gen : Nat, phase : Phases, active : Fences \cup {0}, seen : States, watch : BOOLEAN,
              violations : Nat, depth : Nat, callback : Callbacks, lost : BOOLEAN,
              producers : Nat, before : Nat, high : Nat, after : Nat, received : Nat]
Restarters == [pc : Stages, fence : Fences \cup {0}, gen : Nat, blocked : BOOLEAN, sure : BOOLEAN]

ShapeInv ==
  /\ fence \in [Fences -> FenceRows] /\ bot \in Processes /\ mgr \in [Managers -> Restarters]
  /\ pend \subseteq Fences /\ marks \subseteq Fences /\ journal \in Nat /\ work \in BOOLEAN
  /\ txn \in Managers \cup {NoTxn} /\ dirty \subseteq Fences /\ clean \subseteq Fences
  /\ scene \in Scenes /\ bot.depth <= Capacity

-----------------------------------------------------------------------------
(* The inductive invariant, by parts. *)

Held == {"acknowledged", "prepared", "committed"}
Standing == Reversible \cup Irreversible
Quiescing == {"begin", "drain0", "top", "depth", "journal", "drain", "after", "depth2", "journal2", "ack"}
Counting == {"depth", "journal", "drain", "after", "depth2", "journal2", "ack"}
Draining == {"drain", "after", "depth2", "journal2", "ack"}

(* A fence names a process that ran when it was asked for; the one that starts is younger. *)
GenInv ==
  /\ \A f \in Fences : fence[f].gen <= bot.gen
  /\ \A m \in Managers : mgr[m].gen <= bot.gen
  /\ bot.phase \in {"starting", "adopting"} =>
       /\ \A f \in Fences : fence[f].gen < bot.gen
       /\ \A m \in Managers : mgr[m].gen < bot.gen

(* One restart at a time. *)
OneInv == \A f, g \in Fences : fence[f].state \in Standing /\ fence[g].state \in Standing => f = g

(* A manager inside its transaction writes what its checks allowed: nobody else can write. *)
TxnInv ==
  \A m \in Managers :
    /\ mgr[m].pc \notin {"idle", "request", "done", "failed", "killed"} => mgr[m].fence \in Fences
    /\ mgr[m].pc \in {"preparing", "late"} => txn = m /\ fence[mgr[m].fence].state = "acknowledged"
    /\ mgr[m].pc = "committing" => txn = m /\ fence[mgr[m].fence].state \in {"acknowledged", "prepared"}

(* Where the worker of the process is and how far its fence is go together. *)
PhaseInv ==
  /\ bot.phase \in {"down", "starting", "adopting"} => bot.callback = "none" /\ bot.depth = 0
  /\ bot.phase \in {"starting", "adopting"} => ~bot.watch
  /\ bot.phase = "starting" => bot.active = 0
  /\ bot.phase = "adopting" => bot.active # 0
  /\ Running /\ bot.active = 0 => bot.phase = "idle" /\ ~bot.watch
  /\ bot.callback # "none" => bot.watch
  /\ \A f \in Fences : Running /\ bot.active = f =>
       /\ fence[f].gen = bot.gen /\ fence[f].state # "none"
       /\ bot.phase \in Quiescing => fence[f].state \in {"requested", "violated", "released"}
       /\ bot.phase \in Quiescing \ {"begin"} => bot.watch
       /\ bot.phase = "rollback" => fence[f].state \in {"violated", "released"}
       /\ bot.phase = "ending" => fence[f].state = "released"
       /\ bot.phase = "idle" => fence[f].state # "requested"
       /\ bot.callback # "none" => f \in pend \/ fence[f].state = "released"

(* The process of an acknowledged, prepared or committed fence knows it and observes it. *)
HeldInv ==
  \A f \in Fences : Running /\ fence[f].state \in Held /\ fence[f].gen = bot.gen =>
    /\ bot.active = f /\ bot.watch
    /\ bot.callback = "counted" \/ bot.depth > 0 => fence[f].violations > 0

(* What came in after the numbers were read shows in the number of producers. *)
CountInv ==
  \A f \in Fences : Running /\ bot.active = f =>
    /\ bot.phase \in Counting => bot.producers <= fence[f].producers
    /\ fence[f].state = "requested" =>
         /\ bot.phase \in Draining /\ bot.callback = "counted" => bot.producers < fence[f].producers
         /\ bot.phase \in {"journal2", "ack"} /\ bot.depth > 0 => bot.producers < fence[f].producers

(* A lost callback left a trace that outlives its process, and a clean handoff has none. *)
Tainted(f) == fence[f].violations > 0 \/ f \in pend \cup marks
LossInv ==
  \A f \in dirty :
    /\ fence[f].state # "none"
    /\ fence[f].state \in Held => Tainted(f)
    /\ fence[f].state = "requested" /\ Running /\ fence[f].gen = bot.gen => f \in marks
CleanInv == \A f \in clean : fence[f].state = "released" /\ fence[f].gen < bot.gen /\ f \notin dirty

IInv == ShapeInv /\ GenInv /\ OneInv /\ TxnInv /\ PhaseInv /\ HeldInv /\ CountInv /\ LossInv /\ CleanInv

-----------------------------------------------------------------------------
(* The fields of the rows, the process and the managers, and how updates change them. *)

(* What the assumption says of the constants. *)
LEMMA Constants ==
  ASSUME RestartAssumption
  PROVE  Capacity \in Nat /\ Capacity > 0 /\ NoTxn \notin Managers /\ 0 \notin Fences
BY DEF RestartAssumption, Fences

(* The types of the fields. *)
LEMMA Fields ==
  ASSUME ShapeInv
  PROVE  /\ dirty \subseteq Fences /\ clean \subseteq Fences
         /\ \A f \in Fences : /\ fence[f] \in FenceRows /\ fence[f].state \in States /\ fence[f].gen \in Nat
                              /\ fence[f].producers \in Nat /\ fence[f].violations \in Nat
         /\ bot.gen \in Nat /\ bot.phase \in Phases /\ bot.active \in Fences \cup {0} /\ bot.depth \in Nat
         /\ bot.callback \in Callbacks /\ bot.producers \in Nat /\ bot.watch \in BOOLEAN
         /\ \A m \in Managers : /\ mgr[m] \in Restarters /\ mgr[m].pc \in Stages /\ mgr[m].gen \in Nat
                                /\ mgr[m].fence \in Fences \cup {0}
<1>1. \A f \in Fences : fence[f] \in FenceRows
  BY DEF ShapeInv
<1>2. \A m \in Managers : mgr[m] \in Restarters
  BY DEF ShapeInv
<1>3. bot \in Processes
  BY DEF ShapeInv
<1>4. \A r \in FenceRows : r.state \in States /\ r.gen \in Nat /\ r.producers \in Nat /\ r.violations \in Nat
  BY DEF FenceRows
<1>5. \A r \in Restarters : r.pc \in Stages /\ r.gen \in Nat /\ r.fence \in Fences \cup {0}
  BY DEF Restarters
<1> QED
  BY <1>1, <1>2, <1>3, <1>4, <1>5 DEF Processes, ShapeInv

(* A row whose state alone is changed. *)
LEMMA RowState ==
  ASSUME NEW r \in FenceRows, NEW s \in States
  PROVE  LET t == [r EXCEPT !.state = s]
         IN  t \in FenceRows /\ t.state = s /\ t.gen = r.gen /\ t.producers = r.producers /\ t.violations = r.violations
BY DEF FenceRows

(* A callback under a fence in use is counted, and a violation once the numbers were read. *)
LEMMA RowCounted ==
  ASSUME NEW r \in FenceRows
  PROVE  LET t == Counted(r)
         IN  /\ t \in FenceRows /\ t.gen = r.gen
             /\ r.state \notin Standing => t = r
             /\ r.state \in Standing => t.producers = r.producers + 1
             /\ t.violations >= r.violations /\ t.producers >= r.producers
             /\ r.state \in Held => t.violations > 0
             /\ r.state = "acknowledged" => t.state = "violated"
             /\ r.state # "acknowledged" => t.state = r.state
<1> DEFINE t == Counted(r)
<1>1. CASE r.state \notin Standing
  BY <1>1 DEF Counted, Standing, FenceRows, Held, Reversible, Irreversible
<1>2. CASE r.state \in Standing
  <2>1. t = [state |-> IF r.state = "acknowledged" THEN "violated" ELSE r.state, gen |-> r.gen,
             producers |-> r.producers + 1, ackP |-> r.ackP, ackJ |-> r.ackJ,
             violations |-> IF r.state = "requested" THEN r.violations ELSE r.violations + 1]
    BY <1>2 DEF Counted, Standing, FenceRows
  <2>2. (IF r.state = "acknowledged" THEN "violated" ELSE r.state) \in States
    BY DEF FenceRows, States, Reversible
  <2>3. (IF r.state = "requested" THEN r.violations ELSE r.violations + 1) \in Nat
    BY DEF FenceRows
  <2> QED
    BY <1>2, <2>1, <2>2, <2>3 DEF FenceRows, Held
<1> QED
  BY <1>1, <1>2

(* The worker gives up on a requested fence only. *)
LEMMA RowFailed ==
  ASSUME NEW r \in FenceRows
  PROVE  LET t == Failed(r)
         IN  /\ t \in FenceRows /\ t.gen = r.gen /\ t.producers = r.producers /\ t.violations >= r.violations
             /\ r.state # "requested" => t = r
             /\ r.state = "requested" => t.state = "violated"
<1> DEFINE t == Failed(r)
<1>1. CASE r.state # "requested"
  BY <1>1 DEF Failed, FenceRows
<1>2. CASE r.state = "requested"
  <2>1. t = [state |-> "violated", gen |-> r.gen, producers |-> r.producers, ackP |-> r.ackP, ackJ |-> r.ackJ,
             violations |-> r.violations + 1]
    BY <1>2 DEF Failed, FenceRows
  <2> QED
    BY <2>1, <1>2 DEF FenceRows, States, Reversible
<1> QED
  BY <1>1, <1>2

(* The acknowledgement records the numbers and counts nothing. *)
LEMMA RowAcknowledged ==
  ASSUME NEW r \in FenceRows, NEW n \in Nat, NEW j \in Nat
  PROVE  LET t == [r EXCEPT !.state = "acknowledged", !.ackP = n, !.ackJ = j]
         IN  /\ t \in FenceRows /\ t.state = "acknowledged" /\ t.gen = r.gen
             /\ t.producers = r.producers /\ t.violations = r.violations
<1> DEFINE t == [r EXCEPT !.state = "acknowledged", !.ackP = n, !.ackJ = j]
<1>1. t.state = "acknowledged" /\ t.gen = r.gen /\ t.producers = r.producers /\ t.violations = r.violations
  BY DEF FenceRows
<1>2. n \in Int /\ j \in Int /\ "acknowledged" \in States
  BY DEF States, Reversible
<1>3. t \in FenceRows
  BY <1>2 DEF FenceRows
<1> QED
  BY <1>1, <1>3

(* The row of a fence nobody asked for yet, and of one that was asked for. *)
LEMMA NoFenceRow == NoFence \in FenceRows /\ NoFence.state = "none" /\ NoFence.gen = 0
<1>1. -1 \in Int /\ 0 \in Nat /\ "none" \in States
  BY DEF States
<1> QED
  BY <1>1 DEF NoFence, FenceRows

(* The row a request inserts. *)
LEMMA RowRequested ==
  ASSUME NEW r \in FenceRows, NEW g \in Nat
  PROVE  LET t == [r EXCEPT !.state = "requested", !.gen = g]
         IN  t \in FenceRows /\ t.state = "requested" /\ t.gen = g
BY DEF FenceRows, States, Reversible

-----------------------------------------------------------------------------
(* What most steps leave alone. *)

(* What the process looks like after a step, as far as the invariant speaks of it. *)
BotIs(p, a, w, d, c, n) ==
  /\ bot' \in Processes /\ bot'.depth <= Capacity
  /\ bot'.gen = bot.gen /\ bot'.phase = p /\ bot'.active = a /\ bot'.watch = w
  /\ bot'.depth = d /\ bot'.callback = c /\ bot'.producers = n

(* The row of one fence becomes t; the others stay. *)
RowIs(f, t) ==
  /\ f \in Fences /\ t \in FenceRows /\ fence'[f] = t
  /\ \A g \in Fences : g # f => fence'[g] = fence[g]
  /\ fence' \in [Fences -> FenceRows]

(* Updating one row of the table gives such a table. *)
LEMMA RowWritten ==
  ASSUME ShapeInv, NEW f \in Fences, NEW t \in FenceRows, fence' = [fence EXCEPT ![f] = t]
  PROVE  RowIs(f, t)
BY DEF ShapeInv, RowIs

(* No manager is inside its transaction while the bot writes, and none sees a row change. *)
LEMMA TxnKept ==
  ASSUME RestartAssumption, ShapeInv, TxnInv, UNCHANGED <<mgr, txn>>, txn = NoTxn \/ fence' = fence
  PROVE  TxnInv'
<1>1. CASE fence' = fence
  BY <1>1 DEF TxnInv
<1>2. CASE txn = NoTxn
  BY <1>2, Constants DEF TxnInv
<1> QED
  BY <1>1, <1>2

(* Neither the process nor the fences become older. *)
LEMMA GenKept ==
  ASSUME GenInv, UNCHANGED mgr, bot'.gen = bot.gen, \A f \in Fences : fence'[f].gen = fence[f].gen,
         bot'.phase \in {"starting", "adopting"} => bot.phase \in {"starting", "adopting"}
  PROVE  GenInv'
BY DEF GenInv

(* A fence that is not in use does not come into use beside another. *)
LEMMA OneKept ==
  ASSUME OneInv, \A f \in Fences : fence'[f].state \in Standing => fence[f].state \in Standing
  PROVE  OneInv'
BY DEF OneInv

-----------------------------------------------------------------------------
(* Steps of the worker. *)

(* The worker goes from one phase to the next and changes nothing but its own notes. *)
LEMMA WorkerMoves ==
  ASSUME RestartAssumption, IInv, Running, bot.active \in Fences, NEW p \in Phases, NEW n \in Nat,
         BotIs(p, bot.active, bot.watch, bot.depth, bot.callback, n),
         UNCHANGED <<fence, pend, marks, dirty>>, NoOthers,
         p \notin {"down", "starting", "adopting"},
         p \in Quiescing => fence[bot.active].state \in {"requested", "violated", "released"},
         p \in Quiescing \ {"begin"} => bot.watch,
         p = "rollback" => fence[bot.active].state \in {"violated", "released"},
         p = "ending" => fence[bot.active].state = "released",
         p = "idle" => fence[bot.active].state # "requested",
         p \in Counting => n <= fence[bot.active].producers,
         fence[bot.active].state = "requested" /\ p \in Draining /\ bot.callback = "counted"
           => n < fence[bot.active].producers,
         fence[bot.active].state = "requested" /\ p \in {"journal2", "ack"} /\ bot.depth > 0
           => n < fence[bot.active].producers
  PROVE  IInv'
<1>0. bot.active # 0
  BY Constants
<1>1. ShapeInv'
  BY DEF IInv, ShapeInv, BotIs, NoOthers
<1>2. GenInv' /\ OneInv' /\ TxnInv'
  BY GenKept, OneKept, TxnKept DEF IInv, BotIs, NoOthers
<1>3. PhaseInv'
  BY <1>0, Fields DEF IInv, BotIs, PhaseInv, Running
<1>4. HeldInv' /\ CountInv'
  BY Fields DEF IInv, BotIs, HeldInv, CountInv, Running
<1>5. LossInv' /\ CleanInv'
  BY Fields DEF IInv, BotIs, LossInv, CleanInv, Tainted, Running, NoOthers
<1> QED
  BY <1>1, <1>2, <1>3, <1>4, <1>5 DEF IInv

(* The worker gives the fence up: the row becomes violated, or was violated or released already. *)
LEMMA WorkerYields ==
  ASSUME RestartAssumption, IInv, bot.phase \in Quiescing, txn = NoTxn, NEW t \in FenceRows,
         fence' = [fence EXCEPT ![bot.active] = t], bot' = [bot EXCEPT !.phase = "rollback"],
         UNCHANGED <<pend, marks, dirty>>, NoOthers,
         t.gen = fence[bot.active].gen, t.state \in {"violated", "released"},
         fence[bot.active].state = "released" => t.state = "released"
  PROVE  IInv'
<1>0. Running /\ bot.active \in Fences
  BY Fields DEF IInv, PhaseInv, Quiescing, Running
<1>1. BotIs("rollback", bot.active, bot.watch, bot.depth, bot.callback, bot.producers)
  BY DEF IInv, ShapeInv, Processes, Phases, BotIs
<1>2. RowIs(bot.active, t)
  BY <1>0, RowWritten DEF IInv
<1>3. fence[bot.active].state \in {"requested", "violated", "released"}
  BY <1>0 DEF IInv, PhaseInv
<1>4. ShapeInv'
  BY <1>1, <1>2 DEF IInv, ShapeInv, BotIs, RowIs, NoOthers
<1>5. GenInv' /\ OneInv' /\ TxnInv'
  <2>1. \A f \in Fences : fence'[f].gen = fence[f].gen /\ (fence'[f].state \in Standing => fence[f].state \in Standing)
    BY <1>2, <1>3 DEF RowIs, Standing, Reversible, Irreversible
  <2> QED
    BY <1>1, <2>1, GenKept, OneKept, TxnKept DEF IInv, BotIs, NoOthers
<1>6. PhaseInv'
  BY <1>0, <1>1, <1>2, <1>3, Fields DEF IInv, BotIs, RowIs, PhaseInv, Running, Quiescing
<1>7. HeldInv' /\ CountInv'
  BY <1>0, <1>1, <1>2, <1>3, Fields DEF IInv, BotIs, RowIs, HeldInv, CountInv, Running, Held, Counting, Draining
<1>8. LossInv'
  BY <1>0, <1>1, <1>2, <1>3, Fields DEF IInv, BotIs, RowIs, LossInv, Tainted, Running, Held
<1>9. CleanInv'
  BY <1>0, <1>1, <1>2, <1>3, Fields DEF IInv, BotIs, RowIs, CleanInv, NoOthers
<1> QED
  BY <1>4, <1>5, <1>6, <1>7, <1>8, <1>9 DEF IInv

(* GiveUp is such a step. *)
LEMMA WorkerGivesUp ==
  ASSUME RestartAssumption, IInv, bot.phase \in Quiescing, GiveUp, UNCHANGED <<pend, marks, dirty>>, NoOthers
  PROVE  IInv'
<1>0. Running /\ bot.active \in Fences
  BY Fields DEF IInv, PhaseInv, Quiescing, Running
<1> DEFINE t == Failed(fence[bot.active])
<1>1. fence[bot.active] \in FenceRows /\ fence[bot.active].state \in {"requested", "violated", "released"}
  BY <1>0, Fields DEF IInv, PhaseInv
<1>2. t \in FenceRows /\ t.gen = fence[bot.active].gen /\ t.state \in {"violated", "released"}
      /\ (fence[bot.active].state = "released" => t.state = "released")
  BY <1>1, RowFailed
<1>3. fence' = [fence EXCEPT ![bot.active] = t] /\ bot' = [bot EXCEPT !.phase = "rollback"] /\ txn = NoTxn
  BY <1>0 DEF GiveUp, Goto, IInv, ShapeInv
<1> HIDE DEF t
<1> QED
  BY <1>2, <1>3, WorkerYields

(* Under an active fence the worker watches its own process's fence. *)
LEMMA OwnFence ==
  ASSUME RestartAssumption, IInv, Running, bot.active # 0
  PROVE  bot.active \in Fences /\ fence[bot.active] \in FenceRows /\ fence[bot.active].gen = bot.gen
BY Fields DEF IInv, PhaseInv

(* Moving to another phase changes nothing else. *)
LEMMA GotoEffect ==
  ASSUME ShapeInv, NEW p \in Phases, Goto(p)
  PROVE  BotIs(p, bot.active, bot.watch, bot.depth, bot.callback, bot.producers)
BY DEF ShapeInv, Processes, BotIs, Goto

(* The inbox is empty: the worker goes on. *)
LEMMA NextDrained == ASSUME RestartAssumption, IInv, Drained PROVE IInv'
<1> DEFINE p == IF bot.phase = "drain0" THEN "top" ELSE "after"
<1>0. Running /\ bot.active \in Fences
  BY Fields DEF IInv, PhaseInv, Drained, Running
<1>1. p \in Phases /\ BotIs(p, bot.active, bot.watch, bot.depth, bot.callback, bot.producers)
  BY GotoEffect DEF IInv, Drained, Phases
<1>2. fence[bot.active].state \in {"requested", "violated", "released"} /\ bot.watch
  BY <1>0 DEF IInv, PhaseInv, Drained, Quiescing
<1>3. p \in Counting => bot.producers <= fence[bot.active].producers
  BY <1>0 DEF IInv, CountInv, Drained, Counting
<1>4. fence[bot.active].state = "requested" /\ p \in Draining /\ bot.callback = "counted"
        => bot.producers < fence[bot.active].producers
  BY <1>0 DEF IInv, CountInv, Drained, Draining
<1>5. p \in {"top", "after"} /\ bot.producers \in Nat
  BY Fields DEF IInv
<1>6. UNCHANGED <<fence, pend, marks, dirty>> /\ NoOthers
  BY DEF Drained
<1> HIDE DEF p
<1> QED
  BY <1>0, <1>1, <1>2, <1>3, <1>4, <1>5, <1>6, WorkerMoves

(* _await_or_abort: the worker leaves a fence that has moved on, or gives a requested one up. *)
LEMMA NextLookAgain == ASSUME RestartAssumption, IInv, LookAgain PROVE IInv'
<1>0. Running /\ bot.active \in Fences /\ bot.phase \in Quiescing
  BY Fields DEF IInv, PhaseInv, LookAgain, Running, Quiescing
<1>1. fence[bot.active].state \in {"requested", "violated", "released"}
  BY <1>0 DEF IInv, PhaseInv
<1>2. UNCHANGED <<pend, marks>> /\ NoOthers
  BY DEF LookAgain
<1>3. CASE StateOf(bot.active) # "requested" /\ Goto("rollback") /\ UNCHANGED <<fence, dirty>>
  <2>1. BotIs("rollback", bot.active, bot.watch, bot.depth, bot.callback, bot.producers)
    BY <1>3, GotoEffect DEF IInv, Phases
  <2>2. bot.producers \in Nat /\ "rollback" \in Phases /\ "rollback" \notin Quiescing \cup Counting \cup Draining
    BY Fields DEF IInv, Quiescing, Counting, Draining, Phases
  <2> QED
    BY <1>0, <1>1, <1>2, <1>3, <2>1, <2>2, WorkerMoves DEF StateOf
<1>4. CASE GiveUp /\ UNCHANGED dirty
  BY <1>0, <1>2, <1>4, WorkerGivesUp
<1> QED
  BY <1>1, <1>3, <1>4 DEF LookAgain, StateOf, Irreversible

(* The numbers before the final drain. *)
LEMMA NextReadBefore == ASSUME RestartAssumption, IInv, ReadBefore PROVE IInv'
<1>0. Running /\ bot.active \in Fences /\ bot.phase \in Quiescing /\ bot.watch
  BY Fields DEF IInv, PhaseInv, ReadBefore, Running, Quiescing
<1>1. /\ fence[bot.active].state \in {"requested", "violated", "released"}
      /\ fence[bot.active].producers \in Nat /\ bot.producers \in Nat
  BY <1>0, Fields DEF IInv, PhaseInv
<1>2. UNCHANGED <<pend, marks, dirty>> /\ NoOthers
  BY DEF ReadBefore
<1> USE DEF Quiescing, Counting, Draining, Phases
<1>3. CASE /\ bot.phase = "top"
           /\ bot' = [bot EXCEPT !.phase = "depth", !.producers = fence[bot.active].producers]
           /\ UNCHANGED fence
  <2>1. BotIs("depth", bot.active, bot.watch, bot.depth, bot.callback, fence[bot.active].producers)
    BY <1>1, <1>3 DEF IInv, ShapeInv, Processes, BotIs
  <2>2. fence[bot.active].producers <= fence[bot.active].producers
    BY <1>1
  <2> QED
    BY <1>0, <1>1, <1>2, <1>3, <2>1, <2>2, WorkerMoves
<1>4. CASE bot.phase = "depth" /\ bot' = [bot EXCEPT !.phase = "journal", !.before = bot.depth] /\ UNCHANGED fence
  <2>1. BotIs("journal", bot.active, bot.watch, bot.depth, bot.callback, bot.producers)
    BY <1>4 DEF IInv, ShapeInv, Processes, BotIs
  <2>2. bot.producers <= fence[bot.active].producers
    BY <1>0, <1>4 DEF IInv, CountInv
  <2> QED
    BY <1>0, <1>1, <1>2, <1>4, <2>1, <2>2, WorkerMoves
<1>5. CASE /\ bot.phase = "journal" /\ bot.active \notin pend \cup marks
           /\ bot' = [bot EXCEPT !.phase = "drain", !.high = journal] /\ UNCHANGED fence
  <2>1. BotIs("drain", bot.active, bot.watch, bot.depth, bot.callback, bot.producers)
    BY <1>5 DEF IInv, ShapeInv, Processes, BotIs
  <2>2. bot.producers <= fence[bot.active].producers
    BY <1>0, <1>5 DEF IInv, CountInv
  <2>3. fence[bot.active].state = "requested" => bot.callback = "none"
    BY <1>0, <1>5 DEF IInv, PhaseInv
  <2> QED
    BY <1>0, <1>1, <1>2, <1>5, <2>1, <2>2, <2>3, WorkerMoves
<1>6. CASE GiveUp
  BY <1>0, <1>2, <1>6, WorkerGivesUp
<1> QED
  BY <1>3, <1>4, <1>5, <1>6 DEF ReadBefore

(* The same numbers after it. *)
LEMMA NextReadAfter == ASSUME RestartAssumption, IInv, ReadAfter PROVE IInv'
<1>0. Running /\ bot.active \in Fences /\ bot.phase \in Quiescing /\ bot.watch
  BY Fields DEF IInv, PhaseInv, ReadAfter, Running, Quiescing
<1>1. /\ fence[bot.active].state \in {"requested", "violated", "released"}
      /\ fence[bot.active].producers \in Nat /\ bot.producers \in Nat /\ bot.depth \in Nat
      /\ fence[bot.active] \in FenceRows
  BY <1>0, Fields DEF IInv, PhaseInv
<1>2. UNCHANGED <<pend, marks, dirty>> /\ NoOthers
  BY DEF ReadAfter
<1> USE DEF Quiescing, Counting, Draining, Phases
<1>3. /\ bot.phase \in {"after", "depth2", "journal2"} => bot.producers <= fence[bot.active].producers
      /\ bot.phase \in {"after", "depth2", "journal2"} /\ fence[bot.active].state = "requested" /\ bot.callback = "counted"
           => bot.producers < fence[bot.active].producers
      /\ bot.phase = "journal2" /\ fence[bot.active].state = "requested" /\ bot.depth > 0
           => bot.producers < fence[bot.active].producers
  BY <1>0 DEF IInv, CountInv
<1>4. CASE /\ bot.phase = "after"
           /\ bot' = [bot EXCEPT !.phase = "depth2", !.after = fence[bot.active].producers]
           /\ UNCHANGED fence
  <2>1. BotIs("depth2", bot.active, bot.watch, bot.depth, bot.callback, bot.producers)
    BY <1>1, <1>4 DEF IInv, ShapeInv, Processes, BotIs
  <2> QED
    BY <1>0, <1>1, <1>2, <1>3, <1>4, <2>1, WorkerMoves
<1>5. CASE bot.phase = "depth2" /\ bot.depth = 0 /\ Goto("journal2") /\ UNCHANGED fence
  <2>1. BotIs("journal2", bot.active, bot.watch, bot.depth, bot.callback, bot.producers)
    BY <1>5, GotoEffect DEF IInv
  <2>2. ~(bot.depth > 0) /\ bot.producers <= fence[bot.active].producers
        /\ (fence[bot.active].state = "requested" /\ bot.callback = "counted"
              => bot.producers < fence[bot.active].producers)
    BY <1>3, <1>5
  <2> QED
    BY <1>0, <1>1, <1>2, <1>5, <2>1, <2>2, WorkerMoves
<1>6. CASE GiveUp
  BY <1>0, <1>2, <1>6, WorkerGivesUp
<1>7. CASE /\ txn = NoTxn /\ fence' = [fence EXCEPT ![bot.active] = Failed(Counted(@))]
           /\ Goto("rollback")
  <2> DEFINE t == Failed(Counted(fence[bot.active]))
  <2>1. /\ Counted(fence[bot.active]) \in FenceRows /\ Counted(fence[bot.active]).gen = fence[bot.active].gen
        /\ Counted(fence[bot.active]).state = fence[bot.active].state
    BY <1>1, RowCounted
  <2>2. /\ t \in FenceRows /\ t.gen = fence[bot.active].gen /\ t.state \in {"violated", "released"}
        /\ fence[bot.active].state = "released" => t.state = "released"
    BY <1>1, <2>1, RowFailed
  <2>3. fence' = [fence EXCEPT ![bot.active] = t] /\ bot' = [bot EXCEPT !.phase = "rollback"]
    BY <1>7 DEF Goto
  <2> HIDE DEF t
  <2> QED
    BY <1>0, <1>2, <1>7, <2>2, <2>3, WorkerYields
<1>8. CASE bot.phase = "journal2" /\ Goto("ack") /\ UNCHANGED fence
  <2>1. BotIs("ack", bot.active, bot.watch, bot.depth, bot.callback, bot.producers)
    BY <1>8, GotoEffect DEF IInv
  <2> QED
    BY <1>0, <1>1, <1>2, <1>3, <1>8, <2>1, WorkerMoves
<1>9. CASE bot.phase = "journal2" /\ Goto("top") /\ UNCHANGED fence
  <2>1. BotIs("top", bot.active, bot.watch, bot.depth, bot.callback, bot.producers)
    BY <1>9, GotoEffect DEF IInv
  <2> QED
    BY <1>0, <1>1, <1>2, <1>9, <2>1, WorkerMoves
<1> QED
  BY <1>4, <1>5, <1>6, <1>7, <1>8, <1>9 DEF ReadAfter

(* The compare-and-set: it fails and the numbers are read again, or nothing came in since they were. *)
LEMMA NextAcknowledge == ASSUME RestartAssumption, IInv, Acknowledge PROVE IInv'
<1>0. Running /\ bot.active \in Fences /\ bot.active # 0 /\ bot.phase = "ack" /\ bot.watch
  BY Fields, Constants DEF IInv, PhaseInv, Acknowledge, Running, Quiescing
<1>1. /\ fence[bot.active].state \in {"requested", "violated", "released"} /\ fence[bot.active].gen = bot.gen
      /\ fence[bot.active].producers \in Nat /\ bot.producers \in Nat /\ bot.depth \in Nat
      /\ fence[bot.active] \in FenceRows
  BY <1>0, Fields DEF IInv, PhaseInv, Quiescing
<1>2. UNCHANGED <<pend, marks, dirty>> /\ NoOthers /\ txn = NoTxn
  BY DEF Acknowledge
<1>3. CASE Goto("top") /\ UNCHANGED fence
  <2>1. "top" \in Phases /\ BotIs("top", bot.active, bot.watch, bot.depth, bot.callback, bot.producers)
    BY <1>3, GotoEffect DEF IInv, Phases
  <2> QED
    BY <1>0, <1>1, <1>2, <1>3, <2>1, WorkerMoves DEF Quiescing, Counting, Draining
<1>4. CASE /\ MayAcknowledge(bot.active) /\ Goto("idle")
           /\ fence' = [fence EXCEPT ![bot.active].state = "acknowledged", ![bot.active].ackP = bot.producers,
                                     ![bot.active].ackJ = bot.high]
  <2> DEFINE r == fence[bot.active]
             t == [r EXCEPT !.state = "acknowledged", !.ackP = bot.producers, !.ackJ = bot.high]
  <2>1. bot.high \in Nat
    BY DEF IInv, ShapeInv, Processes
  <2>2. /\ t \in FenceRows /\ t.state = "acknowledged" /\ t.gen = r.gen /\ t.producers = r.producers
        /\ t.violations = r.violations
    <3>1. r \in FenceRows /\ bot.producers \in Nat /\ bot.high \in Nat
      BY <1>1, <2>1
    <3>2. \A n, j \in Nat : LET u == [r EXCEPT !.state = "acknowledged", !.ackP = n, !.ackJ = j]
                            IN  /\ u \in FenceRows /\ u.state = "acknowledged" /\ u.gen = r.gen
                                /\ u.producers = r.producers /\ u.violations = r.violations
      BY <3>1, RowAcknowledged
    <3> QED
      BY <3>1, <3>2
  <2>3. fence' = [fence EXCEPT ![bot.active] = t]
    BY <1>0, <1>4 DEF IInv, ShapeInv
  <2>4. RowIs(bot.active, t)
    BY <1>0, <2>2, <2>3, RowWritten DEF IInv
  <2>5. BotIs("idle", bot.active, bot.watch, bot.depth, bot.callback, bot.producers)
    BY <1>4, GotoEffect DEF IInv, Phases
  <2>6. r.state = "requested" /\ r.producers = bot.producers
    BY <1>4 DEF MayAcknowledge, StateOf
  <2>7. bot.callback # "counted" /\ bot.depth = 0
    BY <1>0, <1>1, <2>6 DEF IInv, CountInv, Draining
  <2> HIDE DEF t
  <2>8. ShapeInv'
    BY <1>2, <2>4, <2>5 DEF IInv, ShapeInv, BotIs, RowIs, NoOthers
  <2>9. GenInv' /\ OneInv' /\ TxnInv'
    <3>1. \A f \in Fences : fence'[f].gen = fence[f].gen /\ (fence'[f].state \in Standing => fence[f].state \in Standing)
      BY <2>2, <2>4, <2>6 DEF RowIs, Standing, Reversible
    <3> QED
      BY <1>2, <2>5, <3>1, GenKept, OneKept, TxnKept DEF IInv, BotIs, NoOthers
  <2>10. PhaseInv'
    BY <1>0, <1>1, <1>2, <2>2, <2>4, <2>5, <2>6 DEF IInv, BotIs, RowIs, PhaseInv, Running, Quiescing
  <2>11. HeldInv'
    <3>1. \A f \in Fences : f # bot.active => fence'[f] = fence[f]
      BY <2>4 DEF RowIs
    <3>2. bot'.active = bot.active /\ bot'.watch = bot.watch /\ bot'.gen = bot.gen
          /\ bot'.depth = bot.depth /\ bot'.callback = bot.callback
      BY <2>5 DEF BotIs
    <3> QED
      BY <1>0, <1>1, <2>7, <3>1, <3>2 DEF IInv, HeldInv, Running
  <2>12. CountInv'
    BY <1>0, <2>5 DEF BotIs, CountInv, Counting, Draining
  <2>13. LossInv'
    BY <1>0, <1>1, <1>2, <2>2, <2>4, <2>5, <2>6, Fields DEF IInv, BotIs, RowIs, LossInv, Tainted, Running, Held
  <2>14. CleanInv'
    BY <1>0, <1>1, <1>2, <2>2, <2>4, <2>5, <2>6, Fields DEF IInv, BotIs, RowIs, CleanInv, NoOthers
  <2> QED
    BY <2>8, <2>9, <2>10, <2>11, <2>12, <2>13, <2>14 DEF IInv
<1> QED
  BY <1>3, <1>4 DEF Acknowledge

(* The worker leaves the quiesce: a violated fence is released, admission reopened. *)
LEMMA NextRollback == ASSUME RestartAssumption, IInv, Rollback PROVE IInv'
<1>0. Running /\ bot.active \in Fences /\ bot.active # 0 /\ bot.phase \in {"rollback", "ending"}
  BY Fields, Constants DEF IInv, PhaseInv, Rollback, Running
<1>1. /\ fence[bot.active].gen = bot.gen /\ bot.producers \in Nat
      /\ fence[bot.active] \in FenceRows /\ fence[bot.active].state \in {"violated", "released"}
      /\ bot.phase = "ending" => fence[bot.active].state = "released"
  BY <1>0, Fields DEF IInv, PhaseInv
<1>2. UNCHANGED <<pend, marks, dirty>> /\ NoOthers
  BY DEF Rollback
<1>3. CASE /\ bot.phase = "rollback" /\ txn = NoTxn /\ Goto("ending")
           /\ fence' = [fence EXCEPT ![bot.active].state = IF @ = "violated" THEN "released" ELSE @]
  <2> DEFINE r == fence[bot.active]
             t == [r EXCEPT !.state = "released"]
  <2>1. t \in FenceRows /\ t.state = "released" /\ t.gen = r.gen
    BY <1>1, RowState DEF States
  <2>2. fence' = [fence EXCEPT ![bot.active] = t]
    BY <1>0, <1>1, <1>3 DEF IInv, ShapeInv
  <2>3. RowIs(bot.active, t)
    BY <1>0, <2>1, <2>2, RowWritten DEF IInv
  <2>4. BotIs("ending", bot.active, bot.watch, bot.depth, bot.callback, bot.producers)
    BY <1>3, GotoEffect DEF IInv, Phases
  <2> HIDE DEF t
  <2>5. ShapeInv'
    BY <1>2, <2>3, <2>4 DEF IInv, ShapeInv, BotIs, RowIs, NoOthers
  <2>6. GenInv' /\ OneInv' /\ TxnInv'
    <3>1. \A f \in Fences : fence'[f].gen = fence[f].gen /\ (fence'[f].state \in Standing => fence[f].state \in Standing)
      BY <2>1, <2>3 DEF RowIs, Standing, Reversible, Irreversible
    <3> QED
      BY <1>2, <1>3, <2>4, <3>1, GenKept, OneKept, TxnKept DEF IInv, BotIs, NoOthers
  <2>7. PhaseInv'
    BY <1>0, <1>1, <1>2, <2>1, <2>3, <2>4 DEF IInv, BotIs, RowIs, PhaseInv, Running, Quiescing
  <2>8. HeldInv' /\ CountInv'
    BY <1>0, <1>1, <2>1, <2>3, <2>4 DEF IInv, BotIs, RowIs, HeldInv, CountInv, Running, Held, Counting, Draining
  <2>9. LossInv' /\ CleanInv'
    BY <1>0, <1>1, <1>2, <2>1, <2>3, <2>4, Fields
       DEF IInv, BotIs, RowIs, LossInv, CleanInv, Tainted, Running, Held, NoOthers
  <2> QED
    BY <2>5, <2>6, <2>7, <2>8, <2>9 DEF IInv
<1>4. CASE /\ bot.phase = "ending" /\ bot.callback = "none" /\ UNCHANGED fence
           /\ bot' = [bot EXCEPT !.phase = "idle", !.active = 0, !.watch = FALSE, !.violations = 0]
  <2>1. BotIs("idle", 0, FALSE, bot.depth, "none", bot.producers)
    BY <1>4 DEF IInv, ShapeInv, Processes, Phases, BotIs
  <2>2. \A f \in Fences : ~(fence[f].state \in Held /\ fence[f].gen = bot.gen)
    BY <1>0, <1>1, <1>4 DEF IInv, HeldInv, Held
  <2>3. 0 \notin Fences
    BY Constants
  <2>4. ShapeInv'
    BY <1>2, <1>4, <2>1 DEF IInv, ShapeInv, BotIs, NoOthers
  <2>5. GenInv' /\ OneInv' /\ TxnInv'
    BY <1>2, <1>4, <2>1, GenKept, OneKept, TxnKept DEF IInv, BotIs, NoOthers
  <2>6. PhaseInv' /\ HeldInv' /\ CountInv'
    BY <1>4, <2>1, <2>2, <2>3 DEF BotIs, PhaseInv, HeldInv, CountInv, Running
  <2>7. LossInv' /\ CleanInv'
    BY <1>0, <1>2, <1>4, <2>1 DEF IInv, BotIs, LossInv, CleanInv, Tainted, Running, NoOthers
  <2> QED
    BY <2>4, <2>5, <2>6, <2>7 DEF IInv
<1>5. ASSUME NEW w \in {bot.watch, FALSE}, bot.phase = "ending", bot.callback = "none", UNCHANGED fence,
             bot' = [bot EXCEPT !.phase = "idle", !.watch = w]
      PROVE  IInv'
  <2>1. BotIs("idle", bot.active, w, bot.depth, "none", bot.producers)
    BY <1>5 DEF IInv, ShapeInv, Processes, Phases, BotIs
  <2>2. \A f \in Fences : ~(fence[f].state \in Held /\ fence[f].gen = bot.gen)
    BY <1>0, <1>1, <1>5 DEF IInv, HeldInv, Held
  <2>4. ShapeInv'
    BY <1>2, <1>5, <2>1 DEF IInv, ShapeInv, BotIs, NoOthers
  <2>5. GenInv' /\ OneInv' /\ TxnInv'
    BY <1>2, <1>5, <2>1, GenKept, OneKept, TxnKept DEF IInv, BotIs, NoOthers
  <2>6. PhaseInv' /\ HeldInv' /\ CountInv'
    BY <1>0, <1>1, <1>5, <2>1, <2>2 DEF BotIs, PhaseInv, HeldInv, CountInv, Running, Quiescing, Counting, Draining
  <2>7. LossInv' /\ CleanInv'
    BY <1>0, <1>2, <1>5, <2>1 DEF IInv, BotIs, LossInv, CleanInv, Tainted, Running, NoOthers
  <2> QED
    BY <2>4, <2>5, <2>6, <2>7 DEF IInv
<1> QED
  BY <1>3, <1>4, <1>5 DEF Rollback

(* _poll_once without a fence: a request for this process is taken up, one for another is released. *)
LEMMA NextPick == ASSUME RestartAssumption, IInv, Pick PROVE IInv'
<1>0. Running /\ bot.active = 0 /\ bot.phase = "idle" /\ txn = NoTxn /\ ~bot.watch /\ bot.callback = "none" /\ 0 \notin Fences
  BY Constants DEF IInv, PhaseInv, Pick, Running
<1>1. UNCHANGED <<pend, marks, dirty>> /\ NoOthers
  BY DEF Pick
<1>2. PICK f \in Fences :
        /\ fence[f].state = "requested"
        /\ \/ /\ fence[f].gen = bot.gen /\ bot' = [bot EXCEPT !.phase = "begin", !.active = f] /\ UNCHANGED fence
           \/ /\ fence' = [fence EXCEPT ![f].state = "released"] /\ UNCHANGED bot
  BY DEF Pick, StateOf
<1>3. CASE fence[f].gen = bot.gen /\ bot' = [bot EXCEPT !.phase = "begin", !.active = f] /\ UNCHANGED fence
  <2>1. BotIs("begin", f, bot.watch, bot.depth, bot.callback, bot.producers)
    BY <1>3 DEF IInv, ShapeInv, Processes, Phases, BotIs
  <2>2. ShapeInv'
    BY <1>1, <1>3, <2>1 DEF IInv, ShapeInv, BotIs, NoOthers
  <2>3. GenInv' /\ OneInv' /\ TxnInv'
    BY <1>1, <1>3, <2>1, GenKept, OneKept, TxnKept DEF IInv, BotIs, NoOthers
  <2>4. PhaseInv' /\ CountInv'
    BY <1>0, <1>2, <1>3, <2>1 DEF IInv, BotIs, PhaseInv, CountInv, Running, Quiescing, Counting, Draining
  <2>5. HeldInv'
    BY <1>0, <1>3, <2>1 DEF IInv, BotIs, HeldInv, Running
  <2>6. LossInv' /\ CleanInv'
    BY <1>0, <1>1, <1>3, <2>1 DEF IInv, BotIs, LossInv, CleanInv, Tainted, Running, NoOthers
  <2> QED
    BY <2>2, <2>3, <2>4, <2>5, <2>6 DEF IInv
<1>4. CASE fence' = [fence EXCEPT ![f].state = "released"] /\ UNCHANGED bot
  <2> DEFINE t == [fence[f] EXCEPT !.state = "released"]
  <2>1. t \in FenceRows /\ t.state = "released" /\ t.gen = fence[f].gen
    BY Fields, RowState DEF IInv, States
  <2>2. fence' = [fence EXCEPT ![f] = t]
    BY <1>4 DEF IInv, ShapeInv
  <2>3. RowIs(f, t)
    BY <2>1, <2>2, RowWritten DEF IInv
  <2> HIDE DEF t
  <2>4. ShapeInv'
    BY <1>1, <1>4, <2>3 DEF IInv, ShapeInv, RowIs, NoOthers
  <2>5. GenInv' /\ OneInv' /\ TxnInv'
    <3>1. \A g \in Fences : fence'[g].gen = fence[g].gen /\ (fence'[g].state \in Standing => fence[g].state \in Standing)
      BY <2>1, <2>3 DEF RowIs, Standing, Reversible, Irreversible
    <3> QED
      BY <1>0, <1>1, <1>4, <3>1, GenKept, OneKept, TxnKept DEF IInv, NoOthers
  <2>6. PhaseInv' /\ HeldInv' /\ CountInv'
    BY <1>0, <1>4, <2>1, <2>3, Fields DEF IInv, RowIs, PhaseInv, HeldInv, CountInv, Running, Held
  <2>7. LossInv' /\ CleanInv'
    BY <1>0, <1>1, <1>2, <1>4, <2>1, <2>3, Fields DEF IInv, RowIs, LossInv, CleanInv, Tainted, Running, Held, NoOthers
  <2> QED
    BY <2>4, <2>5, <2>6, <2>7 DEF IInv
<1> QED
  BY <1>2, <1>3, <1>4

(* begin_service_quiesce: the observers are installed. *)
LEMMA NextBegin == ASSUME RestartAssumption, IInv, Begin PROVE IInv'
<1>0. Running /\ bot.active \in Fences /\ bot.active # 0 /\ bot.phase = "begin" /\ bot.callback = "none"
  BY Fields, Constants DEF IInv, PhaseInv, Begin, Running
<1>1. UNCHANGED <<fence, pend, dirty>> /\ NoOthers /\ marks \subseteq marks' /\ marks' \subseteq marks \cup {bot.active}
  BY DEF Begin
<1>2. BotIs("drain0", bot.active, TRUE, bot.depth, "none", bot.producers)
  BY <1>0 DEF Begin, IInv, ShapeInv, Processes, Phases, BotIs
<1>3. ShapeInv'
  BY <1>0, <1>1, <1>2 DEF IInv, ShapeInv, BotIs, NoOthers
<1>4. GenInv' /\ OneInv' /\ TxnInv'
  BY <1>1, <1>2, GenKept, OneKept, TxnKept DEF IInv, BotIs, NoOthers
<1>5. PhaseInv'
  BY <1>0, <1>1, <1>2 DEF IInv, BotIs, PhaseInv, Running, Quiescing
<1>6. HeldInv' /\ CountInv'
  BY <1>0, <1>1, <1>2 DEF IInv, BotIs, HeldInv, CountInv, Running, Quiescing, Counting, Draining
<1>7. LossInv' /\ CleanInv'
  BY <1>0, <1>1, <1>2 DEF IInv, BotIs, LossInv, CleanInv, Tainted, Running, NoOthers
<1> QED
  BY <1>3, <1>4, <1>5, <1>6, <1>7 DEF IInv

-----------------------------------------------------------------------------
(* Callbacks. *)

(* The process a callback is in, and its fence. *)
LEMMA InCallback ==
  ASSUME RestartAssumption, IInv, bot.callback # "none"
  PROVE  /\ Running /\ bot.active \in Fences /\ bot.watch /\ fence[bot.active].gen = bot.gen
         /\ fence[bot.active].state # "none" /\ fence[bot.active] \in FenceRows
BY Fields DEF IInv, PhaseInv, Running

(* The number of a callback cannot be written: the loss is marked instead. *)
LEMMA NextAccountFails == ASSUME RestartAssumption, IInv, AccountFails PROVE IInv'
<1>0. /\ Running /\ bot.active \in Fences /\ bot.watch /\ fence[bot.active].gen = bot.gen
      /\ fence[bot.active].state # "none" /\ bot.gen \in Nat
  BY InCallback, Fields DEF AccountFails, IInv
<1>1. /\ marks' = marks \cup {bot.active} /\ dirty' = dirty \cup {bot.active}
      /\ UNCHANGED <<scene, fence, pend, journal, work, mgr, txn, clean, crashes>>
  BY DEF AccountFails
<1>2. BotIs(bot.phase, bot.active, bot.watch, bot.depth, "none", bot.producers)
  BY DEF AccountFails, IInv, ShapeInv, Processes, Callbacks, BotIs
<1>3. ShapeInv'
  BY <1>0, <1>1, <1>2 DEF IInv, ShapeInv, BotIs
<1>4. GenInv' /\ OneInv' /\ TxnInv'
  BY <1>1, <1>2, GenKept, OneKept, TxnKept DEF IInv, BotIs
<1>5. PhaseInv'
  BY <1>0, <1>1, <1>2 DEF IInv, BotIs, PhaseInv, Running
<1>6. HeldInv' /\ CountInv'
  BY <1>0, <1>1, <1>2 DEF IInv, BotIs, HeldInv, CountInv, Running
<1>7. LossInv'
  BY <1>0, <1>1, <1>2 DEF IInv, BotIs, LossInv, Tainted, Running
<1>8. CleanInv'
  BY <1>0, <1>1, <1>2, Fields DEF IInv, BotIs, CleanInv
<1> QED
  BY <1>3, <1>4, <1>5, <1>6, <1>7, <1>8 DEF IInv

(* A callback is counted in the row of its fence. *)
LEMMA RowCounts ==
  ASSUME RestartAssumption, IInv, Running, bot.active \in Fences, fence[bot.active].gen = bot.gen,
         fence[bot.active].state # "none", txn = NoTxn, NEW c \in {"counted", bot.callback},
         BotIs(bot.phase, bot.active, bot.watch, bot.depth, c, bot.producers),
         c # "none" => bot.callback # "none",
         c = "counted" \/ fence[bot.active].state \in Held,
         fence' = [fence EXCEPT ![bot.active] = Counted(@)],
         UNCHANGED <<scene, pend, marks, journal, work, mgr, txn, dirty, clean, crashes>>
  PROVE  IInv'
<1> DEFINE r == fence[bot.active]
           t == Counted(r)
<1>1. /\ r \in FenceRows /\ r.state \in States /\ r.violations \in Nat /\ r.producers \in Nat /\ bot.producers \in Nat
  BY Fields DEF IInv
<1>2. /\ t \in FenceRows /\ t.gen = r.gen
      /\ r.state \notin Standing => t = r
      /\ r.state \in Standing => t.producers = r.producers + 1
      /\ t.violations >= r.violations /\ t.producers >= r.producers
      /\ r.state \in Held => t.violations > 0
      /\ r.state = "acknowledged" => t.state = "violated"
      /\ r.state # "acknowledged" => t.state = r.state
  BY <1>1, RowCounted
<1>3. RowIs(bot.active, t)
  BY <1>2, RowWritten DEF IInv
<1>4. t.violations \in Nat /\ t.producers \in Nat
  BY <1>2 DEF FenceRows
<1> HIDE DEF t
<1>5. ShapeInv'
  BY <1>3 DEF IInv, ShapeInv, BotIs, RowIs
<1>6. GenInv' /\ OneInv' /\ TxnInv'
  <2>1. \A f \in Fences : fence'[f].gen = fence[f].gen /\ (fence'[f].state \in Standing => fence[f].state \in Standing)
    BY <1>2, <1>3 DEF RowIs, Standing, Reversible
  <2> QED
    BY <2>1, GenKept, OneKept, TxnKept DEF IInv, BotIs
<1>7. PhaseInv'
  BY <1>2, <1>3 DEF IInv, BotIs, RowIs, PhaseInv, Running, Quiescing
<1>8. HeldInv'
  BY <1>2, <1>3 DEF IInv, BotIs, RowIs, HeldInv, Running, Held
<1>9. CountInv'
  <2>1. /\ bot.phase \in Counting => bot.producers <= r.producers
        /\ r.state = "requested" =>
             /\ bot.phase \in {"journal2", "ack"} /\ bot.depth > 0 => bot.producers < r.producers
    BY DEF IInv, CountInv
  <2>2. /\ bot.phase \in Counting => bot.producers <= t.producers
        /\ r.state = "requested" => t.producers = r.producers + 1
    BY <1>1, <1>2, <1>4, <2>1 DEF Standing, Reversible
  <2>3. /\ bot.phase \in Counting => bot.producers <= t.producers
        /\ t.state = "requested" =>
             /\ bot.phase \in Draining => bot.producers < t.producers
             /\ bot.phase \in {"journal2", "ack"} => bot.producers < t.producers
    BY <1>1, <1>2, <1>4, <2>1, <2>2 DEF Counting, Draining
  <2> QED
    BY <1>3, <2>3 DEF BotIs, RowIs, CountInv, Running
<1>10. LossInv'
  <2>1. r.state \in Held => t.violations > 0
    BY <1>2
  <2>2. t.state \in Held => r.state \in Held
    BY <1>2 DEF Held
  <2> QED
    BY <1>2, <1>3, <2>1, <2>2, Fields DEF IInv, BotIs, RowIs, LossInv, Tainted, Running
<1>11. CleanInv'
  BY <1>2, <1>3, Fields DEF IInv, BotIs, RowIs, CleanInv
<1> QED
  BY <1>5, <1>6, <1>7, <1>8, <1>9, <1>10, <1>11 DEF IInv

(* A callback is counted under the active fence. *)
LEMMA NextAccount == ASSUME RestartAssumption, IInv, Account PROVE IInv'
<1>0. /\ Running /\ bot.active \in Fences /\ fence[bot.active].gen = bot.gen
      /\ fence[bot.active].state # "none"
  BY InCallback DEF Account
<1>1. BotIs(bot.phase, bot.active, bot.watch, bot.depth, "counted", bot.producers)
  BY DEF Account, IInv, ShapeInv, Processes, Callbacks, BotIs
<1>2. /\ txn = NoTxn /\ fence' = [fence EXCEPT ![bot.active] = Counted(@)] /\ bot.callback # "none"
      /\ UNCHANGED <<scene, pend, marks, journal, work, mgr, txn, dirty, clean, crashes>>
  BY DEF Account
<1> QED
  BY <1>0, <1>1, <1>2, RowCounts

(* The callback arrives: under observation it is marked first, otherwise it enters the inbox. *)
LEMMA NextReceive == ASSUME RestartAssumption, IInv, Receive PROVE IInv'
<1>0. Running /\ bot.callback = "none" /\ bot.depth \in Nat
      /\ UNCHANGED <<scene, fence, journal, work, mgr, txn, clean, crashes>>
  BY Fields DEF Receive, IInv
<1> DEFINE b == [bot EXCEPT !.received = @ + 1]
<1>a. /\ b \in Processes /\ b.gen = bot.gen /\ b.phase = bot.phase /\ b.active = bot.active /\ b.watch = bot.watch
      /\ b.depth = bot.depth /\ b.callback = "none" /\ b.producers = bot.producers
  BY <1>0 DEF IInv, ShapeInv, Processes
<1>b. /\ bot.watch => /\ bot' = [b EXCEPT !.violations = @ + 1, !.callback = "marked"]
                      /\ pend' = pend \cup {bot.active} /\ UNCHANGED <<marks, dirty>>
      /\ ~bot.watch => Admit(b) /\ UNCHANGED pend
  BY <1>a DEF Receive
<1> HIDE DEF b
<1>c. bot.depth <= Capacity
  BY DEF IInv, ShapeInv
<1>1. CASE bot.watch
  <2>0. bot.active \in Fences
    BY <1>0, <1>1, Fields DEF IInv, PhaseInv
  <2>1. /\ BotIs(bot.phase, bot.active, bot.watch, bot.depth, "marked", bot.producers)
        /\ pend' = pend \cup {bot.active} /\ UNCHANGED <<marks, dirty>>
    <3>1. bot' = [b EXCEPT !.violations = b.violations + 1, !.callback = "marked"] /\ b.violations + 1 \in Nat
      BY <1>a, <1>b, <1>1 DEF Processes
    <3>2. BotIs(bot.phase, bot.active, bot.watch, bot.depth, "marked", bot.producers)
      BY <1>a, <1>c, <3>1 DEF Processes, Callbacks, BotIs
    <3> QED
      BY <1>b, <1>1, <3>2
  <2>2. ShapeInv'
    BY <1>0, <2>0, <2>1 DEF IInv, ShapeInv, BotIs
  <2>3. GenInv' /\ OneInv' /\ TxnInv'
    BY <1>0, <2>1, GenKept, OneKept, TxnKept DEF IInv, BotIs
  <2>4. PhaseInv'
    BY <1>0, <1>1, <2>1 DEF IInv, BotIs, PhaseInv, Running
  <2>5. HeldInv' /\ CountInv'
    BY <1>0, <2>1 DEF IInv, BotIs, HeldInv, CountInv, Running
  <2>6. LossInv' /\ CleanInv'
    BY <1>0, <2>1 DEF IInv, BotIs, LossInv, CleanInv, Tainted, Running
  <2> QED
    BY <2>2, <2>3, <2>4, <2>5, <2>6 DEF IInv
<1>2. CASE ~bot.watch
  <2> DEFINE d == IF bot.depth < Capacity THEN bot.depth + 1 ELSE bot.depth
  <2>1. BotIs(bot.phase, bot.active, bot.watch, d, "none", bot.producers)
    <3>1. CASE bot.depth < Capacity
      <4>1. bot' = [b EXCEPT !.depth = @ + 1] /\ bot.depth + 1 \in Nat /\ bot.depth + 1 <= Capacity
        BY <1>0, <1>a, <1>b, <1>2, <3>1, Constants DEF Admit
      <4> QED
        BY <1>a, <3>1, <4>1 DEF Processes, BotIs
    <3>2. CASE ~(bot.depth < Capacity)
      <4>1. bot' = [b EXCEPT !.lost = TRUE]
        BY <1>a, <1>b, <1>2, <3>2 DEF Admit
      <4> QED
        BY <1>a, <1>c, <3>2, <4>1 DEF Processes, BotIs
    <3> QED
      BY <3>1, <3>2
  <2>2. UNCHANGED <<pend, marks, dirty>>
    BY <1>a, <1>b, <1>2 DEF Admit
  <2> HIDE DEF d
  <2>3. ShapeInv'
    BY <1>0, <2>1, <2>2 DEF IInv, ShapeInv, BotIs
  <2>4. GenInv' /\ OneInv' /\ TxnInv'
    BY <1>0, <2>1, GenKept, OneKept, TxnKept DEF IInv, BotIs
  <2>5. PhaseInv'
    BY <1>0, <2>1, <2>2 DEF IInv, BotIs, PhaseInv, Running
  <2>6. HeldInv' /\ CountInv'
    BY <1>0, <1>2, <2>1 DEF IInv, BotIs, HeldInv, CountInv, PhaseInv, Running, Quiescing
  <2>7. LossInv' /\ CleanInv'
    BY <1>0, <2>1, <2>2 DEF IInv, BotIs, LossInv, CleanInv, Tainted, Running
  <2> QED
    BY <2>3, <2>4, <2>5, <2>6, <2>7 DEF IInv
<1> QED
  BY <1>1, <1>2

(* The counted callback takes its slot, or is lost with a marker. *)
LEMMA NextEnter == ASSUME RestartAssumption, IInv, Enter PROVE IInv'
<1>0. /\ Running /\ bot.active \in Fences /\ bot.watch /\ fence[bot.active].gen = bot.gen
      /\ fence[bot.active].state # "none" /\ bot.callback = "counted" /\ bot.depth \in Nat
      /\ fence[bot.active].producers \in Nat /\ bot.producers \in Nat /\ bot.gen \in Nat
      /\ pend' = pend \ {bot.active}
      /\ UNCHANGED <<scene, fence, journal, work, mgr, txn, clean, crashes>>
  BY InCallback, Fields DEF Enter, IInv
<1>1. /\ fence[bot.active].state \in Held => fence[bot.active].violations > 0
      /\ bot.phase \in Draining /\ fence[bot.active].state = "requested" => bot.producers < fence[bot.active].producers
  BY <1>0 DEF IInv, HeldInv, CountInv
<1>2. PICK d \in Nat : /\ BotIs(bot.phase, bot.active, bot.watch, d, "none", bot.producers)
                       /\ \/ UNCHANGED <<marks, dirty>>
                          \/ marks' = marks \cup {bot.active} /\ dirty' = dirty \cup {bot.active}
  <2> DEFINE b == [bot EXCEPT !.callback = "none"]
  <2>1. /\ b \in Processes /\ b.gen = bot.gen /\ b.phase = bot.phase /\ b.active = bot.active /\ b.watch = bot.watch
        /\ b.depth = bot.depth /\ b.callback = "none" /\ b.producers = bot.producers
    BY DEF IInv, ShapeInv, Processes, Callbacks
  <2>2. Admit(b)
    BY DEF Enter
  <2> HIDE DEF b
  <2>3. CASE b.depth < Capacity
    <3>1. bot' = [b EXCEPT !.depth = @ + 1] /\ UNCHANGED <<marks, dirty>>
      BY <2>2, <2>3 DEF Admit
    <3>2. bot.depth + 1 \in Nat /\ bot.depth + 1 <= Capacity
      BY <1>0, <2>1, <2>3, Constants
    <3>3. BotIs(bot.phase, bot.active, bot.watch, bot.depth + 1, "none", bot.producers)
      BY <2>1, <3>1, <3>2 DEF Processes, BotIs
    <3> QED
      BY <3>1, <3>2, <3>3
  <2>4. CASE ~(b.depth < Capacity)
    <3>1. bot' = [b EXCEPT !.lost = TRUE]
      BY <2>2, <2>4 DEF Admit
    <3>2. marks' = marks \cup {bot.active} /\ dirty' = dirty \cup {bot.active}
      BY <1>0, <2>1, <2>2, <2>4 DEF Admit
    <3>3. bot.depth <= Capacity
      BY DEF IInv, ShapeInv
    <3>4. BotIs(bot.phase, bot.active, bot.watch, bot.depth, "none", bot.producers)
      BY <2>1, <3>1, <3>3 DEF Processes, BotIs
    <3> QED
      BY <1>0, <3>2, <3>4
  <2> QED
    BY <2>3, <2>4
<1>3. ShapeInv'
  BY <1>0, <1>2 DEF IInv, ShapeInv, BotIs
<1>4. GenInv' /\ OneInv' /\ TxnInv'
  BY <1>0, <1>2, GenKept, OneKept, TxnKept DEF IInv, BotIs
<1>5. PhaseInv'
  BY <1>0, <1>2 DEF IInv, BotIs, PhaseInv, Running
<1>6. HeldInv'
  BY <1>0, <1>1, <1>2 DEF IInv, BotIs, HeldInv, Running
<1>7. CountInv'
  BY <1>0, <1>1, <1>2 DEF IInv, BotIs, CountInv, Running, Draining
<1>8. LossInv'
  BY <1>0, <1>1, <1>2 DEF IInv, BotIs, LossInv, Tainted, Running
<1>9. CleanInv'
  BY <1>0, <1>2, Fields DEF IInv, BotIs, CleanInv
<1> QED
  BY <1>3, <1>4, <1>5, <1>6, <1>7, <1>8, <1>9 DEF IInv

(* A receipt is reduced: the inbox is shorter and the journal longer. *)
LEMMA NextReduce == ASSUME RestartAssumption, IInv, Reduce PROVE IInv'
<1>0. Running /\ bot.depth \in Nat /\ bot.depth > 0 /\ txn = NoTxn
      /\ UNCHANGED <<scene, fence, pend, marks, mgr, txn, dirty, clean, crashes>>
  BY Fields DEF Reduce, IInv
<1>1. BotIs(bot.phase, bot.active, bot.watch, bot.depth - 1, bot.callback, bot.producers)
  BY <1>0, Constants DEF Reduce, IInv, ShapeInv, Processes, BotIs
<1>2. ShapeInv'
  BY <1>0, <1>1 DEF Reduce, IInv, ShapeInv, BotIs
<1>3. GenInv' /\ OneInv' /\ TxnInv'
  BY <1>0, <1>1, GenKept, OneKept, TxnKept DEF IInv, BotIs
<1>4. PhaseInv'
  BY <1>0, <1>1 DEF IInv, BotIs, PhaseInv, Running
<1>5. HeldInv' /\ CountInv'
  BY <1>0, <1>1 DEF IInv, BotIs, HeldInv, CountInv, Running
<1>6. LossInv' /\ CleanInv'
  BY <1>0, <1>1 DEF IInv, BotIs, LossInv, CleanInv, Tainted, Running
<1> QED
  BY <1>2, <1>3, <1>4, <1>5, <1>6 DEF IInv

-----------------------------------------------------------------------------
(* Death and start of the process. *)

(* A dying process leaves a trace of what it had taken in under its fence. *)
LEMMA ProcessDies ==
  ASSUME RestartAssumption, IInv, Dying, UNCHANGED <<pend, marks, clean>>,
         \A f \in Fences : \/ fence'[f] = fence[f]
                           \/ /\ fence[f].state = "prepared" /\ fence'[f].state = "committed"
                              /\ fence'[f].gen = fence[f].gen /\ fence'[f].violations = fence[f].violations
  PROVE  /\ BotIs("down", bot.active, bot.watch, 0, "none", bot.producers)
         /\ dirty' \subseteq Fences /\ \A f \in Fences : fence'[f].gen = fence[f].gen
         /\ OneInv' /\ PhaseInv' /\ HeldInv' /\ CountInv' /\ LossInv' /\ CleanInv'
<1>1. BotIs("down", bot.active, bot.watch, 0, "none", bot.producers)
  <2>1. bot' = [bot EXCEPT !.phase = "down", !.depth = 0, !.callback = "none"]
    BY DEF Dying
  <2>2. bot \in Processes /\ 0 <= Capacity
    BY Constants DEF IInv, ShapeInv
  <2> QED
    BY <2>1, <2>2 DEF Processes, Phases, Callbacks, BotIs
<1>2. \A f \in dirty' : f \in dirty \/ /\ f \in Fences /\ fence[f].state \in Standing /\ fence[f].gen = bot.gen
                                       /\ bot.depth > 0 \/ bot.callback # "none"
  BY DEF Dying, ActiveFences, Standing
<1>3. dirty' \subseteq Fences /\ \A f \in Fences : fence'[f].gen = fence[f].gen
  BY <1>2, Fields DEF IInv
<1>4. OneInv'
  BY OneKept DEF IInv, Standing, Irreversible
<1>5. PhaseInv' /\ HeldInv' /\ CountInv'
  BY <1>1 DEF BotIs, PhaseInv, HeldInv, CountInv, Running
<1>6. LossInv'
  <2> SUFFICES ASSUME NEW f \in dirty' PROVE fence'[f].state # "none" /\ (fence'[f].state \in Held => Tainted(f)')
    BY <1>1 DEF LossInv, BotIs, Running
  <2>1. f \in Fences
    BY <1>3
  <2>2. CASE f \in dirty
    BY <2>1, <2>2 DEF IInv, LossInv, Tainted, Held
  <2>3. CASE /\ fence[f].state \in Standing /\ fence[f].gen = bot.gen
             /\ bot.depth > 0 \/ bot.callback # "none"
    <3>1. Running
      BY <2>3, Fields DEF IInv, PhaseInv, Running
    <3>2. fence[f].state \in Held => bot.active = f /\ Tainted(f)
      BY <2>1, <2>3, <3>1, Fields DEF IInv, HeldInv, PhaseInv, Tainted, Callbacks, Held
    <3> QED
      BY <2>1, <2>3, <3>2 DEF Tainted, Held, Standing, Reversible, Irreversible
  <2> QED
    BY <1>2, <2>2, <2>3
<1>7. CleanInv'
  BY <1>1, <1>2, Fields DEF IInv, CleanInv, BotIs, Standing, Reversible, Irreversible
<1> QED
  BY <1>1, <1>3, <1>4, <1>5, <1>6, <1>7

(* Death while the managers do nothing. *)
LEMMA BotDies ==
  ASSUME RestartAssumption, IInv, Dying, UNCHANGED <<fence, pend, marks, clean, scene, journal, work, mgr, txn>>
  PROVE  IInv'
<1>1. /\ BotIs("down", bot.active, bot.watch, 0, "none", bot.producers)
      /\ dirty' \subseteq Fences
      /\ OneInv' /\ PhaseInv' /\ HeldInv' /\ CountInv' /\ LossInv' /\ CleanInv'
  BY ProcessDies
<1>2. ShapeInv'
  BY <1>1 DEF IInv, ShapeInv, BotIs
<1>3. GenInv' /\ TxnInv'
  BY <1>1, GenKept, TxnKept DEF IInv, BotIs
<1> QED
  BY <1>1, <1>2, <1>3 DEF IInv

(* A process starts: it is younger than every fence and has no callback. *)
LEMMA NextStartBot == ASSUME RestartAssumption, IInv, StartBot PROVE IInv'
<1>1. /\ bot' \in Processes /\ bot'.gen = bot.gen + 1 /\ bot'.phase = "starting" /\ bot'.active = 0
      /\ ~bot'.watch /\ bot'.depth = 0 /\ bot'.callback = "none" /\ bot.gen \in Nat
  <2>1. bot.gen \in Nat /\ bot.received \in Nat
    BY DEF IInv, ShapeInv, Processes
  <2>2. bot' = [gen |-> bot.gen + 1, phase |-> "starting", active |-> 0, seen |-> "none", watch |-> FALSE,
                violations |-> 0, depth |-> 0, callback |-> "none", lost |-> FALSE,
                producers |-> 0, before |-> 0, high |-> 0, after |-> 0, received |-> bot.received]
    BY DEF StartBot, Fresh
  <2> QED
    BY <2>1, <2>2 DEF Processes, Phases, Callbacks, States
<1>2. UNCHANGED <<scene, fence, pend, marks, journal, work, mgr, txn, dirty, clean, crashes>>
  BY DEF StartBot, durable
<1>3. ShapeInv'
  BY <1>1, <1>2, Constants DEF IInv, ShapeInv
<1>4. GenInv'
  BY <1>1, <1>2, Fields DEF IInv, GenInv
<1>5. OneInv' /\ TxnInv'
  BY <1>2, OneKept, TxnKept DEF IInv
<1>6. PhaseInv' /\ HeldInv' /\ CountInv'
  BY <1>1 DEF PhaseInv, HeldInv, CountInv, Running
<1>7. LossInv' /\ CleanInv'
  BY <1>1, <1>2, Fields DEF IInv, LossInv, CleanInv, Tainted, Running
<1> QED
  BY <1>3, <1>4, <1>5, <1>6, <1>7 DEF IInv

(* setup_hook: every fence there is names an older process. *)
LEMMA NextLookForFence == ASSUME RestartAssumption, IInv, LookForFence PROVE IInv'
<1>0. /\ bot.phase = "starting" /\ bot.active = 0 /\ bot.callback = "none" /\ bot.depth = 0 /\ ~bot.watch
      /\ UNCHANGED <<scene, fence, pend, marks, journal, work, mgr, txn, dirty, clean, crashes>>
  BY DEF LookForFence, durable, IInv, PhaseInv
<1>1. \A f \in Fences : fence[f].gen # bot.gen
  BY <1>0, Fields DEF IInv, GenInv
<1>2. CASE bot' = [bot EXCEPT !.phase = "idle"]
  <2>1. BotIs("idle", 0, bot.watch, 0, "none", bot.producers)
    BY <1>0, <1>2 DEF IInv, ShapeInv, Processes, Phases, BotIs
  <2>2. ShapeInv'
    BY <1>0, <2>1 DEF IInv, ShapeInv, BotIs
  <2>3. GenInv' /\ OneInv' /\ TxnInv'
    BY <1>0, <2>1, GenKept, OneKept, TxnKept DEF IInv, BotIs
  <2>4. PhaseInv' /\ HeldInv' /\ CountInv'
    BY <1>0, <1>1, <2>1, Constants DEF BotIs, PhaseInv, HeldInv, CountInv, Running
  <2>5. LossInv' /\ CleanInv'
    BY <1>0, <1>1, <2>1, Fields DEF IInv, BotIs, LossInv, CleanInv, Tainted, Running
  <2> QED
    BY <2>2, <2>3, <2>4, <2>5 DEF IInv
<1>3. ASSUME NEW f \in Fences, bot' = [bot EXCEPT !.phase = "adopting", !.active = f, !.seen = fence[f].state]
      PROVE  IInv'
  <2>1. BotIs("adopting", f, bot.watch, 0, "none", bot.producers)
    <3>1. fence[f].state \in States
      BY Fields DEF IInv
    <3> QED
      BY <1>0, <1>3, <3>1 DEF IInv, ShapeInv, Processes, Phases, BotIs
  <2>2. ShapeInv'
    BY <1>0, <2>1 DEF IInv, ShapeInv, BotIs
  <2>3. GenInv' /\ OneInv' /\ TxnInv'
    BY <1>0, <2>1, GenKept, OneKept, TxnKept DEF IInv, BotIs
  <2>4. PhaseInv' /\ HeldInv' /\ CountInv'
    BY <1>0, <2>1, Constants DEF BotIs, PhaseInv, HeldInv, CountInv, Running
  <2>5. LossInv' /\ CleanInv'
    BY <1>0, <1>1, <2>1, Fields DEF IInv, BotIs, LossInv, CleanInv, Tainted, Running
  <2> QED
    BY <2>2, <2>3, <2>4, <2>5 DEF IInv
<1> QED
  BY <1>2, <1>3 DEF LookForFence, ActiveFences

(* recover_for_replacement finishes a prepared handoff. *)
LEMMA NextAdoptPrepared == ASSUME RestartAssumption, IInv, AdoptPrepared PROVE IInv'
<1>0. /\ bot.phase = "adopting" /\ bot.active \in Fences /\ bot.callback = "none" /\ bot.depth = 0 /\ ~bot.watch
      /\ txn = NoTxn /\ UNCHANGED <<scene, pend, marks, journal, work, mgr, txn, clean, crashes>>
  BY Fields DEF AdoptPrepared, IInv, PhaseInv
<1>1. CASE Dying /\ UNCHANGED fence
  BY <1>0, <1>1, BotDies
<1>2. CASE /\ StateOf(bot.active) = "prepared" /\ UNCHANGED dirty
           /\ fence' = [fence EXCEPT ![bot.active].state = "committed"]
           /\ bot' = [bot EXCEPT !.seen = "committed"]
  <2> DEFINE r == fence[bot.active]
             t == [r EXCEPT !.state = "committed"]
  <2>1. /\ t \in FenceRows /\ t.state = "committed" /\ t.gen = r.gen /\ t.violations = r.violations
        /\ r.state = "prepared"
    BY <1>0, <1>2, Fields, RowState DEF IInv, States, Irreversible, StateOf
  <2>2. fence' = [fence EXCEPT ![bot.active] = t]
    BY <1>0, <1>2 DEF IInv, ShapeInv
  <2>3. RowIs(bot.active, t)
    BY <1>0, <2>1, <2>2, RowWritten DEF IInv
  <2>4. BotIs(bot.phase, bot.active, bot.watch, 0, "none", bot.producers)
    BY <1>0, <1>2 DEF IInv, ShapeInv, Processes, States, Irreversible, BotIs
  <2> HIDE DEF t
  <2>5. ShapeInv'
    BY <1>0, <1>2, <2>3, <2>4 DEF IInv, ShapeInv, BotIs, RowIs
  <2>6. GenInv' /\ OneInv' /\ TxnInv'
    <3>1. \A f \in Fences : fence'[f].gen = fence[f].gen /\ (fence'[f].state \in Standing => fence[f].state \in Standing)
      BY <2>1, <2>3 DEF RowIs, Standing, Irreversible
    <3> QED
      BY <1>0, <2>4, <3>1, GenKept, OneKept, TxnKept DEF IInv, BotIs
  <2>7. PhaseInv' /\ HeldInv' /\ CountInv'
    BY <1>0, <2>4, Constants DEF BotIs, PhaseInv, HeldInv, CountInv, Running
  <2>8. LossInv' /\ CleanInv'
    BY <1>0, <1>2, <2>1, <2>3, <2>4, Fields DEF IInv, BotIs, RowIs, LossInv, CleanInv, Tainted, Running, Held
  <2> QED
    BY <2>5, <2>6, <2>7, <2>8 DEF IInv
<1> QED
  BY <1>1, <1>2 DEF AdoptPrepared

(* The replacement adopts the fence: as clean only when there is no trace of a loss. *)
LEMMA NextAdopt == ASSUME RestartAssumption, IInv, Adopt PROVE IInv'
<1>0. /\ bot.phase = "adopting" /\ bot.active \in Fences /\ bot.callback = "none" /\ bot.depth = 0 /\ ~bot.watch
      /\ txn = NoTxn /\ UNCHANGED <<scene, journal, work, mgr, txn, crashes>>
  BY Fields DEF Adopt, IInv, PhaseInv
<1>1. CASE Dying /\ UNCHANGED <<fence, clean, pend, marks>>
  BY <1>0, <1>1, BotDies
<1>2. CASE /\ StateOf(bot.active) \in IF bot.seen = "committed" THEN {"committed"} ELSE Reversible
           /\ fence' = [fence EXCEPT ![bot.active].state = "released"]
           /\ clean' = IF bot.seen = "committed" /\ AsAcknowledged(bot.active) THEN clean \cup {bot.active} ELSE clean
           /\ pend' = pend \ {bot.active} /\ marks' = marks \ {bot.active}
           /\ bot' = [bot EXCEPT !.phase = "idle", !.active = 0, !.seen = "none"]
           /\ UNCHANGED dirty
  <2> DEFINE r == fence[bot.active]
             t == [r EXCEPT !.state = "released"]
  <2>1. t \in FenceRows /\ t.state = "released" /\ t.gen = r.gen /\ r.violations \in Nat
    BY <1>0, Fields, RowState DEF IInv, States
  <2>2. fence' = [fence EXCEPT ![bot.active] = t]
    BY <1>0, <1>2 DEF IInv, ShapeInv
  <2>3. RowIs(bot.active, t)
    BY <1>0, <2>1, <2>2, RowWritten DEF IInv
  <2>4. BotIs("idle", 0, bot.watch, 0, "none", bot.producers)
    BY <1>0, <1>2 DEF IInv, ShapeInv, Processes, States, Phases, BotIs
  <2>5. r.state \in Standing
    BY <1>2 DEF StateOf, Standing, Irreversible
  <2>6. \A f \in Fences : fence[f].gen < bot.gen /\ fence[f].gen # bot.gen
    BY <1>0, Fields DEF IInv, GenInv
  <2>7. \A f \in clean' : f \in clean \/ (f = bot.active /\ f \notin dirty)
    <3>1. bot.seen = "committed" /\ AsAcknowledged(bot.active) => bot.active \notin dirty
      BY <1>2, <2>1 DEF IInv, LossInv, Tainted, AsAcknowledged, StateOf, Held
    <3> QED
      BY <1>2, <3>1
  <2> HIDE DEF t
  <2>8. ShapeInv'
    BY <1>0, <1>2, <2>3, <2>4 DEF IInv, ShapeInv, BotIs, RowIs
  <2>9. GenInv' /\ OneInv' /\ TxnInv'
    <3>1. \A f \in Fences : fence'[f].gen = fence[f].gen /\ (fence'[f].state \in Standing => fence[f].state \in Standing)
      BY <2>1, <2>3, <2>5 DEF RowIs
    <3> QED
      BY <1>0, <2>4, <3>1, GenKept, OneKept, TxnKept DEF IInv, BotIs
  <2>10. PhaseInv' /\ HeldInv' /\ CountInv'
    <3>1. \A f \in Fences : fence'[f].gen # bot.gen
      BY <2>1, <2>3, <2>6 DEF RowIs
    <3> QED
      BY <1>0, <2>4, <3>1, Constants DEF BotIs, PhaseInv, HeldInv, CountInv, Running
  <2>11. LossInv'
    BY <1>0, <1>2, <2>1, <2>3, <2>4, <2>6, Fields DEF IInv, BotIs, RowIs, LossInv, Tainted, Running, Held
  <2>12. CleanInv'
    BY <1>0, <1>2, <2>1, <2>3, <2>4, <2>6, <2>7, Fields DEF IInv, BotIs, RowIs, CleanInv
  <2> QED
    BY <2>8, <2>9, <2>10, <2>11, <2>12 DEF IInv
<1> QED
  BY <1>1, <1>2 DEF Adopt

(* _poll_once under a fence. *)
LEMMA NextPoll == ASSUME RestartAssumption, IInv, Poll PROVE IInv'
<1>0. /\ Running /\ bot.active \in Fences /\ bot.active # 0 /\ bot.phase = "idle" /\ UNCHANGED <<pend, marks>> /\ NoOthers
  BY Fields DEF Poll, IInv, Running
<1>1. /\ fence[bot.active].gen = bot.gen /\ bot.producers \in Nat /\ fence[bot.active].state # "none"
  BY <1>0, Fields DEF IInv, PhaseInv
<1>2. CASE Dying /\ UNCHANGED fence
  BY <1>0, <1>2, BotDies DEF NoOthers
<1>3. CASE StateOf(bot.active) \in {"released", "violated"} /\ Goto("rollback") /\ UNCHANGED <<fence, dirty>>
  <2>1. BotIs("rollback", bot.active, bot.watch, bot.depth, bot.callback, bot.producers)
    BY <1>3, GotoEffect DEF IInv, Phases
  <2>2. "rollback" \in Phases /\ "rollback" \notin Quiescing \cup Counting \cup Draining
    BY DEF Quiescing, Counting, Draining, Phases
  <2> QED
    BY <1>0, <1>1, <1>3, <2>1, <2>2, WorkerMoves DEF StateOf
<1>4. CASE /\ StateOf(bot.active) = "acknowledged" /\ txn = NoTxn
           /\ fence' = [fence EXCEPT ![bot.active] = Counted(@)]
           /\ UNCHANGED <<bot, dirty>>
  <2>1. BotIs(bot.phase, bot.active, bot.watch, bot.depth, bot.callback, bot.producers)
    BY <1>4 DEF IInv, ShapeInv, BotIs
  <2>2. fence[bot.active].state \in Held
    BY <1>4 DEF StateOf, Held
  <2>3. bot.callback \in {"counted", bot.callback}
    OBVIOUS
  <2> QED
    BY <1>0, <1>1, <1>4, <2>1, <2>2, <2>3, RowCounts DEF NoOthers
<1> QED
  BY <1>2, <1>3, <1>4 DEF Poll

-----------------------------------------------------------------------------
(* Steps of the managers. *)

Ended == {"idle", "request", "done", "failed", "killed"}

(* A manager writes its own record; what it writes to the fences it writes alone. *)
LEMMA ManagerMoves ==
  ASSUME RestartAssumption, IInv, NEW m \in Managers, NEW r \in Restarters, Set(m, r),
         bot'.gen = bot.gen, \A f \in Fences : fence'[f].gen = fence[f].gen \/ fence'[f].gen = mgr[m].gen,
         bot'.phase \in {"starting", "adopting"} => bot.phase \in {"starting", "adopting"},
         r.gen = mgr[m].gen \/ (r.gen = bot.gen /\ bot'.phase \notin {"starting", "adopting"}),
         txn' = txn \/ txn \in {NoTxn, m},
         fence' = fence \/ txn \in {NoTxn, m},
         r.pc \notin Ended => r.fence \in Fences,
         r.pc \in {"preparing", "late"} => txn' = m /\ fence'[r.fence].state = "acknowledged",
         r.pc = "committing" => txn' = m /\ fence'[r.fence].state \in {"acknowledged", "prepared"}
  PROVE  mgr' \in [Managers -> Restarters] /\ GenInv' /\ TxnInv'
<1>1. /\ mgr' \in [Managers -> Restarters] /\ mgr'[m] = r
      /\ \A n \in Managers : n # m => mgr'[n] = mgr[n]
  BY DEF Set, IInv, ShapeInv
<1>2. GenInv'
  BY <1>1, Fields DEF IInv, GenInv
<1>3. TxnInv'
  <2> SUFFICES ASSUME NEW n \in Managers
               PROVE  /\ mgr'[n].pc \notin Ended => mgr'[n].fence \in Fences
                      /\ mgr'[n].pc \in {"preparing", "late"} => txn' = n /\ fence'[mgr'[n].fence].state = "acknowledged"
                      /\ mgr'[n].pc = "committing" => txn' = n /\ fence'[mgr'[n].fence].state \in {"acknowledged", "prepared"}
    BY DEF TxnInv, Ended
  <2>1. CASE n = m
    BY <1>1, <2>1
  <2>2. CASE n # m
    BY <1>1, <2>2, Constants DEF IInv, TxnInv, Ended
  <2> QED
    BY <2>1, <2>2
<1> QED
  BY <1>1, <1>2, <1>3

(* A step of a manager that the process and the fences do not notice. *)
LEMMA ManagerOnly ==
  ASSUME RestartAssumption, IInv, NEW m \in Managers, NEW r \in Restarters, Set(m, r),
         UNCHANGED fence, DataKept, BotKept,
         r.gen = mgr[m].gen \/ (r.gen = bot.gen /\ Running),
         txn' \in Managers \cup {NoTxn}, txn' = txn \/ txn \in {NoTxn, m},
         r.pc \notin Ended => r.fence \in Fences,
         r.pc \in {"preparing", "late"} => txn' = m /\ fence[r.fence].state = "acknowledged",
         r.pc = "committing" => txn' = m /\ fence[r.fence].state \in {"acknowledged", "prepared"}
  PROVE  IInv'
<1>1. mgr' \in [Managers -> Restarters] /\ GenInv' /\ TxnInv'
  BY ManagerMoves DEF BotKept, Running
<1>2. ShapeInv'
  BY <1>1 DEF IInv, ShapeInv, DataKept, BotKept
<1>3. OneInv' /\ PhaseInv' /\ HeldInv' /\ CountInv' /\ LossInv' /\ CleanInv'
  BY DEF IInv, OneInv, PhaseInv, HeldInv, CountInv, LossInv, CleanInv, Tainted, Running, DataKept, BotKept
<1> QED
  BY <1>1, <1>2, <1>3 DEF IInv

(* Going to another stage keeps the rest of the record. *)
LEMMA ToEffect ==
  ASSUME ShapeInv, NEW m \in Managers, NEW p \in Stages
  PROVE  LET r == [mgr[m] EXCEPT !.pc = p]
         IN  r \in Restarters /\ r.pc = p /\ r.fence = mgr[m].fence /\ r.gen = mgr[m].gen
<1>1. mgr[m] \in Restarters
  BY Fields
<1> QED
  BY <1>1 DEF Restarters

(* A manager that goes to a stage outside its transactions. *)
LEMMA ManagerGoes ==
  ASSUME RestartAssumption, IInv, NEW m \in Managers, NEW p \in Stages, To(m, p),
         UNCHANGED fence, DataKept, BotKept, txn' = txn \/ (txn = m /\ txn' = NoTxn),
         mgr[m].pc \notin Ended \/ p \in Ended, p \notin {"preparing", "late", "committing"}
  PROVE  IInv'
<1> DEFINE r == [mgr[m] EXCEPT !.pc = p]
<1>1. r \in Restarters /\ r.pc = p /\ r.fence = mgr[m].fence /\ r.gen = mgr[m].gen /\ Set(m, r)
  BY ToEffect DEF IInv, To
<1>2. p \notin Ended => mgr[m].fence \in Fences
  BY DEF IInv, TxnInv, Ended
<1>3. txn' \in Managers \cup {NoTxn} /\ (txn' = txn \/ txn \in {NoTxn, m})
  BY DEF IInv, ShapeInv
<1> HIDE DEF r
<1> QED
  BY <1>1, <1>2, <1>3, ManagerOnly

(* A manager looks at the process. *)
LEMMA NextLook == ASSUME RestartAssumption, IInv, NEW m \in Managers, Look(m) PROVE IInv'
<1> DEFINE r == [mgr[m] EXCEPT !.pc = "request", !.gen = bot.gen]
<1>1. mgr[m] \in Restarters /\ bot.gen \in Nat
  BY Fields DEF IInv
<1>2. r \in Restarters /\ r.pc = "request" /\ r.gen = bot.gen
  BY <1>1 DEF Restarters, Stages
<1>3. Set(m, r) /\ UNCHANGED <<fence, txn>> /\ DataKept /\ BotKept /\ Running
  BY DEF Look
<1>4. txn' \in Managers \cup {NoTxn} /\ r.pc \in Ended /\ r.pc \notin {"preparing", "late", "committing"}
  BY <1>2, <1>3 DEF IInv, ShapeInv, Ended
<1> HIDE DEF r
<1> QED
  BY <1>2, <1>3, <1>4, ManagerOnly

(* A manager waits for the acknowledgement. *)
LEMMA NextWait == ASSUME RestartAssumption, IInv, NEW m \in Managers, WaitAcknowledged(m) PROVE IInv'
<1>1. PICK p \in {"snapshot", "abort"} : To(m, p)
  BY DEF WaitAcknowledged
<1>2. /\ UNCHANGED <<fence, txn>> /\ DataKept /\ BotKept /\ mgr[m].pc \notin Ended
      /\ p \in Stages /\ p \notin {"preparing", "late", "committing"}
  BY DEF WaitAcknowledged, At, Ended, Stages
<1> QED
  BY <1>1, <1>2, ManagerGoes

(* A manager takes its snapshot of what blocks. *)
LEMMA NextSnapshot == ASSUME RestartAssumption, IInv, NEW m \in Managers, SnapshotUnderFence(m) PROVE IInv'
<1>1. /\ UNCHANGED <<fence, txn>> /\ DataKept /\ BotKept /\ mgr[m].pc \notin Ended
  BY DEF SnapshotUnderFence, At, Ended
<1>2. CASE To(m, "abort")
  BY <1>1, <1>2, ManagerGoes DEF Stages
<1>3. CASE Set(m, [mgr[m] EXCEPT !.pc = "decide", !.blocked = work])
  <2> DEFINE r == [mgr[m] EXCEPT !.pc = "decide", !.blocked = work]
  <2>1. mgr[m] \in Restarters /\ work \in BOOLEAN
    BY Fields DEF IInv, ShapeInv
  <2>2. r \in Restarters /\ r.pc = "decide" /\ r.fence = mgr[m].fence /\ r.gen = mgr[m].gen
    BY <2>1 DEF Restarters, Stages
  <2>3. mgr[m].fence \in Fences /\ txn' \in Managers \cup {NoTxn}
    BY <1>1 DEF IInv, TxnInv, ShapeInv, Ended
  <2> HIDE DEF r
  <2> QED
    BY <1>1, <1>3, <2>2, <2>3, ManagerOnly DEF r
<1> QED
  BY <1>2, <1>3 DEF SnapshotUnderFence, Quit

(* A manager decides on its snapshot. *)
LEMMA NextDecide == ASSUME RestartAssumption, IInv, NEW m \in Managers, Decide(m) PROVE IInv'
<1>1. PICK p \in {"prepare", "recheck", "abort"} : To(m, p)
  BY DEF Decide, Quit
<1>2. /\ UNCHANGED <<fence, txn>> /\ DataKept /\ BotKept /\ mgr[m].pc \notin Ended
      /\ p \in Stages /\ p \notin {"preparing", "late", "committing"}
  BY DEF Decide, At, Ended, Stages
<1> QED
  BY <1>1, <1>2, ManagerGoes

(* A manager looks at the process again. *)
LEMMA NextRecheck == ASSUME RestartAssumption, IInv, NEW m \in Managers, Recheck(m) PROVE IInv'
<1>1. PICK p \in {"commit", "abort"} : To(m, p)
  BY DEF Recheck, Quit
<1>2. /\ UNCHANGED <<fence, txn>> /\ DataKept /\ BotKept /\ mgr[m].pc \notin Ended
      /\ p \in Stages /\ p \notin {"preparing", "late", "committing"}
  BY DEF Recheck, At, Ended, Stages
<1> QED
  BY <1>1, <1>2, ManagerGoes

(* A manager dies, and its transaction with it. *)
LEMMA NextKilled == ASSUME RestartAssumption, IInv, NEW m \in Managers, Killed(m) PROVE IInv'
<1>1. PICK p \in {"failed", "killed"} : To(m, p)
  BY DEF Killed
<1>2. /\ UNCHANGED fence /\ DataKept /\ BotKept /\ p \in Stages /\ p \in Ended
      /\ p \notin {"preparing", "late", "committing"} /\ (txn' = txn \/ (txn = m /\ txn' = NoTxn))
  BY DEF Killed, Ended, Stages
<1> QED
  BY <1>1, <1>2, ManagerGoes

(* The transaction opens on a fence that was checked in it. *)
LEMMA TransactionOpens ==
  ASSUME RestartAssumption, IInv, NEW m \in Managers, NEW p \in {"preparing", "late", "committing"}, To(m, p),
         UNCHANGED fence, DataKept, BotKept, txn = NoTxn, txn' = m, mgr[m].pc \notin Ended,
         p # "committing" => fence[mgr[m].fence].state = "acknowledged",
         p = "committing" => fence[mgr[m].fence].state \in {"acknowledged", "prepared"}
  PROVE  IInv'
<1> DEFINE r == [mgr[m] EXCEPT !.pc = p]
<1>0. p \in Stages
  BY DEF Stages
<1>1. r \in Restarters /\ r.pc = p /\ r.fence = mgr[m].fence /\ r.gen = mgr[m].gen /\ Set(m, r)
  BY <1>0, ToEffect DEF IInv, To
<1>2. mgr[m].fence \in Fences
  BY DEF IInv, TxnInv, Ended
<1> HIDE DEF r
<1> QED
  BY <1>1, <1>2, ManagerOnly

(* prepare_restart begins: it holds the database and its fence is acknowledged. *)
LEMMA NextPrepareBegin == ASSUME RestartAssumption, IInv, NEW m \in Managers, PrepareBegin(m) PROVE IInv'
<1>1. UNCHANGED fence /\ DataKept /\ BotKept /\ txn = NoTxn /\ mgr[m].pc \notin Ended
  BY DEF PrepareBegin, At, Ended
<1>2. CASE StillAcknowledged(mgr[m].fence, {"acknowledged"})
  <2>1. PICK p \in {"preparing", "late"} : To(m, p) /\ txn' = m
    BY <1>2 DEF PrepareBegin
  <2>2. fence[mgr[m].fence].state = "acknowledged"
    BY <1>2 DEF StillAcknowledged, StateOf
  <2> QED
    BY <1>1, <2>1, <2>2, TransactionOpens
<1>3. CASE ~StillAcknowledged(mgr[m].fence, {"acknowledged"})
  <2>1. PICK p \in {"failed", "abort"} : To(m, p) /\ UNCHANGED txn
    BY <1>3 DEF PrepareBegin
  <2>2. p \in Stages /\ p \notin {"preparing", "late", "committing"}
    BY DEF Stages
  <2> QED
    BY <1>1, <2>1, <2>2, ManagerGoes
<1> QED
  BY <1>2, <1>3

(* commit_quiesce begins: it holds the database and its fence is acknowledged or prepared. *)
LEMMA NextCommitBegin == ASSUME RestartAssumption, IInv, NEW m \in Managers, CommitBegin(m) PROVE IInv'
<1>1. UNCHANGED fence /\ DataKept /\ BotKept /\ txn = NoTxn /\ mgr[m].pc \notin Ended
  BY DEF CommitBegin, At, Ended
<1>2. CASE StillAcknowledged(mgr[m].fence, {"acknowledged", "prepared"})
  <2>1. To(m, "committing") /\ txn' = m
    BY <1>2 DEF CommitBegin
  <2>2. fence[mgr[m].fence].state \in {"acknowledged", "prepared"}
    BY <1>2 DEF StillAcknowledged, StateOf
  <2> QED
    BY <1>1, <2>1, <2>2, TransactionOpens
<1>3. CASE ~StillAcknowledged(mgr[m].fence, {"acknowledged", "prepared"})
  BY <1>1, <1>3, ManagerGoes DEF CommitBegin, Quit, Stages
<1> QED
  BY <1>2, <1>3

(* A transaction takes the fence a step further: acknowledged or prepared becomes prepared or committed. *)
LEMMA FenceAdvances ==
  ASSUME RestartAssumption, IInv, NEW m \in Managers, txn = m, txn' = NoTxn,
         NEW r \in Restarters, Set(m, r), r.gen = mgr[m].gen, r.pc \notin Ended => r.fence \in Fences,
         r.pc \notin {"preparing", "late", "committing"},
         NEW f \in Fences, fence[f].state \in {"acknowledged", "prepared"},
         NEW s \in {"prepared", "committed"}, fence' = [fence EXCEPT ![f].state = s], DataKept, BotKept
  PROVE  IInv'
<1> DEFINE t == [fence[f] EXCEPT !.state = s]
<1>1. /\ t \in FenceRows /\ t.state = s /\ t.gen = fence[f].gen /\ t.violations = fence[f].violations
      /\ t.producers = fence[f].producers
  <2>1. s \in States
    BY DEF States, Irreversible
  <2> QED
    BY <2>1, Fields, RowState DEF IInv
<1>2. RowIs(f, t)
  <2>1. fence' = [fence EXCEPT ![f] = t]
    BY DEF IInv, ShapeInv
  <2> QED
    BY <1>1, <2>1, RowWritten DEF IInv
<1> HIDE DEF t
<1>3. mgr' \in [Managers -> Restarters] /\ GenInv' /\ TxnInv'
  <2>1. \A g \in Fences : fence'[g].gen = fence[g].gen
    BY <1>1, <1>2 DEF RowIs
  <2> QED
    BY <2>1, ManagerMoves DEF BotKept
<1>4. ShapeInv'
  BY <1>2, <1>3 DEF IInv, ShapeInv, RowIs, DataKept, BotKept
<1>5. OneInv'
  BY <1>1, <1>2, OneKept DEF IInv, RowIs, Standing, Reversible, Irreversible
<1>6. PhaseInv' /\ HeldInv' /\ CountInv'
  BY <1>1, <1>2 DEF IInv, RowIs, PhaseInv, HeldInv, CountInv, Running, Held, Quiescing, BotKept, DataKept
<1>7. LossInv' /\ CleanInv'
  BY <1>1, <1>2, Fields DEF IInv, RowIs, LossInv, CleanInv, Tainted, Running, Held, BotKept, DataKept
<1> QED
  BY <1>3, <1>4, <1>5, <1>6, <1>7 DEF IInv

(* prepare_restart writes what its checks allowed. *)
LEMMA NextPrepareWrite == ASSUME RestartAssumption, IInv, NEW m \in Managers, PrepareWrite(m) PROVE IInv'
<1>1. /\ mgr[m].fence \in Fences /\ txn = m /\ fence[mgr[m].fence].state = "acknowledged" /\ mgr[m] \in Restarters
  BY Fields DEF PrepareWrite, At, IInv, TxnInv
<1>2. fence' = [fence EXCEPT ![mgr[m].fence].state = "prepared"] /\ txn' = NoTxn /\ DataKept /\ BotKept
  BY DEF PrepareWrite
<1>3. ASSUME NEW p \in {"failed", "overdue"}, To(m, p) PROVE IInv'
  <2> DEFINE r == [mgr[m] EXCEPT !.pc = p]
  <2>0. p \in Stages
    BY DEF Stages
  <2>1. r \in Restarters /\ r.pc = p /\ r.fence = mgr[m].fence /\ r.gen = mgr[m].gen /\ Set(m, r)
    BY <1>3, <2>0, ToEffect DEF IInv, To
  <2> HIDE DEF r
  <2> QED
    BY <1>1, <1>2, <2>1, FenceAdvances
<1>4. CASE Set(m, [mgr[m] EXCEPT !.pc = "recheck", !.sure = TRUE])
  <2> DEFINE r == [mgr[m] EXCEPT !.pc = "recheck", !.sure = TRUE]
  <2>1. r \in Restarters /\ r.pc = "recheck" /\ r.fence = mgr[m].fence /\ r.gen = mgr[m].gen
    BY <1>1 DEF Restarters, Stages
  <2>2. Set(m, r)
    BY <1>4
  <2> HIDE DEF r
  <2> QED
    BY <1>1, <1>2, <2>1, <2>2, FenceAdvances
<1> QED
  BY <1>3, <1>4 DEF PrepareWrite

(* commit_quiesce writes what its checks allowed. *)
LEMMA NextCommitWrite == ASSUME RestartAssumption, IInv, NEW m \in Managers, CommitWrite(m) PROVE IInv'
<1>1. /\ mgr[m].fence \in Fences /\ txn = m /\ fence[mgr[m].fence].state \in {"acknowledged", "prepared"}
  BY DEF CommitWrite, At, IInv, TxnInv
<1>2. /\ fence' = [fence EXCEPT ![mgr[m].fence].state = "committed"] /\ txn' = NoTxn /\ DataKept /\ BotKept
      /\ To(m, "restart")
  BY DEF CommitWrite
<1> DEFINE r == [mgr[m] EXCEPT !.pc = "restart"]
<1>3. r \in Restarters /\ r.pc = "restart" /\ r.fence = mgr[m].fence /\ r.gen = mgr[m].gen /\ Set(m, r)
  BY <1>2, ToEffect DEF IInv, To, Stages
<1> HIDE DEF r
<1> QED
  BY <1>1, <1>2, <1>3, FenceAdvances

(* The process that runs is terminated by a manager, which may first commit what is prepared. *)
LEMMA ManagerTerminates ==
  ASSUME RestartAssumption, IInv, NEW m \in Managers, NEW p \in Stages, To(m, p),
         IF Up THEN Dying ELSE UNCHANGED <<bot, dirty>>,
         UNCHANGED <<txn, clean>>, DataKept, fence' \in [Fences -> FenceRows],
         fence' = fence \/ txn = NoTxn,
         \A f \in Fences : \/ fence'[f] = fence[f]
                           \/ /\ fence[f].state = "prepared" /\ fence'[f].state = "committed"
                              /\ fence'[f].gen = fence[f].gen /\ fence'[f].violations = fence[f].violations,
         mgr[m].pc \notin Ended \/ p \in Ended, p \notin {"preparing", "committing"},
         p = "late" => txn = m /\ fence[mgr[m].fence].state = "acknowledged" /\ fence' = fence
  PROVE  IInv'
<1>1. /\ bot' \in Processes /\ bot'.depth <= Capacity /\ bot'.gen = bot.gen
      /\ bot'.phase = "down" /\ dirty' \subseteq Fences
      /\ OneInv' /\ PhaseInv' /\ HeldInv' /\ CountInv' /\ LossInv' /\ CleanInv'
  <2>1. CASE Up
    <3>1. Dying /\ UNCHANGED <<pend, marks, clean>>
      BY <2>1 DEF DataKept
    <3>2. /\ BotIs("down", bot.active, bot.watch, 0, "none", bot.producers)
          /\ dirty' \subseteq Fences
          /\ OneInv' /\ PhaseInv' /\ HeldInv' /\ CountInv' /\ LossInv' /\ CleanInv'
      BY <3>1, ProcessDies
    <3> QED
      BY <3>2 DEF BotIs
  <2>2. CASE ~Up
    <3>1. bot.phase = "down" /\ UNCHANGED <<bot, dirty, pend, marks, clean>>
      BY <2>2 DEF Up, DataKept
    <3>2. OneInv'
      BY OneKept DEF IInv, Standing, Irreversible
    <3>3. PhaseInv' /\ HeldInv' /\ CountInv'
      BY <3>1 DEF IInv, PhaseInv, HeldInv, CountInv, Running
    <3>4. LossInv' /\ CleanInv'
      BY <3>1, Fields DEF IInv, LossInv, CleanInv, Tainted, Running, Held
    <3> QED
      BY <3>1, <3>2, <3>3, <3>4 DEF IInv, ShapeInv
  <2> QED
    BY <2>1, <2>2
<1> DEFINE r == [mgr[m] EXCEPT !.pc = p]
<1>2. r \in Restarters /\ r.pc = p /\ r.fence = mgr[m].fence /\ r.gen = mgr[m].gen /\ Set(m, r)
  BY ToEffect DEF IInv, To
<1>3. r.pc \notin Ended => r.fence \in Fences
  BY <1>2 DEF IInv, TxnInv, Ended
<1> HIDE DEF r
<1>4. mgr' \in [Managers -> Restarters] /\ GenInv' /\ TxnInv'
  <2>1. \A f \in Fences : fence'[f].gen = fence[f].gen
    OBVIOUS
  <2> QED
    BY <1>1, <1>2, <1>3, <2>1, ManagerMoves
<1>5. ShapeInv'
  BY <1>1, <1>4 DEF IInv, ShapeInv, DataKept
<1> QED
  BY <1>1, <1>4, <1>5 DEF IInv

(* The wait for the prepared answer ends. *)
LEMMA NextPrepareTimeout == ASSUME RestartAssumption, IInv, NEW m \in Managers, PrepareTimeout(m) PROVE IInv'
<1>1. PICK p \in {"later", "late", "failed"} : To(m, p) /\ (p = "late" => mgr[m].pc = "preparing")
  BY DEF PrepareTimeout, At
<1>2. /\ IF Up THEN Dying ELSE UNCHANGED <<bot, dirty>>
      /\ UNCHANGED <<fence, txn, clean>> /\ DataKept /\ mgr[m].pc \notin Ended
  BY DEF PrepareTimeout, At, Ended
<1>3. p = "late" => txn = m /\ fence[mgr[m].fence].state = "acknowledged"
  BY <1>1 DEF IInv, TxnInv
<1>4. p \in Stages /\ p \notin {"preparing", "committing"} /\ fence' \in [Fences -> FenceRows]
  BY <1>2 DEF Stages, IInv, ShapeInv
<1> QED
  BY <1>1, <1>2, <1>3, <1>4, ManagerTerminates

(* The manager ends the process. *)
LEMMA NextRestartBot == ASSUME RestartAssumption, IInv, NEW m \in Managers, RestartBot(m) PROVE IInv'
<1>1. /\ IF Up THEN Dying ELSE UNCHANGED <<bot, dirty>>
      /\ UNCHANGED <<fence, txn, clean>> /\ DataKept /\ To(m, "done")
  BY DEF RestartBot
<1>2. "done" \in Stages /\ "done" \in Ended /\ fence' \in [Fences -> FenceRows]
  BY <1>1 DEF Stages, Ended, IInv, ShapeInv
<1> QED
  BY <1>1, <1>2, ManagerTerminates

(* The error path: what is past the point of no return is committed, anything else released. *)
LEMMA NextAbort == ASSUME RestartAssumption, IInv, NEW m \in Managers, Abort(m) PROVE IInv'
<1> DEFINE f == mgr[m].fence
<1>0. /\ f \in Fences /\ txn = NoTxn /\ To(m, "failed") /\ fence[f] \in FenceRows
      /\ UNCHANGED <<scene, txn, journal, work, clean, crashes>>
      /\ "failed" \in Stages /\ "failed" \in Ended
  <2>1. f \in Fences
    BY DEF Abort, At, IInv, TxnInv
  <2> QED
    BY <2>1, Fields DEF Abort, IInv, Stages, Ended
<1>1. CASE /\ fence' = [fence EXCEPT ![f].state = IF @ = "prepared" THEN "committed" ELSE @]
           /\ IF Up THEN Dying ELSE UNCHANGED <<bot, dirty>>
           /\ UNCHANGED <<pend, marks>>
  <2> DEFINE t == [fence[f] EXCEPT !.state = IF fence[f].state = "prepared" THEN "committed" ELSE fence[f].state]
  <2>1. /\ t \in FenceRows /\ t.gen = fence[f].gen /\ t.violations = fence[f].violations
        /\ fence[f].state = "prepared" => t.state = "committed"
        /\ fence[f].state # "prepared" => t = fence[f]
    <3>1. CASE fence[f].state = "prepared"
      BY <1>0, <3>1, RowState DEF States, Irreversible
    <3>2. CASE fence[f].state # "prepared"
      BY <1>0, <3>2 DEF FenceRows
    <3> QED
      BY <3>1, <3>2
  <2>2. fence' = [fence EXCEPT ![f] = t]
    BY <1>0, <1>1 DEF IInv, ShapeInv
  <2>3. RowIs(f, t)
    BY <1>0, <2>1, <2>2, RowWritten DEF IInv
  <2> HIDE DEF f, t
  <2>4. fence' \in [Fences -> FenceRows]
        /\ \A g \in Fences : \/ fence'[g] = fence[g]
                             \/ /\ fence[g].state = "prepared" /\ fence'[g].state = "committed"
                                /\ fence'[g].gen = fence[g].gen /\ fence'[g].violations = fence[g].violations
    BY <2>1, <2>3 DEF RowIs
  <2> QED
    BY <1>0, <1>1, <2>4, ManagerTerminates DEF DataKept
<1>2. CASE /\ StateOf(f) \notin Irreversible
           /\ fence' = [fence EXCEPT ![f].state = IF @ \in Reversible THEN "released" ELSE @]
           /\ pend' = pend \ {f} /\ marks' = marks \ {f}
           /\ UNCHANGED <<bot, dirty>>
  <2> DEFINE t == [fence[f] EXCEPT !.state = IF fence[f].state \in Reversible THEN "released" ELSE fence[f].state]
  <2>1. /\ t \in FenceRows /\ t.gen = fence[f].gen
        /\ fence[f].state \in Reversible => t.state = "released"
        /\ fence[f].state \notin Reversible => t = fence[f]
    <3>1. CASE fence[f].state \in Reversible
      BY <1>0, <3>1, RowState DEF States
    <3>2. CASE fence[f].state \notin Reversible
      BY <1>0, <3>2 DEF FenceRows
    <3> QED
      BY <3>1, <3>2
  <2>2. fence' = [fence EXCEPT ![f] = t]
    BY <1>0, <1>2 DEF IInv, ShapeInv
  <2>3. RowIs(f, t)
    BY <1>0, <2>1, <2>2, RowWritten DEF IInv
  <2>4. t.state \in {"none", "released"} /\ (fence[f].state # "none" => t.state = "released")
    BY <1>0, <1>2, <2>1 DEF StateOf, FenceRows, States
  <2> DEFINE r == [mgr[m] EXCEPT !.pc = "failed"]
  <2>5. r \in Restarters /\ r.pc = "failed" /\ r.gen = mgr[m].gen /\ Set(m, r)
    BY <1>0, ToEffect DEF IInv, To
  <2> HIDE DEF f, t, r
  <2>6. mgr' \in [Managers -> Restarters] /\ GenInv' /\ TxnInv'
    <3>1. \A g \in Fences : fence'[g].gen = fence[g].gen
      BY <2>1, <2>3 DEF RowIs
    <3> QED
      BY <1>0, <1>2, <2>5, <3>1, ManagerMoves
  <2>7. ShapeInv'
    BY <1>0, <1>2, <2>3, <2>6 DEF IInv, ShapeInv, RowIs
  <2>8. OneInv'
    BY <2>3, <2>4, OneKept DEF IInv, RowIs, Standing, Reversible, Irreversible
  <2>9. PhaseInv'
    BY <1>2, <2>1, <2>3, <2>4 DEF IInv, RowIs, PhaseInv, Running, Quiescing
  <2>10. HeldInv' /\ CountInv'
    BY <1>2, <2>1, <2>3, <2>4 DEF IInv, RowIs, HeldInv, CountInv, Running, Held
  <2>11. LossInv' /\ CleanInv'
    BY <1>0, <1>2, <2>1, <2>3, <2>4, Fields DEF IInv, RowIs, LossInv, CleanInv, Tainted, Running, Held
  <2> QED
    BY <2>6, <2>7, <2>8, <2>9, <2>10, <2>11 DEF IInv
<1> QED
  BY <1>1, <1>2 DEF Abort

(* request_quiesce: the fences in use are released before the new one is requested. *)
LEMMA NextRequest == ASSUME RestartAssumption, IInv, NEW m \in Managers, Request(m) PROVE IInv'
<1>0. UNCHANGED txn /\ DataKept /\ BotKept /\ txn = NoTxn /\ mgr[m] \in Restarters /\ mgr[m].gen \in Nat
  BY Fields DEF Request, IInv
<1>1. CASE To(m, "failed") /\ UNCHANGED fence
  BY <1>0, <1>1, ManagerGoes DEF Stages, Ended
<1>2. ASSUME NEW n \in Fences, StateOf(n) = "none",
             fence' = [f \in Fences |->
                         IF f = n THEN [NoFence EXCEPT !.state = "requested", !.gen = mgr[m].gen]
                         ELSE IF f \in ActiveFences THEN [fence[f] EXCEPT !.state = "released"]
                         ELSE fence[f]],
             Set(m, [mgr[m] EXCEPT !.pc = "wait", !.fence = n]),
             \A f \in ActiveFences : StateOf(f) \in Reversible
      PROVE  IInv'
  <2> DEFINE r == [mgr[m] EXCEPT !.pc = "wait", !.fence = n]
  <2>1. r \in Restarters /\ r.pc = "wait" /\ r.fence = n /\ r.gen = mgr[m].gen
    BY <1>0 DEF Restarters, Stages
  <2>2. Set(m, r)
    BY <1>2
  <2> DEFINE t == [NoFence EXCEPT !.state = "requested", !.gen = mgr[m].gen]
  <2>3. t \in FenceRows /\ t.state = "requested" /\ t.gen = mgr[m].gen
    BY <1>0, NoFenceRow, RowRequested
  <2>4. fence'[n] = t
    BY <1>2
  <2>5. \A f \in Fences : f # n /\ fence[f].state \in Standing =>
          /\ fence'[f] \in FenceRows /\ fence'[f].state = "released" /\ fence'[f].gen = fence[f].gen
          /\ fence[f].state \in Reversible
    <3> SUFFICES ASSUME NEW f \in Fences, f # n, fence[f].state \in Standing
                 PROVE  /\ fence'[f] \in FenceRows /\ fence'[f].state = "released" /\ fence'[f].gen = fence[f].gen
                        /\ fence[f].state \in Reversible
      OBVIOUS
    <3>1. f \in ActiveFences
      BY DEF ActiveFences, Standing
    <3>2. fence'[f] = [fence[f] EXCEPT !.state = "released"] /\ fence[f].state \in Reversible
      BY <1>2, <3>1 DEF StateOf
    <3>3. fence[f] \in FenceRows /\ "released" \in States
      BY Fields DEF IInv, States
    <3> QED
      BY <3>2, <3>3, RowState
  <2>6. \A f \in Fences : f # n /\ fence[f].state \notin Standing => fence'[f] = fence[f]
    BY <1>2 DEF ActiveFences, Standing
  <2>7. fence[n].state = "none" /\ n \notin dirty /\ n \notin clean
    BY <1>2 DEF StateOf, IInv, LossInv, CleanInv
  <2> HIDE DEF r, t
  <2>8. fence' \in [Fences -> FenceRows]
    <3>1. \A f \in Fences : fence'[f] \in FenceRows
      BY <2>3, <2>4, <2>5, <2>6, Fields DEF IInv
    <3>2. fence' = [f \in Fences |-> fence'[f]]
      BY <1>2
    <3> QED
      BY <3>1, <3>2
  <2>9. \A f \in Fences : /\ fence'[f].state = "requested" => f = n
                          /\ fence'[f].state \in Standing => f = n
                          /\ fence'[f].state \in Held => FALSE
                          /\ fence'[f].gen = fence[f].gen \/ fence'[f].gen = mgr[m].gen
                          /\ f # n => fence'[f].gen = fence[f].gen
    BY <2>3, <2>4, <2>5, <2>6 DEF Standing, Reversible, Irreversible, Held
  <2>10. mgr' \in [Managers -> Restarters] /\ GenInv' /\ TxnInv'
    BY <1>0, <2>1, <2>2, <2>9, ManagerMoves DEF BotKept
  <2>11. ShapeInv'
    BY <1>0, <2>8, <2>10 DEF IInv, ShapeInv, DataKept, BotKept
  <2>12. OneInv'
    BY <2>9 DEF OneInv
  <2>13. PhaseInv'
    <3>1. UNCHANGED <<bot, pend>>
      BY <1>0 DEF BotKept, DataKept
    <3>2. \A f \in Fences : Running /\ bot.active = f =>
            /\ f # n /\ fence'[f].gen = bot.gen
            /\ fence'[f].state = "released" \/ (fence'[f] = fence[f] /\ fence[f].state # "none")
      BY <2>5, <2>6, <2>7 DEF IInv, PhaseInv
    <3> QED
      BY <3>1, <3>2 DEF IInv, PhaseInv, Running
  <2>14. HeldInv'
    BY <2>9 DEF HeldInv
  <2>15. CountInv'
    <3>1. UNCHANGED bot
      BY <1>0 DEF BotKept
    <3>2. \A f \in Fences : Running /\ bot.active = f => f # n
      BY <2>7 DEF IInv, PhaseInv
    <3>3. \A f \in Fences : f # n => fence'[f].producers = fence[f].producers /\ fence'[f].state # "requested"
      <4> SUFFICES ASSUME NEW f \in Fences, f # n PROVE fence'[f].producers = fence[f].producers
        BY <2>9
      <4>1. CASE f \in ActiveFences
        <5>1. fence'[f] = [fence[f] EXCEPT !.state = "released"] /\ fence[f] \in FenceRows
          BY <1>2, <4>1, Fields DEF IInv
        <5> QED
          BY <5>1 DEF FenceRows
      <4>2. CASE f \notin ActiveFences
        BY <1>2, <4>2
      <4> QED
        BY <4>1, <4>2
    <3> QED
      BY <3>1, <3>2, <3>3 DEF IInv, CountInv, Running
  <2>16. LossInv'
    <3>1. UNCHANGED <<bot, dirty>>
      BY <1>0 DEF BotKept
    <3>2. \A f \in dirty : f \in Fences /\ f # n /\ fence'[f].state # "requested" /\ fence'[f].state \notin Held
                           /\ fence'[f].state # "none"
      BY <2>5, <2>6, <2>7, <2>9, Fields DEF IInv, LossInv
    <3> QED
      BY <3>1, <3>2 DEF LossInv
  <2>17. CleanInv'
    <3>1. UNCHANGED <<bot, dirty, clean>>
      BY <1>0 DEF BotKept
    <3>2. \A f \in clean : f \in Fences /\ f # n /\ fence[f].state \notin Standing
      BY <2>7, Fields DEF IInv, CleanInv, Standing, Reversible, Irreversible
    <3> QED
      BY <2>6, <3>1, <3>2 DEF IInv, CleanInv
  <2> QED
    BY <2>10, <2>11, <2>12, <2>13, <2>14, <2>15, <2>16, <2>17 DEF IInv
<1> QED
  BY <1>1, <1>2 DEF Request

-----------------------------------------------------------------------------
(* The invariant holds at first and is kept by every step. *)

(* The initial state satisfies the invariant. *)
LEMMA InitIInv == ASSUME RestartAssumption, Init PROVE IInv
<1>1. /\ bot \in Processes /\ bot.gen = 1 /\ bot.phase = "idle" /\ bot.active = 0 /\ bot.watch = FALSE
      /\ bot.depth = 0 /\ bot.callback = "none"
  <2>1. bot = [gen |-> 1, phase |-> "idle", active |-> 0, seen |-> "none", watch |-> FALSE,
               violations |-> 0, depth |-> 0, callback |-> "none", lost |-> FALSE,
               producers |-> 0, before |-> 0, high |-> 0, after |-> 0, received |-> 0]
    BY DEF Init, Fresh
  <2> QED
    BY <2>1 DEF Processes, Phases, Callbacks, States
<1>2. NoFence \in FenceRows /\ NoFence.state = "none" /\ NoFence.gen = 0
  BY NoFenceRow
<1>3. fence \in [Fences -> FenceRows] /\ \A f \in Fences : fence[f].state = "none" /\ fence[f].gen = 0
  <2>1. fence = [f \in Fences |-> NoFence]
    BY DEF Init
  <2> QED
    BY <1>2, <2>1
<1>4. mgr \in [Managers -> Restarters] /\ \A m \in Managers : mgr[m].pc = "idle" /\ mgr[m].gen = 0
  <2> DEFINE r == [pc |-> "idle", fence |-> 0, gen |-> 0, blocked |-> FALSE, sure |-> FALSE]
  <2>1. r \in Restarters /\ r.pc = "idle" /\ r.gen = 0
    BY DEF Restarters, Stages
  <2>2. mgr = [m \in Managers |-> r]
    BY DEF Init
  <2> HIDE DEF r
  <2> QED
    BY <2>1, <2>2
<1>5. ShapeInv
  BY <1>1, <1>3, <1>4, Constants DEF Init, ShapeInv
<1>6. GenInv /\ TxnInv
  BY <1>1, <1>3, <1>4 DEF GenInv, TxnInv
<1>7. OneInv /\ PhaseInv /\ HeldInv /\ CountInv
  BY <1>1, <1>3, Constants DEF OneInv, PhaseInv, HeldInv, CountInv, Running, Held, Standing, Reversible, Irreversible
<1>8. LossInv /\ CleanInv
  BY DEF Init, LossInv, CleanInv
<1> QED
  BY <1>5, <1>6, <1>7, <1>8 DEF IInv

(* Every step keeps the invariant. *)
LEMMA NextIInv == ASSUME RestartAssumption, IInv, [Next]_vars PROVE IInv'
<1>1. CASE BotStep
  <2>1. CASE Account \/ AccountFails \/ Enter \/ Reduce
    BY <2>1, NextAccount, NextAccountFails, NextEnter, NextReduce
  <2>2. CASE StartBot \/ LookForFence \/ AdoptPrepared \/ Adopt
    BY <2>2, NextStartBot, NextLookForFence, NextAdoptPrepared, NextAdopt
  <2>3. CASE WorkerStep
    BY <2>3, NextPick, NextPoll, NextBegin, NextDrained, NextLookAgain, NextReadBefore, NextReadAfter,
       NextAcknowledge, NextRollback DEF WorkerStep
  <2> QED
    BY <1>1, <2>1, <2>2, <2>3 DEF BotStep
<1>2. CASE Receive
  BY <1>2, NextReceive
<1>3. CASE Crash
  BY <1>3, BotDies DEF Crash, durable
<1>4. ASSUME NEW m \in Managers, Look(m) \/ ManagerStep(m) \/ Killed(m) PROVE IInv'
  <2>1. CASE Look(m) \/ Killed(m)
    BY <2>1, NextLook, NextKilled
  <2>2. CASE ManagerStep(m)
    BY <2>2, NextRequest, NextWait, NextSnapshot, NextDecide, NextPrepareBegin, NextPrepareWrite,
       NextPrepareTimeout, NextRecheck, NextCommitBegin, NextCommitWrite, NextRestartBot, NextAbort DEF ManagerStep
  <2> QED
    BY <1>4, <2>1, <2>2
<1>5. CASE UNCHANGED vars
  <2>1. ShapeInv' /\ GenInv' /\ OneInv' /\ TxnInv'
    BY <1>5 DEF vars, IInv, ShapeInv, GenInv, OneInv, TxnInv
  <2>2. PhaseInv' /\ HeldInv' /\ CountInv' /\ LossInv' /\ CleanInv'
    BY <1>5 DEF vars, IInv, PhaseInv, HeldInv, CountInv, LossInv, CleanInv, Tainted, Running
  <2> QED
    BY <2>1, <2>2 DEF IInv
<1> QED
  BY <1>1, <1>2, <1>3, <1>4, <1>5 DEF Next

(* What the invariant says of the types and of the handoff. *)
LEMMA IInvImplies == ASSUME RestartAssumption, IInv PROVE TypeOK /\ HandoffSafe
<1>1. TypeOK
  <2>1. bot.phase \in Phases /\ bot.active \in Fences \cup {0} /\ bot.depth \in 0..Capacity
        /\ bot.callback \in {"none", "marked", "counted"}
    BY Fields, Constants DEF IInv, ShapeInv, Callbacks
  <2> QED
    BY <2>1 DEF IInv, ShapeInv, TypeOK, FenceRows, States
<1>2. OneFence
  BY DEF IInv, OneInv, OneFence, ActiveFences, Standing
<1>3. NothingLostSilently
  BY DEF IInv, CleanInv, NothingLostSilently
<1>4. IrreversibleHolds
  BY DEF IInv, HeldInv, IrreversibleHolds, StateOf, Irreversible, Held
<1> QED
  BY <1>1, <1>2, <1>3, <1>4 DEF HandoffSafe

(* The rows, the process, the transaction lock and the markers keep their types: in particular the *)
(* inbox never holds more than its capacity. *)
THEOREM TypeCorrect == ASSUME RestartAssumption PROVE Spec => []TypeOK
<1>1. Init => IInv
  BY InitIInv
<1>2. IInv /\ [Next]_vars => IInv'
  BY NextIInv
<1>3. IInv => TypeOK
  BY IInvImplies
<1> QED
  BY <1>1, <1>2, <1>3, PTL DEF Spec

(* request_quiesce, ServiceControlWorker, prepare_force, commit_quiesce, recover_for_replacement: *)
(* whatever the managers, the process and the callbacks do, there is one restart at a time, a *)
(* handoff adopted as clean lost no callback, and the process of a prepared or committed fence *)
(* admits no work. *)
THEOREM HandoffIsSafe == ASSUME RestartAssumption PROVE Spec => []HandoffSafe
<1>1. Init => IInv
  BY InitIInv
<1>2. IInv /\ [Next]_vars => IInv'
  BY NextIInv
<1>3. IInv => HandoffSafe
  BY IInvImplies
<1> QED
  BY <1>1, <1>2, <1>3, PTL DEF Spec

-----------------------------------------------------------------------------
(* commit_quiesce does not look for blocking work again: the journal tells that there is none. *)

Judging == {"decide", "prepare", "preparing", "recheck", "commit", "committing"}

(* A manager's snapshot of the blocking work is current as long as the journal is where the *)
(* acknowledgement left it. *)
Current(m, r) ==
  r.pc \in Judging =>
    /\ fence[r.fence].state \notin {"none", "requested"}
    /\ fence[r.fence].ackJ <= journal
    /\ r.blocked = FALSE /\ fence[r.fence].ackJ = journal => work = FALSE
    /\ r.pc # "decide" /\ Mode[m] = "normal" => r.blocked = FALSE
    /\ r.pc = "committing" => fence[r.fence].ackJ = journal
SnapshotInv == \A m \in Managers : Current(m, mgr[m])

(* The numbers of an acknowledgement stay in its row. *)
NumbersKept ==
  \A f \in Fences : fence[f].state \notin {"none", "requested"} =>
    fence'[f].state \notin {"none", "requested"} /\ fence'[f].ackJ = fence[f].ackJ

(* Changing the state of a row, counting and giving up keep the numbers. *)
LEMMA NumbersInRow ==
  ASSUME NEW r \in FenceRows
  PROVE  /\ Counted(r).ackJ = r.ackJ /\ (r.state \notin {"none", "requested"} => Counted(r).state \notin {"none", "requested"})
         /\ Failed(r).ackJ = r.ackJ /\ (r.state \notin {"none", "requested"} => Failed(r).state \notin {"none", "requested"})
         /\ \A s \in States : [r EXCEPT !.state = s].ackJ = r.ackJ /\ [r EXCEPT !.state = s].state = s
<1>1. Counted(r).ackJ = r.ackJ
  BY DEF Counted, FenceRows
<1>2. Failed(r).ackJ = r.ackJ
  BY DEF Failed, FenceRows
<1>3. \A s \in States : [r EXCEPT !.state = s].ackJ = r.ackJ /\ [r EXCEPT !.state = s].state = s
  BY DEF FenceRows
<1> QED
  BY <1>1, <1>2, <1>3, RowCounted, RowFailed

(* A write to the row of one fence. *)
LEMMA OneRowWritten ==
  ASSUME ShapeInv, NEW f \in Fences, NEW t, fence' = [fence EXCEPT ![f] = t],
         fence[f].state \notin {"none", "requested"} => t.state \notin {"none", "requested"} /\ t.ackJ = fence[f].ackJ
  PROVE  NumbersKept
BY DEF ShapeInv, NumbersKept

(* A write of the state alone keeps the numbers. *)
LEMMA StateWritten ==
  ASSUME ShapeInv, NEW f \in Fences, NEW s \in States, s \notin {"none", "requested"} \/ s = fence[f].state,
         fence' = [fence EXCEPT ![f].state = s]
  PROVE  NumbersKept
<1> DEFINE t == [fence[f] EXCEPT !.state = s]
<1>1. fence[f] \in FenceRows
  BY Fields
<1>2. t.ackJ = fence[f].ackJ /\ t.state = s
  BY <1>1, NumbersInRow
<1>3. fence' = [fence EXCEPT ![f] = t]
  BY DEF ShapeInv
<1> HIDE DEF t
<1> QED
  BY <1>2, <1>3, OneRowWritten

(* A write of the counts alone keeps the acknowledged numbers. *)
LEMMA CountWritten ==
  ASSUME ShapeInv, NEW f \in Fences, fence' = [fence EXCEPT ![f] = Counted(@)]
  PROVE  NumbersKept
<1>1. fence[f] \in FenceRows
  BY Fields
<1>2. fence' = [fence EXCEPT ![f] = Counted(fence[f])]
  OBVIOUS
<1> QED
  BY <1>1, <1>2, NumbersInRow, OneRowWritten

(* Giving a fence up keeps its numbers. *)
LEMMA GiveUpKeeps ==
  ASSUME ShapeInv, bot.active \in Fences, GiveUp
  PROVE  NumbersKept
<1>1. fence[bot.active] \in FenceRows
  BY Fields
<1>2. fence' = [fence EXCEPT ![bot.active] = Failed(fence[bot.active])]
  BY DEF GiveUp
<1> QED
  BY <1>1, <1>2, NumbersInRow, OneRowWritten

(* Nothing the process does loses the numbers of an acknowledgement. *)
LEMMA BotKeepsNumbers ==
  ASSUME RestartAssumption, IInv, BotStep \/ Receive \/ Crash
  PROVE  NumbersKept /\ UNCHANGED <<mgr, scene>> /\ (UNCHANGED <<journal, work>> \/ Reduce)
<1>1. UNCHANGED <<mgr, scene>> /\ (UNCHANGED <<journal, work>> \/ Reduce)
  BY DEF BotStep, WorkerStep, Receive, Crash, Account, AccountFails, Enter, StartBot, LookForFence, AdoptPrepared,
     Adopt, Pick, Poll, Begin, Drained, LookAgain, ReadBefore, ReadAfter, Acknowledge, Rollback, NoOthers, durable, Reduce
<1> SUFFICES NumbersKept
  BY <1>1
<1>2. ASSUME UNCHANGED fence PROVE NumbersKept
  BY <1>2 DEF NumbersKept
<1>3. CASE Account
  BY <1>3, InCallback, CountWritten DEF Account, IInv
<1>4. CASE AccountFails \/ Enter \/ Reduce \/ StartBot \/ LookForFence \/ Receive \/ Crash \/ Begin \/ Drained
  BY <1>2, <1>4 DEF AccountFails, Enter, Reduce, StartBot, LookForFence, Receive, Crash, Begin, Drained, durable
<1>5. CASE AdoptPrepared
  <2>1. bot.active \in Fences
    BY <1>5, Fields DEF AdoptPrepared, IInv, PhaseInv
  <2> QED
    BY <1>2, <1>5, <2>1, StateWritten DEF AdoptPrepared, IInv, States, Irreversible
<1>6. CASE Adopt
  <2>1. bot.active \in Fences
    BY <1>6, Fields DEF Adopt, IInv, PhaseInv
  <2>2. UNCHANGED fence \/ fence' = [fence EXCEPT ![bot.active].state = "released"]
    BY <1>6 DEF Adopt
  <2> QED
    BY <1>2, <2>1, <2>2, StateWritten DEF IInv, States
<1>7. CASE Pick
  <2>1. UNCHANGED fence \/ \E f \in Fences : fence' = [fence EXCEPT ![f].state = "released"]
    BY <1>7 DEF Pick
  <2> QED
    BY <1>2, <2>1, StateWritten DEF IInv, States
<1>8. CASE Poll
  <2>1. bot.active \in Fences
    BY <1>8, Fields DEF Poll, IInv
  <2>2. UNCHANGED fence \/ fence' = [fence EXCEPT ![bot.active] = Counted(@)]
    BY <1>8 DEF Poll
  <2> QED
    BY <1>2, <2>1, <2>2, CountWritten DEF IInv
<1>9. CASE LookAgain \/ ReadBefore \/ ReadAfter
  <2>1. bot.active \in Fences
    BY <1>9, Fields DEF LookAgain, ReadBefore, ReadAfter, IInv, PhaseInv, Running
  <2>2. CASE UNCHANGED fence \/ GiveUp
    BY <1>2, <2>1, <2>2, GiveUpKeeps DEF IInv
  <2>3. CASE fence' = [fence EXCEPT ![bot.active] = Failed(Counted(@))]
    <3> DEFINE r == Counted(fence[bot.active])
    <3>1. fence[bot.active] \in FenceRows /\ r \in FenceRows
      BY <2>1, Fields, RowCounted DEF IInv
    <3>2. r.ackJ = fence[bot.active].ackJ
          /\ (fence[bot.active].state \notin {"none", "requested"} => r.state \notin {"none", "requested"})
      BY <3>1, NumbersInRow
    <3>3. fence' = [fence EXCEPT ![bot.active] = Failed(r)]
      BY <2>3
    <3> HIDE DEF r
    <3>4. Failed(r).ackJ = r.ackJ /\ (r.state \notin {"none", "requested"} => Failed(r).state \notin {"none", "requested"})
      BY <3>1, NumbersInRow
    <3> QED
      BY <2>1, <3>2, <3>3, <3>4, OneRowWritten DEF IInv
  <2> QED
    BY <1>9, <2>2, <2>3 DEF LookAgain, ReadBefore, ReadAfter
<1>10. CASE Acknowledge
  <2>1. UNCHANGED fence \/ (MayAcknowledge(bot.active) /\ \A f \in Fences : f # bot.active => fence'[f] = fence[f])
    BY <1>10 DEF Acknowledge, IInv, ShapeInv
  <2> QED
    BY <1>2, <2>1 DEF MayAcknowledge, StateOf, NumbersKept
<1>11. CASE Rollback
  <2>1. bot.active \in Fences
    BY <1>11, Fields DEF Rollback, IInv, PhaseInv, Running
  <2>2. fence[bot.active].state \in States
    BY <2>1, Fields DEF IInv
  <2>3. CASE UNCHANGED fence
    BY <1>2, <2>3
  <2>4. CASE fence' = [fence EXCEPT ![bot.active].state = IF @ = "violated" THEN "released" ELSE @]
    <3> DEFINE s == IF fence[bot.active].state = "violated" THEN "released" ELSE fence[bot.active].state
    <3>1. s \in States /\ (s \notin {"none", "requested"} \/ s = fence[bot.active].state)
      BY <2>2 DEF States
    <3>2. fence' = [fence EXCEPT ![bot.active].state = s]
      BY <2>4
    <3> HIDE DEF s
    <3> QED
      BY <2>1, <3>1, <3>2, StateWritten DEF IInv
  <2> QED
    BY <1>11, <2>3, <2>4 DEF Rollback
<1> QED
  BY <1>3, <1>4, <1>5, <1>6, <1>7, <1>8, <1>9, <1>10, <1>11 DEF BotStep, WorkerStep

(* Nor does a manager. *)
LEMMA ManagerKeepsNumbers ==
  ASSUME RestartAssumption, IInv, NEW m \in Managers, Look(m) \/ ManagerStep(m) \/ Killed(m)
  PROVE  NumbersKept /\ UNCHANGED <<journal, work, scene>>
<1>1. UNCHANGED <<journal, work, scene>>
  BY DEF ManagerStep, Look, Killed, Request, WaitAcknowledged, SnapshotUnderFence, Decide, PrepareBegin, PrepareWrite,
     PrepareTimeout, Recheck, CommitBegin, CommitWrite, RestartBot, Abort, DataKept
<1> SUFFICES NumbersKept
  BY <1>1
<1>2. ASSUME UNCHANGED fence PROVE NumbersKept
  BY <1>2 DEF NumbersKept
<1>3. CASE Look(m) \/ Killed(m) \/ WaitAcknowledged(m) \/ SnapshotUnderFence(m) \/ Decide(m) \/ PrepareBegin(m)
           \/ PrepareTimeout(m) \/ Recheck(m) \/ CommitBegin(m) \/ RestartBot(m)
  BY <1>2, <1>3 DEF Look, Killed, WaitAcknowledged, SnapshotUnderFence, Decide, PrepareBegin, PrepareTimeout, Recheck,
     CommitBegin, RestartBot
<1>4. CASE PrepareWrite(m) \/ CommitWrite(m)
  <2>1. mgr[m].fence \in Fences
    BY <1>4 DEF PrepareWrite, CommitWrite, At, IInv, TxnInv
  <2>2. \E s \in Irreversible : fence' = [fence EXCEPT ![mgr[m].fence].state = s]
    BY <1>4 DEF PrepareWrite, CommitWrite, Irreversible
  <2>3. \A s \in Irreversible : s \in States /\ s \notin {"none", "requested"}
    BY DEF Irreversible, States
  <2> QED
    BY <2>1, <2>2, <2>3, StateWritten DEF IInv
<1>5. CASE Abort(m)
  <2>1. mgr[m].fence \in Fences
    BY <1>5 DEF Abort, At, IInv, TxnInv
  <2>2. fence[mgr[m].fence].state \in States
    BY <2>1, Fields DEF IInv
  <2>3. PICK s \in {"committed", "released", fence[mgr[m].fence].state} : fence' = [fence EXCEPT ![mgr[m].fence].state = s]
    BY <1>5 DEF Abort
  <2>4. s \in States /\ (s \notin {"none", "requested"} \/ s = fence[mgr[m].fence].state)
    BY <2>2 DEF States, Irreversible
  <2> QED
    BY <2>1, <2>3, <2>4, StateWritten DEF IInv
<1>6. CASE Request(m)
  <2>1. CASE UNCHANGED fence
    BY <1>2, <2>1
  <2>2. ASSUME NEW n \in Fences, StateOf(n) = "none",
               fence' = [f \in Fences |->
                           IF f = n THEN [NoFence EXCEPT !.state = "requested", !.gen = mgr[m].gen]
                           ELSE IF f \in ActiveFences THEN [fence[f] EXCEPT !.state = "released"]
                           ELSE fence[f]]
        PROVE  NumbersKept
    <3> SUFFICES ASSUME NEW f \in Fences, fence[f].state \notin {"none", "requested"}
                 PROVE  fence'[f].state \notin {"none", "requested"} /\ fence'[f].ackJ = fence[f].ackJ
      BY DEF NumbersKept
    <3>1. fence[f] \in FenceRows /\ f # n /\ "released" \in States
      BY <2>2, Fields DEF IInv, StateOf, States
    <3>2. fence'[f] = fence[f] \/ fence'[f] = [fence[f] EXCEPT !.state = "released"]
      BY <2>2, <3>1
    <3>3. LET t == [fence[f] EXCEPT !.state = "released"] IN t.ackJ = fence[f].ackJ /\ t.state = "released"
      BY <3>1, NumbersInRow
    <3> QED
      BY <3>2, <3>3
  <2> QED
    BY <1>6, <2>1, <2>2 DEF Request
<1> QED
  BY <1>3, <1>4, <1>5, <1>6 DEF ManagerStep

(* A manager's record that did not change stays current: a receipt reduced meanwhile moved the journal on. *)
LEMMA StaysCurrent ==
  ASSUME RestartAssumption, IInv, SnapshotInv, NumbersKept, UNCHANGED scene, NEW m \in Managers, mgr'[m] = mgr[m],
         UNCHANGED <<journal, work>> \/ Reduce
  PROVE  Current(m, mgr[m])'
<1> SUFFICES ASSUME mgr[m].pc \in Judging PROVE Current(m, mgr[m])'
  BY DEF Current
<1>1. mgr[m].fence \in Fences
  BY DEF IInv, TxnInv, Judging
<1>2. fence'[mgr[m].fence].state \notin {"none", "requested"} /\ fence'[mgr[m].fence].ackJ = fence[mgr[m].fence].ackJ
  BY <1>1 DEF SnapshotInv, Current, NumbersKept
<1>3. CASE UNCHANGED <<journal, work>>
  BY <1>2, <1>3 DEF SnapshotInv, Current, Mode
<1>4. CASE Reduce
  <2>1. journal' = journal + 1 /\ journal \in Nat /\ txn = NoTxn
    BY <1>4 DEF Reduce, IInv, ShapeInv
  <2>2. mgr[m].pc # "committing"
    BY <2>1, Constants DEF IInv, TxnInv
  <2>3. fence[mgr[m].fence].ackJ \in Int
    <3>1. fence[mgr[m].fence] \in FenceRows
      BY <1>1, Fields DEF IInv
    <3> QED
      BY <3>1 DEF FenceRows
  <2>4. fence[mgr[m].fence].ackJ <= journal
    BY DEF SnapshotInv, Current
  <2>5. fence[mgr[m].fence].ackJ <= journal + 1 /\ fence[mgr[m].fence].ackJ # journal + 1
    BY <2>1, <2>3, <2>4
  <2> QED
    BY <1>2, <2>1, <2>2, <2>5 DEF SnapshotInv, Current, Mode
<1> QED
  BY <1>3, <1>4

(* The manager that takes a step writes a record that is current. *)
LEMMA BecomesCurrent ==
  ASSUME RestartAssumption, IInv, SnapshotInv, NEW m \in Managers, Look(m) \/ ManagerStep(m) \/ Killed(m)
  PROVE  Current(m, mgr[m])'
<1>0. mgr[m] \in Restarters /\ Judging \subseteq Stages /\ NumbersKept /\ UNCHANGED <<journal, work, scene>>
  BY Fields, ManagerKeepsNumbers DEF IInv, Judging, Stages
<1>1. ASSUME mgr'[m].pc \notin Judging PROVE Current(m, mgr[m])'
  BY <1>1 DEF Current
<1>2. ASSUME NEW p \in Stages, To(m, p)
      PROVE  mgr'[m].pc = p /\ mgr'[m].fence = mgr[m].fence /\ mgr'[m].blocked = mgr[m].blocked
  <2>1. mgr'[m] = [mgr[m] EXCEPT !.pc = p]
    BY <1>2 DEF To, Set, IInv, ShapeInv
  <2> QED
    BY <1>0, <2>1 DEF Restarters
<1>3. ASSUME NEW p \in Stages, To(m, p), p \notin Judging PROVE Current(m, mgr[m])'
  BY <1>1, <1>2, <1>3
<1>4. ASSUME NEW p \in Judging \ {"decide"}, To(m, p), mgr[m].pc \in Judging, UNCHANGED fence,
             Mode[m] = "normal" => mgr[m].blocked = FALSE, p = "committing" => fence[mgr[m].fence].ackJ = journal
      PROVE  Current(m, mgr[m])'
  <2>1. mgr'[m].pc = p /\ mgr'[m].fence = mgr[m].fence /\ mgr'[m].blocked = mgr[m].blocked
    BY <1>0, <1>2, <1>4
  <2>2. Current(m, mgr[m])
    BY DEF SnapshotInv
  <2> QED
    BY <1>0, <1>4, <2>1, <2>2 DEF Current, Mode
<1>5. CASE Look(m)
  <2>1. mgr'[m] = [mgr[m] EXCEPT !.pc = "request", !.gen = bot.gen]
    BY <1>5 DEF Look, Set, IInv, ShapeInv
  <2>2. mgr'[m].pc = "request"
    BY <1>0, <2>1 DEF Restarters
  <2> QED
    BY <1>1, <2>2 DEF Judging
<1>6. CASE Killed(m) \/ WaitAcknowledged(m) \/ PrepareTimeout(m) \/ CommitWrite(m) \/ RestartBot(m) \/ Abort(m)
  <2>1. \E p \in Stages \ Judging : To(m, p)
    BY <1>6 DEF Killed, WaitAcknowledged, PrepareTimeout, CommitWrite, RestartBot, Abort, Stages, Judging
  <2> QED
    BY <1>3, <2>1
<1>7. CASE Request(m)
  <2>1. CASE To(m, "failed")
    BY <1>3, <2>1 DEF Stages, Judging
  <2>2. ASSUME NEW n \in Fences, Set(m, [mgr[m] EXCEPT !.pc = "wait", !.fence = n]) PROVE Current(m, mgr[m])'
    <3>1. mgr'[m] = [mgr[m] EXCEPT !.pc = "wait", !.fence = n]
      BY <2>2 DEF Set, IInv, ShapeInv
    <3>2. mgr'[m].pc = "wait"
      BY <1>0, <3>1 DEF Restarters
    <3> QED
      BY <1>1, <3>2 DEF Judging
  <2> QED
    BY <1>7, <2>1, <2>2 DEF Request
<1>8. CASE SnapshotUnderFence(m)
  <2>1. CASE To(m, "abort")
    BY <1>3, <2>1 DEF Stages, Judging
  <2>2. CASE StillAcknowledged(mgr[m].fence, {"acknowledged"}) /\ Set(m, [mgr[m] EXCEPT !.pc = "decide", !.blocked = work])
    <3>1. mgr'[m] = [mgr[m] EXCEPT !.pc = "decide", !.blocked = work]
      BY <2>2 DEF Set, IInv, ShapeInv
    <3>2. mgr'[m].pc = "decide" /\ mgr'[m].fence = mgr[m].fence /\ mgr'[m].blocked = work
      BY <1>0, <3>1 DEF Restarters
    <3>3. fence[mgr[m].fence].state = "acknowledged" /\ fence[mgr[m].fence].ackJ = journal /\ UNCHANGED fence /\ journal \in Nat
      BY <1>8, <2>2 DEF StillAcknowledged, AsAcknowledged, StateOf, SnapshotUnderFence, IInv, ShapeInv
    <3> QED
      BY <1>0, <3>2, <3>3 DEF Current
  <2> QED
    BY <1>8, <2>1, <2>2 DEF SnapshotUnderFence, Quit
<1>9. CASE Decide(m)
  <2>1. CASE To(m, "abort")
    BY <1>3, <2>1 DEF Stages, Judging
  <2>2. ASSUME NEW p \in {"prepare", "recheck"}, To(m, p), mgr[m].blocked => Mode[m] # "normal" PROVE Current(m, mgr[m])'
    <3>1. mgr[m].blocked \in BOOLEAN /\ mgr[m].pc \in Judging /\ UNCHANGED fence /\ p \in Judging \ {"decide"}
      BY <1>0, <1>9 DEF Restarters, Decide, At, Judging
    <3> QED
      BY <1>4, <2>2, <3>1
  <2> QED
    BY <1>9, <2>1, <2>2 DEF Decide, Quit
<1>10. CASE PrepareWrite(m)
  <2>1. CASE To(m, "failed") \/ To(m, "overdue")
    BY <1>3, <2>1 DEF Stages, Judging
  <2>2. CASE mgr[m].pc = "preparing" /\ Set(m, [mgr[m] EXCEPT !.pc = "recheck", !.sure = TRUE])
    <3>1. mgr'[m] = [mgr[m] EXCEPT !.pc = "recheck", !.sure = TRUE]
      BY <2>2 DEF Set, IInv, ShapeInv
    <3>2. mgr'[m].pc = "recheck" /\ mgr'[m].fence = mgr[m].fence /\ mgr'[m].blocked = mgr[m].blocked
      BY <1>0, <3>1 DEF Restarters
    <3>3. mgr[m].fence \in Fences
      BY <2>2 DEF IInv, TxnInv
    <3>4. fence'[mgr[m].fence].state \notin {"none", "requested"} /\ fence'[mgr[m].fence].ackJ = fence[mgr[m].fence].ackJ
      BY <1>0, <2>2, <3>3 DEF SnapshotInv, Current, Judging, NumbersKept
    <3> QED
      BY <1>0, <2>2, <3>2, <3>4 DEF SnapshotInv, Current, Judging, Mode
  <2> QED
    BY <1>10, <2>1, <2>2 DEF PrepareWrite, At
<1>11. CASE PrepareBegin(m)
  <2>1. CASE To(m, "abort") \/ To(m, "failed") \/ To(m, "late")
    BY <1>3, <2>1 DEF Stages, Judging
  <2>2. CASE To(m, "preparing") /\ mgr[m].pc = "prepare"
    <3>1. mgr[m].pc \in Judging /\ UNCHANGED fence /\ "preparing" \in Judging \ {"decide"}
      BY <1>11, <2>2 DEF PrepareBegin, Judging
    <3>2. Mode[m] = "normal" => mgr[m].blocked = FALSE
      BY <2>2, <3>1 DEF SnapshotInv, Current
    <3> QED
      BY <1>4, <2>2, <3>1, <3>2
  <2> QED
    BY <1>11, <2>1, <2>2 DEF PrepareBegin, At
<1>12. CASE Recheck(m)
  <2>1. CASE To(m, "abort")
    BY <1>3, <2>1 DEF Stages, Judging
  <2>2. CASE To(m, "commit")
    <3>1. mgr[m].pc = "recheck" /\ mgr[m].pc \in Judging /\ UNCHANGED fence /\ "commit" \in Judging \ {"decide"}
      BY <1>12 DEF Recheck, At, Judging
    <3>2. Mode[m] = "normal" => mgr[m].blocked = FALSE
      BY <3>1 DEF SnapshotInv, Current
    <3> QED
      BY <1>4, <2>2, <3>1, <3>2
  <2> QED
    BY <1>12, <2>1, <2>2 DEF Recheck, Quit
<1>13. CASE CommitBegin(m)
  <2>1. CASE To(m, "abort")
    BY <1>3, <2>1 DEF Stages, Judging
  <2>2. CASE To(m, "committing") /\ StillAcknowledged(mgr[m].fence, {"acknowledged", "prepared"})
    <3>1. mgr[m].pc = "commit" /\ mgr[m].pc \in Judging /\ UNCHANGED fence /\ "committing" \in Judging \ {"decide"}
      BY <1>13 DEF CommitBegin, At, Judging
    <3>2. (Mode[m] = "normal" => mgr[m].blocked = FALSE) /\ fence[mgr[m].fence].ackJ = journal
      BY <2>2, <3>1 DEF SnapshotInv, Current, StillAcknowledged, AsAcknowledged
    <3> QED
      BY <1>4, <2>2, <3>1, <3>2
  <2> QED
    BY <1>13, <2>1, <2>2 DEF CommitBegin, Quit
<1> QED
  BY <1>5, <1>6, <1>7, <1>8, <1>9, <1>10, <1>12, <1>13, <1>11 DEF ManagerStep

(* The snapshots stay current. *)
LEMMA NextSnapshotInv == ASSUME RestartAssumption, IInv, SnapshotInv, [Next]_vars PROVE SnapshotInv'
<1>1. CASE BotStep \/ Receive \/ Crash
  <2>1. NumbersKept /\ UNCHANGED <<mgr, scene>> /\ (UNCHANGED <<journal, work>> \/ Reduce)
    BY <1>1, BotKeepsNumbers
  <2>2. \A m \in Managers : Current(m, mgr[m])'
    BY <2>1, StaysCurrent
  <2> QED
    BY <2>2 DEF SnapshotInv
<1>2. ASSUME NEW m \in Managers, Look(m) \/ ManagerStep(m) \/ Killed(m) PROVE SnapshotInv'
  <2>1. Current(m, mgr[m])'
    BY <1>2, BecomesCurrent
  <2>2. NumbersKept /\ UNCHANGED <<journal, work, scene>>
    BY <1>2, ManagerKeepsNumbers
  <2>3. \A n \in Managers : n # m => mgr'[n] = mgr[n]
    BY <1>2 DEF ManagerStep, Look, Killed, Request, WaitAcknowledged, SnapshotUnderFence, Decide, PrepareBegin,
       PrepareWrite, PrepareTimeout, Recheck, CommitBegin, CommitWrite, RestartBot, Abort, Quit, To, Set, IInv, ShapeInv
  <2>4. \A n \in Managers : n # m => Current(n, mgr[n])'
    BY <2>2, <2>3, StaysCurrent
  <2> QED
    BY <2>1, <2>4 DEF SnapshotInv
<1>3. CASE UNCHANGED vars
  BY <1>3 DEF vars, SnapshotInv, Current, Mode
<1> QED
  BY <1>1, <1>2, <1>3 DEF Next

(* commit_quiesce: a restart that is neither forced nor replayed is committed only while nothing blocks *)
(* it, although what blocks was looked at long before; the journal has not moved since. *)
THEOREM NormalRestartIsIdle == ASSUME RestartAssumption PROVE Spec => NormalIsIdle
<1>1. Init => IInv /\ SnapshotInv
  <2> SUFFICES ASSUME Init PROVE IInv /\ SnapshotInv
    OBVIOUS
  <2>1. \A m \in Managers : mgr[m].pc = "idle"
    BY DEF Init
  <2> QED
    BY <2>1, InitIInv DEF SnapshotInv, Current, Judging
<1>2. IInv /\ SnapshotInv /\ [Next]_vars => IInv' /\ SnapshotInv'
  BY NextIInv, NextSnapshotInv
<1>3. IInv /\ SnapshotInv => [\A m \in Managers : (CommitWrite(m) /\ Mode[m] = "normal") => ~work]_vars
  <2> SUFFICES ASSUME IInv, SnapshotInv, NEW m \in Managers, CommitWrite(m), Mode[m] = "normal" PROVE ~work
    OBVIOUS
  <2>1. Current(m, mgr[m]) /\ mgr[m].pc = "committing"
    BY DEF SnapshotInv, CommitWrite, At
  <2> QED
    BY <2>1 DEF Current, Judging
<1> QED
  BY <1>1, <1>2, <1>3, PTL DEF Spec, NormalIsIdle

-----------------------------------------------------------------------------
(***************************************************************************)
(* ScheduleRuns.  Its inductive invariant.                                 *)
(***************************************************************************)

Row ==
  [kind : Kinds, backed : BOOLEAN, status : Status, attempt : 0..MaxAttempts, fence : 0..MaxFence,
   owner : BOOLEAN, lease : {"none", "live", "expired"}, target : BOOLEAN, create : BOOLEAN,
   thread : BOOLEAN, queued : BOOLEAN, send : BOOLEAN, accepted : BOOLEAN, due : BOOLEAN,
   intent : BOOLEAN, told : Terminal \cup {"none", "accepted"}, idle : BOOLEAN,
   temp : {"no", "held", "released"}]

\* The worker has a run in hand that it claimed.
Dispatching == {"claimed", "target", "recorded"}
Claims == [at : Dispatching, run : Runs, fence : 0..MaxFence, attempt : 0..MaxAttempts]
Evidence == SUBSET {"accepted", "observed"}

RunTypes ==
  /\ run \in [Runs -> Row] /\ queue \in [Runs -> QueueState] /\ sub \in [Runs -> SubState]
  /\ seen \in [Runs -> Evidence] /\ pump \in [Runs -> {"idle", "claimed", "sent"}]
  /\ content \in [Runs -> BOOLEAN] /\ made \in [Runs -> BOOLEAN] /\ sends \in [Runs -> Nat]
WorkerTypes ==
  /\ worker.at \in Dispatching \cup {"down", "inventoried", "idle", "redrive"}
  /\ worker.at \in Dispatching => worker \in Claims
  /\ worker.at = "redrive" => worker.run \in Runs
AdminTypes ==
  /\ admin.at \in {"idle", "draining", "forcing"}
  /\ admin.at = "forcing" => \A r \in DOMAIN admin.targets : r \in Runs /\ admin.targets[r] \in Unknown
  /\ sched \in {"recovered", "running", "draining"} /\ intent \in {"none", "prepared", "forced"}
  /\ deaths \in 0..MaxCrashes

\* What a run of status and announcement x, its rows q and s, its sends n and the pump's
\* state p have to do with each other; served: a process is up, busy: its worker has the
\* run in hand.
RunOK(x, q, s, p, n, served, busy) ==
  \* a prompt is sent from a claim of the queued row, which is made once
  /\ n <= 1
  /\ s \in {"none", "local_queued"} => n = 0 /\ p = "idle"
  /\ p = "claimed" => n = 0
  \* a run announced as cancelled was taken off the queue and is not sent any more
  /\ x.told = "cancelled" => n = 0 /\ p = "idle" /\ s = "cancelled" /\ q = "cancelled"
  /\ x.status = "cancelled" => x.told = "cancelled"
  \* an end without an announcement is one the inventory found, before recover
  /\ x.status \in Terminal /\ ~x.intent => ~served /\ x.status \in Unknown
  \* nobody holds a run that ended
  /\ x.status \in {"semantic_complete", "blocked", "cancelled"} => ~x.owner
  /\ x.status \in {"semantic_complete", "blocked"} => ~busy

Busy(w, r) == w.at \in Dispatching /\ w.run = r
RunInv == \A r \in Runs : RunOK(run[r], queue[r], sub[r], pump[r], sends[r], Serving, Busy(worker, r))

RunsInv == RunTypes /\ WorkerTypes /\ AdminTypes /\ RunInv

-----------------------------------------------------------------------------
(* Rows.                                                                   *)

\* What the properties ask of a row.
LEMMA FreeRow ==
  ASSUME NEW x \in Row
  PROVE  /\ Free(x) \in Row /\ ~Free(x).owner
         /\ Free(x).status = x.status /\ Free(x).told = x.told /\ Free(x).intent = x.intent
  BY DEF Free, Row

LEMMA FinalizedRow ==
  ASSUME NEW x \in Row, NEW st \in Terminal
  PROVE  /\ Finalized(x, st) \in Row
         /\ \/ Finalized(x, st) = x /\ x.status \in Terminal /\ x.intent
            \/ /\ ~(x.status \in Terminal /\ x.intent) /\ ~Finalized(x, st).owner
               /\ Finalized(x, st).status = st /\ Finalized(x, st).told = st /\ Finalized(x, st).intent
  <1>1. st \in Status
    BY DEF Status
  <1>2. Free(x) \in Row /\ ~Free(x).owner
    BY FreeRow
  <1>3. CASE x.status \in Terminal /\ x.intent
    BY <1>3 DEF Finalized
  <1>4. CASE ~(x.status \in Terminal /\ x.intent)
    <2> DEFINE y == [Free(x) EXCEPT !.status = st, !.told = st, !.intent = TRUE]
    <2>1. Finalized(x, st) = y
      BY <1>4 DEF Finalized
    <2>2. y \in Row /\ y.status = st /\ y.told = st /\ y.intent = TRUE /\ y.owner = Free(x).owner
      BY <1>1, <1>2 DEF Row
    <2> QED BY <1>2, <1>4, <2>1, <2>2
  <1> QED BY <1>3, <1>4

LEMMA ReducedRow ==
  ASSUME NEW x \in Row, NEW st \in Terminal, NEW idle \in BOOLEAN
  PROVE  LET y == FinalizedByReducer(x, st, idle) IN
         /\ y \in Row
         /\ \/ y = x /\ x.status # "accepted" /\ x.intent
            \/ /\ ~(x.status # "accepted" /\ x.intent) /\ ~y.owner
               /\ y.status = st /\ y.told = st /\ y.intent
  <1>1. st \in Status
    BY DEF Status
  <1>2. Free(x) \in Row /\ ~Free(x).owner
    BY FreeRow
  <1>3. CASE x.intent /\ x.status # "accepted"
    BY <1>3 DEF FinalizedByReducer
  <1>4. CASE ~(x.intent /\ x.status # "accepted")
    <2> DEFINE y == [Free(x) EXCEPT !.status = st, !.told = st, !.intent = TRUE, !.idle = idle]
    <2>1. FinalizedByReducer(x, st, idle) = y
      BY <1>4 DEF FinalizedByReducer
    <2>2. y \in Row /\ y.status = st /\ y.told = st /\ y.intent = TRUE /\ y.owner = Free(x).owner
      BY <1>1, <1>2 DEF Row
    <2> QED BY <1>2, <1>4, <2>1, <2>2
  <1> QED BY <1>3, <1>4

LEMMA WaitingRow ==
  ASSUME NEW x \in Row
  PROVE  LET y == Waiting(x) IN
         y \in Row /\ y.status = "retry_wait" /\ y.told = x.told /\ y.intent = x.intent /\ ~y.owner
  <1>1. Free(x) \in Row /\ ~Free(x).owner /\ Free(x).told = x.told /\ Free(x).intent = x.intent
    BY FreeRow
  <1>2. "retry_wait" \in Status
    BY DEF Status
  <1> QED BY <1>1, <1>2 DEF Waiting, Row

LEMMA Kinds3 == {"semantic_complete", "blocked", "cancelled"} \subseteq Terminal
  BY DEF Terminal

-----------------------------------------------------------------------------
(* A step that changes the rows of one run.                                *)

\* A run that completed, was blocked or was cancelled keeps that status.
Final == {"semantic_complete", "blocked", "cancelled"}
Kept(x, y) == x.status \in Final /\ x.intent => y.status = x.status
Lasting == \A r \in Runs : Kept(run[r], run'[r])

\* The rows of the other runs stay as they are.
Apart(r) ==
  \A t \in Runs \ {r} : /\ run'[t] = run[t] /\ queue'[t] = queue[t] /\ sub'[t] = sub[t]
                         /\ pump'[t] = pump[t] /\ sends'[t] = sends[t]
Good(r, served, busy) == RunOK(run[r], queue[r], sub[r], pump[r], sends[r], served, busy)
Good1(r, served, busy) == RunOK(run'[r], queue'[r], sub'[r], pump'[r], sends'[r], served, busy)

LEMMA OneRun ==
  ASSUME RunsInv, NEW r \in Runs, Serving' => Serving,
         \A t \in Runs \ {r} : Busy(worker', t) => Busy(worker, t),
         Apart(r), Good1(r, Serving', Busy(worker', r)), Kept(run[r], run'[r])
  PROVE  RunInv' /\ Lasting
  <1>1. ASSUME NEW t \in Runs, t # r
        PROVE  Good1(t, Serving', Busy(worker', t)) /\ Kept(run[t], run'[t])
    <2>1. /\ run'[t] = run[t] /\ queue'[t] = queue[t] /\ sub'[t] = sub[t] /\ pump'[t] = pump[t]
          /\ sends'[t] = sends[t]
      BY <1>1 DEF Apart
    <2>2. RunOK(run[t], queue[t], sub[t], pump[t], sends[t], Serving, Busy(worker, t))
      BY DEF RunsInv, RunInv
    <2>3. Busy(worker', t) => Busy(worker, t)
      BY <1>1
    <2> QED BY <2>1, <2>2, <2>3 DEF RunOK, Good1, Kept
  <1> QED BY <1>1 DEF RunInv, Lasting, Good1

\* What the invariant says of one run.
LEMMA Same ==
  ASSUME RunsInv, NEW r \in Runs
  PROVE  /\ run[r] \in Row /\ queue[r] \in QueueState /\ sub[r] \in SubState /\ seen[r] \in Evidence
         /\ pump[r] \in {"idle", "claimed", "sent"} /\ sends[r] \in Nat
         /\ Good(r, Serving, Busy(worker, r))
  BY DEF RunsInv, RunTypes, RunInv, Good

\* A step of the tables that leaves the worker and the operator alone.
LEMMA RowStep ==
  ASSUME RunsInv, NEW r \in Runs, UNCHANGED <<worker, sched, admin, intent, deaths>>,
         RunTypes', Apart(r), Good1(r, Serving, Busy(worker, r)), Kept(run[r], run'[r])
  PROVE  RunsInv' /\ Lasting
  <1>1. Serving' <=> Serving
    BY DEF Serving
  <1>2. \A t \in Runs : Busy(worker', t) <=> Busy(worker, t)
    BY DEF Busy
  <1>3. Good1(r, Serving', Busy(worker', r))
    BY <1>1, <1>2 DEF RunOK, Good1
  <1>4. RunInv' /\ Lasting
    BY <1>1, <1>2, <1>3, OneRun
  <1>5. WorkerTypes' /\ AdminTypes'
    BY DEF RunsInv, WorkerTypes, AdminTypes, Dispatching
  <1> QED BY <1>4, <1>5 DEF RunsInv

\* A step with which the scheduler's worker ends its tick.
LEMMA EndOfTick ==
  ASSUME RunsInv, NEW r \in Runs, Serving, Return, UNCHANGED <<sched, admin, intent, deaths>>,
         RunTypes', Apart(r), Good1(r, TRUE, FALSE), Kept(run[r], run'[r])
  PROVE  RunsInv' /\ Lasting
  <1>1. Serving'
    BY DEF Serving, Return, Idle
  <1>2. \A t \in Runs : ~Busy(worker', t)
    BY DEF Busy, Return, Idle, Dispatching
  <1>3. Good1(r, Serving', Busy(worker', r))
    BY <1>1, <1>2 DEF RunOK, Good1
  <1>4. /\ Serving' => Serving
        /\ \A t \in Runs \ {r} : Busy(worker', t) => Busy(worker, t)
    BY <1>2
  <1>5. RunInv' /\ Lasting
    BY <1>3, <1>4, OneRun
  <1>6. WorkerTypes' /\ AdminTypes'
    BY DEF RunsInv, WorkerTypes, AdminTypes, Dispatching, Return, Idle
  <1> QED BY <1>5, <1>6 DEF RunsInv

Alike(x, y) == y.owner = x.owner /\ y.told = x.told /\ y.intent = x.intent

\* Some fields of a row are written.
LEMMA SetStatus ==
  ASSUME NEW x \in Row, NEW st \in Status
  PROVE  LET y == [x EXCEPT !.status = st] IN y \in Row /\ Alike(x, y) /\ y.status = st
  BY DEF Row, Alike

LEMMA SetSend ==
  ASSUME NEW x \in Row, NEW b \in BOOLEAN
  PROVE  LET y == [x EXCEPT !.send = b] IN y \in Row /\ Alike(x, y) /\ y.status = x.status
  <1> DEFINE y == [x EXCEPT !.send = b]
  <1>1. y \in Row
    BY DEF Row
  <1>2. y.owner = x.owner /\ y.told = x.told /\ y.intent = x.intent /\ y.status = x.status
    BY DEF Row
  <1> QED BY <1>1, <1>2 DEF Alike

LEMMA SetDue ==
  ASSUME NEW x \in Row, NEW b \in BOOLEAN
  PROVE  LET y == [x EXCEPT !.due = b] IN y \in Row /\ Alike(x, y) /\ y.status = x.status
  <1> DEFINE y == [x EXCEPT !.due = b]
  <1>1. y \in Row
    BY DEF Row
  <1>2. y.owner = x.owner /\ y.told = x.told /\ y.intent = x.intent /\ y.status = x.status
    BY DEF Row
  <1> QED BY <1>1, <1>2 DEF Alike

LEMMA SetAccepted ==
  ASSUME NEW x \in Row, NEW b \in BOOLEAN
  PROVE  LET y == [x EXCEPT !.accepted = b] IN y \in Row /\ Alike(x, y) /\ y.status = x.status
  <1> DEFINE y == [x EXCEPT !.accepted = b]
  <1>1. y \in Row
    BY DEF Row
  <1>2. y.owner = x.owner /\ y.told = x.told /\ y.intent = x.intent /\ y.status = x.status
    BY DEF Row
  <1> QED BY <1>1, <1>2 DEF Alike

LEMMA SetSending ==
  ASSUME NEW x \in Row
  PROVE  LET y == [x EXCEPT !.status = "submitting", !.send = TRUE] IN
         y \in Row /\ Alike(x, y) /\ y.status = "submitting"
  <1> DEFINE z == [x EXCEPT !.status = "submitting"]
             y == [z EXCEPT !.send = TRUE]
  <1>1. "submitting" \in Status
    BY DEF Status, Active
  <1>2. z \in Row /\ Alike(x, z) /\ z.status = "submitting"
    BY <1>1, SetStatus
  <1>3. y = [x EXCEPT !.status = "submitting", !.send = TRUE]
    OBVIOUS
  <1> HIDE DEF z
  <1>4. y \in Row /\ Alike(z, y) /\ y.status = z.status
    BY <1>2, SetSend
  <1> HIDE DEF y
  <1> QED BY <1>2, <1>3, <1>4 DEF Alike

LEMMA SetTaken ==
  ASSUME NEW x \in Row, NEW st \in Status, NEW b \in BOOLEAN
  PROVE  LET y == [x EXCEPT !.status = st, !.accepted = b] IN
         y \in Row /\ Alike(x, y) /\ y.status = st
  <1> DEFINE z == [x EXCEPT !.status = st]
             y == [z EXCEPT !.accepted = b]
  <1>2. z \in Row /\ Alike(x, z) /\ z.status = st
    BY SetStatus
  <1>3. y = [x EXCEPT !.status = st, !.accepted = b]
    OBVIOUS
  <1> HIDE DEF z
  <1>4. y \in Row /\ Alike(z, y) /\ y.status = z.status
    BY <1>2, SetAccepted
  <1> HIDE DEF y
  <1> QED BY <1>2, <1>3, <1>4 DEF Alike

LEMMA SetLate ==
  ASSUME NEW x \in Row
  PROVE  LET y == [x EXCEPT !.status = "accepted", !.told = "accepted", !.idle = FALSE] IN
         /\ y \in Row /\ y.owner = x.owner /\ y.intent = x.intent /\ y.status = "accepted"
         /\ y.told = "accepted"
  <1> DEFINE y == [x EXCEPT !.status = "accepted", !.told = "accepted", !.idle = FALSE]
  <1>1. "accepted" \in Status
    BY DEF Status, Active
  <1>2. y \in Row
    BY <1>1 DEF Row
  <1>3. y.owner = x.owner /\ y.intent = x.intent /\ y.status = "accepted" /\ y.told = "accepted"
    BY DEF Row
  <1> QED BY <1>2, <1>3

LEMMA Names ==
  /\ {"failed", "outcome_unknown", "dispatch_unknown", "target_unknown", "cancelled", "blocked"} \subseteq Terminal
  /\ {"pending", "claimed", "submitting", "accepted", "waiting", "retry_wait"} \subseteq Status
  /\ Terminal \subseteq Status
  /\ {"claimed", "submitting", "accepted", "waiting"} = Active
  BY DEF Terminal, Unknown, Status, Active

\* The row y is x, which had ended, or it ends as st and says so.
EndsAs(x, y, st) ==
  \/ y = x
  \/ /\ ~(x.status # "accepted" /\ x.intent)
     /\ ~y.owner /\ y.status = st /\ y.told = st /\ y.intent

LEMMA Reduced ==
  ASSUME NEW x \in Row, NEW st \in Terminal, NEW idle \in BOOLEAN
  PROVE  FinalizedByReducer(x, st, idle) \in Row /\ EndsAs(x, FinalizedByReducer(x, st, idle), st)
  BY ReducedRow DEF EndsAs

LEMMA RowFields ==
  ASSUME NEW x \in Row
  PROVE  /\ x.send \in BOOLEAN /\ x.accepted \in BOOLEAN /\ x.create \in BOOLEAN
         /\ x.status \in Status /\ x.attempt \in 0..MaxAttempts /\ x.fence \in 0..MaxFence
         /\ x.owner \in BOOLEAN /\ x.intent \in BOOLEAN
  BY DEF Row

LEMMA SetSeen ==
  ASSUME NEW x \in Row, NEW st \in Status, NEW e
  PROVE  LET y == [x EXCEPT !.status = st, !.accepted = x.accepted \/ "accepted" \in e] IN
         y \in Row /\ Alike(x, y) /\ y.status = st
  <1> DEFINE b == x.accepted \/ "accepted" \in e
  <1>1. b \in BOOLEAN
    OBVIOUS
  <1> HIDE DEF b
  <1>2. LET y == [x EXCEPT !.status = st, !.accepted = b] IN y \in Row /\ Alike(x, y) /\ y.status = st
    BY <1>1, SetTaken
  <1> USE DEF b
  <1> QED BY <1>2

-----------------------------------------------------------------------------
(* The steps of the planner, of time, of the session runtime and of its reducer. *)

LEMMA StepPlan ==
  ASSUME RunsInv, NEW r \in Runs, Plan(r)
  PROVE  RunsInv' /\ Lasting
  <1> DEFINE x == run[r]
             y == [x EXCEPT !.status = "pending"]
  <1>1. y \in Row /\ (Alike(x, y) /\ y.status = "pending")
    BY Same, Names, SetStatus
  <1>2. RunOK(y, queue[r], sub[r], pump[r], sends[r], Serving, Busy(worker, r)) /\ Kept(run[r], y)
    BY <1>1, Same DEF RunOK, Good, Kept, Final, Alike, EndsAs, Plan, Terminal, Unknown, Active, Open
  <1>3. run' = [run EXCEPT ![r] = y]
    BY Same DEF Plan, RunsInv, RunTypes, rows
  <1> HIDE DEF y
  <1>c. /\ UNCHANGED <<queue, sub, pump, sends, worker, sched, admin, intent, deaths>>
        /\ seen' \in [Runs -> Evidence] /\ content' \in [Runs -> BOOLEAN] /\ made' \in [Runs -> BOOLEAN]
    BY DEF Plan, RunsInv, RunTypes, Evidence, rows
  <1>4. /\ run'[r] = y /\ queue'[r] = queue[r] /\ sub'[r] = sub[r] /\ pump'[r] = pump[r] /\ sends'[r] = sends[r]
        /\ RunTypes' /\ Apart(r)
    BY <1>1, <1>3, <1>c DEF RunsInv, RunTypes, Apart
  <1>5. Good1(r, Serving, Busy(worker, r)) /\ Kept(run[r], run'[r])
    BY <1>2, <1>4 DEF Good1
  <1> QED BY <1>4, <1>5, <1>c, RowStep

LEMMA StepLeaseRunsOut ==
  ASSUME RunsInv, NEW r \in Runs, LeaseRunsOut(r)
  PROVE  RunsInv' /\ Lasting
  <1> DEFINE x == run[r]
             y == [x EXCEPT !.lease = "expired"]
  <1>1. y \in Row /\ (Alike(x, y) /\ y.status = x.status)
    BY Same, Names DEF Row, Alike
  <1>2. RunOK(y, queue[r], sub[r], pump[r], sends[r], Serving, Busy(worker, r)) /\ Kept(run[r], y)
    BY <1>1, Same DEF RunOK, Good, Kept, Final, Alike, EndsAs, LeaseRunsOut, Terminal, Unknown, Active, Open
  <1>3. run' = [run EXCEPT ![r] = y]
    BY Same DEF LeaseRunsOut, RunsInv, RunTypes, rows
  <1> HIDE DEF y
  <1>c. /\ UNCHANGED <<queue, sub, pump, sends, worker, sched, admin, intent, deaths>>
        /\ seen' \in [Runs -> Evidence] /\ content' \in [Runs -> BOOLEAN] /\ made' \in [Runs -> BOOLEAN]
    BY DEF LeaseRunsOut, RunsInv, RunTypes, Evidence, rows
  <1>4. /\ run'[r] = y /\ queue'[r] = queue[r] /\ sub'[r] = sub[r] /\ pump'[r] = pump[r] /\ sends'[r] = sends[r]
        /\ RunTypes' /\ Apart(r)
    BY <1>1, <1>3, <1>c DEF RunsInv, RunTypes, Apart
  <1>5. Good1(r, Serving, Busy(worker, r)) /\ Kept(run[r], run'[r])
    BY <1>2, <1>4 DEF Good1
  <1> QED BY <1>4, <1>5, <1>c, RowStep

LEMMA StepRetryDue ==
  ASSUME RunsInv, NEW r \in Runs, RetryDue(r)
  PROVE  RunsInv' /\ Lasting
  <1> DEFINE x == run[r]
             y == [x EXCEPT !.due = TRUE]
  <1>1. y \in Row /\ (Alike(x, y) /\ y.status = x.status)
    BY Same, Names, SetDue
  <1>2. RunOK(y, queue[r], sub[r], pump[r], sends[r], Serving, Busy(worker, r)) /\ Kept(run[r], y)
    BY <1>1, Same DEF RunOK, Good, Kept, Final, Alike, EndsAs, RetryDue, Terminal, Unknown, Active, Open
  <1>3. run' = [run EXCEPT ![r] = y]
    BY Same DEF RetryDue, RunsInv, RunTypes, rows
  <1> HIDE DEF y
  <1>c. /\ UNCHANGED <<queue, sub, pump, sends, worker, sched, admin, intent, deaths>>
        /\ seen' \in [Runs -> Evidence] /\ content' \in [Runs -> BOOLEAN] /\ made' \in [Runs -> BOOLEAN]
    BY DEF RetryDue, RunsInv, RunTypes, Evidence, rows
  <1>4. /\ run'[r] = y /\ queue'[r] = queue[r] /\ sub'[r] = sub[r] /\ pump'[r] = pump[r] /\ sends'[r] = sends[r]
        /\ RunTypes' /\ Apart(r)
    BY <1>1, <1>3, <1>c DEF RunsInv, RunTypes, Apart
  <1>5. Good1(r, Serving, Busy(worker, r)) /\ Kept(run[r], run'[r])
    BY <1>2, <1>4 DEF Good1
  <1> QED BY <1>4, <1>5, <1>c, RowStep

LEMMA StepRelease_temporary ==
  ASSUME RunsInv, NEW r \in Runs, release_temporary(r)
  PROVE  RunsInv' /\ Lasting
  <1> DEFINE x == run[r]
             y == [x EXCEPT !.temp = "released"]
  <1>1. y \in Row /\ (Alike(x, y) /\ y.status = x.status)
    BY Same, Names DEF Row, Alike
  <1>2. RunOK(y, queue[r], sub[r], pump[r], sends[r], Serving, Busy(worker, r)) /\ Kept(run[r], y)
    BY <1>1, Same DEF RunOK, Good, Kept, Final, Alike, EndsAs, release_temporary, Terminal, Unknown, Active, Open
  <1>3. run' = [run EXCEPT ![r] = y]
    BY Same DEF release_temporary, RunsInv, RunTypes, rows
  <1> HIDE DEF y
  <1>c. /\ UNCHANGED <<queue, sub, pump, sends, worker, sched, admin, intent, deaths>>
        /\ seen' \in [Runs -> Evidence] /\ content' \in [Runs -> BOOLEAN] /\ made' \in [Runs -> BOOLEAN]
    BY DEF release_temporary, RunsInv, RunTypes, Evidence, rows
  <1>4. /\ run'[r] = y /\ queue'[r] = queue[r] /\ sub'[r] = sub[r] /\ pump'[r] = pump[r] /\ sends'[r] = sends[r]
        /\ RunTypes' /\ Apart(r)
    BY <1>1, <1>3, <1>c DEF RunsInv, RunTypes, Apart
  <1>5. Good1(r, Serving, Busy(worker, r)) /\ Kept(run[r], run'[r])
    BY <1>2, <1>4 DEF Good1
  <1> QED BY <1>4, <1>5, <1>c, RowStep

LEMMA StepPumpClaim ==
  ASSUME RunsInv, NEW r \in Runs, PumpClaim(r)
  PROVE  RunsInv' /\ Lasting
  <1> DEFINE x == run[r]
             y == IF x.queued /\ x.status \in {"claimed", "submitting"} THEN [x EXCEPT !.status = "submitting", !.send = TRUE] ELSE x
             q == "submitting"
             s == "submitting"
             p == "claimed"
  <1>1. y \in Row /\ (Alike(x, y) /\ (y.status = x.status \/ (y.status = "submitting" /\ x.status \in {"claimed", "submitting"})))
    <2>1. CASE x.queued /\ x.status \in {"claimed", "submitting"}
      BY <2>1, Same, Names, SetSending
    <2>2. CASE ~(x.queued /\ x.status \in {"claimed", "submitting"})
      BY <2>2, Same, Names DEF Alike, EndsAs
    <2> QED BY <2>1, <2>2
  <1>2. RunOK(y, q, s, p, sends[r], Serving, Busy(worker, r)) /\ Kept(run[r], y)
    BY <1>1, Same DEF RunOK, Good, Kept, Final, Alike, EndsAs, PumpClaim, Terminal, Unknown, Active, Open
  <1>3. run' = [run EXCEPT ![r] = y]
    BY Same DEF PumpClaim, RunsInv, RunTypes, rows
  <1>a. q \in QueueState /\ s \in SubState /\ p \in {"idle", "claimed", "sent"}
    BY Same DEF QueueState, SubState, Open, Settled
  <1>b. queue' = [queue EXCEPT ![r] = q] /\ sub' = [sub EXCEPT ![r] = s] /\ pump' = [pump EXCEPT ![r] = p]
    BY Same DEF PumpClaim
  <1> HIDE DEF y, q, s, p
  <1>c. /\ UNCHANGED <<sends, worker, sched, admin, intent, deaths>>
        /\ seen' \in [Runs -> Evidence] /\ content' \in [Runs -> BOOLEAN] /\ made' \in [Runs -> BOOLEAN]
    BY DEF PumpClaim, RunsInv, RunTypes, Evidence, rows
  <1>4. /\ run'[r] = y /\ queue'[r] = q /\ sub'[r] = s /\ pump'[r] = p /\ sends'[r] = sends[r]
        /\ RunTypes' /\ Apart(r)
    BY <1>1, <1>3, <1>c, <1>a, <1>b DEF RunsInv, RunTypes, Apart
  <1>5. Good1(r, Serving, Busy(worker, r)) /\ Kept(run[r], run'[r])
    BY <1>2, <1>4 DEF Good1
  <1> QED BY <1>4, <1>5, <1>c, RowStep

LEMMA StepPumpDefer ==
  ASSUME RunsInv, NEW r \in Runs, PumpDefer(r)
  PROVE  RunsInv' /\ Lasting
  <1> DEFINE x == run[r]
             y == [x EXCEPT !.send = IF x.status = "submitting" /\ ~x.accepted THEN FALSE ELSE x.send]
             q == IF queue[r] = "submitting" THEN "local_queued" ELSE queue[r]
             s == "local_queued"
             p == "idle"
  <1>1. y \in Row /\ (Alike(x, y) /\ y.status = x.status)
    <2>1. CASE x.status = "submitting" /\ ~x.accepted
      BY <2>1, Same, Names, SetSend
    <2>2. CASE ~(x.status = "submitting" /\ ~x.accepted)
      BY <2>2, Same, Names, RowFields, SetSend
    <2> QED BY <2>1, <2>2
  <1>2. RunOK(y, q, s, p, sends[r], Serving, Busy(worker, r)) /\ Kept(run[r], y)
    BY <1>1, Same DEF RunOK, Good, Kept, Final, Alike, EndsAs, PumpDefer, Terminal, Unknown, Active, Open
  <1>3. run' = [run EXCEPT ![r] = y]
    BY Same DEF PumpDefer, RunsInv, RunTypes, rows
  <1>a. q \in QueueState /\ s \in SubState /\ p \in {"idle", "claimed", "sent"}
    BY Same DEF QueueState, SubState, Open, Settled
  <1>b. queue' = [queue EXCEPT ![r] = q] /\ sub' = [sub EXCEPT ![r] = s] /\ pump' = [pump EXCEPT ![r] = p]
    BY Same DEF PumpDefer
  <1> HIDE DEF y, q, s, p
  <1>c. /\ UNCHANGED <<sends, worker, sched, admin, intent, deaths>>
        /\ seen' \in [Runs -> Evidence] /\ content' \in [Runs -> BOOLEAN] /\ made' \in [Runs -> BOOLEAN]
    BY DEF PumpDefer, RunsInv, RunTypes, Evidence, rows
  <1>4. /\ run'[r] = y /\ queue'[r] = q /\ sub'[r] = s /\ pump'[r] = p /\ sends'[r] = sends[r]
        /\ RunTypes' /\ Apart(r)
    BY <1>1, <1>3, <1>c, <1>a, <1>b DEF RunsInv, RunTypes, Apart
  <1>5. Good1(r, Serving, Busy(worker, r)) /\ Kept(run[r], run'[r])
    BY <1>2, <1>4 DEF Good1
  <1> QED BY <1>4, <1>5, <1>c, RowStep

LEMMA StepPumpSend ==
  ASSUME RunsInv, NEW r \in Runs, PumpSend(r)
  PROVE  RunsInv' /\ Lasting
  <1> DEFINE y == run[r]
             p == "sent"
             n == sends[r] + 1
  <1>1. y \in Row
    BY Same
  <1>2. RunOK(y, queue[r], sub[r], p, n, Serving, Busy(worker, r)) /\ Kept(run[r], y)
    BY <1>1, Same DEF RunOK, Good, Kept, Final, Alike, EndsAs, PumpSend, Terminal, Unknown, Active, Open
  <1>3. run' = [run EXCEPT ![r] = y]
    BY Same DEF PumpSend, RunsInv, RunTypes, rows
  <1>a. p \in {"idle", "claimed", "sent"} /\ n \in Nat
    BY Same DEF QueueState, SubState, Open, Settled
  <1>b. pump' = [pump EXCEPT ![r] = p] /\ sends' = [sends EXCEPT ![r] = n]
    BY Same DEF PumpSend
  <1> HIDE DEF y, p, n
  <1>c. /\ UNCHANGED <<queue, sub, worker, sched, admin, intent, deaths>>
        /\ seen' \in [Runs -> Evidence] /\ content' \in [Runs -> BOOLEAN] /\ made' \in [Runs -> BOOLEAN]
    BY DEF PumpSend, RunsInv, RunTypes, Evidence, rows
  <1>4. /\ run'[r] = y /\ queue'[r] = queue[r] /\ sub'[r] = sub[r] /\ pump'[r] = p /\ sends'[r] = n
        /\ RunTypes' /\ Apart(r)
    BY <1>1, <1>3, <1>c, <1>a, <1>b DEF RunsInv, RunTypes, Apart
  <1>5. Good1(r, Serving, Busy(worker, r)) /\ Kept(run[r], run'[r])
    BY <1>2, <1>4 DEF Good1
  <1> QED BY <1>4, <1>5, <1>c, RowStep

LEMMA StepAccepted ==
  ASSUME RunsInv, NEW r \in Runs, Accepted(r)
  PROVE  RunsInv' /\ Lasting
  <1> DEFINE x == run[r]
             y == IF x.queued /\ x.status \in {"claimed", "submitting", "accepted"} THEN [x EXCEPT !.status = "accepted", !.accepted = TRUE] ELSE x
             q == IF queue[r] \in {"submitting", "submitted_unknown"} THEN "submitted" ELSE queue[r]
             s == IF sub[r] \in {"submitting", "submitted_unknown"} THEN "submitted" ELSE sub[r]
             p == "idle"
  <1>1. y \in Row /\ (Alike(x, y) /\ (y.status = x.status \/ (y.status = "accepted" /\ x.status \in Active)))
    <2>1. CASE x.queued /\ x.status \in {"claimed", "submitting", "accepted"}
      BY <2>1, Same, Names, SetTaken
    <2>2. CASE ~(x.queued /\ x.status \in {"claimed", "submitting", "accepted"})
      BY <2>2, Same, Names DEF Alike, EndsAs
    <2> QED BY <2>1, <2>2
  <1>2. RunOK(y, q, s, p, sends[r], Serving, Busy(worker, r)) /\ Kept(run[r], y)
    BY <1>1, Same DEF RunOK, Good, Kept, Final, Alike, EndsAs, Accepted, Terminal, Unknown, Active, Open
  <1>3. run' = [run EXCEPT ![r] = y]
    BY Same DEF Accepted, RunsInv, RunTypes, rows
  <1>a. q \in QueueState /\ s \in SubState /\ p \in {"idle", "claimed", "sent"}
    BY Same DEF QueueState, SubState, Open, Settled
  <1>b. queue' = [queue EXCEPT ![r] = q] /\ sub' = [sub EXCEPT ![r] = s] /\ pump' = [pump EXCEPT ![r] = p]
    BY Same DEF Accepted
  <1> HIDE DEF y, q, s, p
  <1>c. /\ UNCHANGED <<sends, worker, sched, admin, intent, deaths>>
        /\ seen' \in [Runs -> Evidence] /\ content' \in [Runs -> BOOLEAN] /\ made' \in [Runs -> BOOLEAN]
    BY DEF Accepted, RunsInv, RunTypes, Evidence, rows
  <1>4. /\ run'[r] = y /\ queue'[r] = q /\ sub'[r] = s /\ pump'[r] = p /\ sends'[r] = sends[r]
        /\ RunTypes' /\ Apart(r)
    BY <1>1, <1>3, <1>c, <1>a, <1>b DEF RunsInv, RunTypes, Apart
  <1>5. Good1(r, Serving, Busy(worker, r)) /\ Kept(run[r], run'[r])
    BY <1>2, <1>4 DEF Good1
  <1> QED BY <1>4, <1>5, <1>c, RowStep

LEMMA StepAcceptanceUnknown ==
  ASSUME RunsInv, NEW r \in Runs, AcceptanceUnknown(r)
  PROVE  RunsInv' /\ Lasting
  <1> DEFINE x == run[r]
             y == IF ~x.queued THEN x
                  ELSE IF ~x.accepted /\ seen[r] = {} THEN FinalizedByReducer(x, "dispatch_unknown", FALSE)
                  ELSE IF x.status \in {"submitting", "accepted", "waiting"} /\ seen[r] # {} THEN [x EXCEPT !.status = "waiting"] ELSE x
             q == IF queue[r] # "submitting" THEN queue[r] ELSE IF seen[r] # {} THEN "submitted" ELSE "submitted_unknown"
             s == IF sub[r] = "rejected" \/ seen[r] # {} THEN sub[r] ELSE "submitted_unknown"
             p == "idle"
  <1>1. y \in Row /\ (EndsAs(x, y, "dispatch_unknown") \/ (Alike(x, y) /\ y.status = "waiting" /\ x.status \in Active))
    <2>1. CASE ~x.queued
      BY <2>1, Same, Names DEF EndsAs
    <2>2. CASE x.queued /\ ~x.accepted /\ seen[r] = {}
      BY <2>2, Same, Names, Reduced
    <2>3. CASE x.queued /\ ~(~x.accepted /\ seen[r] = {}) /\ x.status \in {"submitting", "accepted", "waiting"} /\ seen[r] # {}
      BY <2>3, Same, Names, SetStatus
    <2>4. CASE x.queued /\ ~(~x.accepted /\ seen[r] = {}) /\ ~(x.status \in {"submitting", "accepted", "waiting"} /\ seen[r] # {})
      BY <2>4, Same, Names DEF EndsAs
    <2> QED BY <2>1, <2>2, <2>3, <2>4
  <1>2. RunOK(y, q, s, p, sends[r], Serving, Busy(worker, r)) /\ Kept(run[r], y)
    BY <1>1, Same DEF RunOK, Good, Kept, Final, Alike, EndsAs, AcceptanceUnknown, Terminal, Unknown, Active, Open
  <1>3. run' = [run EXCEPT ![r] = y]
    BY Same DEF AcceptanceUnknown, RunsInv, RunTypes, rows
  <1>a. q \in QueueState /\ s \in SubState /\ p \in {"idle", "claimed", "sent"}
    BY Same DEF QueueState, SubState, Open, Settled
  <1>b. queue' = [queue EXCEPT ![r] = q] /\ sub' = [sub EXCEPT ![r] = s] /\ pump' = [pump EXCEPT ![r] = p]
    BY Same DEF AcceptanceUnknown
  <1> HIDE DEF y, q, s, p
  <1>c. /\ UNCHANGED <<sends, worker, sched, admin, intent, deaths>>
        /\ seen' \in [Runs -> Evidence] /\ content' \in [Runs -> BOOLEAN] /\ made' \in [Runs -> BOOLEAN]
    BY DEF AcceptanceUnknown, RunsInv, RunTypes, Evidence, rows
  <1>4. /\ run'[r] = y /\ queue'[r] = q /\ sub'[r] = s /\ pump'[r] = p /\ sends'[r] = sends[r]
        /\ RunTypes' /\ Apart(r)
    BY <1>1, <1>3, <1>c, <1>a, <1>b DEF RunsInv, RunTypes, Apart
  <1>5. Good1(r, Serving, Busy(worker, r)) /\ Kept(run[r], run'[r])
    BY <1>2, <1>4 DEF Good1
  <1> QED BY <1>4, <1>5, <1>c, RowStep

LEMMA StepRejected ==
  ASSUME RunsInv, NEW r \in Runs, Rejected(r)
  PROVE  RunsInv' /\ Lasting
  <1> DEFINE x == run[r]
             y == IF x.queued THEN FinalizedByReducer(x, "failed", FALSE) ELSE x
             q == IF queue[r] \in {"local_queued", "submitting", "submitted", "submitted_unknown"} THEN "rejected" ELSE queue[r]
             s == "rejected"
             p == "idle"
  <1>1. y \in Row /\ (EndsAs(x, y, "failed"))
    <2>1. CASE x.queued
      BY <2>1, Same, Names, Reduced
    <2>2. CASE ~x.queued
      BY <2>2, Same, Names DEF EndsAs
    <2> QED BY <2>1, <2>2
  <1>2. RunOK(y, q, s, p, sends[r], Serving, Busy(worker, r)) /\ Kept(run[r], y)
    BY <1>1, Same DEF RunOK, Good, Kept, Final, Alike, EndsAs, Rejected, Terminal, Unknown, Active, Open
  <1>3. run' = [run EXCEPT ![r] = y]
    BY Same DEF Rejected, RunsInv, RunTypes, rows
  <1>a. q \in QueueState /\ s \in SubState /\ p \in {"idle", "claimed", "sent"}
    BY Same DEF QueueState, SubState, Open, Settled
  <1>b. queue' = [queue EXCEPT ![r] = q] /\ sub' = [sub EXCEPT ![r] = s] /\ pump' = [pump EXCEPT ![r] = p]
    BY Same DEF Rejected
  <1> HIDE DEF y, q, s, p
  <1>c. /\ UNCHANGED <<sends, worker, sched, admin, intent, deaths>>
        /\ seen' \in [Runs -> Evidence] /\ content' \in [Runs -> BOOLEAN] /\ made' \in [Runs -> BOOLEAN]
    BY DEF Rejected, RunsInv, RunTypes, Evidence, rows
  <1>4. /\ run'[r] = y /\ queue'[r] = q /\ sub'[r] = s /\ pump'[r] = p /\ sends'[r] = sends[r]
        /\ RunTypes' /\ Apart(r)
    BY <1>1, <1>3, <1>c, <1>a, <1>b DEF RunsInv, RunTypes, Apart
  <1>5. Good1(r, Serving, Busy(worker, r)) /\ Kept(run[r], run'[r])
    BY <1>2, <1>4 DEF Good1
  <1> QED BY <1>4, <1>5, <1>c, RowStep

LEMMA StepObserved ==
  ASSUME RunsInv, NEW r \in Runs, Observed(r)
  PROVE  RunsInv' /\ Lasting
  <1> DEFINE y == run[r]
             s == "observed_active"
  <1>1. y \in Row
    BY Same
  <1>2. RunOK(y, queue[r], s, pump[r], sends[r], Serving, Busy(worker, r)) /\ Kept(run[r], y)
    BY <1>1, Same DEF RunOK, Good, Kept, Final, Alike, EndsAs, Observed, Terminal, Unknown, Active, Open
  <1>3. run' = [run EXCEPT ![r] = y]
    BY Same DEF Observed, RunsInv, RunTypes, rows
  <1>a. s \in SubState
    BY Same DEF QueueState, SubState, Open, Settled
  <1>b. sub' = [sub EXCEPT ![r] = s]
    BY Same DEF Observed
  <1> HIDE DEF y, s
  <1>c. /\ UNCHANGED <<queue, pump, sends, worker, sched, admin, intent, deaths>>
        /\ seen' \in [Runs -> Evidence] /\ content' \in [Runs -> BOOLEAN] /\ made' \in [Runs -> BOOLEAN]
    BY DEF Observed, RunsInv, RunTypes, Evidence, rows
  <1>4. /\ run'[r] = y /\ queue'[r] = queue[r] /\ sub'[r] = s /\ pump'[r] = pump[r] /\ sends'[r] = sends[r]
        /\ RunTypes' /\ Apart(r)
    BY <1>1, <1>3, <1>c, <1>a, <1>b DEF RunsInv, RunTypes, Apart
  <1>5. Good1(r, Serving, Busy(worker, r)) /\ Kept(run[r], run'[r])
    BY <1>2, <1>4 DEF Good1
  <1> QED BY <1>4, <1>5, <1>c, RowStep

LEMMA StepIdleUncorrelated ==
  ASSUME RunsInv, NEW r \in Runs, IdleUncorrelated(r)
  PROVE  RunsInv' /\ Lasting
  <1> DEFINE x == run[r]
             y == FinalizedByReducer(x, "outcome_unknown", TRUE)
             q == IF queue[r] \in {"submitting", "submitted", "submitted_unknown"} THEN "outcome_unknown" ELSE queue[r]
             s == "outcome_unknown"
  <1>1. y \in Row /\ (EndsAs(x, y, "outcome_unknown"))
    BY Same, Names, Reduced
  <1>2. RunOK(y, q, s, pump[r], sends[r], Serving, Busy(worker, r)) /\ Kept(run[r], y)
    BY <1>1, Same DEF RunOK, Good, Kept, Final, Alike, EndsAs, IdleUncorrelated, Terminal, Unknown, Active, Open
  <1>3. run' = [run EXCEPT ![r] = y]
    BY Same DEF IdleUncorrelated, RunsInv, RunTypes, rows
  <1>a. q \in QueueState /\ s \in SubState
    BY Same DEF QueueState, SubState, Open, Settled
  <1>b. queue' = [queue EXCEPT ![r] = q] /\ sub' = [sub EXCEPT ![r] = s]
    BY Same DEF IdleUncorrelated
  <1> HIDE DEF y, q, s
  <1>c. /\ UNCHANGED <<pump, sends, worker, sched, admin, intent, deaths>>
        /\ seen' \in [Runs -> Evidence] /\ content' \in [Runs -> BOOLEAN] /\ made' \in [Runs -> BOOLEAN]
    BY DEF IdleUncorrelated, RunsInv, RunTypes, Evidence, rows
  <1>4. /\ run'[r] = y /\ queue'[r] = q /\ sub'[r] = s /\ pump'[r] = pump[r] /\ sends'[r] = sends[r]
        /\ RunTypes' /\ Apart(r)
    BY <1>1, <1>3, <1>c, <1>a, <1>b DEF RunsInv, RunTypes, Apart
  <1>5. Good1(r, Serving, Busy(worker, r)) /\ Kept(run[r], run'[r])
    BY <1>2, <1>4 DEF Good1
  <1> QED BY <1>4, <1>5, <1>c, RowStep

LEMMA StepLateCorrelation ==
  ASSUME RunsInv, NEW r \in Runs, LateCorrelation(r)
  PROVE  RunsInv' /\ Lasting
  <1> DEFINE x == run[r]
             y == IF x.queued /\ x.status = "outcome_unknown" /\ x.idle THEN [x EXCEPT !.status = "accepted", !.told = "accepted", !.idle = FALSE] ELSE x
             q == IF queue[r] = "outcome_unknown" THEN "submitted" ELSE queue[r]
             s == "observed_active"
  <1>1. y \in Row /\ (y = x \/ (y.owner = x.owner /\ y.intent = x.intent /\ y.status = "accepted" /\ y.told = "accepted" /\ x.status = "outcome_unknown"))
    <2>1. CASE x.queued /\ x.status = "outcome_unknown" /\ x.idle
      BY <2>1, Same, Names, SetLate
    <2>2. CASE ~(x.queued /\ x.status = "outcome_unknown" /\ x.idle)
      BY <2>2, Same, Names DEF Alike, EndsAs
    <2> QED BY <2>1, <2>2
  <1>2. RunOK(y, q, s, pump[r], sends[r], Serving, Busy(worker, r)) /\ Kept(run[r], y)
    BY <1>1, Same DEF RunOK, Good, Kept, Final, Alike, EndsAs, LateCorrelation, Terminal, Unknown, Active, Open
  <1>3. run' = [run EXCEPT ![r] = y]
    BY Same DEF LateCorrelation, RunsInv, RunTypes, rows
  <1>a. q \in QueueState /\ s \in SubState
    BY Same DEF QueueState, SubState, Open, Settled
  <1>b. queue' = [queue EXCEPT ![r] = q] /\ sub' = [sub EXCEPT ![r] = s]
    BY Same DEF LateCorrelation
  <1> HIDE DEF y, q, s
  <1>c. /\ UNCHANGED <<pump, sends, worker, sched, admin, intent, deaths>>
        /\ seen' \in [Runs -> Evidence] /\ content' \in [Runs -> BOOLEAN] /\ made' \in [Runs -> BOOLEAN]
    BY DEF LateCorrelation, RunsInv, RunTypes, Evidence, rows
  <1>4. /\ run'[r] = y /\ queue'[r] = q /\ sub'[r] = s /\ pump'[r] = pump[r] /\ sends'[r] = sends[r]
        /\ RunTypes' /\ Apart(r)
    BY <1>1, <1>3, <1>c, <1>a, <1>b DEF RunsInv, RunTypes, Apart
  <1>5. Good1(r, Serving, Busy(worker, r)) /\ Kept(run[r], run'[r])
    BY <1>2, <1>4 DEF Good1
  <1> QED BY <1>4, <1>5, <1>c, RowStep

LEMMA StepActiveUnknown ==
  ASSUME RunsInv, NEW r \in Runs, ActiveUnknown(r)
  PROVE  RunsInv' /\ Lasting
  <1> DEFINE x == run[r]
             y == IF x.queued /\ x.status \in {"submitting", "accepted", "waiting"} THEN FinalizedByReducer(x, "outcome_unknown", FALSE) ELSE x
             s == "outcome_unknown"
  <1>1. y \in Row /\ (EndsAs(x, y, "outcome_unknown"))
    <2>1. CASE x.queued /\ x.status \in {"submitting", "accepted", "waiting"}
      BY <2>1, Same, Names, Reduced
    <2>2. CASE ~(x.queued /\ x.status \in {"submitting", "accepted", "waiting"})
      BY <2>2, Same, Names DEF Alike, EndsAs
    <2> QED BY <2>1, <2>2
  <1>2. RunOK(y, queue[r], s, pump[r], sends[r], Serving, Busy(worker, r)) /\ Kept(run[r], y)
    BY <1>1, Same DEF RunOK, Good, Kept, Final, Alike, EndsAs, ActiveUnknown, Terminal, Unknown, Active, Open
  <1>3. run' = [run EXCEPT ![r] = y]
    BY Same DEF ActiveUnknown, RunsInv, RunTypes, rows
  <1>a. s \in SubState
    BY Same DEF QueueState, SubState, Open, Settled
  <1>b. sub' = [sub EXCEPT ![r] = s]
    BY Same DEF ActiveUnknown
  <1> HIDE DEF y, s
  <1>c. /\ UNCHANGED <<queue, pump, sends, worker, sched, admin, intent, deaths>>
        /\ seen' \in [Runs -> Evidence] /\ content' \in [Runs -> BOOLEAN] /\ made' \in [Runs -> BOOLEAN]
    BY DEF ActiveUnknown, RunsInv, RunTypes, Evidence, rows
  <1>4. /\ run'[r] = y /\ queue'[r] = queue[r] /\ sub'[r] = s /\ pump'[r] = pump[r] /\ sends'[r] = sends[r]
        /\ RunTypes' /\ Apart(r)
    BY <1>1, <1>3, <1>c, <1>a, <1>b DEF RunsInv, RunTypes, Apart
  <1>5. Good1(r, Serving, Busy(worker, r)) /\ Kept(run[r], run'[r])
    BY <1>2, <1>4 DEF Good1
  <1> QED BY <1>4, <1>5, <1>c, RowStep

LEMMA StepCancelled ==
  ASSUME RunsInv, NEW r \in Runs, Cancelled(r)
  PROVE  RunsInv' /\ Lasting
  <1> DEFINE x == run[r]
             y == FinalizedByReducer(x, "cancelled", FALSE)
             q == "cancelled"
             s == "cancelled"
  <1>1. y \in Row /\ (EndsAs(x, y, "cancelled"))
    BY Same, Names, Reduced
  <1>2. RunOK(y, q, s, pump[r], sends[r], Serving, Busy(worker, r)) /\ Kept(run[r], y)
    BY <1>1, Same DEF RunOK, Good, Kept, Final, Alike, EndsAs, Cancelled, Terminal, Unknown, Active, Open
  <1>3. run' = [run EXCEPT ![r] = y]
    BY Same DEF Cancelled, RunsInv, RunTypes, rows
  <1>a. q \in QueueState /\ s \in SubState
    BY Same DEF QueueState, SubState, Open, Settled
  <1>b. queue' = [queue EXCEPT ![r] = q] /\ sub' = [sub EXCEPT ![r] = s]
    BY Same DEF Cancelled
  <1> HIDE DEF y, q, s
  <1>c. /\ UNCHANGED <<pump, sends, worker, sched, admin, intent, deaths>>
        /\ seen' \in [Runs -> Evidence] /\ content' \in [Runs -> BOOLEAN] /\ made' \in [Runs -> BOOLEAN]
    BY DEF Cancelled, RunsInv, RunTypes, Evidence, rows
  <1>4. /\ run'[r] = y /\ queue'[r] = q /\ sub'[r] = s /\ pump'[r] = pump[r] /\ sends'[r] = sends[r]
        /\ RunTypes' /\ Apart(r)
    BY <1>1, <1>3, <1>c, <1>a, <1>b DEF RunsInv, RunTypes, Apart
  <1>5. Good1(r, Serving, Busy(worker, r)) /\ Kept(run[r], run'[r])
    BY <1>2, <1>4 DEF Good1
  <1> QED BY <1>4, <1>5, <1>c, RowStep


\* The row y is x, which had ended, or it ends without being called off.
Closes(x, y) ==
  \/ y = x
  \/ /\ ~(x.status \in Terminal /\ x.intent) /\ ~y.owner
     /\ y.status \in Terminal \ {"cancelled"} /\ y.told = y.status /\ y.intent

LEMMA Closed ==
  ASSUME NEW x \in Row, NEW st \in Terminal \ {"cancelled"}
  PROVE  Finalized(x, st) \in Row /\ Closes(x, Finalized(x, st))
  BY FinalizedRow DEF Closes

LEMMA FromSub ==
  /\ DOMAIN FromSubmission = {"semantic_complete", "semantic_blocked", "rejected", "submitted_unknown", "outcome_unknown"}
  /\ \A s \in DOMAIN FromSubmission : FromSubmission[s] \in Terminal \ {"cancelled"}
  BY DEF FromSubmission, Terminal, Unknown

LEMMA StepReconcile_submissions ==
  ASSUME RunsInv, NEW r \in Runs, reconcile_submissions(r)
  PROVE  RunsInv' /\ Lasting
  <1> DEFINE x == run[r]
             y == IF sub[r] \in DOMAIN FromSubmission THEN Finalized(x, FromSubmission[sub[r]])
                  ELSE IF sub[r] = "submitted"
                  THEN [x EXCEPT !.status = "accepted", !.accepted = x.accepted \/ "accepted" \in seen[r]]
                  ELSE IF sub[r] = "observed_active"
                  THEN [x EXCEPT !.status = "waiting", !.accepted = x.accepted \/ "accepted" \in seen[r]]
                  ELSE x
  <1>1. y \in Row /\ (Closes(x, y) \/ (Alike(x, y) /\ y.status \in Active))
    <2>1. CASE sub[r] \in DOMAIN FromSubmission
      BY <2>1, Same, Names, FromSub, Closed
    <2>2. CASE sub[r] = "submitted"
      <3> DEFINE z == [x EXCEPT !.status = "accepted", !.accepted = x.accepted \/ "accepted" \in seen[r]]
      <3>1. sub[r] \notin DOMAIN FromSubmission
        BY <2>2, FromSub
      <3>2. x \in Row /\ "accepted" \in Status /\ "accepted" \in Active
        BY Same, Names
      <3>3. y = z
        BY <2>2, <3>1
      <3>4. z \in Row /\ Alike(x, z) /\ z.status = "accepted"
        BY <3>2, SetSeen
      <3> HIDE DEF z
      <3> QED BY <3>2, <3>3, <3>4
    <2>3. CASE sub[r] = "observed_active"
      <3> DEFINE z == [x EXCEPT !.status = "waiting", !.accepted = x.accepted \/ "accepted" \in seen[r]]
      <3>1. sub[r] \notin DOMAIN FromSubmission
        BY <2>3, FromSub
      <3>2. x \in Row /\ "waiting" \in Status /\ "waiting" \in Active
        BY Same, Names
      <3>3. y = z
        BY <2>3, <3>1
      <3>4. z \in Row /\ Alike(x, z) /\ z.status = "waiting"
        BY <3>2, SetSeen
      <3> HIDE DEF z
      <3> QED BY <3>2, <3>3, <3>4
    <2>4. CASE sub[r] \notin DOMAIN FromSubmission \cup {"submitted", "observed_active"}
      BY <2>4, Same, Names DEF Closes
    <2> QED BY <2>1, <2>2, <2>3, <2>4
  <1>2. RunOK(y, queue[r], sub[r], pump[r], sends[r], Serving, Busy(worker, r)) /\ Kept(run[r], y)
    BY <1>1, Same DEF RunOK, Good, Kept, Final, Alike, EndsAs, reconcile_submissions, Terminal, Unknown, Active, Open, Closes, Busy, Dispatching
  <1>3. run' = [run EXCEPT ![r] = y]
    BY Same DEF reconcile_submissions, RunsInv, RunTypes, rows
  <1> HIDE DEF y
  <1>c. /\ UNCHANGED <<queue, sub, pump, sends, worker, sched, admin, intent, deaths>>
        /\ seen' \in [Runs -> Evidence] /\ content' \in [Runs -> BOOLEAN] /\ made' \in [Runs -> BOOLEAN]
    BY DEF reconcile_submissions, RunsInv, RunTypes, Evidence, rows
  <1>4. /\ run'[r] = y /\ queue'[r] = queue[r] /\ sub'[r] = sub[r] /\ pump'[r] = pump[r] /\ sends'[r] = sends[r]
        /\ RunTypes' /\ Apart(r)
    BY <1>1, <1>3, <1>c DEF RunsInv, RunTypes, Apart
  <1>5. Good1(r, Serving, Busy(worker, r)) /\ Kept(run[r], run'[r])
    BY <1>2, <1>4 DEF Good1
  <1> QED BY <1>4, <1>5, <1>c, RowStep


-----------------------------------------------------------------------------
(* The steps of the scheduler's worker.                                    *)

\* A step after which the worker has run r in hand.
LEMMA InHand ==
  ASSUME RunsInv, NEW r \in Runs, Serving, worker' \in Claims, worker'.run = r,
         UNCHANGED <<sched, admin, intent, deaths>>,
         RunTypes', Apart(r), Good1(r, TRUE, TRUE), Kept(run[r], run'[r])
  PROVE  RunsInv' /\ Lasting
  <1>1. Serving' /\ worker'.at \in Dispatching
    BY DEF Serving, Claims, Dispatching
  <1>2. \A t \in Runs : Busy(worker', t) <=> t = r
    BY <1>1 DEF Busy
  <1>3. Good1(r, Serving', Busy(worker', r))
    BY <1>1, <1>2 DEF RunOK, Good1
  <1>4. /\ Serving' => Serving
        /\ \A t \in Runs \ {r} : Busy(worker', t) => Busy(worker, t)
    BY <1>2
  <1>5. RunInv' /\ Lasting
    BY <1>3, <1>4, OneRun
  <1>6. WorkerTypes'
    BY <1>1 DEF RunsInv, WorkerTypes, Dispatching, Claims
  <1>7. AdminTypes'
    BY DEF RunsInv, AdminTypes
  <1> QED BY <1>5, <1>6, <1>7 DEF RunsInv

LEMMA WorkerHas ==
  ASSUME RunsInv, worker.at \in Dispatching
  PROVE  worker \in Claims /\ worker.run \in Runs /\ worker.attempt \in Nat /\ Serving /\ Busy(worker, worker.run)
  BY ScheduleAssumption DEF RunsInv, WorkerTypes, Claims, Dispatching, Serving, Busy

LEMMA AfterErrorIs ==
  ASSUME NEW error \in Errors, NEW attempt
  PROVE  AfterError(error, attempt) \in (Terminal \ {"cancelled"}) \cup {"retry_wait"}
  BY DEF AfterError, Errors, Terminal, Unknown

LEMMA Waits ==
  ASSUME NEW x \in Row
  PROVE  Waiting(x) \in Row /\ Waiting(x).status = "retry_wait" /\ Waiting(x).told = x.told
         /\ Waiting(x).intent = x.intent /\ ~Waiting(x).owner
  BY WaitingRow

LEMMA StepRenew_run ==
  ASSUME RunsInv, NEW r \in Runs, r = worker.run, renew_run
  PROVE  RunsInv' /\ Lasting
  <1> DEFINE x == run[r]
             y == [x EXCEPT !.lease = "live"]
  <1>1. y \in Row /\ (Alike(x, y) /\ y.status = x.status)
    BY Same, Names DEF Row, Alike
  <1>2. RunOK(y, queue[r], sub[r], pump[r], sends[r], Serving, Busy(worker, r)) /\ Kept(run[r], y)
    BY <1>1, Same DEF RunOK, Good, Kept, Final, Alike, EndsAs, renew_run, Terminal, Unknown, Active, Open
  <1>3. run' = [run EXCEPT ![r] = y]
    BY Same DEF renew_run, RunsInv, RunTypes, rows
  <1> HIDE DEF y
  <1>c. /\ UNCHANGED <<queue, sub, pump, sends, worker, sched, admin, intent, deaths>>
        /\ seen' \in [Runs -> Evidence] /\ content' \in [Runs -> BOOLEAN] /\ made' \in [Runs -> BOOLEAN]
    BY DEF renew_run, RunsInv, RunTypes, Evidence, rows
  <1>4. /\ run'[r] = y /\ queue'[r] = queue[r] /\ sub'[r] = sub[r] /\ pump'[r] = pump[r] /\ sends'[r] = sends[r]
        /\ RunTypes' /\ Apart(r)
    BY <1>1, <1>3, <1>c DEF RunsInv, RunTypes, Apart
  <1>5. Good1(r, Serving, Busy(worker, r)) /\ Kept(run[r], run'[r])
    BY <1>2, <1>4 DEF Good1
  <1> QED BY <1>4, <1>5, <1>c, RowStep

LEMMA StepCreateThread ==
  ASSUME RunsInv, CreateThread
  PROVE  RunsInv' /\ Lasting
  <1>1. PICK r \in Runs : r = worker.run
    BY WorkerHas DEF CreateThread, Dispatching
  <1>2. RunTypes' /\ Apart(r) /\ UNCHANGED <<run, queue, sub, pump, sends, worker, sched, admin, intent, deaths>>
    BY <1>1 DEF CreateThread, RunsInv, RunTypes, Apart, rows
  <1>3. Good1(r, Serving, Busy(worker, r)) /\ Kept(run[r], run'[r])
    BY <1>2, Same DEF Good, Good1, Kept
  <1> QED BY <1>2, <1>3, RowStep

LEMMA StepCompleted ==
  ASSUME RunsInv, NEW r \in Runs, Completed(r)
  PROVE  RunsInv' /\ Lasting
  <1>1. PICK s \in {"semantic_complete", "semantic_blocked"} : sub' = [sub EXCEPT ![r] = s]
    BY DEF Completed
  <1>2. s \in SubState /\ sub[r] = "observed_active"
    BY DEF SubState, Settled, Completed
  <1>3. RunOK(run[r], queue[r], s, pump[r], sends[r], Serving, Busy(worker, r))
    BY <1>1, <1>2, Same DEF RunOK, Good
  <1>4. UNCHANGED <<run, queue, seen, content, made, pump, worker, sched, admin, intent, sends, deaths>>
    BY DEF Completed
  <1>5. RunTypes' /\ Apart(r) /\ sub'[r] = s
    BY <1>1, <1>2, <1>4 DEF RunsInv, RunTypes, Apart
  <1>6. Good1(r, Serving, Busy(worker, r)) /\ Kept(run[r], run'[r])
    BY <1>3, <1>4, <1>5 DEF Good1, Kept
  <1> QED BY <1>4, <1>5, <1>6, RowStep

LEMMA StepRetry_or_fail ==
  ASSUME RunsInv, NEW r \in Runs, r = worker.run, retry_or_fail
  PROVE  RunsInv' /\ Lasting
  <1>p. PICK error \in Errors :
           LET next == AfterError(error, worker.attempt) IN
           run' = IF ~Mine(r) THEN run
                  ELSE IF next # "retry_wait" THEN [run EXCEPT ![r] = Finalized(@, next)]
                  ELSE IF run[r].send THEN run
                  ELSE [run EXCEPT ![r] = Waiting(@)]
    BY DEF retry_or_fail
  <1> DEFINE next == AfterError(error, worker.attempt)
  <1>0. next \in (Terminal \ {"cancelled"}) \cup {"retry_wait"}
    BY AfterErrorIs
  <1> DEFINE x == run[r]
             y == IF ~Mine(r) THEN x
                  ELSE IF next # "retry_wait" THEN Finalized(x, next)
                  ELSE IF x.send THEN x ELSE Waiting(x)
  <1> HIDE DEF next
  <1>1. y \in Row /\ (y = x \/ (x.owner /\ (Closes(x, y) \/ (~y.owner /\ y.told = x.told /\ y.intent = x.intent /\ y.status = "retry_wait"))))
    <2>1. CASE ~Mine(r) \/ (next = "retry_wait" /\ x.send)
      BY <2>1, Same, Names
    <2>2. CASE Mine(r) /\ next # "retry_wait"
      BY <2>2, Same, Names, <1>0, Closed DEF Mine
    <2>3. CASE Mine(r) /\ next = "retry_wait" /\ ~x.send
      BY <2>3, Same, Names, Waits DEF Mine
    <2> QED BY <2>1, <2>2, <2>3
  <1>2. RunOK(y, queue[r], sub[r], pump[r], sends[r], TRUE, FALSE) /\ Kept(run[r], y)
    BY <1>1, Same DEF RunOK, Good, Kept, Final, Alike, EndsAs, retry_or_fail, Terminal, Unknown, Active, Open, Closes, Serving, Busy, Dispatching
  <1>3. run' = [run EXCEPT ![r] = y]
    BY <1>p, Same DEF RunsInv, RunTypes, next
  <1> HIDE DEF y
  <1>c. /\ UNCHANGED <<queue, sub, pump, sends, sched, admin, intent, deaths>>
        /\ seen' \in [Runs -> Evidence] /\ content' \in [Runs -> BOOLEAN] /\ made' \in [Runs -> BOOLEAN]
    BY DEF retry_or_fail, RunsInv, RunTypes, Evidence, rows
  <1>4. /\ run'[r] = y /\ queue'[r] = queue[r] /\ sub'[r] = sub[r] /\ pump'[r] = pump[r] /\ sends'[r] = sends[r]
        /\ RunTypes' /\ Apart(r)
    BY <1>1, <1>3, <1>c DEF RunsInv, RunTypes, Apart
  <1>5. Good1(r, TRUE, FALSE) /\ Kept(run[r], run'[r])
    BY <1>2, <1>4 DEF Good1
  <1>6. Serving /\ Return
    BY DEF retry_or_fail, Serving
  <1> QED BY <1>4, <1>5, <1>6, <1>c, EndOfTick


\* A queued run that fails is settled, waits for its retry or is left alone.
LEMMA QueuedErrorKeeps ==
  ASSUME RunsInv, NEW r \in Runs, NEW error \in Errors, NEW fenced \in BOOLEAN, NEW lost \in BOOLEAN,
         Serving, QueuedError(r, error, fenced, lost), UNCHANGED <<seen, pump, sends, made>>,
         content' \in [Runs -> BOOLEAN]
  PROVE  RunTypes' /\ Apart(r) /\ Good1(r, TRUE, FALSE) /\ Kept(run[r], run'[r])
  <1> DEFINE x == run[r]
             next == AfterError(error, x.attempt)
             ready == /\ x.status \notin Terminal /\ ~x.send
                      /\ IF fenced THEN TRUE ELSE ~x.owner \/ x.lease # "live"
             waits == ready /\ next = "retry_wait" /\ x.status \in {"claimed", "submitting", "retry_wait"}
             ends == ready /\ next # "retry_wait"
             q == IF queue[r] \in {"none", "submitted", "cancelled", "failed", "content_unavailable"} THEN queue[r]
                  ELSE IF lost THEN "content_unavailable" ELSE "failed"
             s == IF sub[r] = "local_queued" THEN "rejected" ELSE sub[r]
  <1>0. next \in (Terminal \ {"cancelled"}) \cup {"retry_wait"}
    BY AfterErrorIs
  <1>1. \/ waits /\ run' = [run EXCEPT ![r] = Waiting(x)] /\ UNCHANGED <<queue, sub>>
        \/ /\ ends /\ run' = [run EXCEPT ![r] = Finalized(x, next)]
           /\ queue' = [queue EXCEPT ![r] = q] /\ sub' = [sub EXCEPT ![r] = s]
        \/ UNCHANGED <<run, queue, sub>>
    <2>1. CASE waits
      BY <2>1 DEF QueuedError
    <2>2. CASE ends
      <3>1. ~waits
        BY <2>2
      <3> QED BY <2>2, <3>1 DEF QueuedError
    <2>3. CASE ~waits /\ ~ends
      BY <2>3 DEF QueuedError
    <2> QED BY <2>1, <2>2, <2>3
  <1>2. x.status \notin Terminal \/ ~(waits \/ ends)
    OBVIOUS
  <1> HIDE DEF waits, ends, ready, next
  <1>3. x \in Row /\ q \in QueueState /\ s \in SubState
    BY Same DEF QueueState, SubState, Settled
  <1>4. CASE UNCHANGED <<run, queue, sub>>
    <2>1. Good1(r, TRUE, FALSE) /\ Kept(run[r], run'[r])
      BY <1>4, Same DEF RunOK, Good, Good1, Kept
    <2> QED BY <1>4, <2>1 DEF RunsInv, RunTypes, Apart
  <1>5. CASE waits /\ run' = [run EXCEPT ![r] = Waiting(x)] /\ UNCHANGED <<queue, sub>>
    <2> DEFINE y == Waiting(x)
    <2>1. y \in Row /\ y.status = "retry_wait" /\ y.told = x.told /\ y.intent = x.intent /\ ~y.owner
      BY <1>3, Waits
    <2>2. RunOK(y, queue[r], sub[r], pump[r], sends[r], TRUE, FALSE) /\ Kept(x, y)
      BY <1>2, <1>5, <2>1, Same DEF RunOK, Good, Kept, Final, Terminal, Unknown
    <2>3. run' = [run EXCEPT ![r] = y]
      BY <1>5
    <2> HIDE DEF y
    <2>4. RunTypes' /\ Apart(r) /\ run'[r] = y
      BY <1>5, <2>1, <2>3 DEF RunsInv, RunTypes, Apart
    <2> QED BY <1>5, <2>2, <2>4 DEF Good1
  <1>6. CASE /\ ends /\ run' = [run EXCEPT ![r] = Finalized(x, next)]
             /\ queue' = [queue EXCEPT ![r] = q] /\ sub' = [sub EXCEPT ![r] = s]
    <2> DEFINE y == Finalized(x, next)
    <2>1. next \in Terminal \ {"cancelled"}
      BY <1>0, <1>6 DEF ends
    <2>2. y \in Row /\ Closes(x, y)
      BY <1>3, <2>1, Closed
    <2>3. RunOK(y, q, s, pump[r], sends[r], TRUE, FALSE) /\ Kept(x, y)
      BY <1>2, <1>6, <2>2, Same DEF RunOK, Good, Kept, Final, Closes, Terminal, Unknown
    <2>4. run' = [run EXCEPT ![r] = y]
      BY <1>6
    <2> HIDE DEF y, q, s
    <2>5. RunTypes' /\ Apart(r) /\ run'[r] = y /\ queue'[r] = q /\ sub'[r] = s
      BY <1>3, <1>6, <2>2, <2>4 DEF RunsInv, RunTypes, Apart
    <2> QED BY <1>6, <2>3, <2>5 DEF Good1
  <1> QED BY <1>1, <1>4, <1>5, <1>6

LEMMA NothingSettled ==
  ASSUME RunsInv, NEW r \in Runs, Serving, UNCHANGED <<run, queue, sub, seen, pump, sends, made>>,
         content' \in [Runs -> BOOLEAN]
  PROVE  RunTypes' /\ Apart(r) /\ Good1(r, TRUE, FALSE) /\ Kept(run[r], run'[r])
  <1>1. Good1(r, TRUE, FALSE) /\ Kept(run[r], run'[r])
    BY Same DEF RunOK, Good, Good1, Kept
  <1> QED BY <1>1 DEF RunsInv, RunTypes, Apart

LEMMA StepSource_failed ==
  ASSUME RunsInv, source_failed
  PROVE  RunsInv' /\ Lasting
  <1>1. PICK r \in Runs : r = worker.run
    BY WorkerHas DEF source_failed, Dispatching
  <1>2. Serving /\ Return /\ UNCHANGED <<seen, content, made, pump, sched, admin, intent, sends, deaths>>
    BY DEF source_failed, Serving
  <1>3. content' \in [Runs -> BOOLEAN]
    BY <1>2 DEF RunsInv, RunTypes
  <1>4. PICK error \in Errors : \/ QueuedError(r, error, TRUE, TRUE) \/ UNCHANGED <<run, queue, sub>>
    BY <1>1 DEF source_failed, Errors
  <1>5. RunTypes' /\ Apart(r) /\ Good1(r, TRUE, FALSE) /\ Kept(run[r], run'[r])
    <2>1. CASE QueuedError(r, error, TRUE, TRUE)
      <3>1. TRUE \in BOOLEAN
        OBVIOUS
      <3> QED BY <1>2, <1>3, <2>1, <3>1, QueuedErrorKeeps
    <2>2. CASE UNCHANGED <<run, queue, sub>>
      BY <1>2, <1>3, <2>2, NothingSettled
    <2> QED BY <1>4, <2>1, <2>2
  <1> QED BY <1>2, <1>5, EndOfTick

LEMMA StepRedrive_done ==
  ASSUME RunsInv, redrive_done
  PROVE  RunsInv' /\ Lasting
  <1>1. PICK r \in Runs : r = worker.run
    BY DEF redrive_done, RunsInv, WorkerTypes
  <1>2. Serving /\ Return /\ UNCHANGED <<seen, made, pump, sched, admin, intent, sends, deaths>>
    BY DEF redrive_done, Serving
  <1>3. \/ /\ content' = [content EXCEPT ![r] = @ \/ (run[r].backed /\ Queued(r))]
           /\ UNCHANGED <<run, queue, sub>>
        \/ \E error \in Errors, lost \in BOOLEAN : QueuedError(r, error, FALSE, lost) /\ UNCHANGED content
    <2>1. run[r].backed \in BOOLEAN
      BY Same DEF Row
    <2> QED BY <1>1, <2>1 DEF redrive_done
  <1>4. RunTypes' /\ Apart(r) /\ Good1(r, TRUE, FALSE) /\ Kept(run[r], run'[r])
    <2>1. CASE /\ content' = [content EXCEPT ![r] = @ \/ (run[r].backed /\ Queued(r))]
               /\ UNCHANGED <<run, queue, sub>>
      <3> DEFINE b == content[r] \/ (run[r].backed /\ Queued(r))
      <3>1. b \in BOOLEAN
        OBVIOUS
      <3>2. content' = [content EXCEPT ![r] = b]
        BY <2>1
      <3> HIDE DEF b
      <3>3. content' \in [Runs -> BOOLEAN]
        BY <3>1, <3>2 DEF RunsInv, RunTypes
      <3> QED BY <1>2, <2>1, <3>3, NothingSettled
    <2>2. CASE \E error \in Errors, lost \in BOOLEAN : QueuedError(r, error, FALSE, lost) /\ UNCHANGED content
      <3>1. PICK error \in Errors, lost \in BOOLEAN : QueuedError(r, error, FALSE, lost) /\ UNCHANGED content
        BY <2>2
      <3>2. FALSE \in BOOLEAN /\ content' \in [Runs -> BOOLEAN]
        BY <3>1 DEF RunsInv, RunTypes
      <3> QED BY <1>2, <3>1, <3>2, QueuedErrorKeeps
    <2> QED BY <1>3, <2>1, <2>2
  <1> QED BY <1>2, <1>4, EndOfTick

\* The row the worker puts into the queue, or takes over.
LEMMA Enqueued ==
  ASSUME NEW x \in Row
  PROVE  /\ LET y == [Free(x) EXCEPT !.status = "submitting", !.queued = TRUE] IN
            y \in Row /\ ~y.owner /\ y.status = "submitting" /\ y.told = x.told /\ y.intent = x.intent
         /\ LET y == [Free(x) EXCEPT !.status = "submitting", !.queued = TRUE, !.thread = TRUE] IN
            y \in Row /\ ~y.owner /\ y.status = "submitting" /\ y.told = x.told /\ y.intent = x.intent
  <1>1. PICK f \in Row : f = Free(x) /\ ~f.owner /\ f.told = x.told /\ f.intent = x.intent
    BY FreeRow
  <1>2. "submitting" \in Status
    BY Names
  <1> DEFINE y == [f EXCEPT !.status = "submitting", !.queued = TRUE]
             z == [f EXCEPT !.status = "submitting", !.queued = TRUE, !.thread = TRUE]
  <1>3. y \in Row /\ z \in Row
    BY <1>2 DEF Row
  <1>4. /\ y.owner = f.owner /\ y.status = "submitting" /\ y.told = f.told /\ y.intent = f.intent
        /\ z.owner = f.owner /\ z.status = "submitting" /\ z.told = f.told /\ z.intent = f.intent
    BY DEF Row
  <1> QED BY <1>1, <1>3, <1>4

LEMMA StepEnqueue ==
  ASSUME RunsInv, enqueue
  PROVE  RunsInv' /\ Lasting
  <1>1. PICK r \in Runs : r = worker.run /\ Busy(worker, r)
    BY WorkerHas DEF enqueue, Dispatching
  <1>2. Serving /\ Return /\ UNCHANGED <<seen, made, pump, sched, admin, intent, sends, deaths>>
    BY DEF enqueue, Serving
  <1> DEFINE x == run[r]
             y1 == [Free(x) EXCEPT !.status = "submitting", !.queued = TRUE]
             y2 == [Free(x) EXCEPT !.status = "submitting", !.queued = TRUE, !.thread = TRUE]
  <1>3. /\ content' = [content EXCEPT ![r] = TRUE]
        /\ \/ /\ queue[r] \notin {"none", "cancelled", "submitted", "failed"}
              /\ run' = [run EXCEPT ![r] = y1] /\ UNCHANGED <<queue, sub>>
           \/ /\ Mine(r) /\ x.status \in {"claimed", "submitting"} /\ sub[r] = "none"
              /\ run' = [run EXCEPT ![r] = y2]
              /\ queue' = [queue EXCEPT ![r] = "local_queued"] /\ sub' = [sub EXCEPT ![r] = "local_queued"]
    BY <1>1 DEF enqueue, Duplicate
  <1>4. PICK y \in Row : /\ y = y1 \/ y = y2
                         /\ run' = [run EXCEPT ![r] = y]
                         /\ ~y.owner /\ y.status = "submitting" /\ y.told = x.told /\ y.intent = x.intent
    BY <1>3, Enqueued, Same
  <1>5. content' \in [Runs -> BOOLEAN]
    BY <1>3 DEF RunsInv, RunTypes
  <1> HIDE DEF y1, y2
  <1>6. CASE queue[r] \notin {"none", "cancelled", "submitted", "failed"} /\ UNCHANGED <<queue, sub>>
    <2>1. RunOK(y, queue[r], sub[r], pump[r], sends[r], TRUE, FALSE) /\ Kept(x, y)
      BY <1>1, <1>2, <1>4, <1>6, Same DEF RunOK, Good, Kept, Final, Terminal, Unknown
    <2>2. RunTypes' /\ Apart(r) /\ run'[r] = y
      BY <1>2, <1>4, <1>5, <1>6 DEF RunsInv, RunTypes, Apart
    <2>3. Good1(r, TRUE, FALSE) /\ Kept(run[r], run'[r])
      BY <1>2, <1>6, <2>1, <2>2 DEF Good1
    <2> QED BY <1>2, <2>2, <2>3, EndOfTick
  <1>7. CASE /\ x.status \in {"claimed", "submitting"} /\ sub[r] = "none"
             /\ queue' = [queue EXCEPT ![r] = "local_queued"] /\ sub' = [sub EXCEPT ![r] = "local_queued"]
    <2>1. RunOK(y, "local_queued", "local_queued", pump[r], sends[r], TRUE, FALSE) /\ Kept(x, y)
      BY <1>2, <1>4, <1>7, Same DEF RunOK, Good, Kept, Final, Terminal, Unknown
    <2>2. RunTypes' /\ Apart(r) /\ run'[r] = y /\ queue'[r] = "local_queued" /\ sub'[r] = "local_queued"
      BY <1>2, <1>4, <1>5, <1>7 DEF RunsInv, RunTypes, Apart, QueueState, SubState
    <2>3. Good1(r, TRUE, FALSE) /\ Kept(run[r], run'[r])
      BY <1>2, <2>1, <2>2 DEF Good1
    <2> QED BY <1>2, <2>2, <2>3, EndOfTick
  <1> QED BY <1>3, <1>6, <1>7

LEMMA Claims1 ==
  ASSUME NEW x \in Row, NEW a \in 0..MaxAttempts, NEW f \in 0..MaxFence
  PROVE  LET y == [x EXCEPT !.status = "claimed", !.owner = TRUE, !.lease = "live", !.fence = f,
                            !.attempt = a, !.due = FALSE] IN
         y \in Row /\ y.status = "claimed" /\ y.told = x.told /\ y.intent = x.intent
  <1>1. "claimed" \in Status
    BY Names
  <1> DEFINE y == [x EXCEPT !.status = "claimed", !.owner = TRUE, !.lease = "live", !.fence = f,
                            !.attempt = a, !.due = FALSE]
  <1>2. y \in Row
    BY <1>1 DEF Row
  <1>3. y.status = "claimed" /\ y.told = x.told /\ y.intent = x.intent
    BY DEF Row
  <1> QED BY <1>2, <1>3

LEMMA StepClaim_next ==
  ASSUME RunsInv, NEW r \in Runs, claim_next(r)
  PROVE  RunsInv' /\ Lasting
  <1> DEFINE x == run[r]
  <1>1. /\ Serving /\ Claimable(r) /\ worker.at = "idle" /\ x.fence < MaxFence /\ x \in Row
        /\ UNCHANGED <<queue, sub, seen, content, made, pump, sched, admin, intent, sends, deaths>>
    BY Same DEF claim_next, Serving
  <1>2. x.status \in {"pending", "retry_wait", "claimed", "submitting"}
    BY <1>1 DEF Claimable
  <1>3. PICK a \in Nat : a = IF x.status = "claimed" THEN x.attempt ELSE x.attempt + 1
    BY <1>1, ScheduleAssumption DEF Row
  <1>4. PICK f \in 0..MaxFence : f = x.fence + 1
    BY <1>1, ScheduleAssumption DEF Row
  <1>5. CASE a > MaxAttempts
    <2> DEFINE y == Finalized(x, "failed")
    <2>1. run' = [run EXCEPT ![r] = y] /\ worker' = worker
      BY <1>3, <1>5 DEF claim_next
    <2>2. y \in Row /\ Closes(x, y)
      BY <1>1, Closed, Names
    <2> HIDE DEF y
    <2>3. RunOK(y, queue[r], sub[r], pump[r], sends[r], Serving, Busy(worker, r)) /\ Kept(x, y)
      BY <1>1, <1>2, <2>2, Same DEF RunOK, Good, Kept, Final, Closes, Terminal, Unknown, Busy, Dispatching
    <2>4. RunTypes' /\ Apart(r) /\ run'[r] = y
      BY <1>1, <2>1, <2>2 DEF RunsInv, RunTypes, Apart
    <2>5. Good1(r, Serving, Busy(worker, r)) /\ Kept(run[r], run'[r])
      BY <1>1, <2>3, <2>4 DEF Good1
    <2> QED BY <1>1, <2>1, <2>4, <2>5, RowStep
  <1>6. CASE ~(a > MaxAttempts)
    <2>0. a \in 0..MaxAttempts
      BY <1>6, ScheduleAssumption
    <2> DEFINE y == [x EXCEPT !.status = "claimed", !.owner = TRUE, !.lease = "live", !.fence = f,
                              !.attempt = a, !.due = FALSE]
    <2>1. run' = [run EXCEPT ![r] = y] /\ worker' = [at |-> "claimed", run |-> r, fence |-> f, attempt |-> a]
      BY <1>3, <1>4, <1>6 DEF claim_next
    <2>2. y \in Row /\ y.status = "claimed" /\ y.told = x.told /\ y.intent = x.intent
      BY <1>1, <2>0, Claims1
    <2> HIDE DEF y
    <2>3. RunOK(y, queue[r], sub[r], pump[r], sends[r], TRUE, TRUE) /\ Kept(x, y)
      BY <1>1, <1>2, <2>2, Same DEF RunOK, Good, Kept, Final, Terminal, Unknown
    <2>4. RunTypes' /\ Apart(r) /\ run'[r] = y
      BY <1>1, <2>1, <2>2 DEF RunsInv, RunTypes, Apart
    <2>5. Good1(r, TRUE, TRUE) /\ Kept(run[r], run'[r])
      BY <1>1, <2>3, <2>4 DEF Good1
    <2>6. worker' \in Claims /\ worker'.run = r
      BY <2>0, <2>1 DEF Claims, Dispatching
    <2> QED BY <1>1, <2>4, <2>5, <2>6, InHand
  <1> QED BY <1>5, <1>6

LEMMA Started ==
  ASSUME NEW x \in Row, NEW b \in BOOLEAN
  PROVE  LET y == [x EXCEPT !.status = "submitting", !.target = TRUE, !.create = b] IN
         y \in Row /\ Alike(x, y) /\ y.status = "submitting"
  <1> DEFINE y == [x EXCEPT !.status = "submitting", !.target = TRUE, !.create = b]
  <1>1. "submitting" \in Status
    BY Names
  <1>2. y \in Row
    BY <1>1 DEF Row
  <1>3. y.owner = x.owner /\ y.told = x.told /\ y.intent = x.intent /\ y.status = "submitting"
    BY DEF Row
  <1> QED BY <1>2, <1>3 DEF Alike

LEMMA StepMark_target_started ==
  ASSUME RunsInv, mark_target_started
  PROVE  RunsInv' /\ Lasting
  <1>1. PICK r \in Runs : r = worker.run /\ worker \in Claims
    BY WorkerHas DEF mark_target_started, Dispatching
  <1>2. Serving /\ UNCHANGED <<queue, sub, seen, content, made, pump, sched, admin, intent, sends, deaths>>
    BY DEF mark_target_started, Serving
  <1>3. CASE Mine(r) /\ run[r].status = "claimed"
    <2> DEFINE x == run[r]
               b == x.create \/ IsNew(r)
               y == [x EXCEPT !.status = "submitting", !.target = TRUE, !.create = b]
    <2>1. b \in BOOLEAN /\ x \in Row
      BY Same
    <2>2. run' = [run EXCEPT ![r] = y] /\ worker' = [worker EXCEPT !.at = "target"]
      BY <1>1, <1>3 DEF mark_target_started, RunsInv, RunTypes
    <2> HIDE DEF b
    <2>3. y \in Row /\ Alike(x, y) /\ y.status = "submitting"
      BY <2>1, Started
    <2> HIDE DEF y
    <2>4. RunOK(y, queue[r], sub[r], pump[r], sends[r], TRUE, TRUE) /\ Kept(x, y)
      BY <1>2, <1>3, <2>3, Same DEF RunOK, Good, Kept, Final, Alike, Terminal, Unknown
    <2>5. RunTypes' /\ Apart(r) /\ run'[r] = y
      BY <1>2, <2>2, <2>3 DEF RunsInv, RunTypes, Apart
    <2>6. Good1(r, TRUE, TRUE) /\ Kept(run[r], run'[r])
      BY <1>2, <2>4, <2>5 DEF Good1
    <2>7. worker' \in Claims /\ worker'.run = r
      BY <1>1, <2>2 DEF Claims, Dispatching
    <2> QED BY <1>2, <2>5, <2>6, <2>7, InHand
  <1>4. CASE ~(Mine(r) /\ run[r].status = "claimed")
    <2>1. Return /\ UNCHANGED run
      BY <1>1, <1>4 DEF mark_target_started
    <2>2. content' \in [Runs -> BOOLEAN]
      BY <1>2 DEF RunsInv, RunTypes
    <2>3. RunTypes' /\ Apart(r) /\ Good1(r, TRUE, FALSE) /\ Kept(run[r], run'[r])
      BY <1>2, <2>1, <2>2, NothingSettled
    <2> QED BY <1>2, <2>1, <2>3, EndOfTick
  <1> QED BY <1>3, <1>4

LEMMA Recorded ==
  ASSUME NEW x \in Row, NEW h \in {"no", "held", "released"}
  PROVE  LET y == [x EXCEPT !.thread = TRUE, !.temp = h] IN y \in Row /\ Alike(x, y) /\ y.status = x.status
  <1> DEFINE y == [x EXCEPT !.thread = TRUE, !.temp = h]
  <1>1. y \in Row
    BY DEF Row
  <1>2. y.owner = x.owner /\ y.told = x.told /\ y.intent = x.intent /\ y.status = x.status
    BY DEF Row
  <1> QED BY <1>1, <1>2 DEF Alike

LEMMA StepRecord_target ==
  ASSUME RunsInv, record_target
  PROVE  RunsInv' /\ Lasting
  <1>1. PICK r \in Runs : r = worker.run /\ worker \in Claims /\ Busy(worker, r)
    BY WorkerHas DEF record_target, Dispatching
  <1>2. /\ Serving /\ run[r].status \in {"claimed", "submitting"} /\ worker' = [worker EXCEPT !.at = "recorded"]
        /\ UNCHANGED <<queue, sub, seen, content, made, pump, sched, admin, intent, sends, deaths>>
    BY <1>1 DEF record_target, Serving
  <1> DEFINE x == run[r]
             h == IF x.kind = "closed" /\ x.temp = "no" THEN "held" ELSE x.temp
             y == [x EXCEPT !.thread = TRUE, !.temp = h]
  <1>3. x \in Row /\ h \in {"no", "held", "released"}
    BY Same DEF Row
  <1>4. run' = [run EXCEPT ![r] = y]
    BY <1>1 DEF record_target, RunsInv, RunTypes
  <1> HIDE DEF h
  <1>5. y \in Row /\ Alike(x, y) /\ y.status = x.status
    BY <1>3, Recorded
  <1> HIDE DEF y
  <1>6. RunOK(y, queue[r], sub[r], pump[r], sends[r], TRUE, TRUE) /\ Kept(x, y)
    BY <1>1, <1>2, <1>5, Same DEF RunOK, Good, Kept, Final, Alike, Terminal, Unknown
  <1>7. RunTypes' /\ Apart(r) /\ run'[r] = y
    BY <1>2, <1>4, <1>5 DEF RunsInv, RunTypes, Apart
  <1>8. Good1(r, TRUE, TRUE) /\ Kept(run[r], run'[r])
    BY <1>2, <1>6, <1>7 DEF Good1
  <1>9. worker' \in Claims /\ worker'.run = r
    BY <1>1, <1>2 DEF Claims, Dispatching
  <1> QED BY <1>2, <1>7, <1>8, <1>9, InHand

LEMMA StepRedrive ==
  ASSUME RunsInv, NEW r \in Runs, redrive(r)
  PROVE  RunsInv' /\ Lasting
  <1> DEFINE x == run[r]
             stale == x.status \in {"claimed", "submitting"} /\ x.owner /\ x.lease # "live"
             y == IF stale THEN [Free(x) EXCEPT !.status = "submitting"] ELSE x
  <1>1. /\ worker.at = "idle" /\ Serving /\ run' = [run EXCEPT ![r] = y] /\ x \in Row
        /\ worker' = [at |-> "redrive", run |-> r]
        /\ UNCHANGED <<queue, sub, seen, content, made, pump, sched, admin, intent, sends, deaths>>
    BY Same DEF redrive, Serving
  <1>2. /\ y \in Row /\ y.told = x.told /\ y.intent = x.intent
        /\ \/ y.status = x.status /\ y.owner = x.owner
           \/ y.status = "submitting" /\ ~y.owner /\ x.status \in {"claimed", "submitting"}
    <2>1. CASE stale
      <3>1. PICK f \in Row : f = Free(x) /\ ~f.owner /\ f.told = x.told /\ f.intent = x.intent
        BY <1>1, FreeRow
      <3> DEFINE z == [f EXCEPT !.status = "submitting"]
      <3>2. y = z
        BY <2>1, <3>1
      <3>3. z \in Row /\ Alike(f, z) /\ z.status = "submitting"
        BY Names, SetStatus
      <3> HIDE DEF z
      <3> QED BY <2>1, <3>1, <3>2, <3>3 DEF Alike
    <2>2. CASE ~stale
      BY <1>1, <2>2
    <2> QED BY <2>1, <2>2
  <1> HIDE DEF y, stale
  <1>3. RunOK(y, queue[r], sub[r], pump[r], sends[r], TRUE, FALSE) /\ Kept(x, y)
    BY <1>1, <1>2, Same DEF RunOK, Good, Kept, Final, Terminal, Unknown
  <1>4. RunTypes' /\ Apart(r) /\ run'[r] = y
    BY <1>1, <1>2 DEF RunsInv, RunTypes, Apart
  <1>5. Serving' /\ \A t \in Runs : ~Busy(worker', t)
    BY <1>1 DEF Serving, Busy, Dispatching
  <1>6. Good1(r, Serving', Busy(worker', r)) /\ Kept(run[r], run'[r])
    BY <1>1, <1>3, <1>4, <1>5 DEF Good1, RunOK
  <1>7. /\ Serving' => Serving
        /\ \A t \in Runs \ {r} : Busy(worker', t) => Busy(worker, t)
    BY <1>1, <1>5
  <1>8. RunInv' /\ Lasting
    BY <1>4, <1>6, <1>7, OneRun
  <1>9. WorkerTypes' /\ AdminTypes'
    BY <1>1 DEF RunsInv, WorkerTypes, AdminTypes, Dispatching
  <1> QED BY <1>4, <1>8, <1>9 DEF RunsInv

-----------------------------------------------------------------------------
(* Crashes and startup.                                                    *)

\* A step that may change every run.
LEMMA AllRuns ==
  ASSUME RunTypes', WorkerTypes', AdminTypes',
         \A t \in Runs : Good1(t, Serving', Busy(worker', t)) /\ Kept(run[t], run'[t])
  PROVE  RunsInv' /\ Lasting
  BY DEF RunsInv, RunInv, Lasting, Good1

LEMMA StepDies ==
  ASSUME RunsInv, Dies
  PROVE  RunsInv' /\ Lasting
  <1>1. /\ UNCHANGED <<run, queue, sub, seen, made, sched, intent, sends>> /\ worker' = Down
        /\ pump' = [r \in Runs |-> "idle"] /\ content' = [r \in Runs |-> FALSE] /\ admin' = [at |-> "idle"]
        /\ deaths < MaxCrashes /\ deaths' = deaths + 1
    BY DEF Dies, rows
  <1>2. RunTypes' /\ WorkerTypes' /\ AdminTypes'
    BY <1>1, ScheduleAssumption DEF RunsInv, RunTypes, WorkerTypes, AdminTypes, Down, Dispatching
  <1>3. ~Serving' /\ \A t \in Runs : ~Busy(worker', t)
    BY <1>1 DEF Serving, Down, Busy, Dispatching
  <1>4. ASSUME NEW t \in Runs PROVE Good1(t, Serving', Busy(worker', t)) /\ Kept(run[t], run'[t])
    <2>1. RunOK(run[t], queue[t], sub[t], "idle", sends[t], FALSE, FALSE)
      BY Same DEF Good, RunOK
    <2> QED BY <1>1, <1>3, <2>1 DEF Good1, Kept, RunOK
  <1> QED BY <1>2, <1>4, AllRuns

\* A run becomes retryable, or its end unknown, or it stays as it is.
Reopens(x, y) ==
  /\ y.told = x.told /\ y.intent = x.intent
  /\ \/ y.status = x.status /\ y.owner = x.owner
     \/ y.status = x.status /\ ~y.owner
     \/ x.status \notin Final /\ ~y.owner /\ y.status \in {"retry_wait", "submitting", "dispatch_unknown", "outcome_unknown"}
     \/ x.status \notin Final /\ y.owner = x.owner /\ y.status \in {"dispatch_unknown", "outcome_unknown"}

LEMMA Retried ==
  ASSUME NEW x \in Row, NEW d \in BOOLEAN
  PROVE  LET y == [Free(x) EXCEPT !.status = "retry_wait", !.due = d] IN
         y \in Row /\ ~y.owner /\ y.status = "retry_wait" /\ y.told = x.told /\ y.intent = x.intent
  <1>1. PICK f \in Row : f = Free(x) /\ ~f.owner /\ f.told = x.told /\ f.intent = x.intent
    BY FreeRow
  <1> DEFINE y == [f EXCEPT !.status = "retry_wait", !.due = d]
  <1>2. y \in Row
    BY Names DEF Row
  <1>3. y.owner = f.owner /\ y.status = "retry_wait" /\ y.told = f.told /\ y.intent = f.intent
    BY DEF Row
  <1> QED BY <1>1, <1>2, <1>3

LEMMA Freed ==
  ASSUME NEW x \in Row, NEW st \in Status
  PROVE  LET y == [Free(x) EXCEPT !.status = st] IN
         y \in Row /\ ~y.owner /\ y.status = st /\ y.told = x.told /\ y.intent = x.intent
  <1>1. PICK f \in Row : f = Free(x) /\ ~f.owner /\ f.told = x.told /\ f.intent = x.intent
    BY FreeRow
  <1> DEFINE y == [f EXCEPT !.status = st]
  <1>2. y \in Row
    BY DEF Row
  <1>3. y.owner = f.owner /\ y.status = st /\ y.told = f.told /\ y.intent = f.intent
    BY DEF Row
  <1> QED BY <1>1, <1>2, <1>3


\* What the inventory makes of a run, of its submission and of its row in the queue.
LEMMA InventoriedRun ==
  ASSUME RunsInv, NEW r \in Runs, NEW L, NEW U
  PROVE  LET i == Inventoried(r, r \in L, r \in U).run IN i \in Row /\ Reopens(run[r], i)
  <1> DEFINE x == run[r]
             y == Inventoried(r, r \in L, r \in U).run
             open == x.status \in {"claimed", "submitting"} /\ x.lease # "live"
             c1 == open /\ x.create /\ ~x.send /\ ~x.thread /\ queue[r] = "none" /\ ~made[r]
             c2 == open /\ x.status = "submitting" /\ x.send /\ ~x.accepted /\ seen[r] = {}
             c3 == open /\ ~x.send /\ ~x.create
             state == IF r \in L THEN "rejected" ELSE sub[r]
             after == IF r \notin U THEN state
                      ELSE IF state \in {"submitting", "submitted"} THEN "submitted_unknown"
                      ELSE IF state \in {"submitted_unknown", "observed_active"} THEN "outcome_unknown"
                      ELSE state
             c4 == x.status \in {"accepted", "waiting"} /\ after \in {"submitted_unknown", "outcome_unknown"}
  <1>1. y = CASE c1 -> [Free(x) EXCEPT !.status = "retry_wait", !.due = TRUE]
              [] c2 -> [x EXCEPT !.status = "dispatch_unknown"]
              [] c3 -> [Free(x) EXCEPT !.status = "retry_wait"]
              [] c4 -> [x EXCEPT !.status = "outcome_unknown"]
              [] OTHER -> x
    BY DEF Inventoried
  <1>2. (c1 \/ c2 \/ c3 => x.status \in {"claimed", "submitting"}) /\ (c4 => x.status \in {"accepted", "waiting"})
    OBVIOUS
  <1>3. (c1 => ~c2 /\ ~c3 /\ ~c4) /\ (c2 => ~c3 /\ ~c4) /\ (c3 => ~c4)
    OBVIOUS
  <1>4. x \in Row /\ {"retry_wait", "dispatch_unknown", "outcome_unknown"} \subseteq Status
    BY Same, Names
  <1> HIDE DEF y, c1, c2, c3, c4
  <1>5. CASE c1
    <2> DEFINE z == [Free(x) EXCEPT !.status = "retry_wait", !.due = TRUE]
    <2>1. y = z
      BY <1>1, <1>3, <1>5
    <2>2. z \in Row /\ ~z.owner /\ z.status = "retry_wait" /\ z.told = x.told /\ z.intent = x.intent
      BY <1>4, Retried
    <2> HIDE DEF z
    <2> QED BY <1>2, <1>5, <2>1, <2>2 DEF Reopens, Final, y
  <1>6. CASE c2
    <2> DEFINE z == [x EXCEPT !.status = "dispatch_unknown"]
    <2>1. y = z
      BY <1>1, <1>3, <1>6
    <2>2. z \in Row /\ Alike(x, z) /\ z.status = "dispatch_unknown"
      BY <1>4, SetStatus
    <2> HIDE DEF z
    <2> QED BY <1>2, <1>6, <2>1, <2>2 DEF Reopens, Final, Alike, y
  <1>7. CASE c3
    <2> DEFINE z == [Free(x) EXCEPT !.status = "retry_wait"]
    <2>1. y = z
      BY <1>1, <1>3, <1>7
    <2>2. z \in Row /\ ~z.owner /\ z.status = "retry_wait" /\ z.told = x.told /\ z.intent = x.intent
      BY <1>4, Freed
    <2> HIDE DEF z
    <2> QED BY <1>2, <1>7, <2>1, <2>2 DEF Reopens, Final, y
  <1>8. CASE c4
    <2> DEFINE z == [x EXCEPT !.status = "outcome_unknown"]
    <2>1. y = z
      BY <1>1, <1>3, <1>8
    <2>2. z \in Row /\ Alike(x, z) /\ z.status = "outcome_unknown"
      BY <1>4, SetStatus
    <2> HIDE DEF z
    <2> QED BY <1>2, <1>8, <2>1, <2>2 DEF Reopens, Final, Alike, y
  <1>9. CASE ~c1 /\ ~c2 /\ ~c3 /\ ~c4
    <2>1. y = x
      BY <1>1, <1>9
    <2> QED BY <1>4, <2>1 DEF Reopens, y
  <1> QED BY <1>5, <1>6, <1>7, <1>8, <1>9

LEMMA InventoriedRows ==
  ASSUME RunsInv, NEW r \in Runs, NEW L, NEW U,
         r \in L => queue[r] = "local_queued", r \in U => sub[r] \in Open
  PROVE  LET i == Inventoried(r, r \in L, r \in U) IN
         /\ i.sub \in SubState /\ i.queue \in QueueState
         /\ \/ i.sub = sub[r]
            \/ i.sub \notin {"none", "local_queued"} /\ (queue[r] = "local_queued" \/ sub[r] \in Open)
         /\ i.queue = queue[r] \/ queue[r] = "local_queued"
  <1> DEFINE state == IF r \in L THEN "rejected" ELSE sub[r]
             after == IF r \notin U THEN state
                      ELSE IF state \in {"submitting", "submitted"} THEN "submitted_unknown"
                      ELSE IF state \in {"submitted_unknown", "observed_active"} THEN "outcome_unknown"
                      ELSE state
             kept == IF r \in L THEN "content_unavailable" ELSE queue[r]
             i == Inventoried(r, r \in L, r \in U)
  <1>1. i.sub = after /\ i.queue = kept
    BY DEF Inventoried
  <1>2. /\ after \in SubState /\ kept \in QueueState
        /\ \/ after = sub[r]
           \/ after \notin {"none", "local_queued"} /\ (queue[r] = "local_queued" \/ sub[r] \in Open)
        /\ kept = queue[r] \/ queue[r] = "local_queued"
    BY Same DEF SubState, QueueState, Open, Settled
  <1> HIDE DEF after, kept
  <1> QED BY <1>1, <1>2

LEMMA StepInventory ==
  ASSUME RunsInv, inventory
  PROVE  RunsInv' /\ Lasting
  <1>1. PICK U \in SUBSET {r \in Runs : sub[r] \in Open}, L \in SUBSET {r \in Runs : queue[r] = "local_queued"} :
          /\ run' = [r \in Runs |-> Inventoried(r, r \in L, r \in U).run]
          /\ sub' = [r \in Runs |-> Inventoried(r, r \in L, r \in U).sub]
          /\ queue' = [r \in Runs |-> Inventoried(r, r \in L, r \in U).queue]
    <2>1. PICK U \in SUBSET {r \in Runs : sub[r] \in Open} :
            LET lost == {r \in Runs : /\ queue[r] = "local_queued" /\ ~content[r]
                                      /\ ~(run[r].backed /\ Queued(r) /\ ~run[r].accepted
                                           /\ run[r].status \in {"claimed", "submitting", "retry_wait"})}
                new == [r \in Runs |-> Inventoried(r, r \in lost, r \in U)]
            IN /\ run' = [r \in Runs |-> new[r].run] /\ sub' = [r \in Runs |-> new[r].sub]
               /\ queue' = [r \in Runs |-> new[r].queue]
      BY DEF inventory
    <2>2. PICK L \in SUBSET {r \in Runs : queue[r] = "local_queued"} :
            L = {r \in Runs : /\ queue[r] = "local_queued" /\ ~content[r]
                              /\ ~(run[r].backed /\ Queued(r) /\ ~run[r].accepted
                                   /\ run[r].status \in {"claimed", "submitting", "retry_wait"})}
      OBVIOUS
    <2> DEFINE new == [r \in Runs |-> Inventoried(r, r \in L, r \in U)]
    <2>3. /\ run' = [r \in Runs |-> new[r].run] /\ sub' = [r \in Runs |-> new[r].sub]
          /\ queue' = [r \in Runs |-> new[r].queue]
      BY <2>1, <2>2
    <2>4. \A r \in Runs : new[r] = Inventoried(r, r \in L, r \in U)
      OBVIOUS
    <2> HIDE DEF new
    <2> QED BY <2>3, <2>4
  <1>2. /\ worker.at = "down" /\ worker' = [at |-> "inventoried"]
        /\ UNCHANGED <<seen, content, made, pump, sched, admin, intent, sends, deaths>>
    BY DEF inventory
  <1>3. ASSUME NEW r \in Runs
        PROVE  /\ run'[r] \in Row /\ Reopens(run[r], run'[r]) /\ sub'[r] \in SubState /\ queue'[r] \in QueueState
               /\ \/ sub'[r] = sub[r]
                  \/ sub'[r] \notin {"none", "local_queued"} /\ (queue[r] = "local_queued" \/ sub[r] \in Open)
               /\ queue'[r] = queue[r] \/ queue[r] = "local_queued"
    <2>1. r \in L => queue[r] = "local_queued"
      OBVIOUS
    <2>2. r \in U => sub[r] \in Open
      OBVIOUS
    <2> QED BY <1>1, <2>1, <2>2, InventoriedRun, InventoriedRows
  <1>4. RunTypes'
    BY <1>1, <1>2, <1>3 DEF RunsInv, RunTypes
  <1>5. WorkerTypes' /\ AdminTypes' /\ ~Serving /\ ~Serving' /\ \A t \in Runs : ~Busy(worker', t)
    BY <1>2 DEF RunsInv, WorkerTypes, AdminTypes, Dispatching, Serving, Busy
  <1>6. ASSUME NEW t \in Runs PROVE Good1(t, Serving', Busy(worker', t)) /\ Kept(run[t], run'[t])
    <2>1. RunOK(run'[t], queue'[t], sub'[t], pump[t], sends[t], FALSE, FALSE) /\ Kept(run[t], run'[t])
      BY <1>3, Same DEF Good, RunOK, Kept, Reopens, Final, Terminal, Unknown, Open
    <2> QED BY <1>2, <1>5, <2>1 DEF Good1, RunOK
  <1> QED BY <1>4, <1>5, <1>6, AllRuns

\* What recover makes of a run before its closing finalizations.
LEMMA Revived ==
  ASSUME NEW x \in Row, NEW st \in Status
  PROVE  LET y == [Free(x) EXCEPT !.status = st, !.queued = TRUE, !.thread = TRUE] IN
         y \in Row /\ ~y.owner /\ y.status = st /\ y.told = x.told /\ y.intent = x.intent
  <1>1. PICK f \in Row : f = Free(x) /\ ~f.owner /\ f.told = x.told /\ f.intent = x.intent
    BY FreeRow
  <1> DEFINE y == [f EXCEPT !.status = st, !.queued = TRUE, !.thread = TRUE]
  <1>2. y \in Row
    BY DEF Row
  <1>3. y.owner = f.owner /\ y.status = st /\ y.told = f.told /\ y.intent = f.intent
    BY DEF Row
  <1> QED BY <1>1, <1>2, <1>3

LEMMA RetriedThread ==
  ASSUME NEW x \in Row
  PROVE  LET y == [Free(x) EXCEPT !.status = "retry_wait", !.due = TRUE, !.thread = TRUE] IN
         y \in Row /\ ~y.owner /\ y.status = "retry_wait" /\ y.told = x.told /\ y.intent = x.intent
  <1>1. PICK f \in Row : f = Free(x) /\ ~f.owner /\ f.told = x.told /\ f.intent = x.intent
    BY FreeRow
  <1> DEFINE y == [f EXCEPT !.status = "retry_wait", !.due = TRUE, !.thread = TRUE]
  <1>2. y \in Row
    BY Names DEF Row
  <1>3. y.owner = f.owner /\ y.status = "retry_wait" /\ y.told = f.told /\ y.intent = f.intent
    BY DEF Row
  <1> QED BY <1>1, <1>2, <1>3

\* A run is revived or declared unknown, and an unknown end is announced.
Recovers(x, y) ==
  \/ Reopens(x, y) /\ (y.status \in Unknown => y.intent)
  \/ x.status \notin Final /\ Closes(x, y) /\ y.status \in Unknown /\ y.told \in Unknown /\ y.intent

LEMMA RecoveredRun ==
  ASSUME RunsInv, NEW r \in Runs
  PROVE  Recovered(r) \in Row /\ Recovers(run[r], Recovered(r))
  <1> DEFINE x == run[r]
             free == x.lease # "live"
             ca == x.status \in {"claimed", "submitting", "retry_wait"} /\ free /\ HasRow(queue[r])
             st == IF x.status = "retry_wait" /\ ~x.due THEN Free(x).status ELSE "submitting"
             a == IF ca THEN [Free(x) EXCEPT !.status = st, !.queued = TRUE, !.thread = TRUE] ELSE x
             open == a.status \in {"claimed", "submitting"} /\ free
             late == a.create /\ ~a.thread /\ ~a.send /\ ~a.intent /\ made[r] /\ queue[r] = "none"
             c1 == open /\ a.send /\ seen[r] = {}
             c2 == (open \/ a.status = "target_unknown") /\ late
             c3 == open /\ ~late /\ ~a.send /\ queue[r] = "none"
             c4 == a.status \in {"accepted", "waiting"} /\ sub[r] \in {"submitted_unknown", "outcome_unknown"}
             b == CASE c1 -> [Free(a) EXCEPT !.status = "dispatch_unknown"]
                    [] c2 -> [Free(a) EXCEPT !.status = "retry_wait", !.due = TRUE, !.thread = TRUE]
                    [] c3 -> [Free(a) EXCEPT !.status = "retry_wait", !.due = TRUE]
                    [] c4 -> [a EXCEPT !.status = "outcome_unknown"]
                    [] OTHER -> a
  <1>1. Recovered(r) = IF b.status \in Unknown /\ ~b.intent THEN Finalized(b, b.status) ELSE b
    BY DEF Recovered
  <1>2. x \in Row /\ {"retry_wait", "submitting", "dispatch_unknown", "outcome_unknown"} \subseteq Status
    BY Same, Names
  <1>3. a \in Row /\ Reopens(x, a)
    <2>1. CASE ca
      <3> DEFINE z == [Free(x) EXCEPT !.status = st, !.queued = TRUE, !.thread = TRUE]
      <3>1. a = z /\ st \in {"retry_wait", "submitting"} /\ x.status \notin Final
        BY <1>2, <2>1, FreeRow DEF Final
      <3>0. st \in Status
        BY <1>2, <3>1
      <3> HIDE DEF st
      <3>2. z \in Row /\ ~z.owner /\ z.status = st /\ z.told = x.told /\ z.intent = x.intent
        BY <1>2, <3>0, Revived
      <3> HIDE DEF z, a
      <3> QED BY <3>1, <3>2 DEF Reopens
    <2>2. CASE ~ca
      <3>1. a = x
        BY <2>2
      <3> HIDE DEF a
      <3> QED BY <1>2, <3>1 DEF Reopens
    <2> QED BY <2>1, <2>2
  <1>4. (c1 => ~c2 /\ ~c3 /\ ~c4) /\ (c2 => ~c3 /\ ~c4) /\ (c3 => ~c4)
    OBVIOUS
  <1>5. c1 \/ c2 \/ c3 \/ c4 => a.status \in {"claimed", "submitting", "target_unknown", "accepted", "waiting"}
    OBVIOUS
  <1> HIDE DEF ca, c1, c2, c3, c4, a
  <1>6. c1 \/ c2 \/ c3 \/ c4 => x.status \notin Final
    BY <1>3, <1>5 DEF Reopens, Final
  <1>7. b \in Row /\ Reopens(x, b)
    <2>1. CASE c1
      <3> DEFINE z == [Free(a) EXCEPT !.status = "dispatch_unknown"]
      <3>1. b = z
        BY <1>4, <2>1
      <3>2. z \in Row /\ ~z.owner /\ z.status = "dispatch_unknown" /\ z.told = a.told /\ z.intent = a.intent
        BY <1>2, <1>3, Freed
      <3> HIDE DEF z, b
      <3> QED BY <1>3, <1>6, <2>1, <3>1, <3>2 DEF Reopens
    <2>2. CASE c2
      <3> DEFINE z == [Free(a) EXCEPT !.status = "retry_wait", !.due = TRUE, !.thread = TRUE]
      <3>1. b = z
        BY <1>4, <2>2
      <3>2. z \in Row /\ ~z.owner /\ z.status = "retry_wait" /\ z.told = a.told /\ z.intent = a.intent
        BY <1>3, RetriedThread
      <3> HIDE DEF z, b
      <3> QED BY <1>3, <1>6, <2>2, <3>1, <3>2 DEF Reopens
    <2>3. CASE c3
      <3> DEFINE z == [Free(a) EXCEPT !.status = "retry_wait", !.due = TRUE]
      <3>1. b = z
        BY <1>4, <2>3
      <3>2. z \in Row /\ ~z.owner /\ z.status = "retry_wait" /\ z.told = a.told /\ z.intent = a.intent
        BY <1>3, Retried
      <3> HIDE DEF z, b
      <3> QED BY <1>3, <1>6, <2>3, <3>1, <3>2 DEF Reopens
    <2>4. CASE c4
      <3> DEFINE z == [a EXCEPT !.status = "outcome_unknown"]
      <3>1. b = z
        BY <1>4, <2>4
      <3>2. z \in Row /\ Alike(a, z) /\ z.status = "outcome_unknown"
        BY <1>2, <1>3, SetStatus
      <3>3. a.owner = x.owner \/ ~a.owner
        BY <1>3 DEF Reopens
      <3> HIDE DEF z, b
      <3> QED BY <1>3, <1>6, <2>4, <3>1, <3>2, <3>3 DEF Reopens, Alike
    <2>5. CASE ~c1 /\ ~c2 /\ ~c3 /\ ~c4
      <3>1. b = a
        BY <2>5
      <3> HIDE DEF b
      <3> QED BY <1>3, <3>1
    <2> QED BY <2>1, <2>2, <2>3, <2>4, <2>5
  <1> HIDE DEF b
  <1>8. CASE b.status \in Unknown /\ ~b.intent
    <2>1. b.status \in Terminal \ {"cancelled"}
      BY <1>8 DEF Terminal, Unknown
    <2>2. PICK st1 \in Terminal \ {"cancelled"} : st1 = b.status
      BY <2>1
    <2>3. /\ Finalized(b, st1) \in Row
          /\ ~Finalized(b, st1).owner /\ Finalized(b, st1).status = st1 /\ Finalized(b, st1).told = st1
          /\ Finalized(b, st1).intent
      BY <1>7, <1>8, FinalizedRow
    <2>4. x.status \notin Final /\ ~(x.status \in Terminal /\ x.intent)
      BY <1>7, <1>8 DEF Reopens, Final, Unknown
    <2> QED BY <1>1, <1>8, <2>2, <2>3, <2>4 DEF Recovers, Closes
  <1>9. CASE ~(b.status \in Unknown /\ ~b.intent)
    BY <1>1, <1>7, <1>9 DEF Recovers
  <1> QED BY <1>8, <1>9

LEMMA StepRecover ==
  ASSUME RunsInv, recover
  PROVE  RunsInv' /\ Lasting
  <1>1. /\ run' = [r \in Runs |-> Recovered(r)] /\ worker' = Idle
        /\ content' = [r \in Runs |-> content[r] \/ (run[r].backed /\ Queued(r))]
        /\ sched' = "recovered" /\ intent' = "none" /\ worker.at = "inventoried"
        /\ UNCHANGED <<queue, sub, seen, made, pump, admin, sends, deaths>>
    BY DEF recover, Return
  <1>2. \A r \in Runs : run'[r] \in Row /\ Recovers(run[r], run'[r])
    BY <1>1, RecoveredRun
  <1>3. content' \in [Runs -> BOOLEAN]
    BY <1>1
  <1>4. RunTypes'
    BY <1>1, <1>2, <1>3 DEF RunsInv, RunTypes
  <1>5. WorkerTypes' /\ AdminTypes' /\ ~Serving /\ Serving' /\ \A t \in Runs : ~Busy(worker', t)
    BY <1>1 DEF RunsInv, WorkerTypes, AdminTypes, Dispatching, Serving, Busy, Idle
  <1>6. ASSUME NEW t \in Runs PROVE Good1(t, Serving', Busy(worker', t)) /\ Kept(run[t], run'[t])
    <2> DEFINE x == run[t]
               y == run'[t]
    <2>1. CASE Reopens(x, y) /\ (y.status \in Unknown => y.intent)
      BY <1>1, <1>5, <2>1, Same DEF Good, Good1, RunOK, Kept, Reopens, Final, Terminal, Unknown
    <2>2. CASE x.status \notin Final /\ Closes(x, y) /\ y.status \in Unknown /\ y.told \in Unknown /\ y.intent
      BY <1>1, <1>5, <2>2, Same DEF Good, Good1, RunOK, Kept, Closes, Final, Terminal, Unknown
    <2> QED BY <1>2, <2>1, <2>2 DEF Recovers
  <1> QED BY <1>4, <1>5, <1>6, AllRuns

-----------------------------------------------------------------------------
(* The operator's restart.                                                 *)

\* A step of the operator that leaves the runs alone.
LEMMA RunsAlone ==
  ASSUME RunsInv, UNCHANGED <<run, queue, sub, seen, content, made, pump, worker, sends>>, AdminTypes'
  PROVE  RunsInv' /\ Lasting
  <1>1. Serving' <=> Serving
    BY DEF Serving
  <1>2. RunTypes' /\ WorkerTypes'
    BY DEF RunsInv, RunTypes, WorkerTypes, Dispatching
  <1>3. ASSUME NEW t \in Runs PROVE Good1(t, Serving', Busy(worker', t)) /\ Kept(run[t], run'[t])
    BY <1>1, Same DEF Good, Good1, RunOK, Busy, Kept
  <1> QED BY <1>2, <1>3, AllRuns

LEMMA StepRestart ==
  ASSUME RunsInv, prepare_restart \/ restart_refused \/ restart_prepared
  PROVE  RunsInv' /\ Lasting
  <1>1. CASE prepare_restart
    <2>1. AdminTypes'
      BY <1>1 DEF prepare_restart, RunsInv, AdminTypes
    <2> QED BY <1>1, <2>1, RunsAlone DEF prepare_restart, rows
  <1>2. CASE restart_refused
    <2>1. AdminTypes'
      BY <1>2 DEF restart_refused, RunsInv, AdminTypes
    <2> QED BY <1>2, <2>1, RunsAlone DEF restart_refused, rows
  <1>3. CASE restart_prepared
    <2>1. AdminTypes'
      BY <1>3 DEF restart_prepared, RunsInv, AdminTypes
    <2> QED BY <1>3, <2>1, RunsAlone DEF restart_prepared, rows
  <1> QED BY <1>1, <1>2, <1>3

LEMMA StepForce_read ==
  ASSUME RunsInv, force_read
  PROVE  RunsInv' /\ Lasting
  <1>1. AdminTypes'
    BY DEF force_read, RunsInv, AdminTypes, Unknown
  <1> QED BY <1>1, RunsAlone DEF force_read, rows

LEMMA StepForce_run ==
  ASSUME RunsInv, NEW r \in Runs, force_run(r)
  PROVE  RunsInv' /\ Lasting
  <1> DEFINE x == run[r]
             over == x.status \in Terminal /\ x.intent
             started == x.send \/ x.accepted \/ seen[r] # {}
             q == IF over \/ queue[r] \in {"none", "submitted", "failed", "cancelled"} THEN queue[r]
                  ELSE IF x.send \/ seen[r] # {} THEN "submitted_unknown" ELSE "cancelled"
             s == IF over \/ ~x.queued \/ sub[r] \notin Open \cup {"local_queued"} THEN sub[r]
                  ELSE IF started THEN "outcome_unknown" ELSE "cancelled"
  <1>1. PICK u \in Unknown : u = admin.targets[r] /\ r \in DOMAIN admin.targets
    BY DEF force_run, RunsInv, AdminTypes
  <1> DEFINE y == Finalized(x, u)
  <1>2. run' = [run EXCEPT ![r] = y] /\ queue' = [queue EXCEPT ![r] = q] /\ sub' = [sub EXCEPT ![r] = s]
    BY <1>1 DEF force_run
  <1>3. u \in Terminal \ {"cancelled"}
    BY DEF Terminal, Unknown
  <1>4. y \in Row /\ Closes(x, y) /\ (y = x \/ y.status = u) /\ (over => y = x)
    <2>1. u \in Terminal /\ x \in Row
      BY <1>3, Same
    <2>2. y \in Row /\ Closes(x, y)
      BY <1>3, <2>1, Closed
    <2>3. y = x \/ y.status = u
      BY <2>1, FinalizedRow
    <2>4. over => y = x
      BY DEF Finalized
    <2> QED BY <2>2, <2>3, <2>4
  <1>5. q \in QueueState /\ s \in SubState
    BY Same DEF QueueState, SubState, Settled, Open
  <1>6. s = sub[r] \/ (s \notin {"none", "local_queued"} /\ sub[r] \in Open \cup {"local_queued"})
    OBVIOUS
  <1>7. queue[r] = "cancelled" => q = "cancelled"
    OBVIOUS
  <1> HIDE DEF y, q, s, over, started
  <1>8. RunOK(y, q, s, pump[r], sends[r], Serving, Busy(worker, r)) /\ Kept(x, y)
    <2>1. Good(r, Serving, Busy(worker, r))
      BY Same
    <2>2. sub[r] = "cancelled" => s = "cancelled"
      BY <1>6 DEF Open
    <2>3. CASE y = x
      BY <1>6, <1>7, <2>1, <2>2, <2>3 DEF Good, RunOK, Kept
    <2>4. CASE y # x
      <3>1. /\ y.status = u /\ y.told = y.status /\ y.intent /\ ~y.owner /\ ~(x.status \in Terminal /\ x.intent)
        BY <1>4, <2>4 DEF Closes
      <3> QED BY <1>3, <1>6, <2>1, <3>1 DEF Good, RunOK, Kept, Final, Unknown, Terminal
    <2> QED BY <2>3, <2>4
  <1>9. /\ UNCHANGED <<seen, content, made, pump, worker, sched, intent, sends, deaths>>
        /\ admin.at = "forcing" /\ admin' = [admin EXCEPT !.targets = [t \in DOMAIN @ \ {r} |-> @[t]]]
    BY DEF force_run
  <1>a. RunTypes' /\ Apart(r) /\ run'[r] = y /\ queue'[r] = q /\ sub'[r] = s
    BY <1>2, <1>4, <1>5, <1>9 DEF RunsInv, RunTypes, Apart
  <1>b. AdminTypes'
    BY <1>9 DEF RunsInv, AdminTypes
  <1>c. WorkerTypes' /\ (Serving' <=> Serving) /\ \A t \in Runs : Busy(worker', t) <=> Busy(worker, t)
    BY <1>9 DEF RunsInv, WorkerTypes, Dispatching, Serving, Busy
  <1>d. Good1(r, Serving', Busy(worker', r)) /\ Kept(run[r], run'[r])
    BY <1>8, <1>9, <1>a, <1>c DEF Good1, RunOK
  <1>e. RunInv' /\ Lasting
    BY <1>a, <1>c, <1>d, OneRun
  <1> QED BY <1>a, <1>b, <1>c, <1>e DEF RunsInv

LEMMA StepForce_rest ==
  ASSUME RunsInv, force_rest
  PROVE  RunsInv' /\ Lasting
  <1>1. /\ sub' = [r \in Runs |-> IF sub[r] \in {"submitting", "submitted"} THEN "submitted_unknown"
                                  ELSE IF sub[r] \in Open THEN "outcome_unknown" ELSE sub[r]]
        /\ admin' = [at |-> "idle"] /\ intent' = "forced"
        /\ UNCHANGED <<run, queue, seen, content, made, pump, worker, sched, sends, deaths>>
    BY DEF force_rest
  <1>2. \A r \in Runs : /\ sub'[r] \in SubState
                        /\ sub'[r] = sub[r] \/ (sub[r] \in Open /\ sub'[r] \in {"submitted_unknown", "outcome_unknown"})
    BY <1>1, Same DEF SubState, Open, Settled
  <1>3. RunTypes'
    BY <1>1, <1>2 DEF RunsInv, RunTypes
  <1>4. WorkerTypes' /\ AdminTypes' /\ (Serving' <=> Serving)
    BY <1>1 DEF RunsInv, WorkerTypes, AdminTypes, Dispatching, Serving
  <1>5. ASSUME NEW t \in Runs PROVE Good1(t, Serving', Busy(worker', t)) /\ Kept(run[t], run'[t])
    <2>1. RunOK(run[t], queue[t], sub'[t], pump[t], sends[t], Serving, Busy(worker, t))
      BY <1>2, Same DEF Good, RunOK, Open
    <2> QED BY <1>1, <1>4, <2>1 DEF Good1, RunOK, Busy, Kept
  <1> QED BY <1>3, <1>4, <1>5, AllRuns

-----------------------------------------------------------------------------
(* The specification.                                                      *)

LEMMA RunsInitially == RunsInit => RunsInv
  <1> SUFFICES ASSUME RunsInit PROVE RunsInv
    OBVIOUS
  <1>1. ASSUME NEW kind \in Kinds, NEW backed \in BOOLEAN
        PROVE  NewRun(kind, backed) \in Row /\ NewRun(kind, backed).status = "planned"
               /\ NewRun(kind, backed).told = "none"
    BY ScheduleAssumption DEF NewRun, Row, Status
  <1>2. run \in [Runs -> Row] /\ \A r \in Runs : run[r].status = "planned" /\ run[r].told = "none"
    BY <1>1 DEF RunsInit
  <1>3. RunTypes
    BY <1>2 DEF RunsInit, RunTypes, QueueState, SubState, Evidence
  <1>4. WorkerTypes /\ AdminTypes
    BY ScheduleAssumption DEF RunsInit, WorkerTypes, AdminTypes, Down, Dispatching
  <1>5. RunInv
    BY <1>2 DEF RunsInit, RunInv, RunOK, Terminal, Unknown
  <1> QED BY <1>3, <1>4, <1>5 DEF RunsInv

LEMMA RunsStutter ==
  ASSUME RunsInv, UNCHANGED runVars
  PROVE  RunsInv' /\ Lasting
  <1>1. AdminTypes'
    BY DEF RunsInv, AdminTypes, runVars
  <1> QED BY <1>1, RunsAlone DEF runVars

LEMMA SchedulerSteps ==
  ASSUME RunsInv, SchedulerStep
  PROVE  RunsInv' /\ Lasting
  <1>1. CASE retry_or_fail
    <2>1. PICK r \in Runs : r = worker.run
      BY <1>1, WorkerHas DEF retry_or_fail, Dispatching
    <2> QED BY <1>1, <2>1, StepRetry_or_fail
  <1>2. CASE mark_target_started \/ CreateThread \/ record_target \/ enqueue \/ source_failed \/ redrive_done
    BY <1>2, StepMark_target_started, StepCreateThread, StepRecord_target, StepEnqueue, StepSource_failed,
       StepRedrive_done
  <1>3. CASE \E r \in Runs : \/ claim_next(r) \/ redrive(r) \/ reconcile_submissions(r)
                             \/ release_temporary(r)
    BY <1>3, StepClaim_next, StepRedrive, StepReconcile_submissions, StepRelease_temporary
  <1> QED BY <1>1, <1>2, <1>3 DEF SchedulerStep

LEMMA SessionSteps ==
  ASSUME RunsInv, NEW r \in Runs, SessionStep(r)
  PROVE  RunsInv' /\ Lasting
  <1>1. CASE TurnStep(r)
    BY <1>1, StepPumpClaim, StepPumpSend, StepAccepted, StepAcceptanceUnknown, StepRejected, StepObserved,
       StepCompleted DEF TurnStep
  <1>2. CASE PumpDefer(r) \/ IdleUncorrelated(r) \/ LateCorrelation(r) \/ ActiveUnknown(r) \/ Cancelled(r)
    BY <1>2, StepPumpDefer, StepIdleUncorrelated, StepLateCorrelation, StepActiveUnknown, StepCancelled
  <1> QED BY <1>1, <1>2 DEF SessionStep

LEMMA RunsSteps ==
  ASSUME RunsInv, [RunsNext]_runVars
  PROVE  RunsInv' /\ Lasting
  <1>1. CASE UNCHANGED runVars
    BY <1>1, RunsStutter
  <1>2. CASE Startup
    BY <1>2, StepInventory, StepRecover DEF Startup
  <1>3. CASE SchedulerStep
    BY <1>3, SchedulerSteps
  <1>4. CASE renew_run
    <2>1. PICK r \in Runs : r = worker.run
      BY <1>4, WorkerHas DEF renew_run, Dispatching
    <2> QED BY <1>4, <2>1, StepRenew_run
  <1>5. CASE Dies
    BY <1>5, StepDies
  <1>6. CASE \E r \in Runs : \/ Serving /\ SessionStep(r)
                             \/ Plan(r) \/ LeaseRunsOut(r) \/ RetryDue(r) \/ force_run(r)
    BY <1>6, SessionSteps, StepPlan, StepLeaseRunsOut, StepRetryDue, StepForce_run
  <1>7. CASE prepare_restart \/ restart_refused \/ restart_prepared
    BY <1>7, StepRestart
  <1>8. CASE force_read \/ force_rest
    BY <1>8, StepForce_read, StepForce_rest
  <1> QED BY <1>1, <1>2, <1>3, <1>4, <1>5, <1>6, <1>7, <1>8 DEF RunsNext

\* Schedule runs keep their invariant: a run's row, its queued prompt, the pump's send and the
\* worker's claim fit together through retries, redrives, crashes and forced restarts.
THEOREM RunsInvariant == RunsSpec => []RunsInv
  <1>1. RunsInit => RunsInv
    BY RunsInitially
  <1>2. RunsInv /\ [RunsNext]_runVars => RunsInv'
    BY RunsSteps
  <1> QED BY <1>1, <1>2, PTL DEF RunsSpec

\* The variables keep their types for every number of runs, attempts, claims and crashes.
THEOREM RunsTypeCorrect == RunsSpec => []RunsTypeOK
  <1>1. RunsInv => RunsTypeOK
    BY Same DEF RunsInv, RunTypes, AdminTypes, RunsTypeOK, Row, Evidence
  <1> QED BY <1>1, RunsInvariant, PTL

\* The scheduler's promise of no duplicate prompt: whatever is retried, driven again, recovered
\* after a crash or cut short by a forced restart, a run's prompt is sent once, and never when
\* the run is announced as cancelled.
THEOREM PromptsAreSentOnce == RunsSpec => []PromptOnce
  <1>1. RunsInv => PromptOnce
    BY Same DEF Good, RunOK, PromptOnce, SentOnce, CancelledNeverSent
  <1> QED BY <1>1, RunsInvariant, PTL

\* While a process is up, no run has ended without an announcement: the two finalizers, the
\* inventory's bare status updates and recover's closing pass agree.
THEOREM EndsAreAnnounced == RunsSpec => []SettledAnnounced
  <1>1. RunsInv => SettledAnnounced
    BY Same DEF Good, RunOK, SettledAnnounced
  <1> QED BY <1>1, RunsInvariant, PTL

\* A run that completed, was blocked or was cancelled keeps that status: late events, the
\* inventory, recover, a forced restart and a worker with a lost claim do not reopen it.
THEOREM EndsAreFinal == RunsSpec => OutcomeIsFinal
  <1>1. RunsInv /\ [RunsNext]_runVars =>
          [\A r \in Runs : run[r].status \in {"semantic_complete", "blocked", "cancelled"} /\ run[r].intent
                            => run'[r].status = run[r].status]_runVars
    BY RunsSteps DEF Lasting, Kept, Final
  <1> QED BY <1>1, RunsInvariant, PTL DEF RunsSpec, OutcomeIsFinal
=============================================================================
