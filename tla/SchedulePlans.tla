---------------------------- MODULE SchedulePlans ----------------------------
(***************************************************************************)
(* A schedule definition and its planner: when the next run is due, which  *)
(* overdue occurrence becomes a run, and what toggling, deleting, running  *)
(* by hand and a jumping clock do to it (core/schedule_time.py and the     *)
(* planning half of core/scheduler.py).                                    *)
(*                                                                         *)
(* Time is counted in half minutes.  Cron works on whole minutes of wall   *)
(* time, so an expression is a set of even wall times; a zone has at most  *)
(* one change of its offset within the horizon, which leaves a gap in the  *)
(* wall time or repeats a part of it.                                      *)
(***************************************************************************)
EXTENDS Integers, FiniteSetsExt

CONSTANTS
  Zones,        \* records [change, before, after]: offsets before and from a UTC time
  Crons,        \* cron expressions: sets of wall times, whole minutes
  Intervals,    \* interval lengths
  Ats,          \* wall times of at: expressions
  Graces,       \* misfire_grace_seconds
  MaxClock,     \* bound on the clock
  Horizon,      \* bound on the wall times of expressions and on the occurrences
  MaxJumps,     \* bound on clock jumps
  MaxToggles,   \* bound on toggles
  Lag,          \* how long ago a tick may have read the clock
  None          \* NULL

ASSUME PlansAssumption ==
  /\ Zones \subseteq [change : Int, before : Int, after : Int]
  /\ \A c \in Crons : c \subseteq 0..Horizon
  /\ MaxClock \in Nat /\ Horizon \in Nat /\ Horizon > MaxClock
  /\ 0 \notin Intervals /\ Intervals \subseteq Nat /\ Lag \in Nat
  /\ None \notin Int

VARIABLES
  def,      \* the definition: kind, expression, zone, policy, anchor
  state,    \* none, enabled, disabled, deleted
  nextRun,  \* next_run_at_utc
  asked,    \* history: the time from which nextRun was looked for
  runs,     \* planned_key of every run the planner made
  inFlight, \* some run of the schedule is not terminal
  clock,    \* time.time()
  jumps, toggles

planVars == <<def, state, nextRun, asked, runs, inFlight, clock, jumps, toggles>>
-----------------------------------------------------------------------------
(***************************************************************************)
(* Wall time                                                               *)
(***************************************************************************)
Times == 0..Horizon
Wall(z, u) == u + IF u < z.change THEN z.before ELSE z.after

\* _resolve_wall_time with the policies of a cron expression: none in a gap, two in a fold.
Resolve(z, wall) == {u \in {wall - z.before, wall - z.after} : Wall(z, u) = wall}

\* _overlap_window: the length of the fold that a time lies in, 0 outside of one.
OverlapWindow(z, u) == LET folds == Resolve(z, Wall(z, u)) IN Max(folds) - Min(folds)

Minute(wall) == wall - (wall % 2)

\* Deviation: the search starts at the local minute, also within a fold.
CronNextNoWindow(cron, z, after) ==
  LET local == Minute(Wall(z, after))
      hits == {w \in cron : w > local /\ \E u \in Resolve(z, w) : u > after}
  IN IF hits = {} THEN None ELSE Min({u \in Resolve(z, Min(hits)) : u > after})

\* _cron_next: walls are tried upwards; a wall whose first fold is still ahead ends the search,
\* and so does a wall past the window once there is a candidate.
CronNext(cron, z, after) ==
  LET local == Minute(Wall(z, after))
      window == OverlapWindow(z, after)
      tried == {w \in cron : w > local - window}
      future(w) == {u \in Resolve(z, w) : u > after}
      hits == {w \in tried : future(w) # {}}
      ends == {w \in tried : \/ w \in hits /\ Min(future(w)) = Min(Resolve(z, w))
                             \/ w > local + window /\ \E h \in hits : h <= w}
      last == IF ends = {} THEN Max(tried) ELSE Min(ends)
  IN IF hits = {} THEN None ELSE Min(UNION {future(h) : h \in {w \in hits : w <= last}})

\* _cron_previous_or_at: the same downwards.
CronPrevious(cron, z, through) ==
  LET local == Minute(Wall(z, through))
      window == OverlapWindow(z, through)
      tried == {w \in cron : w < local + window + 2}
      past(w) == {u \in Resolve(z, w) : u <= through}
      hits == {w \in tried : past(w) # {}}
      ends == {w \in tried : \/ w \in hits /\ Max(past(w)) = Max(Resolve(z, w))
                             \/ w < local - window /\ \E h \in hits : h >= w}
      last == IF ends = {} THEN Min(tried) ELSE Max(ends)
  IN IF hits = {} THEN None ELSE Max(UNION {past(h) : h \in {w \in hits : w >= last}})

\* ParsedSchedule.next_after
NextAfter(d, after) ==
  CASE d.kind = "at" -> IF d.at > after THEN d.at ELSE None
    [] d.kind = "interval" ->
         d.anchor + Max({0, (after - d.anchor) \div d.interval + 1}) * d.interval
    [] d.kind = "cron" -> CronNext(d.cron, d.zone, after)

\* Deviation: the first occurrence is due, not the latest.
LatestDueFirst(d, first, through) == first

\* Deviation: the run is planned for the time of the tick.
LatestDueNow(d, first, through) == IF first > through THEN None ELSE through

\* ParsedSchedule.latest_due
LatestDue(d, first, through) ==
  LET found == CASE d.kind = "at" -> IF first <= d.at /\ d.at <= through THEN d.at ELSE None
                 [] d.kind = "interval" ->
                      d.anchor + ((through - d.anchor) \div d.interval) * d.interval
                 [] d.kind = "cron" -> CronPrevious(d.cron, d.zone, through)
  IN IF first > through \/ found = None \/ found < first THEN None ELSE found
-----------------------------------------------------------------------------
PlansInit ==
  /\ def = None /\ state = "none" /\ nextRun = None /\ asked = None
  /\ runs = {} /\ inFlight = FALSE /\ clock = 0 /\ jumps = 0 /\ toggles = 0

\* parse_schedule: an at: time must exist once in its zone.
Parsed ==
  {[kind |-> "at", at |-> u] : u \in {v \in Times : \E z \in Zones, w \in Ats : Resolve(z, w) = {v}}}
  \cup {[kind |-> "interval", interval |-> i, anchor |-> clock] : i \in Intervals}
  \cup {[kind |-> "cron", cron |-> c, zone |-> z] : c \in Crons, z \in Zones}

create_schedule ==
  /\ state = "none"
  /\ \E d \in Parsed, grace \in Graces \cup {None} :
       /\ def' = [parsed |-> d, grace |-> grace, created |-> clock]  \* grace None: policy latest
       /\ nextRun' = NextAfter(d, clock)
  /\ state' = "enabled" /\ asked' = clock
  /\ UNCHANGED <<runs, inFlight, clock, jumps, toggles>>

\* toggle does not look for the next run again.
toggle ==
  /\ state \in {"enabled", "disabled"} /\ toggles < MaxToggles
  /\ state' = IF state = "enabled" THEN "disabled" ELSE "enabled"
  /\ toggles' = toggles + 1
  /\ UNCHANGED <<def, nextRun, asked, runs, inFlight, clock, jumps>>

\* Deviation: the runs are not looked at.
delete_unchecked ==
  /\ state \in {"enabled", "disabled"}
  /\ state' = "deleted"
  /\ UNCHANGED <<def, nextRun, asked, runs, inFlight, clock, jumps, toggles>>

delete ==
  /\ state \in {"enabled", "disabled"} /\ ~inFlight
  /\ state' = "deleted"
  /\ UNCHANGED <<def, nextRun, asked, runs, inFlight, clock, jumps, toggles>>

run_now ==
  /\ state \in {"enabled", "disabled"}
  /\ inFlight' = TRUE
  /\ UNCHANGED <<def, state, nextRun, asked, runs, clock, jumps, toggles>>

\* The last run in flight reaches a terminal state.
RunSettles ==
  /\ inFlight /\ inFlight' = FALSE
  /\ UNCHANGED <<def, state, nextRun, asked, runs, clock, jumps, toggles>>

Overdue(due, now) == def.grace # None /\ due < now - def.grace

\* _plan_one: one transaction, with the time that the worker's tick read.  A definition without
\* a further occurrence is disabled.
plan_one(now) ==
  LET due == LatestDue(def.parsed, nextRun, now)
      next == NextAfter(def.parsed, now)
      new == IF due = None \/ Overdue(due, now) THEN {} ELSE {due} \ runs
  IN /\ state = "enabled" /\ nextRun # None /\ nextRun <= now
     /\ runs' = runs \cup new /\ inFlight' = (inFlight \/ new # {})
     /\ nextRun' = next /\ asked' = now
     /\ state' = IF next = None THEN "disabled" ELSE state
     /\ UNCHANGED <<def, clock, jumps, toggles>>

Tick == \E lag \in 0..Lag : lag <= clock /\ plan_one(clock - lag)

TimePasses ==
  /\ clock < MaxClock /\ clock' = clock + 1
  /\ UNCHANGED <<def, state, nextRun, asked, runs, inFlight, jumps, toggles>>

\* The system clock is set back or forward.
ClockJumps ==
  /\ jumps < MaxJumps /\ jumps' = jumps + 1
  /\ \E t \in 0..MaxClock : t # clock /\ clock' = t
  /\ UNCHANGED <<def, state, nextRun, asked, runs, inFlight, toggles>>

PlansNext ==
  \/ create_schedule \/ toggle \/ delete \/ run_now \/ RunSettles
  \/ Tick \/ TimePasses \/ ClockJumps

PlansSpec == PlansInit /\ [][PlansNext]_planVars
-----------------------------------------------------------------------------
(***************************************************************************)
(* What the expressions mean: the UTC times at which a definition is due   *)
(***************************************************************************)
Occurrences ==
  LET d == def.parsed IN
  CASE d.kind = "at" -> {d.at}
    [] d.kind = "interval" -> {u \in Times : u >= d.anchor /\ (u - d.anchor) % d.interval = 0}
    [] d.kind = "cron" -> {u \in Times : Wall(d.zone, u) \in d.cron}

\* next_run_at_utc is the first occurrence after the time it was looked for, in every zone: the
\* search through wall times finds it also from within a fold, across a gap and off the minute.
NextIsFirst ==
  def # None =>
    LET ahead == {u \in Occurrences : u > asked} IN
    IF nextRun = None THEN ahead = {} ELSE nextRun <= Horizon => ahead # {} /\ nextRun = Min(ahead)

\* Under the policy "latest" every occurrence since the creation that the planner has passed is
\* covered by a run planned for it or for a later one, through sleeps, toggles and clock jumps.
NothingOverlooked ==
  def # None /\ def.grace = None =>
    \A u \in Occurrences :
      u > def.created /\ (nextRun = None \/ u < nextRun) => \E r \in runs : r >= u

\* Runs stand for occurrences: no planner run has a key that is not an occurrence.
RunsAreOccurrences == def # None => runs \subseteq Occurrences

\* A deleted schedule has no run in flight: delete races the planner and run_now.
DeletedIsQuiet == state = "deleted" => ~inFlight

\* The runs are those the plan asks for: none is missing, none is made up, none outlives its schedule.
RunsCoverPlan == NothingOverlooked /\ RunsAreOccurrences /\ DeletedIsQuiet
=============================================================================
