---------------------------- MODULE MCScheduleRuns ----------------------------
(* ScheduleRuns and ServiceRestart for TLC.  A behaviour is one of one part; *)
(* the other does not begin. *)
EXTENDS ServiceRestart, ScheduleRuns, TLC

CONSTANTS r1, m1, m2
Scene(one, other, e, c) == [mode |-> (m1 :> one) @@ (m2 :> other), events |-> e, crashes |-> c]
MCScenes == {Scene("force", "normal", 0, 0), Scene("force", "absent", 1, 1),
             Scene("normal", "absent", 2, 1), Scene("replay", "absent", 1, 1)}
ASSUME RestartAssumption

VARIABLE part

PartsInit ==
  /\ part \in {"restart", "runs"}
  /\ Init /\ RunsInit
  /\ part = "restart" => run[r1] = NewRun("message", FALSE)
  /\ part = "runs" => scene = Scene("replay", "absent", 1, 1) /\ ~work

PartsNext ==
  \/ part = "restart" /\ Next /\ UNCHANGED <<part, runVars>>
  \/ part = "runs" /\ RunsNext /\ UNCHANGED <<part, vars>>

(* The fairness of each part, as its own module has it. *)
RunsProceed ==
  /\ WF_runVars(part = "runs" /\ Startup) /\ WF_runVars(part = "runs" /\ SchedulerStep)
  /\ \A r \in Runs :
       /\ WF_runVars(part = "runs" /\ LeaseRunsOut(r)) /\ WF_runVars(part = "runs" /\ RetryDue(r))
       /\ WF_runVars(part = "runs" /\ Serving /\ TurnStep(r))
       /\ SF_runVars(part = "runs" /\ Serving /\ PumpSend(r))
       /\ SF_runVars(part = "runs" /\ claim_next(r))
       /\ SF_runVars(part = "runs" /\ reconcile_submissions(r))

PartsSpec ==
  /\ PartsInit /\ [][PartsNext]_<<part, vars, runVars>>
  /\ RunsProceed
  /\ WF_vars(part = "restart" /\ BotStep)
  /\ \A m \in Managers : WF_vars(part = "restart" /\ ManagerStep(m))
=============================================================================
