-------------------------- MODULE MCSessionControls --------------------------
(* SessionSettings and RuntimeSchedules for TLC.  A behaviour is one of *)
(* one part; the other does not begin. *)
EXTENDS SessionSettings, RuntimeSchedules, TLC

MCSettings == {"mode", "model", "agent", "remote"}
MCCallers == 1..2

\* Nothing tells the create actions apart but their keys.
Alike == Permutations(Actions)

VARIABLE part

PartsInit ==
  /\ part \in {"settings", "schedules"}
  /\ Init /\ SchedulesInit
  /\ part = "schedules" => kind = "mode"

PartsNext ==
  \/ part = "settings" /\ Next /\ UNCHANGED <<part, scheduleVars>>
  \/ part = "schedules" /\ SchedulesNext /\ UNCHANGED <<part, vars>>

PartsSpec == PartsInit /\ [][PartsNext]_<<part, vars, scheduleVars>>
=============================================================================
