--------------------------- MODULE MCSessionConfig ---------------------------
(* SessionLifecycle and ProjectConfig for TLC.  A behaviour is one of *)
(* one part; the other does not begin. *)
EXTENDS ProjectConfig, SessionLifecycle

MCCasts == {{"create", "attach"}, {"attach", "delete"}, {"attach", "sched"}, {"attach", "overflow"},
            {"attach", "shutdown"}}

VARIABLE part

PartsInit ==
  /\ part \in {"lifecycle", "config"}
  /\ Init /\ LifecycleInit
  /\ part = "config" => cast = {"attach", "shutdown"}

PartsNext ==
  \/ part = "lifecycle" /\ LifecycleNext /\ UNCHANGED <<part, vars>>
  \/ part = "config" /\ Next /\ UNCHANGED <<part, lifecycleVars>>

PartsSpec == PartsInit /\ [][PartsNext]_<<part, vars, lifecycleVars>>
=============================================================================
