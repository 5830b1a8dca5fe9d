-------------------------- MODULE MCPlansWorktrees --------------------------
(* SchedulePlans and Worktrees for TLC.  A behaviour is one of *)
(* one part; the other does not begin. *)
EXTENDS Worktrees, SchedulePlans, TLC

Symmetry == Permutations(Callers)

MCZones == {[change |-> 9, before |-> 4, after |-> 4],   \* no change
            [change |-> 9, before |-> 0, after |-> 4],   \* a gap of two minutes
            [change |-> 9, before |-> 4, after |-> 0]}   \* a fold of two minutes
MCCrons == {c \cup {22} : c \in {d \in SUBSET {6, 8, 10, 12} : \E v, w \in {6, 8, 10, 12} : d \subseteq {v, w}}}

VARIABLE part

PartsInit ==
  /\ part \in {"plans", "worktrees"}
  /\ Init /\ PlansInit
  /\ part = "plans" => fork

PartsNext ==
  \/ part = "plans" /\ PlansNext /\ UNCHANGED <<part, vars>>
  \/ part = "worktrees" /\ Next /\ UNCHANGED <<part, planVars>>

PartsSpec == PartsInit /\ [][PartsNext]_<<part, vars, planVars>>
=============================================================================
