------------------------- MODULE MCNativeOperations -------------------------
(* NativeOperations for TLC: two keys and two tasks, each sort in turn. *)
EXTENDS NativeOperations, TLC

MCKinds == {"command", "ask", "compact", "fleet", "task"}
Symmetry == Permutations(Keys) \cup Permutations(Callers)
=============================================================================
