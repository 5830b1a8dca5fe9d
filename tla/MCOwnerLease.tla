---------------------------- MODULE MCOwnerLease ----------------------------
(* OwnerLease for TLC: three owner ids (a process, its rival and a restart). *)
EXTENDS OwnerLease, TLC

(* The processes are interchangeable. *)
OwnerSymmetry == Permutations(Owners)
=============================================================================
