--------------------------- MODULE MCReducerInbox ---------------------------
(* Instances of ReducerInbox for TLC.                                      *)
EXTENDS ReducerInbox, TLC

InboxSymmetry == Permutations(Committers) \cup Permutations(SdkThreads)
=============================================================================
