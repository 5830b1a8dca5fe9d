---------------------------- MODULE MCQueueInbox ----------------------------
(* SubmissionQueue and ReducerInbox for TLC.  A behaviour is one of one part; *)
(* the other does not begin.                                                 *)
EXTENDS SubmissionQueue, ReducerInbox, TLC

CONSTANTS m1, m2

(* Two messages; in one scene the second is a steer. *)
Queued == [steers |-> {}, crashes |-> TRUE, attempts |-> 2, troubles |-> 1]
Steered == [steers |-> {m2}, crashes |-> FALSE, attempts |-> 2, troubles |-> 1]
MCScenes == {Queued, Steered}

(* The SDK's threads are interchangeable. *)
ThreadSymmetry == Permutations(SdkThreads)

VARIABLE part

PartsInit ==
  /\ part \in {"queue", "inbox"}
  /\ Init /\ InboxInit
  /\ part = "inbox" => scene = Queued

PartsNext ==
  \/ part = "queue" /\ Next /\ UNCHANGED <<part, inboxVars>>
  \/ part = "inbox" /\ InboxNext /\ UNCHANGED <<part, vars>>

PartsSpec == PartsInit /\ [][PartsNext]_<<part, vars, inboxVars>>
=============================================================================
