------------------------ MODULE MCSubmissionReactions ------------------------
(* Instances of SubmissionReactions. *)
EXTENDS SubmissionReactions
=============================================================================
