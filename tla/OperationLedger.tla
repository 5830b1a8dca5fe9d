---------------------------- MODULE OperationLedger ----------------------------
(***************************************************************************)
(* What the operation envelope promises, without processes, fences, leases  *)
(* or reducers: a durable ledger in which an operation is written down      *)
(* before it is sent, is sent at most once, and is settled once, and in     *)
(* which 'confirmed' and 'rejected' are facts and 'unknown' claims nothing. *)
(***************************************************************************)
EXTENDS Naturals

CONSTANT Keys
VARIABLES state, sent, ran

ledger == <<state, sent, ran>>

Init ==
    /\ state = [k \in Keys |-> "none"]
    /\ sent = [k \in Keys |-> 0]
    /\ ran = [k \in Keys |-> FALSE]

Open(k) ==
    /\ state[k] = "none"
    /\ state' = [state EXCEPT ![k] = "pending"]
    /\ UNCHANGED <<sent, ran>>

Start(k) ==
    /\ state[k] = "pending"
    /\ state' = [state EXCEPT ![k] = "started"]
    /\ UNCHANGED <<sent, ran>>

(* Only an operation on record as started is sent, and only once. *)
Send(k) ==
    /\ state[k] = "started" /\ sent[k] = 0
    /\ sent' = [sent EXCEPT ![k] = 1]
    /\ UNCHANGED <<state, ran>>

(* The runtime carries out what was sent, perhaps after copilotD gave up. *)
Run(k) ==
    /\ sent[k] = 1 /\ ~ran[k] /\ state[k] \notin {"confirmed", "rejected"}
    /\ ran' = [ran EXCEPT ![k] = TRUE]
    /\ UNCHANGED <<state, sent>>

Confirm(k) ==
    /\ state[k] = "started" /\ ran[k]
    /\ state' = [state EXCEPT ![k] = "confirmed"]
    /\ UNCHANGED <<sent, ran>>

(* Refused by the server, or given up before it was sent. *)
Reject(k) ==
    /\ ~ran[k]
    /\ state[k] \in {"pending", "started"} \/ (state[k] = "unknown" /\ sent[k] = 0)
    /\ state' = [state EXCEPT ![k] = "rejected"]
    /\ UNCHANGED <<sent, ran>>

(* Operations whose outcome nobody can vouch for any more, together. *)
Orphan(S) ==
    /\ \A k \in S : state[k] \in {"pending", "started"}
    /\ state' = [k \in Keys |-> IF k \in S THEN "unknown" ELSE state[k]]
    /\ UNCHANGED <<sent, ran>>

Next ==
    \/ \E k \in Keys : Open(k) \/ Start(k) \/ Send(k) \/ Run(k) \/ Confirm(k) \/ Reject(k)
    \/ \E S \in SUBSET Keys : Orphan(S)

Spec == Init /\ [][Next]_ledger
=============================================================================
