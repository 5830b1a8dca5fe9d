-------------------------- MODULE MCOperationMailbox --------------------------
(* OperationMailbox for TLC: two processes and three submit() calls. *)
EXTENDS OperationMailbox

CONSTANTS p1, p2, c1, c2, c3, k1, k2

(* The third call is made in the second process, the successor or rival. *)
MCHosts == [c \in Callers |-> IF c = c3 THEN p2 ELSE p1]

(* All calls use one idempotency key: the second process retries. *)
Retry == [calls |-> Callers, keyOf |-> [c \in Callers |-> k1], exempt |-> {},
          zombies |-> FALSE, deaths |-> TRUE, fences |-> 3]
(* The same, and the first process may still be alive; its reducer fails only
   on receipts of the mailbox. *)
Rivals == [Retry EXCEPT !.zombies = TRUE, !.deaths = FALSE, !.fences = 2]
(* A process outlives its lease with two calls of different keys under way. *)
Zombie == [calls |-> {c1, c2}, keyOf |-> [c \in Callers |-> IF c = c2 THEN k2 ELSE k1],
           exempt |-> {k2}, zombies |-> TRUE, deaths |-> TRUE, fences |-> 2]
MCScenes == {Retry, Rivals, Zombie}
=============================================================================
