----------------------------- MODULE MCProgress -----------------------------
(* What must happen in the end, in the mailbox, the inbox and the submission *)
(* queue.  A behaviour is one of one part; the others do not begin.          *)
EXTENDS ReducerInbox, TLC

CONSTANTS p1, p2, c1, c2, c3, k1, m1, m2, pump

VARIABLES
  part,
  \* OperationMailbox
  scene, op, receipts, lease, bind, phase, tok, accepting, reducerUp, lock, commands, futures,
  sender, call, missing, sent, ran,
  \* SubmissionQueue
  setup, row, order, ops, history, own, draining, changing, content, broken, dispatcher, mailbox,
  dispatching, troubles, frame, frames, inbound, busy, events, foreign

mailboxVars == <<scene, op, receipts, lease, bind, phase, tok, accepting, reducerUp, lock, commands,
                 futures, sender, call, missing, sent, ran>>
queueVars == <<setup, row, order, ops, history, own, draining, changing, content, broken,
               dispatcher, mailbox, dispatching, troubles, frame, frames, inbound, busy, events,
               foreign>>
allVars == <<part, inboxVars, mailboxVars, queueVars>>

\* Two calls share a future in one process, or the successor retries.
Pairs == {{c1, c2}, {c1, c3}}

Mailbox == INSTANCE OperationMailbox WITH
  Owners <- {p1, p2}, NoOwner <- NoOne, Callers <- {c1, c2, c3}, NoCaller <- NoOne, Keys <- {k1},
  HostOf <- (c1 :> p1 @@ c2 :> p1 @@ c3 :> p2), Deferrable <- {k1},
  Scenes <- {[calls |-> two, keyOf |-> [c \in {c1, c2, c3} |-> k1], exempt |-> {},
              zombies |-> FALSE, deaths |-> TRUE, fences |-> 2] : two \in Pairs},
  journal <- receipts, queue <- commands, worker <- sender, reducer <- reducerUp, lost <- missing
Queue == INSTANCE SubmissionQueue WITH
  Subs <- {m1, m2}, Pump <- pump, NoOp <- NoOne, MaxFence <- 1, MaxAttempt <- 4,
  Hazards <- {"transition", "timeout", "thin lease", "frame"},
  Scenes <- {[steers |-> {}, crashes |-> FALSE, attempts |-> 4, troubles |-> 2]},
  scene <- setup, journal <- history, worker <- dispatching, sent <- frames

PartsInit ==
  /\ part \in {"mailbox", "inbox", "queue"}
  /\ InboxInit /\ Mailbox!Init /\ Queue!Init
  /\ part # "mailbox" => scene.calls = {c1, c2}

PartsNext ==
  \/ part = "inbox" /\ InboxNext /\ UNCHANGED <<part, mailboxVars, queueVars>>
  \/ part = "mailbox" /\ Mailbox!Next /\ UNCHANGED <<part, inboxVars, queueVars>>
  \/ part = "queue" /\ Queue!Next /\ UNCHANGED <<part, inboxVars, mailboxVars>>

(* The fairness of each part, as its own module has it. *)
MailboxProceeds ==
  /\ \A c \in {c1, c2, c3} :
       /\ WF_mailboxVars(part = "mailbox" /\ Mailbox!BeginValidate(c))
       /\ WF_mailboxVars(part = "mailbox" /\ Mailbox!BeginCommit(c))
  /\ \A p \in {p1, p2} :
       /\ WF_mailboxVars(part = "mailbox" /\ Mailbox!WorkerStep(p))
       /\ WF_mailboxVars(part = "mailbox" /\ Mailbox!CancelWorker(p))
       /\ WF_mailboxVars(part = "mailbox" /\ Mailbox!StopItem(p))
       /\ WF_mailboxVars(part = "mailbox" /\ Mailbox!StopSettles(p))
InboxProceeds ==
  /\ \A t \in SdkThreads : WF_inboxVars(part = "inbox" /\ SdkNext(t) /\ sdk[t] # "idle")
  /\ \A p \in Coroutines : WF_inboxVars(part = "inbox" /\ LoopNext(p) /\ pc[p] # "idle")
  /\ WF_inboxVars(part = "inbox" /\ RunCallback) /\ WF_inboxVars(part = "inbox" /\ SuperviseOverflow)
  /\ WF_inboxVars(part = "inbox" /\ JoinReturns) /\ WF_inboxVars(part = "inbox" /\ WorkerNext)
QueueProceeds ==
  /\ WF_queueVars(part = "queue" /\ Queue!PumpFindsQuiet)
  /\ WF_queueVars(part = "queue" /\ Queue!PumpStep(1))
  /\ WF_queueVars(part = "queue" /\ Queue!WorkerProceeds(1))
  /\ WF_queueVars(part = "queue" /\ (Queue!WorkerDefers(1) \/ Queue!WorkerLosesReadiness(1)))
  /\ WF_queueVars(part = "queue" /\ Queue!Hand(1, pump))
  /\ WF_queueVars(part = "queue" /\ Queue!Finish(1, pump))
  /\ WF_queueVars(part = "queue" /\ Queue!RuntimeStep)
  /\ WF_queueVars(part = "queue" /\ Queue!ReducerStep)
  /\ WF_queueVars(part = "queue" /\ Queue!TransitionSettles)

PartsSpec ==
  PartsInit /\ [][PartsNext]_allVars /\ MailboxProceeds /\ InboxProceeds /\ QueueProceeds

(* submit(): every call that got past admission is answered, or its process dies,
   or it waits for a receipt that was lost with the reducer. *)
EveryCallAnswered == Mailbox!EveryCallAnswered
(* The pump: a queued message is dispatched or blocked, unless one before it is in doubt. *)
QueueDrains == Queue!QueueDrains
=============================================================================
