----------------------- MODULE SubmissionQueueProofs -----------------------
(***************************************************************************)
(* Proofs about SubmissionQueue: a message is sent at most once and in      *)
(* order, what is on record about it is true, and what waits can be sent,   *)
(* for any number of messages, steers, attempts and takeovers.              *)
(*                                                                         *)
(* The argument turns on source_operation_id.  The claim of a dispatch      *)
(* writes its key there; a worker that got past reading the claim back has  *)
(* its key in the row; and only the worker of that key takes it out again,  *)
(* before it has sent anything.  A key is handed to one mailbox and once.   *)
(***************************************************************************)
EXTENDS SubmissionQueue, TLAPS, WellFoundedInduction, SequenceTheorems

OpStates == {"none", "pending", "started", "confirmed", "rejected", "unknown"}
Rows == [state : SubmissionStates, queue : QueueStates, src : Keys \cup {NoOp}, accepted : BOOLEAN,
         observed : BOOLEAN, attempt : Nat, immediate : BOOLEAN]
Desks == [pc : {"idle", "steer", "ready", "submit", "await", "finish"}, key : Keys \cup {NoOp},
          out : {"none", "ok", "rejected", "ambiguous", "fence", "deferred"}]
Stations == [pc : {"idle", "check", "claim", "read", "assert", "send", "inflight", "accept"},
             key : Keys \cup {NoOp}]

TypeInv ==
    /\ scene \in Scenes /\ own \in Fences /\ order \in Seq(Subs)
    /\ row \in [Subs -> Rows] /\ ops \in [Keys -> OpStates]
    /\ broken \in [Fences -> BOOLEAN]
    /\ dispatcher \in [Fences \X Dispatchers -> Desks]
    /\ mailbox \in [Fences -> Seq(Keys)] /\ worker \in [Fences -> Stations]
    /\ sent \in [Subs -> Nat] /\ frame \in [Subs -> {"none", "sent", "taken", "refused"}]

(* Where a key is. *)
Holds(t, k) == worker[t].pc # "idle" /\ worker[t].key = k
Queues(t, k) == \E i \in DOMAIN mailbox[t] : mailbox[t][i] = k
Has(t, k) == Holds(t, k) \/ Queues(t, k)
Gone(k) == \A t \in Fences : ~Has(t, k)

(* The dispatcher that waits for a key. *)
Desk(t, k) == <<t, IF k.path = "queue" THEN Pump ELSE k.sub>>
Engaged(x) == dispatcher[x].pc \in {"submit", "await", "finish"}

(* Tokens that were not granted yet have no tasks. *)
IdleInv ==
    \A t \in Fences : t > own =>
       /\ mailbox[t] = <<>> /\ worker[t].pc = "idle"
       /\ \A d \in Dispatchers : dispatcher[<<t, d>>].pc = "idle"

(* The pump has keys of the queue, a steer those of its own message. *)
DeskInv ==
    \A t \in Fences, d \in Dispatchers : Engaged(<<t, d>>) =>
       LET k == dispatcher[<<t, d>>].key IN
       /\ k \in Keys /\ row[k.sub].state # "absent"
       /\ k.path = IF d = Pump THEN "queue" ELSE "send"
       /\ d # Pump => k.sub = d

(* A key is in one place, and its dispatcher waits for it. *)
KeyInv ==
    /\ \A t \in Fences : worker[t].pc # "idle" => worker[t].key \in Keys
    /\ \A t \in Fences, k \in Keys : Has(t, k) =>
          /\ ops[k] # "none" /\ Desk(t, k)[2] \in Dispatchers
          /\ dispatcher[Desk(t, k)].pc = "await" /\ dispatcher[Desk(t, k)].key = k
    /\ \A t, u \in Fences, k \in Keys : Has(t, k) /\ Has(u, k) => t = u
    /\ \A t \in Fences, k \in Keys : ~(Holds(t, k) /\ Queues(t, k))
    /\ \A t \in Fences : \A i, j \in DOMAIN mailbox[t] : mailbox[t][i] = mailbox[t][j] => i = j

(* What a dispatcher was told is what the operation's row says. *)
Told(out, k) ==
    /\ out = "ok" => ops[k] = "confirmed"
    /\ out = "rejected" => ops[k] = "rejected"
    /\ out = "fence" => Gone(k) /\ ops[k] # "none" /\ row[k.sub].src # k

OutInv ==
    \A t \in Fences, d \in Dispatchers : dispatcher[<<t, d>>].pc = "finish" =>
       Told(dispatcher[<<t, d>>].out, dispatcher[<<t, d>>].key)

(* The halves of a row. *)
RowOK(r) ==
    /\ r.src # NoOp => r.state \notin {"local_queued", "absent", "cancelled"} /\ r.queue \notin {"local_queued", "blocked"}
    /\ r.queue = "local_queued" => r.state = "local_queued"
    /\ r.accepted \/ r.observed => r.state # "local_queued"
    /\ r.state = "absent" => r.queue = "absent" /\ ~r.accepted /\ ~r.observed
    /\ r.state = "submitting" => r.queue = "submitting" /\ ~r.accepted /\ ~r.observed
    /\ r.state = "submitted" => r.accepted
    /\ r.state \in {"observed_active", "loop_idle"} => r.observed

RowInv == \A s \in Subs : RowOK(row[s])

(* The row has the key of a claim that was made. *)
SrcInv ==
    \A s \in Subs : row[s].src # NoOp =>
       LET k == row[s].src IN
       /\ k.sub = s /\ ops[k] # "none"
       /\ \A t \in Fences : ~Queues(t, k) /\ (Holds(t, k) => worker[t].pc \notin {"check", "claim"})

(* A worker that owns the claim has its key in the row. *)
StageInv ==
    \A t \in Fences :
       /\ worker[t].pc \in {"assert", "send", "inflight", "accept"} =>
             row[worker[t].key.sub].src = worker[t].key
       /\ worker[t].pc \in {"inflight", "accept"} => sent[worker[t].key.sub] = 1

(* What was sent was sent under the key in the row. *)
SentInv ==
    \A s \in Subs :
       /\ sent[s] <= 1 /\ (sent[s] = 0 => frame[s] = "none")
       /\ sent[s] > 0 =>
             /\ row[s].src # NoOp
             /\ \A t \in Fences : Holds(t, row[s].src) => worker[t].pc \in {"inflight", "accept"}

(* A settled operation is over, and a rejected one did nothing. *)
OpInv ==
    \A k \in Keys :
       /\ ops[k] = "confirmed" => Gone(k) /\ row[k.sub].src = k
       /\ ops[k] = "rejected" => Gone(k) /\ (row[k.sub].src = k => frame[k.sub] \in {"none", "refused"})

(* Messages that will not be queued again. *)
Closed(s) ==
    /\ row[s].state # "absent" /\ row[s].queue # "local_queued"
    /\ \/ row[s].accepted \/ row[s].observed \/ Gone(row[s].src)
       \/ row[s].state \notin {"submitting", "submitted_unknown"}
       \/ row[s].state = "submitted_unknown" /\ \A t \in Fences : t # own => ~Holds(t, row[s].src)

(* A prompt is discarded when its message is closed. *)
ContentInv ==
    \A s \in Subs :
       /\ row[s].state # "absent" /\ s \notin content => Closed(s)
       /\ <<s, "rejected", 0>> \in journal \/ <<s, "ambiguous", 0>> \in journal => Closed(s)

(* The owner's dispatchers chose rows that no former runtime has claimed. *)
HandInv ==
    \A d \in Dispatchers : Engaged(<<own, d>>) =>
       \A t \in Fences : t # own => ~Holds(t, row[dispatcher[<<own, d>>].key.sub].src)

(* While the pump serves a message, the ones before it are out of the way. *)
Awaited == {"submitting", "submitted", "submitted_unknown"}

Clear(s) ==
    /\ row[s].state = "local_queued" => row[s].queue = "local_queued"
    /\ \A r \in Subs \ (steers \cup {s}) : row[r].state \notin Awaited
    /\ \A i, j \in DOMAIN order :
          order[j] = s /\ i < j /\ order[i] \notin steers => row[order[i]].queue # "local_queued"

PumpInv ==
    LET x == <<own, Pump>> k == dispatcher[x].key IN
    Engaged(x) /\ k.sub \notin steers =>
       /\ row[k.sub].src \in {NoOp, k}
       /\ dispatcher[x].pc # "finish" => Clear(k.sub)

(* A rejected message was not sent or was refused, and nobody will send it. *)
Refused(s) == frame[s] \in {"none", "refused"} /\ Gone(row[s].src)

RejectedInv == \A s \in Subs \ steers : row[s].state = "rejected" => Refused(s)

OrderInv ==
    /\ \A i \in DOMAIN order : row[order[i]].state # "absent"
    /\ \A i, j \in DOMAIN order : order[i] = order[j] => i = j

IInv ==
    /\ TypeInv /\ IdleInv /\ DeskInv /\ KeyInv /\ OutInv /\ RowInv /\ SrcInv /\ StageInv /\ SentInv
    /\ OpInv /\ ContentInv /\ HandInv /\ PumpInv /\ RejectedInv /\ OrderInv /\ ReducerSurvives
-----------------------------------------------------------------------------
(* Keys name a message and a path, and none of them is NoOp. *)
LEMMA KeyFields ==
  /\ NoOp \notin Keys /\ Pump \notin Subs
  /\ \A k \in Keys : k.sub \in Subs /\ k.path \in {"send", "queue"} /\ k.attempt \in Nat
<1>1. MaxAttempt \in Nat /\ Pump \notin Subs /\ NoOp \notin [sub : Subs, path : {"send", "queue"}, attempt : Nat]
  BY QueueAssumption
<1>2. 0..MaxAttempt - 1 \subseteq Nat
  BY <1>1
<1>3. Keys \subseteq [sub : Subs, path : {"send", "queue"}, attempt : Nat]
  BY <1>2 DEF Keys
<1> QED
  BY <1>1, <1>3

(* What the type invariant says of single rows, desks and workers. *)
LEMMA Sorts ==
  ASSUME TypeInv
  PROVE  /\ own \in Nat /\ Fences \subseteq Nat /\ own \in Fences /\ steers \subseteq Subs
         /\ Pump \in Dispatchers /\ steers \subseteq Dispatchers /\ Dispatchers \subseteq steers \cup {Pump}
         /\ \A s \in Subs : row[s] \in Rows /\ sent[s] \in Nat
         /\ \A t \in Fences : /\ worker[t] \in Stations /\ worker[t].key \in Keys \cup {NoOp}
                              /\ mailbox[t] \in Seq(Keys)
         /\ \A t \in Fences, d \in Dispatchers : dispatcher[<<t, d>>] \in Desks
<1>0. MaxFence \in Nat
  BY QueueAssumption
<1>1. Fences \subseteq Nat /\ own \in Fences /\ own \in Nat
  BY <1>0 DEF Fences, TypeInv
<1>2. steers \subseteq Subs
  BY QueueAssumption DEF TypeInv, steers
<1>3. Pump \in Dispatchers /\ steers \subseteq Dispatchers /\ Dispatchers \subseteq steers \cup {Pump}
  BY DEF Dispatchers
<1>4. \A t \in Fences : worker[t] \in Stations /\ worker[t].key \in Keys \cup {NoOp} /\ mailbox[t] \in Seq(Keys)
  BY DEF TypeInv, Stations
<1>5. \A s \in Subs : row[s] \in Rows /\ sent[s] \in Nat
  BY DEF TypeInv
<1>6. \A t \in Fences, d \in Dispatchers : dispatcher[<<t, d>>] \in Desks
  BY DEF TypeInv
<1> QED
  BY <1>1, <1>2, <1>3, <1>4, <1>5, <1>6

(* The fields of a row. *)
LEMMA RowFields ==
  ASSUME NEW r \in Rows
  PROVE  /\ r.state \in SubmissionStates /\ r.queue \in QueueStates /\ r.src \in Keys \cup {NoOp}
         /\ r.accepted \in BOOLEAN /\ r.observed \in BOOLEAN /\ r.attempt \in Nat /\ r.immediate \in BOOLEAN
BY DEF Rows

(* A worker goes on, rests, or takes what is queued; a mailbox gets only keys that are new. *)
Moves == {<<"check", "claim">>, <<"claim", "read">>, <<"read", "assert">>, <<"assert", "send">>,
          <<"send", "inflight">>, <<"inflight", "accept">>}

Goes(u) ==
  \/ worker'[u] = worker[u]
  \/ worker'[u].pc = "idle"
  \/ worker[u].pc # "idle" /\ worker'[u].key = worker[u].key /\ <<worker[u].pc, worker'[u].pc>> \in Moves
  \/ worker[u].pc = "idle" /\ worker'[u].pc = "check" /\ Queues(u, worker'[u].key)

(* An operation stays known, and settled ones stay as they are. *)
OpsMove ==
  /\ ops' \in [Keys -> OpStates]
  /\ \A k \in Keys : /\ ops[k] # "none" => ops'[k] # "none"
                     /\ ops[k] \in {"confirmed", "rejected"} => ops'[k] = ops[k]

Works ==
  /\ \A u \in Fences : Goes(u)
  /\ \A u \in Fences, k \in Keys : Queues(u, k)' => Queues(u, k) \/ ops[k] = "none"
  /\ OpsMove

(* So a key that is known is nowhere but where it was. *)
LEMMA KeysStay ==
  ASSUME Works, NEW k \in Keys, ops[k] # "none", NEW u \in Fences
  PROVE  /\ Queues(u, k)' => Queues(u, k)
         /\ Has(u, k)' => Has(u, k)
         /\ Holds(u, k)' /\ ~Queues(u, k) =>
              Holds(u, k) /\ (worker'[u] = worker[u] \/ <<worker[u].pc, worker'[u].pc>> \in Moves)
<1>1. Queues(u, k)' => Queues(u, k)
  BY DEF Works
<1>2. Holds(u, k)' => worker'[u].pc # "idle" /\ worker'[u].key = k
  BY DEF Holds
<1>3. Holds(u, k)' /\ ~Queues(u, k) =>
        Holds(u, k) /\ (worker'[u] = worker[u] \/ <<worker[u].pc, worker'[u].pc>> \in Moves)
  BY <1>2 DEF Works, Goes, Holds
<1> QED
  BY <1>1, <1>3 DEF Has

(* A known key that nobody has is never had again. *)
LEMMA GoneStays ==
  ASSUME Works, NEW k \in Keys, ops[k] # "none", Gone(k)
  PROVE  Gone(k)'
<1>1. \A u \in Fences : Has(u, k)' => Has(u, k)
  BY KeysStay
<1> QED
  BY <1>1 DEF Gone, Fences

(* Nobody has NoOp. *)
LEMMA NoOpGone == ASSUME TypeInv, KeyInv PROVE Gone(NoOp)
<1>1. \A t \in Fences : ~Holds(t, NoOp)
  BY KeyFields DEF KeyInv, Holds
<1>2. \A t \in Fences : ~Queues(t, NoOp)
  <2> SUFFICES ASSUME NEW t \in Fences, NEW i \in DOMAIN mailbox[t] PROVE mailbox[t][i] # NoOp
    BY DEF Queues
  <2>1. mailbox[t] \in Seq(Keys)
    BY Sorts
  <2> QED
    BY <2>1, KeyFields
<1> QED
  BY <1>1, <1>2 DEF Gone, Has

(* Who has a key is the only one. *)
LEMMA OneHas ==
  ASSUME TypeInv, KeyInv, NEW t \in Fences, worker[t].pc # "idle"
  PROVE  /\ worker[t].key \in Keys /\ ops[worker[t].key] # "none" /\ Has(t, worker[t].key)
         /\ \A u \in Fences : Has(u, worker[t].key) => u = t
         /\ \A u \in Fences : ~Queues(u, worker[t].key)
<1>1. worker[t].key \in Keys /\ Holds(t, worker[t].key)
  BY DEF KeyInv, Holds
<1>2. Has(t, worker[t].key)
  BY <1>1 DEF Has
<1>3. \A u \in Fences : Has(u, worker[t].key) => u = t
  BY <1>1, <1>2 DEF KeyInv
<1>4. \A u \in Fences : Queues(u, worker[t].key) => Has(u, worker[t].key)
  BY DEF Has
<1>5. ~Queues(t, worker[t].key)
  BY <1>1 DEF KeyInv
<1> QED
  BY <1>1, <1>2, <1>3, <1>4, <1>5 DEF KeyInv
-----------------------------------------------------------------------------
(* The source of a row stays, or is taken out by a dispatch that is over and sent nothing. *)
Unclaims(s) ==
  /\ row'[s].src = NoOp /\ sent[s] = 0
  /\ row[s].src # NoOp =>
       /\ ops'[row[s].src] # "confirmed"
       /\ \A t \in Fences : worker'[t].pc \in {"assert", "send", "inflight", "accept"} => worker'[t].key # row[s].src

(* What settles an operation knows. *)
SettlesTruly ==
  \A k \in Keys :
    /\ ops'[k] = "confirmed" => ops[k] = "confirmed" \/ (Gone(k)' /\ row'[k.sub].src = k)
    /\ ops'[k] = "rejected" =>
         ops[k] = "rejected" \/ (Gone(k)' /\ (row'[k.sub].src = k => frame'[k.sub] \in {"none", "refused"}))

(* The layer of keys and claims: every step but a claim and a send. *)
LEMMA SourceKept ==
  ASSUME IInv, Works, SettlesTruly, TypeInv',
         \A s \in Subs : row'[s].src = row[s].src \/ Unclaims(s),
         \A t \in Fences : ~(worker[t].pc = "send" /\ worker'[t].pc = "inflight"),
         \A t \in Fences : worker[t].pc = "read" /\ worker'[t].pc = "assert" =>
                             row'[worker[t].key.sub].src = worker[t].key,
         sent' = sent, \A s \in Subs : frame'[s] = frame[s] \/ frame[s] = "sent"
  PROVE  SrcInv' /\ StageInv' /\ SentInv' /\ OpInv'
<1>0. TypeInv /\ KeyInv /\ SrcInv /\ StageInv /\ SentInv /\ OpInv
  BY DEF IInv
<1>1. \A s \in Subs : row[s].src \in Keys \cup {NoOp} /\ row'[s].src \in Keys \cup {NoOp}
  BY <1>0 DEF TypeInv, Rows
<1>2. ASSUME NEW s \in Subs, NEW k, k = row'[s].src, k # NoOp
      PROVE  /\ row[s].src = k /\ k \in Keys /\ k.sub = s /\ ops[k] # "none" /\ ops'[k] # "none"
             /\ \A t \in Fences : ~Queues(t, k) /\ (Holds(t, k) => worker[t].pc \notin {"check", "claim"})
  <2>1. row[s].src = k
    BY <1>2 DEF Unclaims
  <2>2. k \in Keys /\ k.sub = s /\ ops[k] # "none"
    BY <1>0, <1>1, <1>2, <2>1 DEF SrcInv
  <2>3. \A t \in Fences : ~Queues(t, k) /\ (Holds(t, k) => worker[t].pc \notin {"check", "claim"})
    BY <1>0, <1>2, <2>1 DEF SrcInv
  <2> QED
    BY <2>1, <2>2, <2>3 DEF Works, OpsMove
<1>3. ASSUME NEW s \in Subs, NEW k, k = row'[s].src, k # NoOp, NEW t \in Fences
      PROVE  /\ ~Queues(t, k)'
             /\ Holds(t, k)' => Holds(t, k) /\ (worker'[t] = worker[t] \/ <<worker[t].pc, worker'[t].pc>> \in Moves)
  BY <1>2, <1>3, KeysStay
<1>4. SrcInv'
  <2> SUFFICES ASSUME NEW s \in Subs, NEW k, k = row'[s].src, k # NoOp
               PROVE  /\ k.sub = s /\ ops'[k] # "none"
                      /\ \A t \in Fences : ~Queues(t, k)' /\ (Holds(t, k)' => worker'[t].pc \notin {"check", "claim"})
    BY DEF SrcInv, Queues, Holds
  <2>1. ASSUME NEW t \in Fences PROVE Holds(t, k)' => worker'[t].pc \notin {"check", "claim"}
    BY <1>2, <1>3 DEF Moves
  <2> QED
    BY <1>2, <1>3, <2>1
<1>5. StageInv'
  <2> SUFFICES ASSUME NEW t \in Fences, worker'[t].pc \in {"assert", "send", "inflight", "accept"}
               PROVE  /\ row'[worker'[t].key.sub].src = worker'[t].key
                      /\ worker'[t].pc \in {"inflight", "accept"} => sent'[worker'[t].key.sub] = 1
    BY DEF StageInv
  <2>1. Goes(t)
    BY DEF Works
  <2>2. worker'[t].key = worker[t].key /\ (worker'[t] = worker[t] \/ <<worker[t].pc, worker'[t].pc>> \in Moves)
    BY <2>1 DEF Goes
  <2>3. worker[t].pc # "idle" /\ worker[t].key \in Keys /\ worker[t].key.sub \in Subs
    BY <1>0, <2>2, KeyFields DEF Moves, KeyInv
  <2>4. CASE worker[t].pc = "read"
    BY <2>2, <2>4 DEF Moves
  <2>5. CASE worker[t].pc # "read"
    <3>1. worker[t].pc \in {"assert", "send", "inflight", "accept"}
      BY <2>2, <2>5 DEF Moves
    <3>2. row[worker[t].key.sub].src = worker[t].key
      BY <1>0, <3>1 DEF StageInv
    <3>3. ~Unclaims(worker[t].key.sub)
      BY <2>2, <2>3, <3>2, KeyFields DEF Unclaims
    <3>4. worker'[t].pc \in {"inflight", "accept"} => worker[t].pc \in {"inflight", "accept"}
      BY <2>2 DEF Moves
    <3> QED
      BY <1>0, <2>2, <2>3, <3>2, <3>3, <3>4 DEF StageInv
  <2> QED
    BY <2>4, <2>5
<1>6. SentInv'
  <2> SUFFICES ASSUME NEW s \in Subs
               PROVE  /\ sent[s] <= 1 /\ (sent[s] = 0 => frame'[s] = "none")
                      /\ sent[s] > 0 => /\ row'[s].src # NoOp
                                        /\ \A t \in Fences : Holds(t, row[s].src)' => worker'[t].pc \in {"inflight", "accept"}
    BY DEF SentInv
  <2>1. sent[s] <= 1 /\ (sent[s] = 0 => frame'[s] = "none")
    BY <1>0 DEF SentInv
  <2>2. ASSUME sent[s] > 0 PROVE row'[s].src # NoOp
    BY <1>0, <2>2 DEF SentInv, Unclaims
  <2>3. ASSUME sent[s] > 0, NEW t \in Fences, Holds(t, row[s].src)' PROVE worker'[t].pc \in {"inflight", "accept"}
    <3> DEFINE k == row'[s].src
    <3>1. k # NoOp
      BY <2>2, <2>3
    <3>2. worker'[t].pc # "idle" /\ worker'[t].key = k
      BY <2>3 DEF Holds
    <3> HIDE DEF k
    <3>3. \A c : c = k => Holds(t, c)'
      BY <3>2 DEF Holds
    <3>4. k = row'[s].src
      BY DEF k
    <3>5. row[s].src = k /\ Holds(t, row[s].src)
      BY <1>2, <1>3, <3>1, <3>3, <3>4
    <3>6. worker[t].pc \in {"inflight", "accept"} /\ (worker'[t] = worker[t] \/ <<worker[t].pc, worker'[t].pc>> \in Moves)
      BY <1>0, <1>3, <2>3, <3>1, <3>3, <3>4, <3>5 DEF SentInv
    <3> QED
      BY <3>6 DEF Moves
  <2> QED
    BY <2>1, <2>2, <2>3
<1>7. OpInv'
  <2> SUFFICES ASSUME NEW k \in Keys
               PROVE  /\ ops'[k] = "confirmed" => Gone(k)' /\ row'[k.sub].src = k
                      /\ ops'[k] = "rejected" => Gone(k)' /\ (row'[k.sub].src = k => frame'[k.sub] \in {"none", "refused"})
    BY DEF OpInv
  <2>1. k.sub \in Subs /\ k # NoOp
    BY KeyFields
  <2>2. ASSUME ops[k] \in {"confirmed", "rejected"} PROVE Gone(k)'
    BY <1>0, <2>2, GoneStays DEF OpInv
  <2>3. ASSUME ops[k] = "confirmed", ops'[k] = "confirmed" PROVE row'[k.sub].src = k
    BY <1>0, <2>1, <2>3 DEF OpInv, Unclaims
  <2>4. ASSUME ops[k] = "rejected", row'[k.sub].src = k PROVE frame'[k.sub] \in {"none", "refused"}
    BY <1>0, <2>1, <2>4 DEF OpInv, Unclaims
  <2> QED
    BY <2>2, <2>3, <2>4 DEF SettlesTruly
<1> QED
  BY <1>4, <1>5, <1>6, <1>7
-----------------------------------------------------------------------------
(* What a step does to desks, mailboxes and workers. *)
KeyLayer ==
  /\ dispatcher' \in [Fences \X Dispatchers -> Desks] /\ mailbox' \in [Fences -> Seq(Keys)]
  /\ worker' \in [Fences -> Stations] /\ IdleInv' /\ KeyInv' /\ Works

(* The places of keys stay right where none is added and the desks that wait keep waiting. *)
LEMMA KeyShrink ==
  ASSUME KeyInv, scene' = scene,
         \A t \in Fences : worker'[t].pc # "idle" => worker'[t].key \in Keys,
         \A t \in Fences, k \in Keys : Has(t, k)' =>
            Has(t, k) /\ ops'[k] # "none" /\ dispatcher'[Desk(t, k)] = dispatcher[Desk(t, k)],
         \A t \in Fences, k \in Keys : ~(Holds(t, k)' /\ Queues(t, k)'),
         \A t \in Fences : \A i, j \in DOMAIN mailbox'[t] : mailbox'[t][i] = mailbox'[t][j] => i = j
  PROVE  KeyInv'
<1>1. ASSUME NEW t \in Fences, NEW k \in Keys, Has(t, k)'
      PROVE  /\ ops'[k] # "none" /\ Desk(t, k)[2] \in Dispatchers'
             /\ dispatcher'[Desk(t, k)].pc = "await" /\ dispatcher'[Desk(t, k)].key = k
  <2>1. Has(t, k) /\ ops'[k] # "none" /\ dispatcher'[Desk(t, k)] = dispatcher[Desk(t, k)]
    BY <1>1
  <2>2. Dispatchers' = Dispatchers
    BY DEF Dispatchers, steers
  <2> QED
    BY <2>1, <2>2 DEF KeyInv
<1>2. \A t, u \in Fences, k \in Keys : Has(t, k)' /\ Has(u, k)' => t = u
  BY DEF KeyInv
<1>3. \A t \in Fences, k \in Keys : Has(t, k)' =>
          /\ ops'[k] # "none" /\ (Desk(t, k)[2] \in Dispatchers)'
          /\ dispatcher'[Desk(t, k)].pc = "await" /\ dispatcher'[Desk(t, k)].key = k
  BY <1>1 DEF Desk
<1> QED
  BY <1>2, <1>3 DEF KeyInv, Desk

(* Nothing happens to them. *)
LEMMA NoKeys ==
  ASSUME IInv, own' = own, scene' = scene, worker' = worker, mailbox' = mailbox, ops' = ops, dispatcher' = dispatcher
  PROVE  KeyLayer
<1>0. TypeInv /\ IdleInv /\ KeyInv
  BY DEF IInv
<1>1. Dispatchers' = Dispatchers
  BY DEF Dispatchers, steers
<1>2. IdleInv'
  BY <1>0, <1>1 DEF IdleInv
<1>3. \A t \in Fences, k \in Keys : /\ Holds(t, k)' = Holds(t, k) /\ Queues(t, k)' = Queues(t, k)
                                   /\ Has(t, k)' = Has(t, k) /\ (Has(t, k) => ops[k] # "none")
  BY <1>0 DEF Holds, Queues, Has, KeyInv
<1>4. KeyInv'
  BY <1>0, <1>3, KeyShrink DEF KeyInv
<1>5. Works
  BY <1>0, <1>3 DEF Works, Goes, OpsMove, TypeInv
<1> QED
  BY <1>0, <1>2, <1>4, <1>5 DEF KeyLayer, TypeInv

(* One desk changes, and no worker is to answer it. *)
LEMMA DeskOnly ==
  ASSUME IInv, own' = own, scene' = scene, worker' = worker, mailbox' = mailbox, ops' = ops,
         NEW t \in Fences, NEW d \in Dispatchers, NEW v \in Desks,
         t = own \/ dispatcher[<<t, d>>].pc # "idle", dispatcher[<<t, d>>].pc # "await",
         dispatcher' = [dispatcher EXCEPT ![<<t, d>>] = v]
  PROVE  /\ KeyLayer /\ dispatcher'[<<t, d>>] = v
         /\ \A u \in Fences, e \in Dispatchers : <<u, e>> # <<t, d>> => dispatcher'[<<u, e>>] = dispatcher[<<u, e>>]
<1>0. TypeInv /\ IdleInv /\ KeyInv
  BY DEF IInv
<1>1. Dispatchers' = Dispatchers
  BY DEF Dispatchers, steers
<1>2. /\ dispatcher'[<<t, d>>] = v /\ dispatcher' \in [Fences \X Dispatchers -> Desks]
      /\ \A u \in Fences, e \in Dispatchers : <<u, e>> # <<t, d>> => dispatcher'[<<u, e>>] = dispatcher[<<u, e>>]
  BY <1>0 DEF TypeInv
<1>3. IdleInv'
  <2>1. ~(t > own)
    BY <1>0, Sorts DEF IdleInv
  <2> QED
    BY <1>0, <1>1, <1>2, <2>1 DEF IdleInv
<1>4. \A u \in Fences, k \in Keys : /\ Holds(u, k)' = Holds(u, k) /\ Queues(u, k)' = Queues(u, k)
                                   /\ Has(u, k)' = Has(u, k)
  BY DEF Holds, Queues, Has
<1>5. ASSUME NEW u \in Fences, NEW k \in Keys, Has(u, k)
      PROVE  ops[k] # "none" /\ dispatcher'[Desk(u, k)] = dispatcher[Desk(u, k)]
  <2>1. ops[k] # "none" /\ Desk(u, k)[2] \in Dispatchers /\ dispatcher[Desk(u, k)].pc = "await"
    BY <1>0, <1>5 DEF KeyInv
  <2> QED
    BY <1>2, <2>1 DEF Desk
<1>6. KeyInv'
  BY <1>0, <1>4, <1>5, KeyShrink DEF KeyInv
<1>7. Works
  BY <1>0, <1>4 DEF Works, Goes, OpsMove, TypeInv
<1> QED
  BY <1>0, <1>2, <1>3, <1>6, <1>7 DEF KeyLayer, TypeInv

(* begin(): a key that nobody has is queued, and its desk waits. *)
LEMMA Queued ==
  ASSUME IInv, own' = own, scene' = scene, worker' = worker,
         NEW d \in Dispatchers, dispatcher[<<own, d>>].pc = "submit",
         NEW k, k = dispatcher[<<own, d>>].key, ops[k] = "none",
         ops' = [ops EXCEPT ![k] = "pending"],
         mailbox' = [mailbox EXCEPT ![own] = Append(@, k)],
         dispatcher' = [dispatcher EXCEPT ![<<own, d>>].pc = "await"]
  PROVE  /\ KeyLayer
         /\ dispatcher'[<<own, d>>].pc = "await" /\ dispatcher'[<<own, d>>].key = k
         /\ \A u \in Fences, e \in Dispatchers : <<u, e>> # <<own, d>> => dispatcher'[<<u, e>>] = dispatcher[<<u, e>>]
<1>0. TypeInv /\ IdleInv /\ KeyInv /\ DeskInv
  BY DEF IInv
<1> USE <1>0
<1>1. Dispatchers' = Dispatchers
  BY DEF Dispatchers, steers
<1>2. own \in Fences /\ own \in Nat /\ Fences \subseteq Nat
  BY Sorts
<1>3. k \in Keys /\ Desk(own, k) = <<own, d>>
  BY <1>2 DEF DeskInv, Engaged, Desk
<1>4. dispatcher[<<own, d>>] \in Desks
  BY <1>2, Sorts
<1>5. [dispatcher[<<own, d>>] EXCEPT !.pc = "await"] \in Desks
  BY <1>4 DEF Desks
<1>6. /\ dispatcher' \in [Fences \X Dispatchers -> Desks]
      /\ dispatcher'[<<own, d>>] = [dispatcher[<<own, d>>] EXCEPT !.pc = "await"]
      /\ \A u \in Fences, e \in Dispatchers : <<u, e>> # <<own, d>> => dispatcher'[<<u, e>>] = dispatcher[<<u, e>>]
  BY <1>2, <1>5 DEF TypeInv
<1>7. dispatcher'[<<own, d>>].pc = "await" /\ dispatcher'[<<own, d>>].key = k
  BY <1>4, <1>6 DEF Desks
<1>8. /\ mailbox' \in [Fences -> Seq(Keys)] /\ mailbox'[own] = Append(mailbox[own], k)
      /\ \A u \in Fences : u # own => mailbox'[u] = mailbox[u]
  BY <1>2, <1>3 DEF TypeInv
<1>9. IdleInv'
  BY <1>1, <1>2, <1>6, <1>8 DEF IdleInv
<1>10. \A u \in Fences : ~Has(u, k)
  BY <1>3 DEF KeyInv
<1>11. \A u \in Fences, c \in Keys :
         /\ Holds(u, c)' => Holds(u, c)
         /\ Queues(u, c)' => Queues(u, c) \/ (u = own /\ c = k)
         /\ Has(u, c)' => Has(u, c) \/ (u = own /\ c = k)
  <2> SUFFICES ASSUME NEW u \in Fences, NEW c \in Keys PROVE Queues(u, c)' => Queues(u, c) \/ (u = own /\ c = k)
    BY DEF Holds, Has
  <2>1. CASE u # own
    BY <1>8, <2>1 DEF Queues
  <2>2. CASE u = own
    <3>1. mailbox[own] \in Seq(Keys)
      BY <1>2, Sorts
    <3>2. /\ DOMAIN mailbox'[own] = 1..(Len(mailbox[own]) + 1) /\ DOMAIN mailbox[own] = 1..Len(mailbox[own])
          /\ mailbox'[own][Len(mailbox[own]) + 1] = k
          /\ \A i \in DOMAIN mailbox[own] : mailbox'[own][i] = mailbox[own][i]
          /\ Len(mailbox[own]) \in Nat
      BY <1>3, <1>8, <3>1
    <3> QED
      BY <2>2, <3>2 DEF Queues
  <2> QED
    BY <2>1, <2>2
<1>12. /\ ops' \in [Keys -> OpStates] /\ ops'[k] = "pending" /\ \A c \in Keys : c # k => ops'[c] = ops[c]
  BY <1>3 DEF TypeInv, OpStates
<1>13. KeyInv'
  <2>1. \A t \in Fences : worker'[t].pc # "idle" => worker'[t].key \in Keys
    BY DEF KeyInv
  <2>2. ASSUME NEW t \in Fences, NEW c \in Keys, Has(t, c)'
        PROVE  /\ ops'[c] # "none" /\ Desk(t, c)[2] \in Dispatchers
               /\ dispatcher'[Desk(t, c)].pc = "await" /\ dispatcher'[Desk(t, c)].key = c
    <3>1. CASE c = k
      <4>1. t = own
        BY <1>10, <1>11, <2>2, <3>1
      <4> QED
        BY <1>3, <1>7, <1>12, <3>1, <4>1
    <3>2. CASE c # k
      <4>1. Has(t, c)
        BY <1>11, <2>2, <3>2
      <4>2. /\ ops[c] # "none" /\ Desk(t, c)[2] \in Dispatchers
            /\ dispatcher[Desk(t, c)].pc = "await" /\ dispatcher[Desk(t, c)].key = c
        BY <4>1 DEF KeyInv
      <4>3. Desk(t, c) # <<own, d>>
        BY <4>2
      <4> QED
        BY <1>6, <1>12, <3>2, <4>2, <4>3 DEF Desk
    <3> QED
      BY <3>1, <3>2
  <2>3. \A t, u \in Fences, c \in Keys : Has(t, c)' /\ Has(u, c)' => t = u
    BY <1>2, <1>10, <1>11 DEF KeyInv
  <2>4. ASSUME NEW t \in Fences, NEW c \in Keys PROVE ~(Holds(t, c)' /\ Queues(t, c)')
    <3>1. Holds(t, c)' => Holds(t, c)
      BY <1>11
    <3>2. Holds(t, c) => Has(t, c) /\ ~Queues(t, c)
      BY DEF KeyInv, Has
    <3> QED
      BY <1>10, <1>11, <3>1, <3>2
  <2>5. ASSUME NEW t \in Fences, NEW i \in DOMAIN mailbox'[t], NEW j \in DOMAIN mailbox'[t], mailbox'[t][i] = mailbox'[t][j]
        PROVE  i = j
    <3>1. CASE t # own
      BY <1>8, <2>5, <3>1 DEF KeyInv
    <3>2. CASE t = own
      <4>1. mailbox[own] \in Seq(Keys)
        BY <1>2, Sorts
      <4>2. /\ DOMAIN mailbox'[own] = 1..(Len(mailbox[own]) + 1) /\ DOMAIN mailbox[own] = 1..Len(mailbox[own])
            /\ mailbox'[own][Len(mailbox[own]) + 1] = k
            /\ \A n \in DOMAIN mailbox[own] : mailbox'[own][n] = mailbox[own][n]
            /\ Len(mailbox[own]) \in Nat
        BY <1>3, <1>8, <4>1
      <4>3. \A n \in DOMAIN mailbox[own] : mailbox[own][n] # k
        BY <1>2, <1>10 DEF Has, Queues
      <4>4. \A m, n \in DOMAIN mailbox[own] : mailbox[own][m] = mailbox[own][n] => m = n
        BY <1>2 DEF KeyInv
      <4>5. /\ i \in DOMAIN mailbox[own] \/ i = Len(mailbox[own]) + 1
            /\ j \in DOMAIN mailbox[own] \/ j = Len(mailbox[own]) + 1
        BY <3>2, <4>2
      <4>6. mailbox'[own][i] = mailbox'[own][j]
        BY <2>5, <3>2
      <4>7. CASE i \in DOMAIN mailbox[own] /\ j \in DOMAIN mailbox[own]
        BY <4>2, <4>4, <4>6, <4>7
      <4>8. CASE i = Len(mailbox[own]) + 1 /\ j \in DOMAIN mailbox[own]
        BY <4>2, <4>3, <4>6, <4>8
      <4>9. CASE i \in DOMAIN mailbox[own] /\ j = Len(mailbox[own]) + 1
        BY <4>2, <4>3, <4>6, <4>9
      <4> QED
        BY <4>5, <4>7, <4>8, <4>9
    <3> QED
      BY <3>1, <3>2
  <2>6. \A t \in Fences, c \in Keys : Has(t, c)' =>
          /\ ops'[c] # "none" /\ (Desk(t, c)[2] \in Dispatchers)'
          /\ dispatcher'[Desk(t, c)].pc = "await" /\ dispatcher'[Desk(t, c)].key = c
    BY <1>1, <2>2 DEF Desk
  <2> QED
    BY <2>1, <2>3, <2>4, <2>5, <2>6 DEF KeyInv, Desk
<1>14. Works
  <2>1. \A u \in Fences : Goes(u)
    BY DEF Goes
  <2>2. \A u \in Fences, c \in Keys : Queues(u, c)' => Queues(u, c) \/ ops[c] = "none"
    BY <1>11
  <2>3. OpsMove
    BY <1>12 DEF OpsMove
  <2> QED
    BY <2>1, <2>2, <2>3 DEF Works
<1> QED
  BY <1>6, <1>7, <1>8, <1>9, <1>13, <1>14 DEF KeyLayer, TypeInv

(* The worker takes the key at the head of its mailbox. *)
LEMMA Takes ==
  ASSUME IInv, NEW t \in Fences, Take(t)
  PROVE  /\ KeyLayer /\ worker'[t].pc = "check"
         /\ \A u \in Fences : u # t => worker'[u] = worker[u]
<1>0. TypeInv /\ IdleInv /\ KeyInv
  BY DEF IInv
<1>1. /\ own' = own /\ scene' = scene /\ ops' = ops /\ dispatcher' = dispatcher
      /\ worker[t].pc = "idle" /\ mailbox[t] # <<>>
      /\ worker' = [worker EXCEPT ![t] = [pc |-> "check", key |-> Head(mailbox[t])]]
      /\ mailbox' = [mailbox EXCEPT ![t] = Tail(@)]
  BY DEF Take, durable
<1>2. mailbox[t] \in Seq(Keys)
  BY <1>0, Sorts
<1>3. /\ Head(mailbox[t]) \in Keys /\ Tail(mailbox[t]) \in Seq(Keys) /\ Len(mailbox[t]) \in Nat \ {0}
      /\ DOMAIN mailbox[t] = 1..Len(mailbox[t]) /\ DOMAIN Tail(mailbox[t]) = 1..(Len(mailbox[t]) - 1)
      /\ Head(mailbox[t]) = mailbox[t][1]
      /\ \A i \in 1..(Len(mailbox[t]) - 1) : Tail(mailbox[t])[i] = mailbox[t][i + 1]
  BY <1>1, <1>2
<1>4. [pc |-> "check", key |-> Head(mailbox[t])] \in Stations
  BY <1>3 DEF Stations
<1>5. /\ worker' \in [Fences -> Stations] /\ worker'[t].pc = "check" /\ worker'[t].key = mailbox[t][1]
      /\ \A u \in Fences : u # t => worker'[u] = worker[u]
  BY <1>0, <1>1, <1>3, <1>4 DEF TypeInv
<1>6. /\ mailbox' \in [Fences -> Seq(Keys)] /\ mailbox'[t] = Tail(mailbox[t])
      /\ \A u \in Fences : u # t => mailbox'[u] = mailbox[u]
  BY <1>0, <1>1, <1>3 DEF TypeInv
<1>7. IdleInv'
  <2>1. ~(t > own)
    BY <1>0, <1>1 DEF IdleInv
  <2>2. Dispatchers' = Dispatchers
    BY <1>1 DEF Dispatchers, steers
  <2> QED
    BY <1>0, <1>1, <1>5, <1>6, <2>1, <2>2 DEF IdleInv
<1>8. /\ \A i, j \in DOMAIN mailbox[t] : mailbox[t][i] = mailbox[t][j] => i = j
      /\ \A i \in DOMAIN mailbox'[t] : i + 1 \in DOMAIN mailbox[t] /\ i + 1 # 1 /\ mailbox'[t][i] = mailbox[t][i + 1]
      /\ 1 \in DOMAIN mailbox[t]
  <2>1. \A i, j \in DOMAIN mailbox[t] : mailbox[t][i] = mailbox[t][j] => i = j
    BY <1>0 DEF KeyInv
  <2> QED
    BY <1>3, <1>6, <2>1
<1>9. ASSUME NEW u \in Fences, NEW k \in Keys
      PROVE  /\ Queues(u, k)' => Queues(u, k)
             /\ Holds(u, k)' => Has(u, k)
             /\ ~(Holds(u, k)' /\ Queues(u, k)')
  <2>1. CASE u # t
    <3>1. (Holds(u, k)' <=> Holds(u, k)) /\ (Queues(u, k)' <=> Queues(u, k))
      BY <1>5, <1>6, <2>1 DEF Holds, Queues
    <3> QED
      BY <1>0, <3>1 DEF Has, KeyInv
  <2>2. CASE u = t
    <3>1. Queues(t, k)' => Queues(t, k) /\ k # mailbox[t][1]
      BY <1>8 DEF Queues
    <3>2. Holds(t, k)' => k = mailbox[t][1] /\ Queues(t, k)
      BY <1>5, <1>8 DEF Holds, Queues
    <3> QED
      BY <2>2, <3>1, <3>2 DEF Has
  <2> QED
    BY <2>1, <2>2
<1>10. \A u \in Fences, k \in Keys : Has(u, k)' => Has(u, k)
  BY <1>9 DEF Has
<1>11. \A u \in Fences, k \in Keys : Has(u, k) => ops[k] # "none"
  BY <1>0 DEF KeyInv
<1>12. \A u \in Fences : \A i, j \in DOMAIN mailbox'[u] : mailbox'[u][i] = mailbox'[u][j] => i = j
  <2> SUFFICES ASSUME NEW u \in Fences, NEW i \in DOMAIN mailbox'[u], NEW j \in DOMAIN mailbox'[u],
                      mailbox'[u][i] = mailbox'[u][j]
               PROVE  i = j
    OBVIOUS
  <2>1. CASE u # t
    BY <1>0, <1>6, <2>1 DEF KeyInv
  <2>2. CASE u = t
    <3>1. i + 1 = j + 1
      BY <1>8, <2>2
    <3>2. i \in Nat /\ j \in Nat
      BY <1>3, <1>6, <2>2
    <3> QED
      BY <3>1, <3>2
  <2> QED
    BY <2>1, <2>2
<1>13. \A u \in Fences : worker'[u].pc # "idle" => worker'[u].key \in Keys
  BY <1>0, <1>3, <1>5 DEF KeyInv
<1>14. KeyInv'
  BY <1>0, <1>1, <1>9, <1>10, <1>11, <1>12, <1>13, KeyShrink
<1>15. Works
  <2>1. Queues(t, worker'[t].key)
    BY <1>5, <1>8 DEF Queues
  <2>2. \A u \in Fences : Goes(u)
    BY <1>1, <1>5, <2>1 DEF Goes
  <2>3. OpsMove
    BY <1>0, <1>1 DEF OpsMove, TypeInv
  <2> QED
    BY <1>9, <2>2, <2>3 DEF Works
<1> QED
  BY <1>0, <1>1, <1>5, <1>6, <1>7, <1>14, <1>15 DEF KeyLayer, TypeInv

(* The worker goes on. *)
LEMMA GoesOn ==
  ASSUME IInv, own' = own, scene' = scene, mailbox' = mailbox, OpsMove,
         NEW t \in Fences, NEW pc, Goto(t, pc), <<worker[t].pc, pc>> \in Moves
  PROVE  /\ KeyLayer /\ worker'[t].pc = pc /\ worker'[t].key = worker[t].key
         /\ \A u \in Fences : u # t => worker'[u] = worker[u]
<1>0. TypeInv /\ IdleInv /\ KeyInv
  BY DEF IInv
<1>1. worker' = [worker EXCEPT ![t].pc = pc] /\ dispatcher' = dispatcher
  BY DEF Goto
<1>2. worker[t] \in Stations /\ worker[t].pc # "idle" /\ pc # "idle"
  BY <1>0, Sorts DEF Moves
<1>3. [worker[t] EXCEPT !.pc = pc] \in Stations
  BY <1>2 DEF Stations, Moves
<1>4. /\ worker' \in [Fences -> Stations] /\ worker'[t] = [worker[t] EXCEPT !.pc = pc]
      /\ \A u \in Fences : u # t => worker'[u] = worker[u]
  BY <1>0, <1>1, <1>3 DEF TypeInv
<1>5. worker'[t].pc = pc /\ worker'[t].key = worker[t].key
  BY <1>2, <1>4 DEF Stations
<1>6. IdleInv'
  <2>1. ~(t > own)
    BY <1>0, <1>2 DEF IdleInv
  <2>2. Dispatchers' = Dispatchers
    BY DEF Dispatchers, steers
  <2> QED
    BY <1>0, <1>1, <1>4, <2>1, <2>2 DEF IdleInv
<1>7. \A u \in Fences, k \in Keys :
        /\ Holds(u, k)' => Holds(u, k)
        /\ Queues(u, k)' => Queues(u, k)
        /\ Has(u, k)' => Has(u, k) /\ ops[k] # "none" /\ ops'[k] # "none"
  <2>1. \A u \in Fences, k \in Keys : (Holds(u, k)' => Holds(u, k)) /\ (Queues(u, k)' => Queues(u, k))
    BY <1>2, <1>4, <1>5 DEF Holds, Queues
  <2> QED
    BY <1>0, <2>1 DEF Has, KeyInv, OpsMove
<1>8. KeyInv'
  <2>1. \A u \in Fences : worker'[u].pc # "idle" => worker'[u].key \in Keys
    BY <1>0, <1>2, <1>4, <1>5 DEF KeyInv
  <2>2. \A u \in Fences, k \in Keys : ~(Holds(u, k)' /\ Queues(u, k)')
    BY <1>0, <1>7 DEF KeyInv
  <2>3. \A u \in Fences : \A i, j \in DOMAIN mailbox'[u] : mailbox'[u][i] = mailbox'[u][j] => i = j
    BY <1>0 DEF KeyInv
  <2> QED
    BY <1>0, <1>1, <1>7, <2>1, <2>2, <2>3, KeyShrink
<1>9. Works
  <2>1. \A u \in Fences : Goes(u)
    BY <1>2, <1>4, <1>5 DEF Goes
  <2> QED
    BY <1>7, <2>1 DEF Works
<1> QED
  BY <1>0, <1>1, <1>4, <1>5, <1>6, <1>8, <1>9 DEF KeyLayer, TypeInv

(* The worker is done, and the desk that waits is told. *)
LEMMA Delivers ==
  ASSUME IInv, own' = own, scene' = scene, mailbox' = mailbox, OpsMove,
         NEW t \in Fences, worker[t].pc # "idle",
         NEW out \in {"ok", "rejected", "ambiguous", "fence", "deferred"}, Deliver(t, out),
         NEW k, k = worker[t].key
  PROVE  /\ KeyLayer /\ Gone(k)' /\ worker'[t].pc = "idle"
         /\ \A u \in Fences : u # t => worker'[u] = worker[u]
         /\ dispatcher'[Desk(t, k)].pc = "finish"
         /\ \A u \in Fences, e \in Dispatchers :
              \/ dispatcher'[<<u, e>>] = dispatcher[<<u, e>>]
              \/ /\ u = t /\ dispatcher[<<u, e>>].pc = "await" /\ dispatcher[<<u, e>>].key = k
                 /\ dispatcher'[<<u, e>>].key = k
                 /\ dispatcher'[<<u, e>>].pc = "finish" /\ dispatcher'[<<u, e>>].out = out
<1>0. TypeInv /\ IdleInv /\ KeyInv
  BY DEF IInv
<1>1. /\ worker' = [worker EXCEPT ![t] = Resting]
      /\ dispatcher' = [x \in Fences \X Dispatchers |->
           IF x[1] = t /\ dispatcher[x].pc = "await" /\ dispatcher[x].key = k
           THEN [dispatcher[x] EXCEPT !.pc = "finish", !.out = out]
           ELSE dispatcher[x]]
  BY DEF Deliver
<1>2. /\ k \in Keys /\ ops[k] # "none" /\ Has(t, k)
      /\ \A u \in Fences : (Has(u, k) => u = t) /\ ~Queues(u, k)
  BY <1>0, OneHas
<1>3. Resting \in Stations /\ Resting.pc = "idle"
  BY DEF Stations, Resting
<1>4. /\ worker' \in [Fences -> Stations] /\ worker'[t].pc = "idle"
      /\ \A u \in Fences : u # t => worker'[u] = worker[u]
  BY <1>0, <1>1, <1>3 DEF TypeInv
<1>5. ASSUME NEW u \in Fences, NEW e \in Dispatchers
      PROVE  /\ dispatcher'[<<u, e>>] \in Desks
             /\ \/ dispatcher'[<<u, e>>] = dispatcher[<<u, e>>]
                \/ /\ u = t /\ dispatcher[<<u, e>>].pc = "await" /\ dispatcher[<<u, e>>].key = k
                   /\ dispatcher'[<<u, e>>].key = k
                   /\ dispatcher'[<<u, e>>].pc = "finish" /\ dispatcher'[<<u, e>>].out = out
             /\ u = t /\ dispatcher[<<u, e>>].pc = "await" /\ dispatcher[<<u, e>>].key = k =>
                  dispatcher'[<<u, e>>].pc = "finish"
  <2> DEFINE x == <<u, e>>
  <2>1. x \in Fences \X Dispatchers /\ x[1] = u /\ dispatcher[x] \in Desks
    BY <1>0 DEF TypeInv
  <2> HIDE DEF x
  <2>2. dispatcher'[x] = IF u = t /\ dispatcher[x].pc = "await" /\ dispatcher[x].key = k
                         THEN [dispatcher[x] EXCEPT !.pc = "finish", !.out = out]
                         ELSE dispatcher[x]
    BY <1>1, <2>1
  <2>3. LET v == [dispatcher[x] EXCEPT !.pc = "finish", !.out = out] IN
        v \in Desks /\ v.pc = "finish" /\ v.out = out /\ v.key = dispatcher[x].key
    BY <2>1 DEF Desks
  <2>4. /\ dispatcher'[x] \in Desks
        /\ \/ dispatcher'[x] = dispatcher[x]
           \/ /\ u = t /\ dispatcher[x].pc = "await" /\ dispatcher[x].key = k
              /\ dispatcher'[x].key = k
              /\ dispatcher'[x].pc = "finish" /\ dispatcher'[x].out = out
        /\ u = t /\ dispatcher[x].pc = "await" /\ dispatcher[x].key = k => dispatcher'[x].pc = "finish"
    BY <2>1, <2>2, <2>3
  <2> QED
    BY <2>4 DEF x
<1>6. dispatcher' \in [Fences \X Dispatchers -> Desks]
  <2>1. \A x \in Fences \X Dispatchers : dispatcher'[x] \in Desks
    BY <1>5
  <2>2. dispatcher' = [x \in Fences \X Dispatchers |-> dispatcher'[x]]
    BY <1>1
  <2> QED
    BY <2>1, <2>2
<1>7. IdleInv'
  <2>1. ~(t > own)
    BY <1>0 DEF IdleInv
  <2>2. Dispatchers' = Dispatchers
    BY DEF Dispatchers, steers
  <2>3. \A u \in Fences, e \in Dispatchers : u # t => dispatcher'[<<u, e>>] = dispatcher[<<u, e>>]
    BY <1>5
  <2> QED
    BY <1>0, <1>4, <2>1, <2>2, <2>3 DEF IdleInv
<1>8. \A u \in Fences, c \in Keys :
        /\ Holds(u, c)' => Holds(u, c) /\ u # t
        /\ Queues(u, c)' => Queues(u, c)
  BY <1>4 DEF Holds, Queues
<1>9. \A u \in Fences, c \in Keys : Has(u, c)' => Has(u, c) /\ ops[c] # "none" /\ ops'[c] # "none"
  BY <1>0, <1>8 DEF Has, KeyInv, OpsMove
<1>10. Gone(k)'
  <2>1. \A u \in Fences : ~Has(u, k)'
    <3>1. \A u \in Fences : Holds(u, k)' => Has(u, k) /\ u # t
      BY <1>2, <1>8 DEF Has
    <3> QED
      BY <1>2, <1>8, <3>1 DEF Has
  <2> QED
    BY <2>1 DEF Gone, Fences
<1>11. ASSUME NEW u \in Fences, NEW c \in Keys, Has(u, c)'
       PROVE  dispatcher'[Desk(u, c)] = dispatcher[Desk(u, c)]
  <2>1. Has(u, c)
    BY <1>9, <1>11
  <2>2. Desk(u, c)[2] \in Dispatchers /\ dispatcher[Desk(u, c)].key = c
    BY <1>0, <2>1 DEF KeyInv
  <2>3. c # k
    BY <1>10, <1>11 DEF Gone, Fences
  <2> QED
    BY <1>5, <2>2, <2>3 DEF Desk
<1>12. KeyInv'
  <2>1. \A u \in Fences : worker'[u].pc # "idle" => worker'[u].key \in Keys
    BY <1>0, <1>4 DEF KeyInv
  <2>2. \A u \in Fences, c \in Keys : ~(Holds(u, c)' /\ Queues(u, c)')
    BY <1>0, <1>8 DEF KeyInv
  <2>3. \A u \in Fences : \A i, j \in DOMAIN mailbox'[u] : mailbox'[u][i] = mailbox'[u][j] => i = j
    BY <1>0 DEF KeyInv
  <2> QED
    BY <1>0, <1>9, <1>11, <2>1, <2>2, <2>3, KeyShrink
<1>13. Works
  <2>1. \A u \in Fences : Goes(u)
    BY <1>4 DEF Goes
  <2> QED
    BY <1>8, <2>1 DEF Works
<1>14. dispatcher'[Desk(t, k)].pc = "finish"
  <2>1. Desk(t, k)[2] \in Dispatchers /\ dispatcher[Desk(t, k)].pc = "await" /\ dispatcher[Desk(t, k)].key = k
    BY <1>0, <1>2 DEF KeyInv
  <2> QED
    BY <1>5, <2>1 DEF Desk
<1> QED
  BY <1>0, <1>4, <1>5, <1>6, <1>7, <1>10, <1>12, <1>13, <1>14 DEF KeyLayer, TypeInv
-----------------------------------------------------------------------------
(* What a step may do to a row: it settles it, makes it, takes a claim back or makes one. *)
Calm(s) ==
  /\ row'[s].src = row[s].src
  /\ row'[s].state = "absent" <=> row[s].state = "absent"
  /\ row[s].accepted => row'[s].accepted
  /\ row[s].observed => row'[s].observed \/ row'[s].state = "rejected"
  /\ row'[s].queue = "local_queued" => row[s].queue = "local_queued"
  /\ row'[s].state = "submitting" => row[s].state = "submitting"
  /\ row'[s].state = "submitted_unknown" =>
       row[s].state = "submitted_unknown" \/ \A t \in Fences : t # own => ~Holds(t, row[s].src)
  /\ s \notin steers /\ row'[s].state \in Awaited =>
       row[s].state \in Awaited \/ (Engaged(<<own, Pump>>) /\ dispatcher[<<own, Pump>>].key.sub = s)
  /\ row'[s].state = "local_queued" =>
       row[s].state = "local_queued" /\ (row'[s].queue = row[s].queue \/ ~Engaged(<<own, Pump>>)')
  /\ s \notin steers /\ row'[s].state = "rejected" => row[s].state = "rejected" \/ Refused(s)'

Enters(s) ==
  /\ row[s].state = "absent" /\ s \in content'
  /\ row'[s].src = NoOp /\ row'[s].state = "local_queued" /\ row'[s].queue = "local_queued"

Requeued(s) ==
  /\ Unclaims(s) /\ ~Closed(s) /\ row[s].state # "absent"
  /\ row'[s].state = "local_queued" /\ row'[s].queue = "local_queued"
  /\ row[s].state \in {"submitting", "submitted_unknown"} \/ row[s].queue = "local_queued"

Claims(s) ==
  /\ worker[own].pc = "claim" /\ worker[own].key.sub = s /\ row'[s].src = worker[own].key
  /\ row[s].state = "local_queued" /\ row[s].queue = "local_queued"
  /\ row'[s].state = "submitting" /\ row'[s].queue = "submitting"

RowStep(s) == Calm(s) \/ Enters(s) \/ Requeued(s) \/ Claims(s)

(* To a desk: it is left, goes on with its key, or takes a message that waits. *)
Opens(t, d, k) ==
  /\ t = own /\ dispatcher'[<<t, d>>].pc = "submit" /\ k = dispatcher'[<<t, d>>].key /\ k \in Keys
  /\ k.path = (IF d = Pump THEN "queue" ELSE "send") /\ (d # Pump => k.sub = d)
  /\ row'[k.sub].state = "local_queued"
  /\ d = Pump /\ k.sub \notin steers => Clear(k.sub)'

DeskStep(t, d) ==
  \/ dispatcher'[<<t, d>>] = dispatcher[<<t, d>>]
  \/ ~Engaged(<<t, d>>)'
  \/ /\ Engaged(<<t, d>>) /\ dispatcher[<<t, d>>].pc # "finish"
     /\ dispatcher'[<<t, d>>].key = dispatcher[<<t, d>>].key
     /\ dispatcher'[<<t, d>>].pc = "finish" =>
          Told(dispatcher[<<t, d>>].out, dispatcher[<<t, d>>].key)'
  \/ \E k \in Keys : Opens(t, d, k)

FrameStep ==
  \A s \in Subs : frame'[s] = frame[s] \/ frame[s] = "sent" \/ \E t \in Fences : Holds(t, row[s].src)

OrderStep == order' = order \/ \E s \in Subs : Enters(s) /\ order' = Append(order, s)

ContentStep ==
  \A s \in Subs :
    /\ row'[s].state # "absent" /\ s \notin content' => (row[s].state # "absent" /\ s \notin content) \/ Closed(s)'
    /\ <<s, "rejected", 0>> \in journal' => <<s, "rejected", 0>> \in journal \/ Closed(s)'
    /\ <<s, "ambiguous", 0>> \in journal' => <<s, "ambiguous", 0>> \in journal \/ Closed(s)'

(* A key of a message that is no steer is the pump's. *)
LEMMA PumpKey ==
  ASSUME TypeInv, KeyInv, NEW t \in Fences, NEW k \in Keys, Has(t, k), k.sub \notin steers
  PROVE  dispatcher[<<t, Pump>>].pc = "await" /\ dispatcher[<<t, Pump>>].key = k
<1>1. Desk(t, k)[2] \in Dispatchers /\ dispatcher[Desk(t, k)].pc = "await" /\ dispatcher[Desk(t, k)].key = k
  BY DEF KeyInv
<1>2. k.path = "queue"
  BY <1>1, KeyFields, Sorts DEF Desk
<1> QED
  BY <1>1, <1>2 DEF Desk

(* Whoever holds a row's claim held it before, or makes it. *)
LEMMA ClaimHolder ==
  ASSUME IInv, KeyLayer, TypeInv', NEW s \in Subs, RowStep(s), NEW c, c = row'[s].src,
         NEW u \in Fences, Has(u, c)'
  PROVE  (c = row[s].src /\ Holds(u, c)) \/ (Claims(s) /\ u = own)
<1>0. TypeInv /\ KeyInv /\ SrcInv /\ KeyInv' /\ Works
  BY DEF IInv, KeyLayer
<1>1. c # NoOp
  <2>1. Gone(NoOp)'
    BY <1>0, NoOpGone, PTL
  <2> QED
    BY <2>1 DEF Gone, Has, Holds, Queues, Fences
<1>2. CASE Calm(s)
  <2>1. c = row[s].src /\ c \in Keys /\ ops[c] # "none" /\ ~Queues(u, c)
    <3>1. c = row[s].src
      BY <1>2 DEF Calm
    <3>2. c \in Keys
      BY <1>0, <1>1, <3>1, Sorts, RowFields
    <3> QED
      BY <1>0, <1>1, <3>1, <3>2 DEF SrcInv
  <2>2. Has(u, c)
    BY <1>0, <2>1, KeysStay
  <2> QED
    BY <2>1, <2>2 DEF Has
<1>3. CASE Claims(s)
  <2>1. worker[own].pc # "idle" /\ c = worker[own].key /\ own \in Fences
    BY <1>0, <1>3, Sorts DEF Claims
  <2>2. c \in Keys /\ ops[c] # "none" /\ (Has(u, c) => u = own)
    BY <1>0, <2>1, OneHas
  <2> QED
    BY <1>0, <1>3, <2>2, KeysStay
<1>4. CASE Enters(s) \/ Requeued(s)
  BY <1>1, <1>4 DEF Enters, Requeued, Unclaims
<1> QED
  BY <1>2, <1>3, <1>4 DEF RowStep

(* A closed message stays closed. *)
LEMMA ClosedStays ==
  ASSUME IInv, KeyLayer, TypeInv', own' = own, NEW s \in Subs, RowStep(s), Closed(s)
  PROVE  Closed(s)'
<1>1. Calm(s)
  BY DEF RowStep, Enters, Requeued, Claims, Closed
<1>2. row[s].src = row'[s].src
  BY <1>1 DEF Calm
<1>3. ASSUME Gone(row[s].src) PROVE Gone(row[s].src)'
  <2> SUFFICES ASSUME NEW u \in Fences, NEW c, c = row'[s].src, Has(u, c)' PROVE FALSE
    BY DEF Gone, Has, Holds, Queues, Fences
  <2>1. Holds(u, c)
    BY <1>1, ClaimHolder DEF Calm, Claims, RowStep
  <2> QED
    BY <1>2, <1>3, <2>1 DEF Gone, Has
<1>4. ASSUME \A t \in Fences : t # own => ~Holds(t, row[s].src)
      PROVE  (\A t \in Fences : t # own => ~Holds(t, row[s].src))'
  <2> SUFFICES ASSUME NEW u \in Fences, u # own, NEW c, c = row'[s].src, Holds(u, c)' PROVE FALSE
    BY DEF Holds, Fences
  <2>1. Has(u, c)'
    BY DEF Has
  <2>2. Holds(u, c)
    BY <2>1, ClaimHolder
  <2> QED
    BY <1>2, <1>4, <2>2
<1>5. row'[s].state # "absent" /\ row'[s].queue # "local_queued"
  BY <1>1 DEF Closed, Calm
<1>6. CASE row[s].accepted
  BY <1>1, <1>5, <1>6 DEF Closed, Calm
<1>7. CASE row[s].observed
  BY <1>1, <1>5, <1>7 DEF Closed, Calm
<1>8. CASE Gone(row[s].src)
  BY <1>3, <1>5, <1>8 DEF Closed
<1>9. CASE row[s].state \notin {"submitting", "submitted_unknown"}
  <2>1. row'[s].state # "submitting"
    BY <1>1, <1>9 DEF Calm
  <2>2. row'[s].state = "submitted_unknown" => \A t \in Fences : t # own => ~Holds(t, row[s].src)
    BY <1>1, <1>9 DEF Calm
  <2> QED
    BY <1>4, <1>5, <2>1, <2>2 DEF Closed
<1>10. CASE row[s].state = "submitted_unknown" /\ \A t \in Fences : t # own => ~Holds(t, row[s].src)
  <2>1. row'[s].state # "submitting"
    BY <1>1, <1>10 DEF Calm
  <2> QED
    BY <1>4, <1>5, <1>10, <2>1 DEF Closed
<1> QED
  BY <1>6, <1>7, <1>8, <1>9, <1>10 DEF Closed

(* A desk that is engaged was so before with its key, or opens. *)
LEMMA DeskGoesOn ==
  ASSUME NEW t \in Fences, NEW d \in Dispatchers, DeskStep(t, d), Engaged(<<t, d>>)'
  PROVE  \/ /\ Engaged(<<t, d>>) /\ dispatcher'[<<t, d>>].key = dispatcher[<<t, d>>].key
            /\ dispatcher'[<<t, d>>].pc # "finish" => dispatcher[<<t, d>>].pc # "finish"
         \/ \E k \in Keys : Opens(t, d, k)
<1>1. CASE dispatcher'[<<t, d>>] = dispatcher[<<t, d>>]
  <2>1. dispatcher'[<<t, d>>].pc = dispatcher[<<t, d>>].pc /\ dispatcher'[<<t, d>>].key = dispatcher[<<t, d>>].key
    BY <1>1
  <2>2. dispatcher'[<<t, d>>].pc \in {"submit", "await", "finish"}
    BY DEF Engaged
  <2> QED
    BY <2>1, <2>2 DEF Engaged
<1> QED
  BY <1>1 DEF DeskStep

(* The steps of the own runtime keep the rest of the invariant. *)
LEMMA Onward ==
  ASSUME IInv, KeyLayer, TypeInv', RowInv', own' = own, scene' = scene,
         \A s \in Subs : RowStep(s), \A t \in Fences, d \in Dispatchers : DeskStep(t, d),
         FrameStep, OrderStep, ContentStep, broken' = broken \/ steers # {}
  PROVE  /\ DeskInv' /\ OutInv' /\ ContentInv' /\ HandInv' /\ PumpInv' /\ RejectedInv'
         /\ OrderInv' /\ ReducerSurvives'
<1>0. /\ TypeInv /\ KeyInv /\ KeyInv' /\ Works /\ OpsMove /\ DeskInv /\ OutInv /\ ContentInv /\ HandInv
      /\ PumpInv /\ RejectedInv /\ OrderInv /\ ReducerSurvives /\ RowInv
  BY DEF IInv, KeyLayer, Works
<1>1. steers' = steers /\ Dispatchers' = Dispatchers
  BY DEF steers, Dispatchers
<1>2. /\ own \in Fences /\ Pump \in Dispatchers /\ steers \subseteq Subs
      /\ NoOp \notin Keys /\ \A k \in Keys : k.sub \in Subs
  BY <1>0, Sorts, KeyFields
<1>3. \A s \in Subs : row[s].state # "absent" => row'[s].state # "absent"
  BY DEF RowStep, Calm, Enters, Requeued, Claims
<1>4. DeskInv'
  <2> SUFFICES ASSUME NEW t \in Fences, NEW d \in Dispatchers, Engaged(<<t, d>>)', NEW k, k = dispatcher'[<<t, d>>].key
               PROVE  /\ k \in Keys /\ row'[k.sub].state # "absent"
                      /\ k.path = IF d = Pump THEN "queue" ELSE "send"
                      /\ d # Pump => k.sub = d
    BY <1>1 DEF DeskInv
  <2>1. CASE Engaged(<<t, d>>) /\ k = dispatcher[<<t, d>>].key
    <3>1. /\ k \in Keys /\ row[k.sub].state # "absent"
          /\ k.path = IF d = Pump THEN "queue" ELSE "send"
          /\ d # Pump => k.sub = d
      BY <1>0, <2>1 DEF DeskInv
    <3> QED
      BY <1>2, <1>3, <3>1
  <2>2. CASE \E c \in Keys : Opens(t, d, c)
    BY <2>2 DEF Opens
  <2> QED
    BY <2>1, <2>2, DeskGoesOn
<1>5. OutInv'
  <2> SUFFICES ASSUME NEW t \in Fences, NEW d \in Dispatchers, dispatcher'[<<t, d>>].pc = "finish"
               PROVE  Told(dispatcher[<<t, d>>].out, dispatcher[<<t, d>>].key)'
    BY <1>1 DEF OutInv
  <2>1. CASE dispatcher'[<<t, d>>] = dispatcher[<<t, d>>]
    <3>1. PICK k : k = dispatcher[<<t, d>>].key
      OBVIOUS
    <3>2. PICK out : out = dispatcher[<<t, d>>].out
      OBVIOUS
    <3>3. k = dispatcher'[<<t, d>>].key /\ out = dispatcher'[<<t, d>>].out /\ dispatcher[<<t, d>>].pc = "finish"
      BY <2>1, <3>1, <3>2
    <3>4. k \in Keys
      BY <1>0, <3>1, <3>3 DEF DeskInv, Engaged
    <3>5. Told(out, k)
      BY <1>0, <3>1, <3>2, <3>3 DEF OutInv
    <3>6. ASSUME out = "fence" PROVE Gone(k)' /\ ops'[k] # "none" /\ row'[k.sub].src # k
      <4>1. Gone(k) /\ ops[k] # "none" /\ row[k.sub].src # k
        BY <3>5, <3>6 DEF Told
      <4>2. Gone(k)'
        BY <1>0, <3>4, <4>1, GoneStays
      <4>3. ASSUME Claims(k.sub) PROVE worker[own].key # k
        <5>1. Holds(own, worker[own].key)
          BY <4>3 DEF Claims, Holds
        <5> QED
          BY <1>2, <4>1, <5>1 DEF Gone, Has
      <4>4. RowStep(k.sub) /\ k # NoOp
        BY <1>2, <3>4
      <4>5. row'[k.sub].src # k
        BY <4>1, <4>3, <4>4 DEF RowStep, Calm, Enters, Requeued, Unclaims, Claims
      <4> QED
        BY <1>0, <3>4, <4>1, <4>2, <4>5 DEF OpsMove
    <3>7. /\ out = "ok" => ops'[k] = "confirmed"
          /\ out = "rejected" => ops'[k] = "rejected"
      BY <1>0, <3>4, <3>5 DEF Told, OpsMove
    <3>8. Told(out, k)'
      BY <3>6, <3>7 DEF Told
    <3> QED
      BY <3>3, <3>8 DEF Told, Gone, Has, Holds, Queues
  <2>2. CASE dispatcher'[<<t, d>>] # dispatcher[<<t, d>>]
    BY <2>2 DEF DeskStep, Engaged, Opens
  <2> QED
    BY <2>1, <2>2
<1>6. ContentInv'
  BY <1>0, ClosedStays DEF ContentInv, ContentStep
<1>7. HandInv'
  <2> SUFFICES ASSUME NEW d \in Dispatchers, Engaged(<<own, d>>)', NEW k, k = dispatcher'[<<own, d>>].key,
                      NEW t \in Fences, t # own, NEW c, c = row'[k.sub].src, Holds(t, c)'
               PROVE  FALSE
    BY <1>1 DEF HandInv, Holds, Engaged, Fences
  <2>1. k \in Keys /\ k.sub \in Subs
    BY <1>1, <1>2, <1>4 DEF DeskInv, Engaged
  <2>2. Has(t, c)'
    BY DEF Has
  <2>3. c = row[k.sub].src /\ Holds(t, c)
    BY <2>1, <2>2, ClaimHolder
  <2>4. CASE Engaged(<<own, d>>) /\ k = dispatcher[<<own, d>>].key
    BY <1>0, <2>3, <2>4 DEF HandInv
  <2>5. CASE \E b \in Keys : Opens(own, d, b)
    <3>1. row'[k.sub].state = "local_queued"
      BY <2>5 DEF Opens
    <3>2. c = NoOp
      BY <2>1, <3>1 DEF RowInv, RowOK
    <3>3. Gone(NoOp)
      BY <1>0, NoOpGone
    <3> QED
      BY <2>3, <3>2, <3>3 DEF Gone, Has
  <2> QED
    BY <1>2, <2>4, <2>5, DeskGoesOn
<1>8. PumpInv'
  <2> SUFFICES ASSUME Engaged(<<own, Pump>>)', NEW k, k = dispatcher'[<<own, Pump>>].key, k.sub \notin steers
               PROVE  /\ row'[k.sub].src \in {NoOp, k}
                      /\ dispatcher'[<<own, Pump>>].pc # "finish" => Clear(k.sub)'
    BY <1>1 DEF PumpInv, Engaged, Clear
  <2>1. k \in Keys /\ k.sub \in Subs /\ row'[k.sub].state # "absent"
    BY <1>1, <1>2, <1>4 DEF DeskInv, Engaged
  <2>2. CASE \E c \in Keys : Opens(own, Pump, c)
    <3>1. row'[k.sub].state = "local_queued" /\ Clear(k.sub)'
      BY <2>2 DEF Opens
    <3> QED
      BY <2>1, <3>1 DEF RowInv, RowOK
  <2>3. CASE /\ Engaged(<<own, Pump>>) /\ k = dispatcher[<<own, Pump>>].key
             /\ dispatcher'[<<own, Pump>>].pc # "finish" => dispatcher[<<own, Pump>>].pc # "finish"
    <3>1. row[k.sub].src \in {NoOp, k} /\ row[k.sub].state # "absent"
      BY <1>0, <1>2, <2>3 DEF PumpInv, DeskInv
    <3>2. ASSUME NEW r \in Subs \ steers, Claims(r) PROVE r = k.sub /\ worker[own].key = k
      <4>1. /\ worker[own].pc # "idle" /\ worker[own].key.sub = r
        BY <3>2 DEF Claims
      <4>2. worker[own].key \in Keys /\ Has(own, worker[own].key)
        BY <1>0, <1>2, <4>1, OneHas
      <4> QED
        BY <1>0, <1>2, <2>3, <3>2, <4>1, <4>2, PumpKey
    <3>3. row'[k.sub].src \in {NoOp, k}
      BY <2>1, <3>1, <3>2 DEF RowStep, Calm, Enters, Requeued, Unclaims, Claims
    <3>4. ASSUME dispatcher'[<<own, Pump>>].pc # "finish" PROVE Clear(k.sub)'
      <4>1. Clear(k.sub)
        BY <1>0, <2>3, <3>4 DEF PumpInv
      <4>2. row'[k.sub].state = "local_queued" => row'[k.sub].queue = "local_queued"
        BY <2>1, <3>1, <4>1 DEF RowStep, Calm, Enters, Requeued, Claims, Clear
      <4>3. ASSUME NEW r \in Subs \ (steers \cup {k.sub}) PROVE row'[r].state \notin Awaited
        <5>1. row[r].state \notin Awaited /\ RowStep(r) /\ ~Claims(r)
          BY <3>2, <4>1 DEF Clear
        <5> QED
          BY <2>3, <5>1 DEF RowStep, Calm, Enters, Requeued, Awaited
      <4>4. ASSUME NEW i \in DOMAIN order, NEW j \in DOMAIN order, order[j] = k.sub, i < j, order[i] \notin steers
            PROVE  row'[order[i]].queue # "local_queued"
        <5>1. order[i] \in Subs /\ i \in Nat /\ j \in Nat
          BY <1>0 DEF TypeInv
        <5>2. order[i] # k.sub /\ row[order[i]].state # "absent"
          BY <1>0, <4>4, <5>1 DEF OrderInv
        <5>3. row[order[i]].queue # "local_queued" /\ row[order[i]].state \notin Awaited
          BY <4>1, <4>4, <5>1, <5>2 DEF Clear
        <5> QED
          BY <5>1, <5>2, <5>3 DEF RowStep, Calm, Enters, Requeued, Claims, Awaited
      <4>5. ASSUME NEW i \in DOMAIN order', NEW j \in DOMAIN order', order'[j] = k.sub, i < j, order'[i] \notin steers
            PROVE  row'[order'[i]].queue # "local_queued"
        <5>1. CASE order' = order
          BY <4>4, <4>5, <5>1
        <5>2. CASE \E s \in Subs : Enters(s) /\ order' = Append(order, s)
          <6>1. PICK s \in Subs : Enters(s) /\ order' = Append(order, s)
            BY <5>2
          <6>2. s # k.sub
            BY <3>1, <6>1 DEF Enters
          <6>3. order \in Seq(Subs)
            BY <1>0 DEF TypeInv
          <6>4. /\ DOMAIN order' = 1..(Len(order) + 1) /\ DOMAIN order = 1..Len(order) /\ Len(order) \in Nat
                /\ order'[Len(order) + 1] = s /\ \A n \in DOMAIN order : order'[n] = order[n]
            BY <6>1, <6>3
          <6>5. j \in DOMAIN order /\ i \in DOMAIN order
            BY <4>5, <6>2, <6>4
          <6> QED
            BY <4>4, <4>5, <6>4, <6>5
        <5> QED
          BY <5>1, <5>2 DEF OrderStep
      <4> QED
        BY <1>1, <4>2, <4>3, <4>5 DEF Clear
    <3> QED
      BY <3>3, <3>4
  <2> QED
    BY <1>2, <2>2, <2>3, DeskGoesOn
<1>9. RejectedInv'
  <2> SUFFICES ASSUME NEW s \in Subs, s \notin steers, row'[s].state = "rejected" PROVE Refused(s)'
    BY <1>1 DEF RejectedInv
  <2>1. RowStep(s) /\ Calm(s) /\ row'[s].src = row[s].src
    BY DEF RowStep, Calm, Enters, Requeued, Claims
  <2>2. CASE Refused(s)'
    BY <2>2
  <2>3. CASE row[s].state = "rejected"
    <3>1. frame[s] \in {"none", "refused"} /\ Gone(row[s].src)
      BY <1>0, <2>3 DEF RejectedInv, Refused
    <3>2. frame'[s] = frame[s]
      BY <3>1 DEF FrameStep, Gone, Has
    <3>3. Gone(row[s].src)'
      <4> SUFFICES ASSUME NEW u \in Fences, NEW c, c = row'[s].src, Has(u, c)' PROVE FALSE
        BY DEF Gone, Has, Holds, Queues, Fences
      <4>1. Holds(u, row[s].src)
        BY <2>1, <2>3, ClaimHolder DEF Claims
      <4> QED
        BY <3>1, <4>1 DEF Gone, Has
    <3> QED
      BY <3>1, <3>2, <3>3 DEF Refused
  <2> QED
    BY <2>1, <2>2, <2>3 DEF Calm
<1>10. OrderInv'
  <2>1. order \in Seq(Subs)
    BY <1>0 DEF TypeInv
  <2>2. CASE order' = order
    BY <1>0, <1>3, <2>1, <2>2 DEF OrderInv
  <2>3. CASE \E s \in Subs : Enters(s) /\ order' = Append(order, s)
    <3>1. PICK s \in Subs : Enters(s) /\ order' = Append(order, s)
      BY <2>3
    <3>2. /\ DOMAIN order' = 1..(Len(order) + 1) /\ DOMAIN order = 1..Len(order) /\ Len(order) \in Nat
          /\ order'[Len(order) + 1] = s /\ \A n \in DOMAIN order : order'[n] = order[n] /\ order[n] \in Subs
      BY <2>1, <3>1
    <3>3. \A n \in DOMAIN order : order[n] # s /\ row'[order[n]].state # "absent"
      BY <1>0, <1>3, <3>1, <3>2 DEF OrderInv, Enters
    <3>4. \A n \in DOMAIN order' : n \in DOMAIN order \/ n = Len(order) + 1
      BY <3>2
    <3>5. \A i \in DOMAIN order' : row'[order'[i]].state # "absent"
      BY <3>1, <3>2, <3>3, <3>4 DEF Enters
    <3>6. \A i, j \in DOMAIN order' : order'[i] = order'[j] => i = j
      <4> SUFFICES ASSUME NEW i \in DOMAIN order', NEW j \in DOMAIN order', order'[i] = order'[j] PROVE i = j
        OBVIOUS
      <4>1. CASE i \in DOMAIN order /\ j \in DOMAIN order
        BY <1>0, <3>2, <4>1 DEF OrderInv
      <4>2. CASE i \in DOMAIN order /\ j = Len(order) + 1
        BY <3>2, <3>3, <4>2
      <4>3. CASE i = Len(order) + 1 /\ j \in DOMAIN order
        BY <3>2, <3>3, <4>3
      <4> QED
        BY <3>4, <4>1, <4>2, <4>3
    <3> QED
      BY <3>5, <3>6 DEF OrderInv
  <2> QED
    BY <2>2, <2>3 DEF OrderStep
<1>11. ReducerSurvives'
  BY <1>0, <1>1 DEF ReducerSurvives
<1> QED
  BY <1>4, <1>5, <1>6, <1>7, <1>8, <1>9, <1>10, <1>11
-----------------------------------------------------------------------------
(* Where no claim is made and nothing is sent, these facts about a step suffice. *)
LEMMA Preserved ==
  ASSUME IInv, KeyLayer, TypeInv', RowInv', own' = own, scene' = scene, sent' = sent, SettlesTruly,
         \A s \in Subs : RowStep(s) /\ ~Claims(s), \A t \in Fences, d \in Dispatchers : DeskStep(t, d),
         \A s \in Subs : frame'[s] = frame[s] \/ frame[s] = "sent",
         \A t \in Fences : ~(worker[t].pc = "send" /\ worker'[t].pc = "inflight"),
         \A t \in Fences : worker[t].pc = "read" /\ worker'[t].pc = "assert" =>
                             row'[worker[t].key.sub].src = worker[t].key,
         OrderStep, ContentStep, broken' = broken \/ steers # {}
  PROVE  IInv'
<1>1. FrameStep
  BY DEF FrameStep
<1>2. \A s \in Subs : row'[s].src = row[s].src \/ Unclaims(s)
  <2> SUFFICES ASSUME NEW s \in Subs PROVE row'[s].src = row[s].src \/ Unclaims(s)
    OBVIOUS
  <2>1. RowInv /\ TypeInv /\ SentInv
    BY DEF IInv
  <2>2. CASE Enters(s)
    <3>1. row[s].src = NoOp
      BY <2>1, <2>2 DEF RowInv, RowOK, Enters
    <3> QED
      BY <2>2, <3>1 DEF Enters
  <2> QED
    BY <2>2 DEF RowStep, Calm, Requeued
<1>3. Works /\ IdleInv' /\ KeyInv'
  BY DEF KeyLayer
<1>4. SrcInv' /\ StageInv' /\ SentInv' /\ OpInv'
  BY <1>2, <1>3, SourceKept
<1>5. /\ DeskInv' /\ OutInv' /\ ContentInv' /\ HandInv' /\ PumpInv' /\ RejectedInv'
      /\ OrderInv' /\ ReducerSurvives'
  BY <1>1, Onward
<1> QED
  BY <1>3, <1>4, <1>5 DEF IInv

(* A row that stays as it is. *)
LEMMA SameRow ==
  ASSUME NEW s \in Subs, row'[s] = row[s]
  PROVE  Calm(s) /\ RowStep(s) /\ ~Claims(s)
BY DEF RowStep, Calm, Claims

(* No row changes. *)
LEMMA SameRows ==
  ASSUME IInv, row' = row
  PROVE  RowInv' /\ \A s \in Subs : RowStep(s) /\ ~Claims(s)
<1>1. \A s \in Subs : row'[s] = row[s]
  OBVIOUS
<1>2. \A s \in Subs : RowStep(s) /\ ~Claims(s)
  BY <1>1, SameRow
<1>3. RowInv'
  BY DEF IInv, RowInv
<1> QED
  BY <1>2, <1>3

(* No operation changes. *)
LEMMA SameOps == ASSUME ops' = ops PROVE SettlesTruly
BY DEF SettlesTruly

(* No desk changes. *)
LEMMA SameDesks ==
  ASSUME dispatcher' = dispatcher
  PROVE  \A t \in Fences, d \in Dispatchers : DeskStep(t, d)
BY DEF DeskStep

(* No prompt is discarded and nothing is journalled. *)
LEMMA ContentKept ==
  ASSUME \A s \in Subs : RowStep(s), content \subseteq content', journal' = journal
  PROVE  ContentStep
BY DEF ContentStep, RowStep, Calm, Enters, Requeued, Claims

(* A step that leaves the rows, the operations and the tasks alone. *)
LEMMA QuietStep ==
  ASSUME IInv, row' = row, order' = order, ops' = ops, journal' = journal, own' = own, scene' = scene,
         content' = content, broken' = broken, dispatcher' = dispatcher, mailbox' = mailbox,
         worker' = worker, sent' = sent,
         frame' \in [Subs -> {"none", "sent", "taken", "refused"}],
         \A s \in Subs : frame'[s] = frame[s] \/ frame[s] = "sent"
  PROVE  IInv'
<1>1. TypeInv'
  BY DEF IInv, TypeInv, Dispatchers, steers
<1>2. KeyLayer
  BY NoKeys
<1>3. RowInv' /\ \A s \in Subs : RowStep(s) /\ ~Claims(s)
  BY SameRows
<1>4. OrderStep /\ ContentStep
  BY <1>3, ContentKept DEF OrderStep
<1>5. SettlesTruly /\ \A t \in Fences, d \in Dispatchers : DeskStep(t, d)
  BY SameOps, SameDesks
<1> QED
  BY <1>1, <1>2, <1>3, <1>4, <1>5, Preserved

(* The SDK takes a frame or refuses it, begins a turn and ends it. *)
LEMMA RuntimeKept ==
  ASSUME IInv, RuntimeStep
  PROVE  IInv'
<1>0. frame \in [Subs -> {"none", "sent", "taken", "refused"}]
  BY DEF IInv, TypeInv
<1>1. ASSUME NEW s \in Subs, RuntimeTakes(s) PROVE IInv'
  <2>1. /\ row' = row /\ order' = order /\ ops' = ops /\ journal' = journal /\ own' = own /\ scene' = scene
        /\ content' = content /\ broken' = broken /\ dispatcher' = dispatcher /\ mailbox' = mailbox
        /\ worker' = worker /\ sent' = sent
        /\ frame[s] = "sent" /\ (frame' = [frame EXCEPT ![s] = "taken"] \/ frame' = [frame EXCEPT ![s] = "refused"])
    BY <1>1 DEF RuntimeTakes, durable, memory
  <2>2. /\ frame' \in [Subs -> {"none", "sent", "taken", "refused"}]
        /\ \A r \in Subs : frame'[r] = frame[r] \/ frame[r] = "sent"
    BY <1>0, <2>1
  <2> QED
    BY <2>1, <2>2, QuietStep
<1>2. ASSUME (\E s \in Subs : RuntimeBegins(s)) \/ RuntimeIdles PROVE IInv'
  <2>1. /\ row' = row /\ order' = order /\ ops' = ops /\ journal' = journal /\ own' = own /\ scene' = scene
        /\ content' = content /\ broken' = broken /\ dispatcher' = dispatcher /\ mailbox' = mailbox
        /\ worker' = worker /\ sent' = sent /\ frame' = frame
    BY <1>2 DEF RuntimeBegins, RuntimeIdles, durable, memory
  <2> QED
    BY <1>0, <2>1, QuietStep
<1> QED
  BY <1>1, <1>2 DEF RuntimeStep

(* A drain or a transition begins or ends, or nothing happens. *)
LEMMA CircumstancesKept ==
  ASSUME IInv, DrainBegins \/ DrainEnds \/ TransitionBegins \/ TransitionSettles \/ UNCHANGED vars
  PROVE  IInv'
<1>0. frame \in [Subs -> {"none", "sent", "taken", "refused"}]
  BY DEF IInv, TypeInv
<1>1. /\ row' = row /\ order' = order /\ ops' = ops /\ journal' = journal /\ own' = own /\ scene' = scene
      /\ content' = content /\ broken' = broken /\ dispatcher' = dispatcher /\ mailbox' = mailbox
      /\ worker' = worker /\ sent' = sent /\ frame' = frame
  BY DEF DrainBegins, DrainEnds, TransitionBegins, TransitionSettles, vars, durable, memory, runtime
<1> QED
  BY <1>0, <1>1, QuietStep

(* Steps of one desk that leave the rows and the operations alone. *)
LEMMA OneDesk ==
  ASSUME IInv, row' = row, order' = order, ops' = ops, journal' = journal, own' = own, scene' = scene,
         content \subseteq content', broken' = broken, mailbox' = mailbox,
         worker' = worker, sent' = sent, frame' = frame,
         NEW t \in Fences, NEW d \in Dispatchers, NEW v \in Desks,
         t = own \/ dispatcher[<<t, d>>].pc # "idle", dispatcher[<<t, d>>].pc # "await",
         dispatcher' = [dispatcher EXCEPT ![<<t, d>>] = v],
         dispatcher'[<<t, d>>] = v => DeskStep(t, d)
  PROVE  IInv'
<1>1. /\ KeyLayer /\ dispatcher'[<<t, d>>] = v
      /\ \A u \in Fences, e \in Dispatchers : <<u, e>> # <<t, d>> => dispatcher'[<<u, e>>] = dispatcher[<<u, e>>]
  BY DeskOnly
<1>2. TypeInv'
  BY <1>1 DEF IInv, TypeInv, Dispatchers, steers, KeyLayer
<1>3. RowInv' /\ \A s \in Subs : RowStep(s) /\ ~Claims(s)
  BY SameRows
<1>4. OrderStep /\ ContentStep
  BY <1>3, ContentKept DEF OrderStep
<1>5. \A u \in Fences, e \in Dispatchers : DeskStep(u, e)
  <2> SUFFICES ASSUME NEW u \in Fences, NEW e \in Dispatchers, <<u, e>> # <<t, d>> PROVE DeskStep(u, e)
    BY <1>1
  <2> QED
    BY <1>1 DEF DeskStep
<1>6. SettlesTruly
  BY SameOps
<1> QED
  BY <1>1, <1>2, <1>3, <1>4, <1>5, <1>6, Preserved
-----------------------------------------------------------------------------
(* Desks at rest, and desks whose place changes. *)
LEMMA DeskValues ==
  /\ AtRest \in Desks /\ AtRest.pc = "idle"
  /\ \A v \in Desks, pc \in {"idle", "steer", "ready", "submit", "await", "finish"} :
       LET w == [v EXCEPT !.pc = pc] IN w \in Desks /\ w.pc = pc /\ w.key = v.key
  /\ \A k \in Keys :
       LET w == [pc |-> "submit", out |-> "none", key |-> k] IN w \in Desks /\ w.pc = "submit" /\ w.key = k
BY DEF Desks, AtRest

(* The attempts of a scene are within the bound. *)
LEMMA AttemptKey ==
  ASSUME TypeInv, NEW s \in Subs, NEW path \in {"send", "queue"}, row[s].attempt < scene.attempts
  PROVE  [sub |-> s, path |-> path, attempt |-> row[s].attempt] \in Keys
<1>1. MaxAttempt \in Nat /\ scene.attempts \in 1..MaxAttempt
  BY QueueAssumption DEF TypeInv
<1>2. row[s].attempt \in Nat
  BY Sorts, RowFields
<1>3. row[s].attempt \in 0..MaxAttempt - 1
  BY <1>1, <1>2
<1> QED
  BY <1>3 DEF Keys

(* steer() and the send() of an immediate message *)
LEMMA SteerKept ==
  ASSUME IInv, NEW s \in steers, SteerSeesTurn(s) \/ SteerLooks(s)
  PROVE  IInv'
<1>0. TypeInv /\ RowInv /\ own \in Fences /\ s \in Dispatchers /\ s \in Subs /\ s # Pump
  BY Sorts, KeyFields DEF IInv
<1>1. dispatcher[<<own, s>>] \in Desks
  BY <1>0, Sorts
<1>2. CASE SteerSeesTurn(s)
  <2>1. /\ row' = row /\ order' = order /\ ops' = ops /\ journal' = journal /\ own' = own /\ scene' = scene
        /\ content' = content /\ broken' = broken /\ mailbox' = mailbox
        /\ worker' = worker /\ sent' = sent /\ frame' = frame
        /\ dispatcher[<<own, s>>].pc = "idle"
        /\ dispatcher' = [dispatcher EXCEPT ![<<own, s>>] = [dispatcher[<<own, s>>] EXCEPT !.pc = "steer"]]
    BY <1>2 DEF SteerSeesTurn, durable, runtime
  <2> DEFINE v == [dispatcher[<<own, s>>] EXCEPT !.pc = "steer"]
  <2>2. v \in Desks /\ v.pc = "steer"
    BY <1>1, DeskValues
  <2> HIDE DEF v
  <2>3. dispatcher'[<<own, s>>] = v => DeskStep(own, s)
    BY <2>1, <2>2 DEF DeskStep, Engaged
  <2>4. dispatcher' = [dispatcher EXCEPT ![<<own, s>>] = v]
    BY <2>1 DEF v
  <2> QED
    BY <1>0, <2>1, <2>2, <2>3, <2>4, OneDesk
<1>3. CASE SteerLooks(s)
  <2> DEFINE k == [sub |-> s, path |-> "send", attempt |-> row[s].attempt]
             v == [pc |-> "submit", out |-> "none", key |-> k]
  <2>1. /\ row' = row /\ order' = order /\ ops' = ops /\ journal' = journal /\ own' = own /\ scene' = scene
        /\ content' = content \cup {s} /\ broken' = broken /\ mailbox' = mailbox
        /\ worker' = worker /\ sent' = sent /\ frame' = frame
        /\ dispatcher[<<own, s>>].pc = "idle"
        /\ row[s].state = "local_queued" /\ row[s].attempt < scene.attempts
        /\ dispatcher' = [dispatcher EXCEPT ![<<own, s>>] = v]
    BY <1>3 DEF SteerLooks, durable, runtime
  <2>2. k \in Keys
    BY <1>0, <2>1, AttemptKey
  <2>3. k.sub = s /\ k.path = "send"
    OBVIOUS
  <2> HIDE DEF k
  <2>4. v \in Desks /\ v.pc = "submit" /\ v.key = k
    BY <2>2, DeskValues
  <2> HIDE DEF v
  <2>5. dispatcher'[<<own, s>>] = v => Opens(own, s, k)
    BY <1>0, <2>1, <2>2, <2>3, <2>4 DEF Opens
  <2>6. dispatcher'[<<own, s>>] = v => DeskStep(own, s)
    BY <2>2, <2>5 DEF DeskStep
  <2> QED
    BY <1>0, <2>1, <2>4, <2>6, OneDesk
<1> QED
  BY <1>2, <1>3

(* The row that the pump serves is the first that waits. *)
LEMMA FirstWaits ==
  ASSUME TypeInv, Waiting # {}
  PROVE  /\ First \in Subs /\ row[First].queue = "local_queued"
         /\ \E i \in DOMAIN order : order[i] = First /\ \A j \in Waiting : i <= j
<1>1. order \in Seq(Subs) /\ Waiting \subseteq Nat /\ Waiting \subseteq DOMAIN order
  BY DEF TypeInv, Waiting
<1>2. \E i \in Waiting : \A j \in Waiting : i <= j
  <2> DEFINE R == OpToRel(<, Nat)
  <2>1. IsWellFoundedOn(R, Nat)
    BY NatLessThanWellFounded
  <2>2. \A a, b \in Nat : a < b => <<a, b>> \in R
    BY DEF OpToRel
  <2> HIDE DEF R
  <2>3. PICK i \in Waiting : \A j \in Waiting : ~ (<<j, i>> \in R)
    BY <1>1, <2>1, WFMin
  <2>4. ASSUME NEW j \in Waiting PROVE i <= j
    <3>1. i \in Nat /\ j \in Nat
      BY <1>1
    <3>2. ~ (j < i)
      BY <2>2, <2>3, <3>1
    <3> QED
      BY <3>1, <3>2
  <2> QED
    BY <2>4
<1>3. PICK i \in Waiting : First = order[i] /\ \A j \in Waiting : i <= j
  <2> DEFINE i == CHOOSE i \in Waiting : \A j \in Waiting : i <= j
  <2>1. i \in Waiting /\ \A j \in Waiting : i <= j
    BY <1>2
  <2> QED
    BY <2>1 DEF First
<1> QED
  BY <1>1, <1>3 DEF Waiting

(* Whatever the pump chooses, nothing is in its way. *)
LEMMA FirstIsClear ==
  ASSUME IInv, Waiting # {}, ~SomethingUnsettled
  PROVE  Clear(First) /\ First \in Subs /\ row[First].state = "local_queued" /\ row[First].queue = "local_queued"
<1>0. TypeInv /\ RowInv /\ OrderInv
  BY DEF IInv
<1>1. First \in Subs /\ row[First].queue = "local_queued"
  BY <1>0, FirstWaits
<1>2. PICK i \in DOMAIN order : order[i] = First /\ \A j \in Waiting : i <= j
  BY <1>0, FirstWaits
<1>3. row[First].state = "local_queued"
  BY <1>0, <1>1 DEF RowInv, RowOK
<1>4. \A r \in Subs : row[r].state \notin Awaited
  BY DEF SomethingUnsettled, Unsettled, Awaited
<1>5. ASSUME NEW m \in DOMAIN order, NEW n \in DOMAIN order, order[n] = First, m < n
      PROVE  row[order[m]].queue # "local_queued"
  <2>1. n = i
    BY <1>0, <1>2, <1>5 DEF OrderInv
  <2>2. order \in Seq(Subs) /\ m \in Nat /\ i \in Nat
    BY <1>0 DEF TypeInv
  <2>3. m \notin Waiting
    BY <1>2, <1>5, <2>1, <2>2
  <2> QED
    BY <2>3 DEF Waiting
<1> HIDE DEF First
<1>6. Clear(First)
  BY <1>1, <1>4, <1>5 DEF Clear
<1> QED
  BY <1>1, <1>3, <1>6

(* The pump looks, yields, and hands its row to _dispatch_submission. *)
LEMMA PumpKept ==
  ASSUME IInv, NEW t \in Fences,
         \/ PumpFindsQuiet /\ t = own
         \/ PumpYields(t)
         \/ PumpServes(t) /\ First \in content
  PROVE  IInv'
<1>0. TypeInv /\ RowInv /\ own \in Fences /\ Pump \in Dispatchers
  BY Sorts DEF IInv
<1>1. dispatcher[<<t, Pump>>] \in Desks
  BY <1>0, Sorts
<1>2. CASE PumpFindsQuiet /\ t = own
  <2> DEFINE v == [dispatcher[<<own, Pump>>] EXCEPT !.pc = "ready"]
  <2>1. /\ row' = row /\ order' = order /\ ops' = ops /\ journal' = journal /\ own' = own /\ scene' = scene
        /\ content' = content /\ broken' = broken /\ mailbox' = mailbox
        /\ worker' = worker /\ sent' = sent /\ frame' = frame
        /\ dispatcher[<<own, Pump>>].pc = "idle"
        /\ dispatcher' = [dispatcher EXCEPT ![<<own, Pump>>] = v]
    BY <1>2 DEF PumpFindsQuiet, SetPc, LockFree, durable, runtime
  <2>2. v \in Desks /\ v.pc = "ready"
    BY <1>1, <1>2, DeskValues
  <2> HIDE DEF v
  <2>3. dispatcher'[<<own, Pump>>] = v => DeskStep(own, Pump)
    BY <2>1, <2>2 DEF DeskStep, Engaged
  <2> QED
    BY <1>0, <2>1, <2>2, <2>3, OneDesk
<1>3. CASE PumpYields(t)
  <2>1. /\ row' = row /\ order' = order /\ ops' = ops /\ journal' = journal /\ own' = own /\ scene' = scene
        /\ content' = content /\ broken' = broken /\ mailbox' = mailbox
        /\ worker' = worker /\ sent' = sent /\ frame' = frame
        /\ dispatcher[<<t, Pump>>].pc = "ready"
        /\ dispatcher' = [dispatcher EXCEPT ![<<t, Pump>>] = AtRest]
    BY <1>3 DEF PumpYields, Rest, durable, runtime
  <2>2. dispatcher'[<<t, Pump>>] = AtRest => DeskStep(t, Pump)
    BY DeskValues DEF DeskStep, Engaged
  <2> QED
    BY <1>0, <2>1, <2>2, DeskValues, OneDesk
<1>4. CASE PumpServes(t) /\ First \in content
  <2>0. PICK s : s = First
    OBVIOUS
  <2>a. PICK k : k = [sub |-> s, path |-> "queue", attempt |-> row[s].attempt]
    OBVIOUS
  <2> DEFINE v == [pc |-> "submit", out |-> "none", key |-> k]
  <2>1. /\ row' = row /\ order' = order /\ ops' = ops /\ journal' = journal /\ own' = own /\ scene' = scene
        /\ content' = content /\ broken' = broken /\ mailbox' = mailbox
        /\ worker' = worker /\ sent' = sent /\ frame' = frame
        /\ dispatcher[<<t, Pump>>].pc = "ready" /\ t = own
        /\ ~SomethingUnsettled /\ Waiting # {} /\ row[s].attempt < scene.attempts
        /\ dispatcher' = [dispatcher EXCEPT ![<<t, Pump>>] = v]
    BY <1>4, <2>0, <2>a DEF PumpServes, Live, runtime
  <2>2. s \in Subs /\ Clear(s) /\ row[s].state = "local_queued"
    BY <2>0, <2>1, FirstIsClear
  <2>3. \A c : c = s => Clear(c)'
    BY <2>1, <2>2 DEF Clear, steers
  <2>4. k \in Keys
    BY <1>0, <2>a, <2>1, <2>2, AttemptKey
  <2>5. k.sub = s /\ k.path = "queue"
    BY <2>a
  <2>6. v \in Desks /\ v.pc = "submit" /\ v.key = k
    BY <2>4, DeskValues
  <2> HIDE DEF v
  <2>7. dispatcher'[<<t, Pump>>] = v => Opens(t, Pump, k)
    BY <1>0, <2>1, <2>2, <2>3, <2>4, <2>5, <2>6 DEF Opens, Clear
  <2>8. dispatcher'[<<t, Pump>>] = v => DeskStep(t, Pump)
    BY <2>4, <2>7 DEF DeskStep
  <2> QED
    BY <1>0, <2>1, <2>6, <2>8, OneDesk
<1> QED
  BY <1>2, <1>3, <1>4

(* _dispatch_submission hands the operation over, finds it settled, or fails. *)
LEMMA HandKept ==
  ASSUME IInv, NEW t \in Fences, NEW d \in Dispatchers, Hand(t, d)
  PROVE  IInv'
<1>0. TypeInv /\ DeskInv /\ KeyInv /\ own \in Fences
  BY Sorts DEF IInv
<1>1. PICK k : k = dispatcher[<<t, d>>].key
  OBVIOUS
<1>2. /\ row' = row /\ order' = order /\ journal' = journal /\ own' = own /\ scene' = scene
      /\ content' = content /\ broken' = broken /\ worker' = worker /\ sent' = sent /\ frame' = frame
      /\ dispatcher[<<t, d>>].pc = "submit"
  BY DEF Hand, runtime
<1>3. dispatcher[<<t, d>>] \in Desks /\ Engaged(<<t, d>>) /\ k \in Keys
  BY <1>0, <1>1, <1>2, Sorts DEF Engaged, DeskInv
<1>4. CASE ~Live(t)
  <2>1. ops' = ops /\ mailbox' = mailbox /\ dispatcher' = [dispatcher EXCEPT ![<<t, d>>] = AtRest]
    BY <1>4 DEF Hand, Rest
  <2>2. dispatcher'[<<t, d>>] = AtRest => DeskStep(t, d)
    BY DeskValues DEF DeskStep, Engaged
  <2> QED
    BY <1>2, <2>1, <2>2, DeskValues, OneDesk
<1>5. CASE Live(t) /\ ops[k] # "none"
  <2> DEFINE v == [dispatcher[<<t, d>>] EXCEPT !.pc = "finish", !.out = SettledResult(ops[k])]
  <2>1. /\ ops' = ops /\ mailbox' = mailbox
        /\ dispatcher' = [dispatcher EXCEPT ![<<t, d>>].pc = "finish", ![<<t, d>>].out = SettledResult(ops[k])]
    BY <1>1, <1>5 DEF Hand
  <2>2. dispatcher' = [dispatcher EXCEPT ![<<t, d>>] = v]
    BY <1>0, <1>3, <2>1 DEF TypeInv
  <2>3. ops[k] \in OpStates
    BY <1>0, <1>3 DEF TypeInv
  <2>4. /\ SettledResult(ops[k]) \in {"ok", "rejected", "ambiguous"}
        /\ SettledResult(ops[k]) = "ok" => ops[k] = "confirmed"
        /\ SettledResult(ops[k]) = "rejected" => ops[k] = "rejected"
    BY <2>3 DEF SettledResult, OpStates
  <2>5. v \in Desks /\ v.pc = "finish" /\ v.key = k /\ v.out = SettledResult(ops[k])
    BY <1>1, <1>3, <2>4 DEF Desks
  <2> HIDE DEF v
  <2>6. dispatcher'[<<t, d>>] = v => DeskStep(t, d)
    BY <1>1, <1>2, <1>3, <2>1, <2>4, <2>5 DEF DeskStep, Told
  <2> QED
    BY <1>2, <2>1, <2>2, <2>5, <2>6, OneDesk
<1>6. CASE Live(t) /\ ops[k] = "none"
  <2>1. /\ t = own
        /\ ops' = [ops EXCEPT ![k] = "pending"]
        /\ mailbox' = [mailbox EXCEPT ![own] = Append(@, k)]
        /\ dispatcher' = [dispatcher EXCEPT ![<<own, d>>].pc = "await"]
    BY <1>1, <1>6 DEF Hand, Live, SetPc
  <2>2. /\ KeyLayer
        /\ dispatcher'[<<own, d>>].pc = "await" /\ dispatcher'[<<own, d>>].key = k
        /\ \A u \in Fences, e \in Dispatchers : <<u, e>> # <<own, d>> => dispatcher'[<<u, e>>] = dispatcher[<<u, e>>]
    BY <1>1, <1>2, <1>6, <2>1, Queued
  <2>3. TypeInv'
    <3>1. ops' \in [Keys -> OpStates]
      BY <2>2 DEF KeyLayer, Works, OpsMove
    <3> QED
      BY <1>0, <1>2, <2>2, <3>1 DEF TypeInv, KeyLayer, Dispatchers, steers
  <2>4. RowInv' /\ \A s \in Subs : RowStep(s) /\ ~Claims(s)
    BY <1>2, SameRows
  <2>5. OrderStep /\ ContentStep
    BY <1>2, <2>4, ContentKept DEF OrderStep
  <2>6. ASSUME NEW u \in Fences, NEW e \in Dispatchers PROVE DeskStep(u, e)
    <3>1. CASE <<u, e>> = <<own, d>>
      BY <1>1, <1>2, <1>3, <2>1, <2>2, <3>1 DEF DeskStep
    <3>2. CASE <<u, e>> # <<own, d>>
      BY <2>2, <3>2 DEF DeskStep
    <3> QED
      BY <3>1, <3>2
  <2>7. SettlesTruly
    BY <1>0, <1>3, <2>1 DEF SettlesTruly, TypeInv
  <2> QED
    BY <1>2, <2>2, <2>3, <2>4, <2>5, <2>6, <2>7, Preserved
<1> QED
  BY <1>4, <1>5, <1>6
-----------------------------------------------------------------------------
(* Steps that change rows, and nothing of the operations and the workers. *)
LEMMA RowsMove ==
  ASSUME IInv, KeyLayer, ops' = ops, own' = own, scene' = scene, broken' = broken, sent' = sent, frame' = frame,
         worker' = worker, row' \in [Subs -> Rows], RowInv', \A s \in Subs : RowStep(s) /\ ~Claims(s),
         \A t \in Fences, d \in Dispatchers : DeskStep(t, d), OrderStep, ContentStep
  PROVE  IInv'
<1>1. order' \in Seq(Subs)
  <2>1. order \in Seq(Subs)
    BY DEF IInv, TypeInv
  <2>2. \A s \in Subs : Append(order, s) \in Seq(Subs)
    BY <2>1
  <2> QED
    BY <2>1, <2>2 DEF OrderStep
<1>2. TypeInv'
  BY <1>1 DEF IInv, TypeInv, KeyLayer, Dispatchers, steers
<1>3. \A t \in Fences : worker[t].pc = "read" => worker'[t].pc = "read"
  OBVIOUS
<1>4. \A t \in Fences : worker[t].pc = "send" => worker'[t].pc = "send"
  OBVIOUS
<1> QED
  BY <1>2, <1>3, <1>4, SameOps, Preserved

(* One row changes. *)
LEMMA OneRow ==
  ASSUME IInv, NEW s \in Subs, NEW r \in Rows, row' = [row EXCEPT ![s] = r],
         RowOK(r), row'[s] = r => RowStep(s) /\ ~Claims(s)
  PROVE  row' \in [Subs -> Rows] /\ RowInv' /\ row'[s] = r /\ \A q \in Subs : RowStep(q) /\ ~Claims(q)
<1>1. /\ row' \in [Subs -> Rows] /\ row'[s] = r
      /\ \A q \in Subs : q # s => row'[q] = row[q]
  BY DEF IInv, TypeInv
<1>2. ASSUME NEW q \in Subs PROVE RowOK(row'[q]) /\ RowStep(q) /\ ~Claims(q)
  <2>1. CASE q = s
    BY <1>1, <2>1
  <2>2. CASE q # s
    BY <1>1, <2>2, SameRow DEF IInv, RowInv
  <2> QED
    BY <2>1, <2>2
<1>3. RowInv'
  BY <1>2 DEF RowInv, RowOK
<1> QED
  BY <1>1, <1>2, <1>3

(* A row that was just made. *)
LEMMA NewRow ==
  ASSUME NEW i \in BOOLEAN, NEW r, r = [NoRow EXCEPT !.state = "local_queued", !.queue = "local_queued", !.immediate = i]
  PROVE  /\ r \in Rows /\ RowOK(r)
         /\ r.state = "local_queued" /\ r.queue = "local_queued" /\ r.src = NoOp
BY DEF NoRow, Rows, RowOK, SubmissionStates, QueueStates

(* copilotd.submission.queued *)
LEMMA AdmitKept ==
  ASSUME IInv, NEW s \in Subs, Admit(s)
  PROVE  IInv'
<1>0. TypeInv /\ own \in Fences
  BY Sorts DEF IInv
<1>1. PICK r : r = [NoRow EXCEPT !.state = "local_queued", !.queue = "local_queued", !.immediate = s \in steers]
  OBVIOUS
<1>2. /\ ops' = ops /\ journal' = journal /\ own' = own /\ scene' = scene /\ broken' = broken
      /\ mailbox' = mailbox /\ worker' = worker /\ sent' = sent /\ frame' = frame
      /\ row[s].state = "absent" /\ row' = [row EXCEPT ![s] = r]
      /\ order' = Append(order, s) /\ content' = content \cup {s}
  BY <1>1 DEF Admit, runtime
<1>3. (s \in steers) \in BOOLEAN
  OBVIOUS
<1>4. r \in Rows /\ RowOK(r) /\ r.state = "local_queued" /\ r.queue = "local_queued" /\ r.src = NoOp
  BY <1>1, <1>3, NewRow
<1>5. row'[s] = r => Enters(s) /\ RowStep(s) /\ ~Claims(s)
  BY <1>2, <1>4 DEF Enters, RowStep, Claims
<1>6. row' \in [Subs -> Rows] /\ RowInv' /\ Enters(s) /\ \A q \in Subs : RowStep(q) /\ ~Claims(q)
  BY <1>2, <1>4, <1>5, OneRow
<1>7. OrderStep /\ ContentStep
  BY <1>2, <1>6, ContentKept DEF OrderStep
<1>8. KeyLayer /\ \A t \in Fences, d \in Dispatchers : DeskStep(t, d)
  <2>1. CASE s \notin steers
    <3>1. dispatcher' = dispatcher
      BY <2>1 DEF Admit
    <3> QED
      BY <1>2, <3>1, NoKeys, SameDesks
  <2>2. CASE s \in steers
    <3> DEFINE v == [dispatcher[<<own, s>>] EXCEPT !.pc = "idle"]
    <3>1. dispatcher[<<own, s>>].pc = "steer" /\ dispatcher' = [dispatcher EXCEPT ![<<own, s>>] = v]
      BY <2>2 DEF Admit
    <3>2. s \in Dispatchers
      BY <1>0, <2>2, Sorts
    <3>3. v \in Desks /\ v.pc = "idle"
      BY <1>0, <3>2, Sorts, DeskValues
    <3> HIDE DEF v
    <3>4. /\ KeyLayer /\ dispatcher'[<<own, s>>] = v
          /\ \A u \in Fences, e \in Dispatchers : <<u, e>> # <<own, s>> => dispatcher'[<<u, e>>] = dispatcher[<<u, e>>]
      BY <1>0, <1>2, <3>1, <3>2, <3>3, DeskOnly
    <3>5. ASSUME NEW u \in Fences, NEW e \in Dispatchers PROVE DeskStep(u, e)
      <4>1. CASE <<u, e>> = <<own, s>>
        BY <1>2, <3>3, <3>4, <4>1 DEF DeskStep, Engaged
      <4>2. CASE <<u, e>> # <<own, s>>
        BY <3>4, <4>2 DEF DeskStep
      <4> QED
        BY <4>1, <4>2
    <3> QED
      BY <3>4, <3>5
  <2> QED
    BY <2>1, <2>2
<1> QED
  BY <1>2, <1>6, <1>7, <1>8, RowsMove

(* A desk comes to rest. *)
LEMMA DeskRests ==
  ASSUME IInv, own' = own, scene' = scene, worker' = worker, mailbox' = mailbox, ops' = ops,
         NEW t \in Fences, NEW d \in Dispatchers, dispatcher[<<t, d>>].pc \notin {"idle", "await"},
         dispatcher' = [dispatcher EXCEPT ![<<t, d>>] = AtRest]
  PROVE  /\ KeyLayer /\ ~Engaged(<<t, d>>)' /\ dispatcher'[<<t, d>>].pc = "idle"
         /\ \A u \in Fences, e \in Dispatchers : DeskStep(u, e)
<1>1. /\ KeyLayer /\ dispatcher'[<<t, d>>] = AtRest
      /\ \A u \in Fences, e \in Dispatchers : <<u, e>> # <<t, d>> => dispatcher'[<<u, e>>] = dispatcher[<<u, e>>]
  <2>1. AtRest \in Desks /\ dispatcher[<<t, d>>].pc # "idle" /\ dispatcher[<<t, d>>].pc # "await"
    BY DeskValues
  <2> QED
    BY <2>1, DeskOnly
<1>2. ~Engaged(<<t, d>>)' /\ dispatcher'[<<t, d>>].pc = "idle"
  BY <1>1, DeskValues DEF Engaged
<1>3. ASSUME NEW u \in Fences, NEW e \in Dispatchers PROVE DeskStep(u, e)
  <2>1. CASE <<u, e>> = <<t, d>>
    BY <1>2, <2>1 DEF DeskStep
  <2>2. CASE <<u, e>> # <<t, d>>
    BY <1>1, <2>2 DEF DeskStep
  <2> QED
    BY <2>1, <2>2
<1> QED
  BY <1>1, <1>2, <1>3

(* A row that waits was never sent. *)
LEMMA WaitingUnsent ==
  ASSUME IInv, NEW s \in Subs, row[s].src = NoOp
  PROVE  sent[s] = 0 /\ frame[s] = "none" /\ Refused(s)
<1>1. TypeInv /\ KeyInv /\ SentInv
  BY DEF IInv
<1>2. sent[s] = 0
  BY <1>1, Sorts DEF SentInv
<1>3. frame[s] = "none"
  BY <1>1, <1>2 DEF SentInv
<1> QED
  BY <1>1, <1>2, <1>3, NoOpGone DEF Refused

(* _mark_queue_content_unavailable *)
LEMMA UnavailableRow ==
  ASSUME NEW q \in Rows, q.queue \in {"local_queued", "blocked"}, RowOK(q)
  PROVE  LET r == Unavailable(q) IN
         /\ r \in Rows /\ RowOK(r) /\ r.src = NoOp /\ q.src = NoOp /\ r.queue = "content_unavailable"
         /\ r.state = (IF q.state = "local_queued" THEN "rejected" ELSE q.state)
         /\ r.accepted = q.accepted /\ r.observed = q.observed /\ q.state # "absent" /\ q.state # "submitting"
<1> DEFINE r == Unavailable(q)
<1>1. /\ r \in Rows /\ r.src = q.src /\ r.queue = "content_unavailable"
      /\ r.state = (IF q.state = "local_queued" THEN "rejected" ELSE q.state)
      /\ r.accepted = q.accepted /\ r.observed = q.observed
  BY DEF Unavailable, Rows, SubmissionStates, QueueStates
<1>2. q.src = NoOp /\ q.state # "absent" /\ q.state # "submitting"
  BY DEF RowOK
<1> HIDE DEF r
<1>3. RowOK(r)
  BY <1>1, <1>2 DEF RowOK
<1> QED
  BY <1>1, <1>2, <1>3 DEF r

(* The pump blocks the row at the head, or gives it up. *)
LEMMA PumpRowKept ==
  ASSUME IInv, NEW t \in Fences, PumpBlocks(t) \/ (PumpServes(t) /\ First \notin content)
  PROVE  IInv'
<1>0. TypeInv /\ RowInv /\ KeyInv /\ own \in Fences /\ Pump \in Dispatchers
  BY Sorts DEF IInv
<1>1. PICK s : s = First
  OBVIOUS
<1>2. /\ ops' = ops /\ journal' = journal /\ own' = own /\ scene' = scene /\ broken' = broken
      /\ mailbox' = mailbox /\ worker' = worker /\ sent' = sent /\ frame' = frame
      /\ order' = order /\ content' = content
      /\ dispatcher[<<t, Pump>>].pc = "ready" /\ t = own
      /\ ~SomethingUnsettled /\ Waiting # {}
      /\ dispatcher' = [dispatcher EXCEPT ![<<t, Pump>>] = AtRest]
  BY DEF PumpBlocks, PumpServes, Live, Rest, runtime
<1>3. s \in Subs /\ row[s].state = "local_queued" /\ row[s].queue = "local_queued"
  BY <1>1, <1>2, FirstIsClear
<1>4. row[s] \in Rows /\ RowOK(row[s]) /\ row[s].src = NoOp
  BY <1>0, <1>3, Sorts DEF RowInv, RowOK
<1>5. /\ KeyLayer /\ ~Engaged(<<own, Pump>>)'
      /\ \A u \in Fences, e \in Dispatchers : DeskStep(u, e)
  BY <1>0, <1>2, DeskRests DEF Engaged
<1>6. row' \in [Subs -> Rows] /\ RowInv' /\ \A q \in Subs : RowStep(q) /\ ~Claims(q)
  <2>1. CASE PumpBlocks(t)
    <3> DEFINE r == [row[s] EXCEPT !.queue = "blocked"]
    <3>1. row' = [row EXCEPT ![s] = r]
      BY <1>1, <2>1 DEF PumpBlocks
    <3>2. /\ r \in Rows /\ r.state = row[s].state /\ r.queue = "blocked" /\ r.src = row[s].src
          /\ r.accepted = row[s].accepted /\ r.observed = row[s].observed
      BY <1>4 DEF Rows, QueueStates
    <3> HIDE DEF r
    <3>3. RowOK(r)
      BY <1>3, <1>4, <3>2 DEF RowOK
    <3>4. row'[s] = r => RowStep(s) /\ ~Claims(s)
      BY <1>3, <1>5, <3>2 DEF RowStep, Calm, Claims, Awaited
    <3> QED
      BY <1>3, <3>1, <3>2, <3>3, <3>4, OneRow
  <2>2. CASE PumpServes(t) /\ First \notin content
    <3>1. row' = [row EXCEPT ![s] = Unavailable(row[s])]
      BY <1>1, <2>2 DEF PumpServes
    <3> DEFINE r == Unavailable(row[s])
    <3>2. /\ r \in Rows /\ RowOK(r) /\ r.src = NoOp /\ r.queue = "content_unavailable" /\ r.state = "rejected"
          /\ r.accepted = row[s].accepted /\ r.observed = row[s].observed
      BY <1>3, <1>4, UnavailableRow
    <3> HIDE DEF r
    <3>3. Refused(s)
      BY <1>3, <1>4, WaitingUnsent
    <3>4. row'[s] = r => Refused(s)'
      BY <1>2, <1>4, <3>2, <3>3 DEF Refused, Gone, Has, Holds, Queues
    <3>5. row'[s] = r => RowStep(s) /\ ~Claims(s)
      BY <1>3, <1>4, <3>2, <3>4 DEF RowStep, Calm, Claims, Awaited
    <3> QED
      BY <1>3, <3>1, <3>2, <3>5, OneRow DEF r
  <2> QED
    BY <2>1, <2>2
<1>7. OrderStep /\ ContentStep
  BY <1>2, <1>6, ContentKept DEF OrderStep
<1> QED
  BY <1>2, <1>5, <1>6, <1>7, RowsMove
-----------------------------------------------------------------------------
(* Rows that all may change, and nothing else does. *)
LEMMA RowsOnly ==
  ASSUME IInv, ops' = ops, own' = own, scene' = scene, broken' = broken, sent' = sent, frame' = frame,
         worker' = worker, mailbox' = mailbox, dispatcher' = dispatcher, journal' = journal,
         content \subseteq content', OrderStep,
         row' = [s \in Subs |-> row'[s]],
         \A s \in Subs : row'[s] \in Rows /\ RowOK(row'[s]) /\ RowStep(s) /\ ~Claims(s)
  PROVE  IInv'
<1>1. row' \in [Subs -> Rows]
  OBVIOUS
<1>2. RowInv'
  BY DEF RowInv, RowOK
<1>3. ContentStep
  BY ContentKept
<1> QED
  BY <1>1, <1>2, <1>3, NoKeys, SameDesks, RowsMove

(* While the lock is free, the pump waits for nothing. *)
LEMMA PumpFree ==
  ASSUME LockFree, own' = own, dispatcher' = dispatcher
  PROVE  ~Engaged(<<own, Pump>>)'
BY DEF LockFree, Engaged

(* copilotd.submission.cancel_queued *)
LEMMA CancelKept ==
  ASSUME IInv, NEW S \in {{s} : s \in Cancellable} \cup {Cancellable}, Cancel(S)
  PROVE  IInv'
<1>0. TypeInv /\ RowInv /\ S \subseteq Cancellable
  BY DEF IInv
<1>1. /\ ops' = ops /\ journal' = journal /\ own' = own /\ scene' = scene /\ broken' = broken
      /\ mailbox' = mailbox /\ worker' = worker /\ sent' = sent /\ frame' = frame
      /\ order' = order /\ content' = content /\ dispatcher' = dispatcher /\ LockFree
      /\ row' = [s \in Subs |->
                   IF s \in S
                   THEN [row[s] EXCEPT !.queue = "cancelled",
                                       !.state = IF @ = "local_queued" THEN "cancelled" ELSE @]
                   ELSE row[s]]
  BY DEF Cancel, memory, runtime
<1>2. ~Engaged(<<own, Pump>>)'
  BY <1>1, PumpFree
<1>3. ASSUME NEW s \in Subs PROVE row'[s] \in Rows /\ RowOK(row'[s]) /\ RowStep(s) /\ ~Claims(s)
  <2>1. row[s] \in Rows /\ RowOK(row[s])
    BY <1>0, Sorts DEF RowInv
  <2>2. CASE s \notin S
    <3>1. row'[s] = row[s]
      BY <1>1, <2>2
    <3> QED
      BY <2>1, <3>1, SameRow
  <2>3. CASE s \in S
    <3> DEFINE r == [row[s] EXCEPT !.queue = "cancelled",
                                   !.state = IF @ = "local_queued" THEN "cancelled" ELSE @]
    <3>1. row'[s] = r
      BY <1>1, <2>3
    <3>2. /\ r \in Rows /\ r.queue = "cancelled" /\ r.src = row[s].src
          /\ r.accepted = row[s].accepted /\ r.observed = row[s].observed
          /\ r.state = IF row[s].state = "local_queued" THEN "cancelled" ELSE row[s].state
      BY <2>1 DEF Rows, QueueStates, SubmissionStates
    <3> HIDE DEF r
    <3>3. row[s].queue \in {"local_queued", "blocked"}
      BY <1>0, <2>3 DEF Cancellable
    <3>4. row[s].src = NoOp /\ row[s].state # "absent" /\ row[s].state # "submitting"
      BY <2>1, <3>3 DEF RowOK
    <3>5. RowOK(r)
      BY <2>1, <3>2, <3>4 DEF RowOK
    <3>6. Calm(s) /\ ~Claims(s)
      BY <3>1, <3>2, <3>4 DEF Calm, Claims, Awaited
    <3> QED
      BY <3>1, <3>2, <3>5, <3>6 DEF RowStep
  <2> QED
    BY <2>2, <2>3
<1>4. row' = [s \in Subs |-> row'[s]]
  BY <1>1
<1> QED
  BY <1>1, <1>3, <1>4, RowsOnly DEF OrderStep

(* copilotd.queue.replaced *)
LEMMA ReplaceKept ==
  ASSUME IInv, NEW old \in Subs, NEW new \in Subs, Replace(old, new)
  PROVE  IInv'
<1>0. TypeInv /\ RowInv
  BY DEF IInv
<1>1. PICK n : n = [NoRow EXCEPT !.state = "local_queued", !.queue = "local_queued", !.immediate = row[old].immediate]
  OBVIOUS
<1>2. /\ ops' = ops /\ journal' = journal /\ own' = own /\ scene' = scene /\ broken' = broken
      /\ mailbox' = mailbox /\ worker' = worker /\ sent' = sent /\ frame' = frame
      /\ order' = Append(order, new) /\ content' = content \cup {new} /\ dispatcher' = dispatcher /\ LockFree
      /\ row[old].queue \in {"local_queued", "blocked"} /\ row[new].state = "absent"
      /\ row' = [row EXCEPT ![old].queue = "cancelled", ![old].state = "cancelled", ![new] = n]
  BY <1>1 DEF Replace, Cancellable, runtime
<1>3. row[old] \in Rows /\ RowOK(row[old]) /\ row[old].src = NoOp /\ row[old].state # "absent"
  BY <1>0, <1>2, Sorts DEF RowInv, RowOK
<1>4. old # new
  BY <1>2, <1>3
<1>5. n \in Rows /\ RowOK(n) /\ n.state = "local_queued" /\ n.queue = "local_queued" /\ n.src = NoOp
  BY <1>1, <1>3, RowFields, NewRow
<1> DEFINE r == [[row[old] EXCEPT !.queue = "cancelled"] EXCEPT !.state = "cancelled"]
<1>6. /\ row'[new] = n /\ row'[old] = r /\ \A s \in Subs : s # old /\ s # new => row'[s] = row[s]
      /\ row' = [s \in Subs |-> row'[s]]
  BY <1>0, <1>2, <1>4 DEF TypeInv
<1>7. /\ r \in Rows /\ r.queue = "cancelled" /\ r.src = row[old].src /\ r.state = "cancelled"
      /\ r.accepted = row[old].accepted /\ r.observed = row[old].observed
  BY <1>3 DEF Rows, QueueStates, SubmissionStates
<1> HIDE DEF r
<1>8. ASSUME NEW s \in Subs PROVE row'[s] \in Rows /\ RowOK(row'[s]) /\ RowStep(s) /\ ~Claims(s)
  <2>1. CASE s = new
    <3>1. Enters(s) /\ ~Claims(s)
      BY <1>2, <1>5, <1>6, <2>1 DEF Enters, Claims
    <3> QED
      BY <1>5, <1>6, <2>1, <3>1 DEF RowStep
  <2>2. CASE s = old
    <3>1. RowOK(r)
      BY <1>3, <1>7 DEF RowOK
    <3>2. Calm(s) /\ ~Claims(s)
      BY <1>3, <1>6, <1>7, <2>2 DEF Calm, Claims, Awaited
    <3> QED
      BY <1>6, <1>7, <2>2, <3>1, <3>2 DEF RowStep
  <2>3. CASE s # old /\ s # new
    <3>1. row'[s] = row[s]
      BY <1>6, <2>3
    <3> QED
      BY <1>0, <3>1, Sorts, SameRow DEF RowInv
  <2> QED
    BY <2>1, <2>2, <2>3
<1>9. OrderStep
  <2>1. Enters(new)
    BY <1>2, <1>5, <1>6 DEF Enters
  <2> QED
    BY <1>2, <2>1 DEF OrderStep
<1> QED
  BY <1>2, <1>6, <1>8, <1>9, RowsOnly

(* The reducer reads user.message and session.idle. *)
LEMMA ReducerKept ==
  ASSUME IInv, ReducerStep
  PROVE  IInv'
<1>0. TypeInv /\ RowInv
  BY DEF IInv
<1>1. /\ ops' = ops /\ journal' = journal /\ own' = own /\ scene' = scene /\ broken' = broken
      /\ mailbox' = mailbox /\ worker' = worker /\ sent' = sent /\ frame' = frame
      /\ order' = order /\ content' = content /\ dispatcher' = dispatcher
  BY DEF ReducerStep, ReduceUserMessage, ReduceIdle, memory
<1>2. ASSUME NEW s \in Subs, ReduceUserMessage(s) PROVE IInv'
  <2>1. CASE ~Correlates(s)
    <3>1. row' = row
      BY <1>2, <2>1 DEF ReduceUserMessage
    <3>2. row' \in [Subs -> Rows]
      BY <1>0, <3>1 DEF TypeInv
    <3>3. OrderStep /\ ContentStep
      BY <1>1, <3>1, SameRows, ContentKept DEF OrderStep
    <3> QED
      BY <1>1, <3>1, <3>2, <3>3, SameRows, NoKeys, SameDesks, RowsMove
  <2>2. CASE Correlates(s)
    <3> DEFINE r == [row[s] EXCEPT !.state = "observed_active", !.observed = TRUE,
                                   !.queue = IF @ = "outcome_unknown" THEN "submitted" ELSE @]
    <3>1. row' = [row EXCEPT ![s] = r]
      BY <1>2, <2>2 DEF ReduceUserMessage
    <3>2. row[s] \in Rows /\ RowOK(row[s])
      BY <1>0, Sorts DEF RowInv
    <3>3. /\ r \in Rows /\ r.state = "observed_active" /\ r.observed = TRUE /\ r.src = row[s].src
          /\ r.accepted = row[s].accepted
          /\ r.queue = IF row[s].queue = "outcome_unknown" THEN "submitted" ELSE row[s].queue
      BY <3>2 DEF Rows, SubmissionStates, QueueStates
    <3>4. row[s].state \in {"submitting", "submitted", "submitted_unknown", "outcome_unknown"}
      BY <2>2 DEF Correlates
    <3> HIDE DEF r
    <3>5. RowOK(r)
      BY <3>2, <3>3, <3>4 DEF RowOK
    <3>6. row'[s] = r => RowStep(s) /\ ~Claims(s)
      BY <3>3, <3>4 DEF RowStep, Calm, Claims, Awaited
    <3>7. row' \in [Subs -> Rows] /\ RowInv' /\ \A q \in Subs : RowStep(q) /\ ~Claims(q)
      BY <3>1, <3>3, <3>5, <3>6, OneRow
    <3>8. OrderStep /\ ContentStep
      BY <1>1, <3>7, ContentKept DEF OrderStep
    <3> QED
      BY <1>1, <3>7, <3>8, NoKeys, SameDesks, RowsMove
  <2> QED
    BY <2>1, <2>2
<1>3. ASSUME ReduceIdle PROVE IInv'
  <2>1. PICK named : row' = [s \in Subs |-> Idled(row[s], s \in named)]
    BY <1>3 DEF ReduceIdle
  <2>2. ASSUME NEW s \in Subs PROVE row'[s] \in Rows /\ RowOK(row'[s]) /\ RowStep(s) /\ ~Claims(s)
    <3>1. row[s] \in Rows /\ RowOK(row[s]) /\ row'[s] = Idled(row[s], s \in named)
      BY <1>0, <2>1, Sorts DEF RowInv
    <3>2. CASE row'[s] = row[s]
      BY <3>1, <3>2, SameRow
    <3>3. CASE row[s].state = "observed_active" /\ row'[s] = [row[s] EXCEPT !.state = "loop_idle"]
      <4>1. /\ row'[s] \in Rows /\ row'[s].state = "loop_idle" /\ row'[s].queue = row[s].queue
            /\ row'[s].src = row[s].src /\ row'[s].accepted = row[s].accepted /\ row'[s].observed = row[s].observed
        BY <3>1, <3>3 DEF Rows, SubmissionStates
      <4>2. RowOK(row'[s])
        BY <3>1, <3>3, <4>1 DEF RowOK
      <4> QED
        BY <3>3, <4>1, <4>2 DEF RowStep, Calm, Claims, Awaited
    <3>4. CASE /\ row[s].state \in {"submitting", "submitted", "submitted_unknown"}
               /\ row'[s] = [row[s] EXCEPT !.state = "outcome_unknown",
                                !.queue = IF @ \in {"submitting", "submitted", "submitted_unknown"}
                                          THEN "outcome_unknown" ELSE @]
      <4>1. /\ row'[s] \in Rows /\ row'[s].state = "outcome_unknown"
            /\ row'[s].queue \in {row[s].queue, "outcome_unknown"}
            /\ row'[s].src = row[s].src /\ row'[s].accepted = row[s].accepted /\ row'[s].observed = row[s].observed
        BY <3>1, <3>4 DEF Rows, SubmissionStates, QueueStates
      <4>2. RowOK(row'[s])
        BY <3>1, <3>4, <4>1 DEF RowOK
      <4> QED
        BY <3>4, <4>1, <4>2 DEF RowStep, Calm, Claims, Awaited
    <3> QED
      BY <3>1, <3>2, <3>3, <3>4 DEF Idled
  <2>3. row' = [s \in Subs |-> row'[s]]
    BY <2>1
  <2> QED
    BY <1>1, <2>2, <2>3, RowsOnly DEF OrderStep
<1> QED
  BY <1>2, <1>3 DEF ReducerStep
-----------------------------------------------------------------------------
(* What ends a dispatch may forget the prompt of a message that is closed. *)
LEMMA ContentForgotten ==
  ASSUME \A q \in Subs : RowStep(q), NEW s \in Subs, content \subseteq content' \cup {s},
         NEW out, journal' \subseteq journal \cup {<<s, out, 0>>}, Closed(s)'
  PROVE  ContentStep
BY DEF ContentStep, RowStep, Calm, Enters, Requeued, Claims

(* A row that stays as it is stays closed. *)
LEMMA ClosedSame ==
  ASSUME row' = row, own' = own, worker' = worker, mailbox' = mailbox, NEW s \in Subs, Closed(s)
  PROVE  Closed(s)'
BY DEF Closed, Gone, Has, Holds, Queues

(* copilotd.submission.rejected *)
LEMMA RejectedRow ==
  ASSUME TypeInv, NEW s \in Subs, RowOK(row[s]), row[s].state # "absent"
  PROVE  \E r \in Rows :
           /\ Rejected(s) = [row EXCEPT ![s] = r] /\ RowOK(r) /\ r.src = row[s].src
           /\ r.accepted = row[s].accepted /\ (r.observed = row[s].observed \/ r.state = "rejected")
           /\ r.queue = "local_queued" => FALSE
           /\ \/ r.state = "rejected"
              \/ row[s].accepted /\ r.state = row[s].state
<1>1. row[s] \in Rows /\ row = [row EXCEPT ![s] = row[s]]
  BY DEF TypeInv
<1>2. CASE row[s].state = "rejected"
  BY <1>1, <1>2 DEF Rejected, RowOK
<1>3. CASE row[s].state # "rejected" /\ row[s].accepted
  <2> DEFINE r == [row[s] EXCEPT !.queue =
                     IF @ \in {"local_queued", "submitting", "submitted_unknown"} THEN "submitted" ELSE @]
  <2>1. Rejected(s) = [row EXCEPT ![s] = r]
    BY <1>3 DEF Rejected
  <2>2. /\ r \in Rows /\ r.src = row[s].src /\ r.accepted = row[s].accepted /\ r.observed = row[s].observed
        /\ r.state = row[s].state
        /\ r.queue = IF row[s].queue \in {"local_queued", "submitting", "submitted_unknown"} THEN "submitted" ELSE row[s].queue
    BY <1>1 DEF Rows, QueueStates
  <2> HIDE DEF r
  <2>3. RowOK(r)
    BY <1>3, <2>2 DEF RowOK
  <2> QED
    BY <1>3, <2>1, <2>2, <2>3
<1>4. CASE row[s].state # "rejected" /\ ~row[s].accepted
  <2> DEFINE r == [row[s] EXCEPT !.state = "rejected", !.observed = FALSE,
                     !.queue = IF @ \in {"local_queued", "submitting", "submitted", "submitted_unknown"}
                               THEN "rejected" ELSE @]
  <2>1. Rejected(s) = [row EXCEPT ![s] = r]
    BY <1>4 DEF Rejected
  <2>2. /\ r \in Rows /\ r.src = row[s].src /\ r.accepted = row[s].accepted /\ r.observed = FALSE
        /\ r.state = "rejected"
        /\ r.queue = IF row[s].queue \in {"local_queued", "submitting", "submitted", "submitted_unknown"}
                     THEN "rejected" ELSE row[s].queue
    BY <1>1 DEF Rows, QueueStates, SubmissionStates
  <2> HIDE DEF r
  <2>3. RowOK(r)
    BY <1>4, <2>2 DEF RowOK
  <2> QED
    BY <1>4, <2>1, <2>2, <2>3
<1> QED
  BY <1>2, <1>3, <1>4

(* copilotd.submission.acceptance_unknown *)
LEMMA DoubtedRow ==
  ASSUME TypeInv, NEW s \in Subs, RowOK(row[s]), row[s].state # "absent"
  PROVE  \E r \in Rows :
           /\ Doubted(s) = [row EXCEPT ![s] = r] /\ RowOK(r) /\ r.src = row[s].src
           /\ r.accepted = row[s].accepted /\ r.observed = row[s].observed /\ r.queue # "local_queued"
           /\ \/ r.state = "rejected" /\ row[s].state = "rejected"
              \/ (row[s].accepted \/ row[s].observed) /\ r.state = row[s].state
              \/ r.state = "submitted_unknown" /\ ~row[s].accepted /\ ~row[s].observed
<1>1. row[s] \in Rows
  BY DEF TypeInv
<1>2. PICK known \in BOOLEAN : known = (row[s].observed \/ row[s].accepted)
  BY <1>1, RowFields
<1> DEFINE r == [row[s] EXCEPT
                   !.state = IF @ = "rejected" \/ known THEN @ ELSE "submitted_unknown",
                   !.queue = IF @ \in {"local_queued", "submitting"}
                             THEN IF known THEN "submitted" ELSE "submitted_unknown" ELSE @]
<1>3. Doubted(s) = [row EXCEPT ![s] = r]
  BY <1>2 DEF Doubted
<1>4. /\ r \in Rows /\ r.src = row[s].src /\ r.accepted = row[s].accepted /\ r.observed = row[s].observed
      /\ r.state = IF row[s].state = "rejected" \/ known THEN row[s].state ELSE "submitted_unknown"
      /\ r.queue = IF row[s].queue \in {"local_queued", "submitting"}
                   THEN IF known THEN "submitted" ELSE "submitted_unknown" ELSE row[s].queue
  BY <1>1 DEF Rows, QueueStates, SubmissionStates
<1> HIDE DEF r
<1>5. RowOK(r)
  BY <1>1, <1>2, <1>4, RowFields DEF RowOK
<1> QED
  BY <1>1, <1>2, <1>3, <1>4, <1>5, RowFields

(* Backlog: a row that waits again. *)
LEMMA BacklogRow ==
  ASSUME NEW q \in Rows, ~q.accepted, ~q.observed
  PROVE  LET r == Backlog(q) IN
         r \in Rows /\ RowOK(r) /\ r.state = "local_queued" /\ r.queue = "local_queued" /\ r.src = NoOp
<1> DEFINE r == Backlog(q)
<1>0. PICK n \in Nat : n = q.attempt + 1
  BY RowFields
<1>1. /\ r \in Rows /\ r.state = "local_queued" /\ r.queue = "local_queued" /\ r.src = NoOp
      /\ r.accepted = q.accepted /\ r.observed = q.observed
  <2>1. r = [q EXCEPT !.state = "local_queued", !.queue = "local_queued", !.src = NoOp, !.attempt = n]
    BY <1>0 DEF Backlog
  <2> HIDE DEF r
  <2> QED
    BY <2>1 DEF Rows, SubmissionStates, QueueStates
<1> HIDE DEF r
<1>2. RowOK(r)
  BY <1>1 DEF RowOK
<1> QED
  BY <1>1, <1>2 DEF r

(* _dispatch_submission ends. *)
LEMMA FinishKept ==
  ASSUME IInv, NEW t \in Fences, NEW d \in Dispatchers, Finish(t, d)
  PROVE  IInv'
<1>0. /\ TypeInv /\ RowInv /\ KeyInv /\ DeskInv /\ OutInv /\ OpInv /\ SentInv /\ HandInv /\ PumpInv /\ ContentInv
      /\ own \in Fences /\ Pump \in Dispatchers
  BY Sorts DEF IInv
<1>1. PICK k : k = dispatcher[<<t, d>>].key
  OBVIOUS
<1>2. PICK out : out = dispatcher[<<t, d>>].out
  OBVIOUS
<1>3. PICK s : s = k.sub
  OBVIOUS
<1>4. PICK fresh \in BOOLEAN : fresh = (Live(t) /\ <<s, out, 0>> \notin journal)
  BY DEF Live
<1>5. /\ ops' = ops /\ own' = own /\ scene' = scene /\ broken' = broken /\ order' = order
      /\ mailbox' = mailbox /\ worker' = worker /\ sent' = sent /\ frame' = frame
      /\ dispatcher[<<t, d>>].pc = "finish"
      /\ dispatcher' = [dispatcher EXCEPT ![<<t, d>>] = AtRest]
      /\ journal' = IF fresh /\ out \in {"rejected", "ambiguous"} THEN journal \cup {<<s, out, 0>>} ELSE journal
      /\ content' = IF Live(t) /\ out \in {"ok", "rejected", "ambiguous"} THEN content \ {s} ELSE content
  BY <1>1, <1>2, <1>3, <1>4 DEF Finish, Rest, runtime
<1>6. row' = CASE out = "fence" /\ CanRequeue(k) -> [row EXCEPT ![s] = Backlog(row[s])]
               [] out = "rejected" /\ fresh -> Rejected(s)
               [] out = "ambiguous" /\ fresh -> Doubted(s)
               [] OTHER -> row
  BY <1>1, <1>2, <1>3, <1>4 DEF Finish
<1>7. /\ k \in Keys /\ s \in Subs /\ row[s].state # "absent" /\ Told(out, k)
      /\ d # Pump => s = d
  BY <1>0, <1>1, <1>2, <1>3, <1>5, KeyFields DEF DeskInv, OutInv, Engaged
<1>8. row[s] \in Rows /\ RowOK(row[s])
  BY <1>0, <1>7, Sorts DEF RowInv
<1>9. KeyLayer /\ \A u \in Fences, e \in Dispatchers : DeskStep(u, e)
  BY <1>5, DeskRests
<1>10. Live(t) => t = own
  BY DEF Live
<1>11. s \notin steers => d = Pump
  BY <1>0, <1>7, Sorts
<1>12. ASSUME row' \in [Subs -> Rows], RowInv', \A q \in Subs : RowStep(q) /\ ~Claims(q), ContentStep PROVE IInv'
  BY <1>5, <1>9, <1>12, RowsMove DEF OrderStep
<1>13. content \subseteq content' \cup {s} /\ journal' \subseteq journal \cup {<<s, out, 0>>}
  BY <1>5
<1>14. CASE out = "fence" /\ CanRequeue(k)
  <2>1. row' = [row EXCEPT ![s] = Backlog(row[s])]
    BY <1>6, <1>14
  <2>2. row[s].src # k /\ ~row[s].accepted /\ ~row[s].observed
    BY <1>3, <1>7, <1>14 DEF Told, CanRequeue
  <2>3. row[s].state = "local_queued" /\ row[s].queue = "local_queued" /\ row[s].src = NoOp
    BY <1>3, <1>14, <2>2 DEF CanRequeue, SourceMatches
  <2>4. sent[s] = 0
    BY <1>7, <2>3, WaitingUnsent
  <2> DEFINE r == Backlog(row[s])
  <2>5. r \in Rows /\ RowOK(r) /\ r.state = "local_queued" /\ r.queue = "local_queued" /\ r.src = NoOp
    BY <1>8, <2>2, BacklogRow
  <2> HIDE DEF r
  <2>6. row'[s] = r => RowStep(s) /\ ~Claims(s)
    BY <2>3, <2>4, <2>5 DEF RowStep, Requeued, Unclaims, Closed, Claims
  <2>7. row' \in [Subs -> Rows] /\ RowInv' /\ \A q \in Subs : RowStep(q) /\ ~Claims(q)
    BY <1>7, <2>1, <2>5, <2>6, OneRow DEF r
  <2>8. ContentStep
    BY <1>5, <1>14, <2>7, ContentKept
  <2> QED
    BY <1>12, <2>7, <2>8
<1>15. CASE out = "rejected" /\ fresh
  <2>1. row' = Rejected(s)
    BY <1>6, <1>15
  <2>2. PICK r \in Rows :
           /\ row' = [row EXCEPT ![s] = r] /\ RowOK(r) /\ r.src = row[s].src
           /\ r.accepted = row[s].accepted /\ (r.observed = row[s].observed \/ r.state = "rejected")
           /\ r.queue = "local_queued" => FALSE
           /\ \/ r.state = "rejected"
              \/ row[s].accepted /\ r.state = row[s].state
    BY <1>0, <1>7, <1>8, <2>1, RejectedRow
  <2>3. ASSUME s \notin steers PROVE Refused(s)
    <3>1. Engaged(<<own, Pump>>) /\ k = dispatcher[<<own, Pump>>].key
      BY <1>1, <1>4, <1>5, <1>10, <1>11, <1>15, <2>3 DEF Engaged
    <3>2. row[s].src \in {NoOp, k}
      BY <1>0, <1>3, <2>3, <3>1 DEF PumpInv
    <3>3. Gone(k) /\ (row[s].src = k => frame[s] \in {"none", "refused"})
      BY <1>0, <1>3, <1>7, <1>15 DEF Told, OpInv
    <3> QED
      BY <1>7, <3>2, <3>3, WaitingUnsent DEF Refused
  <2>4. row'[s] = r => (s \notin steers => Refused(s)')
    BY <1>5, <2>2, <2>3 DEF Refused, Gone, Has, Holds, Queues
  <2>5. row[s].accepted => row[s].state # "local_queued" /\ row[s].state # "submitting"
    BY <1>8 DEF RowOK
  <2>6. row'[s] = r => RowStep(s) /\ ~Claims(s)
    BY <1>7, <2>2, <2>4, <2>5 DEF RowStep, Calm, Claims, Awaited
  <2>7. row' \in [Subs -> Rows] /\ RowInv' /\ row'[s] = r /\ \A q \in Subs : RowStep(q) /\ ~Claims(q)
    BY <1>7, <2>2, <2>6, OneRow
  <2>8. Closed(s)'
    BY <1>7, <2>2, <2>7 DEF Closed
  <2>9. ContentStep
    BY <1>7, <1>13, <2>7, <2>8, ContentForgotten
  <2> QED
    BY <1>12, <2>7, <2>9
<1>16. CASE out = "ambiguous" /\ fresh
  <2>1. row' = Doubted(s)
    BY <1>6, <1>16
  <2>2. PICK r \in Rows :
           /\ row' = [row EXCEPT ![s] = r] /\ RowOK(r) /\ r.src = row[s].src
           /\ r.accepted = row[s].accepted /\ r.observed = row[s].observed /\ r.queue # "local_queued"
           /\ \/ r.state = "rejected" /\ row[s].state = "rejected"
              \/ (row[s].accepted \/ row[s].observed) /\ r.state = row[s].state
              \/ r.state = "submitted_unknown" /\ ~row[s].accepted /\ ~row[s].observed
    BY <1>0, <1>7, <1>8, <2>1, DoubtedRow
  <2>3. t = own /\ Engaged(<<own, d>>) /\ k = dispatcher[<<own, d>>].key
    BY <1>1, <1>4, <1>5, <1>10, <1>16 DEF Engaged
  <2>4. \A u \in Fences : u # own => ~Holds(u, row[s].src)
    BY <1>0, <1>3, <2>3 DEF HandInv
  <2>5. s \notin steers => Engaged(<<own, Pump>>) /\ dispatcher[<<own, Pump>>].key.sub = s
    BY <1>3, <1>11, <2>3
  <2>6. row[s].accepted \/ row[s].observed => row[s].state # "local_queued" /\ row[s].state # "submitting"
    BY <1>8 DEF RowOK
  <2>7. row'[s] = r => RowStep(s) /\ ~Claims(s)
    BY <1>7, <2>2, <2>4, <2>5, <2>6 DEF RowStep, Calm, Claims, Awaited
  <2>8. row' \in [Subs -> Rows] /\ RowInv' /\ row'[s] = r /\ \A q \in Subs : RowStep(q) /\ ~Claims(q)
    BY <1>7, <2>2, <2>7, OneRow
  <2>9. (\A u \in Fences : u # own => ~Holds(u, row[s].src))'
    BY <1>5, <2>2, <2>4, <2>8 DEF Holds
  <2>10. Closed(s)'
    BY <1>7, <2>2, <2>8, <2>9 DEF Closed
  <2>11. ContentStep
    BY <1>7, <1>13, <2>8, <2>10, ContentForgotten
  <2> QED
    BY <1>12, <2>8, <2>11
<1>17. CASE ~(out = "fence" /\ CanRequeue(k)) /\ ~(out \in {"rejected", "ambiguous"} /\ fresh)
  <2>1. row' = row
    BY <1>6, <1>17
  <2>2. row' \in [Subs -> Rows] /\ RowInv' /\ \A q \in Subs : RowStep(q) /\ ~Claims(q)
    BY <1>0, <2>1, SameRows DEF TypeInv
  <2>3. ContentStep
    <3>1. CASE Live(t) /\ out \in {"ok", "rejected", "ambiguous"}
      <4>1. Closed(s)
        <5>1. CASE out = "ok"
          <6>1. Gone(k) /\ row[s].src = k /\ k # NoOp
            BY <1>0, <1>3, <1>7, <5>1, KeyFields DEF Told, OpInv
          <6> QED
            BY <1>7, <1>8, <6>1 DEF Closed, RowOK
        <5>2. CASE out \in {"rejected", "ambiguous"}
          <6>1. <<s, out, 0>> \in journal
            BY <1>4, <1>17, <3>1, <5>2
          <6> QED
            BY <1>0, <1>7, <5>2, <6>1 DEF ContentInv
        <5> QED
          BY <3>1, <5>1, <5>2
      <4>2. Closed(s)'
        BY <1>5, <1>7, <2>1, <4>1, ClosedSame
      <4> QED
        BY <1>7, <1>13, <2>2, <4>2, ContentForgotten
    <3>2. CASE ~(Live(t) /\ out \in {"ok", "rejected", "ambiguous"})
      <4>1. content' = content /\ journal' = journal
        BY <1>5, <1>17, <3>2
      <4> QED
        BY <2>2, <4>1, ContentKept
    <3> QED
      BY <3>1, <3>2
  <2> QED
    BY <1>12, <2>2, <2>3
<1> QED
  BY <1>14, <1>15, <1>16, <1>17
-----------------------------------------------------------------------------
(* What is known of the key that a worker holds. *)
LEMMA Held ==
  ASSUME IInv, NEW t \in Fences, worker[t].pc # "idle", NEW k, k = worker[t].key
  PROVE  /\ k \in Keys /\ k # NoOp /\ k.sub \in Subs /\ Holds(t, k) /\ Has(t, k)
         /\ ops[k] \in {"pending", "started", "unknown"}
         /\ worker[t].pc \in {"check", "claim"} => row[k.sub].src # k
         /\ worker[t].pc \in {"assert", "send", "inflight", "accept"} => row[k.sub].src = k
         /\ worker[t].pc \notin {"inflight", "accept"} /\ row[k.sub].src = k => sent[k.sub] = 0 /\ frame[k.sub] = "none"
         /\ t <= own
<1>0. TypeInv /\ KeyInv /\ OpInv /\ SrcInv /\ StageInv /\ SentInv /\ IdleInv
  BY DEF IInv
<1>1. k \in Keys /\ k # NoOp /\ k.sub \in Subs /\ Has(t, k) /\ Holds(t, k) /\ ops[k] # "none"
  BY <1>0, OneHas, KeyFields DEF Holds
<1>2. ops[k] \in {"pending", "started", "unknown"}
  <2>1. ~Gone(k)
    BY <1>1 DEF Gone
  <2>2. ops[k] \in OpStates
    BY <1>0, <1>1 DEF TypeInv
  <2> QED
    BY <1>0, <1>1, <2>1, <2>2 DEF OpInv, OpStates
<1>3. ASSUME worker[t].pc \in {"check", "claim"} PROVE row[k.sub].src # k
  BY <1>0, <1>1, <1>3 DEF SrcInv
<1>4. ASSUME worker[t].pc \in {"assert", "send", "inflight", "accept"} PROVE row[k.sub].src = k
  BY <1>0, <1>4 DEF StageInv
<1>5. ASSUME worker[t].pc \notin {"inflight", "accept"}, row[k.sub].src = k PROVE sent[k.sub] = 0 /\ frame[k.sub] = "none"
  <2>1. ~(sent[k.sub] > 0)
    BY <1>0, <1>1, <1>5 DEF SentInv
  <2>2. sent[k.sub] = 0
    BY <1>0, <1>1, <2>1, Sorts
  <2> QED
    BY <1>0, <1>1, <2>2 DEF SentInv
<1>6. t <= own
  BY <1>0, Sorts DEF IdleInv
<1> QED
  BY <1>1, <1>2, <1>3, <1>4, <1>5, <1>6

(* The worker's step ends with the delivery of an outcome. *)
LEMMA DeliveryKept ==
  ASSUME IInv, own' = own, scene' = scene, mailbox' = mailbox, order' = order, sent' = sent, frame' = frame,
         broken' \in [Fences -> BOOLEAN], broken' = broken \/ steers # {},
         NEW t \in Fences, worker[t].pc # "idle", NEW k, k = worker[t].key,
         NEW out \in {"ok", "rejected", "ambiguous", "fence", "deferred"}, Deliver(t, out),
         OpsMove, \A c \in Keys : c # k => ops'[c] = ops[c],
         ops'[k] = "confirmed" => row'[k.sub].src = k,
         ops'[k] = "rejected" /\ row'[k.sub].src = k => frame[k.sub] \in {"none", "refused"},
         out = "ok" => ops'[k] = "confirmed", out = "rejected" => ops'[k] = "rejected",
         out = "fence" => row'[k.sub].src # k,
         row' \in [Subs -> Rows], RowInv', \A s \in Subs : RowStep(s) /\ ~Claims(s), ContentStep
  PROVE  IInv'
<1>1. /\ KeyLayer /\ Gone(k)' /\ worker'[t].pc = "idle"
      /\ \A u \in Fences : u # t => worker'[u] = worker[u]
      /\ \A u \in Fences, e \in Dispatchers :
           \/ dispatcher'[<<u, e>>] = dispatcher[<<u, e>>]
           \/ /\ u = t /\ dispatcher[<<u, e>>].pc = "await" /\ dispatcher[<<u, e>>].key = k
              /\ dispatcher'[<<u, e>>].key = k
              /\ dispatcher'[<<u, e>>].pc = "finish" /\ dispatcher'[<<u, e>>].out = out
  BY Delivers
<1>2. k \in Keys /\ ops[k] # "none" /\ ops'[k] # "none"
  BY Held DEF OpsMove
<1>3. TypeInv'
  BY <1>1 DEF IInv, TypeInv, KeyLayer, OpsMove, Dispatchers, steers
<1>4. SettlesTruly
  BY <1>1, <1>2 DEF SettlesTruly
<1>5. Told(out, k)'
  BY <1>1, <1>2 DEF Told
<1>6. ASSUME NEW u \in Fences, NEW e \in Dispatchers PROVE DeskStep(u, e)
  <2>1. CASE dispatcher'[<<u, e>>] = dispatcher[<<u, e>>]
    BY <2>1 DEF DeskStep
  <2>2. CASE /\ u = t /\ dispatcher[<<u, e>>].pc = "await" /\ dispatcher[<<u, e>>].key = k
             /\ dispatcher'[<<u, e>>].key = k
             /\ dispatcher'[<<u, e>>].pc = "finish" /\ dispatcher'[<<u, e>>].out = out
    <3>1. Told(dispatcher[<<u, e>>].out, dispatcher[<<u, e>>].key)'
      BY <1>5, <2>2 DEF Told, Gone, Has, Holds, Queues
    <3> QED
      BY <2>2, <3>1 DEF DeskStep, Engaged
  <2> QED
    BY <1>1, <2>1, <2>2
<1>7. \A u \in Fences : /\ ~(worker[u].pc = "send" /\ worker'[u].pc = "inflight")
                        /\ ~(worker[u].pc = "read" /\ worker'[u].pc = "assert")
  BY <1>1
<1> QED
  BY <1>1, <1>3, <1>4, <1>6, <1>7, Preserved DEF OrderStep

(* What the mailbox writes to the operation. *)
LEMMA SettledOps ==
  ASSUME IInv, NEW t \in Fences, worker[t].pc # "idle", NEW k, k = worker[t].key,
         NEW state \in {"started", "confirmed", "rejected", "unknown"},
         ops' = [ops EXCEPT ![k] = state]
  PROVE  OpsMove /\ ops'[k] = state /\ \A c \in Keys : c # k => ops'[c] = ops[c]
<1>1. k \in Keys /\ ops[k] \in {"pending", "started", "unknown"} /\ ops \in [Keys -> OpStates]
  BY Held DEF IInv, TypeInv
<1> QED
  BY <1>1 DEF OpsMove, OpStates

(* settle_deferred writes "rejected", whatever the operation was before. *)
LEMMA DeferredOps ==
  ASSUME IInv, NEW t \in Fences, worker[t].pc # "idle", NEW k, k = worker[t].key, ops' = DeferSettled(k)
  PROVE  OpsMove /\ ops'[k] = "rejected" /\ \A c \in Keys : c # k => ops'[c] = ops[c]
<1>1. k \in Keys /\ ops[k] \in {"pending", "started", "unknown"}
  BY Held
<1>2. ops' = [ops EXCEPT ![k] = "rejected"]
  BY <1>1 DEF DeferSettled
<1> QED
  BY <1>2, SettledOps

(* A delivery that leaves the rows alone. *)
LEMMA PlainDelivery ==
  ASSUME IInv, own' = own, scene' = scene, mailbox' = mailbox, order' = order, sent' = sent, frame' = frame,
         broken' \in [Fences -> BOOLEAN], broken' = broken \/ steers # {},
         row' = row, content' = content, journal' = journal,
         NEW t \in Fences, worker[t].pc # "idle", NEW k, k = worker[t].key,
         NEW out \in {"rejected", "ambiguous", "deferred"}, Deliver(t, out),
         OpsMove, \A c \in Keys : c # k => ops'[c] = ops[c],
         ops'[k] # "confirmed",
         ops'[k] = "rejected" /\ row[k.sub].src = k => frame[k.sub] \in {"none", "refused"},
         out = "rejected" => ops'[k] = "rejected"
  PROVE  IInv'
<1>1. row' \in [Subs -> Rows] /\ RowInv' /\ \A s \in Subs : RowStep(s) /\ ~Claims(s)
  BY SameRows DEF IInv, TypeInv
<1>2. ContentStep
  BY <1>1, ContentKept
<1> QED
  BY <1>1, <1>2, DeliveryKept

(* A receipt that fails, or that a runtime that lost writes in vain. *)
LEMMA FailedDelivery ==
  ASSUME IInv, own' = own, scene' = scene, mailbox' = mailbox, order' = order, sent' = sent, frame' = frame,
         broken' = broken, row' = row, content' = content, journal' = journal,
         NEW t \in Fences, worker[t].pc # "idle", Fails(t)
  PROVE  IInv'
<1>1. PICK k : k = worker[t].key
  OBVIOUS
<1>2. Deliver(t, "ambiguous") /\ ops' = Settled(t, k, "unknown")
  BY <1>1 DEF Fails
<1>3. k \in Keys /\ ops[k] \in {"pending", "started", "unknown"}
  BY <1>1, Held
<1>4. OpsMove /\ ops'[k] \notin {"confirmed", "rejected"} /\ \A c \in Keys : c # k => ops'[c] = ops[c]
  <2>1. CASE Live(t)
    <3>1. ops' = [ops EXCEPT ![k] = "unknown"]
      BY <1>2, <2>1 DEF Settled
    <3>2. OpsMove /\ ops'[k] = "unknown" /\ \A c \in Keys : c # k => ops'[c] = ops[c]
      BY <1>3, <3>1 DEF OpsMove, OpStates, IInv, TypeInv
    <3> QED
      BY <3>2
  <2>2. CASE ~Live(t)
    BY <1>2, <1>3, <2>2 DEF Settled, OpsMove, IInv, TypeInv
  <2> QED
    BY <2>1, <2>2
<1>5. broken' \in [Fences -> BOOLEAN]
  BY DEF IInv, TypeInv
<1> QED
  BY <1>1, <1>2, <1>4, <1>5, PlainDelivery
-----------------------------------------------------------------------------
(* The worker's step goes on to the next place. *)
LEMMA ProgressKept ==
  ASSUME IInv, own' = own, scene' = scene, mailbox' = mailbox, order' = order, sent' = sent, frame' = frame,
         broken' = broken, row' = row, content' = content, journal' = journal,
         NEW t \in Fences, worker[t].pc # "idle", NEW k, k = worker[t].key,
         NEW pc, Goto(t, pc), <<worker[t].pc, pc>> \in Moves, pc # "inflight",
         pc = "assert" => row[k.sub].src = k,
         OpsMove, \A c \in Keys : ops'[c] \in {"confirmed", "rejected"} => ops'[c] = ops[c]
  PROVE  IInv'
<1>1. /\ KeyLayer /\ worker'[t].pc = pc /\ worker'[t].key = worker[t].key
      /\ \A u \in Fences : u # t => worker'[u] = worker[u]
  BY GoesOn
<1>2. dispatcher' = dispatcher
  BY DEF Goto
<1>3. TypeInv'
  BY <1>1 DEF IInv, TypeInv, KeyLayer, OpsMove, Dispatchers, steers
<1>4. RowInv' /\ \A s \in Subs : RowStep(s) /\ ~Claims(s)
  BY SameRows
<1>5. ContentStep /\ OrderStep
  BY <1>4, ContentKept DEF OrderStep
<1>6. SettlesTruly
  BY DEF SettlesTruly
<1>7. \A u \in Fences : ~(worker[u].pc = "send" /\ worker'[u].pc = "inflight")
  BY <1>1
<1>8. \A u \in Fences : worker[u].pc = "read" /\ worker'[u].pc = "assert" => row'[worker[u].key.sub].src = worker[u].key
  BY <1>1
<1> QED
  BY <1>1, <1>2, <1>3, <1>4, <1>5, <1>6, <1>7, <1>8, SameDesks, Preserved

(* The mailbox worker takes the next operation. *)
LEMMA TakeKept ==
  ASSUME IInv, NEW t \in Fences, Take(t)
  PROVE  IInv'
<1>1. /\ KeyLayer /\ worker'[t].pc = "check"
      /\ \A u \in Fences : u # t => worker'[u] = worker[u]
  BY Takes
<1>2. /\ ops' = ops /\ journal' = journal /\ own' = own /\ scene' = scene /\ broken' = broken
      /\ sent' = sent /\ frame' = frame /\ row' = row
      /\ order' = order /\ content' = content /\ dispatcher' = dispatcher
  BY DEF Take, durable, runtime
<1>3. TypeInv'
  BY <1>1, <1>2 DEF IInv, TypeInv, KeyLayer, Dispatchers, steers
<1>4. RowInv' /\ \A s \in Subs : RowStep(s) /\ ~Claims(s)
  BY <1>2, SameRows
<1>5. ContentStep /\ OrderStep
  BY <1>2, <1>4, ContentKept DEF OrderStep
<1>6. \A u \in Fences : /\ ~(worker[u].pc = "send" /\ worker'[u].pc = "inflight")
                        /\ ~(worker[u].pc = "read" /\ worker'[u].pc = "assert")
  BY <1>1
<1> QED
  BY <1>1, <1>2, <1>3, <1>4, <1>5, <1>6, SameDesks, SameOps, Preserved

(* The STARTED receipt. *)
LEMMA StartKept ==
  ASSUME IInv, NEW t \in Fences, WorkerStarts(t)
  PROVE  IInv'
<1>1. PICK k : k = worker[t].key
  OBVIOUS
<1>2. /\ journal' = journal /\ own' = own /\ scene' = scene /\ broken' = broken
      /\ sent' = sent /\ frame' = frame /\ row' = row /\ mailbox' = mailbox
      /\ order' = order /\ content' = content
      /\ worker[t].pc = "check" /\ Goto(t, "claim") /\ ops' = [ops EXCEPT ![k] = "started"]
  BY <1>1 DEF WorkerStarts, runtime
<1>3. OpsMove /\ ops'[k] = "started" /\ \A c \in Keys : c # k => ops'[c] = ops[c]
  BY <1>1, <1>2, SettledOps
<1>4. <<worker[t].pc, "claim">> \in Moves /\ worker[t].pc # "idle"
  BY <1>2 DEF Moves
<1>5. \A c \in Keys : ops'[c] \in {"confirmed", "rejected"} => ops'[c] = ops[c]
  BY <1>3
<1> QED
  BY <1>1, <1>2, <1>3, <1>4, <1>5, ProgressKept

(* A receipt that the worker needs cannot be committed. *)
LEMMA CannotCommitKept ==
  ASSUME IInv, NEW t \in Fences, WorkerCannotCommit(t)
  PROVE  IInv'
<1>1. /\ journal' = journal /\ own' = own /\ scene' = scene /\ broken' = broken
      /\ sent' = sent /\ frame' = frame /\ row' = row /\ mailbox' = mailbox
      /\ order' = order /\ content' = content /\ worker[t].pc # "idle" /\ Fails(t)
  BY DEF WorkerCannotCommit, runtime
<1> QED
  BY <1>1, FailedDelivery

(* The claim is read back. *)
LEMMA ReadsClaimKept ==
  ASSUME IInv, NEW t \in Fences, WorkerReadsClaim(t)
  PROVE  IInv'
<1>1. PICK k : k = worker[t].key
  OBVIOUS
<1>2. /\ journal' = journal /\ own' = own /\ scene' = scene /\ broken' = broken
      /\ sent' = sent /\ frame' = frame /\ row' = row /\ mailbox' = mailbox
      /\ order' = order /\ content' = content
      /\ worker[t].pc = "read" /\ worker[t].pc # "idle"
      /\ IF OwnsClaim(k) THEN Goto(t, "assert") /\ ops' = ops
         ELSE IF WaitsAgain(k) THEN ops' = DeferSettled(k) /\ Deliver(t, "deferred")
         ELSE ops' = Settled(t, k, "rejected") /\ Deliver(t, IF Live(t) THEN "rejected" ELSE "ambiguous")
  BY <1>1 DEF WorkerReadsClaim, runtime
<1>3. /\ k \in Keys /\ ops[k] \in {"pending", "started", "unknown"}
      /\ row[k.sub].src = k => frame[k.sub] = "none"
  BY <1>1, <1>2, Held
<1>4. broken' \in [Fences -> BOOLEAN] /\ ops \in [Keys -> OpStates]
  BY <1>2 DEF IInv, TypeInv
<1>5. CASE OwnsClaim(k)
  <2>1. <<worker[t].pc, "assert">> \in Moves /\ row[k.sub].src = k /\ Goto(t, "assert") /\ ops' = ops
    BY <1>2, <1>5 DEF Moves, OwnsClaim
  <2>2. OpsMove
    BY <1>4, <2>1 DEF OpsMove
  <2> QED
    BY <1>1, <1>2, <2>1, <2>2, ProgressKept
<1>6. CASE ~OwnsClaim(k) /\ WaitsAgain(k)
  <2>1. ops' = DeferSettled(k) /\ Deliver(t, "deferred")
    BY <1>2, <1>6
  <2>2. OpsMove /\ ops'[k] = "rejected" /\ \A c \in Keys : c # k => ops'[c] = ops[c]
    BY <1>1, <1>2, <2>1, DeferredOps
  <2> QED
    BY <1>1, <1>2, <1>3, <1>4, <2>1, <2>2, PlainDelivery
<1>7. CASE ~OwnsClaim(k) /\ ~WaitsAgain(k)
  <2>1. CASE Live(t)
    <3>1. ops' = [ops EXCEPT ![k] = "rejected"] /\ Deliver(t, "rejected")
      BY <1>2, <1>7, <2>1 DEF Settled
    <3>2. OpsMove /\ ops'[k] = "rejected" /\ \A c \in Keys : c # k => ops'[c] = ops[c]
      BY <1>1, <1>2, <3>1, SettledOps
    <3> QED
      BY <1>1, <1>2, <1>3, <1>4, <3>1, <3>2, PlainDelivery
  <2>2. CASE ~Live(t)
    <3>1. ops' = ops /\ Deliver(t, "ambiguous")
      BY <1>2, <1>7, <2>2 DEF Settled
    <3>2. OpsMove /\ ops'[k] \notin {"confirmed", "rejected"} /\ \A c \in Keys : c # k => ops'[c] = ops[c]
      BY <1>3, <1>4, <3>1 DEF OpsMove
    <3> QED
      BY <1>1, <1>2, <1>3, <1>4, <3>1, <3>2, PlainDelivery
  <2> QED
    BY <2>1, <2>2
<1> QED
  BY <1>5, <1>6, <1>7

(* _assert_claimed_dispatchable finds nothing in the way. *)
LEMMA AssertKept ==
  ASSUME IInv, NEW t \in Fences, WorkerAsserts(t)
  PROVE  IInv'
<1>1. PICK k : k = worker[t].key
  OBVIOUS
<1>2. /\ journal' = journal /\ own' = own /\ scene' = scene /\ broken' = broken
      /\ sent' = sent /\ frame' = frame /\ row' = row /\ mailbox' = mailbox /\ ops' = ops
      /\ order' = order /\ content' = content
      /\ worker[t].pc = "assert" /\ Goto(t, "send")
  BY DEF WorkerAsserts, durable, runtime
<1>3. <<worker[t].pc, "send">> \in Moves /\ worker[t].pc # "idle"
  BY <1>2 DEF Moves
<1>4. OpsMove
  BY <1>2 DEF OpsMove, IInv, TypeInv
<1> QED
  BY <1>1, <1>2, <1>3, <1>4, ProgressKept

(* A frame beyond the limit is refused before it is sent. *)
LEMMA RefusesFrameKept ==
  ASSUME IInv, NEW t \in Fences, WorkerRefusesFrame(t)
  PROVE  IInv'
<1>1. PICK k : k = worker[t].key
  OBVIOUS
<1>2. /\ journal' = journal /\ own' = own /\ scene' = scene /\ broken' = broken
      /\ sent' = sent /\ frame' = frame /\ row' = row /\ mailbox' = mailbox
      /\ order' = order /\ content' = content
      /\ worker[t].pc = "send" /\ worker[t].pc # "idle"
      /\ ops' = [ops EXCEPT ![k] = "rejected"] /\ Deliver(t, "rejected")
  BY <1>1 DEF WorkerRefusesFrame, Settled, runtime
<1>3. row[k.sub].src = k => frame[k.sub] = "none"
  BY <1>1, <1>2, Held
<1>4. OpsMove /\ ops'[k] = "rejected" /\ \A c \in Keys : c # k => ops'[c] = ops[c]
  BY <1>1, <1>2, SettledOps
<1>5. broken' \in [Fences -> BOOLEAN]
  BY <1>2 DEF IInv, TypeInv
<1> QED
  BY <1>1, <1>2, <1>3, <1>4, <1>5, PlainDelivery

(* _sdk_call returns an id, a refusal or neither. *)
LEMMA HearsKept ==
  ASSUME IInv, NEW t \in Fences, WorkerHears(t)
  PROVE  IInv'
<1>1. PICK k : k = worker[t].key
  OBVIOUS
<1>2. /\ journal' = journal /\ own' = own /\ scene' = scene /\ broken' = broken
      /\ sent' = sent /\ frame' = frame /\ row' = row /\ mailbox' = mailbox
      /\ order' = order /\ content' = content
      /\ worker[t].pc = "inflight" /\ worker[t].pc # "idle"
      /\ \/ Goto(t, "accept") /\ ops' = ops
         \/ /\ frame[k.sub] = "refused" /\ ops' = Settled(t, k, "rejected")
            /\ Deliver(t, IF Live(t) THEN "rejected" ELSE "ambiguous")
         \/ Fails(t)
  BY <1>1 DEF WorkerHears, runtime
<1>3. k \in Keys /\ ops[k] \in {"pending", "started", "unknown"}
  BY <1>1, <1>2, Held
<1>4. broken' \in [Fences -> BOOLEAN] /\ ops \in [Keys -> OpStates]
  BY <1>2 DEF IInv, TypeInv
<1>5. CASE Goto(t, "accept") /\ ops' = ops
  <2>1. <<worker[t].pc, "accept">> \in Moves /\ OpsMove
    BY <1>2, <1>4, <1>5 DEF Moves, OpsMove
  <2> QED
    BY <1>1, <1>2, <1>5, <2>1, ProgressKept
<1>6. CASE /\ frame[k.sub] = "refused" /\ ops' = Settled(t, k, "rejected")
           /\ Deliver(t, IF Live(t) THEN "rejected" ELSE "ambiguous")
  <2>1. CASE Live(t)
    <3>1. ops' = [ops EXCEPT ![k] = "rejected"] /\ Deliver(t, "rejected")
      BY <1>6, <2>1 DEF Settled
    <3>2. OpsMove /\ ops'[k] = "rejected" /\ \A c \in Keys : c # k => ops'[c] = ops[c]
      BY <1>1, <1>2, <3>1, SettledOps
    <3> QED
      BY <1>1, <1>2, <1>4, <1>6, <3>1, <3>2, PlainDelivery
  <2>2. CASE ~Live(t)
    <3>1. ops' = ops /\ Deliver(t, "ambiguous")
      BY <1>6, <2>2 DEF Settled
    <3>2. OpsMove /\ ops'[k] \notin {"confirmed", "rejected"} /\ \A c \in Keys : c # k => ops'[c] = ops[c]
      BY <1>3, <1>4, <3>1 DEF OpsMove
    <3> QED
      BY <1>1, <1>2, <1>4, <3>1, <3>2, PlainDelivery
  <2> QED
    BY <2>1, <2>2
<1>7. CASE Fails(t)
  BY <1>2, <1>7, FailedDelivery
<1> QED
  BY <1>2, <1>5, <1>6, <1>7
-----------------------------------------------------------------------------
(* A dispatch that sent nothing takes its claim out of the row. *)
LEMMA UnclaimedRow ==
  ASSUME IInv, NEW t \in Fences, worker[t].pc # "idle", NEW k, k = worker[t].key, NEW r,
         row' = [row EXCEPT ![k.sub] = r],
         r \in Rows, RowOK(r), r.src = NoOp, r.state = "local_queued", r.queue = "local_queued",
         ops'[k] # "confirmed", Gone(k)', sent[k.sub] = 0,
         row[k.sub].src \in {NoOp, k}, ~row[k.sub].accepted, ~row[k.sub].observed,
         \/ row[k.sub].queue = "local_queued"
         \/ row[k.sub].src = k /\ row[k.sub].state = "submitting"
         \/ row[k.sub].src = k /\ row[k.sub].state = "submitted_unknown" /\ t # own
  PROVE  row' \in [Subs -> Rows] /\ RowInv' /\ row'[k.sub].src = NoOp /\ \A q \in Subs : RowStep(q) /\ ~Claims(q)
<1>1. k \in Keys /\ k.sub \in Subs /\ Holds(t, k) /\ Has(t, k) /\ k # NoOp
  BY Held
<1>2. ~Gone(k) /\ t \in Fences
  BY <1>1 DEF Gone
<1>3. RowOK(row[k.sub])
  BY <1>1 DEF IInv, RowInv
<1>4. row[k.sub].state # "absent"
  BY <1>3 DEF RowOK
<1>5. ~Closed(k.sub)
  BY <1>1, <1>2 DEF Closed
<1>6. \A u \in Fences : worker'[u].pc \in {"assert", "send", "inflight", "accept"} => worker'[u].key # k
  BY DEF Gone, Has, Holds, Fences
<1>7. row'[k.sub] = r => Requeued(k.sub) /\ ~Claims(k.sub)
  BY <1>1, <1>4, <1>5, <1>6 DEF Requeued, Unclaims, Claims
<1> QED
  BY <1>1, <1>7, OneRow DEF RowStep

(* The worker that finds no headroom at its first check. *)
LEMMA DefersKept ==
  ASSUME IInv, NEW t \in Fences, WorkerDefers(t)
  PROVE  IInv'
<1>1. PICK k : k = worker[t].key
  OBVIOUS
<1>2. /\ journal' = journal /\ own' = own /\ scene' = scene /\ broken' = broken
      /\ sent' = sent /\ frame' = frame /\ mailbox' = mailbox
      /\ order' = order /\ content' = content
      /\ worker[t].pc = "check" /\ worker[t].pc # "idle"
      /\ row' = (IF CanRequeue(k) THEN [row EXCEPT ![k.sub] = Backlog(row[k.sub])] ELSE row)
      /\ ops' = DeferSettled(k) /\ Deliver(t, "fence")
  BY <1>1 DEF WorkerDefers, Requeue, runtime
<1>3. k \in Keys /\ k # NoOp /\ k.sub \in Subs /\ row[k.sub].src # k
  BY <1>1, <1>2, Held
<1>4. OpsMove /\ ops'[k] = "rejected" /\ \A c \in Keys : c # k => ops'[c] = ops[c]
  BY <1>1, <1>2, DeferredOps
<1>5. Gone(k)'
  BY <1>1, <1>2, <1>4, Delivers
<1>6. /\ row' \in [Subs -> Rows] /\ RowInv' /\ row'[k.sub].src # k
      /\ \A q \in Subs : RowStep(q) /\ ~Claims(q)
  <2>1. CASE CanRequeue(k)
    <3>1. /\ row[k.sub].queue = "local_queued" /\ row[k.sub].src = NoOp
          /\ ~row[k.sub].accepted /\ ~row[k.sub].observed
      BY <1>3, <2>1 DEF CanRequeue, SourceMatches
    <3>2. row[k.sub] \in Rows /\ sent[k.sub] = 0
      BY <1>3, <3>1, WaitingUnsent DEF IInv, TypeInv
    <3> DEFINE r == Backlog(row[k.sub])
    <3>3. r \in Rows /\ RowOK(r) /\ r.state = "local_queued" /\ r.queue = "local_queued" /\ r.src = NoOp
      BY <3>1, <3>2, BacklogRow
    <3>4. row' = [row EXCEPT ![k.sub] = r]
      BY <1>2, <2>1
    <3> HIDE DEF r
    <3> QED
      BY <1>1, <1>2, <1>3, <1>4, <1>5, <3>1, <3>2, <3>3, <3>4, UnclaimedRow
  <2>2. CASE ~CanRequeue(k)
    <3>1. row' = row
      BY <1>2, <2>2
    <3> QED
      BY <1>3, <3>1, SameRows DEF IInv, TypeInv
  <2> QED
    BY <2>1, <2>2
<1>7. ContentStep
  BY <1>2, <1>6, ContentKept
<1>8. broken' \in [Fences -> BOOLEAN]
  BY <1>2 DEF IInv, TypeInv
<1> QED
  BY <1>1, <1>2, <1>4, <1>6, <1>7, <1>8, DeliveryKept

(* copilotd.submission.pre_send_deferred *)
LEMMA LosesReadinessKept ==
  ASSUME IInv, NEW t \in Fences, WorkerLosesReadiness(t)
  PROVE  IInv'
<1>1. PICK k : k = worker[t].key
  OBVIOUS
<1>2. /\ journal' = journal \cup {<<k.sub, "deferred", k.attempt>>}
      /\ own' = own /\ scene' = scene /\ broken' = broken
      /\ sent' = sent /\ frame' = frame /\ mailbox' = mailbox
      /\ order' = order /\ content' = content
      /\ worker[t].pc = "assert" /\ worker[t].pc # "idle"
      /\ row' = PreSendDeferred(k)
      /\ ops' = DeferSettled(k) /\ Deliver(t, "deferred")
  BY <1>1 DEF WorkerLosesReadiness, runtime
<1>3. /\ k \in Keys /\ k # NoOp /\ k.sub \in Subs /\ row[k.sub].src = k
      /\ sent[k.sub] = 0 /\ frame[k.sub] = "none"
  BY <1>1, <1>2, Held
<1>4. OpsMove /\ ops'[k] = "rejected" /\ \A c \in Keys : c # k => ops'[c] = ops[c]
  BY <1>1, <1>2, DeferredOps
<1>5. Gone(k)'
  BY <1>1, <1>2, <1>4, Delivers
<1>6. row[k.sub] \in Rows /\ RowOK(row[k.sub])
  BY <1>3 DEF IInv, TypeInv, RowInv
<1>7. row' \in [Subs -> Rows] /\ RowInv' /\ \A q \in Subs : RowStep(q) /\ ~Claims(q)
  <2>1. CASE row' = row
    BY <2>1, SameRows DEF IInv, TypeInv
  <2>2. CASE row' # row
    <3>1. row[k.sub].state = "submitting" /\ ~row[k.sub].accepted /\ ~row[k.sub].observed /\ row[k.sub].queue = "submitting"
      BY <1>2, <1>6, <2>2 DEF PreSendDeferred, RowOK
    <3>2. PICK n \in Nat : n = row[k.sub].attempt + 1
      BY <1>6, RowFields
    <3> DEFINE r == [row[k.sub] EXCEPT !.state = "local_queued", !.src = NoOp, !.queue = "local_queued", !.attempt = n]
    <3>3. row' = [row EXCEPT ![k.sub] = r]
      BY <1>2, <2>2, <3>1, <3>2 DEF PreSendDeferred
    <3>4. /\ r \in Rows /\ r.state = "local_queued" /\ r.queue = "local_queued" /\ r.src = NoOp
          /\ r.accepted = row[k.sub].accepted /\ r.observed = row[k.sub].observed
      BY <1>6 DEF Rows, SubmissionStates, QueueStates
    <3> HIDE DEF r
    <3>5. RowOK(r)
      BY <3>1, <3>4 DEF RowOK
    <3> QED
      BY <1>1, <1>2, <1>3, <1>4, <1>5, <3>1, <3>3, <3>4, <3>5, UnclaimedRow
  <2> QED
    BY <2>1, <2>2
<1>8. ContentStep
  BY <1>2, <1>7 DEF ContentStep, RowStep, Calm, Enters, Requeued, Claims
<1>9. broken' \in [Fences -> BOOLEAN]
  BY <1>2 DEF IInv, TypeInv
<1> QED
  BY <1>1, <1>2, <1>3, <1>4, <1>7, <1>8, <1>9, DeliveryKept

(* _requeue_pre_send_without_reducer, of a runtime that was fenced *)
LEMMA FencedKept ==
  ASSUME IInv, NEW t \in Fences, WorkerFenced(t)
  PROVE  IInv'
<1>1. PICK k : k = worker[t].key
  OBVIOUS
<1>2. /\ journal' = journal /\ own' = own /\ scene' = scene /\ broken' = broken
      /\ sent' = sent /\ frame' = frame /\ mailbox' = mailbox
      /\ order' = order /\ content' = content
      /\ worker[t].pc = "assert" /\ worker[t].pc # "idle" /\ t # own
      /\ row' = (IF CanRequeue(k) THEN [row EXCEPT ![k.sub] = Backlog(row[k.sub])] ELSE row)
      /\ IF CanRequeue(k) \/ WaitsAgain(k)
         THEN ops' = DeferSettled(k) /\ Deliver(t, "deferred")
         ELSE Fails(t)
  BY <1>1 DEF WorkerFenced, Requeue, runtime
<1>3. /\ k \in Keys /\ k # NoOp /\ k.sub \in Subs /\ row[k.sub].src = k
      /\ sent[k.sub] = 0 /\ frame[k.sub] = "none"
  BY <1>1, <1>2, Held
<1>4. broken' \in [Fences -> BOOLEAN]
  BY <1>2 DEF IInv, TypeInv
<1>5. CASE CanRequeue(k)
  <2>1. ops' = DeferSettled(k) /\ Deliver(t, "deferred")
    BY <1>2, <1>5
  <2>2. OpsMove /\ ops'[k] = "rejected" /\ \A c \in Keys : c # k => ops'[c] = ops[c]
    BY <1>1, <1>2, <2>1, DeferredOps
  <2>3. Gone(k)'
    BY <1>1, <1>2, <2>1, <2>2, Delivers
  <2>4. /\ row[k.sub].state \in {"submitting", "submitted_unknown"}
        /\ ~row[k.sub].accepted /\ ~row[k.sub].observed
    BY <1>3, <1>5 DEF CanRequeue, SourceMatches
  <2> DEFINE r == Backlog(row[k.sub])
  <2>5. r \in Rows /\ RowOK(r) /\ r.state = "local_queued" /\ r.queue = "local_queued" /\ r.src = NoOp
    <3>1. row[k.sub] \in Rows
      BY <1>3 DEF IInv, TypeInv
    <3> QED
      BY <2>4, <3>1, BacklogRow
  <2>6. row' = [row EXCEPT ![k.sub] = r]
    BY <1>2, <1>5
  <2> HIDE DEF r
  <2>7. /\ row' \in [Subs -> Rows] /\ RowInv' /\ row'[k.sub].src = NoOp
        /\ \A q \in Subs : RowStep(q) /\ ~Claims(q)
    BY <1>1, <1>2, <1>3, <2>2, <2>3, <2>4, <2>5, <2>6, UnclaimedRow
  <2>8. ContentStep
    BY <1>2, <2>7, ContentKept
  <2> QED
    BY <1>1, <1>2, <1>3, <1>4, <2>1, <2>2, <2>7, <2>8, DeliveryKept
<1>6. CASE ~CanRequeue(k) /\ WaitsAgain(k)
  <2>1. row' = row /\ ops' = DeferSettled(k) /\ Deliver(t, "deferred")
    BY <1>2, <1>6
  <2>2. OpsMove /\ ops'[k] = "rejected" /\ \A c \in Keys : c # k => ops'[c] = ops[c]
    BY <1>1, <1>2, <2>1, DeferredOps
  <2> QED
    BY <1>1, <1>2, <1>3, <1>4, <2>1, <2>2, PlainDelivery
<1>7. CASE ~CanRequeue(k) /\ ~WaitsAgain(k)
  <2>1. row' = row /\ Fails(t)
    BY <1>2, <1>7
  <2> QED
    BY <1>2, <2>1, FailedDelivery
<1> QED
  BY <1>5, <1>6, <1>7

(* copilotd.submission.accepted *)
LEMMA AcceptsKept ==
  ASSUME IInv, NEW t \in Fences, WorkerAccepts(t)
  PROVE  IInv'
<1>1. PICK k : k = worker[t].key
  OBVIOUS
<1>2. PICK s : s = k.sub
  OBVIOUS
<1>3. /\ journal' = journal /\ own' = own /\ scene' = scene /\ broken' = broken
      /\ sent' = sent /\ frame' = frame /\ mailbox' = mailbox
      /\ order' = order /\ content' = content \ {s}
      /\ worker[t].pc = "accept" /\ worker[t].pc # "idle" /\ t = own
      /\ row' = Accepted(s) /\ ops' = [ops EXCEPT ![k] = "confirmed"] /\ Deliver(t, "ok")
  BY <1>1, <1>2 DEF WorkerAccepts, Live, runtime
<1>4. k \in Keys /\ k # NoOp /\ s \in Subs /\ row[s].src = k /\ Has(t, k)
  BY <1>1, <1>2, <1>3, Held
<1>5. OpsMove /\ ops'[k] = "confirmed" /\ \A c \in Keys : c # k => ops'[c] = ops[c]
  BY <1>1, <1>3, SettledOps
<1>6. row[s] \in Rows /\ RowOK(row[s])
  BY <1>4 DEF IInv, TypeInv, RowInv
<1>7. row[s].state \notin {"local_queued", "absent", "cancelled"} /\ row[s].queue \notin {"local_queued", "blocked"}
  BY <1>4, <1>6 DEF RowOK
<1>8. PICK acc \in BOOLEAN :
        acc = (row[s].accepted \/ row[s].state \in {"local_queued", "submitting", "submitted",
                                      "submitted_unknown", "observed_active", "loop_idle"})
  BY <1>6, RowFields
<1> DEFINE r == [row[s] EXCEPT
                   !.state = IF @ \in {"local_queued", "submitting", "submitted_unknown"} THEN "submitted" ELSE @,
                   !.accepted = acc,
                   !.queue = IF @ \in {"local_queued", "submitting", "submitted_unknown"}
                                /\ row[s].state # "rejected"
                             THEN "submitted" ELSE @]
<1>9. row' = [row EXCEPT ![s] = r]
  BY <1>3, <1>8 DEF Accepted
<1>10. /\ r \in Rows /\ r.src = row[s].src /\ r.observed = row[s].observed /\ r.accepted = acc
       /\ r.state = IF row[s].state \in {"submitting", "submitted_unknown"} THEN "submitted" ELSE row[s].state
       /\ r.queue \in {row[s].queue, "submitted"}
  BY <1>6, <1>7 DEF Rows, SubmissionStates, QueueStates
<1> HIDE DEF r
<1>11. RowOK(r)
  BY <1>6, <1>7, <1>8, <1>10 DEF RowOK
<1>12. s \notin steers => Engaged(<<own, Pump>>) /\ dispatcher[<<own, Pump>>].key.sub = s
  BY <1>2, <1>3, <1>4, PumpKey DEF IInv, Engaged
<1>13. row'[s] = r => RowStep(s) /\ ~Claims(s)
  BY <1>3, <1>7, <1>8, <1>10, <1>12 DEF RowStep, Calm, Claims, Awaited
<1>14. /\ row' \in [Subs -> Rows] /\ RowInv' /\ row'[s] = r
       /\ \A q \in Subs : RowStep(q) /\ ~Claims(q)
  BY <1>4, <1>9, <1>10, <1>11, <1>13, OneRow
<1>15. Closed(s)'
  BY <1>7, <1>8, <1>10, <1>14 DEF Closed
<1>16. ContentStep
  <2>1. content \subseteq content' \cup {s} /\ journal' \subseteq journal \cup {<<s, "ok", 0>>}
    BY <1>3
  <2> QED
    BY <1>4, <1>14, <1>15, <2>1, ContentForgotten
<1>17. broken' \in [Fences -> BOOLEAN] /\ row'[k.sub].src = k
  BY <1>2, <1>3, <1>4, <1>10, <1>14 DEF IInv, TypeInv
<1> QED
  BY <1>1, <1>3, <1>5, <1>14, <1>16, <1>17, DeliveryKept
-----------------------------------------------------------------------------
(* The claim finds the halves of the row apart: only a steer can have left them so. *)
LEMMA DivergesKept ==
  ASSUME IInv, NEW t \in Fences, WorkerClaims(t), ClaimDiverges(worker[t].key)
  PROVE  IInv'
<1>1. PICK k : k = worker[t].key
  OBVIOUS
<1>2. /\ journal' = journal /\ own' = own /\ scene' = scene /\ broken' = [broken EXCEPT ![t] = TRUE]
      /\ sent' = sent /\ frame' = frame /\ row' = row /\ mailbox' = mailbox
      /\ order' = order /\ content' = content /\ ops' = ops
      /\ worker[t].pc = "claim" /\ worker[t].pc # "idle" /\ t = own /\ Deliver(t, "ambiguous")
      /\ row[k.sub].state = "local_queued" /\ row[k.sub].queue # "local_queued"
  BY <1>1 DEF WorkerClaims, ClaimDiverges, Live, runtime
<1>3. k \in Keys /\ k.sub \in Subs /\ Has(t, k) /\ ops[k] \in {"pending", "started", "unknown"}
  BY <1>1, <1>2, Held
<1>4. broken' \in [Fences -> BOOLEAN] /\ ops \in [Keys -> OpStates]
  BY <1>2 DEF IInv, TypeInv
<1>5. steers # {}
  <2> SUFFICES ASSUME k.sub \notin steers PROVE FALSE
    OBVIOUS
  <2>1. dispatcher[<<own, Pump>>].pc = "await" /\ dispatcher[<<own, Pump>>].key = k
    BY <1>2, <1>3, PumpKey DEF IInv
  <2>2. Clear(k.sub)
    BY <2>1 DEF IInv, PumpInv, Engaged
  <2> QED
    BY <1>2, <2>2 DEF Clear
<1>6. OpsMove /\ ops'[k] \notin {"confirmed", "rejected"} /\ \A c \in Keys : c # k => ops'[c] = ops[c]
  BY <1>2, <1>3, <1>4 DEF OpsMove
<1> QED
  BY <1>1, <1>2, <1>4, <1>5, <1>6, PlainDelivery

(* The claim comes too late, or during a drain, which counts it as an attempt. *)
LEMMA NoClaimKept ==
  ASSUME IInv, NEW t \in Fences, WorkerClaims(t), ~ClaimDiverges(worker[t].key),
         draining \/ row[worker[t].key.sub].state # "local_queued"
  PROVE  IInv'
<1>1. PICK k : k = worker[t].key
  OBVIOUS
<1>2. /\ journal' = journal /\ own' = own /\ scene' = scene /\ broken' = broken
      /\ sent' = sent /\ frame' = frame /\ mailbox' = mailbox
      /\ order' = order /\ content' = content /\ ops' = ops
      /\ worker[t].pc = "claim" /\ worker[t].pc # "idle" /\ Goto(t, "read")
      /\ row' = row \/ row' = [row EXCEPT ![k.sub].attempt = @ + 1]
  BY <1>1 DEF WorkerClaims, Claimed, runtime
<1>3. k \in Keys /\ k.sub \in Subs
  BY <1>1, <1>2, Held
<1>4. OpsMove /\ <<worker[t].pc, "read">> \in Moves
  BY <1>2 DEF OpsMove, IInv, TypeInv, Moves
<1>5. CASE row' = row
  BY <1>1, <1>2, <1>4, <1>5, ProgressKept
<1>6. CASE row' = [row EXCEPT ![k.sub].attempt = @ + 1]
  <2>1. row[k.sub] \in Rows /\ RowOK(row[k.sub])
    BY <1>3 DEF IInv, TypeInv, RowInv
  <2>2. PICK n \in Nat : n = row[k.sub].attempt + 1
    BY <2>1, RowFields
  <2> DEFINE r == [row[k.sub] EXCEPT !.attempt = n]
  <2>3. row' = [row EXCEPT ![k.sub] = r]
    BY <1>6, <2>2
  <2>4. /\ r \in Rows /\ r.state = row[k.sub].state /\ r.queue = row[k.sub].queue /\ r.src = row[k.sub].src
        /\ r.accepted = row[k.sub].accepted /\ r.observed = row[k.sub].observed
    BY <2>1 DEF Rows
  <2> HIDE DEF r
  <2>5. RowOK(r)
    BY <2>1, <2>4 DEF RowOK
  <2>6. row[k.sub].src # k
    BY <1>1, <1>2, Held
  <2>7. row'[k.sub] = r => RowStep(k.sub) /\ ~Claims(k.sub)
    <3>1. ASSUME row'[k.sub] = r PROVE Calm(k.sub)
      BY <2>4, <3>1 DEF Calm
    <3>2. ASSUME row'[k.sub] = r PROVE ~Claims(k.sub)
      BY <2>4, <3>2 DEF Claims
    <3> QED
      BY <3>1, <3>2 DEF RowStep
  <2>8. row' \in [Subs -> Rows] /\ RowInv' /\ \A q \in Subs : RowStep(q) /\ ~Claims(q)
    BY <1>3, <2>3, <2>4, <2>5, <2>7, OneRow
  <2>9. /\ KeyLayer /\ worker'[t].pc = "read" /\ dispatcher' = dispatcher
        /\ \A u \in Fences : u # t => worker'[u] = worker[u]
    BY <1>2, <1>4, GoesOn DEF Goto
  <2>10. TypeInv'
    BY <1>2, <2>8, <2>9 DEF IInv, TypeInv, KeyLayer, Dispatchers, steers
  <2>11. \A u \in Fences : /\ ~(worker[u].pc = "send" /\ worker'[u].pc = "inflight")
                           /\ ~(worker[u].pc = "read" /\ worker'[u].pc = "assert")
    BY <2>9
  <2>12. SettlesTruly /\ OrderStep /\ ContentStep
    BY <1>2, <2>8, SameOps, ContentKept DEF OrderStep
  <2> QED
    BY <1>2, <2>8, <2>9, <2>10, <2>11, <2>12, SameDesks, Preserved
<1> QED
  BY <1>2, <1>5, <1>6

(* copilotd.submission.submitting: the claim is made. *)
LEMMA ClaimKept ==
  ASSUME IInv, NEW t \in Fences, WorkerClaims(t), ~ClaimDiverges(worker[t].key),
         ~draining, row[worker[t].key.sub].state = "local_queued"
  PROVE  IInv'
<1>1. PICK k : k = worker[t].key
  OBVIOUS
<1>2. PICK s : s = k.sub
  OBVIOUS
<1>3. /\ journal' = journal /\ own' = own /\ scene' = scene /\ broken' = broken
      /\ sent' = sent /\ frame' = frame /\ mailbox' = mailbox
      /\ order' = order /\ content' = content /\ ops' = ops
      /\ worker[t].pc = "claim" /\ worker[t].pc # "idle" /\ t = own /\ Goto(t, "read")
      /\ row[s].state = "local_queued" /\ row[s].queue = "local_queued"
      /\ row' = [row EXCEPT ![s].state = "submitting", ![s].queue = "submitting", ![s].src = k]
  BY <1>1, <1>2 DEF WorkerClaims, Claimed, ClaimDiverges, Live, runtime
<1>4. /\ k \in Keys /\ k # NoOp /\ s \in Subs /\ ops[k] \in {"pending", "started", "unknown"}
      /\ row[s].src # k
  BY <1>1, <1>2, <1>3, Held
<1>5. row[s] \in Rows /\ RowOK(row[s])
  BY <1>4 DEF IInv, TypeInv, RowInv
<1>6. row[s].src = NoOp /\ ~row[s].accepted /\ ~row[s].observed
  BY <1>3, <1>5 DEF RowOK
<1>7. sent[s] = 0
  BY <1>4, <1>6, WaitingUnsent
<1> DEFINE r == [row[s] EXCEPT !.state = "submitting", !.queue = "submitting", !.src = k]
<1>8. row' = [row EXCEPT ![s] = r]
  BY <1>3, <1>4, <1>5 DEF IInv, TypeInv, Rows
<1>9. /\ r \in Rows /\ r.state = "submitting" /\ r.queue = "submitting" /\ r.src = k
      /\ r.accepted = row[s].accepted /\ r.observed = row[s].observed
  BY <1>4, <1>5 DEF Rows, SubmissionStates, QueueStates
<1> HIDE DEF r
<1>10. RowOK(r)
  BY <1>6, <1>9 DEF RowOK
<1>11. row' \in [Subs -> Rows] /\ row'[s] = r /\ \A q \in Subs : q # s => row'[q] = row[q]
  BY <1>4, <1>8, <1>9 DEF IInv, TypeInv
<1>12. RowInv'
  <2>1. \A q \in Subs : RowOK(row'[q])
    BY <1>10, <1>11 DEF IInv, RowInv
  <2> QED
    BY <2>1 DEF RowInv, RowOK
<1>13. \A q \in Subs : RowStep(q)
  <2>1. Claims(s)
    BY <1>1, <1>2, <1>3, <1>9, <1>11 DEF Claims
  <2> QED
    BY <1>11, <2>1, SameRow DEF RowStep
<1>14. OpsMove /\ <<worker[t].pc, "read">> \in Moves
  BY <1>3 DEF OpsMove, IInv, TypeInv, Moves
<1>15. /\ KeyLayer /\ worker'[t].pc = "read" /\ worker'[t].key = k /\ dispatcher' = dispatcher
       /\ \A u \in Fences : u # t => worker'[u] = worker[u]
  BY <1>1, <1>3, <1>14, GoesOn DEF Goto
<1>16. TypeInv'
  BY <1>3, <1>11, <1>15 DEF IInv, TypeInv, KeyLayer, Dispatchers, steers
<1>17. TypeInv /\ KeyInv /\ SrcInv /\ StageInv /\ SentInv /\ OpInv /\ Works /\ KeyInv'
  BY <1>15 DEF IInv, KeyLayer
<1>18. \A u \in Fences : (Has(u, k) => u = t) /\ ~Queues(u, k)
  BY <1>1, <1>3, <1>17, OneHas
<1>19. \A c : \A u \in Fences : (Holds(u, c)' => Holds(u, c)) /\ (Queues(u, c)' <=> Queues(u, c))
  BY <1>1, <1>3, <1>15 DEF Holds, Queues
<1>20. SrcInv'
  <2> SUFFICES ASSUME NEW q \in Subs, NEW c, c = row'[q].src, c # NoOp
               PROVE  /\ c.sub = q /\ ops[c] # "none"
                      /\ \A u \in Fences : ~Queues(u, c)' /\ (Holds(u, c)' => worker'[u].pc \notin {"check", "claim"})
    BY <1>3 DEF SrcInv, Queues, Holds
  <2>1. CASE q = s
    <3>1. c = k
      BY <1>9, <1>11, <2>1
    <3>2. ASSUME NEW u \in Fences, Holds(u, c)' PROVE worker'[u].pc = "read"
      BY <1>15, <1>18, <1>19, <3>1, <3>2 DEF Has
    <3> QED
      BY <1>2, <1>4, <1>18, <1>19, <2>1, <3>1, <3>2
  <2>2. CASE q # s
    <3>1. /\ c.sub = q /\ ops[c] # "none"
          /\ \A u \in Fences : ~Queues(u, c) /\ (Holds(u, c) => worker[u].pc \notin {"check", "claim"})
      BY <1>11, <1>17, <2>2 DEF SrcInv
    <3> QED
      BY <1>15, <1>19, <3>1
  <2> QED
    BY <2>1, <2>2
<1>21. StageInv'
  <2> SUFFICES ASSUME NEW u \in Fences, worker'[u].pc \in {"assert", "send", "inflight", "accept"}
               PROVE  /\ row'[worker'[u].key.sub].src = worker'[u].key
                      /\ worker'[u].pc \in {"inflight", "accept"} => sent[worker'[u].key.sub] = 1
    BY <1>3 DEF StageInv
  <2>1. u # t /\ worker'[u] = worker[u]
    BY <1>15
  <2>2. PICK c : c = worker[u].key
    OBVIOUS
  <2>3. c \in Keys /\ c.sub \in Subs /\ c # NoOp /\ row[c.sub].src = c /\ (worker[u].pc \in {"inflight", "accept"} => sent[c.sub] = 1)
    BY <1>17, <2>1, <2>2, KeyFields DEF StageInv, KeyInv
  <2>4. c.sub # s
    BY <1>6, <2>3
  <2> QED
    BY <1>11, <2>1, <2>2, <2>3, <2>4
<1>22. SentInv'
  <2> SUFFICES ASSUME NEW q \in Subs
               PROVE  /\ sent[q] <= 1 /\ (sent[q] = 0 => frame[q] = "none")
                      /\ sent[q] > 0 =>
                            /\ row'[q].src # NoOp
                            /\ \A u \in Fences : Holds(u, row[q].src)' => worker'[u].pc \in {"inflight", "accept"}
    BY <1>3 DEF SentInv
  <2>1. CASE q = s
    BY <1>7, <1>17, <2>1 DEF SentInv
  <2>2. CASE q # s
    <3>1. row'[q] = row[q]
      BY <1>11, <2>2
    <3>2. PICK c : c = row[q].src
      OBVIOUS
    <3>3. /\ sent[q] <= 1 /\ (sent[q] = 0 => frame[q] = "none")
          /\ sent[q] > 0 => c # NoOp /\ \A u \in Fences : Holds(u, c) => worker[u].pc \in {"inflight", "accept"}
      BY <1>17, <3>2 DEF SentInv
    <3>4. ASSUME sent[q] > 0, NEW u \in Fences, Holds(u, c)' PROVE worker'[u].pc \in {"inflight", "accept"}
      BY <1>3, <1>15, <1>19, <3>3, <3>4
    <3>5. ASSUME sent[q] > 0, NEW u \in Fences, Holds(u, row[q].src)' PROVE worker'[u].pc \in {"inflight", "accept"}
      <4>1. Holds(u, c)'
        BY <3>1, <3>2, <3>5 DEF Holds
      <4> QED
        BY <3>4, <3>5, <4>1
    <3> QED
      BY <3>1, <3>2, <3>3, <3>5
  <2> QED
    BY <2>1, <2>2
<1>23. OpInv'
  <2> SUFFICES ASSUME NEW c \in Keys
               PROVE  /\ ops[c] = "confirmed" => Gone(c)' /\ row'[c.sub].src = c
                      /\ ops[c] = "rejected" => Gone(c)' /\ (row'[c.sub].src = c => frame[c.sub] \in {"none", "refused"})
    BY <1>3 DEF OpInv
  <2>1. c.sub \in Subs /\ c # NoOp
    BY KeyFields
  <2>2. ASSUME ops[c] \in {"confirmed", "rejected"} PROVE Gone(c)'
    BY <1>17, <2>2, GoneStays DEF OpInv
  <2>3. ASSUME ops[c] = "confirmed" PROVE row'[c.sub].src = c
    <3>1. row[c.sub].src = c /\ c.sub # s
      BY <1>6, <1>17, <2>1, <2>3 DEF OpInv
    <3> QED
      BY <1>11, <2>1, <3>1
  <2>4. ASSUME ops[c] = "rejected", row'[c.sub].src = c PROVE frame[c.sub] \in {"none", "refused"}
    <3>1. c # k
      BY <1>4, <2>4
    <3>2. c.sub # s
      BY <1>9, <1>11, <2>4, <3>1
    <3>3. row[c.sub].src = c
      BY <1>11, <2>1, <2>4, <3>2
    <3> QED
      BY <1>17, <2>4, <3>3 DEF OpInv
  <2> QED
    BY <2>2, <2>3, <2>4
<1>24. FrameStep /\ OrderStep /\ ContentStep
  BY <1>3, <1>13, ContentKept DEF FrameStep, OrderStep
<1>25. \A u \in Fences, d \in Dispatchers : DeskStep(u, d)
  BY <1>15, SameDesks
<1>26. /\ DeskInv' /\ OutInv' /\ ContentInv' /\ HandInv' /\ PumpInv' /\ RejectedInv'
       /\ OrderInv' /\ ReducerSurvives'
  BY <1>3, <1>12, <1>13, <1>15, <1>16, <1>24, <1>25, Onward
<1> QED
  BY <1>12, <1>15, <1>16, <1>20, <1>21, <1>22, <1>23, <1>26 DEF IInv, KeyLayer

(* session.send *)
LEMMA SendsKept ==
  ASSUME IInv, NEW t \in Fences, WorkerSends(t)
  PROVE  IInv'
<1>1. PICK k : k = worker[t].key
  OBVIOUS
<1>2. PICK s : s = k.sub
  OBVIOUS
<1>3. /\ journal' = journal /\ own' = own /\ scene' = scene /\ broken' = broken
      /\ mailbox' = mailbox /\ order' = order /\ content' = content /\ ops' = ops /\ row' = row
      /\ worker[t].pc = "send" /\ worker[t].pc # "idle" /\ Goto(t, "inflight")
      /\ sent' = [sent EXCEPT ![s] = sent[s] + 1] /\ frame' = [frame EXCEPT ![s] = "sent"]
  BY <1>1, <1>2 DEF WorkerSends, durable
<1>4. /\ k \in Keys /\ k # NoOp /\ s \in Subs /\ ops[k] \in {"pending", "started", "unknown"}
      /\ row[s].src = k /\ Holds(t, k)
  BY <1>1, <1>2, <1>3, Held
<1>5. sent[s] = 0
  BY <1>1, <1>2, <1>3, <1>4, Held
<1>6. sent \in [Subs -> Nat] /\ frame \in [Subs -> {"none", "sent", "taken", "refused"}]
  BY DEF IInv, TypeInv
<1>7. /\ sent' \in [Subs -> Nat] /\ sent'[s] = 1 /\ \A q \in Subs : q # s => sent'[q] = sent[q]
      /\ frame' \in [Subs -> {"none", "sent", "taken", "refused"}] /\ \A q \in Subs : q # s => frame'[q] = frame[q]
  BY <1>3, <1>4, <1>5, <1>6
<1>8. RowInv' /\ \A q \in Subs : RowStep(q)
  BY <1>3, SameRows
<1>9. OpsMove /\ <<worker[t].pc, "inflight">> \in Moves
  BY <1>3 DEF OpsMove, IInv, TypeInv, Moves
<1>10. /\ KeyLayer /\ worker'[t].pc = "inflight" /\ worker'[t].key = k /\ dispatcher' = dispatcher
       /\ \A u \in Fences : u # t => worker'[u] = worker[u]
  BY <1>1, <1>3, <1>9, GoesOn DEF Goto
<1>11. TypeInv'
  BY <1>3, <1>7, <1>10 DEF IInv, TypeInv, KeyLayer, Dispatchers, steers
<1>12. TypeInv /\ KeyInv /\ SrcInv /\ StageInv /\ SentInv /\ OpInv /\ Works /\ KeyInv'
  BY <1>10 DEF IInv, KeyLayer
<1>13. \A u \in Fences : (Has(u, k) => u = t) /\ ~Queues(u, k)
  BY <1>1, <1>3, <1>12, OneHas
<1>14. \A c : \A u \in Fences : (Holds(u, c)' => Holds(u, c)) /\ (Queues(u, c)' <=> Queues(u, c))
  BY <1>1, <1>3, <1>10 DEF Holds, Queues
<1>15. \A q \in Subs : row[q].src = k => q = s
  BY <1>2, <1>4, <1>12 DEF SrcInv
<1>16. SrcInv'
  <2> SUFFICES ASSUME NEW q \in Subs, NEW c, c = row[q].src, c # NoOp
               PROVE  /\ c.sub = q /\ ops[c] # "none"
                      /\ \A u \in Fences : ~Queues(u, c)' /\ (Holds(u, c)' => worker'[u].pc \notin {"check", "claim"})
    BY <1>3 DEF SrcInv, Queues, Holds
  <2>1. /\ c.sub = q /\ ops[c] # "none"
        /\ \A u \in Fences : ~Queues(u, c) /\ (Holds(u, c) => worker[u].pc \notin {"check", "claim"})
    BY <1>12 DEF SrcInv
  <2> QED
    BY <1>10, <1>14, <2>1
<1>17. StageInv'
  <2> SUFFICES ASSUME NEW u \in Fences, worker'[u].pc \in {"assert", "send", "inflight", "accept"}
               PROVE  /\ row[worker'[u].key.sub].src = worker'[u].key
                      /\ worker'[u].pc \in {"inflight", "accept"} => sent'[worker'[u].key.sub] = 1
    BY <1>3 DEF StageInv
  <2>1. CASE u = t
    BY <1>2, <1>4, <1>7, <1>10, <2>1
  <2>2. CASE u # t
    <3>1. worker'[u] = worker[u]
      BY <1>10, <2>2
    <3>2. PICK c : c = worker[u].key
      OBVIOUS
    <3>3. c \in Keys /\ c.sub \in Subs /\ row[c.sub].src = c /\ (worker[u].pc \in {"inflight", "accept"} => sent[c.sub] = 1)
      BY <1>12, <3>1, <3>2, KeyFields DEF StageInv, KeyInv
    <3>4. worker[u].pc \in {"inflight", "accept"} => c.sub # s
      BY <1>5, <3>3
    <3> QED
      BY <1>7, <3>1, <3>2, <3>3, <3>4
  <2> QED
    BY <2>1, <2>2
<1>18. SentInv'
  <2> SUFFICES ASSUME NEW q \in Subs, NEW c, c = row[q].src
               PROVE  /\ sent'[q] <= 1 /\ (sent'[q] = 0 => frame'[q] = "none")
                      /\ sent'[q] > 0 =>
                            /\ c # NoOp
                            /\ \A u \in Fences : Holds(u, c)' => worker'[u].pc \in {"inflight", "accept"}
    BY <1>3 DEF SentInv, Holds
  <2>1. CASE q = s
    <3>1. c = k
      BY <1>4, <2>1
    <3>2. ASSUME NEW u \in Fences, Holds(u, c)' PROVE worker'[u].pc = "inflight"
      BY <1>10, <1>13, <1>14, <3>1, <3>2 DEF Has
    <3> QED
      BY <1>4, <1>7, <2>1, <3>1, <3>2
  <2>2. CASE q # s
    <3>1. /\ sent[q] <= 1 /\ (sent[q] = 0 => frame[q] = "none")
          /\ sent[q] > 0 => c # NoOp /\ \A u \in Fences : Holds(u, c) => worker[u].pc \in {"inflight", "accept"}
      BY <1>12 DEF SentInv
    <3>2. c # k
      BY <1>15, <2>2
    <3>3. ASSUME NEW u \in Fences, Holds(u, c)' PROVE u # t /\ Holds(u, c) /\ worker'[u] = worker[u]
      BY <1>10, <1>14, <3>2, <3>3 DEF Holds
    <3> QED
      BY <1>7, <2>2, <3>1, <3>3
  <2> QED
    BY <2>1, <2>2
<1>19. OpInv'
  <2> SUFFICES ASSUME NEW c \in Keys
               PROVE  /\ ops[c] = "confirmed" => Gone(c)' /\ row[c.sub].src = c
                      /\ ops[c] = "rejected" => Gone(c)' /\ (row[c.sub].src = c => frame'[c.sub] \in {"none", "refused"})
    BY <1>3 DEF OpInv
  <2>1. c.sub \in Subs
    BY KeyFields
  <2>2. ASSUME ops[c] \in {"confirmed", "rejected"} PROVE Gone(c)'
    BY <1>12, <2>2, GoneStays DEF OpInv
  <2>3. ASSUME ops[c] = "rejected", row[c.sub].src = c PROVE frame'[c.sub] \in {"none", "refused"}
    <3>1. c.sub # s
      BY <1>4, <2>3
    <3> QED
      BY <1>7, <1>12, <2>1, <2>3, <3>1 DEF OpInv
  <2> QED
    BY <1>12, <2>2, <2>3 DEF OpInv
<1>20. FrameStep
  BY <1>4, <1>7 DEF FrameStep
<1>21. OrderStep /\ ContentStep
  BY <1>3, <1>8, ContentKept DEF OrderStep
<1>22. \A u \in Fences, d \in Dispatchers : DeskStep(u, d)
  BY <1>10, SameDesks
<1>23. /\ DeskInv' /\ OutInv' /\ ContentInv' /\ HandInv' /\ PumpInv' /\ RejectedInv'
       /\ OrderInv' /\ ReducerSurvives'
  BY <1>3, <1>8, <1>10, <1>11, <1>20, <1>21, <1>22, Onward
<1> QED
  BY <1>8, <1>10, <1>11, <1>16, <1>17, <1>18, <1>19, <1>23 DEF IInv, KeyLayer
-----------------------------------------------------------------------------
(* _orphan_previous_owners, on a row *)
LEMMA OrphanedRow ==
  ASSUME NEW q \in Rows, RowOK(q)
  PROVE  LET r == Orphaned(q) IN
         /\ r \in Rows /\ RowOK(r) /\ r.src = q.src /\ r.accepted = q.accepted /\ r.observed = q.observed
         /\ r.queue = "local_queued" <=> q.queue = "local_queued"
         /\ r.state = "absent" <=> q.state = "absent"
         /\ r.state = "rejected" <=> q.state = "rejected"
         /\ r.state \in {"submitting", "submitted_unknown"} => q.state \in {"submitting", "submitted"}
<1> DEFINE r == Orphaned(q)
<1> DEFINE st == IF q.state \in {"submitting", "submitted"} THEN "submitted_unknown"
                 ELSE IF q.state \in {"submitted_unknown", "observed_active", "loop_idle"}
                 THEN "outcome_unknown" ELSE q.state
<1>1. q.state \in SubmissionStates /\ q.queue \in QueueStates
  BY RowFields
<1>2. st \in SubmissionStates
  BY <1>1 DEF SubmissionStates
<1>3. /\ st = "absent" <=> q.state = "absent"
      /\ st = "rejected" <=> q.state = "rejected"
      /\ st = "local_queued" <=> q.state = "local_queued"
      /\ st = "cancelled" <=> q.state = "cancelled"
      /\ st # "submitting" /\ st # "submitted" /\ st # "observed_active" /\ st # "loop_idle"
      /\ st = "submitted_unknown" => q.state \in {"submitting", "submitted"}
  OBVIOUS
<1>4. r = [q EXCEPT !.state = st, !.queue = IF @ = "submitting" /\ st = "submitted_unknown" THEN st ELSE @]
  BY DEF Orphaned
<1> HIDE DEF st, r
<1>5. /\ r \in Rows /\ r.src = q.src /\ r.accepted = q.accepted /\ r.observed = q.observed /\ r.state = st
      /\ r.queue = IF q.queue = "submitting" /\ st = "submitted_unknown" THEN "submitted_unknown" ELSE q.queue
  BY <1>1, <1>2, <1>4 DEF Rows, QueueStates
<1>6. RowOK(r)
  BY <1>3, <1>5 DEF RowOK
<1> QED
  BY <1>3, <1>5, <1>6 DEF r

(* The tasks of the former runtimes go on as they are, or are gone. *)
Heirs ==
  /\ \A u \in Fences : worker'[u] = worker[u] \/ worker'[u].pc = "idle"
  /\ \A u \in Fences : mailbox'[u] = mailbox[u] \/ mailbox'[u] = <<>>
  /\ \A u \in Fences, d \in Dispatchers :
       \/ dispatcher'[<<u, d>>] = dispatcher[<<u, d>>]
       \/ dispatcher'[<<u, d>>].pc = "idle" /\ worker'[u].pc = "idle" /\ mailbox'[u] = <<>>

(* What a takeover and a restart have in common. *)
LEMMA Succession ==
  ASSUME IInv, NewOwner, Heirs,
         dispatcher' \in [Fences \X Dispatchers -> Desks], mailbox' \in [Fences -> Seq(Keys)],
         worker' \in [Fences -> Stations], row' \in [Subs -> Rows],
         \A s \in Subs :
           /\ RowOK(row'[s]) /\ row'[s].src = row[s].src
           /\ row'[s].state = "absent" <=> row[s].state = "absent"
           /\ row'[s].state = "rejected" => row[s].state = "rejected" \/ row[s].src = NoOp,
         \A s \in Subs :
           /\ Closed(s) => Closed(s)'
           /\ row'[s].state # "absent" /\ s \notin content' => s \notin content \/ Closed(s)'
  PROVE  IInv'
<1>0. /\ TypeInv /\ IdleInv /\ DeskInv /\ KeyInv /\ OutInv /\ RowInv /\ SrcInv /\ OpInv /\ ContentInv
      /\ RejectedInv /\ OrderInv /\ ReducerSurvives
  BY DEF IInv
<1>1. /\ own < MaxFence /\ own' = own + 1
      /\ ops' = [k \in Keys |-> IF ops[k] \in {"pending", "started"} THEN "unknown" ELSE ops[k]]
      /\ order' = order /\ journal' = journal /\ scene' = scene /\ broken' = broken
      /\ frame' = frame /\ sent' = sent
  BY DEF NewOwner
<1>2. steers' = steers /\ Dispatchers' = Dispatchers
  BY <1>1 DEF steers, Dispatchers
<1>3. own' \in Fences /\ own' > own /\ own \in Nat /\ own' \in Nat /\ Fences \subseteq Nat
  <2>1. MaxFence \in Nat /\ own \in Nat /\ own \in Fences /\ Fences \subseteq Nat
    BY <1>0, QueueAssumption, Sorts
  <2>2. own >= 1
    BY <2>1 DEF Fences
  <2> QED
    BY <1>1, <2>1, <2>2 DEF Fences
<1>4. OpsMove /\ \A k \in Keys : ops'[k] \in {"confirmed", "rejected"} => ops'[k] = ops[k]
  BY <1>0, <1>1 DEF OpsMove, TypeInv, OpStates
<1>5. TypeInv'
  <2>1. ops' \in [Keys -> OpStates]
    BY <1>4 DEF OpsMove
  <2> QED
    BY <1>0, <1>1, <1>2, <1>3, <2>1 DEF TypeInv
<1>6. ASSUME NEW u \in Fences, NEW c
      PROVE  /\ Holds(u, c)' => Holds(u, c) /\ worker'[u] = worker[u]
             /\ Queues(u, c)' => Queues(u, c) /\ mailbox'[u] = mailbox[u]
  <2>1. ASSUME Holds(u, c)' PROVE Holds(u, c) /\ worker'[u] = worker[u]
    BY <2>1 DEF Heirs, Holds
  <2>2. ASSUME Queues(u, c)' PROVE Queues(u, c) /\ mailbox'[u] = mailbox[u]
    <3>1. mailbox'[u] # <<>>
      BY <2>2 DEF Queues
    <3> QED
      BY <2>2, <3>1 DEF Heirs, Queues
  <2> QED
    BY <2>1, <2>2
<1>7. ASSUME NEW u \in Fences, NEW c \in Keys, Has(u, c)'
      PROVE  Has(u, c) /\ ops[c] # "none" /\ ops'[c] # "none" /\ dispatcher'[Desk(u, c)] = dispatcher[Desk(u, c)]
  <2>1. Has(u, c)
    BY <1>6, <1>7 DEF Has
  <2>2. ops[c] # "none" /\ Desk(u, c)[2] \in Dispatchers
    BY <1>0, <2>1 DEF KeyInv
  <2>3. worker'[u].pc # "idle" \/ mailbox'[u] # <<>>
    BY <1>7 DEF Has, Holds, Queues
  <2>4. dispatcher'[Desk(u, c)] = dispatcher[Desk(u, c)]
    BY <2>2, <2>3 DEF Heirs, Desk
  <2> QED
    BY <1>4, <2>1, <2>2, <2>4 DEF OpsMove
<1>8. KeyInv'
  <2>1. \A u \in Fences : worker'[u].pc # "idle" => worker'[u].key \in Keys
    BY <1>0 DEF KeyInv, Heirs
  <2>2. \A u \in Fences, c \in Keys : ~(Holds(u, c)' /\ Queues(u, c)')
    BY <1>0, <1>6 DEF KeyInv
  <2>3. ASSUME NEW u \in Fences PROVE \A i, j \in DOMAIN mailbox'[u] : mailbox'[u][i] = mailbox'[u][j] => i = j
    <3>1. CASE mailbox'[u] = mailbox[u]
      BY <1>0, <3>1 DEF KeyInv
    <3>2. CASE mailbox'[u] = <<>>
      BY <3>2
    <3> QED
      BY <3>1, <3>2 DEF Heirs
  <2> QED
    BY <1>0, <1>1, <1>7, <2>1, <2>2, <2>3, KeyShrink
<1>9. IdleInv'
  <2> SUFFICES ASSUME NEW u \in Fences, u > own'
               PROVE  /\ mailbox'[u] = <<>> /\ worker'[u].pc = "idle"
                      /\ \A d \in Dispatchers : dispatcher'[<<u, d>>].pc = "idle"
    BY <1>2 DEF IdleInv
  <2>1. u > own
    BY <1>1, <1>3
  <2> QED
    BY <1>0, <2>1 DEF IdleInv, Heirs
<1>10. Works
  <2>1. \A u \in Fences : Goes(u)
    BY DEF Heirs, Goes
  <2> QED
    BY <1>4, <1>6, <2>1 DEF Works
<1>11. SrcInv' /\ StageInv' /\ SentInv' /\ OpInv'
  <2>1. SettlesTruly
    BY <1>4 DEF SettlesTruly
  <2>2. \A u \in Fences : /\ ~(worker[u].pc = "send" /\ worker'[u].pc = "inflight")
                          /\ ~(worker[u].pc = "read" /\ worker'[u].pc = "assert")
    BY DEF Heirs
  <2> QED
    BY <1>1, <1>5, <1>10, <2>1, <2>2, SourceKept
<1>12. \A u \in Fences, d \in Dispatchers : dispatcher'[<<u, d>>].pc # "idle" => dispatcher'[<<u, d>>] = dispatcher[<<u, d>>]
  BY DEF Heirs
<1>13. DeskInv'
  <2> SUFFICES ASSUME NEW u \in Fences, NEW d \in Dispatchers, Engaged(<<u, d>>)', NEW k, k = dispatcher'[<<u, d>>].key
               PROVE  /\ k \in Keys /\ row'[k.sub].state # "absent"
                      /\ k.path = IF d = Pump THEN "queue" ELSE "send"
                      /\ d # Pump => k.sub = d
    BY <1>2 DEF DeskInv
  <2>1. Engaged(<<u, d>>) /\ k = dispatcher[<<u, d>>].key
    BY <1>12 DEF Engaged
  <2>2. /\ k \in Keys /\ row[k.sub].state # "absent"
        /\ k.path = IF d = Pump THEN "queue" ELSE "send"
        /\ d # Pump => k.sub = d
    BY <1>0, <2>1 DEF DeskInv
  <2> QED
    BY <2>2, KeyFields
<1>14. OutInv'
  <2> SUFFICES ASSUME NEW u \in Fences, NEW d \in Dispatchers, dispatcher'[<<u, d>>].pc = "finish"
               PROVE  Told(dispatcher[<<u, d>>].out, dispatcher[<<u, d>>].key)'
    BY <1>2 DEF OutInv
  <2>1. PICK k : k = dispatcher[<<u, d>>].key
    OBVIOUS
  <2>2. PICK out : out = dispatcher[<<u, d>>].out
    OBVIOUS
  <2>3. k = dispatcher'[<<u, d>>].key /\ out = dispatcher'[<<u, d>>].out /\ dispatcher[<<u, d>>].pc = "finish"
    BY <1>12, <2>1, <2>2
  <2>4. k \in Keys /\ k.sub \in Subs
    BY <1>0, <2>1, <2>3, KeyFields DEF DeskInv, Engaged
  <2>5. Told(out, k)
    BY <1>0, <2>1, <2>2, <2>3 DEF OutInv
  <2>6. ASSUME out = "fence" PROVE Gone(k)' /\ ops'[k] # "none" /\ row'[k.sub].src # k
    <3>1. Gone(k) /\ ops[k] # "none" /\ row[k.sub].src # k
      BY <2>5, <2>6 DEF Told
    <3>2. Gone(k)'
      BY <1>10, <2>4, <3>1, GoneStays
    <3> QED
      BY <1>4, <2>4, <3>1, <3>2 DEF OpsMove
  <2>7. /\ out = "ok" => ops'[k] = "confirmed"
        /\ out = "rejected" => ops'[k] = "rejected"
    BY <1>4, <2>4, <2>5 DEF Told, OpsMove
  <2>8. Told(out, k)'
    BY <2>6, <2>7 DEF Told
  <2> QED
    BY <2>3, <2>8 DEF Told, Gone, Has, Holds, Queues
<1>15. ContentInv'
  BY <1>0, <1>1 DEF ContentInv
<1>16. \A d \in Dispatchers : dispatcher'[<<own', d>>].pc = "idle"
  <2>1. \A d \in Dispatchers : dispatcher[<<own', d>>].pc = "idle"
    BY <1>0, <1>3 DEF IdleInv
  <2> QED
    BY <1>3, <1>12, <2>1
<1>17. HandInv' /\ PumpInv'
  <2>1. \A d \in Dispatchers : ~Engaged(<<own, d>>)'
    BY <1>16 DEF Engaged
  <2>2. Pump \in Dispatchers
    BY <1>0, Sorts
  <2> QED
    BY <1>2, <2>1, <2>2 DEF HandInv, PumpInv
<1>18. RejectedInv'
  <2> SUFFICES ASSUME NEW s \in Subs, s \notin steers, row'[s].state = "rejected" PROVE Refused(s)'
    BY <1>2 DEF RejectedInv
  <2>1. PICK c : c = row[s].src
    OBVIOUS
  <2>2. frame[s] \in {"none", "refused"} /\ Gone(c)
    <3>1. CASE row[s].state = "rejected"
      BY <1>0, <2>1, <3>1 DEF RejectedInv, Refused
    <3>2. CASE row[s].src = NoOp
      BY <2>1, <3>2, WaitingUnsent DEF Refused
    <3> QED
      BY <3>1, <3>2
  <2>3. Gone(c)'
    <3>1. \A u \in Fences : Has(u, c)' => Has(u, c)
      BY <1>6 DEF Has
    <3> QED
      BY <2>2, <3>1 DEF Gone, Fences
  <2>4. c = row'[s].src
    BY <2>1
  <2>5. Gone(row[s].src)'
    BY <2>3, <2>4 DEF Gone, Has, Holds, Queues
  <2> QED
    BY <1>1, <2>2, <2>5 DEF Refused
<1>19. OrderInv'
  <2>1. \A i \in DOMAIN order : order[i] \in Subs
    BY <1>0 DEF TypeInv
  <2> QED
    BY <1>0, <1>1, <2>1 DEF OrderInv
<1>20. ReducerSurvives' /\ RowInv'
  <2>1. ReducerSurvives'
    BY <1>0, <1>1, <1>2 DEF ReducerSurvives
  <2>2. RowInv'
    BY DEF RowInv, RowOK
  <2> QED
    BY <2>1, <2>2
<1> QED
  BY <1>5, <1>8, <1>9, <1>11, <1>13, <1>14, <1>15, <1>17, <1>18, <1>19, <1>20 DEF IInv

(* The lease passes on while the tasks of the former runtime run. *)
LEMMA TakeOverKept ==
  ASSUME IInv, TakeOver
  PROVE  IInv'
<1>1. /\ NewOwner /\ row' = [s \in Subs |-> Orphaned(row[s])]
      /\ content' = content /\ dispatcher' = dispatcher /\ mailbox' = mailbox /\ worker' = worker
  BY DEF TakeOver
<1>2. Heirs
  BY <1>1 DEF Heirs
<1>3. ASSUME NEW s \in Subs
      PROVE  /\ row'[s] \in Rows /\ RowOK(row'[s]) /\ row'[s].src = row[s].src
             /\ row'[s].accepted = row[s].accepted /\ row'[s].observed = row[s].observed
             /\ row'[s].queue = "local_queued" <=> row[s].queue = "local_queued"
             /\ row'[s].state = "absent" <=> row[s].state = "absent"
             /\ row'[s].state = "rejected" <=> row[s].state = "rejected"
             /\ row'[s].state \in {"submitting", "submitted_unknown"} => row[s].state \in {"submitting", "submitted"}
             /\ row[s].state = "submitted" => row[s].accepted
  <2>1. row[s] \in Rows /\ RowOK(row[s])
    BY DEF IInv, TypeInv, RowInv
  <2>2. row'[s] = Orphaned(row[s])
    BY <1>1
  <2>3. row[s].state = "submitted" => row[s].accepted
    BY <2>1 DEF RowOK
  <2> QED
    BY <2>1, <2>2, <2>3, OrphanedRow
<1>4. row' \in [Subs -> Rows]
  <2>1. row' = [s \in Subs |-> row'[s]]
    BY <1>1
  <2> QED
    BY <1>3, <2>1
<1>5. ASSUME NEW s \in Subs, Closed(s) PROVE Closed(s)'
  <2>1. Gone(row[s].src) => Gone(row[s].src)'
    BY <1>1, <1>3 DEF Gone, Has, Holds, Queues
  <2> QED
    BY <1>3, <1>5, <2>1 DEF Closed
<1>6. dispatcher' \in [Fences \X Dispatchers -> Desks] /\ mailbox' \in [Fences -> Seq(Keys)] /\ worker' \in [Fences -> Stations]
  BY <1>1 DEF IInv, TypeInv
<1> QED
  BY <1>1, <1>2, <1>3, <1>4, <1>5, <1>6, Succession

(* The process dies, and with it every task and every prompt. *)
LEMMA RestartKept ==
  ASSUME IInv, Restart
  PROVE  IInv'
<1>1. /\ NewOwner
      /\ row' = [s \in Subs |-> IF s \in Cancellable THEN Unavailable(row[s]) ELSE Orphaned(row[s])]
      /\ dispatcher' = [x \in Fences \X Dispatchers |-> AtRest]
      /\ mailbox' = [u \in Fences |-> <<>>] /\ worker' = [u \in Fences |-> Resting]
  BY DEF Restart
<1>2. AtRest \in Desks /\ AtRest.pc = "idle" /\ Resting \in Stations /\ Resting.pc = "idle" /\ <<>> \in Seq(Keys)
  BY DEF AtRest, Resting, Desks, Stations
<1>3. /\ \A u \in Fences : worker'[u] = Resting /\ mailbox'[u] = <<>>
      /\ \A u \in Fences, d \in Dispatchers : dispatcher'[<<u, d>>] = AtRest
  BY <1>1
<1>4. Heirs
  BY <1>2, <1>3 DEF Heirs
<1>5. dispatcher' \in [Fences \X Dispatchers -> Desks] /\ mailbox' \in [Fences -> Seq(Keys)] /\ worker' \in [Fences -> Stations]
  BY <1>1, <1>2
<1>6. ASSUME NEW s \in Subs
      PROVE  /\ row'[s] \in Rows /\ RowOK(row'[s]) /\ row'[s].src = row[s].src
             /\ row'[s].state = "absent" <=> row[s].state = "absent"
             /\ row'[s].queue # "local_queued"
             /\ row'[s].state = "rejected" => row[s].state = "rejected" \/ row[s].src = NoOp
  <2>1. row[s] \in Rows /\ RowOK(row[s])
    BY DEF IInv, TypeInv, RowInv
  <2>2. CASE s \in Cancellable
    <3>1. row'[s] = Unavailable(row[s]) /\ row[s].queue \in {"local_queued", "blocked"}
      BY <1>1, <2>2 DEF Cancellable
    <3> QED
      BY <2>1, <3>1, UnavailableRow
  <2>3. CASE s \notin Cancellable
    <3>1. row'[s] = Orphaned(row[s]) /\ row[s].queue # "local_queued"
      BY <1>1, <2>3 DEF Cancellable
    <3> QED
      BY <2>1, <3>1, OrphanedRow
  <2> QED
    BY <2>2, <2>3
<1>7. row' \in [Subs -> Rows]
  <2>1. row' = [s \in Subs |-> row'[s]]
    BY <1>1
  <2> QED
    BY <1>6, <2>1
<1>8. ASSUME NEW s \in Subs, row'[s].state # "absent" PROVE Closed(s)'
  <2>1. Gone(row[s].src)'
    BY <1>2, <1>3 DEF Gone, Has, Holds, Queues, Fences
  <2> QED
    BY <1>6, <1>8, <2>1 DEF Closed
<1>9. \A s \in Subs : Closed(s) => row'[s].state # "absent"
  BY <1>6 DEF Closed
<1> QED
  BY <1>1, <1>4, <1>5, <1>6, <1>7, <1>8, <1>9, Succession
-----------------------------------------------------------------------------
(* Nothing has happened yet. *)
LEMMA Begins == Init => IInv
<1> SUFFICES ASSUME Init PROVE IInv
  OBVIOUS
<1>1. /\ scene \in Scenes /\ row = [s \in Subs |-> NoRow] /\ order = <<>> /\ ops = [k \in Keys |-> "none"]
      /\ journal = {} /\ own = 1 /\ broken = [t \in Fences |-> FALSE]
      /\ dispatcher = [x \in Fences \X Dispatchers |-> AtRest] /\ mailbox = [t \in Fences |-> <<>>]
      /\ worker = [t \in Fences |-> Resting] /\ frame = [s \in Subs |-> "none"] /\ sent = [s \in Subs |-> 0]
  BY DEF Init
<1>2. own \in Fences
  <2>1. MaxFence \in Nat \ {0}
    BY QueueAssumption
  <2>2. 1 \in 1..MaxFence
    BY <2>1
  <2> QED
    BY <1>1, <2>2 DEF Fences
<1>3. /\ NoRow \in Rows /\ NoRow.state = "absent" /\ NoRow.queue = "absent" /\ NoRow.src = NoOp
      /\ NoRow.accepted = FALSE /\ NoRow.observed = FALSE
      /\ AtRest \in Desks /\ AtRest.pc = "idle" /\ Resting \in Stations /\ Resting.pc = "idle"
      /\ <<>> \in Seq(Keys) /\ <<>> \in Seq(Subs)
  BY DEF NoRow, AtRest, Resting, Rows, Desks, Stations, SubmissionStates, QueueStates
<1>4. /\ \A s \in Subs : row[s] = NoRow /\ sent[s] = 0 /\ frame[s] = "none"
      /\ \A t \in Fences : worker[t] = Resting /\ mailbox[t] = <<>> /\ broken[t] = FALSE
      /\ \A t \in Fences, d \in Dispatchers : dispatcher[<<t, d>>] = AtRest
      /\ \A k \in Keys : ops[k] = "none"
  BY <1>1
<1>5. TypeInv
  BY <1>1, <1>2, <1>3 DEF TypeInv, OpStates
<1>6. \A k : \A t \in Fences : ~Holds(t, k) /\ ~Queues(t, k) /\ ~Has(t, k)
  BY <1>3, <1>4 DEF Holds, Queues, Has
<1>7. \A t \in Fences, d \in Dispatchers : dispatcher[<<t, d>>].pc = "idle" /\ ~Engaged(<<t, d>>)
  BY <1>3, <1>4 DEF Engaged
<1>8. IdleInv /\ DeskInv /\ OutInv
  BY <1>3, <1>4, <1>7 DEF IdleInv, DeskInv, OutInv
<1>9. KeyInv
  BY <1>3, <1>4, <1>6 DEF KeyInv
<1>10. RowInv /\ SrcInv
  BY <1>3, <1>4 DEF RowInv, RowOK, SrcInv
<1>11. StageInv /\ SentInv /\ OpInv
  BY <1>3, <1>4, <1>6 DEF StageInv, SentInv, OpInv
<1>12. ContentInv
  BY <1>1, <1>3, <1>4 DEF ContentInv
<1>13. Pump \in Dispatchers
  BY DEF Dispatchers
<1>14. HandInv /\ PumpInv
  BY <1>2, <1>7, <1>13 DEF HandInv, PumpInv
<1>15. RejectedInv /\ OrderInv /\ ReducerSurvives
  BY <1>1, <1>3, <1>4 DEF RejectedInv, OrderInv, ReducerSurvives
<1> QED
  BY <1>5, <1>8, <1>9, <1>10, <1>11, <1>12, <1>14, <1>15 DEF IInv

(* Every step of the mailbox worker, and of the pump. *)
LEMMA WorkerKept ==
  ASSUME IInv, NEW t \in Fences, WorkerStep(t)
  PROVE  IInv'
<1>1. CASE WorkerClaims(t)
  <2>1. CASE ClaimDiverges(worker[t].key)
    BY <1>1, <2>1, DivergesKept
  <2>2. CASE ~ClaimDiverges(worker[t].key) /\ (draining \/ row[worker[t].key.sub].state # "local_queued")
    BY <1>1, <2>2, NoClaimKept
  <2>3. CASE ~ClaimDiverges(worker[t].key) /\ ~draining /\ row[worker[t].key.sub].state = "local_queued"
    BY <1>1, <2>3, ClaimKept
  <2> QED
    BY <2>1, <2>2, <2>3
<1>2. CASE Take(t)
  BY <1>2, TakeKept
<1>3. CASE WorkerStarts(t)
  BY <1>3, StartKept
<1>4. CASE WorkerCannotCommit(t)
  BY <1>4, CannotCommitKept
<1>5. CASE WorkerReadsClaim(t)
  BY <1>5, ReadsClaimKept
<1>6. CASE WorkerAsserts(t)
  BY <1>6, AssertKept
<1>7. CASE WorkerFenced(t)
  BY <1>7, FencedKept
<1>8. CASE WorkerSends(t)
  BY <1>8, SendsKept
<1>9. CASE WorkerHears(t)
  BY <1>9, HearsKept
<1>10. CASE WorkerAccepts(t)
  BY <1>10, AcceptsKept
<1>11. CASE WorkerDefers(t)
  BY <1>11, DefersKept
<1>12. CASE WorkerLosesReadiness(t)
  BY <1>12, LosesReadinessKept
<1>13. CASE WorkerRefusesFrame(t)
  BY <1>13, RefusesFrameKept
<1> QED
  BY <1>1, <1>2, <1>3, <1>4, <1>5, <1>6, <1>7, <1>8, <1>9, <1>10, <1>11, <1>12, <1>13
  DEF WorkerStep, WorkerProceeds

(* Every step. *)
LEMMA GoesForward == IInv /\ [Next]_vars => IInv'
<1> SUFFICES ASSUME IInv, [Next]_vars PROVE IInv'
  OBVIOUS
<1>0. own \in Fences
  BY DEF IInv, TypeInv
<1>1. ASSUME NEW s \in Subs, Admit(s) PROVE IInv'
  BY <1>1, AdmitKept
<1>2. ASSUME NEW s \in steers, SteerSeesTurn(s) \/ SteerLooks(s) PROVE IInv'
  BY <1>2, SteerKept
<1>3. CASE PumpFindsQuiet
  BY <1>0, <1>3, PumpKept
<1>4. ASSUME NEW t \in Fences, PumpStep(t) PROVE IInv'
  <2>1. CASE PumpYields(t)
    BY <2>1, PumpKept
  <2>2. CASE PumpBlocks(t)
    BY <2>2, PumpRowKept
  <2>3. CASE PumpServes(t) /\ First \in content
    BY <2>3, PumpKept
  <2>4. CASE PumpServes(t) /\ First \notin content
    BY <2>4, PumpRowKept
  <2> QED
    BY <1>4, <2>1, <2>2, <2>3, <2>4 DEF PumpStep
<1>5. ASSUME NEW t \in Fences, WorkerStep(t) PROVE IInv'
  BY <1>5, WorkerKept
<1>6. ASSUME NEW t \in Fences, NEW d \in Dispatchers, Hand(t, d) PROVE IInv'
  BY <1>6, HandKept
<1>7. ASSUME NEW t \in Fences, NEW d \in Dispatchers, Finish(t, d) PROVE IInv'
  BY <1>7, FinishKept
<1>8. ASSUME NEW S \in {{s} : s \in Cancellable} \cup {Cancellable}, Cancel(S) PROVE IInv'
  BY <1>8, CancelKept
<1>9. ASSUME NEW old \in Subs, NEW new \in Subs, Replace(old, new) PROVE IInv'
  BY <1>9, ReplaceKept
<1>10. CASE RuntimeStep
  BY <1>10, RuntimeKept
<1>11. CASE ReducerStep
  BY <1>11, ReducerKept
<1>12. CASE DrainBegins \/ DrainEnds \/ TransitionBegins \/ TransitionSettles \/ UNCHANGED vars
  BY <1>12, CircumstancesKept
<1>13. CASE TakeOver
  BY <1>13, TakeOverKept
<1>14. CASE Restart
  BY <1>14, RestartKept
<1> QED
  BY <1>1, <1>2, <1>3, <1>4, <1>5, <1>6, <1>7, <1>8, <1>9, <1>10, <1>11, <1>12, <1>13, <1>14 DEF Next

(* IInv, and with it the shape of every variable, holds in every state. *)
THEOREM Invariance == Spec => []IInv
BY Begins, GoesForward, PTL DEF Spec

(* No message reaches the SDK twice: not by the pump and a repeated steer, not
   after a requeue past the reducer, not by a successor. *)
THEOREM MessagesAreSentOnce == Spec => []AtMostOnce
<1>1. IInv => AtMostOnce
  BY DEF IInv, SentInv, AtMostOnce
<1> QED
  BY <1>1, Invariance, PTL

(* A message on record as rejected, unless it is a steer, was not carried out,
   and one on record as cancelled was not sent. *)
THEOREM RecordedOutcomesAreFacts == Spec => []OutcomesAreFacts
<1>1. IInv => OutcomesAreFacts
  <2> SUFFICES ASSUME IInv PROVE RejectedNeverRan /\ CancelledNeverSent
    BY DEF OutcomesAreFacts
  <2>1. RejectedNeverRan
    BY DEF IInv, RejectedInv, Refused, RejectedNeverRan
  <2>2. ASSUME NEW s \in Subs, row[s].state = "cancelled" PROVE sent[s] = 0
    <3>1. RowOK(row[s])
      BY DEF IInv, RowInv
    <3>2. row[s].src = NoOp
      BY <2>2, <3>1 DEF RowOK
    <3> QED
      BY <3>2, WaitingUnsent
  <2> QED
    BY <2>1, <2>2 DEF CancelledNeverSent
<1> QED
  BY <1>1, Invariance, PTL

(* Where nobody steers no claim kills the reducer; and the prompt of a message
   that waits is in memory. *)
THEOREM RowsAndPromptsAgree == Spec => []RowsAgree
<1>1. IInv => RowsAgree
  <2> SUFFICES ASSUME IInv PROVE ReducerSurvives /\ WaitingHasContent
    BY DEF RowsAgree
  <2>1. ASSUME NEW s \in Subs, row[s].queue = "local_queued" PROVE s \in content
    <3>1. RowOK(row[s])
      BY DEF IInv, RowInv
    <3>2. row[s].state # "absent"
      BY <2>1, <3>1 DEF RowOK
    <3>3. ~Closed(s)
      BY <2>1 DEF Closed
    <3> QED
      BY <3>2, <3>3 DEF IInv, ContentInv
  <2> QED
    BY <2>1 DEF IInv, WaitingHasContent
<1> QED
  BY <1>1, Invariance, PTL

(* Only a send changes what was sent. *)
LEMMA OnlyASend ==
  ASSUME [Next]_vars, sent' # sent
  PROVE  \E t \in Fences : WorkerSends(t)
<1>1. Next
  BY DEF vars, runtime
<1>2. ASSUME NEW t \in Fences, PumpStep(t) \/ WorkerStep(t), ~WorkerSends(t) PROVE sent' = sent
  BY <1>2 DEF PumpStep, PumpYields, PumpBlocks, PumpServes, WorkerStep, WorkerProceeds, Take, WorkerStarts,
              WorkerCannotCommit, WorkerClaims, WorkerReadsClaim, WorkerAsserts, WorkerFenced, WorkerHears,
              WorkerAccepts, WorkerDefers, WorkerLosesReadiness, WorkerRefusesFrame, runtime
<1>3. ASSUME \/ \E s \in Subs : Admit(s)
             \/ \E s \in steers : SteerSeesTurn(s) \/ SteerLooks(s)
             \/ PumpFindsQuiet
             \/ \E t \in Fences, d \in Dispatchers : Hand(t, d) \/ Finish(t, d)
             \/ \E S \in {{s} : s \in Cancellable} \cup {Cancellable} : Cancel(S)
             \/ \E old, new \in Subs : Replace(old, new)
      PROVE  sent' = sent
  BY <1>3 DEF Admit, SteerSeesTurn, SteerLooks, PumpFindsQuiet, Hand, Finish, Cancel, Replace, runtime
<1>4. ASSUME \/ RuntimeStep \/ ReducerStep
             \/ DrainBegins \/ DrainEnds \/ TransitionBegins \/ TransitionSettles
             \/ TakeOver \/ Restart
      PROVE  sent' = sent
  BY <1>4 DEF RuntimeStep, RuntimeTakes, RuntimeBegins, RuntimeIdles, ReducerStep, ReduceUserMessage, ReduceIdle,
              DrainBegins, DrainEnds, TransitionBegins, TransitionSettles, TakeOver, Restart, NewOwner, runtime
<1> QED
  BY <1>1, <1>2, <1>3, <1>4 DEF Next

(* The pump sends in the order of admission, and only when no earlier dispatch
   of its own still waits to be seen. *)
THEOREM PumpKeepsOrder == Spec => PumpOrder
<1> DEFINE A == \A s \in Subs \ steers : sent'[s] # sent[s] =>
                  /\ \A r \in Subs \ (steers \cup {s}) :
                        row[r].state \notin {"submitting", "submitted", "submitted_unknown"}
                  /\ \A i, j \in DOMAIN order :
                        order[j] = s /\ i < j /\ order[i] \notin steers =>
                           row[order[i]].queue # "local_queued"
<1>1. IInv /\ [Next]_vars => A
  <2> SUFFICES ASSUME IInv, [Next]_vars, NEW s \in Subs \ steers, sent'[s] # sent[s] PROVE Clear(s)
    BY DEF Clear, Awaited
  <2>1. PICK t \in Fences : WorkerSends(t)
    BY OnlyASend
  <2>2. PICK k : k = worker[t].key
    OBVIOUS
  <2>3. worker[t].pc = "send" /\ worker[t].pc # "idle" /\ t = own /\ sent' = [sent EXCEPT ![k.sub] = @ + 1]
    BY <2>1, <2>2 DEF WorkerSends
  <2>4. k \in Keys /\ Has(t, k)
    BY <2>2, <2>3, Held
  <2>5. k.sub = s
    BY <2>3 DEF IInv, TypeInv
  <2>6. dispatcher[<<own, Pump>>].pc = "await" /\ dispatcher[<<own, Pump>>].key = k
    BY <2>3, <2>4, <2>5, PumpKey DEF IInv
  <2> QED
    BY <2>5, <2>6 DEF IInv, PumpInv, Engaged
<1>2. IInv /\ [Next]_vars => [A]_vars
  BY <1>1
<1> QED
  BY <1>2, Invariance, PTL DEF Spec, PumpOrder
=============================================================================
