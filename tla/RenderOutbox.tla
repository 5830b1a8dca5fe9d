---------------------------- MODULE RenderOutbox ----------------------------
(***************************************************************************)
(* The way of a rendered message from the reducer into a Discord thread:   *)
(* the render_outbox table, its dispatcher (render/outbox.py), the         *)
(* transport that posts a payload as one or more messages and remembers    *)
(* them by nonce (discord_app.py), and the reducer that queues, revises    *)
(* and replays payloads (core/reducer.py).                                 *)
(*                                                                         *)
(* A payload is <<source, version>>; its text lives in process memory only *)
(* and is gone after a crash.  Reactions are in SubmissionReactions.       *)
(***************************************************************************)
EXTENDS Integers, Sequences, FiniteSets, FiniteSetsExt, SequencesExt, TLC

CONSTANTS
  Sources,          \* planned rows; a stable one is revised in place
  Stable,           \* Sources with a stable_outbox_key
  Key,              \* Sources -> coalesce_key
  Session,          \* Sources -> session
  Parts,            \* source -> version -> number of messages its payload takes
  Final,            \* payloads <<source, version>> that are finalized
  MaxTransient,     \* max_transient_attempts
  MaxEvents,        \* bound on events that render something
  MaxReplays,       \* bound on replayed events
  MaxCrashes,       \* bound on ends of the process, those of a failed dispatcher aside
  MaxFaults,        \* bound on failed Discord requests, that of a notice, which is tried once, aside
  Faults,           \* the outcomes of a Discord request besides "ok"
  None              \* NULL

\* A content_unavailable row, <<source, revision>>, stands for one revision of a source.
SourceOf(id) == IF id \in Sources THEN id ELSE id[1]
KeyOf(id) == Key[SourceOf(id)]
Keys == {Key[s] : s \in Sources}
Unavailable == 0
Failure == -1
PartsOf(p) == IF p[2] > 0 THEN Parts[p[1]][p[2]] ELSE 1

ASSUME OutboxAssumption ==
  /\ Stable \subseteq Sources /\ MaxTransient \in Nat \ {0}
  /\ Faults \subseteq {"limited", "transient", "lost", "permanent", "local"}
  /\ \A s, t \in Sources : Key[s] = Key[t] => Session[s] = Session[t]
  /\ \A s \in Stable : \A t \in Sources \ {s} : Key[s] # Key[t]

VARIABLES
  row,       \* render_outbox: the planned rows, and the content_unavailable rows so far
  content,   \* the volatile text of a source: its version, or None
  mapping,   \* render_messages: the message of a key, its payload, finalized
  intents,   \* render_batch_intents with the checkpoints, oldest first
  thread,    \* the messages in Discord; booked (history): some checkpoint names it
  d,         \* the dispatcher: pc, claimed items, the item in hand
  inbox,     \* inbox_seq of the last event
  replays, crashes, faults,
  refused    \* history: the rows whose payload Discord refused for good

vars == <<row, content, mapping, intents, thread, d, inbox, replays, crashes, faults, refused>>
budget == <<replays, crashes, faults, refused>>

Ids == DOMAIN row
Fallbacks == Ids \ Sources

NoRow == [st |-> "none", seq |-> 0, rev |-> 0, ver |-> 0, att |-> 0]
Idle == [pc |-> "idle", items |-> <<>>, part |-> 0, msg |-> 0, known |-> None, surface |-> FALSE]
Open == {"pending", "sending"}

Init ==
  /\ row = [s \in Sources |-> NoRow]
  /\ content = [s \in Sources |-> None]
  /\ mapping = [k \in Keys |-> None]
  /\ intents = <<>> /\ thread = <<>> /\ d = Idle
  /\ inbox = 0 /\ replays = 0 /\ crashes = 0 /\ faults = 0 /\ refused = {}
-----------------------------------------------------------------------------
(***************************************************************************)
(* The reducer                                                             *)
(***************************************************************************)
\* _compensate_content_unavailable_fallback
compensate(rows, s) ==
  [id \in Ids |-> IF id \in Fallbacks /\ id[1] = s /\ rows[id].st \in Open \cup {"blocked", "sent"}
                  THEN [rows[id] EXCEPT !.st = "superseded"] ELSE rows[id]]

\* INSERT ... ON CONFLICT(idempotency_key) DO UPDATE
revise(r, seq, ver) ==
  [r EXCEPT !.st = IF @ = "sending" THEN @ ELSE "pending",
            !.seq = seq, !.rev = @ + 1, !.ver = ver]

\* A new event renders the next version; a finalized row takes no unfinished payload.
queue_render_intent(s) ==
  /\ inbox < MaxEvents /\ d.pc # "down"
  /\ row[s].st = "none" \/ s \in Stable
  /\ inbox' = inbox + 1
  /\ LET ver == row[s].ver + 1 IN
       /\ ver \in DOMAIN Parts[s]
       /\ IF <<s, row[s].ver>> \in Final /\ <<s, ver>> \notin Final THEN UNCHANGED <<row, content>>
          ELSE /\ row' = compensate([row EXCEPT ![s] = revise(@, inbox', ver)], s)
               /\ content' = [content EXCEPT ![s] = ver]
  /\ UNCHANGED <<mapping, intents, thread, d, budget>>

\* _recover_volatile_event: the event was journaled before; its text is here again.
recover_volatile_event(s) ==
  /\ row[s].st # "none" /\ replays < MaxReplays /\ d.pc # "down"
  /\ replays' = replays + 1 /\ inbox' = inbox + 1
  /\ CASE row[s].st = "sent" ->
            /\ content' = [content EXCEPT ![s] = None] /\ row' = row
       [] row[s].st # "sent" /\ content[s] = row[s].ver ->
            /\ row' = compensate(row, s) /\ content' = content
       [] OTHER ->
            /\ content' = [content EXCEPT ![s] = row[s].ver]
            /\ row' = compensate([row EXCEPT ![s] = revise(@, inbox', @.ver)], s)
  /\ UNCHANGED <<mapping, intents, thread, d, crashes, faults, refused>>
-----------------------------------------------------------------------------
(***************************************************************************)
(* The dispatcher: claiming                                                *)
(***************************************************************************)
\* Deviation: a row that is being sent does not count as a reference.
Delete_sending(rows, texts) ==
  [s \in Sources |-> IF rows[s].st \in {"pending", "blocked"} THEN texts[s] ELSE None]

\* _delete_content_if_unreferenced
Delete(rows, texts) ==
  [s \in Sources |-> IF rows[s].st \in Open \cup {"blocked"} THEN texts[s] ELSE None]

\* Deviation: claims do not time out.
Expire_never(rows, old) == rows

\* Rows left in 'sending' by a process that ended are pending again after claim_timeout_seconds.
Expire(rows, old) ==
  [id \in Ids |-> IF id \in old /\ rows[id].st = "sending"
                  THEN [rows[id] EXCEPT !.st = "pending"] ELSE rows[id]]

Newer(rows, id, other) ==
  KeyOf(other) = KeyOf(id) /\ rows[other].st = "pending" /\ rows[other].seq > rows[id].seq

\* Of pending rows with one coalesce_key the newest is delivered.
Supersede(rows) ==
  [id \in Ids |-> IF rows[id].st = "pending" /\ \E o \in Ids : Newer(rows, id, o)
                  THEN [rows[id] EXCEPT !.st = "superseded"] ELSE rows[id]]

\* Each session's first open row, once its next_attempt_at has come.
Candidates(rows) ==
  {id \in Ids : /\ rows[id].st = "pending"
                /\ \A o \in Ids : Session[SourceOf(o)] = Session[SourceOf(id)] /\ rows[o].st \in Open
                                  => rows[o].seq >= rows[id].seq}

\* The item keeps what the row held when it was claimed.
Item(rows, id) ==
  [id |-> id, rev |-> rows[id].rev, att |-> rows[id].att + 1,
   payload |-> IF id \in Fallbacks THEN <<id[1], Unavailable>>
               ELSE IF content[id] = rows[id].ver THEN <<id, rows[id].ver>> ELSE None]

claim ==
  /\ d.pc = "idle"
  /\ \E old \in {{}, Ids} :
       LET rows == Supersede(Expire(row, old)) IN
       \E taken \in SUBSET Candidates(rows) :
          /\ taken # {}
          /\ row' = [id \in Ids |-> IF id \in taken
                                    THEN [rows[id] EXCEPT !.st = "sending", !.att = Min({@ + 1, MaxTransient})]
                                    ELSE rows[id]]
          /\ d' = [Idle EXCEPT !.pc = "deliver",
                               !.items = SetToSortSeq({Item(rows, id) : id \in taken},
                                           LAMBDA a, b : rows[a.id].seq < rows[b.id].seq)]
          /\ content' = Delete(row', content)
  /\ UNCHANGED <<mapping, intents, thread, inbox, budget>>
-----------------------------------------------------------------------------
(***************************************************************************)
(* The dispatcher: delivering the item in hand                             *)
(***************************************************************************)
item == Head(d.items)
Held == d.items # <<>>
MapOf(id) == mapping[KeyOf(id)]
After(items) == IF items = <<>> THEN Idle ELSE [Idle EXCEPT !.pc = "deliver", !.items = items]

\* The item is done with; its text goes unless the row still needs it.
Done(rows) == /\ d' = After(Tail(d.items)) /\ row' = rows /\ content' = Delete(rows, content)

\* stop_for_retry: the claims behind this item are given back.
Restore(rows, items) ==
  [id \in Ids |-> IF rows[id].st = "sending" /\ \E i \in 1..Len(items) : items[i].id = id
                  THEN [rows[id] EXCEPT !.st = "pending"] ELSE rows[id]]
Stop(rows) == /\ d' = Idle /\ row' = Restore(rows, Tail(d.items)) /\ content' = Delete(row', content)

\* The exception leaves dispatch_once and ends the render loop, and with it the gateway.
Raise(rows) == /\ d' = [Idle EXCEPT !.pc = "down"] /\ row' = Restore(rows, d.items) /\ content' = content

Current == row[item.id].st = "sending" /\ row[item.id].rev = item.rev
Revised == row[item.id].st = "sending" /\ row[item.id].rev > item.rev
With(st) == [row EXCEPT ![item.id].st = st]

skip_lost_claim ==
  /\ d.pc = "deliver" /\ row[item.id].st # "sending"
  /\ Done(row)
  /\ UNCHANGED <<mapping, intents, thread, inbox, budget>>

\* Deviation: the row ends without a word in the thread.
mark_content_unavailable_silently ==
  /\ d.pc = "deliver" /\ row[item.id].st = "sending" /\ item.payload = None
  /\ Done(IF Current THEN With("content_unavailable") ELSE row)
  /\ UNCHANGED <<mapping, intents, thread, inbox, budget>>

\* A revision that came meanwhile leaves the row 'sending' until the claim times out.
mark_content_unavailable ==
  /\ d.pc = "deliver" /\ row[item.id].st = "sending" /\ item.payload = None
  /\ LET notice == [NoRow EXCEPT !.st = "pending", !.seq = row[item.id].seq, !.rev = 1]
     IN Done(IF Current THEN With("content_unavailable") @@ (<<item.id, item.rev>> :> notice) ELSE row)
  /\ UNCHANGED <<mapping, intents, thread, inbox, budget>>

\* The message that is known for the key is read before the transport is called.
start_delivery ==
  /\ d.pc = "deliver" /\ row[item.id].st = "sending" /\ item.payload # None
  /\ d' = IF MapOf(item.id) # None /\ MapOf(item.id).payload = item.payload
          THEN [d EXCEPT !.pc = "finish", !.msg = MapOf(item.id).msg]
          ELSE [d EXCEPT !.pc = "post", !.part = 1, !.known = MapOf(item.id)]
  /\ UNCHANGED <<row, content, mapping, intents, thread, inbox, budget>>

\* What is being posted: the payload, or the notice that it could not be rendered.
Posting == IF d.surface THEN <<item.payload[1], Failure>> ELSE item.payload
\* The idempotency key of the transport; its family leaves out revision and hash.
Delivery == IF d.surface THEN <<item.id, Failure, 0>> ELSE <<item.id, item.rev, item.payload[2]>>
Family(delivery) == IF delivery[2] = Failure THEN delivery ELSE <<delivery[1]>>
Nonce(part) == <<Delivery, part>>

Alive(m) == m # 0 /\ thread[m].alive
ByNonce(nonce) == LET found == {m \in DOMAIN thread : Alive(m) /\ thread[m].nonce = nonce}
                  IN IF found = {} THEN 0 ELSE Max(found)
IntentAt(part) == {i \in DOMAIN intents : intents[i].delivery = Delivery /\ intents[i].part = part}
PostedAs(part) == LET is == IntentAt(part) IN IF is = {} THEN 0 ELSE intents[Max(is)].msg

\* Earlier intents of the family for this part, the latest one that leads to a message first.
Earlier(part) ==
  LET is == {i \in DOMAIN intents : /\ Family(intents[i].delivery) = Family(Delivery)
                                    /\ intents[i].delivery # Delivery /\ intents[i].part = part}
      lead(i) == IF intents[i].msg # 0 THEN (IF Alive(intents[i].msg) THEN intents[i].msg ELSE 0)
                 ELSE ByNonce(<<intents[i].delivery, part>>)
      leads == {i \in is : lead(i) # 0}
  IN IF leads = {} THEN 0 ELSE lead(Max(leads))

\* The first message: of the mapping, or of the latest delivery of the family that got one.
FirstKnown ==
  IF d.known # None THEN d.known.msg
  ELSE LET is == {i \in DOMAIN intents : /\ Family(intents[i].delivery) = Family(Delivery)
                                         /\ intents[i].part = 1 /\ intents[i].msg # 0}
       IN IF is = {} \/ ~Alive(intents[Max(is)].msg) THEN 0 ELSE intents[Max(is)].msg

\* Deviation: the history of the thread is not searched for the nonce.
Recovered_no_search(part) ==
  IF part = 1 /\ FirstKnown # 0 THEN FirstKnown ELSE PostedAs(part)

\* The message that an earlier attempt at this part left behind.
Recovered(part) ==
  IF part = 1 /\ FirstKnown # 0 THEN FirstKnown
  ELSE IF IntentAt(part) # {} /\ ByNonce(Nonce(part)) # 0 THEN ByNonce(Nonce(part))
  ELSE Earlier(part)

Prepared == IF IntentAt(d.part) # {} THEN intents
            ELSE Append(intents, [delivery |-> Delivery, part |-> d.part, msg |-> 0])
Written(m) ==
  IF m = 0 THEN Append(thread, [nonce |-> Nonce(d.part), payload |-> Posting, part |-> d.part, alive |-> TRUE, booked |-> FALSE])
  ELSE [thread EXCEPT ![m].payload = Posting, ![m].part = d.part]

\* A part that has its message is passed over.
pass_over ==
  /\ d.pc = "post" /\ d.part <= PartsOf(Posting) /\ PostedAs(d.part) # 0
  /\ d' = [d EXCEPT !.part = @ + 1, !.msg = IF d.part = 1 THEN PostedAs(1) ELSE @]
  /\ UNCHANGED <<row, content, mapping, intents, thread, inbox, budget>>

\* _deliver_render_plan: the intent is stored, then the message is edited or sent.
post ==
  /\ d.pc = "post" /\ d.part <= PartsOf(Posting) /\ PostedAs(d.part) = 0
  /\ intents' = Prepared
  /\ LET m == Recovered(d.part) IN
     /\ thread' = Written(m)
     /\ d' = [d EXCEPT !.pc = "checkpoint", !.msg = IF m = 0 THEN Len(thread') ELSE m]
  /\ UNCHANGED <<row, content, mapping, inbox, budget>>

\* _checkpoint_render_batch
checkpoint ==
  /\ d.pc = "checkpoint"
  /\ intents' = [intents EXCEPT ![Max(IntentAt(d.part))].msg = d.msg]
  /\ thread' = [thread EXCEPT ![d.msg].booked = TRUE]
  /\ d' = [d EXCEPT !.pc = "post", !.part = @ + 1]
  /\ UNCHANGED <<row, content, mapping, inbox, budget>>

\* Messages behind the first one that earlier deliveries of the same first message left.
Obsolete == {i \in DOMAIN intents :
               /\ intents[i].delivery # Delivery
               /\ \E j \in DOMAIN intents : /\ intents[j].delivery = intents[i].delivery
                                            /\ intents[j].part = 1 /\ intents[j].msg = PostedAs(1)}
Leftover ==
  {intents[i].msg : i \in {o \in Obsolete : intents[o].part > 1}}
  \ {intents[i].msg : i \in {o \in DOMAIN intents : intents[o].delivery = Delivery}}

\* _prune_previous_render_batches; then the transport has delivered.
prune ==
  /\ d.pc = "post" /\ d.part > PartsOf(Posting)
  /\ thread' = [m \in DOMAIN thread |-> IF m \in Leftover THEN [thread[m] EXCEPT !.alive = FALSE] ELSE thread[m]]
  /\ intents' = LET gone == {intents[i].delivery : i \in Obsolete}
                IN SelectSeq(intents, LAMBDA i : i.delivery \notin gone)
  /\ d' = [d EXCEPT !.pc = "finish", !.msg = PostedAs(1)]
  /\ UNCHANGED <<row, content, mapping, inbox, budget>>

Mapped(fin) ==
  [mapping EXCEPT ![KeyOf(item.id)] =
     [msg |-> d.msg, payload |-> Posting, fin |-> fin \/ (@ # None /\ @.fin)]]

\* Deviation: a revision that came meanwhile is taken for delivered.
finish_unfenced ==
  /\ d.pc = "finish" /\ ~d.surface
  /\ mapping' = Mapped(item.payload \in Final \/ item.payload[2] = Unavailable)
  /\ Done(With("sent"))
  /\ UNCHANGED <<intents, thread, inbox, budget>>

\* The closing transaction of _deliver_locked.
finish ==
  /\ d.pc = "finish" /\ ~d.surface
  /\ IF Current \/ Revised
     THEN mapping' = Mapped(item.payload \in Final \/ item.payload[2] = Unavailable) /\ Done(With(IF Current THEN "sent" ELSE "pending"))
     ELSE mapping' = mapping /\ Raise(row)
  /\ UNCHANGED <<intents, thread, inbox, budget>>

finish_surface ==
  /\ d.pc = "finish" /\ d.surface
  /\ mapping' = Mapped(TRUE)
  /\ Done(row)
  /\ UNCHANGED <<intents, thread, inbox, budget>>
-----------------------------------------------------------------------------
(***************************************************************************)
(* Failing                                                                 *)
(***************************************************************************)
\* A request of the transport fails; "lost": the message was written all the same; "local": the
\* process's own limiter turned the request away, which the transport hands on as it is.
fault ==
  /\ d.pc = "post" /\ (faults < MaxFaults \/ d.surface)
  /\ faults' = IF d.surface THEN faults ELSE faults + 1
  /\ \E kind \in Faults :
       /\ IF d.part > PartsOf(Posting) \/ PostedAs(d.part) # 0
          THEN kind # "lost" /\ UNCHANGED <<intents, thread>>
          ELSE intents' = Prepared /\ thread' = IF kind = "lost" THEN Written(Recovered(d.part)) ELSE thread
       /\ d' = [d EXCEPT !.pc = IF kind = "lost" THEN "transient" ELSE kind]
       /\ refused' = IF kind = "permanent" /\ ~d.surface THEN refused \cup {item.id} ELSE refused
  /\ UNCHANGED <<row, content, mapping, inbox, replays, crashes>>

Blocks == d.pc = "permanent" \/ (d.pc \in {"transient", "local"} /\ item.att >= MaxTransient)

\* _retry: a row that was revised meanwhile is due at once.
retry ==
  /\ d.pc \in {"limited", "transient", "local"} /\ ~d.surface /\ ~Blocks
  /\ IF Current \/ Revised THEN Stop(With("pending")) ELSE Raise(row)
  /\ UNCHANGED <<mapping, intents, thread, inbox, budget>>

\* _block; the handler around the delivery neither records the failure nor tells of it.
block ==
  /\ ~d.surface /\ Blocks
  /\ CASE Current /\ d.pc = "local" -> Done(With("blocked"))
       [] Current /\ d.pc # "local" ->
            d' = [d EXCEPT !.pc = "record"] /\ row' = With("blocked") /\ content' = content
       [] Revised -> Stop(With("pending"))
       [] OTHER -> Raise(row)
  /\ UNCHANGED <<mapping, intents, thread, inbox, budget>>

\* _record_render_failure: only while the row is still blocked in this revision.
record_render_failure ==
  /\ d.pc = "record"
  /\ IF row[item.id].st = "blocked" /\ row[item.id].rev = item.rev
     THEN d' = [d EXCEPT !.pc = "post", !.part = 1, !.surface = TRUE] /\ UNCHANGED <<row, content>>
     ELSE Stop(row)
  /\ UNCHANGED <<mapping, intents, thread, inbox, budget>>

\* The notice is tried once.  An error of the limiter is caught outside, where the claim is found lost.
surface_failed ==
  /\ d.surface /\ d.pc \in {"limited", "transient", "permanent", "local"}
  /\ IF d.pc = "local" THEN Raise(row) ELSE Done(row)
  /\ UNCHANGED <<mapping, intents, thread, inbox, budget>>

\* The process ends, with or without giving its claims back, and starts again without its texts.
restart ==
  /\ d.pc = "down" \/ crashes < MaxCrashes
  /\ crashes' = crashes + 1
  /\ row' \in {row, Restore(row, d.items)}
  /\ d' = Idle /\ content' = [s \in Sources |-> None]
  /\ UNCHANGED <<mapping, intents, thread, inbox, replays, faults, refused>>

Step ==
  \/ claim \/ skip_lost_claim \/ mark_content_unavailable \/ start_delivery \/ pass_over
  \/ post \/ checkpoint \/ prune \/ finish \/ finish_surface
  \/ retry \/ block \/ record_render_failure \/ surface_failed

Next ==
  \/ Step \/ fault \/ restart
  \/ \E s \in Sources : queue_render_intent(s) \/ recover_volatile_event(s)

Spec == Init /\ [][Next]_vars
\* The render loop runs until the process ends, and a supervisor starts it again.
FairSpec == Spec /\ WF_vars(Step) /\ WF_vars(restart /\ d.pc = "down")
-----------------------------------------------------------------------------
(***************************************************************************)
(* Properties                                                              *)
(***************************************************************************)
Shown(id, p) == {m \in DOMAIN thread : Alive(m) /\ thread[m].nonce[1][1] = id /\ thread[m].part = p}

\* A row never has two messages in the thread for one part of its payload: a retry after a lost
\* answer, a revision and a restart all find the message that is there (_deliver_render_plan).
NoDuplicate ==
  \A id \in Ids, f \in BOOLEAN, p \in 1..2 :
    Cardinality({m \in Shown(id, p) : (thread[m].nonce[1][2] = Failure) = f}) <= 1

Latest(s) == \A o \in Ids : KeyOf(o) = Key[s] /\ row[o].st # "none" => row[o].seq <= row[s].seq

\* A row that says it was sent, in a quiet outbox, is what the thread shows: all parts of its last
\* version under the mapped message, and, if that message was the row's own from the start, of a
\* longer earlier version nothing that was checkpointed.
SentIsShown ==
  \A s \in Sources :
    d.pc = "idle" /\ row[s].st = "sent" /\ Latest(s) =>
      LET p == <<s, row[s].ver>>
          m == mapping[Key[s]].msg
          behind == {x \in DOMAIN thread : Alive(x) /\ thread[x].booked /\ thread[x].part > 1
                                               /\ thread[x].payload[1] = s}
      IN /\ mapping[Key[s]].payload = p /\ thread[m].payload = p /\ thread[m].alive
         /\ 2..PartsOf(p) = {thread[x].part : x \in {y \in behind : thread[y].payload = p}}
         /\ thread[m].nonce[1][1] = s /\ thread[m].nonce[1][2] # Failure =>
              \A x \in behind : thread[x].payload = p

\* Discord refused the row's payload, or it has used up max_transient_attempts.
GivenUp(id) == row[id].st = "blocked" /\ (id \in refused \/ row[id].att >= MaxTransient)

\* What a row gives way to is not lost as well: for a row that is superseded, or whose text was lost,
\* something not older on its key, its notice for one, is queued or was sent, through any number of
\* crashes, replays and transient failures below the limit.  It ends as blocked, and the thread may
\* then show nothing, only if Discord refused it or its attempts are used up
\* (_mark_content_unavailable, _claim, _compensate_content_unavailable_fallback, _block).
NothingVanishes ==
  \A id \in Ids : row[id].st \in {"superseded", "content_unavailable"} =>
    \E o \in Ids \ {id} : /\ KeyOf(o) = KeyOf(id) /\ row[o].seq >= row[id].seq
                          /\ row[o].st \in Open \cup {"sent"} \/ GivenUp(o)

\* A text is kept as long as a row still has to send it, in a process that has not restarted.
TextKept ==
  \A s \in Sources : row[s].st \in Open /\ crashes = 0 /\ d.pc # "down" => content[s] = row[s].ver

\* Does not hold.  README.md:117: "transient Discord failures and restarts retain" the notice of a
\* lost text; it is blocked after max_transient_attempts, or at once when Discord refuses it.
NoticeRetained == \A f \in Fallbacks : row[f].st # "blocked"

\* The outbox empties: no row stays pending or claimed.
Empties == <>[](\A id \in Ids : row[id].st \notin Open)

\* What the outbox says was shown is shown, and what it could not show it says.
ThreadIsTrue == SentIsShown /\ NothingVanishes /\ TextKept
=============================================================================
