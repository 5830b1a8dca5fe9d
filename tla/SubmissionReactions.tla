------------------------- MODULE SubmissionReactions -------------------------
(***************************************************************************)
(* The emoji on the user's message: the admission reaction of the gateway, *)
(* the reaction of the submission that takes its place, the failures that  *)
(* are lifted again (shutdown, render failure, lost text), and the lane of *)
(* the render outbox that delivers them (core/reducer.py, render/outbox.py)*)
(* One message with one submission; an emoji is named by its state.        *)
(***************************************************************************)
EXTENDS Integers

CONSTANTS
  MaxEvents,      \* bound on events that may move the reaction, after the submission was queued
  MaxOwnerFence,       \* bound on owner fences
  MaxFaults,      \* bound on failures: of on_message, of Discord requests, of the process
  Moves           \* what events of the work may ask for: reasoning, action, unresolved, resume, failed

\* No event of the work asks for success.
ASSUME ReactionsAssumption ==
  Moves \subseteq {"reasoning", "action", "unresolved", "resume", "failed"}

VARIABLES
  sub,       \* the submission: none, active, complete, failed
  r,         \* its row of submission_reactions
  out,         \* its row of render_outbox
  a,         \* the admission row of render_outbox
  fence,     \* session_bindings.owner_fence_token
  live,      \* the owner lease has not expired
  d,         \* the dispatcher, the item in hand and what its recovery has read
  pump,      \* a recovery of reactions that the queue of a session started, and what it has read
  shown,     \* the bot's emojis on the message
  reopened,  \* history: the submission was opened again after it was complete
  crossed,   \* history: since the last restart a recovery of the queue wrote what was no longer so
  events, faults

reactionVars == <<sub, r, out, a, fence, live, d, pump, shown, reopened, crossed, events, faults>>

Work == {"reasoning", "action"}
NoResume == [kind |-> "none"]
NoReaction == [state |-> "none", resume |-> NoResume, rev |-> 0, term |-> FALSE, f |-> 0,
               dstate |-> "none", drev |-> 0]
\* Of payload_revision a row keeps whether it was raised since the row was claimed.
NoPayload == [state |-> "none", rev |-> 0, f |-> 0, fin |-> FALSE]
NoOutbox == [st |-> "none", revised |-> FALSE, payload |-> NoPayload, text |-> FALSE]
NoAdmission == [st |-> "none", revised |-> FALSE, state |-> "none", prev |-> "none", sup |-> FALSE]
Idle == [pc |-> "idle", lane |-> "none", payload |-> NoPayload, prev |-> "none", seen |-> NoPayload]
NoPump == [pc |-> "idle", seen |-> NoPayload]

ReactionsInit ==
  /\ sub = "none" /\ r = NoReaction /\ out = NoOutbox /\ a = NoAdmission
  /\ fence = 1 /\ live = TRUE /\ d = Idle /\ pump = NoPump /\ shown = {}
  /\ reopened = FALSE /\ crossed = FALSE /\ events = 0 /\ faults = 0
-----------------------------------------------------------------------------
(***************************************************************************)
(* Rows                                                                    *)
(***************************************************************************)
Upsert(st) == IF st = "sending" THEN "sending" ELSE "pending"

PayloadOf(x) == [state |-> x.state, rev |-> x.rev, f |-> x.f, fin |-> x.term]

\* _queue_submission_reaction of the reducer and of the dispatcher; the same payload is not queued
\* again while its text is kept.
Queued(entry, p) ==
  IF entry.payload = p /\ entry.text THEN entry
  ELSE [entry EXCEPT !.st = Upsert(@), !.revised = entry.st = "sending", !.payload = p, !.text = TRUE]

SetReaction(new) == r' = new /\ out' = Queued(out, PayloadOf(new))

Encoded(x, kind) == [kind |-> kind, state |-> x.state, resume |-> x.resume, term |-> x.term]

\* A finished reaction moves only from a failure that the submission outlived, or to a failure.
MayMove(x, s, state) ==
  \/ ~x.term
  \/ x.state = "failed" /\ x.resume.kind # "render" /\ s \in {"active", "complete"}
  \/ state = "failed" /\ x.state = "succeeded"

\* _set_submission_reaction: the row x of a submission in state s. What raises the revision is queued.
Moved(x, s, state, shutdown) ==
  CASE x.state = state /\ state = "failed" /\ shutdown ->
         [x EXCEPT !.resume = Encoded(x, "shutdown"), !.f = fence]
    [] x.state = state /\ state = "failed" /\ ~shutdown /\ x.resume.kind \in {"shutdown", "render"} ->
         [x EXCEPT !.resume = @.resume]
    [] x.state # state /\ MayMove(x, s, state) ->
         [x EXCEPT !.state = state, !.rev = @ + 1, !.term = state \in {"succeeded", "failed"},
                   !.f = fence,
                   !.resume = IF shutdown THEN Encoded(x, "shutdown")
                              ELSE IF @.kind = "shutdown" THEN @.resume
                              ELSE IF state = "unresolved" /\ x.state \in Work
                                   THEN [kind |-> "work", state |-> x.state] ELSE @]
    [] OTHER -> x

Follow(entry, x, y) == IF y.rev > x.rev THEN Queued(entry, PayloadOf(y)) ELSE entry

\* Every event first settles a reaction that is not finished although its submission has ended.
Settled(x, s) ==
  IF x.term \/ s \notin {"complete", "failed"} THEN x
  ELSE Moved(x, s, IF s = "complete" THEN "succeeded" ELSE "failed", FALSE)

\* recover_reaction_outbox reads what is not delivered, for the present owner if it is not finished ...
Seen == IF /\ r.state # "none" /\ (r.dstate # r.state \/ r.drev # r.rev)
           /\ r.term \/ live
        THEN [PayloadOf(r) EXCEPT !.f = IF r.term THEN @ ELSE fence] ELSE NoPayload

\* Deviation: a finished reaction is not queued again.
Requeue_unfinished(seen) ==
  IF seen = NoPayload \/ seen.fin THEN UNCHANGED <<r, out>>
  ELSE r' = [r EXCEPT !.f = seen.f] /\ out' = Queued(out, seen)

\* ... and queues in a later transaction what it has read.
Requeue(seen) ==
  IF seen = NoPayload THEN UNCHANGED <<r, out>>
  ELSE r' = [r EXCEPT !.f = seen.f] /\ out' = Queued(out, seen)
-----------------------------------------------------------------------------
(***************************************************************************)
(* The gateway                                                             *)
(***************************************************************************)
\* queue_admission_reaction: not after a submission took over, not after a failure.
queue_admission_reaction(state) ==
  /\ a.state = "none" \/ state = "failed"    \* on_message accepts, then may fail
  /\ (a.state = "none") = (state = "accepted")
  /\ ~a.sup
  /\ ~(a.state = state /\ a.st # "blocked")
  /\ a' = [a EXCEPT !.st = Upsert(@), !.revised = a.st = "sending", !.state = state,
                    !.prev = IF a.state \notin {"none", state} THEN a.state ELSE @]
  /\ state = "failed" => faults < MaxFaults
  /\ faults' = IF state = "failed" THEN faults + 1 ELSE faults
  /\ UNCHANGED <<sub, r, out, fence, live, d, pump, shown, reopened, crossed, events>>

\* A row that is superseded and not being delivered is not looked at again.
Retired == [NoAdmission EXCEPT !.sup = TRUE, !.st = "superseded"]

\* supersede_admission_reaction
Superseded(entry) ==
  IF entry.st = "none" \/ entry.sup THEN entry
  ELSE IF entry.st = "sending" THEN [entry EXCEPT !.sup = TRUE, !.revised = TRUE] ELSE Retired
-----------------------------------------------------------------------------
(***************************************************************************)
(* The reducer: _apply_reaction_state and the failures that can be lifted  *)
(***************************************************************************)
Event == events < MaxEvents /\ events' = events + 1
Aside == UNCHANGED <<a, fence, live, d, shown, faults, crossed>>
Owner == sub # "none"

submission_queued ==
  /\ sub = "none" /\ a.state # "none"
  /\ sub' = "active"
  /\ SetReaction([r EXCEPT !.state = "accepted", !.rev = 1, !.f = fence])
  /\ a' = Superseded(a)
  /\ UNCHANGED <<fence, live, d, pump, shown, reopened, crossed, events, faults>>

\* An event is reduced: the reaction is settled, then moved.
Apply(state, shutdown) ==
  LET x == Settled(r, sub)
      to == IF state # "resume" THEN state
            ELSE IF x.resume.kind = "work" THEN x.resume.state ELSE "reasoning"
  IN r' = Moved(x, sub, to, shutdown) /\ out' = Follow(Follow(out, r, x), x, r')

\* Reasoning, tools, interactions, aborts and errors; by its turn an event finds an ended submission, too.
work_event(state) ==
  /\ Owner /\ Event
  /\ Apply(state, FALSE)
  /\ Aside /\ UNCHANGED <<sub, reopened, pump>>

\* The submission ends: only a reaction that is not finished follows.
submission_ends(outcome) ==
  /\ sub = "active" /\ Event
  /\ sub' = outcome
  /\ r' = Settled(r, outcome) /\ out' = Follow(out, r, r')
  /\ Aside /\ UNCHANGED <<reopened, pump>>

\* _reopen_submission_for_task: a task of a complete submission turns up late; the reaction stays.
submission_reopens ==
  /\ sub = "complete" /\ Event
  /\ sub' = "active" /\ reopened' = TRUE
  /\ UNCHANGED <<r, out, pump>> /\ Aside

session_shutdown ==
  /\ Owner /\ Event
  /\ Apply("failed", TRUE)
  /\ Aside /\ UNCHANGED <<sub, reopened, pump>>

\* _restore_shutdown_reactions: the resume names the shutdown as its parent. Then the event settles it.
session_resume ==
  /\ r.state = "failed" /\ r.term /\ r.resume.kind = "shutdown" /\ Event
  /\ LET x == [r EXCEPT !.state = r.resume.state, !.resume = r.resume.resume,
                        !.term = r.resume.term, !.rev = @ + 1, !.f = fence]
     IN r' = Settled(x, sub) /\ out' = Follow(Follow(out, r, x), x, r')
  /\ Aside /\ UNCHANGED <<sub, reopened, pump>>

\* _mark_submission_render_failed: what the same row hid is kept, the failure of another hides this one.
render_fails ==
  /\ Owner /\ Event
  /\ ~(r.state = "failed" /\ r.resume.kind # "render")
  /\ \E again \in BOOLEAN :
       /\ again => r.state = "failed"
       /\ SetReaction([r EXCEPT !.state = "failed", !.term = TRUE,
                                !.rev = IF r.state = "failed" THEN @ ELSE @ + 1,
                                !.resume = IF again THEN @ ELSE Encoded(r, "render")])
  /\ Aside /\ UNCHANGED <<sub, reopened, pump>>

\* _restore_newer_render_revision: a later revision of the row was delivered.
newer_render_delivered ==
  /\ r.state = "failed" /\ r.term /\ r.resume.kind = "render" /\ Event
  /\ CASE sub = "complete" ->
            SetReaction([r EXCEPT !.state = "succeeded", !.resume = NoResume, !.rev = @ + 1])
       [] sub = "failed" ->
            SetReaction([r EXCEPT !.resume = NoResume, !.rev = @ + 1])
       [] sub = "active" /\ ~r.resume.term ->
            SetReaction([r EXCEPT !.state = r.resume.state, !.resume = r.resume.resume,
                                  !.term = FALSE, !.rev = @ + 1])
       [] OTHER -> UNCHANGED <<r, out>>
  /\ Aside /\ UNCHANGED <<sub, reopened, pump>>

\* _mark_content_unavailable
content_lost ==
  /\ Owner /\ Event
  /\ SetReaction([r EXCEPT !.state = "failed", !.resume = [kind |-> "lost"], !.term = TRUE,
                           !.rev = IF r.state = "failed" /\ r.resume.kind = "lost" THEN @ ELSE @ + 1])
  /\ Aside /\ UNCHANGED <<sub, reopened, pump>>

\* The text is here again: the row is not given to the present owner, the payload of its success is.
Lifted(state) ==
  /\ r' = [r EXCEPT !.state = state, !.resume = NoResume, !.rev = @ + 1]
  /\ out' = IF state = "failed" THEN out ELSE Queued(out, [PayloadOf(r') EXCEPT !.f = fence])

\* Deviation: every submission that has not failed is taken to have succeeded.
content_replayed_early ==
  /\ r.state = "failed" /\ r.term /\ r.resume.kind = "lost" /\ Event
  /\ Lifted(IF sub = "failed" THEN "failed" ELSE "succeeded")
  /\ Aside /\ UNCHANGED <<sub, reopened, pump>>

\* _compensate_content_unavailable_fallback
content_replayed ==
  /\ r.state = "failed" /\ r.term /\ r.resume.kind = "lost" /\ Event
  /\ \/ sub = "complete" /\ Lifted("succeeded")
     \/ sub = "failed" /\ Lifted("failed")
     \/ sub = "active" /\ UNCHANGED <<r, out>>
  /\ Aside /\ UNCHANGED <<sub, reopened, pump>>
-----------------------------------------------------------------------------
(***************************************************************************)
(* The queue of a session finds that the text of a message is gone, marks  *)
(* its submission and recovers the reactions of all (session_runtime.py)   *)
(***************************************************************************)
\* _mark_queue_content_unavailable, of this submission before its work, or of another one.
queue_content_lost(own) ==
  /\ pump.pc = "idle" /\ Owner /\ Event
  /\ own => sub = "active" /\ r.rev = 1
  /\ sub' = IF own THEN "failed" ELSE sub
  /\ r' = IF own THEN [r EXCEPT !.state = "failed", !.resume = [kind |-> "lost"], !.term = TRUE,
                                !.rev = @ + 1] ELSE r
  /\ pump' = [NoPump EXCEPT !.pc = "read"]
  /\ Aside /\ UNCHANGED <<out, reopened>>

queue_reads ==
  /\ pump.pc = "read" /\ pump' = [pc |-> "write", seen |-> Seen]
  /\ UNCHANGED <<sub, r, out, a, fence, live, d, shown, reopened, crossed, events, faults>>

queue_writes ==
  /\ pump.pc = "write" /\ pump' = NoPump
  /\ Requeue(pump.seen)
  /\ crossed' = (crossed \/ pump.seen # Seen)
  /\ UNCHANGED <<sub, a, fence, live, d, shown, reopened, events, faults>>

QueueRecovery == queue_reads \/ queue_writes
-----------------------------------------------------------------------------
(***************************************************************************)
(* The dispatcher                                                          *)
(***************************************************************************)
Quiet == UNCHANGED <<sub, fence, live, pump, reopened, crossed, events>>

claim_reaction ==
  /\ d.pc = "idle" /\ out.st = "pending" /\ a.st \notin {"pending", "sending"}
  /\ out' = [out EXCEPT !.st = "sending", !.revised = FALSE]
  /\ d' = [Idle EXCEPT !.pc = "check", !.lane = "reaction", !.payload = out.payload]
  /\ UNCHANGED <<r, a, shown, faults>> /\ Quiet

claim_admission ==
  /\ d.pc = "idle" /\ a.st = "pending"
  /\ a' = [a EXCEPT !.st = "sending", !.revised = FALSE]
  /\ d' = [Idle EXCEPT !.pc = "add", !.lane = "admission",
                       !.payload = [NoPayload EXCEPT !.state = a.state], !.prev = a.prev]
  /\ UNCHANGED <<r, out, shown, faults>> /\ Quiet

\* What the dispatcher delivers.
payload == d.payload
DesiredIsCurrent == r.state = payload.state /\ r.rev = payload.rev
\* Deviation: a finished reaction, too, is delivered for the present owner only.
IsCurrent_owned == DesiredIsCurrent /\ r.term = payload.fin /\ r.f = payload.f /\ live /\ fence = payload.f

\* A finished reaction is delivered without an owner, any other only for the present one.
IsCurrent ==
  /\ DesiredIsCurrent /\ r.term = payload.fin /\ r.f = payload.f
  /\ r.term \/ (live /\ fence = payload.f)

\* Deviation: the row is sent although it was revised while it was delivered.
OAfter_unrevised(x) == [x EXCEPT !.st = "sent", !.text = FALSE, !.revised = FALSE]

OAfter(x) == [x EXCEPT !.st = IF x.revised THEN "pending" ELSE "sent",
                       !.text = x.revised /\ x.text, !.revised = FALSE]

\* _deliver_reaction up to the transport
check_current ==
  /\ d.pc = "check" /\ IsCurrent
  /\ d' = [d EXCEPT !.pc = "add", !.prev = r.dstate]
  /\ UNCHANGED <<r, out, a, shown, faults>> /\ Quiet

check_waits ==
  /\ d.pc = "check" /\ ~IsCurrent /\ DesiredIsCurrent /\ ~r.term /\ ~live
  /\ out' = [out EXCEPT !.st = "pending", !.revised = FALSE] /\ d' = Idle
  /\ UNCHANGED <<r, a, shown, faults>> /\ Quiet

check_stale ==
  /\ d.pc = "check" /\ ~IsCurrent /\ ~(DesiredIsCurrent /\ ~r.term /\ ~live)
  /\ d' = [Idle EXCEPT !.pc = "recover", !.lane = "reaction"]
  /\ UNCHANGED <<r, out, a, shown, faults>> /\ Quiet

\* recover_reaction_outbox, for a payload that is not current or at the start of the service
recover_reads ==
  /\ d.pc \in {"recover", "start"}
  /\ d' = [d EXCEPT !.pc = IF @ = "start" THEN "restore" ELSE "requeue", !.seen = Seen]
  /\ UNCHANGED <<r, out, a, shown, faults>> /\ Quiet

recover_writes ==
  /\ d.pc \in {"requeue", "restore"}
  /\ Requeue(d.seen)
  /\ d' = IF d.pc = "restore" THEN Idle ELSE [d EXCEPT !.pc = "drop", !.seen = NoPayload]
  /\ UNCHANGED <<a, shown, faults>> /\ Quiet

\* _finish_reaction_claim without a delivery
finish_stale ==
  /\ d.pc = "drop"
  /\ out' = OAfter(out) /\ d' = Idle
  /\ UNCHANGED <<r, a, shown, faults>> /\ Quiet

\* CopilotDiscordClient.reaction: the new emoji is added, then the previous one is removed.
add_reaction ==
  /\ d.pc = "add" /\ shown' = shown \cup {payload.state}
  /\ d' = [d EXCEPT !.pc = "remove"]
  /\ UNCHANGED <<r, out, a, faults>> /\ Quiet

remove_reaction ==
  /\ d.pc = "remove" /\ shown' = IF d.prev # payload.state THEN shown \ {d.prev} ELSE shown
  /\ d' = [d EXCEPT !.pc = "finish", !.prev = "none"]
  /\ UNCHANGED <<r, out, a, faults>> /\ Quiet

\* _finish_reaction_claim
finish_reaction ==
  /\ d.pc = "finish" /\ d.lane = "reaction"
  /\ r' = IF DesiredIsCurrent /\ r.f = payload.f
          THEN [r EXCEPT !.dstate = payload.state, !.drev = payload.rev] ELSE r
  /\ out' = OAfter(out) /\ d' = Idle
  /\ UNCHANGED <<a, shown, faults>> /\ Quiet

\* _finish_admission_reaction_claim
finish_admission ==
  /\ d.pc = "finish" /\ d.lane = "admission"
  /\ a' = IF a.revised /\ a.sup THEN Retired
          ELSE [a EXCEPT !.st = IF a.revised THEN "pending" ELSE "sent", !.revised = FALSE]
  /\ d' = Idle
  /\ UNCHANGED <<r, out, shown, faults>> /\ Quiet

\* _transition_failed_claim
Failed(x, st) == [x EXCEPT !.st = IF x.revised THEN "pending" ELSE st, !.revised = FALSE]

\* Rate limits and transient failures are tried again, permanent ones and the last attempt block the row.
fault ==
  /\ d.pc \in {"add", "remove"} /\ faults < MaxFaults /\ faults' = faults + 1
  /\ \E st \in {"pending", "blocked"} :
       IF d.lane = "reaction" THEN out' = Failed(out, st) /\ a' = a
       ELSE a' = (IF a.revised /\ a.sup THEN Retired ELSE Failed(a, st)) /\ out' = out
  /\ d' = Idle
  /\ UNCHANGED <<r, shown>> /\ Quiet
-----------------------------------------------------------------------------
(***************************************************************************)
(* Owners and restarts                                                     *)
(***************************************************************************)
lease_expires ==
  /\ live /\ live' = FALSE
  /\ UNCHANGED <<sub, r, out, a, fence, d, pump, shown, reopened, crossed, events, faults>>

\* A runtime attaches with a new fence.
attach ==
  /\ fence < MaxOwnerFence /\ fence' = fence + 1 /\ live' = TRUE
  /\ UNCHANGED <<sub, r, out, a, d, pump, shown, reopened, crossed, events, faults>>

\* The process ends: the texts are gone and claims time out. The next one recovers the reactions
\* while it attaches its sessions, before its dispatcher starts.
restart ==
  /\ faults < MaxFaults /\ faults' = faults + 1
  /\ d' = [Idle EXCEPT !.pc = "start"] /\ pump' = NoPump /\ crossed' = FALSE
  /\ a' = [a EXCEPT !.st = IF @ = "sending" THEN "pending" ELSE @, !.revised = FALSE]
  /\ out' = [out EXCEPT !.text = FALSE, !.revised = FALSE, !.st = IF @ = "sending" THEN "pending" ELSE @]
  /\ UNCHANGED <<sub, r, fence, live, shown, reopened, events>>

Reducer ==
  \/ submission_queued \/ session_shutdown \/ session_resume \/ submission_reopens
  \/ \E s \in Moves : work_event(s)
  \/ \E outcome \in {"complete", "failed"} : submission_ends(outcome)
  \/ render_fails \/ newer_render_delivered \/ content_lost \/ content_replayed
  \/ \E own \in BOOLEAN : queue_content_lost(own)

Dispatcher ==
  \/ claim_reaction \/ claim_admission \/ check_current \/ check_waits \/ check_stale
  \/ recover_reads \/ recover_writes \/ finish_stale
  \/ add_reaction \/ remove_reaction \/ finish_reaction \/ finish_admission

ReactionsNext ==
  \/ \E s \in {"accepted", "failed"} : queue_admission_reaction(s)
  \/ Reducer \/ QueueRecovery \/ Dispatcher \/ fault \/ lease_expires \/ attach \/ restart

ReactionsSpec == ReactionsInit /\ [][ReactionsNext]_reactionVars
\* The render loop runs for ever, and a recovery that was started goes on.
FairSpec == ReactionsSpec /\ WF_reactionVars(Dispatcher) /\ WF_reactionVars(QueueRecovery)
-----------------------------------------------------------------------------
(***************************************************************************)
(* Properties                                                              *)
(***************************************************************************)
\* Only real success is marked as success (docs/copilotD-detailed-design.md:1561): neither a late
\* event nor a failure that is lifted after a shutdown, a render failure or a lost text shows success
\* for a submission that is not complete, as long as no late task reopened it.
NoFalseSuccess == r.state = "succeeded" => sub = "complete" \/ reopened

\* "submission rejected/blocked/unknown/aborted ... enter terminal failure"
\* (docs/copilotD-detailed-design.md:1562), a reopened one included (_reopen_submission_for_task).
FailureIsMarked == sub = "failed" => r.state # "succeeded"

\* An outcome whose row was sent, while nothing is in hand and no recovery is under way, is on the
\* message: no outcome is dropped by fences, owners, restarts, revisions and by recoveries that queue
\* what they read before (_deliver_reaction, _finish_reaction_claim, recover_reaction_outbox), unless a
\* recovery that the queue of a session started wrote what was no longer so.
SentIsShown ==
  d.pc = "idle" /\ pump.pc = "idle" /\ ~crossed /\ out.st = "sent" /\ r.term => r.state \in shown

\* What SentIsShown cannot say of every reaction and every recovery: false, see the README.
EverySentIsShown == d.pc = "idle" /\ pump.pc = "idle" /\ out.st = "sent" => r.state \in shown

\* The outcome of a submission reaches the message, unless its delivery was given up, the outcome
\* changed, or a recovery of the queue wrote what was no longer so.
OutcomeShown ==
  r.term ~> (r.state \in shown \/ ~r.term \/ out.st = "blocked" \/ crossed)

\* The reaction on the message is the one recorded, and success is only shown for success.
ReactionIsTrue == NoFalseSuccess /\ SentIsShown
=============================================================================
