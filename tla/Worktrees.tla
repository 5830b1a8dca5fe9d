------------------------------ MODULE Worktrees ------------------------------
(***************************************************************************)
(* One worktree of a project, from its intent to its removal               *)
(* (core/worktrees.py): commands and recovery passes of one process        *)
(* generation and of the one before it walk the intent through the git     *)
(* mutation, the project, the target session and the closing or the        *)
(* compensation.  The git process holds a file lock and may outlive the    *)
(* process that started it.                                                *)
(***************************************************************************)
EXTENDS Integers

CONSTANTS
  Callers,     \* tasks inside create, close or recover
  MaxGen,      \* bound on process generations
  MaxFence,    \* bound on claims of the git creation
  MaxFaults    \* bound on lost answers, drains and removals by hand

VARIABLES
  fork,      \* history_mode: the target is a fork of a session, else a blank session
  parent,    \* the parent project is in use
  i,         \* the row of worktree_intents
  wt,        \* the state of the row of project_worktrees, or "none"
  proj,      \* the state of the worktree's project, or "none"
  reg,       \* git knows the worktree
  branch,    \* the branch exists
  child,     \* the git process that holds the lock of the intent
  call,      \* what each caller is doing
  gen,       \* worktree_process_state.process_generation
  session,   \* the target session: none, thread (its thread is all that is known), open, closed
  forks,     \* history: sessions.fork calls
  faults

vars == <<fork, parent, i, wt, proj, reg, branch, child, call, gen, session, forks, faults>>

NoIntent == [st |-> "none", held |-> FALSE, fence |-> 0, lease |-> "none", retry |-> "none", gen |-> 0,
             token |-> 0, err |-> "none", proj |-> FALSE]
NoChild == [pc |-> "none", kind |-> "none", by |-> "none"]
NoSnap == [st |-> "none", err |-> "none", proj |-> FALSE, token |-> 0]
\* snap: the intent as it was listed; proj: the project id in hand; comp: it compensates
Idle == [pc |-> "idle", op |-> "none", gen |-> 0, snap |-> NoSnap, proj |-> FALSE, comp |-> FALSE, fence |-> 0]

Init ==
  /\ fork \in BOOLEAN /\ parent = TRUE
  /\ i = NoIntent /\ wt = "none" /\ proj = "none" /\ reg = FALSE /\ branch = FALSE
  /\ child = NoChild /\ call = [c \in Callers |-> Idle] /\ gen = 1
  /\ session = "none" /\ forks = 0 /\ faults = 0

Git == <<reg, branch>>
Rows == <<i, wt, proj>>
Rest == <<fork, parent, gen, session, forks>>
Goto(c, pc) == call' = [call EXCEPT ![c].pc = pc]
Done(c) == call' = [call EXCEPT ![c] = Idle]
\* An error ends a command; a recovery pass goes on to the intervention.
Fails(c) == IF call[c].op = "recover" THEN Goto(c, "intervene") ELSE Done(c)
At(c, pc) == call[c].pc = pc
Fault == faults < MaxFaults /\ faults' = faults + 1
-----------------------------------------------------------------------------
(***************************************************************************)
(* Commands and recovery begin                                             *)
(***************************************************************************)
Enter(c, op, pc, row) ==
  call' = [call EXCEPT ![c] = [pc |-> pc, op |-> op, gen |-> gen, proj |-> row.proj, comp |-> FALSE, fence |-> 0,
                               snap |-> [st |-> row.st, err |-> row.err, proj |-> row.proj, token |-> row.token]]]

\* _reserve_intent: a failure that a human may have repaired is tried again.
Reserved == IF i.st = "none" THEN [i EXCEPT !.st = "reserved"]
            ELSE IF i.st = "failed" /\ i.err = "retryable"
                 THEN [i EXCEPT !.st = "reserved", !.held = FALSE, !.lease = "none", !.gen = 0,
                                !.retry = "none", !.err = "none"]
                 ELSE i

create(c) ==
  /\ At(c, "idle") /\ (i.st = "none" => parent)
  /\ i' = Reserved
  /\ Enter(c, "create", IF i'.st = "ready" THEN "revalidate" ELSE "resume", i')
  /\ UNCHANGED <<wt, proj, Git, child, Rest, faults>>

\* _worktree_blockers: an open session is a reference.
Blocked == session = "open"

\* close up to _begin_close
close(c) ==
  /\ At(c, "idle")
  /\ wt = "ready" /\ i.st = "ready" /\ proj = "worktree" /\ ~Blocked
  /\ i' = [i EXCEPT !.st = "closing"] /\ wt' = "closing" /\ proj' = "closing"
  /\ Enter(c, "close", "remove", i')
  /\ UNCHANGED <<Git, child, Rest, faults>>

\* recover: the intent as it was when the pass listed it.
recover(c) ==
  /\ At(c, "idle")
  /\ i.st \notin {"none", "closed", "failed", "compensated"}
  /\ Enter(c, "recover", "look", i)
  /\ UNCHANGED <<Rows, Git, child, Rest, faults>>

\* _ensure_no_live_git_child: a held lock puts the work off, a child that is gone is forgotten.
Postponed(row) == [row EXCEPT !.retry = IF row.st = "git_creating" THEN "later" ELSE @]
Forgotten(row, token) ==
  IF row.token # token \/ token = 0 THEN row
  ELSE [row EXCEPT !.token = 0, !.retry = IF row.st = "git_creating" /\ ~row.held THEN "due" ELSE @]
NoLiveChild == child.pc = "none"

recover_pass(c) ==
  /\ At(c, "look")
  /\ IF ~NoLiveChild THEN i' = Postponed(i) /\ Done(c)
     ELSE LET s == call[c].snap IN
       /\ i' = Forgotten(i, s.token)
       /\ Goto(c, CASE s.st = "close_unknown" /\ s.err = "compensation" -> "compensate"
                    [] s.st = "compensating" -> "compensate"
                    [] s.st \in {"closing", "close_unknown"} /\ ~(s.st = "close_unknown" /\ s.err = "compensation") ->
                         "remove"
                    [] s.st = "target_unknown" -> "reconcile"
                    [] s.st = "ready" -> "revalidate"
                    [] OTHER -> "resume")
  /\ UNCHANGED <<wt, proj, Git, child, Rest, faults>>

\* _record_recovery_intervention: nothing, when the intent moved since it was listed.
intervene(c) ==
  /\ At(c, "intervene") /\ Done(c)
  /\ LET s == call[c].snap IN
     IF i.st # s.st THEN UNCHANGED <<i, wt, proj>>
     ELSE /\ i' = [i EXCEPT !.err = IF @ = "none" THEN "intervention" ELSE @]
          /\ IF s.st \in {"project_registered", "target_creating", "ready", "target_unknown"}
             THEN /\ wt' = IF wt \in {"none", "closed", "compensated"} THEN wt ELSE "intervention"
                  /\ proj' = IF s.proj /\ proj = "worktree" THEN "closing" ELSE proj
             ELSE UNCHANGED <<wt, proj>>
  /\ UNCHANGED <<Git, child, Rest, faults>>
-----------------------------------------------------------------------------
(***************************************************************************)
(* The git worktree is made                                                *)
(***************************************************************************)
\* _resume_create up to its first branch.
resume(c) ==
  /\ At(c, "resume")
  /\ LET s == call[c].snap IN
     CASE s.st \in {"reserved", "git_creating"} -> Goto(c, "claim")
       [] s.st \notin {"reserved", "git_creating"} /\ ~reg -> Fails(c)
       [] s.st = "git_created" /\ reg -> Goto(c, "register")
       [] s.st \in {"project_registered", "target_creating"} /\ reg -> Goto(c, "target")
       [] OTHER -> Done(c)
  /\ UNCHANGED <<Rows, Git, child, Rest, faults>>

\* A holder of this generation that still runs its side effect.
ActiveHolder(g) == /\ i.held /\ i.gen = g
                   /\ \E d \in Callers : call[d].gen = g /\ call[d].fence = i.fence
                                         /\ call[d].pc \in {"launch", "gated", "wait", "renew"}
BoundaryPassed == IF i.retry # "none" THEN i.retry = "due" ELSE i.lease # "live"
Claimable(g) == i.st = "reserved" \/ (i.st = "git_creating" /\ BoundaryPassed /\ ~ActiveHolder(g))

\* _claim_git_creation
claim(c) ==
  /\ At(c, "claim")
  /\ IF ~NoLiveChild THEN i' = Postponed(i) /\ Done(c) /\ UNCHANGED faults
     ELSE LET row == Forgotten(i, i.token) IN
       \/ /\ call[c].gen = gen /\ Claimable(call[c].gen) /\ i.fence < MaxFence
          /\ i' = [row EXCEPT !.st = "git_creating", !.held = TRUE, !.fence = @ + 1, !.lease = "live",
                              !.gen = gen, !.retry = "none", !.err = "none"]
          /\ call' = [call EXCEPT ![c].pc = "inspect", ![c].fence = i.fence + 1]
          /\ UNCHANGED faults
       \/ /\ call[c].gen = gen /\ ~Claimable(call[c].gen)     \* WorktreeRetryPending
          /\ i' = row /\ Done(c) /\ UNCHANGED faults
       \/ /\ (call[c].gen # gen /\ UNCHANGED faults) \/ Fault   \* an old generation, or draining
          /\ i' = row /\ Fails(c)
  /\ UNCHANGED <<wt, proj, Git, child, Rest>>

Holds_unfenced(c) == i.st = "git_creating"
Holds(c) == /\ i.st = "git_creating" /\ i.held /\ i.fence = call[c].fence
            /\ i.gen = call[c].gen /\ call[c].gen = gen

\* _settle_git_creation, fenced by the claim.
Settle(c, st, err) ==
  IF Holds(c) THEN i' = [i EXCEPT !.st = st, !.err = err, !.held = FALSE, !.lease = "none", !.retry = "none"]
  ELSE UNCHANGED i

\* _create_git_worktree before the command: what is there already?
inspect(c) ==
  /\ At(c, "inspect")
  /\ CASE reg -> /\ Settle(c, "git_created", "none")
                 /\ IF Holds(c) THEN Goto(c, "register") ELSE Fails(c)
       [] ~reg /\ branch -> Settle(c, "failed", "retryable") /\ Fails(c)
       [] OTHER -> UNCHANGED i /\ Goto(c, "launch")
  /\ UNCHANGED <<wt, proj, Git, child, Rest, faults>>

Renewed(c) == Holds(c) /\ i.lease = "live"

\* _abandon_git_creation
Abandoned(c, retry) == IF i.st = "git_creating" /\ i.held /\ i.fence = call[c].fence /\ i.gen = call[c].gen
                       THEN [i EXCEPT !.held = FALSE, !.lease = "none", !.retry = retry] ELSE i

Adds(c) == call[c].fence # 0
Kind(c) == IF Adds(c) THEN "add" ELSE "remove"

\* _run_git_creation_side_effect renews, then _run_owned_git_mutation starts the process behind its gate.
\* A lock found held keeps the claim; one that is taken in between (_OwnedGitMutationBusy) gives it up.
launch(c) ==
  /\ At(c, "launch")
  /\ CASE Adds(c) /\ ~Renewed(c) -> Fails(c) /\ UNCHANGED <<i, child>>
       [] (Adds(c) => Renewed(c)) /\ ~NoLiveChild ->
            /\ i' \in {Postponed(i), Postponed(IF Adds(c) THEN Abandoned(c, "later") ELSE i)}
            /\ Done(c) /\ UNCHANGED child
       [] OTHER -> /\ i' = Forgotten(i, i.token)
                   /\ child' = [pc |-> "gated", kind |-> Kind(c), by |-> c] /\ Goto(c, "gated")
  /\ UNCHANGED <<wt, proj, Git, Rest, faults>>

Expected(c) == IF Adds(c) THEN {"git_creating"}
               ELSE IF call[c].op = "close" THEN {"closing"}
               ELSE {"close_unknown", IF call[c].comp THEN "compensating" ELSE "closing"}

\* record_started: the gate opens only for the process that the intent names.
MayStart(c) == /\ call[c].gen = gen /\ i.token = 0 /\ i.st \in Expected(c)
               /\ Adds(c) => i.held /\ i.fence = call[c].fence /\ i.gen = call[c].gen

record_started(c) ==
  /\ At(c, "gated")
  /\ \/ /\ MayStart(c) /\ UNCHANGED faults
        /\ i' = [i EXCEPT !.token = IF call[c].fence = 0 THEN -1 ELSE call[c].fence]
        /\ child' = [child EXCEPT !.pc = "run"] /\ Goto(c, "wait")
     \/ /\ (~MayStart(c) /\ UNCHANGED faults) \/ Fault
        /\ i' = IF Adds(c) THEN Abandoned(c, "due") ELSE i
        /\ child' = NoChild /\ Fails(c)
  /\ UNCHANGED <<wt, proj, Git, Rest>>

\* External: the git command ends; a failed add may have made its branch.
child_ends(outcome) ==
  /\ child.pc = "run" /\ child' = NoChild
  /\ CASE child.kind = "add" /\ outcome = "ok" -> ~branch /\ reg' = TRUE /\ branch' = TRUE
       [] child.kind = "add" /\ outcome = "partial" -> branch' = TRUE /\ UNCHANGED reg
       [] child.kind = "remove" /\ outcome = "ok" -> reg' = FALSE /\ UNCHANGED branch
       [] OTHER -> outcome = "fails" /\ UNCHANGED <<reg, branch>>
  /\ UNCHANGED <<Rows, call, Rest, faults>>

\* The process is reaped: _clear_git_child, then for an add the last renewal.
child_reaped(c) ==
  /\ At(c, "wait") /\ child.by # c
  /\ i' = IF i.token = (IF Adds(c) THEN call[c].fence ELSE -1) THEN [i EXCEPT !.token = 0] ELSE i
  /\ IF Adds(c) THEN Goto(c, "renew") ELSE Goto(c, "removed")
  /\ UNCHANGED <<wt, proj, Git, child, Rest, faults>>

renew(c) ==
  /\ At(c, "renew")
  /\ IF Renewed(c) THEN Goto(c, "settle") ELSE Fails(c)
  /\ UNCHANGED <<Rows, Git, child, Rest, faults>>

settle(c) ==
  /\ At(c, "settle")
  /\ IF reg THEN /\ Settle(c, "git_created", "none")
                 /\ IF Holds(c) THEN Goto(c, "register") ELSE Fails(c)
     ELSE Settle(c, "failed", IF branch THEN "retryable" ELSE "final") /\ Fails(c)
  /\ UNCHANGED <<wt, proj, Git, child, Rest, faults>>
-----------------------------------------------------------------------------
(***************************************************************************)
(* The project and its target session                                      *)
(***************************************************************************)
Predecessors_again(st) ==
  CASE st = "project_registered" -> {"git_created", "project_registered"}
    [] st = "target_creating" -> {"project_registered", "target_creating"}
    [] st = "target_unknown" -> {"target_creating", "target_unknown"}
    [] st = "compensating" -> {"git_created", "project_registered", "target_creating", "compensating"}
    [] st = "close_unknown" -> {"closing", "compensating", "close_unknown"}
Predecessors(st) ==
  CASE st = "project_registered" -> {"git_created", "project_registered"}
    [] st = "target_creating" -> {"project_registered"}
    [] st = "target_unknown" -> {"target_creating", "target_unknown"}
    [] st = "compensating" -> {"git_created", "project_registered", "target_creating", "compensating"}
    [] st = "close_unknown" -> {"closing", "compensating", "close_unknown"}

\* _mark_intent; the caller sees the row it left.
Marks(st) == i.st \in Predecessors(st)

\* register_worktree_project, refused when the parent is not active any more.
register(c) ==
  /\ At(c, "register")
  /\ \/ /\ proj # "none" \/ parent
        /\ proj' = IF proj = "none" THEN "worktree" ELSE proj
        /\ Goto(c, "registered") /\ UNCHANGED i
     \/ /\ proj = "none" /\ ~parent /\ UNCHANGED proj
        /\ IF Marks("compensating")
           THEN /\ i' = [i EXCEPT !.st = "compensating", !.err = "parent"]
                /\ call' = [call EXCEPT ![c].pc = "compensate", ![c].fence = 0]
           ELSE UNCHANGED i /\ Fails(c)
  /\ UNCHANGED <<wt, Git, child, Rest, faults>>

registered(c) ==
  /\ At(c, "registered")
  /\ IF Marks("project_registered")
     THEN /\ i' = [i EXCEPT !.st = "project_registered", !.proj = TRUE, !.err = "none"]
          /\ call' = [call EXCEPT ![c].pc = "target", ![c].proj = TRUE, ![c].fence = 0]
     ELSE UNCHANGED i /\ Fails(c)
  /\ UNCHANGED <<wt, proj, Git, child, Rest, faults>>

\* _ensure_worktree_row, then the intent is claimed for one creation of the target.
target(c) ==
  /\ At(c, "target")
  /\ wt' = IF wt = "none" THEN "project_registered" ELSE wt
  /\ CASE fork /\ call[c].snap.st = "target_creating" -> Goto(c, "reconcile") /\ UNCHANGED i
       [] ~(fork /\ call[c].snap.st = "target_creating") /\ Marks("target_creating") ->
            /\ i' = [i EXCEPT !.st = "target_creating", !.err = "none"] /\ Goto(c, "make")
       [] OTHER -> /\ UNCHANGED i
                   /\ IF i.st = "ready" THEN Done(c)
                      ELSE IF i.st = "target_creating" THEN Goto(c, "reconcile") ELSE Fails(c)
  /\ UNCHANGED <<proj, Git, child, Rest, faults>>

\* The adapter: the session is made, or its making is unknown; only a fork is refused for certain.
\* Session creation looks at the project in the transaction that makes the row.
Made == session' = IF session \in {"none", "thread"} THEN "open" ELSE session
make(c) ==
  /\ At(c, "make")
  /\ forks' = IF fork THEN forks + 1 ELSE forks
  /\ \/ (fork \/ session \in {"open", "closed"} \/ proj = "worktree") /\ Made /\ Goto(c, "ready") /\ UNCHANGED faults
     \/ Fault /\ (\/ UNCHANGED session
                  \/ (fork \/ proj = "worktree") /\ Made
                  \/ ~fork /\ session = "none" /\ proj = "worktree" /\ session' = "thread")
         /\ Goto(c, "unknown")
     \/ /\ ~fork /\ session \in {"none", "thread"} /\ proj # "worktree"
        /\ UNCHANGED <<session, faults>> /\ Goto(c, "unknown")
     \/ fork /\ Fault /\ UNCHANGED session /\ Goto(c, "refused")
  /\ UNCHANGED <<Rows, Git, child, fork, parent, gen>>

target_unknown(c) ==
  /\ At(c, "unknown")
  /\ IF Marks("target_unknown") THEN i' = [i EXCEPT !.st = "target_unknown", !.err = "unknown"] /\ wt' = "target_unknown"
     ELSE UNCHANGED <<i, wt>>
  /\ Fails(c)
  /\ UNCHANGED <<proj, Git, child, Rest, faults>>

\* _compensate after a refused target.
target_refused(c) ==
  /\ At(c, "refused")
  /\ IF Marks("compensating")
     THEN /\ i' = [i EXCEPT !.st = "compensating", !.err = "refused"]
          /\ call' = [call EXCEPT ![c].pc = "compensate"]
     ELSE UNCHANGED i /\ Fails(c)
  /\ UNCHANGED <<wt, proj, Git, child, Rest, faults>>

\* _mark_ready, only while the project is in use.
MayBeReady_retired == wt # "none" /\ i.st # "none"
MayBeReady == /\ proj = "worktree" /\ wt # "none"
              /\ i.st \in {"project_registered", "target_creating", "target_unknown", "ready"}

ready(c) ==
  /\ At(c, "ready")
  /\ IF MayBeReady THEN i' = [i EXCEPT !.st = "ready", !.err = "none"] /\ wt' = "ready" /\ Done(c)
     ELSE UNCHANGED <<i, wt>> /\ Fails(c)
  /\ UNCHANGED <<proj, Git, child, Rest, faults>>

\* _reconcile_target: a session, or the thread meant for it, is found; a blank one may be made again by its intent.
reconcile(c) ==
  /\ At(c, "reconcile")
  /\ call[c].snap.st = "target_unknown" => reg
  /\ \/ session # "none" /\ Goto(c, "ready") /\ UNCHANGED session
     \/ ~fork /\ session = "none" /\ proj = "worktree" /\ Made /\ Goto(c, "ready")
     \/ /\ \/ fork /\ UNCHANGED session      \* nothing is found, or the making is unknown once more
           \/ ~fork /\ session = "none" /\ proj = "worktree" /\ session' \in {"none", "thread", "open"}
        /\ IF call[c].snap.st = "target_unknown" THEN Done(c)
           ELSE IF fork /\ call[c].snap.st = "target_creating" THEN Goto(c, "unknown") ELSE Fails(c)
     \/ UNCHANGED session /\ Fails(c)         \* the adapter raises
  /\ UNCHANGED <<Rows, Git, child, fork, parent, gen, forks, faults>>

reconcile_lost(c) ==
  /\ At(c, "reconcile") /\ call[c].snap.st = "target_unknown" /\ ~reg
  /\ Fails(c)
  /\ UNCHANGED <<Rows, Git, child, Rest, faults>>

\* _validate_registered_intent of an intent that was ready, then _mark_ready again.
revalidate(c) ==
  /\ At(c, "revalidate")
  /\ Goto(c, IF reg THEN "ready" ELSE "intervene")
  /\ UNCHANGED <<Rows, Git, child, Rest, faults>>
-----------------------------------------------------------------------------
(***************************************************************************)
(* Closing and compensation                                                *)
(***************************************************************************)
\* close, recover of a closing, and _resume_compensation look before they remove.
remove(c) ==
  /\ call[c].pc \in {"remove", "compensate"}
  /\ call' = [call EXCEPT ![c].pc = IF reg THEN "launch" ELSE "removed", ![c].fence = 0,
                          ![c].comp = call[c].pc = "compensate"]
  /\ UNCHANGED <<Rows, Git, child, Rest, faults>>

\* The directory is still there: the outcome is unknown. recover of a closing leaves it for later.
removal_fails(c) ==
  /\ At(c, "removed") /\ reg
  /\ IF (call[c].comp \/ call[c].op = "close") /\ Marks("close_unknown")
     THEN /\ i' = [i EXCEPT !.st = "close_unknown", !.err = IF call[c].comp THEN "compensation" ELSE "remove"]
          /\ wt' = IF call[c].comp THEN wt ELSE "close_unknown"
     ELSE UNCHANGED <<i, wt>>
  /\ IF call[c].comp THEN Fails(c) ELSE Done(c)
  /\ UNCHANGED <<proj, Git, child, Rest, faults>>

\* _finish_close
finish_close(c) ==
  /\ At(c, "removed") /\ ~reg /\ ~call[c].comp
  /\ i' = [i EXCEPT !.st = "closed"] /\ wt' = "closed" /\ proj' = "retired" /\ Done(c)
  /\ UNCHANGED <<Git, child, Rest, faults>>

\* _finish_compensation
CompensatedProject_kept(c) == proj
CompensatedProject(c) == IF call[c].proj THEN "retired" ELSE proj
finish_compensation(c) ==
  /\ At(c, "removed") /\ ~reg /\ call[c].comp
  /\ i' = IF i.st \in {"compensating", "close_unknown"} THEN [i EXCEPT !.st = "compensated", !.err = "refused"] ELSE i
  /\ wt' = IF wt = "none" THEN wt ELSE "compensated"
  /\ proj' = CompensatedProject(c)
  /\ Done(c)
  /\ UNCHANGED <<Git, child, Rest, faults>>
-----------------------------------------------------------------------------
(***************************************************************************)
(* Time, processes, people                                                 *)
(***************************************************************************)
lease_lapses == i.lease = "live" /\ i' = [i EXCEPT !.lease = "expired"]
                /\ UNCHANGED <<wt, proj, Git, child, call, Rest, faults>>
retry_due == i.retry = "later" /\ i' = [i EXCEPT !.retry = "due"]
             /\ UNCHANGED <<wt, proj, Git, child, call, Rest, faults>>

\* _ensure_process_generation of the next process. The one before it is gone, or works on for a while;
\* a git process behind its gate ends with its parent, one that runs does not.
start(killed) ==
  /\ gen < MaxGen /\ gen' = gen + 1
  /\ i' = IF i.st = "git_creating"
          THEN [i EXCEPT !.held = FALSE, !.retry = IF i.lease = "live" THEN "later" ELSE "due", !.err = "stale"] ELSE i
  /\ IF killed THEN /\ call' = [c \in Callers |-> Idle]
                    /\ child' = IF child.pc = "gated" THEN NoChild
                                ELSE IF child.pc = "run" THEN [child EXCEPT !.by = "none"] ELSE child
     ELSE UNCHANGED <<call, child>>
  /\ UNCHANGED <<fork, parent, wt, proj, Git, session, forks, faults>>

user_closes_session == session = "open" /\ session' = "closed"
                       /\ UNCHANGED <<Rows, Git, child, call, fork, parent, gen, forks, faults>>
\* A session is opened again only in a project that is in use.
SessionMayOpen_anyhow == proj # "none"
SessionMayOpen == proj = "worktree"
user_opens_session == session \in {"closed", "thread"} /\ SessionMayOpen /\ session' = "open"
                      /\ UNCHANGED <<Rows, Git, child, call, fork, parent, gen, forks, faults>>
user_deletes_branch == branch /\ ~reg /\ Fault /\ branch' = FALSE
                       /\ UNCHANGED <<Rows, reg, child, call, Rest>>
\* The parent is a worktree itself, and an intervention stops it.
parent_stops == parent /\ Fault /\ parent' = FALSE
                /\ UNCHANGED <<fork, Rows, Git, child, call, gen, session, forks>>

Next ==
  \/ \E c \in Callers :
       \/ create(c) \/ close(c) \/ recover(c) \/ recover_pass(c) \/ intervene(c)
       \/ resume(c) \/ claim(c) \/ inspect(c) \/ launch(c) \/ record_started(c)
       \/ child_reaped(c) \/ renew(c) \/ settle(c) \/ register(c) \/ registered(c)
       \/ target(c) \/ make(c) \/ target_unknown(c) \/ target_refused(c)
       \/ ready(c) \/ reconcile(c) \/ reconcile_lost(c) \/ revalidate(c)
       \/ remove(c) \/ removal_fails(c) \/ finish_close(c) \/ finish_compensation(c)
  \/ \E outcome \in {"ok", "partial", "fails"} : child_ends(outcome)
  \/ lease_lapses \/ retry_due
  \/ \E killed \in BOOLEAN : start(killed)
  \/ user_closes_session \/ user_opens_session \/ user_deletes_branch \/ parent_stops

Spec == Init /\ [][Next]_vars
-----------------------------------------------------------------------------
(***************************************************************************)
(* Properties                                                              *)
(***************************************************************************)
\* A git add that runs is always awaited: as long as the process may still make the directory, the
\* intent is not settled as made or failed, whoever lost its lease, its process or its generation.
AddIsAwaited == child.pc = "run" /\ child.kind = "add" => i.st = "git_creating"

\* sessions.fork cannot be repeated: however create and recover overlap, it is called at most once.
ForkOnce == forks <= 1

\* A worktree that is offered as ready has its directory, its project and the
\* thread of its session.
ReadyIsWhole == wt = "ready" => i.st = "ready" /\ proj = "worktree" /\ reg /\ session # "none"

\* A worktree that was closed or compensated is gone for good: no directory, no project in use, no
\* git process that could bring it back.
GoneIsGone == i.st \in {"closed", "compensated"} =>
                ~reg /\ proj \in {"none", "retired"} /\ ~(child.pc = "run" /\ child.kind = "add")

\* An open session of the worktree works in a directory that exists.
SessionHasDirectory == session = "open" => reg

\* What git and the SDK cannot undo is done once and waited for.
GitOnce == AddIsAwaited /\ ForkOnce

\* What the rows say of the directory of a worktree is true as long as anybody relies on it.
DirectoryTrue == ReadyIsWhole /\ GoneIsGone /\ SessionHasDirectory
=============================================================================
