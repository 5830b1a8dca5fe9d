------------------------ MODULE PlansWorktreesProofs ------------------------
(***************************************************************************)
(* Proofs about Worktrees, for any number of callers, generations, claims  *)
(* and faults: git is waited for and the fork is made once (GitOnce), and  *)
(* what the rows say of the directory is true (DirectoryTrue).             *)
(*                                                                         *)
(* A step is seen by four parts of the invariant: who holds the claim and  *)
(* the git process (FenceInv), what a caller remembers and has seen        *)
(* (TaskInv), the one creation of the target (MakeInv) and the rows        *)
(* (RowInv).  Most steps move one caller and leave the rows as they are    *)
(* (Quiet); the others are taken one by one.                               *)
(*                                                                         *)
(* Proofs about SchedulePlans, for every zone with one change of its       *)
(* offset, every expression and every clock: the search through wall times *)
(* finds the first and the latest occurrence (CronNextIsFirst,             *)
(* CronPreviousIsLatest), next_run_at_utc is the first occurrence          *)
(* (NextIsFirst), and the runs are those that the plan asks for            *)
(* (RunsCoverPlan).                                                        *)
(***************************************************************************)
EXTENDS Worktrees, SchedulePlans, TLAPS, NaturalsInduction, WellFoundedInduction

(***************************************************************************)
(* The inductive invariant                                                 *)
(***************************************************************************)
\* The stages of an intent: its directory stands, the creation of its target has begun, it is taken
\* down.  The last two are never left again.
Registered == {"project_registered", "target_creating", "target_unknown", "ready"}
Standing == Registered \cup {"git_created"}
Closing == {"closing", "close_unknown", "closed", "compensating", "compensated"}
Late == {"target_creating", "target_unknown", "ready"} \cup Closing
States == {"none", "reserved", "git_creating", "failed"} \cup Standing \cup Closing
Errors == {"none", "retryable", "final", "intervention", "stale", "parent", "refused", "unknown",
           "compensation", "remove"}

Intents == [st : States, held : BOOLEAN, fence : Nat, lease : {"none", "live", "expired"},
            retry : {"none", "later", "due"}, gen : Nat, token : Int, err : Errors, proj : BOOLEAN]
Snaps == [st : States, err : Errors, proj : BOOLEAN, token : Int]
PCs == {"idle", "resume", "revalidate", "remove", "look", "intervene", "claim", "inspect", "launch", "gated",
        "wait", "renew", "settle", "register", "registered", "target", "make", "unknown", "refused", "ready",
        "reconcile", "compensate", "removed"}
Tasks == [pc : PCs, op : {"none", "create", "close", "recover"}, gen : Nat, snap : Snaps, proj : BOOLEAN,
          comp : BOOLEAN, fence : Nat]
Children == [pc : {"none", "gated", "run"}, kind : {"none", "add", "remove"}, by : Callers \cup {"none"}]

TypeInv ==
  /\ fork \in BOOLEAN /\ parent \in BOOLEAN /\ reg \in BOOLEAN /\ branch \in BOOLEAN
  /\ i \in Intents /\ child \in Children /\ call \in [Callers -> Tasks]
  /\ wt \in {"none", "project_registered", "ready", "closing", "closed", "compensated", "target_unknown",
             "close_unknown", "intervention"}
  /\ proj \in {"none", "worktree", "closing", "retired"}
  /\ session \in {"none", "thread", "open", "closed"}
  /\ gen \in Nat /\ forks \in Nat

\* The parent went away before the project was there: it will never be.
Lost == proj = "none" /\ ~parent

\* What a caller remembers of the intent is still the past of the intent.
SnapOK(t) ==
  /\ t.snap.st \in Late => i.st \in Late
  /\ t.snap.st \in Closing => i.st \in Closing /\ (t.snap.proj \/ Lost)
  /\ t.snap.st \in Registered => t.snap.proj
  /\ t.snap.st = "ready" => session # "none"
  /\ t.snap.st = "closing" \/ (t.snap.st = "close_unknown" /\ t.snap.err # "compensation") => t.snap.proj
  /\ t.snap.proj => t.proj
  /\ t.proj => i.proj

Removing(t) ==
  \/ t.pc \in {"remove", "compensate", "removed"}
  \/ t.pc \in {"launch", "gated", "wait"} /\ t.fence = 0

\* What a caller has seen before it came to where it stands.
PathOK(t) ==
  /\ t.pc = "registered" => proj # "none"
  /\ t.pc \in {"target", "make", "refused", "remove"} => t.proj
  /\ t.pc \in {"make", "reconcile"} => i.st \in Late
  /\ t.pc \in {"ready", "revalidate"} => session # "none"
  /\ Removing(t) => i.st \in Closing
  /\ Removing(t) /\ t.pc # "compensate" /\ ~t.comp => t.proj
  /\ t.pc = "compensate" \/ t.comp => t.proj \/ Lost
  /\ t.pc = "inspect" => t.fence # 0

TaskOK(t) == SnapOK(t) /\ PathOK(t)
TaskInv == \A c \in Callers : TaskOK(call[c])

\* The one creation of the target.
MakeOK(t) ==
  /\ t.pc = "make" /\ fork => forks = 0 /\ session = "none" /\ i.st \notin Closing
  /\ t.pc = "refused" => fork /\ forks = 1 /\ session = "none"
MakeInv ==
  /\ \A c \in Callers : MakeOK(call[c])
  /\ \A c, d \in Callers : c # d => ~(call[c].pc = "make" /\ call[d].pc = "make")

\* A claim of the git creation is one caller's, and so is the git process behind its gate; a running
\* add belongs to the last claim, whose caller waits for it or is gone.
AddRuns == child.pc = "run" /\ child.kind = "add"
FenceInv ==
  /\ \A c \in Callers :
       /\ call[c].fence <= i.fence
       /\ call[c].pc = "gated" => child.pc = "gated" /\ child.by = c /\ child.kind = Kind(c)
  /\ \A c, d \in Callers : c # d /\ call[c].fence = call[d].fence => call[c].fence = 0
  /\ child.pc = "gated" => child.by \in Callers /\ call[child.by].pc = "gated"
  /\ AddRuns => /\ i.st = "git_creating" /\ i.fence # 0
                /\ \A c \in Callers : call[c].fence = i.fence => call[c].pc = "wait" /\ child.by = c
  /\ child.pc = "run" /\ ~AddRuns => i.st \in Closing

\* What the rows say of each other, of the directory and of the session.
RowInv ==
  /\ i.st \in Registered => i.proj
  /\ i.proj => proj # "none"
  /\ i.st \in Closing /\ ~i.proj => Lost
  /\ i.st = "closing" \/ (i.st = "close_unknown" /\ i.err # "compensation") => i.proj
  /\ i.st \in {"closed", "compensated"} => ~reg /\ (proj = "retired" \/ Lost)
  /\ i.st \in Standing => reg
  /\ i.st \notin Late => session = "none" /\ forks = 0
  /\ i.st = "ready" => session # "none"
  /\ i.st \in Closing => session # "open"
  /\ i.st \in Closing /\ proj = "worktree" => fork /\ session = "none"
  /\ wt = "ready" => i.st = "ready" /\ proj = "worktree"
  /\ forks <= 1

IInv == TypeInv /\ TaskInv /\ MakeInv /\ FenceInv /\ RowInv
-----------------------------------------------------------------------------
(***************************************************************************)
(* What a step does to the parts of the invariant                          *)
(***************************************************************************)
\* What no step takes back.
Forward ==
  /\ fork' = fork
  /\ Lost => Lost'
  /\ proj # "none" => proj' # "none"
  /\ session # "none" => session' # "none"
  /\ i.proj => i'.proj
  /\ i.st \in Late => i'.st \in Late
  /\ i.st \in Closing => i'.st \in Closing

Becomes(c, t) == t \in Tasks /\ call' = [call EXCEPT ![c] = t]
Carries(c, t) == /\ t.fence = call[c].fence /\ t.snap = call[c].snap
                 /\ t.proj = call[c].proj /\ t.comp = call[c].comp

\* An update of the intent that only touches its claim and its retry.
Admin(row, new) == /\ new \in Intents /\ new.st = row.st /\ new.proj = row.proj
                   /\ new.fence = row.fence /\ new.err = row.err

LEMMA TaskForward ==
  ASSUME NEW t, TaskOK(t), Forward
  PROVE  TaskOK(t)'
BY DEF TaskOK, SnapOK, PathOK, Removing, Forward

LEMMA TasksKept ==
  ASSUME TypeInv, TaskInv, Forward, NEW c \in Callers, NEW t, Becomes(c, t), TaskOK(t)'
  PROVE  TaskInv'
<1>1. ASSUME NEW d \in Callers PROVE TaskOK(call[d])'
  <2>1. CASE d = c
    <3>1. call'[d] = t
      BY <2>1 DEF Becomes, TypeInv
    <3> QED
      BY <3>1 DEF TaskOK, SnapOK, PathOK, Removing, Lost
  <2>2. CASE d # c
    <3>1. PICK u : u = call[d]
      OBVIOUS
    <3>2. call'[d] = u
      BY <2>2, <3>1 DEF Becomes, TypeInv
    <3>3. TaskOK(u)
      BY <3>1 DEF TaskInv
    <3>4. TaskOK(u)'
      BY <3>3, TaskForward
    <3> QED
      BY <3>2, <3>4 DEF TaskOK, SnapOK, PathOK, Removing, Lost
  <2> QED
    BY <2>1, <2>2
<1> QED
  BY <1>1 DEF TaskInv

LEMMA MakersKept ==
  ASSUME TypeInv, MakeInv, NEW c \in Callers, NEW t, Becomes(c, t), t.pc \notin {"make", "refused"},
         session' = session, forks' = forks, fork' = fork, i'.st \in Closing => i.st \in Closing
  PROVE  MakeInv'
<1>1. \A d \in Callers : call'[d].pc \in {"make", "refused"} => d # c /\ call'[d] = call[d]
  BY DEF Becomes, TypeInv
<1> QED
  BY <1>1 DEF MakeInv, MakeOK

LEMMA FencesKept ==
  ASSUME TypeInv, FenceInv, NEW c \in Callers, NEW t, Becomes(c, t), t.fence \in {0, call[c].fence},
         call[c].pc # "gated", t.pc # "gated", call[c].pc = "wait" => child.by # c,
         child' = child, i'.fence = i.fence,
         AddRuns => i'.st = "git_creating", i.st \in Closing => i'.st \in Closing
  PROVE  FenceInv'
<1>1. call'[c] = t /\ \A d \in Callers : d # c => call'[d] = call[d]
  BY DEF Becomes, TypeInv
<1>2. i.fence \in Nat /\ \A d \in Callers : call[d].fence \in Nat
  BY DEF TypeInv, Intents, Tasks
<1>3. /\ \A d \in Callers : d # c => (Kind(d)' = Kind(d))
      /\ AddRuns' <=> AddRuns
  BY <1>1 DEF Kind, Adds, AddRuns
<1>4. \A d \in Callers :
       /\ call'[d].fence <= i'.fence
       /\ call'[d].pc = "gated" => child'.pc = "gated" /\ child'.by = d /\ child'.kind = Kind(d)'
  BY <1>1, <1>2, <1>3 DEF FenceInv
<1>5. \A d, e \in Callers : d # e /\ call'[d].fence = call'[e].fence => call'[d].fence = 0
  BY <1>1, <1>2 DEF FenceInv
<1>6. child'.pc = "gated" => child'.by \in Callers /\ call'[child'.by].pc = "gated"
  BY <1>1 DEF FenceInv
<1>7. AddRuns' => /\ i'.st = "git_creating" /\ i'.fence # 0
                  /\ \A d \in Callers : call'[d].fence = i'.fence => call'[d].pc = "wait" /\ child'.by = d
  BY <1>1, <1>3 DEF FenceInv
<1>8. child'.pc = "run" /\ ~AddRuns' => i'.st \in Closing
  BY <1>3 DEF FenceInv
<1> QED
  BY <1>4, <1>5, <1>6, <1>7, <1>8 DEF FenceInv

\* A step that leaves the rows, git and the session as they are.
Still ==
  /\ Admin(i, i') /\ (wt' = wt \/ wt' = "project_registered") /\ proj' = proj /\ reg' = reg /\ branch' = branch
  /\ child' = child /\ fork' = fork /\ parent' = parent /\ gen' = gen /\ session' = session /\ forks' = forks

\* One caller moves on, the claim and the git process stay, the session too, and the intent does not
\* begin to be taken down.
LEMMA StageMove ==
  ASSUME IInv, NEW c \in Callers, NEW t, Becomes(c, t), TaskOK(t)', TypeInv', Forward, RowInv',
         t.pc \notin {"gated", "make", "refused"}, t.fence \in {0, call[c].fence},
         call[c].pc # "gated", call[c].pc = "wait" => child.by # c,
         session' = session, forks' = forks, i'.st \in Closing => i.st \in Closing,
         child' = child, i'.fence = i.fence, AddRuns => i'.st = "git_creating"
  PROVE  IInv'
<1>1. TaskInv'
  BY TasksKept DEF IInv
<1>2. MakeInv'
  BY MakersKept DEF IInv, Forward
<1>3. FenceInv'
  BY FencesKept DEF IInv, Forward
<1> QED
  BY <1>1, <1>2, <1>3 DEF IInv

LEMMA StillKeeps ==
  ASSUME IInv, Still, call' \in [Callers -> Tasks]
  PROVE  TypeInv' /\ Forward /\ RowInv' /\ (AddRuns => i'.st = "git_creating")
<1>1. TypeInv'
  BY DEF IInv, TypeInv, Still, Admin
<1>2. Forward
  BY DEF Still, Admin, Forward, Lost
<1>3. AddRuns => i'.st = "git_creating"
  BY DEF IInv, FenceInv, Still, Admin
<1>4. RowInv'
  BY DEF IInv, RowInv, Still, Admin, Lost
<1> QED
  BY <1>1, <1>2, <1>3, <1>4

LEMMA Quiet ==
  ASSUME IInv, NEW c \in Callers, NEW t, Becomes(c, t), TaskOK(t), Still,
         t.pc \notin {"gated", "make", "refused"}, t.fence \in {0, call[c].fence},
         call[c].pc # "gated", call[c].pc = "wait" => child.by # c
  PROVE  IInv'
<1>1. call' \in [Callers -> Tasks]
  BY DEF IInv, TypeInv, Becomes
<1>2. TypeInv' /\ Forward /\ RowInv' /\ (AddRuns => i'.st = "git_creating")
  BY <1>1, StillKeeps
<1>3. TaskOK(t)'
  BY <1>2, TaskForward
<1> QED
  BY <1>2, <1>3, StageMove DEF Still, Admin

LEMMA GoesTo ==
  ASSUME TypeInv, NEW c \in Callers, NEW p \in PCs, Goto(c, p)
  PROVE  \E t : Becomes(c, t) /\ t.pc = p /\ Carries(c, t) /\ t.op = call[c].op
<1>1. PICK u : u = call[c]
  OBVIOUS
<1>2. PICK t : t = [u EXCEPT !.pc = p]
  OBVIOUS
<1>3. u \in Tasks
  BY <1>1 DEF TypeInv
<1>4. /\ t \in Tasks /\ t.pc = p /\ t.fence = u.fence /\ t.snap = u.snap /\ t.proj = u.proj /\ t.comp = u.comp
      /\ t.op = u.op
  BY <1>2, <1>3 DEF Tasks
<1>5. call' = [call EXCEPT ![c] = t]
  BY <1>1, <1>2 DEF Goto
<1> QED
  BY <1>1, <1>4, <1>5 DEF Becomes, Carries

LEMMA IdleIs == /\ Idle \in Tasks /\ Idle.pc = "idle" /\ Idle.fence = 0 /\ Idle.comp = FALSE /\ Idle.proj = FALSE
                /\ Idle.snap.st = "none" /\ Idle.snap.proj = FALSE
<1>1. NoSnap \in Snaps /\ NoSnap.st = "none" /\ NoSnap.proj = FALSE
  BY DEF NoSnap, Snaps, States, Errors
<1> QED
  BY <1>1 DEF Idle, Tasks, PCs

LEMMA IdleOK == TaskOK(Idle)
BY IdleIs DEF TaskOK, SnapOK, PathOK, Removing, Late, Closing, Registered

\* A caller that only goes on keeps what it remembers.
LEMMA Carried ==
  ASSUME NEW c \in Callers, NEW t, TaskOK(call[c]), Carries(c, t)
  PROVE  SnapOK(t) /\ (t.comp => t.proj \/ Lost)
BY DEF TaskOK, SnapOK, PathOK, Carries

LEMMA Leaves ==
  ASSUME IInv, NEW c \in Callers, Done(c) \/ Fails(c)
  PROVE  \E t : Becomes(c, t) /\ TaskOK(t) /\ t.pc \in {"idle", "intervene"} /\ t.fence \in {0, call[c].fence}
<1>1. CASE Done(c)
  BY <1>1, IdleIs, IdleOK DEF Done, Becomes
<1>2. CASE Goto(c, "intervene")
  <2>1. PICK t : Becomes(c, t) /\ t.pc = "intervene" /\ Carries(c, t)
    BY <1>2, GoesTo DEF IInv, PCs
  <2>2. SnapOK(t) /\ (t.comp => t.proj \/ Lost)
    BY <2>1, Carried DEF IInv, TaskInv
  <2>3. TaskOK(t)
    BY <2>1, <2>2 DEF TaskOK, PathOK, Removing
  <2> QED
    BY <2>1, <2>3 DEF Carries
<1> QED
  BY <1>1, <1>2 DEF Fails

\* A caller gives up, and nothing else happens.
LEMMA QuietEnd ==
  ASSUME IInv, NEW c \in Callers, Done(c) \/ Fails(c), Still,
         call[c].pc # "gated", call[c].pc = "wait" => child.by # c
  PROVE  IInv'
<1>1. PICK t : Becomes(c, t) /\ TaskOK(t) /\ t.pc \in {"idle", "intervene"} /\ t.fence \in {0, call[c].fence}
  BY Leaves
<1> QED
  BY <1>1, Quiet

\* A caller goes on to a place that asks for nothing more than what it remembers.
LEMMA QuietMove ==
  ASSUME IInv, NEW c \in Callers, NEW p \in PCs, Goto(c, p), Still,
         call[c].pc # "gated", call[c].pc = "wait" => child.by # c,
         p \notin {"gated", "make", "refused", "inspect"},
         p = "registered" => proj # "none",
         p \in {"target", "remove"} => call[c].proj,
         p = "reconcile" => i.st \in Late,
         p \in {"ready", "revalidate"} => session # "none",
         p \in {"remove", "compensate", "removed"} => i.st \in Closing,
         p \in {"launch", "wait"} /\ call[c].fence = 0 => i.st \in Closing,
         p = "removed" \/ (p \in {"launch", "wait"} /\ call[c].fence = 0) => call[c].comp \/ call[c].proj,
         p = "compensate" => call[c].proj \/ Lost
  PROVE  IInv'
<1>1. PICK t : Becomes(c, t) /\ t.pc = p /\ Carries(c, t)
  BY GoesTo DEF IInv
<1>2. SnapOK(t) /\ (t.comp => t.proj \/ Lost)
  BY <1>1, Carried DEF IInv, TaskInv
<1>3. TaskOK(t)
  BY <1>1, <1>2 DEF TaskOK, PathOK, Removing, Carries
<1> QED
  BY <1>1, <1>3, Quiet DEF Carries

LEMMA AdminSame ==
  ASSUME TypeInv, i' = i
  PROVE  Admin(i, i')
BY DEF Admin, TypeInv

LEMMA PostponedIs ==
  ASSUME NEW row \in Intents
  PROVE  Admin(row, Postponed(row))
BY DEF Admin, Postponed, Intents

LEMMA ForgottenIs ==
  ASSUME NEW row \in Intents, NEW token
  PROVE  Admin(row, Forgotten(row, token))
<1>1. CASE row.token # token \/ token = 0
  BY <1>1 DEF Admin, Forgotten
<1>2. CASE ~(row.token # token \/ token = 0)
  <2>1. PICK r : r = IF row.st = "git_creating" /\ ~row.held THEN "due" ELSE row.retry
    OBVIOUS
  <2>2. r \in {"none", "later", "due"}
    BY <2>1 DEF Intents
  <2>3. Forgotten(row, token) = [row EXCEPT !.token = 0, !.retry = r]
    BY <1>2, <2>1 DEF Forgotten, Intents
  <2>4. 0 \in Int
    OBVIOUS
  <2>5. [row EXCEPT !.token = 0, !.retry = r] \in Intents
    BY <2>2, <2>4 DEF Intents
  <2>6. /\ [row EXCEPT !.token = 0, !.retry = r].st = row.st
        /\ [row EXCEPT !.token = 0, !.retry = r].proj = row.proj
        /\ [row EXCEPT !.token = 0, !.retry = r].fence = row.fence
        /\ [row EXCEPT !.token = 0, !.retry = r].err = row.err
    BY DEF Intents
  <2> QED
    BY <2>3, <2>5, <2>6 DEF Admin
<1> QED
  BY <1>1, <1>2

LEMMA AbandonedIs ==
  ASSUME TypeInv, NEW c, NEW retry \in {"none", "later", "due"}
  PROVE  Admin(i, Abandoned(c, retry))
BY DEF Admin, Abandoned, Intents, TypeInv

LEMMA AdminTwice ==
  ASSUME NEW a, NEW b, NEW d, Admin(a, b), Admin(b, d)
  PROVE  Admin(a, d)
BY DEF Admin
-----------------------------------------------------------------------------
(***************************************************************************)
(* The steps that move a caller and leave the rows alone                   *)
(***************************************************************************)
LEMMA Unmoved ==
  ASSUME IInv, Admin(i, i'), UNCHANGED <<wt, proj, Git, child, Rest>>
  PROVE  Still
BY DEF Still, Git, Rest

LEMMA UnmovedRows ==
  ASSUME IInv, UNCHANGED <<Rows, Git, child, Rest>>
  PROVE  Still
<1>1. Admin(i, i')
  BY AdminSame DEF IInv, Rows
<1> QED
  BY <1>1, Unmoved DEF Rows

\* What is known of a caller.
LEMMA Known ==
  ASSUME IInv, NEW c \in Callers
  PROVE  /\ call[c] \in Tasks /\ call[c].fence \in Nat /\ call[c].snap \in Snaps
         /\ SnapOK(call[c]) /\ PathOK(call[c]) /\ MakeOK(call[c])
BY DEF IInv, TypeInv, TaskInv, TaskOK, MakeInv, Tasks

LEMMA RecoverPassStep ==
  ASSUME IInv, NEW c \in Callers, recover_pass(c)
  PROVE  IInv'
<1>1. i \in Intents /\ call[c].pc = "look" /\ UNCHANGED <<wt, proj, Git, child, Rest>>
  BY DEF recover_pass, At, IInv, TypeInv
<1>2. CASE ~NoLiveChild
  <2>1. i' = Postponed(i) /\ Done(c)
    BY <1>2 DEF recover_pass
  <2>2. Still
    BY <1>1, <2>1, PostponedIs, Unmoved
  <2> QED
    BY <1>1, <2>1, <2>2, QuietEnd
<1>3. CASE NoLiveChild
  <2>1. PICK s : s = call[c].snap
    OBVIOUS
  <2>2. PICK p : p = CASE s.st = "close_unknown" /\ s.err = "compensation" -> "compensate"
                    [] s.st = "compensating" -> "compensate"
                    [] s.st \in {"closing", "close_unknown"} /\ ~(s.st = "close_unknown" /\ s.err = "compensation") ->
                         "remove"
                    [] s.st = "target_unknown" -> "reconcile"
                    [] s.st = "ready" -> "revalidate"
                    [] OTHER -> "resume"
    OBVIOUS
  <2>3. i' = Forgotten(i, s.token) /\ Goto(c, p)
    BY <1>3, <2>1, <2>2 DEF recover_pass
  <2>4. Still
    BY <1>1, <2>3, ForgottenIs, Unmoved
  <2>5. /\ p \in {"compensate", "remove", "reconcile", "revalidate", "resume"}
        /\ p = "compensate" => s.st \in Closing
        /\ p = "remove" => s.st \in Closing /\ (s.st = "closing" \/ (s.st = "close_unknown" /\ s.err # "compensation"))
        /\ p = "reconcile" => s.st = "target_unknown"
        /\ p = "revalidate" => s.st = "ready"
    BY <2>2 DEF Closing
  <2>6. /\ p \in {"compensate", "remove"} => i.st \in Closing
        /\ p = "compensate" => call[c].proj \/ Lost
        /\ p = "remove" => call[c].proj
        /\ p = "reconcile" => i.st \in Late
        /\ p = "revalidate" => session # "none"
    BY <2>1, <2>5, Known DEF SnapOK, Late
  <2>7. p \in PCs
    BY <2>5 DEF PCs
  <2> QED
    BY <1>1, <2>3, <2>4, <2>5, <2>6, <2>7, QuietMove
<1> QED
  BY <1>2, <1>3

LEMMA ResumeStep ==
  ASSUME IInv, NEW c \in Callers, resume(c)
  PROVE  IInv'
<1>1. Still /\ call[c].pc = "resume"
  BY UnmovedRows DEF resume, At
<1>2. \/ Goto(c, "claim") \/ Fails(c) \/ Done(c) \/ Goto(c, "register")
      \/ Goto(c, "target") /\ call[c].snap.st \in {"project_registered", "target_creating"}
  BY DEF resume
<1>3. CASE Goto(c, "claim")
  BY <1>1, <1>3, QuietMove DEF PCs
<1>4. CASE Goto(c, "register")
  BY <1>1, <1>4, QuietMove DEF PCs
<1>5. CASE Goto(c, "target") /\ call[c].snap.st \in {"project_registered", "target_creating"}
  <2>1. call[c].proj
    BY <1>5, Known DEF SnapOK, Registered
  <2> QED
    BY <1>1, <1>5, <2>1, QuietMove DEF PCs
<1>6. CASE Fails(c) \/ Done(c)
  BY <1>1, <1>6, QuietEnd
<1> QED
  BY <1>2, <1>3, <1>4, <1>5, <1>6

LEMMA ChildReapedStep ==
  ASSUME IInv, NEW c \in Callers, child_reaped(c)
  PROVE  IInv'
<1>1. call[c].pc = "wait" /\ child.by # c /\ UNCHANGED <<wt, proj, Git, child, Rest>> /\ i \in Intents
  BY DEF child_reaped, At, IInv, TypeInv
<1>2. i' = i \/ i' = [i EXCEPT !.token = 0]
  BY DEF child_reaped
<1>3. Admin(i, i')
  <2>1. CASE i' = i
    BY <1>1, <2>1 DEF Admin
  <2>2. CASE i' = [i EXCEPT !.token = 0]
    <3>1. 0 \in Int
      OBVIOUS
    <3>2. i' \in Intents
      BY <1>1, <2>2, <3>1 DEF Intents
    <3>3. i'.st = i.st /\ i'.proj = i.proj /\ i'.fence = i.fence /\ i'.err = i.err
      BY <1>1, <2>2 DEF Intents
    <3> QED
      BY <3>2, <3>3 DEF Admin
  <2> QED
    BY <1>2, <2>1, <2>2
<1>4. Still
  BY <1>1, <1>3, Unmoved
<1>5. CASE Adds(c)
  <2>1. Goto(c, "renew")
    BY <1>5 DEF child_reaped
  <2> QED
    BY <1>1, <1>4, <2>1, QuietMove DEF PCs
<1>6. CASE ~Adds(c)
  <2>1. Goto(c, "removed")
    BY <1>6 DEF child_reaped
  <2>2. Removing(call[c])
    BY <1>1, <1>6 DEF Removing, Adds
  <2>3. i.st \in Closing /\ (call[c].comp \/ call[c].proj)
    BY <1>1, <2>2, Known DEF PathOK
  <2> QED
    BY <1>1, <1>4, <2>1, <2>3, QuietMove DEF PCs
<1> QED
  BY <1>5, <1>6

LEMMA RenewStep ==
  ASSUME IInv, NEW c \in Callers, renew(c)
  PROVE  IInv'
<1>1. Still /\ call[c].pc = "renew"
  BY UnmovedRows DEF renew, At
<1>2. Goto(c, "settle") \/ Fails(c)
  BY DEF renew
<1>3. CASE Goto(c, "settle")
  BY <1>1, <1>3, QuietMove DEF PCs
<1>4. CASE Fails(c)
  BY <1>1, <1>4, QuietEnd
<1> QED
  BY <1>2, <1>3, <1>4

LEMMA RevalidateStep ==
  ASSUME IInv, NEW c \in Callers, revalidate(c)
  PROVE  IInv'
<1>1. Still /\ call[c].pc = "revalidate" /\ session # "none"
  BY UnmovedRows, Known DEF revalidate, At, PathOK
<1>2. Goto(c, "ready") \/ Goto(c, "intervene")
  BY DEF revalidate
<1>3. CASE Goto(c, "ready")
  BY <1>1, <1>3, QuietMove DEF PCs
<1>4. CASE Goto(c, "intervene")
  BY <1>1, <1>4, QuietMove DEF PCs
<1> QED
  BY <1>2, <1>3, <1>4

LEMMA ReconcileLostStep ==
  ASSUME IInv, NEW c \in Callers, reconcile_lost(c)
  PROVE  IInv'
<1>1. Still /\ call[c].pc = "reconcile" /\ Fails(c)
  BY UnmovedRows DEF reconcile_lost, At
<1> QED
  BY <1>1, QuietEnd

LEMMA RemoveStep ==
  ASSUME IInv, NEW c \in Callers, remove(c)
  PROVE  IInv'
<1>1. PICK u : u = call[c]
  OBVIOUS
<1>2. u \in Tasks /\ SnapOK(u) /\ PathOK(u) /\ u.pc \in {"remove", "compensate"}
  BY <1>1, Known DEF remove
<1>3. PICK p \in {"launch", "removed"} : p = IF reg THEN "launch" ELSE "removed"
  OBVIOUS
<1>4. PICK b \in BOOLEAN : b = (u.pc = "compensate")
  OBVIOUS
<1>5. PICK t : t = [u EXCEPT !.pc = p, !.fence = 0, !.comp = b]
  OBVIOUS
<1>6. /\ t \in Tasks /\ t.pc = p /\ t.fence = 0 /\ t.comp = b /\ t.snap = u.snap /\ t.proj = u.proj
  <2>1. 0 \in Nat /\ p \in PCs
    BY <1>3 DEF PCs
  <2> QED
    BY <1>2, <1>5, <2>1 DEF Tasks
<1>7. Becomes(c, t)
  BY <1>1, <1>3, <1>4, <1>5, <1>6 DEF Becomes, remove
<1>8. TaskOK(t)
  <2>1. SnapOK(t)
    BY <1>2, <1>6 DEF SnapOK
  <2>2. i.st \in Closing /\ (u.pc = "compensate" => u.proj \/ Lost) /\ (u.pc # "compensate" => u.proj)
    BY <1>2 DEF PathOK, Removing
  <2>3. t.comp => t.proj \/ Lost
    BY <1>4, <1>6, <2>2
  <2>4. CASE u.pc = "compensate"
    BY <1>4, <1>6, <2>1, <2>2, <2>4 DEF TaskOK, PathOK, Removing
  <2>5. CASE u.pc # "compensate" /\ u.proj
    BY <1>4, <1>6, <2>1, <2>2, <2>5 DEF TaskOK, PathOK, Removing
  <2> QED
    BY <1>2, <2>1, <2>2, <2>4, <2>5
<1>9. Still
  BY UnmovedRows DEF remove
<1> QED
  BY <1>1, <1>2, <1>6, <1>7, <1>8, <1>9, Quiet
-----------------------------------------------------------------------------
(***************************************************************************)
(* Commands and recovery begin                                             *)
(***************************************************************************)
LEMMA Enters ==
  ASSUME TypeInv, NEW c \in Callers, NEW op \in {"create", "close", "recover"}, NEW p \in PCs, NEW row \in Intents,
         Enter(c, op, p, row)
  PROVE  \E t : /\ Becomes(c, t) /\ t.pc = p /\ t.fence = 0 /\ ~t.comp /\ t.proj = row.proj
                /\ t.snap.st = row.st /\ t.snap.proj = row.proj /\ t.snap.err = row.err
<1>1. PICK s : s = [st |-> row.st, err |-> row.err, proj |-> row.proj, token |-> row.token]
  OBVIOUS
<1>2. s \in Snaps /\ s.st = row.st /\ s.proj = row.proj /\ s.err = row.err
  BY <1>1 DEF Intents, Snaps
<1>3. PICK t : t = [pc |-> p, op |-> op, gen |-> gen, proj |-> row.proj, comp |-> FALSE, fence |-> 0, snap |-> s]
  OBVIOUS
<1>4. /\ t \in Tasks /\ t.pc = p /\ t.fence = 0 /\ ~t.comp /\ t.proj = row.proj /\ t.snap = s
  <2>1. gen \in Nat /\ 0 \in Nat /\ row.proj \in BOOLEAN
    BY DEF TypeInv, Intents
  <2> QED
    BY <1>2, <1>3, <2>1 DEF Tasks
<1>5. call' = [call EXCEPT ![c] = t]
  BY <1>1, <1>3 DEF Enter
<1> QED
  BY <1>2, <1>4, <1>5 DEF Becomes

LEMMA RecoverStep ==
  ASSUME IInv, NEW c \in Callers, recover(c)
  PROVE  IInv'
<1>1. Still /\ call[c].pc = "idle" /\ i \in Intents
  BY UnmovedRows DEF recover, At, IInv, TypeInv
<1>2. PICK t : /\ Becomes(c, t) /\ t.pc = "look" /\ t.fence = 0 /\ ~t.comp /\ t.proj = i.proj
               /\ t.snap.st = i.st /\ t.snap.proj = i.proj /\ t.snap.err = i.err
  <2>1. TypeInv /\ "recover" \in {"create", "close", "recover"} /\ "look" \in PCs /\ Enter(c, "recover", "look", i)
    BY DEF recover, IInv, PCs
  <2> QED
    BY <1>1, <2>1, Enters
<1>3. SnapOK(t)
  BY <1>2 DEF SnapOK, IInv, RowInv
<1>4. TaskOK(t)
  BY <1>2, <1>3 DEF TaskOK, PathOK, Removing
<1> QED
  BY <1>1, <1>2, <1>4, Quiet

LEMMA ReservedIs ==
  ASSUME TypeInv
  PROVE  /\ Reserved \in Intents /\ Reserved.proj = i.proj /\ Reserved.fence = i.fence
         /\ \/ Reserved = i
            \/ i.st \in {"none", "failed"} /\ Reserved.st = "reserved"
<1>1. i \in Intents
  BY DEF TypeInv
<1>2. CASE i.st = "none"
  BY <1>1, <1>2 DEF Reserved, Intents, States
<1>3. CASE i.st = "failed" /\ i.err = "retryable"
  <2>1. 0 \in Nat /\ "none" \in Errors /\ "reserved" \in States
    BY DEF Errors, States
  <2>2. PICK r : r = [i EXCEPT !.st = "reserved", !.held = FALSE, !.lease = "none", !.gen = 0,
                               !.retry = "none", !.err = "none"]
    OBVIOUS
  <2>3. Reserved = r
    BY <1>3, <2>2 DEF Reserved
  <2>4. r \in Intents
    BY <1>1, <2>1, <2>2 DEF Intents
  <2>5. r.proj = i.proj /\ r.fence = i.fence /\ r.st = "reserved"
    BY <1>1, <2>2 DEF Intents
  <2> QED
    BY <1>3, <2>3, <2>4, <2>5
<1>4. CASE i.st # "none" /\ ~(i.st = "failed" /\ i.err = "retryable")
  BY <1>1, <1>4 DEF Reserved
<1> QED
  BY <1>2, <1>3, <1>4

LEMMA CreateStep ==
  ASSUME IInv, NEW c \in Callers, create(c)
  PROVE  IInv'
<1>1. /\ call[c].pc = "idle" /\ i' = Reserved /\ UNCHANGED <<wt, proj, Git, child, Rest>>
      /\ Enter(c, "create", IF i'.st = "ready" THEN "revalidate" ELSE "resume", i')
  BY DEF create, At
<1>2. /\ i' \in Intents /\ i'.proj = i.proj /\ i'.fence = i.fence
      /\ \/ i' = i
         \/ i.st \in {"none", "failed"} /\ i'.st = "reserved"
  BY <1>1, ReservedIs DEF IInv
<1>3. PICK p : p = IF i'.st = "ready" THEN "revalidate" ELSE "resume"
  OBVIOUS
<1>4. PICK t : /\ Becomes(c, t) /\ t.pc = p /\ t.fence = 0 /\ ~t.comp /\ t.proj = i'.proj
               /\ t.snap.st = i'.st /\ t.snap.proj = i'.proj /\ t.snap.err = i'.err
  <2>1. PICK row : row = i'
    OBVIOUS
  <2>2. /\ TypeInv /\ "create" \in {"create", "close", "recover"} /\ p \in PCs /\ row \in Intents
        /\ Enter(c, "create", p, row)
    BY <1>1, <1>2, <1>3, <2>1 DEF IInv, PCs
  <2> QED
    BY <2>1, <2>2, Enters
<1>5. TypeInv'
  BY <1>1, <1>2, <1>4 DEF IInv, TypeInv, Becomes, Git, Rest
<1>6. Forward
  BY <1>1, <1>2 DEF Forward, Lost, Rest, Late, Closing
<1>7. RowInv'
  BY <1>1, <1>2 DEF IInv, RowInv, Rest, Git, Lost, Late, Closing, Standing, Registered
<1>8. SnapOK(t)'
  BY <1>4, <1>7 DEF SnapOK, RowInv
<1>9. TaskOK(t)'
  BY <1>3, <1>4, <1>7, <1>8 DEF TaskOK, PathOK, Removing, RowInv
<1>10. (AddRuns => i'.st = "git_creating") /\ (i'.st \in Closing => i.st \in Closing)
  BY <1>2 DEF IInv, FenceInv, Closing
<1> QED
  BY <1>1, <1>2, <1>3, <1>4, <1>5, <1>6, <1>7, <1>9, <1>10, StageMove DEF Rest

LEMMA CloseStep ==
  ASSUME IInv, NEW c \in Callers, close(c)
  PROVE  IInv'
<1>1. /\ call[c].pc = "idle" /\ i' = [i EXCEPT !.st = "closing"] /\ wt' = "closing" /\ proj' = "closing"
      /\ i.st = "ready" /\ proj = "worktree" /\ session # "open" /\ Enter(c, "close", "remove", i')
      /\ UNCHANGED <<Git, child, Rest>> /\ i \in Intents
  BY DEF close, At, Blocked, IInv, TypeInv
<1>2. i' \in Intents /\ i'.st = "closing" /\ i'.proj = i.proj /\ i'.fence = i.fence /\ i.proj /\ session # "none"
  BY <1>1 DEF Intents, States, Closing, IInv, RowInv, Registered
<1>3. PICK t : /\ Becomes(c, t) /\ t.pc = "remove" /\ t.fence = 0 /\ ~t.comp /\ t.proj = i'.proj
               /\ t.snap.st = i'.st /\ t.snap.proj = i'.proj /\ t.snap.err = i'.err
  <2>1. PICK row : row = i'
    OBVIOUS
  <2>2. /\ TypeInv /\ "close" \in {"create", "close", "recover"} /\ "remove" \in PCs /\ row \in Intents
        /\ Enter(c, "close", "remove", row)
    BY <1>1, <1>2, <2>1 DEF IInv, PCs
  <2> QED
    BY <2>1, <2>2, Enters
<1>4. TypeInv'
  BY <1>1, <1>2, <1>3 DEF IInv, TypeInv, Becomes, Git, Rest
<1>5. Forward
  BY <1>1, <1>2 DEF Forward, Lost, Rest, Late, Closing
<1>6. RowInv'
  BY <1>1, <1>2 DEF IInv, RowInv, Rest, Git, Lost, Late, Closing, Standing, Registered
<1>7. TaskOK(t)'
  BY <1>2, <1>3 DEF TaskOK, SnapOK, PathOK, Removing, Late, Closing, Registered
<1>8. TaskInv'
  BY <1>3, <1>5, <1>7, TasksKept DEF IInv
<1>9. MakeInv'
  <2>1. \A d \in Callers : call'[d].pc \in {"make", "refused"} => d # c /\ call'[d] = call[d]
    BY <1>3 DEF Becomes, IInv, TypeInv
  <2> QED
    BY <1>1, <1>2, <2>1 DEF IInv, MakeInv, MakeOK, Rest
<1>10. FenceInv'
  <2>1. AddRuns => i'.st = "git_creating"
    BY <1>1 DEF IInv, FenceInv
  <2> QED
    BY <1>1, <1>2, <1>3, <1>5, <2>1, FencesKept DEF IInv, Forward
<1> QED
  BY <1>4, <1>6, <1>8, <1>9, <1>10 DEF IInv

LEMMA InterveneStep ==
  ASSUME IInv, NEW c \in Callers, intervene(c)
  PROVE  IInv'
<1>1. PICK s : s = call[c].snap
  OBVIOUS
<1>2. call[c].pc = "intervene" /\ Done(c) /\ UNCHANGED <<Git, child, Rest>> /\ i \in Intents
  BY DEF intervene, At, IInv, TypeInv
<1>3. CASE i.st # s.st
  <2>1. Still
    BY <1>1, <1>2, <1>3, UnmovedRows DEF intervene, Rows
  <2> QED
    BY <1>2, <2>1, QuietEnd
<1>4. CASE i.st = s.st
  <2>1. PICK e : e = IF i.err = "none" THEN "intervention" ELSE i.err
    OBVIOUS
  <2>2. i' = [i EXCEPT !.err = e]
    BY <1>1, <1>4, <2>1 DEF intervene
  <2>3. e \in Errors /\ (i.err # "compensation" <=> e # "compensation")
    BY <1>2, <2>1 DEF Intents, Errors
  <2>4. /\ i' \in Intents /\ i'.st = i.st /\ i'.proj = i.proj /\ i'.fence = i.fence
        /\ (i.err # "compensation" <=> i'.err # "compensation")
    BY <1>2, <2>2, <2>3 DEF Intents
  <2>5. /\ wt' = wt \/ wt' = "intervention"
        /\ proj' = proj \/ (proj = "worktree" /\ proj' = "closing")
        /\ wt = "ready" => wt' = "intervention" \/ proj' = proj
    BY <1>1, <1>4 DEF intervene
  <2>6. PICK t : Becomes(c, t) /\ TaskOK(t) /\ t.pc \in {"idle", "intervene"} /\ t.fence \in {0, call[c].fence}
    BY <1>2, Leaves
  <2>7. TypeInv'
    BY <1>2, <2>4, <2>5, <2>6 DEF IInv, TypeInv, Becomes, Git, Rest
  <2>8. Forward
    BY <1>2, <2>4, <2>5 DEF Forward, Lost, Rest
  <2>9. RowInv'
    BY <1>2, <2>4, <2>5 DEF IInv, RowInv, Rest, Git, Lost
  <2>10. TaskOK(t)'
    BY <2>6, <2>8, TaskForward
  <2>11. AddRuns => i'.st = "git_creating"
    BY <2>4 DEF IInv, FenceInv
  <2> QED
    BY <1>2, <2>4, <2>6, <2>7, <2>8, <2>9, <2>10, <2>11, StageMove DEF Rest
<1> QED
  BY <1>3, <1>4
-----------------------------------------------------------------------------
(***************************************************************************)
(* The git worktree is made                                                *)
(***************************************************************************)
\* The intent is claimed: a new fence, and no git process.
LEMMA Claimed ==
  ASSUME IInv, NEW c \in Callers, At(c, "claim"), NoLiveChild, Claimable(call[c].gen),
         i' = [Forgotten(i, i.token) EXCEPT !.st = "git_creating", !.held = TRUE, !.fence = @ + 1, !.lease = "live",
                                            !.gen = gen, !.retry = "none", !.err = "none"],
         call' = [call EXCEPT ![c].pc = "inspect", ![c].fence = i.fence + 1],
         UNCHANGED <<wt, proj, Git, child, Rest>>
  PROVE  IInv'
<1>1. i \in Intents /\ i.fence \in Nat /\ gen \in Nat /\ call[c] \in Tasks /\ call[c].pc = "claim"
  BY DEF IInv, TypeInv, Intents, At
<1>2. PICK n \in Nat : n = i.fence + 1
  BY <1>1
<1>3. PICK row : row = Forgotten(i, i.token)
  OBVIOUS
<1>4. row \in Intents /\ row.fence = i.fence /\ row.proj = i.proj
  BY <1>1, <1>3, ForgottenIs DEF Admin
<1>5. PICK r : r = [row EXCEPT !.st = "git_creating", !.held = TRUE, !.fence = n, !.lease = "live",
                               !.gen = gen, !.retry = "none", !.err = "none"]
  OBVIOUS
<1>6. i' = r
  BY <1>2, <1>3, <1>4, <1>5 DEF Intents
<1>7. r \in Intents
  BY <1>1, <1>4, <1>5 DEF Intents, States, Errors
<1>8. r.st = "git_creating" /\ r.fence = n /\ r.proj = row.proj
  BY <1>4, <1>5 DEF Intents
<1>9. i' \in Intents /\ i'.st = "git_creating" /\ i'.fence = n /\ i'.proj = i.proj
  BY <1>4, <1>6, <1>7, <1>8
<1>10. i.st \in {"reserved", "git_creating"}
  BY DEF Claimable
<1>11. PICK t : t = [call[c] EXCEPT !.pc = "inspect", !.fence = n]
  OBVIOUS
<1>12. /\ t \in Tasks /\ t.pc = "inspect" /\ t.fence = n /\ t.snap = call[c].snap /\ t.proj = call[c].proj
       /\ t.comp = call[c].comp
  BY <1>1, <1>2, <1>11 DEF Tasks, PCs
<1>13. Becomes(c, t)
  BY <1>2, <1>11, <1>12 DEF Becomes
<1>14. TypeInv'
  BY <1>9, <1>12, <1>13 DEF IInv, TypeInv, Becomes, Git, Rest
<1>15. Forward
  BY <1>9, <1>10 DEF Forward, Lost, Rest, Late, Closing
<1>16. RowInv'
  BY <1>9, <1>10 DEF IInv, RowInv, Rest, Git, Lost, Late, Closing, Standing, Registered
<1>17. TaskOK(t)
  <2>1. n # 0
    BY <1>1, <1>2
  <2>2. SnapOK(call[c]) /\ PathOK(call[c])
    BY Known
  <2>3. SnapOK(t)
    BY <1>12, <2>2 DEF SnapOK
  <2>4. PathOK(t)
    BY <1>12, <2>1, <2>2 DEF PathOK, Removing
  <2> QED
    BY <2>3, <2>4 DEF TaskOK
<1>18. TaskInv'
  BY <1>13, <1>15, <1>17, TaskForward, TasksKept DEF IInv
<1>19. MakeInv'
  BY <1>9, <1>12, <1>13, MakersKept DEF IInv, Rest, Closing
<1>20. FenceInv'
  <2>1. call'[c] = t /\ \A d \in Callers : d # c => call'[d] = call[d]
    BY <1>13 DEF Becomes, IInv, TypeInv
  <2>2. child'.pc = "none" /\ ~AddRuns' /\ \A d \in Callers : call[d].pc # "gated"
    BY DEF NoLiveChild, AddRuns, IInv, FenceInv
  <2>3. \A d \in Callers : call[d].fence \in Nat /\ call[d].fence <= i.fence
    BY Known DEF IInv, FenceInv
  <2>4. \A x \in Nat : x <= i.fence => x <= n /\ x # n
    BY <1>1, <1>2
  <2>5. \A d \in Callers : d # c => call'[d].fence <= n /\ call'[d].fence # n /\ call'[d].fence = call[d].fence
    BY <2>1, <2>3, <2>4
  <2>6. n <= n
    BY <1>2
  <2>7. \A d \in Callers : call'[d].fence <= i'.fence /\ call'[d].pc # "gated"
    BY <1>9, <1>12, <2>1, <2>2, <2>5, <2>6
  <2>8. \A d, e \in Callers : d # e /\ call[d].fence = call[e].fence => call[d].fence = 0
    BY DEF IInv, FenceInv
  <2>9. \A d, e \in Callers : d # e /\ call'[d].fence = call'[e].fence => call'[d].fence = 0
    <3> SUFFICES ASSUME NEW d \in Callers, NEW e \in Callers, d # e, call'[d].fence = call'[e].fence
                 PROVE  call'[d].fence = 0
      OBVIOUS
    <3>1. d # c /\ e # c
      BY <1>12, <2>1, <2>5
    <3>2. call'[d].fence = call[d].fence /\ call'[e].fence = call[e].fence
      BY <2>1, <3>1
    <3> QED
      BY <2>8, <3>2
  <2> QED
    BY <2>2, <2>7, <2>9 DEF FenceInv
<1> QED
  BY <1>14, <1>16, <1>18, <1>19, <1>20 DEF IInv

LEMMA ClaimStep ==
  ASSUME IInv, NEW c \in Callers, claim(c)
  PROVE  IInv'
<1>1. i \in Intents /\ call[c].pc = "claim" /\ UNCHANGED <<wt, proj, Git, child, Rest>>
  BY DEF claim, At, IInv, TypeInv
<1>2. CASE ~NoLiveChild
  <2>1. i' = Postponed(i) /\ Done(c)
    BY <1>2 DEF claim
  <2>2. Still
    BY <1>1, <2>1, PostponedIs, Unmoved
  <2> QED
    BY <1>1, <2>1, <2>2, QuietEnd
<1>3. CASE NoLiveChild /\ (Done(c) \/ Fails(c)) /\ i' = Forgotten(i, i.token)
  <2>1. Still
    BY <1>1, <1>3, ForgottenIs, Unmoved
  <2> QED
    BY <1>1, <1>3, <2>1, QuietEnd
<1>4. CASE /\ NoLiveChild /\ Claimable(call[c].gen)
           /\ i' = [Forgotten(i, i.token) EXCEPT !.st = "git_creating", !.held = TRUE, !.fence = @ + 1, !.lease = "live",
                                                 !.gen = gen, !.retry = "none", !.err = "none"]
           /\ call' = [call EXCEPT ![c].pc = "inspect", ![c].fence = i.fence + 1]
  BY <1>1, <1>4, Claimed DEF At
<1> QED
  BY <1>2, <1>3, <1>4 DEF claim

\* A claim settles: no add of it runs any more.
LEMMA Settled ==
  ASSUME IInv, NEW c \in Callers, call[c].pc \in {"inspect", "settle"}, Holds(c),
         NEW st \in {"git_created", "failed"}, NEW err \in Errors, Settle(c, st, err), st = "git_created" => reg,
         Goto(c, "register") \/ Fails(c), UNCHANGED <<wt, proj, Git, child, Rest>>
  PROVE  IInv'
<1>1. i \in Intents /\ i.st = "git_creating" /\ i.fence = call[c].fence
  BY DEF IInv, TypeInv, Holds
<1>2. i' = [i EXCEPT !.st = st, !.err = err, !.held = FALSE, !.lease = "none", !.retry = "none"]
  BY DEF Settle
<1>3. i' \in Intents
  BY <1>1, <1>2 DEF Intents, States, Standing
<1>4. i'.st = st /\ i'.proj = i.proj /\ i'.fence = i.fence
  BY <1>1, <1>2 DEF Intents
<1>5. ~AddRuns
  BY <1>1 DEF IInv, FenceInv
<1>6. PICK t : /\ Becomes(c, t) /\ TaskOK(t) /\ t.pc \in {"idle", "intervene", "register"}
               /\ t.fence \in {0, call[c].fence}
  <2>1. CASE Fails(c)
    BY <2>1, Leaves
  <2>2. CASE Goto(c, "register")
    <3>1. PICK t : Becomes(c, t) /\ t.pc = "register" /\ Carries(c, t)
      BY <2>2, GoesTo DEF IInv, PCs
    <3>2. SnapOK(t) /\ (t.comp => t.proj \/ Lost)
      BY <3>1, Carried DEF IInv, TaskInv
    <3>3. TaskOK(t)
      BY <3>1, <3>2 DEF TaskOK, PathOK, Removing
    <3> QED
      BY <3>1, <3>3 DEF Carries
  <2> QED
    BY <2>1, <2>2
<1>7. TypeInv'
  BY <1>3, <1>6 DEF IInv, TypeInv, Becomes, Git, Rest
<1>8. Forward
  BY <1>1, <1>4 DEF Forward, Lost, Rest, Late, Closing
<1>9. RowInv'
  BY <1>1, <1>4 DEF IInv, RowInv, Rest, Git, Lost, Late, Closing, Standing, Registered
<1>10. TaskOK(t)'
  BY <1>6, <1>8, TaskForward
<1>11. i'.st \notin Closing
  BY <1>4 DEF Closing
<1> QED
  BY <1>4, <1>5, <1>6, <1>7, <1>8, <1>9, <1>10, <1>11, StageMove DEF Rest

LEMMA InspectStep ==
  ASSUME IInv, NEW c \in Callers, inspect(c)
  PROVE  IInv'
<1>1. call[c].pc = "inspect" /\ UNCHANGED <<wt, proj, Git, child, Rest>> /\ call[c].fence # 0
  BY Known DEF inspect, At, PathOK
<1>2. \/ reg /\ Settle(c, "git_created", "none") /\ Holds(c) /\ Goto(c, "register")
      \/ reg /\ Settle(c, "git_created", "none") /\ ~Holds(c) /\ Fails(c)
      \/ Settle(c, "failed", "retryable") /\ Fails(c)
      \/ UNCHANGED i /\ Goto(c, "launch")
  BY DEF inspect
<1>3. CASE ~Holds(c) /\ i' = i /\ Fails(c)
  BY <1>1, <1>3, AdminSame, Unmoved, QuietEnd DEF IInv
<1>4. CASE reg /\ Settle(c, "git_created", "none") /\ Holds(c) /\ Goto(c, "register")
  BY <1>1, <1>4, Settled DEF Errors
<1>5. CASE Settle(c, "failed", "retryable") /\ Holds(c) /\ Fails(c)
  BY <1>1, <1>5, Settled DEF Errors
<1>6. CASE UNCHANGED i /\ Goto(c, "launch")
  <2>1. Still
    BY <1>1, <1>6, AdminSame, Unmoved DEF IInv
  <2> QED
    BY <1>1, <1>6, <2>1, QuietMove DEF PCs
<1> QED
  BY <1>2, <1>3, <1>4, <1>5, <1>6 DEF Settle

LEMMA SettleStep ==
  ASSUME IInv, NEW c \in Callers, settle(c)
  PROVE  IInv'
<1>1. call[c].pc = "settle" /\ UNCHANGED <<wt, proj, Git, child, Rest>>
  BY DEF settle, At
<1>2. PICK err \in Errors : err = IF branch THEN "retryable" ELSE "final"
  BY DEF Errors
<1>3. \/ reg /\ Settle(c, "git_created", "none") /\ Holds(c) /\ Goto(c, "register")
      \/ reg /\ Settle(c, "git_created", "none") /\ ~Holds(c) /\ Fails(c)
      \/ Settle(c, "failed", err) /\ Fails(c)
  BY <1>2 DEF settle
<1>4. CASE ~Holds(c) /\ i' = i /\ Fails(c)
  BY <1>1, <1>4, AdminSame, Unmoved, QuietEnd DEF IInv
<1>5. CASE reg /\ Settle(c, "git_created", "none") /\ Holds(c) /\ Goto(c, "register")
  BY <1>1, <1>5, Settled DEF Errors
<1>6. CASE Settle(c, "failed", err) /\ Holds(c) /\ Fails(c)
  BY <1>1, <1>2, <1>6, Settled
<1> QED
  BY <1>3, <1>4, <1>5, <1>6 DEF Settle

LEMMA Launched ==
  ASSUME IInv, NEW c \in Callers, call[c].pc = "launch", NoLiveChild, i' = Forgotten(i, i.token),
         child' = [pc |-> "gated", kind |-> Kind(c), by |-> c], Goto(c, "gated"),
         UNCHANGED <<wt, proj, Git, Rest>>
  PROVE  IInv'
<1>1. i \in Intents /\ Kind(c) \in {"add", "remove"}
  BY DEF IInv, TypeInv, Kind
<1>2. Admin(i, i')
  BY <1>1, ForgottenIs
<1>3. PICK t : Becomes(c, t) /\ t.pc = "gated" /\ Carries(c, t)
  BY GoesTo DEF IInv, PCs
<1>4. TypeInv'
  BY <1>1, <1>2, <1>3 DEF IInv, TypeInv, Becomes, Git, Rest, Admin, Children
<1>5. Forward
  BY <1>2 DEF Forward, Lost, Rest, Admin
<1>6. RowInv'
  BY <1>2 DEF IInv, RowInv, Rest, Git, Lost, Admin
<1>7. TaskOK(t)
  BY <1>3, Known DEF TaskOK, SnapOK, PathOK, Removing, Carries
<1>8. TaskInv'
  BY <1>3, <1>5, <1>7, TaskForward, TasksKept DEF IInv
<1>9. MakeInv'
  BY <1>2, <1>3, MakersKept DEF IInv, Rest, Admin
<1>10. FenceInv'
  <2>1. call'[c] = t /\ \A d \in Callers : d # c => call'[d] = call[d]
    BY <1>3 DEF Becomes, IInv, TypeInv
  <2>2. \A d \in Callers : call[d].pc # "gated"
    BY DEF NoLiveChild, IInv, FenceInv
  <2>3. child'.pc = "gated" /\ child'.by = c /\ child'.kind = Kind(c) /\ ~AddRuns'
    BY DEF AddRuns
  <2>4. Kind(c)' = Kind(c)
    BY <1>3, <2>1 DEF Kind, Adds, Carries
  <2>5. \A d \in Callers : call'[d].fence = call[d].fence
    BY <1>3, <2>1 DEF Carries
  <2>6. \A d \in Callers : call'[d].pc = "gated" => d = c
    BY <2>1, <2>2
  <2> QED
    BY <1>2, <1>3, <2>1, <2>3, <2>4, <2>5, <2>6 DEF IInv, FenceInv, Admin
<1> QED
  BY <1>4, <1>6, <1>8, <1>9, <1>10 DEF IInv

LEMMA LaunchStep ==
  ASSUME IInv, NEW c \in Callers, launch(c)
  PROVE  IInv'
<1>1. call[c].pc = "launch" /\ UNCHANGED <<wt, proj, Git, Rest>> /\ i \in Intents
  BY DEF launch, At, IInv, TypeInv
<1>2. PICK row \in {i, IF Adds(c) THEN Abandoned(c, "later") ELSE i} :
        \A r \in {i, IF Adds(c) THEN Abandoned(c, "later") ELSE i} : i' = Postponed(r) => i' = Postponed(row)
  OBVIOUS
<1>3. \/ Fails(c) /\ i' = i /\ child' = child
      \/ i' = Postponed(row) /\ Done(c) /\ child' = child
      \/ /\ NoLiveChild /\ i' = Forgotten(i, i.token)
         /\ child' = [pc |-> "gated", kind |-> Kind(c), by |-> c] /\ Goto(c, "gated")
  BY <1>2 DEF launch
<1>4. CASE Fails(c) /\ i' = i /\ child' = child
  BY <1>1, <1>4, AdminSame, Unmoved, QuietEnd DEF IInv
<1>5. CASE i' = Postponed(row) /\ Done(c) /\ child' = child
  <2>1. Admin(i, row)
    <3>1. Admin(i, Abandoned(c, "later"))
      BY AbandonedIs DEF IInv
    <3>2. Admin(i, i)
      BY <1>1 DEF Admin
    <3> QED
      BY <1>2, <3>1, <3>2
  <2>2. Admin(row, i')
    BY <1>5, <2>1, PostponedIs DEF Admin
  <2>3. Admin(i, i')
    BY <2>1, <2>2, AdminTwice
  <2> QED
    BY <1>1, <1>5, <2>3, Unmoved, QuietEnd
<1>6. CASE /\ NoLiveChild /\ i' = Forgotten(i, i.token)
           /\ child' = [pc |-> "gated", kind |-> Kind(c), by |-> c] /\ Goto(c, "gated")
  BY <1>1, <1>6, Launched
<1> QED
  BY <1>3, <1>4, <1>5, <1>6

LEMMA Started ==
  ASSUME IInv, NEW c \in Callers, call[c].pc = "gated", MayStart(c),
         i' = [i EXCEPT !.token = IF call[c].fence = 0 THEN -1 ELSE call[c].fence],
         child' = [child EXCEPT !.pc = "run"], Goto(c, "wait"), UNCHANGED <<wt, proj, Git, Rest>>
  PROVE  IInv'
<1>1. /\ i \in Intents /\ child \in Children /\ child.pc = "gated" /\ child.by = c /\ child.kind = Kind(c)
      /\ call[c].fence \in Nat
  BY Known DEF IInv, TypeInv, FenceInv
<1>2. PICK n \in Int : n = IF call[c].fence = 0 THEN -1 ELSE call[c].fence
  BY <1>1
<1>3. Admin(i, i')
  BY <1>1, <1>2 DEF Admin, Intents
<1>4. child' \in Children /\ child'.pc = "run" /\ child'.by = c /\ child'.kind = Kind(c)
  BY <1>1 DEF Children
<1>5. PICK t : Becomes(c, t) /\ t.pc = "wait" /\ Carries(c, t)
  BY GoesTo DEF IInv, PCs
<1>6. TypeInv'
  BY <1>3, <1>4, <1>5 DEF IInv, TypeInv, Becomes, Git, Rest, Admin
<1>7. Forward
  BY <1>3 DEF Forward, Lost, Rest, Admin
<1>8. RowInv'
  BY <1>3 DEF IInv, RowInv, Rest, Git, Lost, Admin
<1>9. TaskOK(t)
  BY <1>5, Known DEF TaskOK, SnapOK, PathOK, Removing, Carries
<1>10. TaskInv'
  BY <1>5, <1>7, <1>9, TaskForward, TasksKept DEF IInv
<1>11. MakeInv'
  BY <1>3, <1>5, MakersKept DEF IInv, Rest, Admin
<1>12. FenceInv'
  <2>1. call'[c] = t /\ \A d \in Callers : d # c => call'[d] = call[d]
    BY <1>5 DEF Becomes, IInv, TypeInv
  <2>2. \A d \in Callers : call'[d].fence = call[d].fence
    BY <1>5, <2>1 DEF Carries
  <2>3. \A d \in Callers : call'[d].pc # "gated"
    BY <1>1, <1>5, <2>1 DEF IInv, FenceInv
  <2>4. AddRuns' => Adds(c)
    BY <1>4 DEF AddRuns, Kind
  <2>5. Adds(c) => /\ i'.st = "git_creating" /\ i'.fence # 0 /\ i'.fence = call[c].fence
                   /\ \A d \in Callers : call'[d].fence = i'.fence => d = c
    BY <1>3, <2>2 DEF MayStart, Expected, Adds, Admin, IInv, FenceInv
  <2>6. ~AddRuns' => i'.st \in Closing
    <3>1. ~AddRuns' => Removing(call[c])
      BY <1>4 DEF AddRuns, Kind, Adds, Removing
    <3> QED
      BY <1>3, <3>1, Known DEF PathOK, Admin
  <2>7. i'.fence = i.fence /\ \A d \in Callers : call[d].fence <= i.fence
    BY <1>3 DEF Admin, IInv, FenceInv
  <2>8. \A d, e \in Callers : d # e /\ call'[d].fence = call'[e].fence => call'[d].fence = 0
    BY <2>2 DEF IInv, FenceInv
  <2> QED
    BY <1>4, <1>5, <2>1, <2>2, <2>3, <2>4, <2>5, <2>6, <2>7, <2>8 DEF FenceInv
<1> QED
  BY <1>6, <1>8, <1>10, <1>11, <1>12 DEF IInv

LEMMA StartRefused ==
  ASSUME IInv, NEW c \in Callers, call[c].pc = "gated", Admin(i, i'), child' = NoChild, Fails(c),
         UNCHANGED <<wt, proj, Git, Rest>>
  PROVE  IInv'
<1>1. PICK t : Becomes(c, t) /\ TaskOK(t) /\ t.pc \in {"idle", "intervene"} /\ t.fence \in {0, call[c].fence}
  BY Leaves
<1>2. child' \in Children /\ child'.pc = "none"
  BY DEF NoChild, Children
<1>3. TypeInv'
  BY <1>1, <1>2 DEF IInv, TypeInv, Becomes, Git, Rest, Admin
<1>4. Forward
  BY DEF Forward, Lost, Rest, Admin
<1>5. RowInv'
  BY DEF IInv, RowInv, Rest, Git, Lost, Admin
<1>6. TaskInv'
  BY <1>1, <1>4, TaskForward, TasksKept DEF IInv
<1>7. MakeInv'
  BY <1>1, MakersKept DEF IInv, Rest, Admin
<1>8. FenceInv'
  <2>1. call'[c] = t /\ \A d \in Callers : d # c => call'[d] = call[d]
    BY <1>1 DEF Becomes, IInv, TypeInv
  <2>2. \A d \in Callers : call'[d].pc # "gated"
    BY <1>1, <2>1 DEF IInv, FenceInv
  <2>3. i'.fence = i.fence /\ i.fence \in Nat /\ \A d \in Callers : call[d].fence <= i.fence
    BY DEF Admin, IInv, FenceInv, TypeInv, Intents
  <2>4. \A d \in Callers : call'[d].fence <= i'.fence
    BY <1>1, <2>1, <2>3
  <2>5. \A d, e \in Callers : d # e /\ call'[d].fence = call'[e].fence => call'[d].fence = 0
    BY <1>1, <2>1 DEF IInv, FenceInv
  <2> QED
    BY <1>2, <2>2, <2>4, <2>5 DEF FenceInv, AddRuns
<1> QED
  BY <1>3, <1>5, <1>6, <1>7, <1>8 DEF IInv

LEMMA RecordStartedStep ==
  ASSUME IInv, NEW c \in Callers, record_started(c)
  PROVE  IInv'
<1>1. call[c].pc = "gated" /\ UNCHANGED <<wt, proj, Git, Rest>> /\ i \in Intents
  BY DEF record_started, At, IInv, TypeInv
<1>2. CASE /\ MayStart(c) /\ i' = [i EXCEPT !.token = IF call[c].fence = 0 THEN -1 ELSE call[c].fence]
           /\ child' = [child EXCEPT !.pc = "run"] /\ Goto(c, "wait")
  BY <1>1, <1>2, Started
<1>3. CASE i' = (IF Adds(c) THEN Abandoned(c, "due") ELSE i) /\ child' = NoChild /\ Fails(c)
  <2>1. Admin(i, Abandoned(c, "due")) /\ Admin(i, i)
    BY <1>1, AbandonedIs DEF IInv, Admin
  <2>2. Admin(i, i')
    BY <1>3, <2>1
  <2> QED
    BY <1>1, <1>3, <2>2, StartRefused
<1> QED
  BY <1>2, <1>3 DEF record_started

LEMMA ChildEndsStep ==
  ASSUME IInv, NEW outcome \in {"ok", "partial", "fails"}, child_ends(outcome)
  PROVE  IInv'
<1>1. child.pc = "run" /\ child' = NoChild /\ UNCHANGED <<Rows, call, Rest>>
  BY DEF child_ends
<1>2. /\ branch' \in BOOLEAN
      /\ reg' = reg \/ (AddRuns /\ reg' = TRUE) \/ (child.kind = "remove" /\ reg' = FALSE)
  BY <1>1 DEF child_ends, AddRuns, IInv, TypeInv
<1>3. child' \in Children /\ child'.pc = "none"
  BY <1>1 DEF NoChild, Children
<1>4. TypeInv'
  BY <1>1, <1>2, <1>3 DEF IInv, TypeInv, Rows, Rest
<1>5. TaskInv'
  BY <1>1 DEF IInv, TaskInv, TaskOK, SnapOK, PathOK, Removing, Lost, Rows, Rest
<1>6. MakeInv'
  BY <1>1 DEF IInv, MakeInv, MakeOK, Rows, Rest
<1>7. FenceInv'
  <2>1. \A c \in Callers : call[c].pc # "gated" /\ call[c].fence <= i.fence
    BY <1>1 DEF IInv, FenceInv
  <2> QED
    BY <1>1, <1>3, <2>1 DEF IInv, FenceInv, AddRuns, Rows
<1>8. RowInv'
  <2>1. (AddRuns => i.st = "git_creating") /\ (child.kind = "remove" => i.st \in Closing)
    BY <1>1 DEF IInv, FenceInv, AddRuns
  <2> QED
    BY <1>1, <1>2, <2>1 DEF IInv, RowInv, Rows, Rest, Lost, Closing, Standing, Registered
<1> QED
  BY <1>4, <1>5, <1>6, <1>7, <1>8 DEF IInv
-----------------------------------------------------------------------------
(***************************************************************************)
(* The project and its target session                                      *)
(***************************************************************************)
LEMMA ToTarget ==
  ASSUME TypeInv, NEW c \in Callers, call' = [call EXCEPT ![c].pc = "target", ![c].proj = TRUE, ![c].fence = 0]
  PROVE  \E t : /\ Becomes(c, t) /\ t.pc = "target" /\ t.fence = 0 /\ t.proj /\ t.snap = call[c].snap
                /\ t.comp = call[c].comp
<1>1. PICK u : u = call[c]
  OBVIOUS
<1>2. PICK t : t = [u EXCEPT !.pc = "target", !.proj = TRUE, !.fence = 0]
  OBVIOUS
<1>3. u \in Tasks /\ 0 \in Nat /\ "target" \in PCs
  BY <1>1 DEF TypeInv, PCs
<1>4. t \in Tasks /\ t.pc = "target" /\ t.fence = 0 /\ t.proj /\ t.snap = u.snap /\ t.comp = u.comp
  BY <1>2, <1>3 DEF Tasks
<1>5. call' = [call EXCEPT ![c] = t]
  BY <1>1, <1>2
<1> QED
  BY <1>1, <1>4, <1>5 DEF Becomes

LEMMA ToCompensation ==
  ASSUME TypeInv, NEW c \in Callers,
         \/ call' = [call EXCEPT ![c].pc = "compensate", ![c].fence = 0]
         \/ call' = [call EXCEPT ![c].pc = "compensate"]
  PROVE  \E t : /\ Becomes(c, t) /\ t.pc = "compensate" /\ t.fence \in {0, call[c].fence} /\ t.proj = call[c].proj
                /\ t.snap = call[c].snap /\ t.comp = call[c].comp
<1>1. PICK u : u = call[c]
  OBVIOUS
<1>2. u \in Tasks /\ 0 \in Nat /\ "compensate" \in PCs
  BY <1>1 DEF TypeInv, PCs
<1>3. CASE call' = [call EXCEPT ![c].pc = "compensate", ![c].fence = 0]
  <2>1. PICK t : t = [u EXCEPT !.pc = "compensate", !.fence = 0]
    OBVIOUS
  <2>2. /\ t \in Tasks /\ t.pc = "compensate" /\ t.fence = 0 /\ t.proj = u.proj /\ t.snap = u.snap
        /\ t.comp = u.comp
    BY <1>2, <2>1 DEF Tasks
  <2>3. call' = [call EXCEPT ![c] = t]
    BY <1>1, <1>3, <2>1
  <2> QED
    BY <1>1, <2>2, <2>3 DEF Becomes
<1>4. CASE call' = [call EXCEPT ![c].pc = "compensate"]
  <2>1. Goto(c, "compensate")
    BY <1>4 DEF Goto
  <2>2. PICK t : Becomes(c, t) /\ t.pc = "compensate" /\ Carries(c, t)
    BY <1>2, <2>1, GoesTo
  <2> QED
    BY <2>2 DEF Carries
<1> QED
  BY <1>3, <1>4

LEMMA RegisterStep ==
  ASSUME IInv, NEW c \in Callers, register(c)
  PROVE  IInv'
<1>1. call[c].pc = "register" /\ UNCHANGED <<wt, Git, child, Rest>> /\ i \in Intents
  BY DEF register, At, IInv, TypeInv
<1>2. CASE Goto(c, "registered") /\ i' = i /\ proj' = proj /\ proj # "none"
  <2>1. Still
    BY <1>1, <1>2, AdminSame, Unmoved DEF IInv
  <2> QED
    BY <1>1, <1>2, <2>1, QuietMove DEF PCs
<1>3. CASE Goto(c, "registered") /\ i' = i /\ proj = "none" /\ parent /\ proj' = "worktree"
  <2>1. PICK t : Becomes(c, t) /\ t.pc = "registered" /\ Carries(c, t)
    BY <1>3, GoesTo DEF IInv, PCs
  <2>2. i.st \notin Closing /\ ~i.proj /\ wt # "ready"
    BY <1>3 DEF IInv, RowInv, Lost
  <2>3. TypeInv'
    BY <1>1, <1>3, <2>1 DEF IInv, TypeInv, Becomes, Git, Rest
  <2>4. Forward
    BY <1>1, <1>3 DEF Forward, Lost, Rest
  <2>5. RowInv'
    BY <1>1, <1>3, <2>2 DEF IInv, RowInv, Rest, Git, Lost, Closing
  <2>6. SnapOK(t) /\ (t.comp => t.proj \/ Lost)
    BY <2>1, Carried DEF IInv, TaskInv
  <2>7. SnapOK(t)' /\ (t.comp => t.proj \/ Lost')
    BY <2>4, <2>6 DEF SnapOK, Forward
  <2>8. TaskOK(t)'
    BY <1>3, <2>1, <2>7 DEF TaskOK, PathOK, Removing
  <2>9. AddRuns => i'.st = "git_creating"
    BY <1>3 DEF IInv, FenceInv
  <2> QED
    BY <1>1, <1>3, <2>1, <2>3, <2>4, <2>5, <2>8, <2>9, StageMove DEF Rest, Carries
<1>4. CASE proj = "none" /\ ~parent /\ proj' = proj /\ i' = i /\ Fails(c)
  BY <1>1, <1>4, AdminSame, Unmoved, QuietEnd DEF IInv
<1>5. CASE /\ proj = "none" /\ ~parent /\ proj' = proj /\ Marks("compensating")
           /\ i' = [i EXCEPT !.st = "compensating", !.err = "parent"]
           /\ call' = [call EXCEPT ![c].pc = "compensate", ![c].fence = 0]
  <2>1. /\ i' \in Intents /\ i'.st = "compensating" /\ i'.proj = i.proj /\ i'.fence = i.fence
    BY <1>1, <1>5 DEF Intents, States, Closing, Errors
  <2>2. ~i.proj /\ i.st \in {"git_created", "compensating"}
    BY <1>5 DEF Marks, Predecessors, IInv, RowInv, Registered
  <2>3. PICK t : /\ Becomes(c, t) /\ t.pc = "compensate" /\ t.fence \in {0, call[c].fence} /\ t.proj = call[c].proj
                 /\ t.snap = call[c].snap /\ t.comp = call[c].comp
    BY <1>5, ToCompensation DEF IInv
  <2>4. TypeInv'
    BY <1>1, <1>5, <2>1, <2>3 DEF IInv, TypeInv, Becomes, Git, Rest
  <2>5. Forward
    BY <1>1, <1>5, <2>1, <2>2 DEF Forward, Lost, Rest, Late, Closing
  <2>6. RowInv'
    BY <1>1, <1>5, <2>1, <2>2 DEF IInv, RowInv, Rest, Git, Lost, Late, Closing, Standing, Registered
  <2>7. SnapOK(t) /\ Lost
    BY <1>5, <2>3, Known DEF SnapOK, Lost
  <2>8. SnapOK(t)' /\ Lost'
    BY <2>5, <2>7 DEF SnapOK, Forward
  <2>9. TaskOK(t)'
    BY <2>1, <2>3, <2>8 DEF TaskOK, PathOK, Removing, Closing
  <2>10. TaskInv'
    BY <2>3, <2>5, <2>9, TasksKept DEF IInv
  <2>11. \A d \in Callers : ~call[d].proj
    BY <2>2, Known DEF SnapOK
  <2>12. \A d \in Callers : call'[d].pc \notin {"make", "refused"}
    <3>1. \A d \in Callers : call[d].pc \notin {"make", "refused"}
      BY <2>11, Known DEF PathOK
    <3> QED
      BY <2>3, <3>1 DEF Becomes, IInv, TypeInv
  <2>13. MakeInv'
    BY <2>12 DEF MakeInv, MakeOK
  <2>14. FenceInv'
    <3>1. AddRuns => i'.st = "git_creating"
      BY <2>2 DEF IInv, FenceInv
    <3>2. i'.st \in Closing
      BY <2>1 DEF Closing
    <3> QED
      BY <1>1, <2>1, <2>3, <3>1, <3>2, FencesKept DEF IInv
  <2> QED
    BY <2>4, <2>6, <2>10, <2>13, <2>14 DEF IInv
<1> QED
  BY <1>2, <1>3, <1>4, <1>5 DEF register

LEMMA RegisteredStep ==
  ASSUME IInv, NEW c \in Callers, registered(c)
  PROVE  IInv'
<1>1. call[c].pc = "registered" /\ UNCHANGED <<wt, proj, Git, child, Rest>> /\ i \in Intents /\ proj # "none"
  BY Known DEF registered, At, IInv, TypeInv, PathOK
<1>2. CASE i' = i /\ Fails(c)
  BY <1>1, <1>2, AdminSame, Unmoved, QuietEnd DEF IInv
<1>3. CASE /\ Marks("project_registered")
           /\ i' = [i EXCEPT !.st = "project_registered", !.proj = TRUE, !.err = "none"]
           /\ call' = [call EXCEPT ![c].pc = "target", ![c].proj = TRUE, ![c].fence = 0]
  <2>1. i' \in Intents /\ i'.st = "project_registered" /\ i'.proj /\ i'.fence = i.fence
    BY <1>1, <1>3 DEF Intents, States, Standing, Registered, Errors
  <2>2. i.st \in {"git_created", "project_registered"}
    BY <1>3 DEF Marks, Predecessors
  <2>3. PICK t : /\ Becomes(c, t) /\ t.pc = "target" /\ t.fence = 0 /\ t.proj /\ t.snap = call[c].snap
                 /\ t.comp = call[c].comp
    BY <1>3, ToTarget DEF IInv
  <2>4. TypeInv'
    BY <1>1, <2>1, <2>3 DEF IInv, TypeInv, Becomes, Git, Rest
  <2>5. Forward
    BY <1>1, <2>1, <2>2 DEF Forward, Lost, Rest, Late, Closing
  <2>6. RowInv'
    BY <1>1, <2>1, <2>2 DEF IInv, RowInv, Rest, Git, Lost, Late, Closing, Standing, Registered
  <2>7. TaskOK(t)'
    <3>1. SnapOK(call[c])
      BY Known
    <3>2. SnapOK(t)'
      BY <2>1, <2>3, <2>5, <3>1 DEF SnapOK, Forward
    <3> QED
      BY <2>3, <3>2 DEF TaskOK, PathOK, Removing
  <2>8. (AddRuns => i'.st = "git_creating") /\ i'.st \notin Closing
    BY <2>1, <2>2 DEF IInv, FenceInv, Closing
  <2> QED
    BY <1>1, <2>1, <2>3, <2>4, <2>5, <2>6, <2>7, <2>8, StageMove DEF Rest
<1> QED
  BY <1>2, <1>3 DEF registered

LEMMA TargetStep ==
  ASSUME IInv, NEW c \in Callers, target(c)
  PROVE  IInv'
<1>1. call[c].pc = "target" /\ UNCHANGED <<proj, Git, child, Rest>> /\ i \in Intents /\ call[c].proj
  BY Known DEF target, At, IInv, TypeInv, PathOK
<1>2. wt' = wt \/ wt' = "project_registered"
  BY DEF target
<1>3. \/ call[c].snap.st = "target_creating" /\ Goto(c, "reconcile") /\ i' = i
      \/ Marks("target_creating") /\ i' = [i EXCEPT !.st = "target_creating", !.err = "none"] /\ Goto(c, "make")
      \/ i' = i /\ (Done(c) \/ Fails(c))
      \/ i' = i /\ i.st = "target_creating" /\ Goto(c, "reconcile")
  BY DEF target
<1>4. CASE i' = i /\ (Done(c) \/ Fails(c))
  <2>1. Still
    BY <1>1, <1>2, <1>4, AdminSame DEF IInv, Still, Git, Rest
  <2> QED
    BY <1>1, <1>4, <2>1, QuietEnd
<1>5. CASE i' = i /\ Goto(c, "reconcile") /\ (call[c].snap.st = "target_creating" \/ i.st = "target_creating")
  <2>1. Still
    BY <1>1, <1>2, <1>5, AdminSame DEF IInv, Still, Git, Rest
  <2>2. i.st \in Late
    BY <1>5, Known DEF SnapOK, Late
  <2> QED
    BY <1>1, <1>5, <2>1, <2>2, QuietMove DEF PCs
<1>6. CASE Marks("target_creating") /\ i' = [i EXCEPT !.st = "target_creating", !.err = "none"] /\ Goto(c, "make")
  <2>1. i' \in Intents /\ i'.st = "target_creating" /\ i'.proj = i.proj /\ i'.fence = i.fence
    BY <1>1, <1>6 DEF Intents, States, Standing, Registered, Errors
  <2>2. i.st = "project_registered" /\ session = "none" /\ forks = 0
    BY <1>6 DEF Marks, Predecessors, IInv, RowInv, Late, Closing
  <2>3. PICK t : Becomes(c, t) /\ t.pc = "make" /\ Carries(c, t)
    BY <1>6, GoesTo DEF IInv, PCs
  <2>4. TypeInv'
    BY <1>1, <1>2, <2>1, <2>3 DEF IInv, TypeInv, Becomes, Git, Rest
  <2>5. Forward
    BY <1>1, <2>1, <2>2 DEF Forward, Lost, Rest, Late, Closing
  <2>6. RowInv'
    BY <1>1, <1>2, <2>1, <2>2 DEF IInv, RowInv, Rest, Git, Lost, Late, Closing, Standing, Registered
  <2>7. SnapOK(t) /\ (t.comp => t.proj \/ Lost)
    BY <2>3, Carried DEF IInv, TaskInv
  <2>8. SnapOK(t)' /\ (t.comp => t.proj \/ Lost')
    BY <2>5, <2>7 DEF SnapOK, Forward
  <2>9. TaskOK(t)'
    BY <1>1, <2>1, <2>3, <2>8 DEF TaskOK, PathOK, Removing, Carries, Late
  <2>10. TaskInv'
    BY <2>3, <2>5, <2>9, TasksKept DEF IInv
  <2>11. call'[c] = t /\ \A d \in Callers : d # c => call'[d] = call[d]
    BY <2>3 DEF Becomes, IInv, TypeInv
  <2>12. \A d \in Callers : call[d].pc \notin {"make", "refused"}
    <3>1. i.st \notin Late
      BY <2>2 DEF Late, Closing
    <3> QED
      BY <2>2, <3>1, Known DEF PathOK, MakeOK
  <2>13. \A d \in Callers : call'[d].pc \in {"make", "refused"} => d = c /\ call'[d].pc = "make"
    BY <2>3, <2>11, <2>12
  <2>14. MakeInv'
    BY <1>1, <2>1, <2>2, <2>13 DEF MakeInv, MakeOK, Rest, Closing
  <2>15. FenceInv'
    <3>1. (AddRuns => i'.st = "git_creating") /\ i.st \notin Closing
      BY <2>2 DEF IInv, FenceInv, Closing
    <3> QED
      BY <1>1, <2>1, <2>3, <3>1, FencesKept DEF IInv, Carries
  <2> QED
    BY <2>4, <2>6, <2>10, <2>14, <2>15 DEF IInv
<1> QED
  BY <1>3, <1>4, <1>5, <1>6

LEMMA MakeStep ==
  ASSUME IInv, NEW c \in Callers, make(c)
  PROVE  IInv'
<1>1. /\ call[c].pc = "make" /\ UNCHANGED <<Rows, Git, child, fork, parent, gen>> /\ i \in Intents
      /\ forks \in Nat /\ forks' = IF fork THEN forks + 1 ELSE forks
      /\ session \in {"none", "thread", "open", "closed"} /\ fork \in BOOLEAN
  BY DEF make, At, IInv, TypeInv
<1>2. /\ call[c].proj /\ i.st \in Late
      /\ fork => forks = 0 /\ session = "none" /\ i.st \notin Closing
  BY <1>1, Known DEF PathOK, MakeOK
<1>3. forks' \in Nat /\ forks' <= 1 /\ (fork => forks' = 1)
  BY <1>1, <1>2 DEF IInv, RowInv
<1>4. PICK p \in {"ready", "unknown", "refused"} :
        /\ Goto(c, p)
        /\ p = "ready" => session' # "none"
        /\ p = "refused" => fork /\ session' = session
        /\ \/ session' = session
           \/ fork /\ session' = "open"
           \/ proj = "worktree" /\ session' \in {"open", "thread"} /\ session \in {"none", "thread"}
  BY <1>1, <1>2 DEF make, Made
<1>5. PICK t : Becomes(c, t) /\ t.pc = p /\ Carries(c, t)
  BY <1>4, GoesTo DEF IInv, PCs
<1>6. TypeInv'
  BY <1>1, <1>3, <1>4, <1>5 DEF IInv, TypeInv, Becomes, Git, Rows
<1>7. session # "none" => session' # "none"
  BY <1>2, <1>4
<1>8. Forward
  BY <1>1, <1>7 DEF Forward, Lost, Rows
<1>9. RowInv'
  BY <1>1, <1>2, <1>3, <1>4, <1>7 DEF IInv, RowInv, Git, Rows, Lost
<1>10. SnapOK(t) /\ (t.comp => t.proj \/ Lost)
  BY <1>5, Carried DEF IInv, TaskInv
<1>11. SnapOK(t)' /\ (t.comp => t.proj \/ Lost')
  BY <1>8, <1>10 DEF SnapOK, Forward
<1>12. TaskOK(t)'
  BY <1>2, <1>4, <1>5, <1>11 DEF TaskOK, PathOK, Removing, Carries
<1>13. TaskInv'
  BY <1>5, <1>8, <1>12, TasksKept DEF IInv
<1>14. MakeInv'
  <2>1. call'[c] = t /\ \A d \in Callers : d # c => call'[d] = call[d]
    BY <1>5 DEF Becomes, IInv, TypeInv
  <2>2. \A d \in Callers : d # c => call[d].pc \notin {"make", "refused"}
    BY <1>1, <1>2, Known DEF MakeOK, IInv, MakeInv
  <2>3. \A d \in Callers : call'[d].pc # "make" /\ (call'[d].pc = "refused" => d = c)
    BY <1>4, <1>5, <2>1, <2>2
  <2>4. t.pc = "refused" => fork' /\ forks' = 1 /\ session' = "none"
    BY <1>1, <1>2, <1>3, <1>4, <1>5
  <2> QED
    BY <2>1, <2>3, <2>4 DEF MakeInv, MakeOK
<1>15. FenceInv'
  <2>1. AddRuns => i'.st = "git_creating"
    BY <1>1 DEF IInv, FenceInv, Rows
  <2> QED
    BY <1>1, <1>4, <1>5, <2>1, FencesKept DEF IInv, Carries, Rows
<1> QED
  BY <1>6, <1>9, <1>13, <1>14, <1>15 DEF IInv

LEMMA TargetUnknownStep ==
  ASSUME IInv, NEW c \in Callers, target_unknown(c)
  PROVE  IInv'
<1>1. call[c].pc = "unknown" /\ UNCHANGED <<proj, Git, child, Rest>> /\ i \in Intents /\ Fails(c)
  BY DEF target_unknown, At, IInv, TypeInv
<1>2. CASE i' = i /\ wt' = wt
  BY <1>1, <1>2, AdminSame, Unmoved, QuietEnd DEF IInv
<1>3. CASE /\ Marks("target_unknown") /\ i' = [i EXCEPT !.st = "target_unknown", !.err = "unknown"]
           /\ wt' = "target_unknown"
  <2>1. i' \in Intents /\ i'.st = "target_unknown" /\ i'.proj = i.proj /\ i'.fence = i.fence
    BY <1>1, <1>3 DEF Intents, States, Standing, Registered, Errors
  <2>2. i.st \in {"target_creating", "target_unknown"}
    BY <1>3 DEF Marks, Predecessors
  <2>3. PICK t : Becomes(c, t) /\ TaskOK(t) /\ t.pc \in {"idle", "intervene"} /\ t.fence \in {0, call[c].fence}
    BY <1>1, Leaves
  <2>4. TypeInv'
    BY <1>1, <1>3, <2>1, <2>3 DEF IInv, TypeInv, Becomes, Git, Rest
  <2>5. Forward
    BY <1>1, <2>1, <2>2 DEF Forward, Lost, Rest, Late, Closing
  <2>6. RowInv'
    BY <1>1, <1>3, <2>1, <2>2 DEF IInv, RowInv, Rest, Git, Lost, Late, Closing, Standing, Registered
  <2>7. TaskOK(t)'
    BY <2>3, <2>5, TaskForward
  <2>8. (AddRuns => i'.st = "git_creating") /\ i'.st \notin Closing
    BY <2>1, <2>2 DEF IInv, FenceInv, Closing
  <2> QED
    BY <1>1, <2>1, <2>3, <2>4, <2>5, <2>6, <2>7, <2>8, StageMove DEF Rest
<1> QED
  BY <1>2, <1>3 DEF target_unknown

LEMMA TargetRefusedStep ==
  ASSUME IInv, NEW c \in Callers, target_refused(c)
  PROVE  IInv'
<1>1. /\ call[c].pc = "refused" /\ UNCHANGED <<wt, proj, Git, child, Rest>> /\ i \in Intents
      /\ call[c].proj /\ i.proj /\ fork /\ forks = 1 /\ session = "none"
  BY Known DEF target_refused, At, IInv, TypeInv, PathOK, SnapOK, MakeOK
<1>2. CASE i' = i /\ Fails(c)
  BY <1>1, <1>2, AdminSame, Unmoved, QuietEnd DEF IInv
<1>3. CASE /\ Marks("compensating") /\ i' = [i EXCEPT !.st = "compensating", !.err = "refused"]
           /\ call' = [call EXCEPT ![c].pc = "compensate"]
  <2>1. i' \in Intents /\ i'.st = "compensating" /\ i'.proj = i.proj /\ i'.fence = i.fence
    BY <1>1, <1>3 DEF Intents, States, Closing, Errors
  <2>2. i.st \in {"target_creating", "compensating"}
    BY <1>1, <1>3 DEF Marks, Predecessors, IInv, RowInv, Late, Closing
  <2>3. PICK t : /\ Becomes(c, t) /\ t.pc = "compensate" /\ t.fence \in {0, call[c].fence} /\ t.proj = call[c].proj
                 /\ t.snap = call[c].snap /\ t.comp = call[c].comp
    BY <1>3, ToCompensation DEF IInv
  <2>4. TypeInv'
    BY <1>1, <2>1, <2>3 DEF IInv, TypeInv, Becomes, Git, Rest
  <2>5. Forward
    BY <1>1, <2>1, <2>2 DEF Forward, Lost, Rest, Late, Closing
  <2>6. RowInv'
    BY <1>1, <2>1, <2>2 DEF IInv, RowInv, Rest, Git, Lost, Late, Closing, Standing, Registered
  <2>7. SnapOK(t)
    BY <2>3, Known DEF SnapOK
  <2>8. SnapOK(t)'
    BY <2>5, <2>7 DEF SnapOK, Forward
  <2>9. TaskOK(t)'
    BY <1>1, <2>1, <2>3, <2>8 DEF TaskOK, PathOK, Removing, Closing
  <2>10. TaskInv'
    BY <2>3, <2>5, <2>9, TasksKept DEF IInv
  <2>11. MakeInv'
    <3>1. \A d \in Callers : call[d].pc # "make"
      BY <1>1, Known DEF MakeOK
    <3>2. \A d \in Callers : call'[d].pc # "make"
      BY <2>3, <3>1 DEF Becomes, IInv, TypeInv
    <3> QED
      BY <1>1, <3>2 DEF MakeInv, MakeOK, Rest
  <2>12. FenceInv'
    <3>1. (AddRuns => i'.st = "git_creating") /\ i'.st \in Closing
      BY <2>1, <2>2 DEF IInv, FenceInv, Closing
    <3> QED
      BY <1>1, <2>1, <2>3, <3>1, FencesKept DEF IInv
  <2> QED
    BY <2>4, <2>6, <2>10, <2>11, <2>12 DEF IInv
<1> QED
  BY <1>2, <1>3 DEF target_refused

LEMMA ReadyStep ==
  ASSUME IInv, NEW c \in Callers, ready(c)
  PROVE  IInv'
<1>1. call[c].pc = "ready" /\ UNCHANGED <<proj, Git, child, Rest>> /\ i \in Intents /\ session # "none"
  BY Known DEF ready, At, IInv, TypeInv, PathOK
<1>2. CASE i' = i /\ wt' = wt /\ Fails(c)
  BY <1>1, <1>2, AdminSame, Unmoved, QuietEnd DEF IInv
<1>3. CASE MayBeReady /\ i' = [i EXCEPT !.st = "ready", !.err = "none"] /\ wt' = "ready" /\ Done(c)
  <2>1. i' \in Intents /\ i'.st = "ready" /\ i'.proj = i.proj /\ i'.fence = i.fence
    BY <1>1, <1>3 DEF Intents, States, Standing, Registered, Errors
  <2>2. i.st \in Registered /\ proj = "worktree"
    BY <1>3 DEF MayBeReady, Registered
  <2>3. PICK t : Becomes(c, t) /\ TaskOK(t) /\ t.pc \in {"idle", "intervene"} /\ t.fence \in {0, call[c].fence}
    BY <1>3, Leaves
  <2>4. TypeInv'
    BY <1>1, <1>3, <2>1, <2>3 DEF IInv, TypeInv, Becomes, Git, Rest
  <2>5. Forward
    BY <1>1, <2>1, <2>2 DEF Forward, Lost, Rest, Late, Closing, Registered
  <2>6. RowInv'
    BY <1>1, <1>3, <2>1, <2>2 DEF IInv, RowInv, Rest, Git, Lost, Late, Closing, Standing, Registered
  <2>7. TaskOK(t)'
    BY <2>3, <2>5, TaskForward
  <2>8. (AddRuns => i'.st = "git_creating") /\ i'.st \notin Closing
    BY <2>1, <2>2 DEF IInv, FenceInv, Closing, Registered
  <2> QED
    BY <1>1, <2>1, <2>3, <2>4, <2>5, <2>6, <2>7, <2>8, StageMove DEF Rest
<1> QED
  BY <1>2, <1>3 DEF ready

LEMMA ReconcileStep ==
  ASSUME IInv, NEW c \in Callers, reconcile(c)
  PROVE  IInv'
<1>1. call[c].pc = "reconcile" /\ UNCHANGED <<Rows, Git, child, fork, parent, gen, forks>> /\ i.st \in Late
  BY Known DEF reconcile, At, PathOK
<1>2. \/ session # "none" /\ Goto(c, "ready") /\ session' = session
      \/ ~fork /\ session = "none" /\ proj = "worktree" /\ session' = "open" /\ Goto(c, "ready")
      \/ session' = session /\ (Done(c) \/ Fails(c) \/ Goto(c, "unknown"))
      \/ ~fork /\ session = "none" /\ proj = "worktree" /\ session' \in {"thread", "open"} /\ (Done(c) \/ Fails(c))
  BY DEF reconcile, Made
<1>3. CASE session' = session
  <2>1. Still
    BY <1>1, <1>3, UnmovedRows DEF Rest
  <2>2. CASE session # "none" /\ Goto(c, "ready")
    BY <1>1, <2>1, <2>2, QuietMove DEF PCs
  <2>3. CASE Goto(c, "unknown")
    BY <1>1, <2>1, <2>3, QuietMove DEF PCs
  <2>4. CASE Done(c) \/ Fails(c)
    BY <1>1, <2>1, <2>4, QuietEnd
  <2>5. CASE session = "none" /\ session' \in {"thread", "open"}
    BY <1>3, <2>5
  <2> QED
    BY <1>2, <2>2, <2>3, <2>4, <2>5
<1>4. CASE ~fork /\ session = "none" /\ proj = "worktree" /\ session' = "open" /\ Goto(c, "ready")
  <2>1. i.st \notin Closing
    BY <1>4 DEF IInv, RowInv
  <2>2. PICK t : Becomes(c, t) /\ t.pc = "ready" /\ Carries(c, t)
    BY <1>4, GoesTo DEF IInv, PCs
  <2>3. TypeInv'
    BY <1>1, <1>4, <2>2 DEF IInv, TypeInv, Becomes, Git, Rows
  <2>4. Forward
    BY <1>1, <1>4 DEF Forward, Lost, Rows
  <2>5. RowInv'
    BY <1>1, <1>4, <2>1 DEF IInv, RowInv, Git, Rows, Lost, Closing
  <2>6. SnapOK(t) /\ (t.comp => t.proj \/ Lost)
    BY <2>2, Carried DEF IInv, TaskInv
  <2>7. SnapOK(t)' /\ (t.comp => t.proj \/ Lost')
    BY <2>4, <2>6 DEF SnapOK, Forward
  <2>8. TaskOK(t)'
    BY <1>4, <2>2, <2>7 DEF TaskOK, PathOK, Removing
  <2>9. TaskInv'
    BY <2>2, <2>4, <2>8, TasksKept DEF IInv
  <2>10. MakeInv'
    <3>1. call'[c] = t /\ \A d \in Callers : d # c => call'[d] = call[d]
      BY <2>2 DEF Becomes, IInv, TypeInv
    <3>2. \A d \in Callers : call[d].pc # "refused"
      BY <1>4, Known DEF MakeOK
    <3>3. \A d \in Callers : call'[d].pc # "refused" /\ (call'[d].pc = "make" => call[d].pc = "make")
      BY <2>2, <3>1, <3>2
    <3> QED
      BY <1>1, <1>4, <3>3 DEF IInv, MakeInv, MakeOK
  <2>11. FenceInv'
    <3>1. AddRuns => i'.st = "git_creating"
      BY <1>1 DEF IInv, FenceInv, Rows
    <3> QED
      BY <1>1, <2>2, <3>1, FencesKept DEF IInv, Carries, Rows
  <2> QED
    BY <2>3, <2>5, <2>9, <2>10, <2>11 DEF IInv
<1>5. CASE /\ ~fork /\ session = "none" /\ proj = "worktree" /\ session' \in {"thread", "open"}
           /\ Done(c) \/ Fails(c)
  <2>1. i.st \notin Closing
    BY <1>5 DEF IInv, RowInv
  <2>2. PICK t : Becomes(c, t) /\ TaskOK(t) /\ t.pc \in {"idle", "intervene"} /\ t.fence \in {0, call[c].fence}
    BY <1>5, Leaves
  <2>3. TypeInv'
    BY <1>1, <1>5, <2>2 DEF IInv, TypeInv, Becomes, Git, Rows
  <2>4. Forward
    BY <1>1, <1>5 DEF Forward, Lost, Rows
  <2>5. RowInv'
    BY <1>1, <1>5, <2>1 DEF IInv, RowInv, Git, Rows, Lost, Closing
  <2>6. TaskOK(t)'
    BY <2>2, <2>4, TaskForward
  <2>7. TaskInv'
    BY <2>2, <2>4, <2>6, TasksKept DEF IInv
  <2>8. MakeInv'
    <3>1. call'[c] = t /\ \A d \in Callers : d # c => call'[d] = call[d]
      BY <2>2 DEF Becomes, IInv, TypeInv
    <3>2. \A d \in Callers : call[d].pc # "refused"
      BY <1>5, Known DEF MakeOK
    <3>3. \A d \in Callers : call'[d].pc # "refused" /\ (call'[d].pc = "make" => call[d].pc = "make")
      BY <2>2, <3>1, <3>2
    <3> QED
      BY <1>1, <1>5, <3>3 DEF IInv, MakeInv, MakeOK
  <2>9. FenceInv'
    <3>1. AddRuns => i'.st = "git_creating"
      BY <1>1 DEF IInv, FenceInv, Rows
    <3> QED
      BY <1>1, <2>2, <3>1, FencesKept DEF IInv, Rows
  <2> QED
    BY <2>3, <2>5, <2>7, <2>8, <2>9 DEF IInv
<1> QED
  BY <1>2, <1>3, <1>4, <1>5
-----------------------------------------------------------------------------
(***************************************************************************)
(* Closing and compensation                                                *)
(***************************************************************************)
LEMMA RemovalFailsStep ==
  ASSUME IInv, NEW c \in Callers, removal_fails(c)
  PROVE  IInv'
<1>1. /\ call[c].pc = "removed" /\ UNCHANGED <<proj, Git, child, Rest>> /\ i \in Intents /\ (Done(c) \/ Fails(c))
      /\ call[c].comp \/ i.proj
  BY Known DEF removal_fails, At, IInv, TypeInv, PathOK, Removing, SnapOK
<1>2. CASE i' = i /\ wt' = wt
  BY <1>1, <1>2, AdminSame, Unmoved, QuietEnd DEF IInv
<1>3. CASE /\ Marks("close_unknown") /\ wt' \in {wt, "close_unknown"}
           /\ i' = [i EXCEPT !.st = "close_unknown", !.err = IF call[c].comp THEN "compensation" ELSE "remove"]
  <2>1. /\ i' \in Intents /\ i'.st = "close_unknown" /\ i'.proj = i.proj /\ i'.fence = i.fence
        /\ i'.err # "compensation" => i.proj
    BY <1>1, <1>3 DEF Intents, States, Closing, Errors
  <2>2. i.st \in {"closing", "compensating", "close_unknown"}
    BY <1>3 DEF Marks, Predecessors
  <2>3. PICK t : Becomes(c, t) /\ TaskOK(t) /\ t.pc \in {"idle", "intervene"} /\ t.fence \in {0, call[c].fence}
    BY <1>1, Leaves
  <2>4. TypeInv'
    BY <1>1, <1>3, <2>1, <2>3 DEF IInv, TypeInv, Becomes, Git, Rest
  <2>5. Forward
    BY <1>1, <2>1, <2>2 DEF Forward, Lost, Rest, Late, Closing
  <2>6. RowInv'
    BY <1>1, <1>3, <2>1, <2>2 DEF IInv, RowInv, Rest, Git, Lost, Late, Closing, Standing, Registered
  <2>7. TaskOK(t)'
    BY <2>3, <2>5, TaskForward
  <2>8. (AddRuns => i'.st = "git_creating") /\ i.st \in Closing
    BY <2>1, <2>2 DEF IInv, FenceInv, Closing
  <2> QED
    BY <1>1, <2>1, <2>3, <2>4, <2>5, <2>6, <2>7, <2>8, StageMove DEF Rest
<1> QED
  BY <1>2, <1>3 DEF removal_fails

LEMMA FinishCloseStep ==
  ASSUME IInv, NEW c \in Callers, finish_close(c)
  PROVE  IInv'
<1>1. /\ call[c].pc = "removed" /\ UNCHANGED <<Git, child, Rest>> /\ i \in Intents /\ Done(c) /\ ~reg
      /\ i' = [i EXCEPT !.st = "closed"] /\ wt' = "closed" /\ proj' = "retired"
  BY DEF finish_close, At, IInv, TypeInv
<1>2. i.st \in Closing /\ i.proj /\ proj # "none"
  BY Known DEF finish_close, At, PathOK, Removing, SnapOK, IInv, RowInv
<1>3. i' \in Intents /\ i'.st = "closed" /\ i'.proj = i.proj /\ i'.fence = i.fence
  BY <1>1 DEF Intents, States, Closing
<1>4. PICK t : Becomes(c, t) /\ TaskOK(t) /\ t.pc \in {"idle", "intervene"} /\ t.fence \in {0, call[c].fence}
  BY <1>1, Leaves
<1>5. TypeInv'
  BY <1>1, <1>3, <1>4 DEF IInv, TypeInv, Becomes, Git, Rest
<1>6. Forward
  BY <1>1, <1>2, <1>3 DEF Forward, Lost, Rest, Late, Closing
<1>7. RowInv'
  BY <1>1, <1>2, <1>3 DEF IInv, RowInv, Rest, Git, Lost, Late, Closing, Standing, Registered
<1>8. TaskOK(t)'
  BY <1>4, <1>6, TaskForward
<1>9. AddRuns => i'.st = "git_creating"
  BY <1>2 DEF IInv, FenceInv, Closing
<1> QED
  BY <1>1, <1>2, <1>3, <1>4, <1>5, <1>6, <1>7, <1>8, <1>9, StageMove DEF Rest

LEMMA FinishCompensationStep ==
  ASSUME IInv, NEW c \in Callers, finish_compensation(c)
  PROVE  IInv'
<1>1. /\ call[c].pc = "removed" /\ UNCHANGED <<Git, child, Rest>> /\ i \in Intents /\ Done(c) /\ ~reg
      /\ wt' \in {"none", "compensated"}
      /\ i' = IF i.st \in {"compensating", "close_unknown"} THEN [i EXCEPT !.st = "compensated", !.err = "refused"]
              ELSE i
  BY DEF finish_compensation, At, IInv, TypeInv
<1>2. i.st \in Closing /\ (i.proj => proj # "none")
  BY <1>1, Known DEF PathOK, Removing, IInv, RowInv
<1>3. \/ proj' = "retired" /\ i.proj
      \/ proj' = proj /\ Lost
  BY Known DEF finish_compensation, CompensatedProject, PathOK, SnapOK
<1>4. /\ i' \in Intents /\ i'.proj = i.proj /\ i'.fence = i.fence /\ i'.st \in Closing
      /\ i'.st = "close_unknown" => FALSE
      /\ i'.st = "closing" => i.st = "closing"
  BY <1>1, <1>2 DEF Intents, States, Closing, Errors
<1>5. PICK t : Becomes(c, t) /\ TaskOK(t) /\ t.pc \in {"idle", "intervene"} /\ t.fence \in {0, call[c].fence}
  BY <1>1, Leaves
<1>6. TypeInv'
  BY <1>1, <1>3, <1>4, <1>5 DEF IInv, TypeInv, Becomes, Git, Rest
<1>7. Forward
  BY <1>1, <1>2, <1>3, <1>4 DEF Forward, Lost, Rest, Late
<1>8. RowInv'
  BY <1>1, <1>2, <1>3, <1>4 DEF IInv, RowInv, Rest, Git, Lost, Late, Closing, Standing, Registered
<1>9. TaskOK(t)'
  BY <1>5, <1>7, TaskForward
<1>10. AddRuns => i'.st = "git_creating"
  BY <1>2 DEF IInv, FenceInv, Closing
<1> QED
  BY <1>1, <1>2, <1>4, <1>5, <1>6, <1>7, <1>8, <1>9, <1>10, StageMove DEF Rest
-----------------------------------------------------------------------------
(***************************************************************************)
(* Time, processes, people                                                 *)
(***************************************************************************)
LEMMA LeaseLapsesStep ==
  ASSUME IInv, lease_lapses \/ retry_due
  PROVE  IInv'
<1>1. call' = call /\ UNCHANGED <<wt, proj, Git, child, Rest>> /\ i \in Intents
  BY DEF lease_lapses, retry_due, IInv, TypeInv
<1>2. Admin(i, i')
  BY <1>1 DEF lease_lapses, retry_due, Admin, Intents
<1>3. TypeInv' /\ Forward /\ RowInv'
  BY <1>1, <1>2, Unmoved, StillKeeps DEF IInv, TypeInv
<1>4. TaskInv'
  BY <1>1, <1>2 DEF IInv, TaskInv, TaskOK, SnapOK, PathOK, Removing, Lost, Rest, Admin
<1>5. MakeInv'
  BY <1>1, <1>2 DEF IInv, MakeInv, MakeOK, Rest, Admin
<1>6. FenceInv'
  BY <1>1, <1>2 DEF IInv, FenceInv, AddRuns, Kind, Adds, Admin
<1> QED
  BY <1>3, <1>4, <1>5, <1>6 DEF IInv

LEMMA StartStep ==
  ASSUME IInv, NEW killed \in BOOLEAN, start(killed)
  PROVE  IInv'
<1>1. i \in Intents /\ UNCHANGED <<fork, parent, wt, proj, Git, session, forks>> /\ gen' \in Nat
  BY DEF start, IInv, TypeInv
<1>2. /\ i' \in Intents /\ i'.st = i.st /\ i'.proj = i.proj /\ i'.fence = i.fence
      /\ i.st # "git_creating" => i' = i
  <2>1. CASE i.st # "git_creating"
    BY <1>1, <2>1 DEF start
  <2>2. CASE i.st = "git_creating"
    <3>1. PICK r \in {"later", "due"} : r = IF i.lease = "live" THEN "later" ELSE "due"
      OBVIOUS
    <3>2. i' = [i EXCEPT !.held = FALSE, !.retry = r, !.err = "stale"]
      BY <2>2, <3>1 DEF start
    <3> QED
      BY <1>1, <2>2, <3>1, <3>2 DEF Intents, Errors
  <2> QED
    BY <2>1, <2>2
<1>3. RowInv'
  BY <1>1, <1>2 DEF IInv, RowInv, Git, Lost, Closing
<1>4. CASE ~killed
  <2>1. call' = call /\ child' = child
    BY <1>4 DEF start
  <2>2. TypeInv'
    BY <1>1, <1>2, <2>1 DEF IInv, TypeInv, Git
  <2>3. TaskInv'
    BY <1>1, <1>2, <2>1 DEF IInv, TaskInv, TaskOK, SnapOK, PathOK, Removing, Lost
  <2>4. MakeInv'
    BY <1>1, <1>2, <2>1 DEF IInv, MakeInv, MakeOK
  <2>5. FenceInv'
    BY <1>1, <1>2, <2>1 DEF IInv, FenceInv, AddRuns, Kind, Adds
  <2> QED
    BY <1>3, <2>2, <2>3, <2>4, <2>5 DEF IInv
<1>5. CASE killed
  <2>1. call' = [c \in Callers |-> Idle]
    BY <1>5 DEF start
  <2>2. \A c \in Callers : call'[c] = Idle
    BY <2>1
  <2>3. /\ child' \in Children /\ child'.pc # "gated"
        /\ AddRuns' => AddRuns
        /\ child'.pc = "run" => child.pc = "run" /\ child'.kind = child.kind
    BY <1>5 DEF start, NoChild, AddRuns, Children, IInv, TypeInv
  <2>4. TypeInv'
    BY <1>1, <1>2, <2>1, <2>3, IdleIs DEF IInv, TypeInv, Git
  <2>5. TaskInv'
    <3>1. ASSUME NEW c \in Callers PROVE TaskOK(call[c])'
      BY <2>2, IdleIs DEF TaskOK, SnapOK, PathOK, Removing, Late, Closing, Registered
    <3> QED
      BY <3>1 DEF TaskInv
  <2>6. MakeInv'
    BY <2>2, IdleIs DEF MakeInv, MakeOK
  <2>7. FenceInv'
    <3>1. \A c \in Callers : call'[c].fence = 0 /\ call'[c].pc = "idle"
      BY <2>2, IdleIs
    <3>2. i'.fence \in Nat /\ 0 <= i'.fence
      BY <1>2 DEF Intents
    <3>3. AddRuns' => i'.st = "git_creating" /\ i'.fence # 0
      BY <1>2, <2>3 DEF IInv, FenceInv
    <3>4. child'.pc = "run" /\ ~AddRuns' => i'.st \in Closing
      BY <1>2, <2>3 DEF IInv, FenceInv, AddRuns
    <3> QED
      BY <2>3, <3>1, <3>2, <3>3, <3>4 DEF FenceInv
  <2> QED
    BY <1>3, <2>4, <2>5, <2>6, <2>7 DEF IInv
<1> QED
  BY <1>4, <1>5

\* A session is closed, or opened again in a project that is in use.
LEMMA SessionStep ==
  ASSUME IInv, user_closes_session \/ user_opens_session
  PROVE  IInv'
<1>1. UNCHANGED <<Rows, Git, child, call, fork, parent, gen, forks>>
  BY DEF user_closes_session, user_opens_session
<1>2. /\ session # "none" /\ session' \in {"open", "closed"}
      /\ session' = "open" => proj = "worktree"
  BY DEF user_closes_session, user_opens_session, SessionMayOpen
<1>3. TypeInv'
  BY <1>1, <1>2 DEF IInv, TypeInv, Rows, Git
<1>4. TaskInv'
  BY <1>1, <1>2 DEF IInv, TaskInv, TaskOK, SnapOK, PathOK, Removing, Lost, Rows
<1>5. MakeInv'
  BY <1>1, <1>2 DEF IInv, MakeInv, MakeOK, Rows
<1>6. FenceInv'
  BY <1>1 DEF IInv, FenceInv, AddRuns, Kind, Adds, Rows
<1>7. RowInv'
  BY <1>1, <1>2 DEF IInv, RowInv, Lost, Rows, Git
<1> QED
  BY <1>3, <1>4, <1>5, <1>6, <1>7 DEF IInv

LEMMA OutsideStep ==
  ASSUME IInv, user_deletes_branch \/ parent_stops
  PROVE  IInv'
<1>1. UNCHANGED <<Rows, reg, child, call, fork, gen, session, forks>>
  BY DEF user_deletes_branch, parent_stops, Rest, Git
<1>2. branch' \in BOOLEAN /\ parent' \in BOOLEAN /\ (~parent => ~parent')
  <2>1. CASE user_deletes_branch
    BY <2>1 DEF user_deletes_branch, Rest, IInv, TypeInv
  <2>2. CASE parent_stops
    BY <2>2 DEF parent_stops, Git, IInv, TypeInv
  <2> QED
    BY <2>1, <2>2
<1>3. TypeInv'
  BY <1>1, <1>2 DEF IInv, TypeInv, Rows
<1>4. Lost => Lost'
  BY <1>1, <1>2 DEF Lost, Rows
<1>5. TaskInv'
  BY <1>1, <1>4 DEF IInv, TaskInv, TaskOK, SnapOK, PathOK, Removing, Rows
<1>6. MakeInv'
  BY <1>1 DEF IInv, MakeInv, MakeOK, Rows
<1>7. FenceInv'
  BY <1>1 DEF IInv, FenceInv, AddRuns, Kind, Adds, Rows
<1>8. RowInv'
  BY <1>1, <1>4 DEF IInv, RowInv, Rows
<1> QED
  BY <1>3, <1>5, <1>6, <1>7, <1>8 DEF IInv
-----------------------------------------------------------------------------
(***************************************************************************)
(* The theorems                                                            *)
(***************************************************************************)
LEMMA Initially == Init => IInv
<1> SUFFICES ASSUME Init PROVE IInv
  OBVIOUS
<1>1. /\ NoIntent \in Intents /\ NoIntent.st = "none" /\ ~NoIntent.proj /\ NoIntent.fence = 0
      /\ NoChild \in Children /\ NoChild.pc = "none"
  BY DEF NoIntent, Intents, States, Errors, NoChild, Children
<1>2. /\ i = NoIntent /\ child = NoChild /\ call = [c \in Callers |-> Idle] /\ wt = "none" /\ proj = "none"
      /\ reg = FALSE /\ branch = FALSE /\ session = "none" /\ forks = 0 /\ gen = 1 /\ fork \in BOOLEAN
      /\ parent = TRUE
  BY DEF Init
<1>3. \A c \in Callers : call[c] = Idle
  BY <1>2
<1>4. TypeInv
  BY <1>1, <1>2, IdleIs DEF TypeInv
<1>5. TaskInv
  BY <1>3, IdleOK DEF TaskInv
<1>6. MakeInv
  BY <1>3, IdleIs DEF MakeInv, MakeOK
<1>7. FenceInv
  BY <1>1, <1>2, <1>3, IdleIs DEF FenceInv, AddRuns
<1>8. RowInv
  BY <1>1, <1>2 DEF RowInv, Registered, Standing, Closing, Late
<1> QED
  BY <1>4, <1>5, <1>6, <1>7, <1>8 DEF IInv

LEMMA Kept == IInv /\ [Next]_vars => IInv'
<1> SUFFICES ASSUME IInv, [Next]_vars PROVE IInv'
  OBVIOUS
<1>1. CASE UNCHANGED vars
  <2>1. TypeInv' /\ MakeInv' /\ RowInv'
    BY <1>1 DEF vars, IInv, TypeInv, MakeInv, MakeOK, RowInv, Lost
  <2>2. TaskInv'
    BY <1>1 DEF vars, IInv, TaskInv, TaskOK, SnapOK, PathOK, Removing, Lost
  <2>3. FenceInv'
    BY <1>1 DEF vars, IInv, FenceInv, AddRuns, Kind, Adds
  <2> QED
    BY <2>1, <2>2, <2>3 DEF IInv
<1>2. ASSUME NEW c \in Callers,
             create(c) \/ close(c) \/ recover(c) \/ recover_pass(c) \/ intervene(c) \/ resume(c) \/ claim(c)
      PROVE  IInv'
  BY <1>2, CreateStep, CloseStep, RecoverStep, RecoverPassStep, InterveneStep, ResumeStep, ClaimStep
<1>3. ASSUME NEW c \in Callers,
             inspect(c) \/ launch(c) \/ record_started(c) \/ child_reaped(c) \/ renew(c) \/ settle(c)
      PROVE  IInv'
  BY <1>3, InspectStep, LaunchStep, RecordStartedStep, ChildReapedStep, RenewStep, SettleStep
<1>4. ASSUME NEW c \in Callers,
             register(c) \/ registered(c) \/ target(c) \/ make(c) \/ target_unknown(c) \/ target_refused(c)
      PROVE  IInv'
  BY <1>4, RegisterStep, RegisteredStep, TargetStep, MakeStep, TargetUnknownStep, TargetRefusedStep
<1>5. ASSUME NEW c \in Callers,
             ready(c) \/ reconcile(c) \/ reconcile_lost(c) \/ revalidate(c)
      PROVE  IInv'
  BY <1>5, ReadyStep, ReconcileStep, ReconcileLostStep, RevalidateStep
<1>6. ASSUME NEW c \in Callers,
             remove(c) \/ removal_fails(c) \/ finish_close(c) \/ finish_compensation(c)
      PROVE  IInv'
  BY <1>6, RemoveStep, RemovalFailsStep, FinishCloseStep, FinishCompensationStep
<1>7. CASE \E outcome \in {"ok", "partial", "fails"} : child_ends(outcome)
  BY <1>7, ChildEndsStep
<1>8. CASE \E killed \in BOOLEAN : start(killed)
  BY <1>8, StartStep
<1>9. CASE lease_lapses \/ retry_due \/ user_closes_session \/ user_opens_session \/ user_deletes_branch \/ parent_stops
  BY <1>9, LeaseLapsesStep, SessionStep, OutsideStep
<1> QED
  BY <1>1, <1>2, <1>3, <1>4, <1>5, <1>6, <1>7, <1>8, <1>9 DEF Next

\* The intent, the rows, git and the callers keep their inductive invariant: a claim, a git process and
\* the creation of the target are one caller's, and what a caller remembers is the past of the intent.
THEOREM Invariance == Spec => []IInv
<1> QED
  BY Initially, Kept, PTL DEF Spec

\* _run_owned_git_mutation, _settle_git_creation, _mark_intent: a git add that runs is awaited by its
\* intent, and sessions.fork is called at most once, for any number of callers, restarts and faults.
THEOREM GitIsDoneOnce == Spec => []GitOnce
<1>1. IInv => GitOnce
  BY DEF IInv, FenceInv, AddRuns, RowInv, GitOnce, AddIsAwaited, ForkOnce
<1> QED
  BY <1>1, Invariance, PTL

\* _mark_ready, _finish_close, _finish_compensation: a worktree that is ready is whole, one that is
\* closed or compensated is gone for good, and an open session has its directory.
THEOREM DirectoriesAreTrue == Spec => []DirectoryTrue
<1>1. ASSUME IInv PROVE DirectoryTrue
  <2>1. ReadyIsWhole
    BY <1>1 DEF IInv, RowInv, ReadyIsWhole, Standing, Registered
  <2>2. GoneIsGone
    BY <1>1 DEF IInv, RowInv, FenceInv, AddRuns, GoneIsGone, Lost
  <2>3. SessionHasDirectory
    BY <1>1 DEF IInv, RowInv, SessionHasDirectory, Late, Standing, Registered, Closing
  <2> QED
    BY <2>1, <2>2, <2>3 DEF DirectoryTrue
<1> QED
  BY <1>1, Invariance, PTL

\* _mark_intent, _claim_git_creation, _reserve_intent: an intent whose target is being made, or that is
\* being taken down, never returns to an earlier stage, whatever a late caller still believes.
Onwards == (i.st \in Late => i'.st \in Late) /\ (i.st \in Closing => i'.st \in Closing)
NoReturn == [][Onwards]_vars

LEMMA StepsGoOn == IInv /\ [Next]_vars => Onwards
<1> SUFFICES ASSUME IInv, [Next]_vars PROVE Onwards
  OBVIOUS
<1>1. i \in Intents
  BY DEF IInv, TypeInv
<1>2. CASE i'.st = i.st
  BY <1>2 DEF Onwards
<1>3. CASE i.st \notin Late
  BY <1>3 DEF Onwards, Late
<1>4. CASE i'.st \in Closing
  BY <1>4 DEF Onwards, Late
<1>5. CASE i.st \notin Closing /\ i'.st \in Late
  BY <1>5 DEF Onwards
<1>6. ASSUME NEW c \in Callers,
             \/ recover(c) \/ resume(c) \/ renew(c) \/ make(c) \/ reconcile(c) \/ reconcile_lost(c)
             \/ revalidate(c) \/ remove(c)
      PROVE  Onwards
  BY <1>2, <1>6 DEF recover, resume, renew, make, reconcile, reconcile_lost, revalidate, remove, Rows
<1>7. ASSUME NEW c \in Callers, create(c) PROVE Onwards
  <2>1. i' = i \/ i.st \in {"none", "failed"}
    BY <1>7, ReservedIs DEF create, IInv
  <2> QED
    BY <1>2, <1>3, <2>1 DEF Late, Closing
<1>8. ASSUME NEW c \in Callers, close(c) PROVE Onwards
  BY <1>1, <1>4, <1>8 DEF close, Intents, Closing
<1>9. ASSUME NEW c \in Callers, recover_pass(c) \/ launch(c) \/ child_reaped(c) \/ record_started(c) \/ intervene(c)
      PROVE  Onwards
  <2>1. /\ Postponed(i).st = i.st /\ Forgotten(i, call[c].snap.token).st = i.st /\ Forgotten(i, i.token).st = i.st
        /\ Admin(i, Abandoned(c, "later")) /\ Admin(i, Abandoned(c, "due"))
    BY <1>1, PostponedIs, ForgottenIs, AbandonedIs DEF Admin, IInv
  <2>2. Postponed(Abandoned(c, "later")).st = i.st /\ Abandoned(c, "due").st = i.st
    BY <2>1, PostponedIs DEF Admin
  <2>3. \A x : [i EXCEPT !.token = x].st = i.st /\ [i EXCEPT !.err = x].st = i.st
    BY <1>1 DEF Intents
  <2>4. i'.st = i.st
    <3>1. CASE recover_pass(c)
      BY <2>1, <3>1 DEF recover_pass
    <3>2. CASE launch(c)
      BY <2>1, <2>2, <3>2 DEF launch
    <3>3. CASE child_reaped(c)
      BY <2>3, <3>3 DEF child_reaped
    <3>4. CASE record_started(c)
      BY <2>2, <2>3, <3>4 DEF record_started
    <3>5. CASE intervene(c)
      BY <1>1, <3>5 DEF intervene, Intents
    <3> QED
      BY <1>9, <3>1, <3>2, <3>3, <3>4, <3>5
  <2> QED
    BY <1>2, <2>4
<1>10. ASSUME NEW c \in Callers, claim(c) PROVE Onwards
  <2>1. Postponed(i).st = i.st /\ Forgotten(i, i.token).st = i.st
    BY <1>1, PostponedIs, ForgottenIs DEF Admin
  <2>2. i'.st = i.st \/ Claimable(call[c].gen)
    BY <1>10, <2>1 DEF claim
  <2> QED
    BY <1>2, <1>3, <2>2 DEF Claimable, Late, Closing
<1>11. ASSUME NEW c \in Callers, inspect(c) \/ settle(c) PROVE Onwards
  <2>1. i' = i \/ Holds(c)
    BY <1>11 DEF inspect, settle, Settle
  <2> QED
    BY <1>2, <1>3, <2>1 DEF Holds, Late, Closing
<1>12. ASSUME NEW c \in Callers, register(c) \/ target_refused(c) \/ removal_fails(c) PROVE Onwards
  <2>1. i' = i \/ i'.st \in {"compensating", "close_unknown"}
    BY <1>1, <1>12 DEF register, target_refused, removal_fails, Intents
  <2> QED
    BY <1>2, <1>4, <2>1 DEF Closing
<1>13. ASSUME NEW c \in Callers, registered(c) \/ target(c) PROVE Onwards
  <2>1. i' = i \/ i.st \in {"git_created", "project_registered"}
    BY <1>13 DEF registered, target, Marks, Predecessors
  <2> QED
    BY <1>2, <1>3, <2>1 DEF Late, Closing
<1>14. ASSUME NEW c \in Callers, target_unknown(c) \/ ready(c) PROVE Onwards
  <2>1. \/ i' = i
        \/ i.st \in Registered /\ i'.st \in {"target_unknown", "ready"}
    BY <1>1, <1>14 DEF target_unknown, ready, MayBeReady, Marks, Predecessors, Registered, Intents
  <2> QED
    BY <1>2, <1>5, <2>1 DEF Late, Closing, Registered
<1>15. ASSUME NEW c \in Callers, finish_close(c) \/ finish_compensation(c) PROVE Onwards
  <2>1. i' = i \/ i'.st \in {"closed", "compensated"}
    BY <1>1, <1>15 DEF finish_close, finish_compensation, Intents
  <2> QED
    BY <1>2, <1>4, <2>1 DEF Closing
<1>16. CASE \/ \E outcome \in {"ok", "partial", "fails"} : child_ends(outcome)
            \/ user_closes_session \/ user_opens_session \/ user_deletes_branch \/ parent_stops \/ UNCHANGED vars
  BY <1>2, <1>16 DEF child_ends, user_closes_session, user_opens_session, user_deletes_branch, parent_stops, vars, Rows
<1>17. CASE lease_lapses \/ retry_due \/ \E killed \in BOOLEAN : start(killed)
  BY <1>1, <1>2, <1>17 DEF lease_lapses, retry_due, start, Intents
<1> QED
  BY <1>6, <1>7, <1>8, <1>9, <1>10, <1>11, <1>12, <1>13, <1>14, <1>15, <1>16, <1>17 DEF Next

\* NoReturn holds of every behaviour: the git creation, the project and the fork are never begun again
\* by a command or a recovery pass that listed the intent too early.
THEOREM StagesAreNotRepeated == Spec => NoReturn
<1>1. IInv /\ [Next]_vars => [Onwards]_vars
  BY StepsGoOn
<1> QED
  BY <1>1, Invariance, PTL DEF Spec, NoReturn
-----------------------------------------------------------------------------
(***************************************************************************)
(* The plans of a schedule: the inductive invariant                        *)
(***************************************************************************)
\* What parse_schedule accepts.
IsExpression(d) ==
  \/ \E u \in Times : d = [kind |-> "at", at |-> u]
  \/ \E n \in Intervals, a \in 0..MaxClock : d = [kind |-> "interval", interval |-> n, anchor |-> a]
  \/ \E c \in Crons, z \in Zones : d = [kind |-> "cron", cron |-> c, zone |-> z]

\* The expression d is due at the time u.
Due(d, u) ==
  CASE d.kind = "at" -> u = d.at
    [] d.kind = "interval" -> u >= d.anchor /\ (u - d.anchor) % d.interval = 0
    [] d.kind = "cron" -> Wall(d.zone, u) \in d.cron

\* x is the first time after t at which d is due, or None when there is none.
IsFirst(x, d, t) ==
  \/ x = None /\ \A u \in Int : Due(d, u) => u <= t
  \/ x \in Int /\ x > t /\ Due(d, x) /\ \A u \in Int : Due(d, u) /\ u > t => u >= x

\* The inductive invariant: the next run is the first after the time it was looked for, the runs are
\* times at which the definition was due, and under the policy "latest" none between the creation and
\* the next run is left without a run for it or for a later one.
PlansInv ==
  /\ clock \in 0..MaxClock
  /\ state \in {"none", "enabled", "disabled", "deleted"}
  /\ state = "none" => def = None /\ runs = {}
  /\ state # "none" =>
       /\ IsExpression(def.parsed) /\ asked \in 0..MaxClock
       /\ IsFirst(nextRun, def.parsed, asked)
       /\ \A r \in runs : r \in Times /\ Due(def.parsed, r)
       /\ def.grace = None =>
            \A u \in Int : Due(def.parsed, u) /\ u > def.created /\ (nextRun = None \/ u < nextRun)
                             => \E r \in runs : r >= u
  /\ DeletedIsQuiet
-----------------------------------------------------------------------------
(***************************************************************************)
(* The least and the greatest member of a set of times                     *)
(***************************************************************************)
LEMMA LeastIs ==
  ASSUME NEW S \in SUBSET Int, NEW x \in S, \A y \in S : x <= y
  PROVE  Min(S) = x
<1>1. \E m \in S : \A y \in S : m <= y
  OBVIOUS
<1>2. Min(S) \in S /\ \A y \in S : Min(S) <= y
  BY <1>1 DEF Min
<1>3. Min(S) <= x /\ x <= Min(S) /\ x \in Int /\ Min(S) \in Int
  BY <1>2
<1>. QED
  BY <1>3

LEMMA GreatestIs ==
  ASSUME NEW S \in SUBSET Int, NEW x \in S, \A y \in S : x >= y
  PROVE  Max(S) = x
<1>1. \E m \in S : \A y \in S : m >= y
  OBVIOUS
<1>2. Max(S) \in S /\ \A y \in S : Max(S) >= y
  BY <1>1 DEF Max
<1>3. Max(S) >= x /\ x >= Max(S) /\ x \in Int /\ Max(S) \in Int
  BY <1>2
<1>. QED
  BY <1>3

LEMMA LeastExists ==
  ASSUME NEW S \in SUBSET Int, S # {}, NEW b \in Int, \A y \in S : y >= b
  PROVE  Min(S) \in S /\ \A y \in S : Min(S) <= y
<1>. DEFINE D == {y - b : y \in S}
<1>1. D \in SUBSET Nat /\ D # {}
  <2>1. \A y \in S : y - b \in Nat
    OBVIOUS
  <2>. QED
    BY <2>1
<1>2. PICK d \in D : \A e \in D : ~(e < d)
  <2>1. IsWellFoundedOn(OpToRel(<, Nat), Nat)
    BY NatLessThanWellFounded
  <2>2. PICK d \in D : \A e \in D : ~(<<e, d>> \in OpToRel(<, Nat))
    BY <1>1, <2>1, WFMin
  <2>3. \A e \in D : ~(e < d)
    BY <1>1, <2>2 DEF OpToRel
  <2>. QED
    BY <2>3
<1>3. PICK x \in S : d = x - b
  BY <1>2
<1>4. ASSUME NEW y \in S PROVE x <= y
  <2>1. y - b \in D /\ x \in Int /\ y \in Int
    OBVIOUS
  <2>2. ~(y - b < x - b)
    BY <1>2, <1>3, <2>1
  <2>. QED
    BY <2>1, <2>2
<1>5. Min(S) = x
  BY <1>4, LeastIs
<1>. QED
  BY <1>4, <1>5

LEMMA GreatestExists ==
  ASSUME NEW S \in SUBSET Int, S # {}, NEW b \in Int, \A y \in S : y <= b
  PROVE  Max(S) \in S /\ \A y \in S : Max(S) >= y
<1>. DEFINE D == {0 - y : y \in S}
<1>1. D \in SUBSET Int /\ D # {} /\ \A e \in D : e >= 0 - b
  <2>1. \A y \in S : 0 - y \in Int /\ 0 - y >= 0 - b
    OBVIOUS
  <2>. QED
    BY <2>1
<1>2. Min(D) \in D /\ \A e \in D : Min(D) <= e
  <2>. HIDE DEF D
  <2>1. 0 - b \in Int
    OBVIOUS
  <2>. QED
    BY <1>1, <2>1, LeastExists
<1>3. PICK x \in S : Min(D) = 0 - x
  BY <1>2
<1>4. ASSUME NEW y \in S PROVE x >= y
  <2>1. 0 - y \in D /\ x \in Int /\ y \in Int
    OBVIOUS
  <2>2. 0 - x <= 0 - y
    BY <1>2, <1>3, <2>1
  <2>. QED
    BY <2>1, <2>2
<1>5. Max(S) = x
  BY <1>4, GreatestIs
<1>. QED
  BY <1>4, <1>5

-----------------------------------------------------------------------------
(***************************************************************************)
(* Wall time                                                               *)
(***************************************************************************)
LEMMA ZoneType ==
  ASSUME NEW z \in Zones
  PROVE  z.change \in Int /\ z.before \in Int /\ z.after \in Int
BY PlansAssumption

LEMMA WallType ==
  ASSUME NEW z \in Zones, NEW u \in Int
  PROVE  Wall(z, u) \in Int
BY ZoneType DEF Wall

\* _resolve_wall_time finds every UTC time that shows the wall time.
LEMMA ResolveIs ==
  ASSUME NEW z \in Zones, NEW w \in Int
  PROVE  Resolve(z, w) = {u \in Int : Wall(z, u) = w}
BY ZoneType DEF Resolve, Wall

\* Wall time runs back only over the change of the offset.
LEMMA WallBack ==
  ASSUME NEW z \in Zones, NEW u \in Int, NEW v \in Int, u < v, Wall(z, v) <= Wall(z, u)
  PROVE  /\ u < z.change /\ z.change <= v
         /\ Wall(z, u) = u + z.before /\ Wall(z, v) = v + z.after
BY ZoneType DEF Wall

LEMMA ResolveEnds ==
  ASSUME NEW z \in Zones, NEW w \in Int, NEW S \in SUBSET Resolve(z, w), S # {}
  PROVE  /\ Min(S) \in S /\ \A u \in S : Min(S) <= u
         /\ Max(S) \in S /\ \A u \in S : Max(S) >= u
<1>1. S \in SUBSET Int
  BY ResolveIs
<1>2. \A u \in S : u = w - z.before \/ u = w - z.after
  BY DEF Resolve
<1>3. w - z.before \in Int /\ w - z.after \in Int
  BY ZoneType
<1>4. PICK b \in Int : \A u \in S : u <= b
  BY <1>1, <1>2, <1>3
<1>5. PICK a \in Int : \A u \in S : u >= a
  <2>1. CASE w - z.before <= w - z.after
    <3>1. \A u \in S : u >= w - z.before
      BY <1>1, <1>2, <1>3, <2>1
    <3>. QED
      BY <1>3, <3>1
  <2>2. CASE w - z.after <= w - z.before
    BY <1>1, <1>2, <1>3, <2>2
  <2>. QED
    BY <1>3, <2>1, <2>2
<1>. QED
  BY <1>1, <1>4, <1>5, LeastExists, GreatestExists

\* The window is the length of the fold that the time lies in.
LEMMA WindowIs ==
  ASSUME NEW z \in Zones, NEW u \in Int
  PROVE  /\ OverlapWindow(z, u) \in Int /\ OverlapWindow(z, u) >= 0
         /\ \A v, w \in Int : v < w /\ Wall(z, v) = Wall(z, u) /\ Wall(z, w) = Wall(z, u)
               => OverlapWindow(z, u) = w - v
<1>. DEFINE folds == Resolve(z, Wall(z, u))
<1>1. Wall(z, u) \in Int /\ folds = {v \in Int : Wall(z, v) = Wall(z, u)}
  BY WallType, ResolveIs
<1>2. OverlapWindow(z, u) = Max(folds) - Min(folds)
  BY DEF OverlapWindow
<1>3. folds \in SUBSET Int /\ u \in folds
  BY <1>1
<1>4. \A v \in folds : v = Wall(z, u) - z.before \/ v = Wall(z, u) - z.after
  BY DEF Resolve
<1>5. /\ Min(folds) \in folds /\ \A v \in folds : Min(folds) <= v
      /\ Max(folds) \in folds /\ \A v \in folds : Max(folds) >= v
  <2>1. folds \in SUBSET Resolve(z, Wall(z, u)) /\ folds # {}
    BY <1>3
  <2>. HIDE DEF folds
  <2>. QED
    BY <1>1, <2>1, ResolveEnds
<1>. HIDE DEF folds
<1>6. Max(folds) \in Int /\ Min(folds) \in Int /\ Max(folds) >= Min(folds)
  BY <1>3, <1>5
<1>7. ASSUME NEW v \in Int, NEW w \in Int, v < w, Wall(z, v) = Wall(z, u), Wall(z, w) = Wall(z, u)
      PROVE  Max(folds) = w /\ Min(folds) = v
  <2>1. v \in folds /\ w \in folds
    BY <1>1, <1>7
  <2>2. \A x \in folds : x = v \/ x = w
    BY <1>4, <1>7, <2>1
  <2>. QED
    BY <1>5, <1>6, <1>7, <2>1, <2>2
<1>. QED
  BY <1>2, <1>6, <1>7

LEMMA MinuteIs ==
  ASSUME NEW w \in Int
  PROVE  Minute(w) \in Int /\ Minute(w) <= w /\ w <= Minute(w) + 1
BY DEF Minute

-----------------------------------------------------------------------------
(***************************************************************************)
(* The search through wall times                                           *)
(***************************************************************************)
\* A time ahead shows a wall time that _cron_next tries.
LEMMA AheadIsTried ==
  ASSUME NEW z \in Zones, NEW after \in Int, NEW u \in Int, u > after
  PROVE  Wall(z, u) > Minute(Wall(z, after)) - OverlapWindow(z, after)
<1>. DEFINE window == OverlapWindow(z, after)
            wall == Wall(z, after)
<1>. SUFFICES Wall(z, u) > Minute(wall) - window
  OBVIOUS
<1>1. wall \in Int /\ Wall(z, u) \in Int /\ Minute(wall) \in Int /\ Minute(wall) <= wall
  BY WallType, MinuteIs
<1>2. window \in Int /\ window >= 0
  BY WindowIs
<1>3. CASE Wall(z, u) > wall
  <2>. HIDE DEF window, wall
  <2>. QED
    BY <1>1, <1>2, <1>3
<1>4. CASE Wall(z, u) <= wall
  <2>1. /\ after < z.change /\ z.change <= u
        /\ wall = after + z.before /\ Wall(z, u) = u + z.after
    BY <1>4, WallBack
  <2>2. Wall(z, wall - z.after) = wall /\ after < wall - z.after /\ wall - z.after \in Int
    BY <1>1, <1>4, <2>1, ZoneType DEF Wall
  <2>3. window = wall - z.after - after
    BY <2>2, WindowIs
  <2>. HIDE DEF window, wall
  <2>. QED
    BY <1>1, <2>1, <2>3, ZoneType
<1>. QED
  BY <1>1, <1>3, <1>4

\* _cron_next returns the first UTC time after the given one that shows a wall time of the expression,
\* in a gap, in a fold and outside of both: no wall time that ends the search lies before it.
LEMMA CronNextIsFirst ==
  ASSUME NEW cron \in Crons, NEW z \in Zones, NEW after \in Int
  PROVE  \/ /\ CronNext(cron, z, after) = None
            /\ \A u \in Int : Wall(z, u) \in cron => u <= after
         \/ /\ CronNext(cron, z, after) \in Int /\ CronNext(cron, z, after) > after
            /\ Wall(z, CronNext(cron, z, after)) \in cron
            /\ \A u \in Int : Wall(z, u) \in cron /\ u > after => u >= CronNext(cron, z, after)
<1>. DEFINE local == Minute(Wall(z, after))
            window == OverlapWindow(z, after)
            tried == {w \in cron : w > local - window}
            future(w) == {u \in Resolve(z, w) : u > after}
            hits == {w \in tried : future(w) # {}}
            ends == {w \in tried : \/ w \in hits /\ Min(future(w)) = Min(Resolve(z, w))
                                   \/ w > local + window /\ \E h \in hits : h <= w}
            last == IF ends = {} THEN Max(tried) ELSE Min(ends)
            picked == UNION {future(h) : h \in {w \in hits : w <= last}}
            ahead == {u \in Int : u > after /\ Wall(z, u) \in cron}
<1>1. CronNext(cron, z, after) = IF hits = {} THEN None ELSE Min(picked)
  BY DEF CronNext
<1>2. cron \subseteq 0..Horizon /\ Horizon \in Nat /\ cron \subseteq Int
  BY PlansAssumption
<1>3. /\ local \in Int /\ local <= Wall(z, after) /\ Wall(z, after) <= local + 1
      /\ window \in Int /\ window >= 0
  BY WallType, MinuteIs, WindowIs
<1>4. ASSUME NEW w \in cron PROVE future(w) = {u \in Int : u > after /\ Wall(z, u) = w}
  BY <1>2, ResolveIs
<1>5. \A u \in ahead : Wall(z, u) \in hits /\ u \in future(Wall(z, u))
  <2>. SUFFICES ASSUME NEW u \in ahead
                PROVE  Wall(z, u) \in hits /\ u \in future(Wall(z, u))
    OBVIOUS
  <2>1. u \in Int /\ u > after /\ Wall(z, u) \in cron
    OBVIOUS
  <2>2. u \in future(Wall(z, u))
    BY <1>4, <2>1
  <2>3. Wall(z, u) \in tried
    BY <2>1, AheadIsTried
  <2>. QED
    BY <2>2, <2>3
<1>6. \A w \in hits : \A u \in future(w) : u \in ahead /\ Wall(z, u) = w
  BY <1>4
<1>7. CASE ahead = {}
  <2>1. hits = {}
    BY <1>6, <1>7
  <2>2. \A u \in Int : Wall(z, u) \in cron => u <= after
    BY <1>7
  <2>. QED
    BY <1>1, <2>1, <2>2
<1>8. CASE ahead # {}
  <2>1. PICK first \in ahead : \A u \in ahead : first <= u
    <3>1. ahead \in SUBSET Int /\ \A u \in ahead : u >= after
      OBVIOUS
    <3>. HIDE DEF ahead
    <3>. QED
      BY <1>8, <3>1, LeastExists
  <2>2. first \in Int /\ first > after /\ Wall(z, first) \in cron /\ Wall(z, first) \in Int
    BY WallType
  <2>3. ASSUME NEW e \in ends, e < Wall(z, first) PROVE FALSE
    <3>1. e \in Int /\ e \in cron
      BY <1>2
    <3>2. ASSUME NEW v \in ahead, Wall(z, v) <= e
          PROVE  /\ first < z.change /\ z.change <= v /\ Wall(z, v) = v + z.after
                 /\ Wall(z, first) = first + z.before
      <4>1. v \in Int /\ first <= v /\ Wall(z, v) \in Int
        BY <2>1, WallType
      <4>2. first # v /\ Wall(z, v) <= Wall(z, first)
        BY <2>2, <2>3, <3>1, <3>2, <4>1
      <4>. QED
        BY <2>2, <4>1, <4>2, WallBack
    <3>3. ASSUME NEW v \in ahead, Wall(z, v) <= e
          PROVE  /\ e - z.before \in Int /\ e - z.before < first
                 /\ Wall(z, e - z.before) = e /\ e - z.before <= after
      <4>1. e - z.before \in Int /\ e - z.before < first /\ e - z.before < z.change
        BY <2>2, <2>3, <3>1, <3>2, <3>3, ZoneType
      <4>2. Wall(z, e - z.before) = e
        BY <3>1, <4>1, ZoneType DEF Wall
      <4>3. e - z.before \notin ahead
        BY <2>1, <2>2, <4>1
      <4>. QED
        BY <3>1, <4>1, <4>2, <4>3
    <3>4. CASE e \in hits /\ Min(future(e)) = Min(Resolve(z, e))
      <4>1. future(e) \in SUBSET Resolve(z, e) /\ future(e) # {} /\ Resolve(z, e) # {}
        BY <3>4
      <4>2. Min(future(e)) \in future(e)
        BY <3>1, <4>1, ResolveEnds
      <4>3. Min(future(e)) \in ahead /\ Wall(z, Min(future(e))) = e
        BY <1>6, <3>4, <4>2
      <4>4. e - z.before \in Int /\ Wall(z, e - z.before) = e /\ e - z.before <= after
        BY <3>1, <3>3, <4>3
      <4>5. e - z.before \in Resolve(z, e)
        BY <3>1, <4>4, ResolveIs
      <4>6. Min(Resolve(z, e)) <= e - z.before
        BY <3>1, <4>1, <4>5, ResolveEnds
      <4>. QED
        BY <3>4, <4>3, <4>4, <4>6
    <3>5. CASE e > local + window /\ \E h \in hits : h <= e
      <4>1. PICK v \in ahead : Wall(z, v) <= e
        BY <1>6, <3>5
      <4>2. /\ first < z.change /\ z.change <= v /\ Wall(z, v) = v + z.after /\ v \in Int
            /\ e - z.before \in Int /\ e - z.before < first
            /\ Wall(z, e - z.before) = e /\ e - z.before <= after
        BY <3>2, <3>3, <4>1
      <4>3. Wall(z, after) = after + z.before
        BY <2>2, <4>2, ZoneType DEF Wall
      <4>4. /\ after < Wall(z, after) - z.after /\ Wall(z, after) - z.after \in Int
            /\ Wall(z, Wall(z, after) - z.after) = Wall(z, after)
        BY <2>2, <3>1, <4>1, <4>2, <4>3, ZoneType DEF Wall
      <4>5. window = Wall(z, after) - z.after - after
        BY <4>4, WindowIs
      <4>6. window >= 1
        BY <4>4, <4>5
      <4>. HIDE DEF window, local
      <4>. QED
        BY <1>3, <3>1, <3>5, <4>2, <4>3, <4>6, ZoneType
    <3>. QED
      BY <3>4, <3>5
  <2>4. Wall(z, first) <= last
    <3>1. Wall(z, first) \in tried /\ tried \in SUBSET Int /\ \A w \in tried : w <= Horizon /\ w >= 0
      <4>1. Wall(z, first) \in tried
        BY <1>5
      <4>2. \A w \in cron : w \in Int /\ w <= Horizon /\ w >= 0
        BY <1>2
      <4>. QED
        BY <4>1, <4>2
    <3>2. CASE ends = {}
      <4>1. last = Max(tried)
        BY <3>2
      <4>2. Max(tried) >= Wall(z, first) /\ Max(tried) \in Int
        <5>. HIDE DEF tried
        <5>1. tried # {} /\ Horizon \in Int
          BY <1>2, <3>1
        <5>2. Max(tried) \in tried /\ \A w \in tried : Max(tried) >= w
          BY <3>1, <5>1, GreatestExists
        <5>. QED
          BY <3>1, <5>2
      <4>. HIDE DEF last
      <4>. QED
        BY <2>2, <4>1, <4>2
    <3>3. CASE ends # {}
      <4>1. last = Min(ends) /\ ends \in SUBSET Int /\ \A w \in ends : w >= 0
        BY <3>1, <3>3
      <4>2. Min(ends) \in ends /\ Min(ends) \in Int
        <5>. HIDE DEF ends, last
        <5>1. 0 \in Int
          OBVIOUS
        <5>2. Min(ends) \in ends
          BY <3>3, <4>1, <5>1, LeastExists
        <5>. QED
          BY <4>1, <5>2
      <4>. HIDE DEF ends, last
      <4>. QED
        BY <2>2, <2>3, <4>1, <4>2
    <3>. QED
      BY <3>2, <3>3
  <2>5. first \in picked
    BY <1>5, <2>4
  <2>6. picked \subseteq ahead
    BY <1>6
  <2>7. Min(picked) = first
    <3>1. picked \in SUBSET Int /\ \A u \in picked : first <= u
      BY <2>1, <2>6
    <3>. HIDE DEF picked
    <3>. QED
      BY <2>5, <3>1, LeastIs
  <2>8. hits # {}
    BY <1>5
  <2>9. CronNext(cron, z, after) = first
    BY <1>1, <2>7, <2>8
  <2>10. \A u \in Int : Wall(z, u) \in cron /\ u > after => u >= first
    BY <2>1, <2>2
  <2>. QED
    BY <2>2, <2>9, <2>10
<1>. QED
  BY <1>7, <1>8

\* A time passed shows a wall time that _cron_previous_or_at tries.
LEMMA PastIsTried ==
  ASSUME NEW z \in Zones, NEW through \in Int, NEW u \in Int, u <= through
  PROVE  Wall(z, u) < Minute(Wall(z, through)) + OverlapWindow(z, through) + 2
<1>. DEFINE window == OverlapWindow(z, through)
            wall == Wall(z, through)
<1>. SUFFICES Wall(z, u) < Minute(wall) + window + 2
  OBVIOUS
<1>1. wall \in Int /\ Wall(z, u) \in Int /\ Minute(wall) \in Int /\ wall <= Minute(wall) + 1
  BY WallType, MinuteIs
<1>2. window \in Int /\ window >= 0
  BY WindowIs
<1>3. CASE Wall(z, u) <= wall
  <2>. HIDE DEF window, wall
  <2>. QED
    BY <1>1, <1>2, <1>3
<1>4. CASE wall < Wall(z, u)
  <2>1. u # through /\ wall <= Wall(z, u)
    BY <1>1, <1>4
  <2>2. /\ u < z.change /\ z.change <= through
        /\ Wall(z, u) = u + z.before /\ wall = through + z.after
    BY <2>1, WallBack
  <2>3. Wall(z, wall - z.before) = wall /\ wall - z.before < through /\ wall - z.before \in Int
    BY <1>1, <1>4, <2>2, ZoneType DEF Wall
  <2>4. window = through - (wall - z.before)
    BY <2>3, WindowIs
  <2>. HIDE DEF window, wall
  <2>. QED
    BY <1>1, <2>2, <2>4, ZoneType
<1>. QED
  BY <1>1, <1>3, <1>4

\* _cron_previous_or_at returns the latest such time up to the given one.
LEMMA CronPreviousIsLatest ==
  ASSUME NEW cron \in Crons, NEW z \in Zones, NEW through \in Int
  PROVE  \/ /\ CronPrevious(cron, z, through) = None
            /\ \A u \in Int : Wall(z, u) \in cron => u > through
         \/ /\ CronPrevious(cron, z, through) \in Int /\ CronPrevious(cron, z, through) <= through
            /\ Wall(z, CronPrevious(cron, z, through)) \in cron
            /\ \A u \in Int : Wall(z, u) \in cron /\ u <= through => u <= CronPrevious(cron, z, through)
<1>. DEFINE local == Minute(Wall(z, through))
            window == OverlapWindow(z, through)
            tried == {w \in cron : w < local + window + 2}
            past(w) == {u \in Resolve(z, w) : u <= through}
            hits == {w \in tried : past(w) # {}}
            ends == {w \in tried : \/ w \in hits /\ Max(past(w)) = Max(Resolve(z, w))
                                   \/ w < local - window /\ \E h \in hits : h >= w}
            last == IF ends = {} THEN Min(tried) ELSE Max(ends)
            picked == UNION {past(h) : h \in {w \in hits : w >= last}}
            behind == {u \in Int : u <= through /\ Wall(z, u) \in cron}
<1>1. CronPrevious(cron, z, through) = IF hits = {} THEN None ELSE Max(picked)
  BY DEF CronPrevious
<1>2. cron \subseteq 0..Horizon /\ Horizon \in Nat /\ cron \subseteq Int
  BY PlansAssumption
<1>3. /\ local \in Int /\ local <= Wall(z, through)
      /\ window \in Int /\ window >= 0
  BY WallType, MinuteIs, WindowIs
<1>4. ASSUME NEW w \in cron PROVE past(w) = {u \in Int : u <= through /\ Wall(z, u) = w}
  BY <1>2, ResolveIs
<1>5. \A u \in behind : Wall(z, u) \in hits /\ u \in past(Wall(z, u))
  <2>. SUFFICES ASSUME NEW u \in behind
                PROVE  Wall(z, u) \in hits /\ u \in past(Wall(z, u))
    OBVIOUS
  <2>1. u \in Int /\ u <= through /\ Wall(z, u) \in cron
    OBVIOUS
  <2>2. u \in past(Wall(z, u))
    BY <1>4, <2>1
  <2>3. Wall(z, u) \in tried
    BY <2>1, PastIsTried
  <2>. QED
    BY <2>2, <2>3
<1>6. \A w \in hits : \A u \in past(w) : u \in behind /\ Wall(z, u) = w
  BY <1>4
<1>7. CASE behind = {}
  <2>1. hits = {}
    BY <1>6, <1>7
  <2>2. \A u \in Int : Wall(z, u) \in cron => u > through
    BY <1>7
  <2>. QED
    BY <1>1, <2>1, <2>2
<1>8. CASE behind # {}
  <2>1. PICK latest \in behind : \A u \in behind : latest >= u
    <3>1. behind \in SUBSET Int /\ \A u \in behind : u <= through
      OBVIOUS
    <3>. HIDE DEF behind
    <3>. QED
      BY <1>8, <3>1, GreatestExists
  <2>2. latest \in Int /\ latest <= through /\ Wall(z, latest) \in cron /\ Wall(z, latest) \in Int
    BY WallType
  <2>3. ASSUME NEW e \in ends, e > Wall(z, latest) PROVE FALSE
    <3>1. e \in Int /\ e \in cron
      BY <1>2
    <3>2. ASSUME NEW v \in behind, Wall(z, v) >= e
          PROVE  /\ v < z.change /\ z.change <= latest /\ Wall(z, v) = v + z.before
                 /\ Wall(z, latest) = latest + z.after
      <4>1. v \in Int /\ latest >= v /\ Wall(z, v) \in Int
        BY <2>1, WallType
      <4>2. latest # v /\ Wall(z, latest) <= Wall(z, v)
        BY <2>2, <2>3, <3>1, <3>2, <4>1
      <4>. QED
        BY <2>2, <4>1, <4>2, WallBack
    <3>3. ASSUME NEW v \in behind, Wall(z, v) >= e
          PROVE  /\ e - z.after \in Int /\ e - z.after > latest
                 /\ Wall(z, e - z.after) = e /\ e - z.after > through
      <4>1. e - z.after \in Int /\ e - z.after > latest /\ ~(e - z.after < z.change)
        BY <2>2, <2>3, <3>1, <3>2, <3>3, ZoneType
      <4>2. Wall(z, e - z.after) = e
        BY <3>1, <4>1, ZoneType DEF Wall
      <4>3. e - z.after \notin behind
        BY <2>1, <2>2, <4>1
      <4>. QED
        BY <3>1, <4>1, <4>2, <4>3
    <3>4. CASE e \in hits /\ Max(past(e)) = Max(Resolve(z, e))
      <4>1. past(e) \in SUBSET Resolve(z, e) /\ past(e) # {} /\ Resolve(z, e) # {}
        BY <3>4
      <4>2. Max(past(e)) \in past(e)
        BY <3>1, <4>1, ResolveEnds
      <4>3. Max(past(e)) \in behind /\ Wall(z, Max(past(e))) = e
        BY <1>6, <3>4, <4>2
      <4>4. e - z.after \in Int /\ Wall(z, e - z.after) = e /\ e - z.after > through
        BY <3>1, <3>3, <4>3
      <4>5. e - z.after \in Resolve(z, e)
        BY <3>1, <4>4, ResolveIs
      <4>6. Max(Resolve(z, e)) >= e - z.after
        BY <3>1, <4>1, <4>5, ResolveEnds
      <4>. QED
        BY <3>4, <4>3, <4>4, <4>6
    <3>5. CASE e < local - window /\ \E h \in hits : h >= e
      <4>1. PICK v \in behind : Wall(z, v) >= e
        BY <1>6, <3>5
      <4>2. /\ z.change <= latest /\ e - z.after \in Int /\ e - z.after > through
        BY <3>2, <3>3, <4>1
      <4>3. Wall(z, through) = through + z.after
        BY <2>2, <4>2, ZoneType DEF Wall
      <4>. HIDE DEF window, local
      <4>. QED
        BY <1>3, <3>1, <3>5, <4>2, <4>3, ZoneType
    <3>. QED
      BY <3>4, <3>5
  <2>4. Wall(z, latest) >= last
    <3>1. Wall(z, latest) \in tried /\ tried \in SUBSET Int /\ \A w \in tried : w <= Horizon /\ w >= 0
      <4>1. Wall(z, latest) \in tried
        BY <1>5
      <4>2. \A w \in cron : w \in Int /\ w <= Horizon /\ w >= 0
        BY <1>2
      <4>. QED
        BY <4>1, <4>2
    <3>2. CASE ends = {}
      <4>1. last = Min(tried)
        BY <3>2
      <4>2. Min(tried) <= Wall(z, latest) /\ Min(tried) \in Int
        <5>. HIDE DEF tried
        <5>1. tried # {} /\ 0 \in Int
          BY <3>1
        <5>2. Min(tried) \in tried /\ \A w \in tried : Min(tried) <= w
          BY <3>1, <5>1, LeastExists
        <5>. QED
          BY <3>1, <5>2
      <4>. HIDE DEF last
      <4>. QED
        BY <2>2, <4>1, <4>2
    <3>3. CASE ends # {}
      <4>1. last = Max(ends) /\ ends \in SUBSET Int /\ \A w \in ends : w <= Horizon
        BY <3>1, <3>3
      <4>2. Max(ends) \in ends /\ Max(ends) \in Int
        <5>. HIDE DEF ends, last
        <5>1. Horizon \in Int
          BY <1>2
        <5>2. Max(ends) \in ends
          BY <3>3, <4>1, <5>1, GreatestExists
        <5>. QED
          BY <4>1, <5>2
      <4>. HIDE DEF ends, last
      <4>. QED
        BY <2>2, <2>3, <4>1, <4>2
    <3>. QED
      BY <3>2, <3>3
  <2>5. latest \in picked
    BY <1>5, <2>4
  <2>6. picked \subseteq behind
    BY <1>6
  <2>7. Max(picked) = latest
    <3>1. picked \in SUBSET Int /\ \A u \in picked : latest >= u
      BY <2>1, <2>6
    <3>. HIDE DEF picked
    <3>. QED
      BY <2>5, <3>1, GreatestIs
  <2>8. hits # {}
    BY <1>5
  <2>9. CronPrevious(cron, z, through) = latest
    BY <1>1, <2>7, <2>8
  <2>10. \A u \in Int : Wall(z, u) \in cron /\ u <= through => u <= latest
    BY <2>1, <2>2
  <2>. QED
    BY <2>2, <2>9, <2>10
<1>. QED
  BY <1>7, <1>8

-----------------------------------------------------------------------------
(***************************************************************************)
(* Intervals                                                               *)
(***************************************************************************)
LEMMA Division ==
  ASSUME NEW n \in Nat, n # 0, NEW x \in Int
  PROVE  /\ x \div n \in Int
         /\ (x \div n) * n <= x /\ x < ((x \div n) + 1) * n
         /\ x % n = 0 <=> x = (x \div n) * n
OBVIOUS

LEMMA MultipleOf ==
  ASSUME NEW n \in Nat, n # 0, NEW u \in Int, NEW a \in Int, (u - a) % n = 0
  PROVE  \E q \in Int : u - a = q * n
<1>1. u - a \in Int
  OBVIOUS
<1>. QED
  BY <1>1, Division

LEMMA MultiplesOrdered ==
  ASSUME NEW n \in Nat, n # 0, NEW p \in Int, NEW q \in Int
  PROVE  p * n \in Int /\ (p * n) % n = 0 /\ (p <= q => p * n <= q * n)
OBVIOUS

\* ParsedSchedule.next_after returns the first time after t at which the expression is due.
LEMMA NextAfterIsFirst ==
  ASSUME NEW d, IsExpression(d), NEW t \in Int
  PROVE  IsFirst(NextAfter(d, t), d, t)
<1>1. ASSUME NEW v \in Times, d = [kind |-> "at", at |-> v]
      PROVE  IsFirst(NextAfter(d, t), d, t)
  <2>1. v \in Int
    BY PlansAssumption DEF Times
  <2>2. \A u : Due(d, u) <=> u = v
    BY <1>1 DEF Due
  <2>3. NextAfter(d, t) = IF v > t THEN v ELSE None
    BY <1>1 DEF NextAfter
  <2>. QED
    BY <2>1, <2>2, <2>3 DEF IsFirst
<1>2. ASSUME NEW n \in Intervals, NEW a \in 0..MaxClock, d = [kind |-> "interval", interval |-> n, anchor |-> a]
      PROVE  IsFirst(NextAfter(d, t), d, t)
  <2>1. n \in Nat /\ n # 0 /\ a \in Int
    BY PlansAssumption
  <2>2. \A u : Due(d, u) <=> u >= a /\ (u - a) % n = 0
    BY <1>2 DEF Due
  <2>3. PICK k : k = Max({0, (t - a) \div n + 1})
    OBVIOUS
  <2>4. NextAfter(d, t) = a + k * n
    BY <1>2, <2>3 DEF NextAfter
  <2>5. t - a \in Int /\ (t - a) \div n \in Int
    BY <2>1, Division
  <2>6. k \in Int /\ k >= 0 /\ k >= (t - a) \div n + 1 /\ (k = 0 \/ k = (t - a) \div n + 1)
    <3>1. PICK m \in Int : m = (t - a) \div n + 1
      BY <2>5
    <3>2. k = Max({0, m})
      BY <2>3, <3>1
    <3>3. CASE m <= 0
      BY <3>1, <3>2, <3>3, GreatestIs
    <3>4. CASE m > 0
      <4>1. {0, m} \in SUBSET Int /\ m \in {0, m} /\ \A y \in {0, m} : m >= y
        BY <3>4
      <4>2. k = m
        BY <3>2, <4>1, GreatestIs
      <4>. QED
        BY <3>1, <3>4, <4>2
    <3>. QED
      BY <2>5, <3>1, <3>3, <3>4
  <2>7. k * n \in Int /\ k * n >= 0 /\ (k * n) % n = 0
    BY <2>1, <2>6, MultiplesOrdered
  <2>8. k * n > t - a
    <3>1. t - a < ((t - a) \div n + 1) * n
      BY <2>1, <2>5, Division
    <3>2. ((t - a) \div n + 1) * n <= k * n /\ ((t - a) \div n + 1) * n \in Int
      BY <2>1, <2>5, <2>6, MultiplesOrdered
    <3>. QED
      BY <2>5, <2>7, <3>1, <3>2
  <2>9. ASSUME NEW u \in Int, u >= a, (u - a) % n = 0, u > t
        PROVE  u - a >= k * n
    <3>1. PICK q \in Int : u - a = q * n
      BY <2>1, <2>9, MultipleOf
    <3>2. q >= 0
      <4>1. CASE q <= -1
        <5>1. q * n <= (-1) * n
          BY <2>1, <4>1, MultiplesOrdered
        <5>. QED
          BY <2>1, <2>9, <3>1, <5>1
      <4>. QED
        BY <4>1
    <3>3. q >= (t - a) \div n + 1
      <4>1. CASE q <= (t - a) \div n
        <5>1. q * n <= ((t - a) \div n) * n /\ ((t - a) \div n) * n <= t - a
              /\ ((t - a) \div n) * n \in Int
          BY <2>1, <2>5, <4>1, MultiplesOrdered, Division
        <5>. QED
          BY <2>1, <2>5, <2>9, <3>1, <5>1
      <4>. QED
        BY <2>5, <4>1
    <3>4. k <= q
      BY <2>6, <3>2, <3>3
    <3>. QED
      BY <2>1, <2>6, <3>1, <3>4, MultiplesOrdered
  <2>10. PICK m \in Int : m = k * n
    BY <2>7
  <2>11. a + m \in Int /\ a + m > t /\ a + m >= a /\ (a + m - a) % n = 0
    <3>1. a + m - a = m
      BY <2>1
    <3>. QED
      BY <2>1, <2>5, <2>7, <2>8, <2>10, <3>1
  <2>12. \A u \in Int : Due(d, u) /\ u > t => u >= a + m
    <3>. SUFFICES ASSUME NEW u \in Int, Due(d, u), u > t PROVE u >= a + m
      OBVIOUS
    <3>1. u - a >= m
      BY <2>2, <2>9, <2>10
    <3>. QED
      BY <2>1, <3>1
  <2>. QED
    BY <2>2, <2>4, <2>10, <2>11, <2>12 DEF IsFirst
<1>3. ASSUME NEW c \in Crons, NEW z \in Zones, d = [kind |-> "cron", cron |-> c, zone |-> z]
      PROVE  IsFirst(NextAfter(d, t), d, t)
  <2>1. \A u : Due(d, u) <=> Wall(z, u) \in c
    BY <1>3 DEF Due
  <2>2. NextAfter(d, t) = CronNext(c, z, t)
    BY <1>3 DEF NextAfter
  <2>. QED
    BY <2>1, <2>2, CronNextIsFirst DEF IsFirst
<1>. QED
  BY <1>1, <1>2, <1>3 DEF IsExpression

\* ParsedSchedule.latest_due, from a time at which the expression is due: the latest one up to the tick.
LEMMA LatestDueIsLatest ==
  ASSUME NEW d, IsExpression(d), NEW first \in Int, NEW through \in Int, Due(d, first), first <= through
  PROVE  /\ LatestDue(d, first, through) \in Int /\ Due(d, LatestDue(d, first, through))
         /\ first <= LatestDue(d, first, through) /\ LatestDue(d, first, through) <= through
         /\ \A u \in Int : Due(d, u) /\ u <= through => u <= LatestDue(d, first, through)
<1>1. ASSUME NEW v \in Times, d = [kind |-> "at", at |-> v]
      PROVE  /\ LatestDue(d, first, through) = first
             /\ \A u : Due(d, u) => u = first
  <2>1. v \in Int /\ v # None
    BY PlansAssumption DEF Times
  <2>2. \A u : Due(d, u) <=> u = v
    BY <1>1 DEF Due
  <2>3. LatestDue(d, first, through) = v
    BY <1>1, <2>1, <2>2 DEF LatestDue
  <2>. QED
    BY <2>2, <2>3
<1>2. ASSUME NEW n \in Intervals, NEW a \in 0..MaxClock, d = [kind |-> "interval", interval |-> n, anchor |-> a]
      PROVE  /\ LatestDue(d, first, through) \in Int /\ Due(d, LatestDue(d, first, through))
             /\ first <= LatestDue(d, first, through) /\ LatestDue(d, first, through) <= through
             /\ \A u \in Int : Due(d, u) /\ u <= through => u <= LatestDue(d, first, through)
  <2>1. n \in Nat /\ n # 0 /\ a \in Int
    BY PlansAssumption
  <2>2. \A u : Due(d, u) <=> u >= a /\ (u - a) % n = 0
    BY <1>2 DEF Due
  <2>3. PICK k \in Int : k = (through - a) \div n
    BY <2>1, Division
  <2>4. PICK m \in Int : m = k * n
    BY <2>1, MultiplesOrdered
  <2>5. m <= through - a /\ m % n = 0
    <3>1. through - a \in Int
      BY <2>1
    <3>2. ((through - a) \div n) * n <= through - a
      BY <2>1, <3>1, Division
    <3>3. (k * n) % n = 0
      BY <2>1, MultiplesOrdered
    <3>. QED
      BY <2>3, <2>4, <3>2, <3>3
  <2>6. ASSUME NEW u \in Int, u >= a, (u - a) % n = 0, u <= through
        PROVE  u <= a + m
    <3>1. PICK q \in Int : u - a = q * n
      BY <2>1, <2>6, MultipleOf
    <3>2. CASE q <= k
      <4>1. q * n <= k * n
        BY <2>1, <3>2, MultiplesOrdered
      <4>. QED
        BY <2>1, <2>4, <3>1, <4>1
    <3>3. CASE q >= k + 1
      <4>1. (k + 1) * n <= q * n /\ (k + 1) * n \in Int
        BY <2>1, <3>3, MultiplesOrdered
      <4>2. through - a < (k + 1) * n
        BY <2>1, <2>3, Division
      <4>. QED
        BY <2>1, <2>6, <3>1, <4>1, <4>2
    <3>. QED
      BY <3>2, <3>3
  <2>7. first <= a + m /\ first >= a
    BY <2>2, <2>6
  <2>8. a + m - a = m /\ a + m # None /\ a + m >= a /\ a + m <= through /\ a + m \in Int
    BY <2>1, <2>5, <2>7, PlansAssumption
  <2>9. LatestDue(d, first, through) = a + m
    BY <1>2, <2>1, <2>3, <2>4, <2>7, <2>8 DEF LatestDue
  <2>10. Due(d, a + m)
    BY <2>2, <2>5, <2>8
  <2>11. \A u \in Int : Due(d, u) /\ u <= through => u <= a + m
    BY <2>2, <2>6
  <2>. QED
    BY <2>7, <2>8, <2>9, <2>10, <2>11
<1>3. ASSUME NEW c \in Crons, NEW z \in Zones, d = [kind |-> "cron", cron |-> c, zone |-> z]
      PROVE  /\ LatestDue(d, first, through) \in Int /\ Due(d, LatestDue(d, first, through))
             /\ first <= LatestDue(d, first, through) /\ LatestDue(d, first, through) <= through
             /\ \A u \in Int : Due(d, u) /\ u <= through => u <= LatestDue(d, first, through)
  <2>1. \A u : Due(d, u) <=> Wall(z, u) \in c
    BY <1>3 DEF Due
  <2>2. PICK x : x = CronPrevious(c, z, through)
    OBVIOUS
  <2>3. /\ x \in Int /\ x <= through /\ Wall(z, x) \in c
        /\ \A u \in Int : Wall(z, u) \in c /\ u <= through => u <= x
    BY <2>1, <2>2, CronPreviousIsLatest
  <2>4. first <= x /\ x # None
    BY <2>1, <2>3, PlansAssumption
  <2>5. LatestDue(d, first, through) = x
    BY <1>3, <2>2, <2>3, <2>4 DEF LatestDue
  <2>. QED
    BY <2>1, <2>3, <2>4, <2>5
<1>. QED
  BY <1>1, <1>2, <1>3 DEF IsExpression

-----------------------------------------------------------------------------
(***************************************************************************)
(* The planner                                                             *)
(***************************************************************************)
LEMMA PlansInitial == PlansInit => PlansInv
BY PlansAssumption DEF PlansInit, PlansInv, DeletedIsQuiet

LEMMA CreateKeeps ==
  ASSUME PlansInv, create_schedule PROVE PlansInv'
<1>1. clock \in 0..MaxClock /\ clock \in Int /\ runs = {} /\ state = "none"
  BY PlansAssumption DEF PlansInv, create_schedule
<1>2. PICK d \in Parsed, grace \in Graces \cup {None} :
        /\ def' = [parsed |-> d, grace |-> grace, created |-> clock]
        /\ nextRun' = NextAfter(d, clock)
  BY DEF create_schedule
<1>3. /\ state' = "enabled" /\ asked' = clock /\ runs' = {} /\ clock' = clock
  BY <1>1 DEF create_schedule
<1>4. IsExpression(d)
  BY <1>1 DEF Parsed, IsExpression
<1>5. IsFirst(nextRun', d, clock)
  BY <1>1, <1>2, <1>4, NextAfterIsFirst
<1>6. def'.parsed = d /\ def'.created = clock
  BY <1>2
<1>7. \A u \in Int : ~(Due(d, u) /\ u > clock /\ (nextRun' = None \/ u < nextRun'))
  BY <1>1, <1>5, PlansAssumption DEF IsFirst
<1>. QED
  BY <1>1, <1>3, <1>4, <1>5, <1>6, <1>7 DEF PlansInv, DeletedIsQuiet

LEMMA PlanOneKeeps ==
  ASSUME PlansInv, NEW now \in 0..MaxClock, plan_one(now) PROVE PlansInv'
<1>. DEFINE d == def.parsed
            due == LatestDue(d, nextRun, now)
            new == IF due = None \/ Overdue(due, now) THEN {} ELSE {due} \ runs
<1>1. /\ state = "enabled" /\ nextRun # None /\ nextRun <= now
      /\ runs' = runs \cup new
      /\ nextRun' = NextAfter(d, now) /\ asked' = now
      /\ state' \in {"enabled", "disabled"}
      /\ def' = def /\ clock' = clock
  BY DEF plan_one
<1>2. /\ IsExpression(d) /\ asked \in 0..MaxClock /\ clock \in 0..MaxClock
      /\ IsFirst(nextRun, d, asked)
      /\ \A r \in runs : r \in Times /\ Due(d, r)
      /\ def.grace = None =>
           \A u \in Int : Due(d, u) /\ u > def.created /\ (nextRun = None \/ u < nextRun)
                            => \E r \in runs : r >= u
  BY <1>1 DEF PlansInv
<1>3. now \in Int /\ now >= 0 /\ now <= Horizon
  BY PlansAssumption
<1>4. nextRun \in Int /\ nextRun > asked /\ Due(d, nextRun) /\ asked >= 0 /\ asked \in Int
  BY <1>1, <1>2, PlansAssumption DEF IsFirst
<1>5. /\ due \in Int /\ Due(d, due) /\ nextRun <= due /\ due <= now
      /\ \A u \in Int : Due(d, u) /\ u <= now => u <= due
  BY <1>1, <1>2, <1>3, <1>4, LatestDueIsLatest
<1>6. due \in Times /\ due # None
  BY <1>3, <1>4, <1>5, PlansAssumption DEF Times
<1>7. IsFirst(nextRun', d, now)
  BY <1>1, <1>2, <1>3, NextAfterIsFirst
<1>. HIDE DEF due
<1>8. \A r \in runs' : r \in Times /\ Due(d, r)
  BY <1>1, <1>2, <1>5, <1>6
<1>9. ASSUME def.grace = None, NEW u \in Int, Due(d, u), u > def.created, nextRun' = None \/ u < nextRun'
      PROVE  \E r \in runs' : r >= u
  <2>1. u <= now
    BY <1>3, <1>7, <1>9, PlansAssumption DEF IsFirst
  <2>2. CASE u < nextRun
    BY <1>1, <1>2, <1>9, <2>2
  <2>3. CASE u >= nextRun
    <3>1. u <= due
      BY <1>5, <1>9, <2>1
    <3>2. due \in runs'
      BY <1>1, <1>6, <1>9 DEF Overdue
    <3>. QED
      BY <1>5, <3>1, <3>2
  <2>. QED
    BY <1>4, <2>2, <2>3
<1>. QED
  BY <1>1, <1>2, <1>7, <1>8, <1>9 DEF PlansInv, DeletedIsQuiet

LEMMA PlansStep == PlansInv /\ [PlansNext]_planVars => PlansInv'
<1>. SUFFICES ASSUME PlansInv, [PlansNext]_planVars PROVE PlansInv'
  OBVIOUS
<1>1. ASSUME create_schedule PROVE PlansInv'
  BY <1>1, CreateKeeps
<1>2. ASSUME toggle PROVE PlansInv'
  BY <1>2 DEF toggle, PlansInv, DeletedIsQuiet
<1>3. ASSUME delete PROVE PlansInv'
  BY <1>3 DEF delete, PlansInv, DeletedIsQuiet
<1>4. ASSUME run_now PROVE PlansInv'
  BY <1>4 DEF run_now, PlansInv, DeletedIsQuiet
<1>5. ASSUME RunSettles PROVE PlansInv'
  BY <1>5 DEF RunSettles, PlansInv, DeletedIsQuiet
<1>6. ASSUME Tick PROVE PlansInv'
  <2>1. PICK lag \in 0..Lag : lag <= clock /\ plan_one(clock - lag)
    BY <1>6 DEF Tick
  <2>2. PICK now \in 0..MaxClock : now = clock - lag
    BY <2>1, PlansAssumption DEF PlansInv
  <2>. QED
    BY <2>1, <2>2, PlanOneKeeps
<1>7. ASSUME TimePasses PROVE PlansInv'
  <2>1. clock' \in 0..MaxClock
    BY <1>7, PlansAssumption DEF TimePasses, PlansInv
  <2>. QED
    BY <1>7, <2>1 DEF TimePasses, PlansInv, DeletedIsQuiet
<1>8. ASSUME ClockJumps PROVE PlansInv'
  BY <1>8 DEF ClockJumps, PlansInv, DeletedIsQuiet
<1>9. CASE UNCHANGED planVars
  BY <1>9 DEF planVars, PlansInv, DeletedIsQuiet
<1>. QED
  BY <1>1, <1>2, <1>3, <1>4, <1>5, <1>6, <1>7, <1>8, <1>9 DEF PlansNext

\* The occurrences of the properties are the due times within the horizon.
LEMMA OccurrencesAreDue ==
  ASSUME IsExpression(def.parsed)
  PROVE  Occurrences = {u \in Times : Due(def.parsed, u)}
<1>. DEFINE d == def.parsed
<1>1. ASSUME NEW v \in Times, d = [kind |-> "at", at |-> v]
      PROVE  Occurrences = {u \in Times : Due(d, u)}
  BY <1>1 DEF Occurrences, Due
<1>2. ASSUME NEW n \in Intervals, NEW a \in 0..MaxClock, d = [kind |-> "interval", interval |-> n, anchor |-> a]
      PROVE  Occurrences = {u \in Times : Due(d, u)}
  BY <1>2 DEF Occurrences, Due
<1>3. ASSUME NEW c \in Crons, NEW z \in Zones, d = [kind |-> "cron", cron |-> c, zone |-> z]
      PROVE  Occurrences = {u \in Times : Due(d, u)}
  BY <1>3 DEF Occurrences, Due
<1>. QED
  BY <1>1, <1>2, <1>3 DEF IsExpression

LEMMA InvGivesFirst == PlansInv => NextIsFirst
<1>. SUFFICES ASSUME PlansInv, def # None PROVE NextIsFirst
  BY DEF NextIsFirst
<1>. DEFINE d == def.parsed
            ahead == {u \in Occurrences : u > asked}
<1>1. IsExpression(d) /\ asked \in Int /\ asked >= 0 /\ IsFirst(nextRun, d, asked)
  BY PlansAssumption DEF PlansInv
<1>2. ahead = {u \in Times : Due(d, u) /\ u > asked} /\ Times \subseteq Int
  BY <1>1, OccurrencesAreDue DEF Times
<1>3. CASE nextRun = None
  <2>1. ahead = {}
    <3>1. \A u \in Int : Due(d, u) => u <= asked
      BY <1>1, <1>3, PlansAssumption DEF IsFirst
    <3>2. \A u \in Int : ~(u <= asked /\ u > asked)
      BY <1>1
    <3>. QED
      BY <1>2, <3>1, <3>2
  <2>. QED
    BY <1>3, <2>1 DEF NextIsFirst
<1>4. CASE nextRun # None
  <2>1. ASSUME nextRun <= Horizon PROVE ahead # {} /\ nextRun = Min(ahead)
    <3>1. /\ nextRun \in Int /\ nextRun > asked /\ Due(d, nextRun)
          /\ \A u \in Int : Due(d, u) /\ u > asked => u >= nextRun
      BY <1>1, <1>4 DEF IsFirst
    <3>2. nextRun \in Times
      BY <1>1, <2>1, <3>1, PlansAssumption DEF Times
    <3>3. nextRun \in ahead /\ ahead \in SUBSET Int /\ \A u \in ahead : nextRun <= u
      BY <1>2, <3>1, <3>2
    <3>. HIDE DEF ahead
    <3>. QED
      BY <3>3, LeastIs
  <2>. QED
    <3>1. (nextRun = None) = FALSE
      BY <1>4
    <3>. QED
      BY <2>1, <3>1 DEF NextIsFirst
<1>. QED
  BY <1>3, <1>4

LEMMA InvGivesCover == PlansInv => RunsCoverPlan
<1>. SUFFICES ASSUME PlansInv PROVE RunsCoverPlan
  OBVIOUS
<1>1. DeletedIsQuiet
  BY DEF PlansInv
<1>2. ASSUME def # None PROVE IsExpression(def.parsed)
  BY <1>2 DEF PlansInv
<1>3. RunsAreOccurrences
  BY <1>2, OccurrencesAreDue DEF PlansInv, RunsAreOccurrences
<1>4. NothingOverlooked
  <2>. SUFFICES ASSUME def # None, def.grace = None, NEW u \in Occurrences,
                       u > def.created, nextRun = None \/ u < nextRun
                PROVE  \E r \in runs : r >= u
    BY DEF NothingOverlooked
  <2>1. u \in Int /\ Due(def.parsed, u)
    BY <1>2, OccurrencesAreDue DEF Times
  <2>. QED
    BY <2>1 DEF PlansInv
<1>. QED
  BY <1>1, <1>3, <1>4 DEF RunsCoverPlan

\* The invariant of the planner holds of every behaviour.
THEOREM PlansInvariant == PlansSpec => []PlansInv
BY PlansInitial, PlansStep, PTL DEF PlansSpec

\* next_run_at_utc is the first occurrence after the time that create or _plan_one looked from, for every
\* zone, expression and clock (NextIsFirst).
THEOREM NextRunIsFirst == PlansSpec => []NextIsFirst
BY PlansInvariant, InvGivesFirst, PTL

\* Every run of the planner is an occurrence, none since the creation is overlooked under the policy
\* "latest", and a deleted schedule has no run in flight (RunsCoverPlan).
THEOREM PlannedRunsCover == PlansSpec => []RunsCoverPlan
BY PlansInvariant, InvGivesCover, PTL
=============================================================================
