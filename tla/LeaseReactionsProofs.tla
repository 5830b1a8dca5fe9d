------------------------ MODULE LeaseReactionsProofs ------------------------
(***************************************************************************)
(* Proofs about OwnerLease, for every set of owner ids and all timings that *)
(* satisfy its assumptions, and about SubmissionReactions, for every bound. *)
(***************************************************************************)
EXTENDS OwnerLease, SubmissionReactions, TLAPS

-----------------------------------------------------------------------------
(* The inductive invariant behind the safety properties, by parts.          *)

(* Times in the future exist only in the row, by at most one TTL, and an
   absent row has none. *)
ClockInv ==
    /\ row.expires <= clock + Ttl
    /\ row.fence = 0 => row.expires = 0
    /\ \A o \in Owners : store[o].at <= clock /\ rpc[o].at <= clock

(* Tokens in memory are tokens of the row's past or present, and the present
   token belongs to the row's owner alone. *)
TokenInv ==
    /\ row.fence > 0 => row.owner \in Owners
    /\ \A o \in Owners :
          /\ held[o] <= row.fence /\ store[o].fence <= row.fence
          /\ held[o] > 0 /\ held[o] = row.fence => row.owner = o
          /\ store[o].op = "renew" => store[o].fence = held[o]
          /\ \A p \in Owners : held[o] > 0 /\ held[o] = held[p] => o = p

(* A renewal waiting for the database never shortens the lease it renews:
   its clock reading is no older than the last one written. *)
StampInv ==
    \A o \in Owners :
        row.owner = o /\ store[o].op \in {"acquire", "renew"}
            => row.expires <= store[o].at + Ttl

(* Who may do what: detached and crashed runtimes hold no token and make no
   call, and a runtime that releases has stopped its calls. *)
ModeInv ==
    \A o \in Owners :
        /\ mode[o] \in {"detached", "crashed"} => rpc[o].phase = "idle"
        /\ store[o].op \in {"acquire", "release"} => mode[o] = "detached"
        /\ store[o].op = "renew" => mode[o] = "owner"

(* A call that passed its check has a lease that outlives it. *)
CallInv ==
    \A o \in Owners :
        /\ rpc[o].phase = "checking" => clock <= rpc[o].at + Slack
        /\ rpc[o].phase = "safe" => clock <= rpc[o].at + Slack
        /\ rpc[o].phase = "inflight" =>
              /\ rpc[o].start <= rpc[o].at + Slack
              /\ clock <= rpc[o].start + OpTimeout
        /\ rpc[o].phase \in {"safe", "inflight"} =>
              /\ held[o] > 0 /\ Owns(o, held[o])
              /\ row.expires >= rpc[o].at + Headroom

IInv == TypeOK /\ ClockInv /\ TokenInv /\ StampInv /\ ModeInv /\ CallInv

-----------------------------------------------------------------------------
(* The initial state satisfies the invariant. *)
LEMMA InitIInv == Init => IInv
<1> SUFFICES ASSUME Init PROVE IInv
  OBVIOUS
<1> USE OwnersAssumption, TimingAssumption DEF Init, NoCall, IdleRpc
<1>1. TypeOK
  BY DEF TypeOK, Modes, StoreOps, Phases
<1>2. ClockInv /\ TokenInv /\ StampInv /\ ModeInv /\ CallInv
  BY DEF ClockInv, TokenInv, StampInv, ModeInv, CallInv, Owns
<1> QED
  BY <1>1, <1>2 DEF IInv

(* Every step keeps the shape of the variables. *)
LEMMA NextTypeOK == TypeOK /\ [Next]_vars => TypeOK'
<1> SUFFICES ASSUME TypeOK, [Next]_vars PROVE TypeOK'
  OBVIOUS
<1> USE OwnersAssumption, TimingAssumption DEF TypeOK, Modes, StoreOps, Phases,
        NoCall, IdleRpc
<1>1. CASE Tick
  BY <1>1 DEF Tick
<1>2. ASSUME NEW o \in Owners, OwnerStep(o) PROVE TypeOK'
  <2>1. CASE AcquireCall(o)
    BY <2>1 DEF AcquireCall
  <2>2. CASE AcquireConflict(o)
    BY <2>2 DEF AcquireConflict
  <2>3. CASE AcquireCommit(o)
    BY <2>3 DEF AcquireCommit, GrantedFence
  <2>4. CASE RenewCall(o)
    BY <2>4 DEF RenewCall
  <2>5. CASE RenewCommit(o)
    BY <2>5 DEF RenewCommit
  <2>6. CASE RenewFenceLost(o)
    BY <2>6 DEF RenewFenceLost
  <2>7. CASE RenewError(o)
    BY <2>7 DEF RenewError
  <2>8. CASE ReleaseCall(o)
    BY <2>8 DEF ReleaseCall
  <2>9. CASE ReleaseCommit(o)
    BY <2>9 DEF ReleaseCommit
  <2>10. CASE RpcCall(o)
    BY <2>10 DEF RpcCall
  <2>11. CASE RpcCheck(o)
    BY <2>11 DEF RpcCheck
  <2>12. CASE RpcStart(o)
    BY <2>12 DEF RpcStart
  <2>13. CASE RpcEnd(o)
    BY <2>13 DEF RpcEnd
  <2>14. CASE Crash(o)
    BY <2>14 DEF Crash
  <2> QED
    BY <1>2, <2>1, <2>2, <2>3, <2>4, <2>5, <2>6, <2>7, <2>8, <2>9, <2>10, <2>11,
       <2>12, <2>13, <2>14 DEF OwnerStep
<1>3. CASE UNCHANGED vars
  BY <1>3 DEF vars
<1> QED
  BY <1>1, <1>2, <1>3 DEF Next

(* No rival can take the row from a caller whose check passed: the invariant
   puts the row's expiry after every clock reading there is. *)
LEMMA CallOutlived ==
    ASSUME IInv, NEW o \in Owners, rpc[o].phase \in {"safe", "inflight"}
    PROVE  row.expires > clock
<1>1. clock < rpc[o].at + Headroom
  BY TimingAssumption DEF IInv, TypeOK, CallInv
<1> QED
  BY <1>1, TimingAssumption DEF IInv, TypeOK, CallInv

(* Every step keeps the invariant, one action at a time. *)
LEMMA NextIInv == IInv /\ [Next]_vars => IInv'
<1> SUFFICES ASSUME IInv, [Next]_vars PROVE IInv'
  OBVIOUS
<1>0. TypeOK'
  BY NextTypeOK DEF IInv
<1> USE OwnersAssumption, TimingAssumption DEF IInv, TypeOK, NoCall, IdleRpc, Owns,
        Modes, StoreOps, Phases
<1>1. CASE Tick
  <2>1. ClockInv' /\ TokenInv' /\ StampInv' /\ ModeInv'
    BY <1>1, <1>0 DEF Tick, ClockInv, TokenInv, StampInv, ModeInv
  <2>2. CallInv'
    BY <1>1, <1>0 DEF Tick, DeadlinesRespected, CallInv, ClockInv
  <2> QED
    BY <1>0, <2>1, <2>2
<1>2. ASSUME NEW o \in Owners, OwnerStep(o) PROVE IInv'
  <2>1. CASE AcquireCall(o)
    <3>1. ClockInv' /\ StampInv'
      BY <1>0, <2>1 DEF AcquireCall, ClockInv, StampInv, TokenInv, ModeInv
    <3>2. TokenInv'
      BY <1>0, <2>1 DEF AcquireCall, TokenInv, ModeInv
    <3>3. ModeInv'
      BY <1>0, <2>1 DEF AcquireCall, ModeInv
    <3>4. CallInv'
      BY <1>0, <2>1, CallOutlived DEF AcquireCall, CallInv, ClockInv, TokenInv, StampInv, ModeInv
    <3> QED
      BY <1>0, <3>1, <3>2, <3>3, <3>4
  <2>2. CASE AcquireConflict(o)
    <3>1. ClockInv' /\ StampInv'
      BY <1>0, <2>2 DEF AcquireConflict, ClockInv, StampInv, TokenInv, ModeInv
    <3>2. TokenInv'
      BY <1>0, <2>2 DEF AcquireConflict, TokenInv, ModeInv
    <3>3. ModeInv'
      BY <1>0, <2>2 DEF AcquireConflict, ModeInv
    <3>4. CallInv'
      BY <1>0, <2>2, CallOutlived DEF AcquireConflict, CallInv, ClockInv, TokenInv, StampInv, ModeInv
    <3> QED
      BY <1>0, <3>1, <3>2, <3>3, <3>4
  <2>3. CASE AcquireCommit(o)
    <3>1. ClockInv' /\ StampInv'
      BY <1>0, <2>3 DEF AcquireCommit, GrantedFence, ClockInv, StampInv, TokenInv, ModeInv
    <3>2. TokenInv'
      BY <1>0, <2>3 DEF AcquireCommit, GrantedFence, TokenInv, ModeInv
    <3>3. ModeInv'
      BY <1>0, <2>3 DEF AcquireCommit, GrantedFence, ModeInv
    <3>4. CallInv'
      BY <1>0, <2>3, CallOutlived DEF AcquireCommit, GrantedFence, CallInv, ClockInv, TokenInv, StampInv, ModeInv
    <3> QED
      BY <1>0, <3>1, <3>2, <3>3, <3>4
  <2>4. CASE RenewCall(o)
    <3>1. ClockInv' /\ StampInv'
      BY <1>0, <2>4 DEF RenewCall, ClockInv, StampInv, TokenInv, ModeInv
    <3>2. TokenInv'
      BY <1>0, <2>4 DEF RenewCall, TokenInv, ModeInv
    <3>3. ModeInv'
      BY <1>0, <2>4 DEF RenewCall, ModeInv
    <3>4. CallInv'
      BY <1>0, <2>4, CallOutlived DEF RenewCall, CallInv, ClockInv, TokenInv, StampInv, ModeInv
    <3> QED
      BY <1>0, <3>1, <3>2, <3>3, <3>4
  <2>5. CASE RenewCommit(o)
    <3>1. ClockInv' /\ StampInv'
      BY <1>0, <2>5 DEF RenewCommit, ClockInv, StampInv, TokenInv, ModeInv
    <3>2. TokenInv'
      BY <1>0, <2>5 DEF RenewCommit, TokenInv, ModeInv
    <3>3. ModeInv'
      BY <1>0, <2>5 DEF RenewCommit, ModeInv
    <3>4. CallInv'
      BY <1>0, <2>5, CallOutlived DEF RenewCommit, CallInv, ClockInv, TokenInv, StampInv, ModeInv
    <3> QED
      BY <1>0, <3>1, <3>2, <3>3, <3>4
  <2>6. CASE RenewFenceLost(o)
    <3>1. ClockInv' /\ StampInv'
      BY <1>0, <2>6 DEF RenewFenceLost, ClockInv, StampInv, TokenInv, ModeInv
    <3>2. TokenInv'
      BY <1>0, <2>6 DEF RenewFenceLost, TokenInv, ModeInv
    <3>3. ModeInv'
      BY <1>0, <2>6 DEF RenewFenceLost, ModeInv
    <3>4. CallInv'
      BY <1>0, <2>6, CallOutlived DEF RenewFenceLost, CallInv, ClockInv, TokenInv, StampInv, ModeInv
    <3> QED
      BY <1>0, <3>1, <3>2, <3>3, <3>4
  <2>7. CASE RenewError(o)
    <3>1. ClockInv' /\ StampInv'
      BY <1>0, <2>7 DEF RenewError, ClockInv, StampInv, TokenInv, ModeInv
    <3>2. TokenInv'
      BY <1>0, <2>7 DEF RenewError, TokenInv, ModeInv
    <3>3. ModeInv'
      BY <1>0, <2>7 DEF RenewError, ModeInv
    <3>4. CallInv'
      BY <1>0, <2>7, CallOutlived DEF RenewError, CallInv, ClockInv, TokenInv, StampInv, ModeInv
    <3> QED
      BY <1>0, <3>1, <3>2, <3>3, <3>4
  <2>8. CASE ReleaseCall(o)
    <3>1. ClockInv' /\ StampInv'
      BY <1>0, <2>8 DEF ReleaseCall, ClockInv, StampInv, TokenInv, ModeInv
    <3>2. TokenInv'
      BY <1>0, <2>8 DEF ReleaseCall, TokenInv, ModeInv
    <3>3. ModeInv'
      BY <1>0, <2>8 DEF ReleaseCall, ModeInv
    <3>4. CallInv'
      BY <1>0, <2>8, CallOutlived DEF ReleaseCall, CallInv, ClockInv, TokenInv, StampInv, ModeInv
    <3> QED
      BY <1>0, <3>1, <3>2, <3>3, <3>4
  <2>9. CASE ReleaseCommit(o)
    <3>1. ClockInv' /\ StampInv'
      BY <1>0, <2>9 DEF ReleaseCommit, ClockInv, StampInv, TokenInv, ModeInv
    <3>2. TokenInv'
      BY <1>0, <2>9 DEF ReleaseCommit, TokenInv, ModeInv
    <3>3. ModeInv'
      BY <1>0, <2>9 DEF ReleaseCommit, ModeInv
    <3>4. CallInv'
      BY <1>0, <2>9, CallOutlived DEF ReleaseCommit, CallInv, ClockInv, TokenInv, StampInv, ModeInv
    <3> QED
      BY <1>0, <3>1, <3>2, <3>3, <3>4
  <2>10. CASE RpcCall(o)
    <3>1. ClockInv' /\ StampInv'
      BY <1>0, <2>10 DEF RpcCall, ClockInv, StampInv, TokenInv, ModeInv
    <3>2. TokenInv'
      BY <1>0, <2>10 DEF RpcCall, TokenInv, ModeInv
    <3>3. ModeInv'
      BY <1>0, <2>10 DEF RpcCall, ModeInv
    <3>4. CallInv'
      BY <1>0, <2>10, CallOutlived DEF RpcCall, CallInv, ClockInv, TokenInv, StampInv, ModeInv
    <3> QED
      BY <1>0, <3>1, <3>2, <3>3, <3>4
  <2>11. CASE RpcCheck(o)
    <3>1. ClockInv' /\ StampInv'
      BY <1>0, <2>11 DEF RpcCheck, HasMutationHeadroom, ClockInv, StampInv, TokenInv, ModeInv
    <3>2. TokenInv'
      BY <1>0, <2>11 DEF RpcCheck, HasMutationHeadroom, TokenInv, ModeInv
    <3>3. ModeInv'
      BY <1>0, <2>11 DEF RpcCheck, HasMutationHeadroom, ModeInv
    <3>4. CallInv'
      BY <1>0, <2>11, CallOutlived DEF RpcCheck, HasMutationHeadroom, CallInv, ClockInv, TokenInv, StampInv, ModeInv
    <3> QED
      BY <1>0, <3>1, <3>2, <3>3, <3>4
  <2>12. CASE RpcStart(o)
    <3>1. ClockInv' /\ StampInv'
      BY <1>0, <2>12 DEF RpcStart, ClockInv, StampInv, TokenInv, ModeInv
    <3>2. TokenInv'
      BY <1>0, <2>12 DEF RpcStart, TokenInv, ModeInv
    <3>3. ModeInv'
      BY <1>0, <2>12 DEF RpcStart, ModeInv
    <3>4. CallInv'
      BY <1>0, <2>12, CallOutlived DEF RpcStart, CallInv, ClockInv, TokenInv, StampInv, ModeInv
    <3> QED
      BY <1>0, <3>1, <3>2, <3>3, <3>4
  <2>13. CASE RpcEnd(o)
    <3>1. ClockInv' /\ StampInv'
      BY <1>0, <2>13 DEF RpcEnd, HasMutationHeadroom, ClockInv, StampInv, TokenInv, ModeInv
    <3>2. TokenInv'
      BY <1>0, <2>13 DEF RpcEnd, HasMutationHeadroom, TokenInv, ModeInv
    <3>3. ModeInv'
      BY <1>0, <2>13 DEF RpcEnd, HasMutationHeadroom, ModeInv
    <3>4. CallInv'
      BY <1>0, <2>13, CallOutlived DEF RpcEnd, HasMutationHeadroom, CallInv, ClockInv, TokenInv, StampInv, ModeInv
    <3> QED
      BY <1>0, <3>1, <3>2, <3>3, <3>4
  <2>14. CASE Crash(o)
    <3>1. ClockInv' /\ StampInv'
      BY <1>0, <2>14 DEF Crash, ClockInv, StampInv, TokenInv, ModeInv
    <3>2. TokenInv'
      BY <1>0, <2>14 DEF Crash, TokenInv, ModeInv
    <3>3. ModeInv'
      BY <1>0, <2>14 DEF Crash, ModeInv
    <3>4. CallInv'
      BY <1>0, <2>14, CallOutlived DEF Crash, CallInv, ClockInv, TokenInv, StampInv, ModeInv
    <3> QED
      BY <1>0, <3>1, <3>2, <3>3, <3>4
  <2> QED
    BY <1>2, <2>1, <2>2, <2>3, <2>4, <2>5, <2>6, <2>7, <2>8, <2>9, <2>10, <2>11,
       <2>12, <2>13, <2>14 DEF OwnerStep
<1>3. CASE UNCHANGED vars
  BY <1>3, <1>0 DEF vars, ClockInv, TokenInv, StampInv, ModeInv, CallInv
<1> QED
  BY <1>1, <1>2, <1>3 DEF Next

-----------------------------------------------------------------------------
(* The shape of the variables is an invariant of the lease protocol. *)
THEOREM TypeCorrect == Spec => []TypeOK
<1>1. Init => TypeOK
  BY InitIInv DEF IInv
<1> QED
  BY <1>1, NextTypeOK, PTL DEF Spec

(* The invariant holds in every reachable state. *)
THEOREM Invariance == Spec => []IInv
  BY InitIInv, NextIInv, PTL DEF Spec

(* The headroom check of _sdk_call protects the call: the session cannot
   change hands while a guarded call is in flight. *)
THEOREM CallsOwnTheSession == Spec => []CallOwnsSession
<1>1. IInv => CallOwnsSession
  BY CallOutlived DEF CallOwnsSession, IInv, CallInv
<1> QED
  BY <1>1, Invariance, PTL

(* Guarded calls of different processes never overlap. *)
THEOREM CallsAreExclusive == Spec => []ExclusiveCall
<1>1. IInv => ExclusiveCall
  BY DEF ExclusiveCall, IInv, CallInv, Owns
<1> QED
  BY <1>1, Invariance, PTL

(* A fencing token is held by one process only, stale holders included. *)
THEOREM TokensAreUnique == Spec => []FenceNamesOneOwner
<1>1. IInv => FenceNamesOneOwner
  BY DEF FenceNamesOneOwner, IInv, TokenInv
<1> QED
  BY <1>1, Invariance, PTL

(* The row changes hands only after its expiry, and with a larger token. *)
THEOREM TakeoversAreLate == Spec => TakeoverOnlyAfterExpiry
<1> DEFINE Step == /\ row'.fence >= row.fence
                   /\ row'.owner # row.owner =>
                        row'.fence > row.fence /\ row.expires <= clock
<1>1. IInv /\ [Next]_vars => [Step]_vars
  <2> SUFFICES ASSUME IInv, Next PROVE Step
    OBVIOUS
  <2> USE DEF IInv, TypeOK
  <2>1. CASE Tick
    BY <2>1 DEF Tick
  <2>2. ASSUME NEW o \in Owners, AcquireCommit(o) PROVE Step
    <3>1. store[o].at <= clock /\ (row.fence = 0 => row.expires = 0)
      BY DEF ClockInv
    <3> QED
      BY <2>2, <3>1 DEF AcquireCommit, GrantedFence
  <2>3. ASSUME NEW o \in Owners, OwnerStep(o), ~AcquireCommit(o) PROVE Step
    BY <2>3 DEF OwnerStep, AcquireCall, AcquireConflict, RenewCall, RenewCommit,
       RenewFenceLost, RenewError, ReleaseCall, ReleaseCommit, RpcCall, RpcCheck,
       RpcStart, RpcEnd, Crash
  <2> QED
    BY <2>1, <2>2, <2>3 DEF Next
<1> QED
  BY <1>1, Invariance, PTL DEF Spec, TakeoverOnlyAfterExpiry

-----------------------------------------------------------------------------
(***************************************************************************)
(* SubmissionReactions.  Its inductive invariant.  Shutdowns and render     *)
(* failures hide what was before them, as deep as they follow each other;   *)
(* instead of an induction over that depth the invariant says that there is *)
(* a set of resumes that has, with each one, the one it hides.              *)
(***************************************************************************)

States == {"none", "accepted", "reasoning", "action", "unresolved", "failed", "succeeded"}
Final(state) == state \in {"succeeded", "failed"}
\* The submission is complete, or was.
Done == sub = "complete" \/ reopened

\* A set of resumes that has what its members hide.  A resume is nested as deep as
\* shutdowns and render failures followed each other.
Chain(S, done) ==
  \A x \in S :
    /\ x.kind = "work" => x.state \in Work
    /\ x.kind \in {"shutdown", "render"} =>
         /\ x.state \in States \ {"none"} /\ x.resume \in S /\ x.term \in BOOLEAN
         /\ x.term <=> Final(x.state)
         /\ x.state = "succeeded" => done

ReactionRows(S) == [state : States, resume : S, rev : Nat, term : BOOLEAN, f : Nat,
                    dstate : States, drev : Nat]
Payloads == [state : States, rev : Nat, f : Nat, fin : BOOLEAN]
OutboxRows == [st : {"none", "pending", "sending", "sent", "blocked"}, revised : BOOLEAN,
               payload : Payloads, text : BOOLEAN]
Admissions == {"none", "accepted", "failed"}
AdmissionRows == [st : {"none", "pending", "sending", "sent", "blocked", "superseded"}, revised : BOOLEAN,
                  state : Admissions, prev : Admissions, sup : BOOLEAN]
Recovering == {"recover", "requeue", "drop"}
Delivering == {"add", "remove", "finish"}
Hands == [pc : {"idle", "start", "restore", "check"} \cup Recovering \cup Delivering,
          lane : {"none", "reaction", "admission"}, payload : Payloads, prev : States, seen : Payloads]
Pumps == [pc : {"idle", "read", "write"}, seen : Payloads]

\* The row of submission_reactions, whatever its resume hides.
RowOK(x, done) ==
  /\ \E S : Chain(S, done) /\ x \in ReactionRows(S)
  /\ x.term <=> Final(x.state)
  /\ x.state = "succeeded" => done
  /\ x.drev <= x.rev

Types ==
  /\ sub \in {"none", "active", "complete", "failed"}
  /\ out \in OutboxRows /\ a \in AdmissionRows /\ d \in Hands /\ pump \in Pumps
  /\ fence \in Nat /\ live \in BOOLEAN /\ reopened \in BOOLEAN /\ crossed \in BOOLEAN

\* The rows come and go with the submission.
ShapeInv ==
  /\ sub = "none" => r = NoReaction /\ out = NoOutbox /\ ~a.sup /\ pump = NoPump /\ d.seen = NoPayload
  /\ sub # "none" => r.state # "none" /\ r.rev >= 1 /\ out.st # "none" /\ a.sup
  /\ a.state # "none" => a.st # "none"

\* A payload that was made from the row x: the row can only have moved on.
PastOf(x, p) == p.rev <= x.rev /\ (p.rev = x.rev => p.state = x.state /\ p.fin = x.term)
PastInv == PastOf(r, out.payload) /\ PastOf(r, d.seen) /\ PastOf(r, pump.seen)

\* The payload of a failure is never ahead of the row's owner.
FenceInv ==
  /\ r.f <= fence /\ d.seen.f <= fence /\ pump.seen.f <= fence
  /\ out.payload.rev = r.rev /\ r.state = "failed" => out.payload.f <= r.f

Delivered(x) == x.state # "none" /\ x.dstate = x.state /\ x.drev = x.rev
\* An outcome that no other recovery queues, or has queued wrongly.
Owed == r.term /\ ~crossed /\ pump.pc = "idle"

\* What is recorded as delivered is on the message, and so is an outcome whose row is sent,
\* or is about to be without a delivery.
SentInv ==
  /\ Delivered(r) => r.state \in shown
  /\ out.st = "sent" => ~out.text
  /\ out.revised => out.st = "sending"
  /\ Owed /\ out.st = "sent" /\ r.state \notin shown =>
       d.pc = "start" \/ (d.pc = "restore" /\ d.seen # NoPayload)
  /\ Owed /\ d.lane = "reaction" /\ ~out.revised =>
       /\ d.pc = "drop" => r.state \in shown
       /\ d.pc = "requeue" /\ ~d.seen.fin => r.state \in shown
       /\ d.pc \in Delivering => r.state = d.payload.state

\* A payload that was found not to be current does not become current again.
StaleInv ==
  ~crossed /\ ~out.revised =>
    /\ d.pc \in Recovering /\ r.term /\ out.payload.rev = r.rev =>
         out.payload.f # r.f /\ (r.state = "failed" => out.payload.f < r.f)
    /\ d.pc = "requeue" /\ d.seen.fin => out.payload # d.seen

\* One item is in hand, and the lane of the admission comes first.
LaneInv ==
  /\ d.lane = "none" <=> d.pc \in {"idle", "start", "restore"}
  /\ d.pc \in {"check"} \cup Recovering => d.lane = "reaction"
  /\ out.st = "sending" <=> d.lane = "reaction"
  /\ a.st = "sending" <=> d.lane = "admission"
  /\ a.st \in {"pending", "sending"} => out.st \notin {"sending", "sent"} /\ r.drev = 0

\* The item in hand is the row's unless the row was revised since.
HandInv ==
  d.lane = "reaction" =>
    /\ d.pc \in {"check"} \cup Delivering /\ ~out.revised => d.payload = out.payload
    /\ d.pc \in Delivering => PastOf(r, d.payload) /\ r.drev <= d.payload.rev
    /\ d.pc \in {"remove", "finish"} => d.payload.state \in shown

ReactionInv == /\ Types /\ RowOK(r, Done) /\ ShapeInv /\ PastInv /\ FenceInv /\ SentInv
               /\ StaleInv /\ LaneInv /\ HandInv

---------------------------------------------------------------------------
(* Rows and payloads.                                                      *)

LEMMA NoPayloadType == NoPayload \in Payloads
  BY DEF NoPayload, Payloads, States

LEMMA ReactionsBegin == ReactionsInit => ReactionInv
  <1> SUFFICES ASSUME ReactionsInit PROVE ReactionInv
    OBVIOUS
  <1>1. Types
    <2>1. NoOutbox \in OutboxRows
      BY NoPayloadType DEF NoOutbox, OutboxRows
    <2>2. NoAdmission \in AdmissionRows
      BY DEF NoAdmission, AdmissionRows, Admissions
    <2>3. Idle \in Hands /\ NoPump \in Pumps
      BY NoPayloadType DEF Idle, NoPump, Hands, Pumps, States
    <2> QED BY <2>1, <2>2, <2>3 DEF ReactionsInit, Types
  <1>2. Chain({NoResume}, Done)
    BY DEF Chain, NoResume
  <1>3. r \in ReactionRows({NoResume})
    BY DEF ReactionsInit, NoReaction, ReactionRows, States
  <1>4. RowOK(r, Done)
    BY <1>2, <1>3 DEF RowOK, ReactionsInit, NoReaction, Final
  <1>5. ShapeInv /\ PastInv /\ FenceInv
    <2>1. /\ r.rev = 0 /\ r.state = "none" /\ r.term = FALSE /\ r.f = 0
          /\ NoPayload.rev = 0 /\ NoPayload.state = "none" /\ NoPayload.fin = FALSE /\ NoPayload.f = 0
          /\ out.payload = NoPayload /\ d.seen = NoPayload /\ pump.seen = NoPayload /\ fence = 1
      BY DEF ReactionsInit, NoReaction, NoOutbox, NoPayload, Idle, NoPump
    <2>2. PastOf(r, NoPayload)
      <3>1. NoPayload.rev <= r.rev
        BY <2>1
      <3>2. NoPayload.state = r.state /\ NoPayload.fin = r.term
        BY <2>1, Zenon
      <3> QED BY <3>1, <3>2, Zenon DEF PastOf
    <2>3. PastInv
      BY <2>1, <2>2 DEF PastInv
    <2>4. 0 <= 1
      OBVIOUS
    <2>5. FenceInv
      BY <2>1, <2>4 DEF FenceInv
    <2> QED BY <2>1, <2>3, <2>5 DEF ReactionsInit, ShapeInv, NoAdmission
  <1>6. SentInv /\ StaleInv /\ LaneInv /\ HandInv
    BY DEF ReactionsInit, SentInv, StaleInv, LaneInv, HandInv, NoReaction, NoOutbox, NoAdmission,
      Idle, NoPump, Delivered, Owed, Recovering, Delivering
  <1> QED BY <1>1, <1>4, <1>5, <1>6 DEF ReactionInv

\* The fields of the row.
LEMMA RowTypes ==
  ASSUME NEW x, NEW done, RowOK(x, done)
  PROVE  /\ x.state \in States /\ x.rev \in Nat /\ x.f \in Nat /\ x.term \in BOOLEAN
         /\ x.dstate \in States /\ x.drev \in Nat /\ x.drev <= x.rev
  BY DEF RowOK, ReactionRows

LEMMA RowNow ==
  ASSUME ReactionInv
  PROVE  /\ r.state \in States /\ r.rev \in Nat /\ r.f \in Nat /\ r.term \in BOOLEAN
         /\ r.dstate \in States /\ r.drev \in Nat /\ r.drev <= r.rev
         /\ out \in OutboxRows /\ a \in AdmissionRows /\ d \in Hands /\ pump \in Pumps /\ fence \in Nat
  BY RowTypes DEF ReactionInv, Types

\* A step of the reaction's row: it is revised, or keeps its state.
Onward(x, y) ==
  /\ y.state # "none" /\ y.dstate = x.dstate /\ y.drev = x.drev
  /\ y.f \in Nat /\ y.f <= fence
  /\ \/ y.rev > x.rev
     \/ /\ y.rev = x.rev /\ y.state = x.state /\ y.term = x.term
        /\ y.f = x.f \/ (y.state = "failed" /\ y.f = fence)

\* The row is queued as it is now.
Fresh(y, entry, new) ==
  /\ new \in OutboxRows /\ new.text
  /\ new.payload.rev = y.rev /\ new.payload.state = y.state /\ new.payload.fin = y.term
  /\ y.state = "failed" => new.payload.f <= y.f
  /\ new.st = IF entry.st = "sending" THEN "sending" ELSE "pending"
  /\ new.revised <=> entry.st = "sending"

Follows(x, y, entry, new) == (new = entry /\ y.rev = x.rev) \/ Fresh(y, entry, new)

LEMMA PayloadOfType ==
  ASSUME NEW x, x.state \in States, x.rev \in Nat, x.f \in Nat, x.term \in BOOLEAN
  PROVE  PayloadOf(x) \in Payloads
  BY DEF PayloadOf, Payloads

LEMMA QueuedRow ==
  ASSUME NEW entry \in OutboxRows, NEW p \in Payloads
  PROVE  LET new == Queued(entry, p)
         IN /\ new \in OutboxRows /\ new.payload = p /\ new.text
            /\ \/ new = entry /\ entry.payload = p /\ entry.text
               \/ /\ new.st = IF entry.st = "sending" THEN "sending" ELSE "pending"
                  /\ new.revised <=> entry.st = "sending"
                  /\ ~(entry.payload = p /\ entry.text)
  <1>1. CASE entry.payload = p /\ entry.text
    <2>1. Queued(entry, p) = entry
      BY <1>1 DEF Queued
    <2> QED BY <1>1, <2>1
  <1>2. CASE ~(entry.payload = p /\ entry.text)
    <2> DEFINE new == [entry EXCEPT !.st = Upsert(entry.st), !.revised = entry.st = "sending", !.payload = p, !.text = TRUE]
    <2>1. Queued(entry, p) = new
      BY <1>2 DEF Queued
    <2>2. PICK st \in {"pending", "sending"} : st = Upsert(entry.st)
      BY DEF Upsert
    <2>3. PICK b \in BOOLEAN : b = (entry.st = "sending")
      OBVIOUS
    <2>4. new = [entry EXCEPT !.st = st, !.revised = b, !.payload = p, !.text = TRUE]
      BY <2>2, <2>3
    <2>5. new \in OutboxRows /\ new.payload = p /\ new.text /\ new.st = st /\ new.revised = b
      BY <2>4 DEF OutboxRows
    <2> HIDE DEF new
    <2> QED BY <1>2, <2>1, <2>2, <2>3, <2>5 DEF Upsert
  <1> QED BY <1>1, <1>2

\* What raises the revision is queued.
LEMMA FollowRow ==
  ASSUME NEW x, NEW y, NEW done, RowOK(x, done), RowOK(y, done), Onward(x, y),
         NEW entry \in OutboxRows, entry.payload.rev <= x.rev
  PROVE  Follows(x, y, entry, Follow(entry, x, y)) /\ Follow(entry, x, y).payload.rev <= y.rev
  <1>1. x.rev \in Nat /\ y.rev \in Nat /\ entry.payload.rev \in Nat /\ PayloadOf(y) \in Payloads /\ y.f \in Nat
    BY RowTypes, PayloadOfType DEF OutboxRows, Payloads
  <1>2. CASE y.rev > x.rev
    <2>1. Follow(entry, x, y) = Queued(entry, PayloadOf(y))
      BY <1>2 DEF Follow
    <2>2. entry.payload # PayloadOf(y)
      BY <1>1, <1>2 DEF PayloadOf
    <2>3. /\ PayloadOf(y).rev = y.rev /\ PayloadOf(y).state = y.state /\ PayloadOf(y).fin = y.term
          /\ PayloadOf(y).f = y.f
      BY DEF PayloadOf
    <2> QED BY <1>1, <2>1, <2>2, <2>3, QueuedRow DEF Follows, Fresh
  <1>3. CASE ~(y.rev > x.rev)
    <2>1. Follow(entry, x, y) = entry /\ y.rev = x.rev
      BY <1>1, <1>3 DEF Follow, Onward
    <2> QED BY <2>1 DEF Follows
  <1> QED BY <1>2, <1>3

LEMMA Compose ==
  ASSUME NEW x, NEW y, NEW z, NEW done, RowOK(x, done), RowOK(y, done), RowOK(z, done),
         Onward(x, y), Onward(y, z), fence \in Nat, x.f <= fence,
         NEW e0, NEW e1, NEW e2, Follows(x, y, e0, e1), Follows(y, z, e1, e2)
  PROVE  Onward(x, z) /\ Follows(x, z, e0, e2)
  <1>1. /\ x.rev \in Nat /\ y.rev \in Nat /\ z.rev \in Nat /\ x.f \in Nat /\ y.f \in Nat /\ z.f \in Nat
    BY RowTypes
  <1>2. Onward(x, z)
    BY <1>1 DEF Onward
  <1>3. CASE Fresh(z, e1, e2)
    <2>1. e1.st = "sending" <=> e0.st = "sending"
      BY DEF Follows, Fresh
    <2> QED BY <1>2, <1>3, <2>1 DEF Follows, Fresh
  <1>4. CASE e2 = e1 /\ z.rev = y.rev
    <2>1. z.state = y.state /\ z.term = y.term /\ y.f <= z.f
      BY <1>1, <1>4 DEF Onward
    <2>2. CASE e1 = e0 /\ y.rev = x.rev
      BY <1>2, <1>4, <2>2 DEF Follows
    <2>3. CASE Fresh(y, e0, e1)
      <3>1. e1.payload.f \in Nat
        BY <2>3 DEF Fresh, OutboxRows, Payloads
      <3>2. y.state = "failed" => e1.payload.f <= z.f
        BY <1>1, <2>1, <2>3, <3>1 DEF Fresh
      <3> QED BY <1>2, <1>4, <2>1, <2>3, <3>2 DEF Follows, Fresh
    <2> QED BY <2>2, <2>3 DEF Follows
  <1> QED BY <1>3, <1>4 DEF Follows

LEMMA PastKept ==
  ASSUME NEW x, NEW y, NEW p, p.rev \in Nat, x.rev \in Nat, y.rev \in Nat, PastOf(x, p), Onward(x, y)
  PROVE  PastOf(y, p)
  BY DEF PastOf, Onward

---------------------------------------------------------------------------
(* What the reducer does to the rows.                                      *)

\* A step of the reducer keeps the invariant when the outbox follows the row, or when
\* the row was finished and keeps its state.
LEMMA ReducerStep ==
  ASSUME ReactionInv, Aside, pump' = pump, sub # "none", sub' \in {"active", "complete", "failed"},
         reopened' \in BOOLEAN, RowOK(r', Done'), Onward(r, r'),
         Follows(r, r', out, out') \/ (out' = out /\ r.term /\ r'.term /\ r'.state = r.state)
  PROVE  ReactionInv'
  <1>1. /\ r.rev \in Nat /\ r.f \in Nat /\ r.drev \in Nat /\ r.drev <= r.rev
        /\ out \in OutboxRows /\ a \in AdmissionRows /\ d \in Hands /\ pump \in Pumps /\ fence \in Nat
    BY RowNow
  <1>2. r'.rev \in Nat /\ r'.f \in Nat /\ r'.drev \in Nat /\ r'.drev <= r'.rev
    BY RowTypes
  <1>3. a' = a /\ fence' = fence /\ live' = live /\ d' = d /\ shown' = shown /\ crossed' = crossed
    BY DEF Aside
  <1>4. /\ r.state # "none" /\ r.rev >= 1 /\ out.st # "none" /\ a.sup /\ (a.state # "none" => a.st # "none")
    BY DEF ReactionInv, ShapeInv
  <1>5. /\ out'.st # "none" /\ (out'.st = "sending" <=> out.st = "sending")
        /\ out' = out \/ (out.st = "sending" <=> out'.revised)
        /\ out'.st = "sent" => out' = out
        /\ out' \in OutboxRows
    BY <1>1, <1>4 DEF Follows, Fresh
  <1>6. Types'
    BY <1>3, <1>5 DEF ReactionInv, Types
  <1>7. ShapeInv'
    BY <1>1, <1>2, <1>3, <1>4, <1>5 DEF ShapeInv, Onward
  <1>8. /\ out.payload.rev \in Nat /\ out.payload.f \in Nat /\ d.seen.rev \in Nat /\ pump.seen.rev \in Nat
        /\ d.payload.rev \in Nat
    BY <1>1 DEF OutboxRows, Hands, Pumps, Payloads
  <1>9. PastOf(r', out.payload) /\ PastOf(r', d.seen) /\ PastOf(r', pump.seen)
    BY <1>1, <1>2, <1>8, PastKept DEF ReactionInv, PastInv
  <1>10. PastInv'
    <2>1. PastOf(r', out'.payload)
      BY <1>2, <1>9 DEF Follows, Fresh, PastOf
    <2> QED BY <1>3, <1>9, <2>1 DEF PastInv
  <1>11. FenceInv'
    <2>1. r'.f <= fence /\ d.seen.f <= fence /\ pump.seen.f <= fence /\ r.f <= fence
      BY DEF ReactionInv, FenceInv, Onward
    <2>2. ASSUME out'.payload.rev = r'.rev, r'.state = "failed" PROVE out'.payload.f <= r'.f
      <3>1. CASE Fresh(r', out, out')
        BY <2>2, <3>1 DEF Fresh
      <3>2. CASE out' = out
        <4>1. r'.rev = r.rev /\ r.state = "failed"
          BY <1>1, <1>2, <1>8, <2>2, <3>2 DEF ReactionInv, PastInv, PastOf, Onward
        <4>2. out.payload.f <= r.f /\ (r'.f = r.f \/ r'.f = fence)
          BY <1>1, <1>2, <2>2, <3>2, <4>1 DEF ReactionInv, FenceInv, Onward
        <4> QED BY <1>1, <1>8, <2>1, <3>2, <4>2
      <3> QED BY <3>1, <3>2 DEF Follows
    <2> QED BY <1>3, <2>1, <2>2 DEF FenceInv
  <1>17. r'.rev > r.rev \/ r'.rev = r.rev
    BY DEF Onward
  <1>18. r'.rev = r.rev => /\ r'.state = r.state /\ (r'.term <=> r.term)
                           /\ r'.f = r.f \/ (r.state = "failed" /\ r'.f = fence)
    <2>1. r'.rev = r.rev => ~(r'.rev > r.rev)
      BY <1>1, <1>2
    <2>2. r'.term \in BOOLEAN /\ r.term \in BOOLEAN
      BY RowNow, RowTypes
    <2> QED BY <2>1, <2>2 DEF Onward
  <1>19. out.payload.rev <= r.rev
    BY DEF ReactionInv, PastInv, PastOf
  <1>12. out' = out /\ r'.term => r.term /\ r'.state = r.state
    <2>1. ASSUME out' = out PROVE r'.rev = r.rev \/ (r.term /\ r'.term /\ r'.state = r.state)
      <3>1. CASE Follows(r, r', out, out')
        <4>1. CASE Fresh(r', out, out')
          <5>1. out.payload.rev = r'.rev
            BY <2>1, <4>1 DEF Fresh
          <5> QED BY <1>1, <1>2, <1>8, <1>17, <1>19, <5>1
        <4> QED BY <3>1, <4>1 DEF Follows
      <3> QED BY <3>1
    <2> QED BY <2>1, <1>18
  <1>13. SentInv'
    <2>1. Delivered(r') => Delivered(r) /\ r'.state = r.state
      BY <1>1, <1>2, <1>4 DEF Delivered, Onward
    <2>2. Delivered(r') => r'.state \in shown'
      BY <2>1, <1>3 DEF ReactionInv, SentInv
    <2>3. (out'.st = "sent" => ~out'.text) /\ (out'.revised => out'.st = "sending")
      BY <1>5 DEF ReactionInv, SentInv
    <2>4. Owed' /\ out'.st = "sent" /\ r'.state \notin shown' =>
            d'.pc = "start" \/ (d'.pc = "restore" /\ d'.seen # NoPayload)
      BY <1>3, <1>5, <1>12 DEF ReactionInv, SentInv, Owed
    <2>5. ASSUME Owed', d'.lane = "reaction", ~out'.revised
          PROVE  /\ d'.pc = "drop" => r'.state \in shown'
                 /\ d'.pc = "requeue" /\ ~d'.seen.fin => r'.state \in shown'
                 /\ d'.pc \in Delivering => r'.state = d'.payload.state
      <3>1. out.st = "sending"
        BY <1>3, <2>5 DEF ReactionInv, LaneInv
      <3>2. out' = out
        BY <1>5, <2>5, <3>1
      <3> QED BY <1>3, <1>12, <2>5, <3>2 DEF ReactionInv, SentInv, Owed
    <2> QED BY <2>2, <2>3, <2>4, <2>5 DEF SentInv
  <1>14. StaleInv'
    <2> SUFFICES ASSUME ~crossed', ~out'.revised
                 PROVE  /\ d'.pc \in Recovering /\ r'.term /\ out'.payload.rev = r'.rev =>
                             out'.payload.f # r'.f /\ (r'.state = "failed" => out'.payload.f < r'.f)
                        /\ d'.pc = "requeue" /\ d'.seen.fin => out'.payload # d'.seen
      BY DEF StaleInv
    <2>1. d.pc \in Recovering => out' = out
      BY <1>5 DEF ReactionInv, LaneInv
    <2>2. d.pc = "requeue" /\ d.seen.fin => out.payload # d.seen
      BY <1>3, <2>1 DEF ReactionInv, StaleInv, Recovering
    <2>3. ASSUME d.pc \in Recovering, r'.term, out'.payload.rev = r'.rev
          PROVE  out'.payload.f # r'.f /\ (r'.state = "failed" => out'.payload.f < r'.f)
      <3>1. out' = out /\ r'.rev = r.rev
        BY <1>1, <1>2, <1>8, <1>17, <1>19, <2>1, <2>3
      <3>2. /\ r'.state = r.state /\ r.term /\ (r'.f = r.f \/ (r.state = "failed" /\ r'.f = fence))
        BY <1>18, <2>3, <3>1
      <3>3. out.payload.f # r.f /\ (r.state = "failed" => out.payload.f < r.f) /\ r.f <= fence
        BY <1>3, <2>3, <3>1, <3>2 DEF ReactionInv, StaleInv, FenceInv
      <3> QED BY <1>1, <1>8, <3>1, <3>2, <3>3
    <2> QED BY <1>3, <2>1, <2>2, <2>3 DEF Recovering
  <1>15. LaneInv'
    BY <1>3, <1>5 DEF ReactionInv, LaneInv, Onward
  <1>16. HandInv'
    <2> SUFFICES ASSUME d.lane = "reaction"
                 PROVE  /\ d.pc \in {"check"} \cup Delivering /\ ~out'.revised => d.payload = out'.payload
                        /\ d.pc \in Delivering => PastOf(r', d.payload) /\ r'.drev <= d.payload.rev
                        /\ d.pc \in {"remove", "finish"} => d.payload.state \in shown
      BY <1>3 DEF HandInv
    <2>1. ~out'.revised => out' = out
      BY <1>5 DEF ReactionInv, LaneInv
    <2>2. /\ d.pc \in {"check"} \cup Delivering /\ ~out.revised => d.payload = out.payload
          /\ d.pc \in Delivering => PastOf(r, d.payload) /\ r.drev <= d.payload.rev
          /\ d.pc \in {"remove", "finish"} => d.payload.state \in shown
      BY DEF ReactionInv, HandInv
    <2>3. d.pc \in Delivering => PastOf(r', d.payload) /\ r'.drev <= d.payload.rev
      BY <1>1, <1>2, <1>8, <2>2, PastKept DEF Onward
    <2> QED BY <2>1, <2>2, <2>3
  <1> QED BY <1>6, <1>7, <1>10, <1>11, <1>13, <1>14, <1>15, <1>16 DEF ReactionInv

\* A chain for whatever the next row may hide.
LEMMA RowChain ==
  ASSUME NEW x, NEW done, RowOK(x, done), x.state # "none"
  PROVE  \E S : /\ Chain(S, done) /\ x \in ReactionRows(S)
                /\ Encoded(x, "shutdown") \in S /\ Encoded(x, "render") \in S
                /\ \A s \in Work : [kind |-> "work", state |-> s] \in S
                /\ NoResume \in S /\ [kind |-> "lost"] \in S
                /\ x.resume.kind = "work" => x.resume.state \in Work
                /\ x.resume.kind \in {"shutdown", "render"} =>
                     /\ x.resume.state \in States \ {"none"} /\ x.resume.resume \in S
                     /\ x.resume.term \in BOOLEAN /\ (x.resume.term <=> Final(x.resume.state))
                     /\ x.resume.state = "succeeded" => done
  <1>1. PICK S0 : Chain(S0, done) /\ x \in ReactionRows(S0)
    BY DEF RowOK
  <1> DEFINE works == {[kind |-> "work", state |-> s] : s \in Work}
             S == S0 \cup {Encoded(x, "shutdown"), Encoded(x, "render")} \cup works \cup {NoResume, [kind |-> "lost"]}
  <1>2. /\ x.state \in States \ {"none"} /\ x.resume \in S /\ x.resume \in S0 /\ x.term \in BOOLEAN
        /\ x.term <=> Final(x.state)
        /\ x.state = "succeeded" => done
    BY <1>1 DEF ReactionRows, RowOK
  <1>3. Chain(S, done)
    <2> SUFFICES ASSUME NEW y \in S
                 PROVE  /\ y.kind = "work" => y.state \in Work
                        /\ y.kind \in {"shutdown", "render"} =>
                             /\ y.state \in States \ {"none"} /\ y.resume \in S /\ y.term \in BOOLEAN
                             /\ y.term <=> Final(y.state)
                             /\ y.state = "succeeded" => done
      BY DEF Chain
    <2>1. CASE y \in S0
      BY <2>1, <1>1 DEF Chain
    <2>2. CASE y \in {Encoded(x, "shutdown"), Encoded(x, "render")}
      <3>1. y.kind \in {"shutdown", "render"} /\ y.state = x.state /\ y.resume = x.resume /\ y.term = x.term
        BY <2>2 DEF Encoded
      <3> HIDE DEF S
      <3> QED BY <3>1, <1>2
    <2>3. CASE y \in works
      BY <2>3
    <2>4. CASE y \in {NoResume, [kind |-> "lost"]}
      <3>1. y.kind \in {"none", "lost"}
        BY <2>4 DEF NoResume
      <3> QED BY <3>1
    <2> QED BY <2>1, <2>2, <2>3, <2>4
  <1>4. x \in ReactionRows(S)
    BY <1>1 DEF ReactionRows
  <1>5. /\ Encoded(x, "shutdown") \in S /\ Encoded(x, "render") \in S
        /\ \A s \in Work : [kind |-> "work", state |-> s] \in S
        /\ NoResume \in S /\ [kind |-> "lost"] \in S
    OBVIOUS
  <1> HIDE DEF S
  <1>6. /\ x.resume.kind = "work" => x.resume.state \in Work
        /\ x.resume.kind \in {"shutdown", "render"} =>
             /\ x.resume.state \in States \ {"none"} /\ x.resume.resume \in S
             /\ x.resume.term \in BOOLEAN /\ (x.resume.term <=> Final(x.resume.state))
             /\ x.resume.state = "succeeded" => done
    BY <1>2, <1>3 DEF Chain
  <1> QED BY <1>3, <1>4, <1>5, <1>6

\* The row as a reducer's action finds it, for what is then known of the submission.
LEMMA RowThen ==
  ASSUME ReactionInv, sub # "none", Done => Done'
  PROVE  RowOK(r, Done') /\ r.state # "none" /\ r.f <= fence /\ fence \in Nat
  <1>1. PICK S : Chain(S, Done) /\ r \in ReactionRows(S)
    BY DEF ReactionInv, RowOK
  <1>2. Chain(S, Done')
    BY <1>1 DEF Chain
  <1> QED BY <1>1, <1>2 DEF ReactionInv, RowOK, ShapeInv, FenceInv, Types

\* _set_submission_reaction
LEMMA MovedRow ==
  ASSUME NEW x, NEW s, NEW done, NEW state \in States \ {"none"}, NEW shutdown \in BOOLEAN, RowOK(x, done),
         x.state # "none", fence \in Nat, x.f <= fence, state = "succeeded" => done
  PROVE  LET y == Moved(x, s, state, shutdown) IN RowOK(y, done) /\ Onward(x, y)
  <1>1. PICK S : /\ Chain(S, done) /\ x \in ReactionRows(S)
                 /\ Encoded(x, "shutdown") \in S
                 /\ \A w \in Work : [kind |-> "work", state |-> w] \in S
                 /\ x.resume.kind \in {"shutdown", "render"} => x.resume.resume \in S
    BY RowChain
  <1>2. /\ x.rev \in Nat /\ x.drev \in Nat /\ x.f \in Nat /\ x.drev <= x.rev /\ x.term \in BOOLEAN
        /\ (x.term <=> Final(x.state)) /\ (x.state = "succeeded" => done)
    BY RowTypes DEF RowOK
  <1>3. CASE x.state = state /\ state = "failed" /\ shutdown
    <2> DEFINE y == [x EXCEPT !.resume = Encoded(x, "shutdown"), !.f = fence]
    <2>1. Moved(x, s, state, shutdown) = y
      BY <1>3 DEF Moved
    <2>2. y \in ReactionRows(S)
      BY <1>1 DEF ReactionRows
    <2>3. /\ y.state = x.state /\ y.term = x.term /\ y.rev = x.rev /\ y.dstate = x.dstate /\ y.drev = x.drev
          /\ y.f = fence
      BY <1>1 DEF ReactionRows
    <2> HIDE DEF y
    <2>4. fence <= fence
      OBVIOUS
    <2>5. RowOK(y, done)
      BY <1>1, <1>2, <2>2, <2>3 DEF RowOK
    <2>6. Onward(x, y)
      BY <1>1, <1>2, <1>3, <2>3, <2>4 DEF Onward
    <2> QED BY <2>1, <2>5, <2>6
  <1>4. CASE x.state = state /\ state = "failed" /\ ~shutdown /\ x.resume.kind \in {"shutdown", "render"}
    <2> DEFINE y == [x EXCEPT !.resume = x.resume.resume]
    <2>1. Moved(x, s, state, shutdown) = y
      BY <1>4 DEF Moved
    <2>2. y \in ReactionRows(S)
      BY <1>1, <1>4 DEF ReactionRows
    <2>3. /\ y.state = x.state /\ y.term = x.term /\ y.rev = x.rev /\ y.dstate = x.dstate /\ y.drev = x.drev
          /\ y.f = x.f
      BY <1>1 DEF ReactionRows
    <2> HIDE DEF y
    <2> QED BY <1>1, <1>2, <1>4, <2>1, <2>2, <2>3 DEF RowOK, Onward
  <1>5. CASE x.state # state /\ MayMove(x, s, state)
    <2> DEFINE res == IF shutdown THEN Encoded(x, "shutdown")
                      ELSE IF x.resume.kind = "shutdown" THEN x.resume.resume
                      ELSE IF state = "unresolved" /\ x.state \in Work
                           THEN [kind |-> "work", state |-> x.state] ELSE x.resume
               t == state \in {"succeeded", "failed"}
               y == [x EXCEPT !.state = state, !.rev = x.rev + 1, !.term = t, !.f = fence, !.resume = res]
    <2>1. Moved(x, s, state, shutdown) = y
      BY <1>5 DEF Moved
    <2>2. res \in S /\ t \in BOOLEAN /\ (t <=> Final(state))
      BY <1>1 DEF ReactionRows, Final
    <2>3. PICK n \in Nat : n = x.rev + 1
      BY <1>2
    <2> HIDE DEF res, t
    <2>4. y \in ReactionRows(S)
      BY <1>1, <2>2, <2>3 DEF ReactionRows
    <2>5. y.state = state /\ y.term = t /\ y.rev = n /\ y.dstate = x.dstate /\ y.drev = x.drev /\ y.f = fence
      BY <1>1, <2>3 DEF ReactionRows
    <2> HIDE DEF y
    <2> QED BY <1>1, <1>2, <2>1, <2>2, <2>3, <2>4, <2>5 DEF RowOK, Onward
  <1>6. CASE /\ ~(x.state = state /\ state = "failed" /\ shutdown)
             /\ ~(x.state = state /\ state = "failed" /\ ~shutdown /\ x.resume.kind \in {"shutdown", "render"})
             /\ ~(x.state # state /\ MayMove(x, s, state))
    <2>1. Moved(x, s, state, shutdown) = x
      BY <1>6 DEF Moved
    <2> QED BY <1>2, <2>1 DEF RowOK, Onward
  <1> QED BY <1>3, <1>4, <1>5, <1>6

LEMMA SettledRow ==
  ASSUME NEW x, NEW s, NEW done, RowOK(x, done), x.state # "none", fence \in Nat, x.f <= fence,
         s = "complete" => done
  PROVE  RowOK(Settled(x, s), done) /\ Onward(x, Settled(x, s))
  <1>1. CASE x.term \/ s \notin {"complete", "failed"}
    <2>1. Settled(x, s) = x
      BY <1>1 DEF Settled
    <2> QED BY <2>1, RowTypes DEF Onward
  <1>2. CASE ~(x.term \/ s \notin {"complete", "failed"})
    <2>1. PICK to \in {"succeeded", "failed"} :
             to = (IF s = "complete" THEN "succeeded" ELSE "failed")
      OBVIOUS
    <2>2. Settled(x, s) = Moved(x, s, to, FALSE) /\ to \in States \ {"none"} /\ (to = "succeeded" => done)
      BY <1>2, <2>1 DEF Settled, States
    <2> QED BY <2>2, MovedRow
  <1> QED BY <1>1, <1>2

---------------------------------------------------------------------------
(* The reducer.                                                            *)

LEMMA ApplyStep ==
  ASSUME ReactionInv, Aside, pump' = pump, sub # "none", sub' = sub, reopened' = reopened,
         NEW state \in Moves \cup {"failed"}, NEW shutdown \in BOOLEAN, Apply(state, shutdown)
  PROVE  ReactionInv'
  <1> DEFINE x == Settled(r, sub)
             to == IF state # "resume" THEN state
                   ELSE IF x.resume.kind = "work" THEN x.resume.state ELSE "reasoning"
             e == Follow(out, r, x)
  <1>1. /\ r' = Moved(x, sub, to, shutdown) /\ out' = Follow(e, x, r')
        /\ sub \in {"active", "complete", "failed"} /\ reopened' \in BOOLEAN /\ (Done => Done')
        /\ sub = "complete" => Done'
    BY DEF Apply, ReactionInv, Types, Done
  <1>2. RowOK(r, Done') /\ r.state # "none" /\ r.f <= fence /\ fence \in Nat
    BY <1>1, RowThen
  <1>3. RowOK(x, Done') /\ Onward(r, x)
    BY <1>1, <1>2, SettledRow
  <1>4. x.state # "none" /\ x.f <= fence
    BY <1>3 DEF Onward
  <1>5. to \in States \ {"none", "succeeded"}
    <2>1. x.resume.kind = "work" => x.resume.state \in Work
      BY <1>3, <1>4, RowChain
    <2> HIDE DEF x
    <2> QED BY <2>1, ReactionsAssumption DEF States, Work
  <1> HIDE DEF x, to
  <1>6. RowOK(r', Done') /\ Onward(x, r')
    BY <1>1, <1>2, <1>3, <1>4, <1>5, MovedRow
  <1>7. out \in OutboxRows /\ out.payload.rev <= r.rev
    BY DEF ReactionInv, Types, PastInv, PastOf
  <1>8. Follows(r, x, out, e) /\ e.payload.rev <= x.rev
    BY <1>2, <1>3, <1>7, FollowRow
  <1>9. e \in OutboxRows
    BY <1>7, <1>8 DEF Follows, Fresh
  <1> HIDE DEF e
  <1>10. Follows(x, r', e, out')
    BY <1>1, <1>3, <1>6, <1>8, <1>9, FollowRow
  <1>11. Onward(r, r') /\ Follows(r, r', out, out')
    BY <1>2, <1>3, <1>6, <1>8, <1>10, Compose
  <1> QED BY <1>1, <1>6, <1>11, ReducerStep

LEMMA WorkEvent ==
  ASSUME ReactionInv, NEW state \in Moves, work_event(state)
  PROVE  ReactionInv'
  BY ApplyStep DEF work_event, Owner

LEMMA Shutdown ==
  ASSUME ReactionInv, session_shutdown
  PROVE  ReactionInv'
  BY ApplyStep DEF session_shutdown, Owner

LEMMA Ends ==
  ASSUME ReactionInv, NEW outcome \in {"complete", "failed"}, submission_ends(outcome)
  PROVE  ReactionInv'
  <1>1. /\ sub # "none" /\ sub' = outcome /\ sub' \in {"active", "complete", "failed"}
        /\ r' = Settled(r, outcome) /\ out' = Follow(out, r, r')
        /\ Aside /\ pump' = pump /\ reopened' = reopened /\ reopened' \in BOOLEAN
        /\ (Done => Done') /\ (outcome = "complete" => Done')
    BY DEF submission_ends, ReactionInv, Types, Done
  <1>2. RowOK(r, Done') /\ r.state # "none" /\ r.f <= fence /\ fence \in Nat
    BY <1>1, RowThen
  <1>3. RowOK(r', Done') /\ Onward(r, r')
    BY <1>1, <1>2, SettledRow
  <1>4. out \in OutboxRows /\ out.payload.rev <= r.rev
    BY DEF ReactionInv, Types, PastInv, PastOf
  <1>5. Follows(r, r', out, out')
    BY <1>1, <1>2, <1>3, <1>4, FollowRow
  <1> QED BY <1>1, <1>3, <1>5, ReducerStep

LEMMA Unmoved ==
  ASSUME ReactionInv, Aside, pump' = pump, UNCHANGED <<r, out>>, sub # "none",
         sub' \in {"active", "complete", "failed"}, reopened' \in BOOLEAN, Done => Done'
  PROVE  ReactionInv'
  <1>1. RowOK(r, Done') /\ r.state # "none" /\ r.f <= fence
    BY RowThen
  <1>2. Onward(r, r') /\ Follows(r, r', out, out')
    BY <1>1, RowTypes DEF Onward, Follows
  <1> QED BY <1>1, <1>2, ReducerStep

LEMMA Reopens ==
  ASSUME ReactionInv, submission_reopens
  PROVE  ReactionInv'
  <1>1. /\ sub = "complete" /\ sub' = "active" /\ reopened' = TRUE /\ UNCHANGED <<r, out>> /\ Aside
        /\ pump' = pump /\ (Done => Done')
    BY DEF submission_reopens, Done
  <1> QED BY <1>1, Unmoved

\* A row that was written and queued, its payload perhaps for another owner.
LEMMA FreshRow ==
  ASSUME ReactionInv, NEW y, NEW done, RowOK(y, done), NEW p \in Payloads,
         p.rev = y.rev, p.state = y.state, p.fin = y.term, y.state = "failed" => p.f <= y.f,
         Onward(r, y)
  PROVE  Follows(r, y, out, Queued(out, p))
  <1>1. r.rev \in Nat /\ y.rev \in Nat /\ out \in OutboxRows /\ out.payload.rev \in Nat
    BY RowNow, RowTypes DEF OutboxRows, Payloads
  <1>2. out.payload.rev <= r.rev
    BY DEF ReactionInv, PastInv, PastOf
  <1>3. out.payload = p => y.rev = r.rev
    BY <1>1, <1>2 DEF Onward
  <1> QED BY <1>1, <1>3, QueuedRow DEF Follows, Fresh

\* A failure, or what takes its place, is written to the row and queued.
LEMMA WriteStep ==
  ASSUME ReactionInv, Aside, pump' = pump, sub # "none", sub' = sub, reopened' = reopened,
         RowOK(r', Done'), Onward(r, r'), out' = Queued(out, PayloadOf(r'))
  PROVE  ReactionInv'
  <1>1. sub' \in {"active", "complete", "failed"} /\ reopened' \in BOOLEAN
    BY DEF ReactionInv, Types
  <1>2. /\ r'.state \in States /\ r'.rev \in Nat /\ r'.f \in Nat /\ r'.term \in BOOLEAN
    BY RowTypes
  <1>3. /\ PayloadOf(r') \in Payloads /\ PayloadOf(r').rev = r'.rev /\ PayloadOf(r').state = r'.state
        /\ PayloadOf(r').fin = r'.term /\ PayloadOf(r').f <= r'.f
    BY <1>2, PayloadOfType DEF PayloadOf
  <1>4. Follows(r, r', out, out')
    BY <1>3, FreshRow
  <1> QED BY <1>1, <1>4, ReducerStep

LEMMA WrittenRow ==
  ASSUME NEW x, NEW done, RowOK(x, done), NEW S, Chain(S, done), NEW y \in ReactionRows(S),
         y.state # "none", y.dstate = x.dstate, y.drev = x.drev, y.f <= fence,
         y.term <=> Final(y.state), y.state = "succeeded" => done, y.rev > x.rev
  PROVE  RowOK(y, done) /\ Onward(x, y)
  <1>1. x.rev \in Nat /\ x.drev \in Nat /\ x.drev <= x.rev /\ y.rev \in Nat /\ y.f \in Nat
    BY RowTypes DEF ReactionRows
  <1>2. y.drev <= y.rev
    BY <1>1
  <1> QED BY <1>1, <1>2 DEF RowOK, Onward

\* The row when only some of its fields are written.
LEMMA NewRow ==
  ASSUME NEW x, NEW done, RowOK(x, done), x.state # "none", fence \in Nat, x.f <= fence,
         NEW S, Chain(S, done), x \in ReactionRows(S),
         NEW state \in States \ {"none"}, NEW res \in S, NEW n \in Nat, NEW t \in BOOLEAN, NEW f \in Nat, f <= fence,
         t <=> Final(state), state = "succeeded" => done,
         n > x.rev \/ (n = x.rev /\ state = x.state /\ f = x.f)
  PROVE  LET y == [x EXCEPT !.state = state, !.resume = res, !.rev = n, !.term = t, !.f = f]
         IN RowOK(y, done) /\ Onward(x, y)
  <1> DEFINE y == [x EXCEPT !.state = state, !.resume = res, !.rev = n, !.term = t, !.f = f]
  <1>1. y \in ReactionRows(S)
    BY DEF ReactionRows
  <1>2. y.state = state /\ y.term = t /\ y.rev = n /\ y.dstate = x.dstate /\ y.drev = x.drev /\ y.f = f
    BY DEF ReactionRows
  <1>3. x.rev \in Nat /\ x.drev \in Nat /\ x.drev <= x.rev /\ (x.term <=> Final(x.state)) /\ x.term \in BOOLEAN
    BY RowTypes DEF RowOK
  <1> HIDE DEF y
  <1>4. RowOK(y, done)
    BY <1>1, <1>2, <1>3 DEF RowOK
  <1>5. state = x.state => t = x.term
    BY <1>3
  <1>6. Onward(x, y)
    BY <1>2, <1>3, <1>5 DEF Onward
  <1> QED BY <1>4, <1>6 DEF y

LEMMA Resumes ==
  ASSUME ReactionInv, session_resume
  PROVE  ReactionInv'
  <1> DEFINE x == [r EXCEPT !.state = r.resume.state, !.resume = r.resume.resume,
                            !.term = r.resume.term, !.rev = r.rev + 1, !.f = fence]
             e == Follow(out, r, x)
  <1>1. /\ sub # "none" /\ sub' = sub /\ reopened' = reopened /\ Aside /\ pump' = pump
        /\ r.resume.kind = "shutdown" /\ r' = Settled(x, sub) /\ out' = Follow(e, x, r')
        /\ sub' \in {"active", "complete", "failed"} /\ reopened' \in BOOLEAN
        /\ (Done => Done') /\ (sub = "complete" => Done')
    BY DEF session_resume, ReactionInv, ShapeInv, Types, NoReaction, Done
  <1>2. RowOK(r, Done') /\ r.state # "none" /\ r.f <= fence /\ fence \in Nat /\ r.rev \in Nat
    BY <1>1, RowThen, RowTypes
  <1>3. PICK S : /\ Chain(S, Done') /\ r \in ReactionRows(S)
                 /\ r.resume.state \in States \ {"none"} /\ r.resume.resume \in S
                 /\ r.resume.term \in BOOLEAN /\ (r.resume.term <=> Final(r.resume.state))
                 /\ r.resume.state = "succeeded" => Done'
    BY <1>1, <1>2, RowChain
  <1>4. PICK n \in Nat : n = r.rev + 1 /\ n > r.rev
    BY <1>2
  <1>5. x = [r EXCEPT !.state = r.resume.state, !.resume = r.resume.resume, !.rev = n,
                      !.term = r.resume.term, !.f = fence]
    BY <1>3, <1>4 DEF ReactionRows
  <1>6. RowOK(x, Done') /\ Onward(r, x)
    <2>1. fence <= fence
      BY <1>2
    <2>2. /\ x \in ReactionRows(S) /\ x.state = r.resume.state /\ x.term = r.resume.term /\ x.f = fence
          /\ x.rev = n /\ x.dstate = r.dstate /\ x.drev = r.drev
      BY <1>2, <1>3, <1>5 DEF ReactionRows
    <2>3. (x.term <=> Final(x.state)) /\ (x.state = "succeeded" => Done')
      BY <1>3, <2>2, Zenon
    <2> HIDE DEF x
    <2> QED BY <1>2, <1>3, <1>4, <2>1, <2>2, <2>3, WrittenRow
  <1> HIDE DEF x
  <1>7. x.state # "none" /\ x.f <= fence
    BY <1>6 DEF Onward
  <1>8. RowOK(r', Done') /\ Onward(x, r')
    BY <1>1, <1>2, <1>6, <1>7, SettledRow
  <1>9. out \in OutboxRows /\ out.payload.rev <= r.rev
    BY DEF ReactionInv, Types, PastInv, PastOf
  <1>10. Follows(r, x, out, e) /\ e.payload.rev <= x.rev
    BY <1>2, <1>6, <1>9, FollowRow
  <1>11. e \in OutboxRows
    BY <1>9, <1>10 DEF Follows, Fresh
  <1> HIDE DEF e
  <1>12. Follows(x, r', e, out')
    BY <1>1, <1>6, <1>8, <1>10, <1>11, FollowRow
  <1>13. Onward(r, r') /\ Follows(r, r', out, out')
    BY <1>2, <1>6, <1>8, <1>10, <1>12, Compose
  <1> QED BY <1>1, <1>8, <1>13, ReducerStep

\* What an action finds that writes the row.
LEMMA Writable ==
  ASSUME ReactionInv, sub # "none", sub' = sub, reopened' = reopened
  PROVE  /\ RowOK(r, Done') /\ r.state # "none" /\ r.f <= fence /\ fence \in Nat /\ r.rev \in Nat /\ r.f \in Nat
         /\ (r.term <=> Final(r.state)) /\ r.term \in BOOLEAN /\ (sub = "complete" => Done')
         /\ \E S : /\ Chain(S, Done') /\ r \in ReactionRows(S) /\ Encoded(r, "render") \in S
                   /\ NoResume \in S /\ [kind |-> "lost"] \in S /\ r.resume \in S
                   /\ r.resume.kind \in {"shutdown", "render"} =>
                        /\ r.resume.state \in States \ {"none"} /\ r.resume.resume \in S
                        /\ r.resume.term \in BOOLEAN /\ (r.resume.term <=> Final(r.resume.state))
                        /\ r.resume.state = "succeeded" => Done'
         /\ \E n \in Nat : n = r.rev + 1 /\ n > r.rev
         /\ "failed" \in States \ {"none"} /\ Final("failed") /\ "succeeded" \in States \ {"none"} /\ Final("succeeded")
  <1>1. (Done => Done') /\ (sub = "complete" => Done')
    BY DEF Done
  <1>2. RowOK(r, Done') /\ r.state # "none" /\ r.f <= fence /\ fence \in Nat
    BY <1>1, RowThen
  <1>3. /\ r.rev \in Nat /\ r.f \in Nat /\ (r.term <=> Final(r.state)) /\ r.term \in BOOLEAN
    BY <1>2, RowTypes DEF RowOK
  <1>4. PICK S : /\ Chain(S, Done') /\ r \in ReactionRows(S) /\ Encoded(r, "render") \in S
                 /\ NoResume \in S /\ [kind |-> "lost"] \in S
                 /\ r.resume.kind \in {"shutdown", "render"} =>
                      /\ r.resume.state \in States \ {"none"} /\ r.resume.resume \in S
                      /\ r.resume.term \in BOOLEAN /\ (r.resume.term <=> Final(r.resume.state))
                      /\ r.resume.state = "succeeded" => Done'
    BY <1>2, RowChain
  <1>5. r.resume \in S
    BY <1>4 DEF ReactionRows
  <1>6. \E n \in Nat : n = r.rev + 1 /\ n > r.rev
    BY <1>3
  <1>7. "failed" \in States \ {"none"} /\ Final("failed") /\ "succeeded" \in States \ {"none"} /\ Final("succeeded")
    BY DEF States, Final
  <1> QED BY <1>1, <1>2, <1>3, <1>4, <1>5, <1>6, <1>7

LEMMA RenderFails ==
  ASSUME ReactionInv, render_fails
  PROVE  ReactionInv'
  <1>1. sub # "none" /\ sub' = sub /\ reopened' = reopened /\ Aside /\ pump' = pump
    BY DEF render_fails, Owner
  <1>2. PICK again \in BOOLEAN :
          /\ again => r.state = "failed"
          /\ r' = [r EXCEPT !.state = "failed", !.term = TRUE,
                            !.rev = IF r.state = "failed" THEN r.rev ELSE r.rev + 1,
                            !.resume = IF again THEN r.resume ELSE Encoded(r, "render")]
          /\ out' = Queued(out, PayloadOf(r'))
    BY DEF render_fails, SetReaction
  <1>3. PICK S : Chain(S, Done') /\ r \in ReactionRows(S) /\ Encoded(r, "render") \in S /\ r.resume \in S
    BY <1>1, Writable
  <1>4. PICK n \in Nat : n = (IF r.state = "failed" THEN r.rev ELSE r.rev + 1)
    BY <1>1, Writable
  <1>5. PICK res \in S : res = (IF again THEN r.resume ELSE Encoded(r, "render"))
    BY <1>3
  <1>6. n > r.rev \/ (n = r.rev /\ "failed" = r.state /\ r.f = r.f)
    BY <1>1, <1>4, Writable
  <1>7. r' = [r EXCEPT !.state = "failed", !.resume = res, !.rev = n, !.term = TRUE, !.f = r.f]
    BY <1>2, <1>3, <1>4, <1>5 DEF ReactionRows
  <1>8. RowOK(r', Done') /\ Onward(r, r')
    BY <1>1, <1>3, <1>6, <1>7, Writable, NewRow
  <1> QED BY <1>1, <1>2, <1>8, WriteStep

LEMMA NewerRender ==
  ASSUME ReactionInv, newer_render_delivered
  PROVE  ReactionInv'
  <1>1. sub # "none" /\ sub' = sub /\ reopened' = reopened /\ Aside /\ pump' = pump
    BY DEF newer_render_delivered, ReactionInv, ShapeInv, NoReaction
  <1>2. /\ r.state = "failed" /\ r.term /\ r.resume.kind = "render"
        /\ sub' \in {"active", "complete", "failed"} /\ reopened' \in BOOLEAN /\ (Done => Done')
    BY <1>1 DEF newer_render_delivered, ReactionInv, Types, Done
  <1>3. PICK S : /\ Chain(S, Done') /\ r \in ReactionRows(S) /\ NoResume \in S
                 /\ r.resume.state \in States \ {"none"} /\ r.resume.resume \in S
                 /\ r.resume.term \in BOOLEAN /\ (r.resume.term <=> Final(r.resume.state))
                 /\ r.resume.state = "succeeded" => Done'
    BY <1>1, <1>2, Writable
  <1>4. PICK n \in Nat : n = r.rev + 1 /\ n > r.rev
    BY <1>1, Writable
  <1>5. CASE sub = "complete"
    <2>1. r' = [r EXCEPT !.state = "succeeded", !.resume = NoResume, !.rev = r.rev + 1]
          /\ out' = Queued(out, PayloadOf(r'))
      BY <1>5 DEF newer_render_delivered, SetReaction
    <2>2. r' = [r EXCEPT !.state = "succeeded", !.resume = NoResume, !.rev = n, !.term = TRUE, !.f = r.f]
      BY <1>2, <1>3, <1>4, <2>1, Writable, <1>1 DEF ReactionRows
    <2>3. RowOK(r', Done') /\ Onward(r, r')
      BY <1>1, <1>3, <1>4, <1>5, <2>2, Writable, NewRow
    <2> QED BY <1>1, <2>1, <2>3, WriteStep
  <1>6. CASE sub = "failed"
    <2>1. r' = [r EXCEPT !.resume = NoResume, !.rev = r.rev + 1] /\ out' = Queued(out, PayloadOf(r'))
      BY <1>6 DEF newer_render_delivered, SetReaction
    <2>2. r' = [r EXCEPT !.state = "failed", !.resume = NoResume, !.rev = n, !.term = TRUE, !.f = r.f]
      BY <1>2, <1>3, <1>4, <2>1, Writable, <1>1 DEF ReactionRows
    <2>3. RowOK(r', Done') /\ Onward(r, r')
      BY <1>1, <1>3, <1>4, <2>2, Writable, NewRow
    <2> QED BY <1>1, <2>1, <2>3, WriteStep
  <1>7. CASE sub = "active" /\ ~r.resume.term
    <2>1. r' = [r EXCEPT !.state = r.resume.state, !.resume = r.resume.resume, !.term = FALSE, !.rev = r.rev + 1]
          /\ out' = Queued(out, PayloadOf(r'))
      BY <1>7 DEF newer_render_delivered, SetReaction
    <2>2. r' = [r EXCEPT !.state = r.resume.state, !.resume = r.resume.resume, !.rev = n, !.term = FALSE, !.f = r.f]
      BY <1>3, <1>4, <2>1 DEF ReactionRows
    <2>3. FALSE \in BOOLEAN /\ (FALSE <=> Final(r.resume.state))
      BY <1>3, <1>7, Zenon
    <2>4. RowOK(r', Done') /\ Onward(r, r')
      <3>1. /\ r' \in ReactionRows(S) /\ r'.state = r.resume.state /\ r'.term = FALSE /\ r'.f = r.f
            /\ r'.rev = n /\ r'.dstate = r.dstate /\ r'.drev = r.drev
        BY <1>3, <2>2 DEF ReactionRows
      <3>2. (r'.term <=> Final(r'.state)) /\ (r'.state = "succeeded" => Done')
        BY <1>3, <2>3, <3>1, Zenon
      <3>3. RowOK(r, Done') /\ r'.f <= fence /\ r'.state # "none" /\ r'.rev > r.rev
        BY <1>1, <1>3, <1>4, <3>1, Writable
      <3> QED BY <1>3, <3>1, <3>2, <3>3, WrittenRow
    <2> QED BY <1>1, <2>1, <2>4, WriteStep
  <1>8. CASE sub = "active" /\ r.resume.term
    <2>1. UNCHANGED <<r, out>>
      BY <1>8 DEF newer_render_delivered
    <2> QED BY <1>1, <1>2, <2>1, Unmoved
  <1> QED BY <1>1, <1>2, <1>5, <1>6, <1>7, <1>8

LEMMA ContentLost ==
  ASSUME ReactionInv, content_lost
  PROVE  ReactionInv'
  <1>1. sub # "none" /\ sub' = sub /\ reopened' = reopened /\ Aside /\ pump' = pump
    BY DEF content_lost, Owner
  <1>2. /\ r' = [r EXCEPT !.state = "failed", !.resume = [kind |-> "lost"], !.term = TRUE,
                          !.rev = IF r.state = "failed" /\ r.resume.kind = "lost" THEN r.rev ELSE r.rev + 1]
        /\ out' = Queued(out, PayloadOf(r'))
    BY DEF content_lost, SetReaction
  <1>3. PICK S : Chain(S, Done') /\ r \in ReactionRows(S) /\ [kind |-> "lost"] \in S
    BY <1>1, Writable
  <1>4. PICK n \in Nat : n = (IF r.state = "failed" /\ r.resume.kind = "lost" THEN r.rev ELSE r.rev + 1)
    BY <1>1, Writable
  <1>5. n > r.rev \/ (n = r.rev /\ "failed" = r.state /\ r.f = r.f)
    BY <1>1, <1>4, Writable
  <1>6. r' = [r EXCEPT !.state = "failed", !.resume = [kind |-> "lost"], !.rev = n, !.term = TRUE, !.f = r.f]
    BY <1>2, <1>3, <1>4 DEF ReactionRows
  <1>7. RowOK(r', Done') /\ Onward(r, r')
    BY <1>1, <1>3, <1>5, <1>6, Writable, NewRow
  <1> QED BY <1>1, <1>2, <1>7, WriteStep

LEMMA ContentReplayed ==
  ASSUME ReactionInv, content_replayed
  PROVE  ReactionInv'
  <1>1. sub # "none" /\ sub' = sub /\ reopened' = reopened /\ Aside /\ pump' = pump
    BY DEF content_replayed, ReactionInv, ShapeInv, NoReaction
  <1>2. /\ r.state = "failed" /\ r.term
        /\ sub' \in {"active", "complete", "failed"} /\ reopened' \in BOOLEAN /\ (Done => Done')
    BY <1>1 DEF content_replayed, ReactionInv, Types, Done
  <1>3. PICK S : Chain(S, Done') /\ r \in ReactionRows(S) /\ NoResume \in S
    BY <1>1, Writable
  <1>4. PICK n \in Nat : n = r.rev + 1 /\ n > r.rev
    BY <1>1, Writable
  <1>5. CASE sub = "complete" /\ Lifted("succeeded")
    <2>1. /\ r' = [r EXCEPT !.state = "succeeded", !.resume = NoResume, !.rev = r.rev + 1]
          /\ out' = Queued(out, [PayloadOf(r') EXCEPT !.f = fence])
      BY <1>5 DEF Lifted
    <2>2. r' = [r EXCEPT !.state = "succeeded", !.resume = NoResume, !.rev = n, !.term = TRUE, !.f = r.f]
      BY <1>1, <1>2, <1>3, <1>4, <2>1, Writable DEF ReactionRows
    <2>3. RowOK(r', Done') /\ Onward(r, r')
      <3>1. /\ r' \in ReactionRows(S) /\ r'.state = "succeeded" /\ r'.term = TRUE /\ r'.f = r.f
            /\ r'.rev = n /\ r'.dstate = r.dstate /\ r'.drev = r.drev
        BY <1>3, <2>2 DEF ReactionRows, States
      <3>2. Done' /\ Final("succeeded")
        BY <1>1, <1>5, Writable, Zenon
      <3>3. (r'.term <=> Final(r'.state)) /\ (r'.state = "succeeded" => Done')
        BY <3>1, <3>2, Zenon
      <3>4. RowOK(r, Done') /\ r'.f <= fence /\ r'.state # "none" /\ r'.rev > r.rev
        BY <1>1, <1>4, <3>1, Writable
      <3> QED BY <1>3, <3>1, <3>3, <3>4, WrittenRow
    <2>4. r'.state \in States /\ r'.rev \in Nat /\ r'.f \in Nat /\ r'.term \in BOOLEAN /\ r'.state = "succeeded"
      <3>1. r'.state = "succeeded"
        BY <1>3, <2>2 DEF ReactionRows
      <3> QED BY <2>3, <3>1, RowTypes
    <2> DEFINE p == [PayloadOf(r') EXCEPT !.f = fence]
    <2>5. p \in Payloads /\ p.rev = r'.rev /\ p.state = r'.state /\ p.fin = r'.term
      <3>1. p = [state |-> r'.state, rev |-> r'.rev, f |-> fence, fin |-> r'.term]
        BY DEF PayloadOf
      <3> QED BY <1>1, <2>4, <3>1, Writable DEF Payloads
    <2> HIDE DEF p
    <2>6. Follows(r, r', out, out')
      <3>1. out' = Queued(out, p)
        BY <2>1 DEF p
      <3> QED BY <2>3, <2>4, <2>5, <3>1, FreshRow
    <2> QED BY <1>1, <1>2, <2>3, <2>6, ReducerStep
  <1>6. CASE sub = "failed" /\ Lifted("failed")
    <2>1. r' = [r EXCEPT !.state = "failed", !.resume = NoResume, !.rev = r.rev + 1] /\ out' = out
      BY <1>6 DEF Lifted
    <2>2. r' = [r EXCEPT !.state = "failed", !.resume = NoResume, !.rev = n, !.term = TRUE, !.f = r.f]
      BY <1>1, <1>2, <1>3, <1>4, <2>1, Writable DEF ReactionRows
    <2>3. RowOK(r', Done') /\ Onward(r, r')
      BY <1>1, <1>3, <1>4, <2>2, Writable, NewRow
    <2>4. r'.state = r.state /\ r'.term
      BY <1>2, <1>3, <2>2 DEF ReactionRows
    <2> QED BY <1>1, <1>2, <2>1, <2>3, <2>4, ReducerStep
  <1>7. CASE sub = "active" /\ UNCHANGED <<r, out>>
    BY <1>1, <1>2, <1>7, Unmoved
  <1> QED BY <1>5, <1>6, <1>7 DEF content_replayed

---------------------------------------------------------------------------
(* The gateway, the recovery of a queue and the owners.                    *)

LEMMA PastNone ==
  ASSUME ReactionInv
  PROVE  PastOf(r, NoPayload) /\ NoPayload.f <= fence
  <1>1. /\ NoPayload.rev = 0 /\ NoPayload.state = "none" /\ NoPayload.fin = FALSE /\ NoPayload.f = 0
    BY DEF NoPayload
  <1>2. NoPayload.rev <= r.rev /\ NoPayload.f <= fence
    BY <1>1, RowNow
  <1>3. CASE sub = "none"
    <2>1. r.state = "none" /\ r.term = FALSE
      BY <1>3 DEF ReactionInv, ShapeInv, NoReaction
    <2> QED BY <1>1, <1>2, <2>1, Zenon DEF PastOf
  <1>4. CASE sub # "none"
    <2>1. r.rev # 0
      BY <1>4, RowNow DEF ReactionInv, ShapeInv
    <2> QED BY <1>1, <1>2, <2>1, Zenon DEF PastOf
  <1> QED BY <1>3, <1>4

LEMMA IdleHand == /\ Idle \in Hands /\ Idle.pc = "idle" /\ Idle.lane = "none" /\ Idle.seen = NoPayload
                  /\ NoPump \in Pumps /\ NoPump.pc = "idle" /\ NoPump.seen = NoPayload
  BY NoPayloadType DEF Idle, Hands, NoPump, Pumps, States

LEMMA RowKept ==
  ASSUME ReactionInv, UNCHANGED <<sub, r, reopened>>
  PROVE  RowOK(r', Done')
  BY DEF ReactionInv, RowOK, Done

LEMMA SupersededRow ==
  ASSUME a \in AdmissionRows, ~a.sup, a.st # "none"
  PROVE  LET new == Superseded(a)
         IN /\ new \in AdmissionRows /\ new.sup /\ new.st # "none"
            /\ (new.st = "sending" <=> a.st = "sending") /\ new.st # "pending"
  <1>1. CASE a.st = "sending"
    <2>1. Superseded(a) = [a EXCEPT !.sup = TRUE, !.revised = TRUE]
      BY <1>1 DEF Superseded
    <2> QED BY <1>1, <2>1 DEF AdmissionRows
  <1>2. CASE a.st # "sending"
    <2>1. Superseded(a) = Retired
      BY <1>2 DEF Superseded
    <2> QED BY <1>2, <2>1 DEF AdmissionRows, Retired, NoAdmission, Admissions
  <1> QED BY <1>1, <1>2

LEMMA QueuedSubmission ==
  ASSUME ReactionInv, submission_queued
  PROVE  ReactionInv'
  <1>1. /\ sub = "none" /\ a.state # "none" /\ sub' = "active" /\ a' = Superseded(a)
        /\ r' = [r EXCEPT !.state = "accepted", !.rev = 1, !.f = fence] /\ out' = Queued(out, PayloadOf(r'))
        /\ UNCHANGED <<fence, live, d, pump, shown, reopened, crossed>>
    BY DEF submission_queued, SetReaction
  <1>2. /\ r = NoReaction /\ out = NoOutbox /\ ~a.sup /\ a.st # "none" /\ a \in AdmissionRows /\ fence \in Nat
        /\ d \in Hands /\ pump \in Pumps /\ out \in OutboxRows
    BY <1>1 DEF ReactionInv, ShapeInv, Types
  <1>3. /\ a' \in AdmissionRows /\ a'.sup /\ a'.st # "none"
        /\ (a'.st = "sending" <=> a.st = "sending") /\ a'.st # "pending"
    BY <1>1, <1>2, SupersededRow
  <1>4. r' = [state |-> "accepted", resume |-> NoResume, rev |-> 1, term |-> FALSE, f |-> fence,
              dstate |-> "none", drev |-> 0]
    BY <1>1, <1>2 DEF NoReaction
  <1>5. /\ r'.state = "accepted" /\ r'.rev = 1 /\ r'.term = FALSE /\ r'.f = fence /\ r'.drev = 0 /\ r'.dstate = "none"
        /\ Chain({NoResume}, Done') /\ r' \in ReactionRows({NoResume})
    BY <1>2, <1>4 DEF Chain, NoResume, ReactionRows, States
  <1>6. RowOK(r', Done')
    BY <1>5 DEF RowOK, Final
  <1>7. PayloadOf(r') \in Payloads /\ PayloadOf(r').rev = 1 /\ PayloadOf(r').state = "accepted" /\ PayloadOf(r').fin = FALSE
        /\ PayloadOf(r').f = fence
    <2>1. PayloadOf(r') = [state |-> "accepted", rev |-> 1, f |-> fence, fin |-> FALSE]
      BY <1>5, Zenon DEF PayloadOf
    <2> QED BY <1>2, <2>1 DEF Payloads, States
  <1>8. out.text = FALSE /\ out.st = "none"
    BY <1>2 DEF NoOutbox
  <1>9. out' \in OutboxRows /\ out'.payload = PayloadOf(r') /\ out'.text /\ out'.st = "pending" /\ ~out'.revised
    BY <1>1, <1>2, <1>7, <1>8, QueuedRow
  <1>10. d.lane # "reaction" /\ d.pc \notin Recovering /\ d.pc # "requeue"
    BY <1>8 DEF ReactionInv, LaneInv, Recovering
  <1>11. Types'
    BY <1>1, <1>3, <1>9 DEF ReactionInv, Types
  <1>12. ShapeInv'
    BY <1>1, <1>3, <1>5, <1>9 DEF ShapeInv
  <1>13. PastInv'
    <2>1. ASSUME NEW p \in Payloads, PastOf(r, p) PROVE PastOf(r', p)
      <3>1. p.rev \in Nat /\ p.rev <= 0
        BY <1>2, <2>1 DEF PastOf, NoReaction, Payloads
      <3>2. p.rev <= r'.rev /\ p.rev # r'.rev
        BY <1>5, <3>1
      <3> QED BY <3>2 DEF PastOf
    <2>2. PastOf(r', out'.payload)
      <3>1. out'.payload.rev <= r'.rev
        BY <1>5, <1>7, <1>9
      <3>2. out'.payload.state = r'.state /\ out'.payload.fin = r'.term
        BY <1>5, <1>7, <1>9, Zenon
      <3> QED BY <3>1, <3>2, Zenon DEF PastOf
    <2>3. d.seen \in Payloads /\ pump.seen \in Payloads
      BY <1>2 DEF Hands, Pumps
    <2> QED BY <1>1, <2>1, <2>2, <2>3 DEF ReactionInv, PastInv
  <1>14. FenceInv'
    BY <1>1, <1>2, <1>5, <1>7, <1>9 DEF ReactionInv, FenceInv
  <1>15. SentInv'
    BY <1>1, <1>5, <1>9, <1>10 DEF SentInv, Delivered
  <1>16. StaleInv' /\ HandInv'
    BY <1>1, <1>10 DEF StaleInv, HandInv
  <1>17. LaneInv'
    BY <1>1, <1>3, <1>5, <1>9, <1>10 DEF ReactionInv, LaneInv
  <1> QED BY <1>6, <1>11, <1>12, <1>13, <1>14, <1>15, <1>16, <1>17 DEF ReactionInv

LEMMA AdmissionQueued ==
  ASSUME ReactionInv, NEW state \in {"accepted", "failed"}, queue_admission_reaction(state)
  PROVE  ReactionInv'
  <1>1. /\ ~a.sup /\ UNCHANGED <<sub, r, out, fence, live, d, pump, shown, reopened, crossed>>
        /\ a' = [a EXCEPT !.st = Upsert(a.st), !.revised = a.st = "sending", !.state = state,
                          !.prev = IF a.state \notin {"none", state} THEN a.state ELSE a.prev]
    BY DEF queue_admission_reaction
  <1>2. a \in AdmissionRows /\ sub = "none" /\ r = NoReaction /\ out = NoOutbox
    BY <1>1 DEF ReactionInv, Types, ShapeInv
  <1>3. a' \in AdmissionRows /\ ~a'.sup /\ a'.st # "none" /\ (a'.st = "sending" <=> a.st = "sending")
    <2>1. PICK b \in BOOLEAN : b = (a.st = "sending")
      OBVIOUS
    <2>2. PICK st \in {"pending", "sending"} : st = Upsert(a.st)
      BY DEF Upsert
    <2>3. PICK prev \in Admissions : prev = IF a.state \notin {"none", state} THEN a.state ELSE a.prev
      BY <1>2 DEF AdmissionRows
    <2>4. a' = [a EXCEPT !.st = st, !.revised = b, !.state = state, !.prev = prev]
      BY <1>1, <2>1, <2>2, <2>3
    <2>5. a' \in AdmissionRows
      BY <1>2, <2>4 DEF AdmissionRows, Admissions
    <2>6. a'.st = st /\ a'.sup = a.sup
      BY <1>2, <2>4 DEF AdmissionRows
    <2> QED BY <1>1, <2>2, <2>5, <2>6 DEF Upsert
  <1>4. Types'
    BY <1>1, <1>3 DEF ReactionInv, Types
  <1>5. RowOK(r', Done')
    BY <1>1, RowKept
  <1>6. ShapeInv'
    BY <1>1, <1>2, <1>3 DEF ReactionInv, ShapeInv
  <1>7. PastInv' /\ FenceInv' /\ SentInv' /\ StaleInv' /\ HandInv'
    BY <1>1 DEF ReactionInv, PastInv, FenceInv, SentInv, StaleInv, HandInv, Owed
  <1>8. LaneInv'
    BY <1>1, <1>2, <1>3 DEF ReactionInv, LaneInv, NoReaction, NoOutbox
  <1> QED BY <1>4, <1>5, <1>6, <1>7, <1>8 DEF ReactionInv

LEMMA OwnerMoves ==
  ASSUME ReactionInv, lease_expires \/ attach
  PROVE  ReactionInv'
  <1>1. /\ UNCHANGED <<sub, r, out, a, d, pump, shown, reopened, crossed>>
        /\ fence' \in Nat /\ fence' >= fence /\ live' \in BOOLEAN /\ fence \in Nat
    <2>1. fence \in Nat /\ live \in BOOLEAN
      BY DEF ReactionInv, Types
    <2>2. CASE lease_expires
      <3>1. live' = FALSE /\ UNCHANGED <<sub, r, out, a, fence, d, pump, shown, reopened, crossed>>
        BY <2>2 DEF lease_expires
      <3>2. live' \in BOOLEAN
        BY <3>1, Zenon
      <3> QED BY <2>1, <3>1, <3>2
    <2>3. CASE attach
      BY <2>1, <2>3 DEF attach
    <2> QED BY <2>2, <2>3
  <1>2. Types'
    BY <1>1 DEF ReactionInv, Types
  <1>3. RowOK(r', Done')
    BY <1>1, RowKept
  <1>4. FenceInv'
    <2>1. r.f \in Nat /\ d.seen.f \in Nat /\ pump.seen.f \in Nat
      BY RowNow DEF Hands, Pumps, Payloads
    <2>2. r.f <= fence /\ d.seen.f <= fence /\ pump.seen.f <= fence
      BY DEF ReactionInv, FenceInv
    <2>3. r.f <= fence' /\ d.seen.f <= fence' /\ pump.seen.f <= fence'
      BY <1>1, <2>1, <2>2
    <2> QED BY <1>1, <2>3 DEF ReactionInv, FenceInv
  <1>5. PastInv' /\ SentInv' /\ StaleInv' /\ HandInv' /\ ShapeInv' /\ LaneInv'
    BY <1>1 DEF ReactionInv, PastInv, SentInv, StaleInv, HandInv, Owed, ShapeInv, LaneInv
  <1> QED BY <1>2, <1>3, <1>4, <1>5 DEF ReactionInv

\* The queue of a session marks a submission and starts a recovery.
LEMMA QueueLost ==
  ASSUME ReactionInv, NEW own \in BOOLEAN, queue_content_lost(own)
  PROVE  ReactionInv'
  <1>1. /\ sub # "none" /\ (own => sub = "active" /\ r.rev = 1)
        /\ sub' = (IF own THEN "failed" ELSE sub) /\ pump' = [NoPump EXCEPT !.pc = "read"]
        /\ r' = IF own THEN [r EXCEPT !.state = "failed", !.resume = [kind |-> "lost"], !.term = TRUE,
                                      !.rev = r.rev + 1] ELSE r
        /\ UNCHANGED <<out, reopened, a, fence, live, d, shown, crossed>>
    BY DEF queue_content_lost, Owner, Aside
  <1>2. pump' \in Pumps /\ pump'.pc = "read" /\ pump'.seen = NoPayload
    BY <1>1, NoPayloadType DEF NoPump, Pumps
  <1>3. sub' \in {"active", "complete", "failed"} /\ (Done => Done')
    BY <1>1 DEF ReactionInv, Types, Done
  <1>4. RowOK(r, Done') /\ r.state # "none" /\ r.f <= fence /\ fence \in Nat
    BY <1>1, <1>3, RowThen
  <1>5. RowOK(r', Done') /\ Onward(r, r') /\ (r' = r \/ r'.rev > r.rev)
    <2>1. CASE ~own
      <3>1. r' = r
        BY <1>1, <2>1
      <3> QED BY <1>4, <3>1, RowTypes DEF Onward
    <2>2. CASE own
      <3>1. PICK S : Chain(S, Done') /\ r \in ReactionRows(S) /\ [kind |-> "lost"] \in S
        BY <1>4, RowChain
      <3>2. PICK n \in Nat : n = r.rev + 1 /\ n > r.rev
        BY RowNow
      <3>3. r' = [r EXCEPT !.state = "failed", !.resume = [kind |-> "lost"], !.term = TRUE, !.rev = n]
        BY <1>1, <2>2, <3>2
      <3>4. /\ r' \in ReactionRows(S) /\ r'.state = "failed" /\ r'.term = TRUE /\ r'.f = r.f
            /\ r'.rev = n /\ r'.dstate = r.dstate /\ r'.drev = r.drev
        BY <3>1, <3>3 DEF ReactionRows, States
      <3>5. (r'.term <=> Final(r'.state)) /\ (r'.state = "succeeded" => Done')
        BY <3>4 DEF Final
      <3>6. r'.f <= fence /\ r'.state # "none" /\ r'.rev > r.rev
        BY <1>4, <3>2, <3>4
      <3> QED BY <1>4, <3>1, <3>4, <3>5, <3>6, WrittenRow
    <2> QED BY <2>1, <2>2
  <1>6. /\ r.rev \in Nat /\ r'.rev \in Nat /\ r.drev \in Nat /\ r'.drev \in Nat /\ r.drev <= r.rev
        /\ out.payload.rev \in Nat /\ d.seen.rev \in Nat /\ d.payload.rev \in Nat /\ r.rev >= 1
    BY <1>1, <1>5, RowNow, RowTypes DEF OutboxRows, Hands, Payloads, ReactionInv, ShapeInv
  <1>7. Types'
    BY <1>1, <1>2, <1>3 DEF ReactionInv, Types
  <1>8. ShapeInv'
    BY <1>1, <1>3, <1>5, <1>6 DEF ReactionInv, ShapeInv, Onward
  <1>9. NoPayload.rev = 0 /\ NoPayload.f = 0
    BY DEF NoPayload
  <1>10. PastInv'
    <2>1. PastOf(r', out.payload) /\ PastOf(r', d.seen)
      BY <1>5, <1>6, PastKept DEF ReactionInv, PastInv
    <2>2. PastOf(r', NoPayload)
      BY <1>5, <1>6, <1>9 DEF PastOf, Onward
    <2> QED BY <1>1, <1>2, <2>1, <2>2 DEF PastInv
  <1>11. FenceInv'
    <2>1. r'.f <= fence /\ NoPayload.f <= fence
      BY <1>4, <1>5, <1>9 DEF Onward
    <2>2. r'.rev > r.rev => out.payload.rev # r'.rev
      BY <1>6 DEF ReactionInv, PastInv, PastOf
    <2> QED BY <1>1, <1>2, <1>5, <2>1, <2>2 DEF ReactionInv, FenceInv
  <1>12. SentInv'
    <2>1. Delivered(r') => Delivered(r) /\ r'.state = r.state
      BY <1>4, <1>5, <1>6 DEF Delivered, Onward
    <2> QED BY <1>1, <1>2, <2>1 DEF ReactionInv, SentInv, Owed
  <1>13. StaleInv'
    <2>1. r'.rev > r.rev => out.payload.rev # r'.rev
      BY <1>6 DEF ReactionInv, PastInv, PastOf
    <2> QED BY <1>1, <1>5, <2>1 DEF ReactionInv, StaleInv
  <1>14. LaneInv'
    BY <1>1, <1>5 DEF ReactionInv, LaneInv, Onward
  <1>15. HandInv'
    <2>1. d.lane = "reaction" /\ d.pc \in Delivering => PastOf(r, d.payload) /\ r.drev <= d.payload.rev
      BY DEF ReactionInv, HandInv
    <2>2. d.lane = "reaction" /\ d.pc \in Delivering => PastOf(r', d.payload) /\ r'.drev <= d.payload.rev
      BY <1>5, <1>6, <2>1, PastKept DEF Onward
    <2> QED BY <1>1, <2>2 DEF ReactionInv, HandInv
  <1> QED BY <1>5, <1>7, <1>8, <1>10, <1>11, <1>12, <1>13, <1>14, <1>15 DEF ReactionInv

\* What a recovery reads.
LEMMA SeenNow ==
  ASSUME ReactionInv
  PROVE  /\ Seen \in Payloads /\ PastOf(r, Seen) /\ Seen.f <= fence
         /\ r.term => (Seen = NoPayload /\ Delivered(r)) \/ (Seen = PayloadOf(r) /\ Seen.fin)
         /\ ~r.term => ~Seen.fin
  <1>1. /\ r.state \in States /\ r.rev \in Nat /\ r.f \in Nat /\ r.term \in BOOLEAN /\ fence \in Nat
        /\ r.f <= fence /\ fence <= fence /\ (r.term => r.state # "none")
    <2>1. r.term => r.state # "none"
      BY DEF ReactionInv, RowOK, Final
    <2> QED BY <2>1, RowNow DEF ReactionInv, FenceInv
  <1>2. CASE Seen = NoPayload
    <2>1. PastOf(r, Seen) /\ Seen.f <= fence /\ Seen \in Payloads
      BY <1>2, PastNone, NoPayloadType
    <2>2. r.term => Delivered(r)
      <3> SUFFICES ASSUME r.term, ~Delivered(r) PROVE FALSE
        OBVIOUS
      <3>1. /\ r.state # "none" /\ (r.dstate # r.state \/ r.drev # r.rev)
            /\ r.term \/ live
        BY <1>1, Zenon DEF Delivered
      <3>2. Seen.state = r.state
        BY <3>1 DEF Seen, PayloadOf
      <3> QED BY <1>1, <1>2, <3>2 DEF NoPayload
    <2>3. ~Seen.fin
      BY <1>2 DEF NoPayload
    <2> QED BY <1>2, <2>1, <2>2, <2>3
  <1>3. CASE Seen # NoPayload
    <2>1. PICK f \in Nat : f = (IF r.term THEN r.f ELSE fence) /\ f <= fence
      BY <1>1
    <2>2. Seen = [state |-> r.state, rev |-> r.rev, f |-> f, fin |-> r.term]
      BY <1>3, <2>1 DEF Seen, PayloadOf
    <2>3. /\ Seen \in Payloads /\ Seen.rev = r.rev /\ Seen.state = r.state /\ Seen.f = f /\ Seen.fin = r.term
      BY <1>1, <2>2 DEF Payloads
    <2>4. PastOf(r, Seen)
      <3>1. Seen.rev <= r.rev
        BY <1>1, <2>3
      <3> QED BY <2>3, <3>1, Zenon DEF PastOf
    <2>5. r.term => Seen = PayloadOf(r) /\ Seen.fin
      BY <2>1, <2>2, <2>3 DEF PayloadOf
    <2>6. ~r.term => ~Seen.fin
      BY <2>3
    <2> QED BY <2>1, <2>3, <2>4, <2>5, <2>6
  <1> QED BY <1>2, <1>3

LEMMA QueueReads ==
  ASSUME ReactionInv, queue_reads
  PROVE  ReactionInv'
  <1>1. /\ pump' = [pc |-> "write", seen |-> Seen] /\ pump.pc = "read"
        /\ UNCHANGED <<sub, r, out, a, fence, live, d, shown, reopened, crossed>>
    BY DEF queue_reads
  <1>2. Seen \in Payloads /\ PastOf(r, Seen) /\ Seen.f <= fence
    BY SeenNow
  <1>3. pump' \in Pumps /\ pump'.pc = "write" /\ pump'.seen = Seen
    BY <1>1, <1>2 DEF Pumps
  <1>4. Types'
    BY <1>1, <1>3 DEF ReactionInv, Types
  <1>5. RowOK(r', Done')
    BY <1>1, RowKept
  <1>6. PastInv' /\ FenceInv'
    BY <1>1, <1>2, <1>3 DEF ReactionInv, PastInv, FenceInv
  <1>7. SentInv'
    BY <1>1, <1>3 DEF ReactionInv, SentInv, Owed
  <1>8. sub # "none"
    BY <1>1, IdleHand DEF ReactionInv, ShapeInv
  <1>9. StaleInv' /\ HandInv' /\ ShapeInv' /\ LaneInv'
    BY <1>1, <1>8 DEF ReactionInv, StaleInv, HandInv, ShapeInv, LaneInv
  <1> QED BY <1>4, <1>5, <1>6, <1>7, <1>9 DEF ReactionInv

\* The row for the owner that a recovery found.
LEMMA Refenced ==
  ASSUME ReactionInv, NEW g \in Nat, UNCHANGED <<sub, reopened>>, r' = [r EXCEPT !.f = g]
  PROVE  /\ RowOK(r', Done') /\ r'.f = g
         /\ r'.state = r.state /\ r'.rev = r.rev /\ r'.term = r.term
         /\ r'.dstate = r.dstate /\ r'.drev = r.drev
  <1>1. PICK S : Chain(S, Done) /\ r \in ReactionRows(S)
    BY DEF ReactionInv, RowOK
  <1>2. /\ r' \in ReactionRows(S) /\ r'.state = r.state /\ r'.rev = r.rev /\ r'.term = r.term
        /\ r'.dstate = r.dstate /\ r'.drev = r.drev /\ r'.f = g
    BY <1>1 DEF ReactionRows
  <1>3. Done' <=> Done
    BY DEF Done
  <1>4. RowOK(r, Done)
    BY DEF ReactionInv
  <1> QED BY <1>1, <1>2, <1>3, <1>4 DEF RowOK

\* What a recovery read is queued.
LEMMA RequeueRow ==
  ASSUME ReactionInv, NEW p \in Payloads, PastOf(r, p), p.f <= fence, UNCHANGED <<sub, reopened, fence>>, Requeue(p)
  PROVE  /\ RowOK(r', Done') /\ r'.f \in Nat /\ r'.f <= fence
         /\ r'.state = r.state /\ r'.rev = r.rev /\ r'.term = r.term
         /\ r'.dstate = r.dstate /\ r'.drev = r.drev
         /\ out' \in OutboxRows /\ PastOf(r, out'.payload)
         /\ out'.payload.rev = r.rev /\ r.state = "failed" => out'.payload.f <= r'.f
         /\ \/ p = NoPayload /\ r' = r /\ out' = out
            \/ p # NoPayload /\ r'.f = p.f /\ out' = out /\ out.payload = p /\ out.text
            \/ /\ p # NoPayload /\ r'.f = p.f
               /\ out'.st = IF out.st = "sending" THEN "sending" ELSE "pending"
               /\ out'.revised <=> out.st = "sending"
  <1>1. CASE p = NoPayload
    <2>1. r' = r /\ out' = out
      BY <1>1 DEF Requeue
    <2>2. RowOK(r', Done')
      BY <2>1, RowKept
    <2> QED BY <1>1, <2>1, <2>2, RowNow DEF ReactionInv, FenceInv, PastInv
  <1>2. CASE p # NoPayload
    <2>1. r' = [r EXCEPT !.f = p.f] /\ out' = Queued(out, p) /\ p.f \in Nat
      BY <1>2 DEF Requeue, Payloads
    <2>2. /\ RowOK(r', Done') /\ r'.f = p.f
          /\ r'.state = r.state /\ r'.rev = r.rev /\ r'.term = r.term
          /\ r'.dstate = r.dstate /\ r'.drev = r.drev
      BY <2>1, Refenced
    <2>3. /\ out' \in OutboxRows /\ out'.payload = p
          /\ \/ out' = out /\ out.payload = p /\ out.text
             \/ /\ out'.st = IF out.st = "sending" THEN "sending" ELSE "pending"
                /\ out'.revised <=> out.st = "sending"
      BY <2>1, RowNow, QueuedRow
    <2>4. out'.payload.f <= r'.f
      BY <2>1, <2>2, <2>3
    <2> QED BY <1>2, <2>1, <2>2, <2>3, <2>4
  <1> QED BY <1>1, <1>2

LEMMA PastSame ==
  ASSUME NEW x, NEW y, NEW p, PastOf(x, p), y.rev = x.rev, y.state = x.state, y.term = x.term
  PROVE  PastOf(y, p)
  BY DEF PastOf

LEMMA QueueWrites ==
  ASSUME ReactionInv, queue_writes
  PROVE  ReactionInv'
  <1> DEFINE p == pump.seen
  <1>1. /\ pump.pc = "write" /\ pump' = NoPump /\ Requeue(p) /\ crossed' = (crossed \/ p # Seen)
        /\ UNCHANGED <<sub, a, fence, live, d, shown, reopened>>
    BY DEF queue_writes
  <1>2. p \in Payloads /\ PastOf(r, p) /\ p.f <= fence /\ out \in OutboxRows /\ d \in Hands
    BY RowNow DEF ReactionInv, PastInv, FenceInv, Pumps
  <1> HIDE DEF p
  <1>3. /\ RowOK(r', Done') /\ r'.f \in Nat /\ r'.f <= fence
        /\ r'.state = r.state /\ r'.rev = r.rev /\ r'.term = r.term
        /\ r'.dstate = r.dstate /\ r'.drev = r.drev
        /\ out' \in OutboxRows /\ PastOf(r, out'.payload)
        /\ out'.payload.rev = r.rev /\ r.state = "failed" => out'.payload.f <= r'.f
    BY <1>1, <1>2, RequeueRow
  <1>4. \/ p = NoPayload /\ r' = r /\ out' = out
        \/ p # NoPayload /\ r'.f = p.f /\ out' = out /\ out.payload = p /\ out.text
        \/ /\ p # NoPayload /\ r'.f = p.f
           /\ out'.st = IF out.st = "sending" THEN "sending" ELSE "pending"
           /\ out'.revised <=> out.st = "sending"
    BY <1>1, <1>2, RequeueRow
  <1>5. /\ (out'.st = "sending" <=> out.st = "sending") /\ (out'.st = "sent" => out' = out)
        /\ out' = out \/ (out'.revised <=> out'.st = "sending") 
        /\ (out'.st = "none" => out.st = "none")
    BY <1>4
  <1>6. pump' \in Pumps /\ pump'.pc = "idle" /\ pump'.seen = NoPayload /\ crossed' \in BOOLEAN
    BY <1>1, IdleHand DEF ReactionInv, Types
  <1>7. Types'
    BY <1>1, <1>3, <1>6 DEF ReactionInv, Types
  <1>8. p # NoPayload => sub # "none"
    <2> SUFFICES ASSUME sub = "none" PROVE p = NoPayload
      OBVIOUS
    <2>1. pump = NoPump
      BY DEF ReactionInv, ShapeInv
    <2> QED BY <2>1, IdleHand DEF p
  <1>9. ShapeInv'
    <2>1. CASE sub = "none"
      BY <1>1, <1>4, <1>8, <2>1 DEF ReactionInv, ShapeInv
    <2>2. CASE sub # "none"
      BY <1>1, <1>3, <1>5, <2>2 DEF ReactionInv, ShapeInv
    <2> QED BY <2>1, <2>2
  <1>10. PastInv'
    <2>1. PastOf(r, d.seen) /\ PastOf(r, NoPayload)
      BY PastNone DEF ReactionInv, PastInv
    <2>2. PastOf(r', out'.payload) /\ PastOf(r', d.seen) /\ PastOf(r', NoPayload)
      BY <1>3, <2>1, PastSame
    <2> QED BY <1>1, <1>6, <2>2 DEF PastInv
  <1>11. FenceInv'
    BY <1>1, <1>3, <1>6, PastNone DEF ReactionInv, FenceInv
  <1>12. LaneInv'
    <2>1. out'.st \in {"sending", "sent"} => out.st = out'.st
      BY <1>5
    <2> QED BY <1>1, <1>3, <1>5, <2>1 DEF ReactionInv, LaneInv
  <1>13. HandInv'
    <2> SUFFICES ASSUME d.lane = "reaction"
                 PROVE  /\ d.pc \in {"check"} \cup Delivering /\ ~out'.revised => d.payload = out'.payload
                        /\ d.pc \in Delivering => PastOf(r', d.payload) /\ r'.drev <= d.payload.rev
                        /\ d.pc \in {"remove", "finish"} => d.payload.state \in shown
      BY <1>1 DEF HandInv
    <2>1. ~out'.revised => out' = out
      BY <1>5 DEF ReactionInv, LaneInv
    <2>2. d.pc \in Delivering => PastOf(r', d.payload) /\ r'.drev <= d.payload.rev
      BY <1>3, PastSame DEF ReactionInv, HandInv
    <2> QED BY <2>1, <2>2 DEF ReactionInv, HandInv
  <1>14. ~crossed' => ~crossed /\ p = Seen
    BY <1>1
  <1>15. r.term \in BOOLEAN
    BY RowNow
  \* A finished row that is queued already is not what a recovery of the dispatcher found stale.
  <1>16. ASSUME ~crossed', ~out'.revised, r.term, d.lane = "reaction", p # NoPayload
         PROVE  out' = out /\ r'.f = r.f /\ out.payload = PayloadOf(r) /\ d.pc \notin Recovering
    <2>1. out' = out /\ out.payload = p /\ r'.f = p.f
      BY <1>4, <1>16 DEF ReactionInv, LaneInv
    <2>2. p = PayloadOf(r)
      BY <1>14, <1>16, SeenNow
    <2>3. PayloadOf(r).f = r.f /\ PayloadOf(r).rev = r.rev
      BY DEF PayloadOf
    <2>4. d.pc \notin Recovering
      BY <1>14, <1>16, <2>1, <2>2, <2>3 DEF ReactionInv, StaleInv
    <2> QED BY <2>1, <2>2, <2>3, <2>4
  <1>17. StaleInv'
    <2> SUFFICES ASSUME ~crossed', ~out'.revised, d.pc \in Recovering
                 PROVE  /\ r'.term /\ out'.payload.rev = r'.rev =>
                             out'.payload.f # r'.f /\ (r'.state = "failed" => out'.payload.f < r'.f)
                        /\ d.pc = "requeue" /\ d.seen.fin => out'.payload # d.seen
      BY <1>1 DEF StaleInv, Recovering
    <2>1. d.lane = "reaction" /\ out' = out
      BY <1>5 DEF ReactionInv, LaneInv
    <2>2. r.term => p = NoPayload
      BY <1>16, <2>1
    <2>3. r.term => r' = r
      BY <1>4, <2>2
    <2>4. r'.term => r.term
      BY <1>3
    <2> QED BY <1>14, <2>1, <2>3, <2>4 DEF ReactionInv, StaleInv
  <1>18. SentInv'
    <2>1. Delivered(r) => r.state \in shown
      BY DEF ReactionInv, SentInv
    <2>2. Delivered(r') => r'.state \in shown'
      BY <1>1, <1>3, <2>1 DEF Delivered
    <2>3. (out'.st = "sent" => ~out'.text) /\ (out'.revised => out'.st = "sending")
      BY <1>5 DEF ReactionInv, SentInv
    <2>4. Owed' => r.term /\ ~crossed' /\ ~crossed /\ p = Seen
      BY <1>3, <1>14 DEF Owed
    <2>5. Owed' /\ p = NoPayload => Delivered(r) /\ r.state \in shown
      <3>1. NoPayload # PayloadOf(r) \/ ~r.term
        <4>1. r.term => r.state # "none"
          BY DEF ReactionInv, RowOK, Final
        <4> QED BY <4>1 DEF NoPayload, PayloadOf
      <3> QED BY <2>1, <2>4, <3>1, SeenNow
    <2>6. Owed' /\ out'.st = "sent" => r.state \in shown
      <3> SUFFICES ASSUME Owed', out'.st = "sent" PROVE p = NoPayload
        BY <2>5
      <3> QED BY <1>4, <1>5, <2>3
    <2>7. ASSUME Owed', d.lane = "reaction", ~out'.revised
          PROVE  /\ d.pc = "drop" => r.state \in shown
                 /\ d.pc = "requeue" /\ ~d.seen.fin => r.state \in shown
                 /\ d.pc \in Delivering => r.state = d.payload.state
      <3>1. CASE p = NoPayload
        <4>1. Delivered(r) /\ r.state \in shown
          BY <2>5, <2>7, <3>1
        <4>2. ASSUME d.pc \in Delivering PROVE r.state = d.payload.state
          <5>1. PastOf(r, d.payload) /\ r.drev <= d.payload.rev /\ r.rev \in Nat /\ d.payload.rev \in Nat
            BY <1>2, <2>7, <4>2, RowNow DEF ReactionInv, HandInv, Hands, Payloads
          <5> QED BY <4>1, <5>1 DEF Delivered, PastOf
        <4> QED BY <4>1, <4>2
      <3>2. CASE p # NoPayload
        <4>1. out' = out /\ out.payload = PayloadOf(r) /\ d.pc \notin Recovering
          BY <1>16, <2>4, <2>7, <3>2
        <4>2. d.pc \in Delivering => d.payload = out.payload
          BY <2>7, <4>1 DEF ReactionInv, HandInv
        <4> QED BY <4>1, <4>2 DEF Recovering, PayloadOf
      <3> QED BY <3>1, <3>2
    <2> QED BY <1>1, <1>3, <2>2, <2>3, <2>6, <2>7 DEF SentInv
  <1> QED BY <1>3, <1>7, <1>9, <1>10, <1>11, <1>12, <1>13, <1>17, <1>18 DEF ReactionInv

---------------------------------------------------------------------------
(* The dispatcher.                                                         *)

\* What the lanes say of the item in hand.
LEMMA InHand ==
  ASSUME ReactionInv
  PROVE  /\ d.payload \in Payloads /\ d.payload.rev \in Nat /\ d.payload.state \in States /\ d.seen \in Payloads
         /\ d.pc \in {"check"} \cup Recovering => d.lane = "reaction"
         /\ d.lane = "reaction" =>
              /\ out.st = "sending" /\ sub # "none" /\ r.state # "none" /\ r.rev >= 1 /\ a.sup
              /\ a.st \notin {"pending", "sending"}
         /\ d.lane = "admission" => a.st = "sending" /\ out.st \notin {"sending", "sent"} /\ r.drev = 0
  <1>1. d \in Hands
    BY DEF ReactionInv, Types
  <1>2. d.payload \in Payloads /\ d.payload.rev \in Nat /\ d.payload.state \in States /\ d.seen \in Payloads
    BY <1>1 DEF Hands, Payloads
  <1>3. d.pc \in {"check"} \cup Recovering => d.lane = "reaction"
    BY DEF ReactionInv, LaneInv
  <1>4. ASSUME d.lane = "reaction"
        PROVE  /\ out.st = "sending" /\ sub # "none" /\ r.state # "none" /\ r.rev >= 1 /\ a.sup
               /\ a.st \notin {"pending", "sending"}
    <2>1. out.st = "sending" /\ a.st \notin {"pending", "sending"}
      BY <1>4 DEF ReactionInv, LaneInv
    <2>2. NoOutbox.st = "none"
      BY DEF NoOutbox
    <2>3. sub # "none"
      BY <2>1, <2>2 DEF ReactionInv, ShapeInv
    <2> QED BY <2>1, <2>3 DEF ReactionInv, ShapeInv
  <1>5. d.lane = "admission" => a.st = "sending" /\ out.st \notin {"sending", "sent"} /\ r.drev = 0
    BY DEF ReactionInv, LaneInv
  <1> QED BY <1>2, <1>3, <1>4, <1>5

LEMMA ClaimReaction ==
  ASSUME ReactionInv, claim_reaction
  PROVE  ReactionInv'
  <1>1. /\ d.pc = "idle" /\ out.st = "pending" /\ a.st \notin {"pending", "sending"}
        /\ out' = [out EXCEPT !.st = "sending", !.revised = FALSE]
        /\ d' = [Idle EXCEPT !.pc = "check", !.lane = "reaction", !.payload = out.payload]
        /\ UNCHANGED <<sub, fence, live, pump, reopened, crossed, r, a, shown>>
    BY DEF claim_reaction, Quiet
  <1>2. out \in OutboxRows
    BY RowNow
  <1>3. /\ out' \in OutboxRows /\ out'.st = "sending" /\ ~out'.revised /\ out'.payload = out.payload
        /\ out.payload \in Payloads
    BY <1>1, <1>2 DEF OutboxRows
  <1>4. /\ d' \in Hands /\ d'.pc = "check" /\ d'.lane = "reaction" /\ d'.payload = out.payload /\ d'.seen = NoPayload
    BY <1>1, <1>3, IdleHand DEF Hands
  <1>5. Types'
    BY <1>1, <1>3, <1>4 DEF ReactionInv, Types
  <1>6. RowOK(r', Done')
    BY <1>1, RowKept
  <1>7. ShapeInv'
    BY <1>1, <1>3, <1>4 DEF ReactionInv, ShapeInv, NoOutbox
  <1>8. PastInv' /\ FenceInv'
    BY <1>1, <1>3, <1>4, PastNone DEF ReactionInv, PastInv, FenceInv
  <1>9. SentInv' /\ StaleInv'
    BY <1>1, <1>3, <1>4 DEF ReactionInv, SentInv, StaleInv, Recovering, Delivering
  <1>10. LaneInv' /\ HandInv'
    BY <1>1, <1>3, <1>4 DEF ReactionInv, LaneInv, HandInv, Recovering, Delivering
  <1> QED BY <1>5, <1>6, <1>7, <1>8, <1>9, <1>10 DEF ReactionInv

LEMMA ClaimAdmission ==
  ASSUME ReactionInv, claim_admission
  PROVE  ReactionInv'
  <1>1. /\ d.pc = "idle" /\ a.st = "pending"
        /\ a' = [a EXCEPT !.st = "sending", !.revised = FALSE]
        /\ d' = [Idle EXCEPT !.pc = "add", !.lane = "admission",
                             !.payload = [NoPayload EXCEPT !.state = a.state], !.prev = a.prev]
        /\ UNCHANGED <<sub, fence, live, pump, reopened, crossed, r, out, shown>>
    BY DEF claim_admission, Quiet
  <1>2. a \in AdmissionRows
    BY RowNow
  <1>3. /\ a' \in AdmissionRows /\ a'.st = "sending" /\ a'.sup = a.sup /\ a'.state = a.state
        /\ a.state \in Admissions /\ a.prev \in Admissions
    BY <1>1, <1>2 DEF AdmissionRows
  <1>4. [NoPayload EXCEPT !.state = a.state] \in Payloads /\ a.prev \in States
    BY <1>3 DEF NoPayload, Payloads, Admissions, States
  <1>5. d' \in Hands /\ d'.pc = "add" /\ d'.lane = "admission" /\ d'.seen = NoPayload
    BY <1>1, <1>3, <1>4, IdleHand DEF Hands, Delivering
  <1>6. Types'
    BY <1>1, <1>3, <1>5 DEF ReactionInv, Types
  <1>7. RowOK(r', Done')
    BY <1>1, RowKept
  <1>8. ShapeInv'
    BY <1>1, <1>3, <1>5 DEF ReactionInv, ShapeInv
  <1>9. PastInv' /\ FenceInv'
    BY <1>1, <1>5, PastNone DEF ReactionInv, PastInv, FenceInv
  <1>10. out.st # "sent" /\ out.st # "sending"
    BY <1>1 DEF ReactionInv, LaneInv
  <1>11. SentInv' /\ StaleInv'
    BY <1>1, <1>5, <1>10 DEF ReactionInv, SentInv, StaleInv, Recovering
  <1>12. LaneInv' /\ HandInv'
    BY <1>1, <1>3, <1>5, <1>10 DEF ReactionInv, LaneInv, HandInv, Recovering
  <1> QED BY <1>6, <1>7, <1>8, <1>9, <1>11, <1>12 DEF ReactionInv

\* Only the hand moves, and what it has read is past.
LEMMA HandMoves ==
  ASSUME ReactionInv, UNCHANGED <<sub, fence, live, pump, reopened, crossed, r, out, a, shown>>,
         d' \in Hands, PastOf(r, d'.seen), d'.seen.f <= fence, sub = "none" => d'.seen = NoPayload,
         d'.lane = d.lane, SentInv', StaleInv', LaneInv', HandInv'
  PROVE  ReactionInv'
  <1>1. Types'
    BY DEF ReactionInv, Types
  <1>2. RowOK(r', Done')
    BY RowKept
  <1>3. ShapeInv' /\ PastInv' /\ FenceInv'
    BY DEF ReactionInv, ShapeInv, PastInv, FenceInv
  <1> QED BY <1>1, <1>2, <1>3 DEF ReactionInv

LEMMA CheckCurrent ==
  ASSUME ReactionInv, check_current
  PROVE  ReactionInv'
  <1>1. /\ d.pc = "check" /\ d' = [d EXCEPT !.pc = "add", !.prev = r.dstate]
        /\ r.state = d.payload.state /\ r.rev = d.payload.rev /\ r.term = d.payload.fin
        /\ UNCHANGED <<sub, fence, live, pump, reopened, crossed, r, out, a, shown>>
    BY DEF check_current, Quiet, IsCurrent, DesiredIsCurrent, payload
  <1>2. d \in Hands /\ d.lane = "reaction" /\ r.dstate \in States /\ r.drev <= r.rev /\ r.rev \in Nat
    BY <1>1, InHand, RowNow
  <1>3. /\ d' \in Hands /\ d'.pc = "add" /\ d'.lane = d.lane /\ d'.payload = d.payload /\ d'.seen = d.seen
    BY <1>1, <1>2 DEF Hands, Delivering
  <1>4. PastOf(r, d.payload) /\ r.drev <= d.payload.rev
    BY <1>1, <1>2 DEF PastOf
  <1>5. out.st = "sending"
    BY <1>2, InHand
  <1>6. SentInv' /\ StaleInv'
    BY <1>1, <1>3, <1>5 DEF ReactionInv, SentInv, StaleInv, Recovering, Owed
  <1>7. LaneInv' /\ HandInv'
    BY <1>1, <1>2, <1>3, <1>4 DEF ReactionInv, LaneInv, HandInv, Recovering, Delivering
  <1>8. PastOf(r, d.seen) /\ d.seen.f <= fence /\ (sub = "none" => d.seen = NoPayload)
    BY DEF ReactionInv, PastInv, FenceInv, ShapeInv
  <1> QED BY <1>1, <1>3, <1>6, <1>7, <1>8, HandMoves

LEMMA CheckStale ==
  ASSUME ReactionInv, check_stale
  PROVE  ReactionInv'
  <1>1. /\ d.pc = "check" /\ d' = [Idle EXCEPT !.pc = "recover", !.lane = "reaction"]
        /\ ~IsCurrent
        /\ UNCHANGED <<sub, fence, live, pump, reopened, crossed, r, out, a, shown>>
    BY DEF check_stale, Quiet
  <1>2. d.lane = "reaction" /\ out.st = "sending" /\ sub # "none"
    BY <1>1, InHand
  <1>3. d' \in Hands /\ d'.pc = "recover" /\ d'.lane = "reaction" /\ d'.seen = NoPayload
    BY <1>1, IdleHand DEF Hands, Recovering
  <1>4. SentInv'
    BY <1>1, <1>2, <1>3 DEF ReactionInv, SentInv, Delivering
  <1>5. StaleInv'
    <2> SUFFICES ASSUME ~out.revised, r.term, out.payload.rev = r.rev
                 PROVE  out.payload.f # r.f /\ (r.state = "failed" => out.payload.f < r.f)
      BY <1>1, <1>3 DEF StaleInv
    <2>1. d.payload = out.payload
      BY <1>1, <1>2 DEF ReactionInv, HandInv
    <2>2. out.payload.state = r.state /\ out.payload.fin = r.term
      BY DEF ReactionInv, PastInv, PastOf
    <2>3. r.f # out.payload.f
      <3> SUFFICES ASSUME r.f = out.payload.f PROVE IsCurrent
        BY <1>1
      <3> QED BY <2>1, <2>2 DEF IsCurrent, DesiredIsCurrent, payload
    <2>4. r.state = "failed" => out.payload.f <= r.f
      BY DEF ReactionInv, FenceInv
    <2>5. out.payload.f \in Nat /\ r.f \in Nat
      BY RowNow DEF OutboxRows, Payloads
    <2> QED BY <2>3, <2>4, <2>5
  <1>6. LaneInv' /\ HandInv'
    BY <1>1, <1>2, <1>3 DEF ReactionInv, LaneInv, HandInv, Recovering, Delivering
  <1> QED BY <1>1, <1>2, <1>3, <1>4, <1>5, <1>6, PastNone, HandMoves

LEMMA RecoverReads ==
  ASSUME ReactionInv, recover_reads
  PROVE  ReactionInv'
  <1>1. /\ d.pc \in {"recover", "start"}
        /\ d' = [d EXCEPT !.pc = IF d.pc = "start" THEN "restore" ELSE "requeue", !.seen = Seen]
        /\ UNCHANGED <<sub, fence, live, pump, reopened, crossed, r, out, a, shown>>
    BY DEF recover_reads, Quiet
  <1>2. /\ Seen \in Payloads /\ PastOf(r, Seen) /\ Seen.f <= fence
        /\ r.term => (Seen = NoPayload /\ Delivered(r)) \/ (Seen = PayloadOf(r) /\ Seen.fin)
        /\ ~r.term => ~Seen.fin
    BY SeenNow
  <1>3. d \in Hands
    BY RowNow
  <1>4. /\ d' \in Hands /\ d'.pc = (IF d.pc = "start" THEN "restore" ELSE "requeue")
        /\ d'.lane = d.lane /\ d'.seen = Seen /\ d'.payload = d.payload
    BY <1>1, <1>2, <1>3 DEF Hands, Recovering
  <1>5. sub = "none" => Seen = NoPayload
    BY DEF ReactionInv, ShapeInv, NoReaction, Seen
  <1>6. d.pc = "recover" => d.lane = "reaction" /\ out.st = "sending"
    BY InHand DEF Recovering
  <1>7. d.pc = "start" => d.lane = "none"
    BY DEF ReactionInv, LaneInv
  <1>8. /\ Delivered(r) => r.state \in shown
        /\ Owed => r.term
    BY DEF ReactionInv, SentInv, Owed
  <1>9. SentInv'
    <2>1. ASSUME Owed, out.st = "sent", r.state \notin shown
          PROVE  d'.pc = "restore" /\ d'.seen # NoPayload
      <3>1. d.pc = "start"
        BY <1>1, <1>6, <2>1
      <3>2. Seen # NoPayload
        BY <1>2, <1>8, <2>1 DEF NoPayload
      <3> QED BY <1>4, <3>1, <3>2
    <2>2. ASSUME Owed, d'.lane = "reaction", ~out.revised
          PROVE  /\ d'.pc = "drop" => r.state \in shown
                 /\ d'.pc = "requeue" /\ ~d'.seen.fin => r.state \in shown
                 /\ d'.pc \in Delivering => r.state = d'.payload.state
      BY <1>2, <1>4, <1>8, <2>2 DEF Delivering
    <2>3. Owed' <=> Owed
      BY <1>1 DEF Owed
    <2>4. /\ out.st = "sent" => ~out.text
          /\ out.revised => out.st = "sending"
      BY DEF ReactionInv, SentInv
    <2> QED BY <1>1, <1>8, <2>1, <2>2, <2>3, <2>4 DEF SentInv
  <1>10. StaleInv'
    <2> SUFFICES ASSUME ~crossed, ~out.revised, d.pc = "recover"
                 PROVE  /\ r.term /\ out.payload.rev = r.rev =>
                             out.payload.f # r.f /\ (r.state = "failed" => out.payload.f < r.f)
                        /\ Seen.fin => out.payload # Seen
      BY <1>1, <1>4 DEF StaleInv, Recovering
    <2>1. r.term /\ out.payload.rev = r.rev =>
             out.payload.f # r.f /\ (r.state = "failed" => out.payload.f < r.f)
      BY DEF ReactionInv, StaleInv, Recovering
    <2>2. ASSUME Seen.fin, out.payload = Seen PROVE FALSE
      <3>1. r.term /\ Seen = PayloadOf(r)
        BY <1>2, <2>2 DEF NoPayload
      <3>2. out.payload.rev = r.rev /\ out.payload.f = r.f
        BY <2>2, <3>1 DEF PayloadOf
      <3> QED BY <2>1, <3>1, <3>2
    <2> QED BY <2>1, <2>2
  <1>11. LaneInv' /\ HandInv'
    BY <1>1, <1>4, <1>6, <1>7 DEF ReactionInv, LaneInv, HandInv, Recovering, Delivering
  <1> QED BY <1>1, <1>2, <1>4, <1>5, <1>9, <1>10, <1>11, HandMoves

LEMMA RecoverWrites ==
  ASSUME ReactionInv, recover_writes
  PROVE  ReactionInv'
  <1> DEFINE p == d.seen
  <1>1. /\ d.pc \in {"requeue", "restore"} /\ Requeue(p)
        /\ d' = IF d.pc = "restore" THEN Idle ELSE [d EXCEPT !.pc = "drop", !.seen = NoPayload]
        /\ UNCHANGED <<sub, fence, live, pump, reopened, crossed, a, shown>>
    BY DEF recover_writes, Quiet
  <1>2. p \in Payloads /\ PastOf(r, p) /\ p.f <= fence /\ out \in OutboxRows /\ d \in Hands
        /\ (sub = "none" => p = NoPayload)
    BY RowNow, InHand DEF ReactionInv, PastInv, FenceInv, ShapeInv
  <1>3. /\ d' \in Hands /\ d'.seen = NoPayload /\ d'.lane = d.lane
        /\ d'.pc = (IF d.pc = "restore" THEN "idle" ELSE "drop")
    <2>1. CASE d.pc = "restore"
      <3>1. d.lane = "none" /\ d' = Idle
        BY <1>1, <2>1 DEF ReactionInv, LaneInv
      <3> QED BY <2>1, <3>1, IdleHand
    <2>2. CASE d.pc = "requeue"
      <3>1. d' = [d EXCEPT !.pc = "drop", !.seen = NoPayload]
        BY <1>1, <2>2
      <3> QED BY <1>2, <2>2, <3>1, NoPayloadType DEF Hands, Recovering
    <2> QED BY <1>1, <2>1, <2>2
  <1> HIDE DEF p
  <1>4. /\ RowOK(r', Done') /\ r'.f \in Nat /\ r'.f <= fence
        /\ r'.state = r.state /\ r'.rev = r.rev /\ r'.term = r.term
        /\ r'.dstate = r.dstate /\ r'.drev = r.drev
        /\ out' \in OutboxRows /\ PastOf(r, out'.payload)
        /\ out'.payload.rev = r.rev /\ r.state = "failed" => out'.payload.f <= r'.f
    BY <1>1, <1>2, RequeueRow
  <1>5. \/ p = NoPayload /\ r' = r /\ out' = out
        \/ p # NoPayload /\ r'.f = p.f /\ out' = out /\ out.payload = p /\ out.text
        \/ /\ p # NoPayload /\ r'.f = p.f
           /\ out'.st = IF out.st = "sending" THEN "sending" ELSE "pending"
           /\ out'.revised <=> out.st = "sending"
    BY <1>1, <1>2, RequeueRow
  <1>6. /\ (out'.st = "sending" <=> out.st = "sending") /\ (out'.st = "sent" => out' = out)
        /\ out' = out \/ (out'.revised <=> out'.st = "sending")
        /\ (out'.st = "none" => out.st = "none")
    BY <1>5
  <1>7. Types'
    BY <1>1, <1>3, <1>4 DEF ReactionInv, Types
  <1>8. ShapeInv'
    <2>1. CASE sub = "none"
      BY <1>1, <1>2, <1>3, <1>5, <2>1 DEF ReactionInv, ShapeInv
    <2>2. CASE sub # "none"
      BY <1>1, <1>4, <1>6, <2>2 DEF ReactionInv, ShapeInv
    <2> QED BY <2>1, <2>2
  <1>9. PastInv'
    <2>1. PastOf(r, pump.seen) /\ PastOf(r, NoPayload)
      BY PastNone DEF ReactionInv, PastInv
    <2>2. PastOf(r', out'.payload) /\ PastOf(r', pump.seen) /\ PastOf(r', NoPayload)
      BY <1>4, <2>1, PastSame
    <2> QED BY <1>1, <1>3, <2>2 DEF PastInv
  <1>10. FenceInv'
    BY <1>1, <1>3, <1>4, PastNone DEF ReactionInv, FenceInv
  <1>11. d.pc = "requeue" => d.lane = "reaction" /\ out.st = "sending"
    BY InHand DEF Recovering
  <1>12. d.pc = "restore" => d.lane = "none"
    BY DEF ReactionInv, LaneInv
  <1>13. LaneInv'
    <2>1. out'.st \in {"sending", "sent"} => out.st = out'.st
      BY <1>6
    <2> QED BY <1>1, <1>3, <1>4, <1>6, <1>11, <1>12, <2>1 DEF ReactionInv, LaneInv, Recovering
  <1>14. HandInv'
    BY <1>1, <1>3, <1>11, <1>12 DEF HandInv, Recovering, Delivering
  <1>15. r.term \in BOOLEAN
    BY RowNow
  \* What was found stale is queued again, unless nothing was read of a finished row.
  <1>16. ASSUME d.pc = "requeue", ~crossed, ~out'.revised
         PROVE  out' = out /\ ~out.revised /\ ~p.fin /\ (r.term => p = NoPayload \/ out.payload.rev # r.rev)
    <2>1. out' = out /\ ~out.revised /\ (p = NoPayload \/ out.payload = p)
      BY <1>5, <1>11, <1>16
    <2>2. ~p.fin
      <3>1. p.fin => out.payload # p
        BY <1>16, <2>1 DEF ReactionInv, StaleInv, p
      <3>2. ~NoPayload.fin
        BY DEF NoPayload
      <3> QED BY <2>1, <3>1, <3>2
    <2>3. r.term /\ out.payload = p => out.payload.rev # r.rev
      <3> SUFFICES ASSUME r.term, out.payload = p, p.rev = r.rev PROVE FALSE
        OBVIOUS
      <3>1. p.fin = r.term
        BY <1>2 DEF PastOf
      <3> QED BY <2>2, <3>1
    <2> QED BY <2>1, <2>2, <2>3
  <1>17. StaleInv'
    <2> SUFFICES ASSUME ~crossed, ~out'.revised, d.pc = "requeue", r'.term, out'.payload.rev = r'.rev
                 PROVE  out'.payload.f # r'.f /\ (r'.state = "failed" => out'.payload.f < r'.f)
      BY <1>1, <1>3 DEF StaleInv, Recovering
    <2>1. out' = out /\ ~out.revised /\ r.term /\ out.payload.rev = r.rev
      BY <1>4, <1>16
    <2>2. p = NoPayload
      BY <1>16, <2>1
    <2>3. r' = r
      BY <1>5, <2>2
    <2> QED BY <2>1, <2>3 DEF ReactionInv, StaleInv, Recovering
  <1>18. SentInv'
    <2>1. Delivered(r') => r'.state \in shown'
      <3>1. Delivered(r) => r.state \in shown
        BY DEF ReactionInv, SentInv
      <3> QED BY <1>1, <1>4, <3>1 DEF Delivered
    <2>2. (out'.st = "sent" => ~out'.text) /\ (out'.revised => out'.st = "sending")
      BY <1>6 DEF ReactionInv, SentInv
    <2>3. Owed' => Owed /\ r.term /\ ~crossed
      BY <1>1, <1>4 DEF Owed
    <2>4. Owed' /\ out'.st = "sent" => r.state \in shown
      <3> SUFFICES ASSUME Owed', out'.st = "sent", r.state \notin shown PROVE FALSE
        OBVIOUS
      <3>1. out' = out /\ ~out.text
        BY <1>6, <2>2
      <3>2. p = NoPayload
        BY <1>5, <3>1
      <3> QED BY <1>1, <2>3, <3>1, <3>2 DEF ReactionInv, SentInv, p
    <2>5. ASSUME Owed', d.pc = "requeue", ~out'.revised PROVE r.state \in shown
      <3>1. ~out.revised /\ ~p.fin
        BY <1>16, <2>3, <2>5
      <3> QED BY <1>11, <2>3, <2>5, <3>1 DEF ReactionInv, SentInv, p
    <2> QED BY <1>1, <1>3, <1>4, <2>1, <2>2, <2>4, <2>5 DEF SentInv, Delivering
  <1> QED BY <1>4, <1>7, <1>8, <1>9, <1>10, <1>13, <1>14, <1>17, <1>18 DEF ReactionInv

\* The row of the reaction is put down: pending, blocked, or sent if an outcome that is owed is on the message.
LEMMA PutDown ==
  ASSUME ReactionInv, d.lane = "reaction", d' = Idle,
         UNCHANGED <<sub, fence, live, pump, reopened, crossed, a, shown>>,
         out' \in OutboxRows, out'.payload = out.payload, ~out'.revised,
         RowOK(r', Done'), r'.state = r.state, r'.rev = r.rev, r'.f = r.f, r'.term = r.term,
         Delivered(r') => r.state \in shown,
         out'.st \in {"pending", "blocked"} \/ (out'.st = "sent" /\ ~out'.text /\ (Owed => r.state \in shown))
  PROVE  ReactionInv'
  <1>1. a.st \notin {"pending", "sending"} /\ sub # "none" /\ r.state # "none" /\ a.sup /\ r.rev >= 1
    BY InHand
  <1>2. d' \in Hands /\ d'.pc = "idle" /\ d'.lane = "none" /\ d'.seen = NoPayload
    BY IdleHand
  <1>3. Types'
    BY <1>2 DEF ReactionInv, Types
  <1>4. ShapeInv'
    BY <1>1 DEF ReactionInv, ShapeInv
  <1>5. PastInv'
    <2>1. PastOf(r, out.payload) /\ PastOf(r, pump.seen) /\ PastOf(r, NoPayload)
      BY PastNone DEF ReactionInv, PastInv
    <2>2. PastOf(r', out.payload) /\ PastOf(r', pump.seen) /\ PastOf(r', NoPayload)
      BY <2>1, PastSame
    <2> QED BY <1>2, <2>2 DEF PastInv
  <1>6. FenceInv'
    BY <1>2, PastNone DEF ReactionInv, FenceInv
  <1>7. SentInv'
    BY <1>2 DEF SentInv, Owed
  <1>8. StaleInv' /\ HandInv'
    BY <1>2 DEF StaleInv, HandInv, Recovering
  <1>9. LaneInv'
    BY <1>1, <1>2 DEF LaneInv, Recovering
  <1> QED BY <1>3, <1>4, <1>5, <1>6, <1>7, <1>8, <1>9 DEF ReactionInv

LEMMA CheckWaits ==
  ASSUME ReactionInv, check_waits
  PROVE  ReactionInv'
  <1>1. /\ d.pc = "check" /\ out' = [out EXCEPT !.st = "pending", !.revised = FALSE] /\ d' = Idle
        /\ UNCHANGED <<sub, fence, live, pump, reopened, crossed, r, a, shown>>
    BY DEF check_waits, Quiet
  <1>2. d.lane = "reaction" /\ out \in OutboxRows
    BY <1>1, InHand, RowNow
  <1>3. out' \in OutboxRows /\ out'.st = "pending" /\ out'.payload = out.payload /\ ~out'.revised
    BY <1>1, <1>2 DEF OutboxRows
  <1>4. RowOK(r', Done') /\ (Delivered(r') => r.state \in shown)
    BY <1>1, RowKept DEF ReactionInv, SentInv
  <1> QED BY <1>1, <1>2, <1>3, <1>4, PutDown

LEMMA AfterRow ==
  ASSUME NEW entry \in OutboxRows
  PROVE  LET new == OAfter(entry)
         IN /\ new \in OutboxRows /\ new.payload = entry.payload /\ ~new.revised
            /\ entry.revised => new.st = "pending"
            /\ ~entry.revised => new.st = "sent" /\ ~new.text
  <1>1. PICK st \in {"sent", "pending"} : st = IF entry.revised THEN "pending" ELSE "sent"
    OBVIOUS
  <1>2. PICK text \in BOOLEAN : text = (entry.revised /\ entry.text)
    OBVIOUS
  <1>3. OAfter(entry) = [entry EXCEPT !.st = st, !.text = text, !.revised = FALSE]
    BY <1>1, <1>2 DEF OAfter
  <1>4. OAfter(entry) \in OutboxRows
    BY <1>3 DEF OutboxRows
  <1>5. OAfter(entry).payload = entry.payload /\ OAfter(entry).st = st /\ OAfter(entry).text = text
        /\ OAfter(entry).revised = FALSE
    BY <1>3 DEF OutboxRows
  <1> QED BY <1>1, <1>2, <1>4, <1>5

LEMMA FinishStale ==
  ASSUME ReactionInv, finish_stale
  PROVE  ReactionInv'
  <1>1. /\ d.pc = "drop" /\ out' = OAfter(out) /\ d' = Idle
        /\ UNCHANGED <<sub, fence, live, pump, reopened, crossed, r, a, shown>>
    BY DEF finish_stale, Quiet
  <1>2. d.lane = "reaction" /\ out \in OutboxRows
    BY <1>1, InHand, RowNow DEF Recovering
  <1>3. /\ out' \in OutboxRows /\ out'.payload = out.payload /\ ~out'.revised
        /\ out.revised => out'.st = "pending"
        /\ ~out.revised => out'.st = "sent" /\ ~out'.text
    BY <1>1, <1>2, AfterRow
  <1>4. ~out.revised /\ Owed => r.state \in shown
    BY <1>1, <1>2 DEF ReactionInv, SentInv
  <1>5. RowOK(r', Done') /\ (Delivered(r') => r.state \in shown)
    BY <1>1, RowKept DEF ReactionInv, SentInv
  <1> QED BY <1>1, <1>2, <1>3, <1>4, <1>5, PutDown

LEMMA FinishReaction ==
  ASSUME ReactionInv, finish_reaction
  PROVE  ReactionInv'
  <1>1. /\ d.pc = "finish" /\ d.lane = "reaction" /\ d' = Idle
        /\ r' = IF r.state = d.payload.state /\ r.rev = d.payload.rev /\ r.f = d.payload.f
                THEN [r EXCEPT !.dstate = d.payload.state, !.drev = d.payload.rev] ELSE r
        /\ out' = OAfter(out)
        /\ UNCHANGED <<sub, fence, live, pump, reopened, crossed, a, shown>>
    BY DEF finish_reaction, Quiet, DesiredIsCurrent, payload
  <1>2. out \in OutboxRows /\ d.payload.state \in States /\ d.payload.rev \in Nat /\ r.rev \in Nat /\ r.drev <= r.rev
    BY InHand, RowNow
  <1>3. d.payload.state \in shown
    BY <1>1 DEF ReactionInv, HandInv
  <1>4. /\ out' \in OutboxRows /\ out'.payload = out.payload /\ ~out'.revised
        /\ out.revised => out'.st = "pending"
        /\ ~out.revised => out'.st = "sent" /\ ~out'.text
    BY <1>1, <1>2, AfterRow
  <1>5. ~out.revised /\ Owed => r.state \in shown
    BY <1>1, <1>3 DEF ReactionInv, SentInv, Delivering
  <1>6. PICK S : Chain(S, Done) /\ r \in ReactionRows(S)
    BY DEF ReactionInv, RowOK
  <1>7. /\ r' \in ReactionRows(S) /\ r'.state = r.state /\ r'.rev = r.rev /\ r'.term = r.term /\ r'.f = r.f
        /\ r'.drev <= r'.rev
    <2>1. CASE r.state = d.payload.state /\ r.rev = d.payload.rev /\ r.f = d.payload.f
      <3>1. r' = [r EXCEPT !.dstate = d.payload.state, !.drev = d.payload.rev]
        BY <1>1, <2>1
      <3>2. r' \in ReactionRows(S)
        BY <3>1, <1>2, <1>6 DEF ReactionRows
      <3>3. /\ r'.state = r.state /\ r'.rev = r.rev /\ r'.term = r.term /\ r'.f = r.f /\ r'.drev = d.payload.rev
        BY <3>1, <1>6 DEF ReactionRows
      <3> QED BY <3>2, <3>3, <2>1, <1>2
    <2>2. CASE ~(r.state = d.payload.state /\ r.rev = d.payload.rev /\ r.f = d.payload.f)
      BY <2>2, <1>1, <1>2, <1>6
    <2> QED BY <2>1, <2>2
  <1>8. Done' <=> Done
    BY <1>1 DEF Done
  <1>9. RowOK(r', Done')
    BY <1>6, <1>7, <1>8 DEF ReactionInv, RowOK
  <1>10. Delivered(r') => r.state \in shown
    <2>1. Delivered(r) => r.state \in shown
      BY DEF ReactionInv, SentInv
    <2> QED BY <2>1, <1>1, <1>3
  <1> QED BY <1>1, <1>4, <1>5, <1>7, <1>9, <1>10, PutDown

LEMMA AddReaction ==
  ASSUME ReactionInv, add_reaction
  PROVE  ReactionInv'
  <1>1. /\ d.pc = "add" /\ shown' = shown \cup {d.payload.state} /\ d' = [d EXCEPT !.pc = "remove"]
        /\ UNCHANGED <<sub, fence, live, pump, reopened, crossed, r, out, a>>
    BY DEF add_reaction, Quiet, payload
  <1>2. d \in Hands
    BY RowNow
  <1>3. d' \in Hands /\ d'.pc = "remove" /\ d'.lane = d.lane /\ d'.payload = d.payload /\ d'.seen = d.seen
    BY <1>1, <1>2 DEF Hands, Delivering
  <1>4. Types'
    BY <1>1, <1>3 DEF ReactionInv, Types
  <1>5. RowOK(r', Done')
    BY <1>1, RowKept
  <1>6. ShapeInv' /\ PastInv' /\ FenceInv'
    BY <1>1, <1>3 DEF ReactionInv, ShapeInv, PastInv, FenceInv
  <1>7. SentInv'
    BY <1>1, <1>3 DEF ReactionInv, SentInv, Owed, Delivering
  <1>8. StaleInv'
    BY <1>1, <1>3 DEF ReactionInv, StaleInv, Recovering
  <1>9. LaneInv' /\ HandInv'
    BY <1>1, <1>3 DEF ReactionInv, LaneInv, HandInv, Recovering, Delivering
  <1> QED BY <1>4, <1>5, <1>6, <1>7, <1>8, <1>9 DEF ReactionInv

LEMMA RemoveReaction ==
  ASSUME ReactionInv, remove_reaction
  PROVE  ReactionInv'
  <1>1. /\ d.pc = "remove" /\ d' = [d EXCEPT !.pc = "finish", !.prev = "none"]
        /\ shown' = IF d.prev # d.payload.state THEN shown \ {d.prev} ELSE shown
        /\ UNCHANGED <<sub, fence, live, pump, reopened, crossed, r, out, a>>
    BY DEF remove_reaction, Quiet, payload
  <1>2. d \in Hands /\ r.rev \in Nat /\ r.drev \in Nat /\ d.payload.rev \in Nat
    BY RowNow, InHand
  <1>3. d' \in Hands /\ d'.pc = "finish" /\ d'.lane = d.lane /\ d'.payload = d.payload /\ d'.seen = d.seen
    BY <1>1, <1>2 DEF Hands, Delivering, States
  <1>4. Types'
    BY <1>1, <1>3 DEF ReactionInv, Types
  <1>5. RowOK(r', Done')
    BY <1>1, RowKept
  <1>6. ShapeInv' /\ PastInv' /\ FenceInv'
    BY <1>1, <1>3 DEF ReactionInv, ShapeInv, PastInv, FenceInv
  <1>7. StaleInv'
    BY <1>1, <1>3 DEF ReactionInv, StaleInv, Recovering
  <1>8. d.lane # "none" /\ d.lane \in {"none", "reaction", "admission"} /\ out.st # "sent"
    BY <1>1, <1>2, InHand DEF ReactionInv, LaneInv, Hands
  <1>9. d.lane = "reaction" => /\ d.payload.state \in shown /\ PastOf(r, d.payload) /\ r.drev <= d.payload.rev
                               /\ (~out.revised => d.payload = out.payload)
    BY <1>1 DEF ReactionInv, HandInv, Delivering
  <1>10. d.lane = "reaction" => d.payload.state \in shown'
    BY <1>1, <1>9
  <1>11. Delivered(r) => r.state \in shown'
    <2>1. CASE d.lane = "reaction"
      <3>1. Delivered(r) => r.state = d.payload.state
        BY <1>2, <1>9, <2>1 DEF Delivered, PastOf
      <3> QED BY <1>10, <2>1, <3>1
    <2>2. CASE d.lane = "admission"
      <3>1. r.drev = 0
        BY <2>2, InHand
      <3>2. CASE sub = "none"
        BY <3>2 DEF ReactionInv, ShapeInv, NoReaction, Delivered
      <3>3. CASE sub # "none"
        BY <1>2, <3>1, <3>3 DEF ReactionInv, ShapeInv, Delivered
      <3> QED BY <3>2, <3>3
    <2> QED BY <1>8, <2>1, <2>2
  <1>12. SentInv'
    <2>1. Delivered(r') => r'.state \in shown'
      BY <1>1, <1>11
    <2> QED BY <1>1, <1>3, <1>8, <2>1 DEF ReactionInv, SentInv, Owed, Delivering
  <1>13. LaneInv'
    BY <1>1, <1>3 DEF ReactionInv, LaneInv, Recovering
  <1>14. HandInv'
    BY <1>1, <1>3, <1>9, <1>10 DEF HandInv, Delivering
  <1> QED BY <1>4, <1>5, <1>6, <1>7, <1>12, <1>13, <1>14 DEF ReactionInv

\* The row of the admission is put down.
LEMMA AdmissionDown ==
  ASSUME ReactionInv, d.lane = "admission", d' = Idle, a' \in AdmissionRows, a'.sup = a.sup,
         a'.st \notin {"none", "sending"},
         UNCHANGED <<sub, fence, live, pump, reopened, crossed, r, out, shown>>
  PROVE  ReactionInv'
  <1>1. a.st = "sending" /\ out.st \notin {"sending", "sent"} /\ r.drev = 0
    BY InHand
  <1>2. d' \in Hands /\ d'.pc = "idle" /\ d'.lane = "none" /\ d'.seen = NoPayload
    BY IdleHand
  <1>3. Types'
    BY <1>2 DEF ReactionInv, Types
  <1>4. RowOK(r', Done')
    BY RowKept
  <1>5. ShapeInv' /\ PastInv' /\ FenceInv'
    BY <1>2, PastNone DEF ReactionInv, ShapeInv, PastInv, FenceInv
  <1>6. SentInv' /\ StaleInv' /\ HandInv'
    BY <1>1, <1>2 DEF ReactionInv, SentInv, StaleInv, HandInv, Recovering
  <1>7. LaneInv'
    BY <1>1, <1>2 DEF LaneInv, Recovering
  <1> QED BY <1>3, <1>4, <1>5, <1>6, <1>7 DEF ReactionInv

LEMMA RetiredRow ==
  Retired \in AdmissionRows /\ Retired.sup = TRUE /\ Retired.st \notin {"none", "sending"}
  BY DEF Retired, NoAdmission, AdmissionRows, Admissions

LEMMA FailedAdmission ==
  ASSUME a \in AdmissionRows, NEW st \in {"sent", "pending", "blocked"}, a.revised \in BOOLEAN
  PROVE  LET new == [a EXCEPT !.st = IF a.revised THEN "pending" ELSE st, !.revised = FALSE]
         IN new \in AdmissionRows /\ new.sup = a.sup /\ new.st \notin {"none", "sending"}
  <1>1. PICK s \in {"sent", "pending", "blocked"} : s = IF a.revised THEN "pending" ELSE st
    OBVIOUS
  <1>2. [a EXCEPT !.st = s, !.revised = FALSE] \in AdmissionRows
    BY DEF AdmissionRows
  <1>3. [a EXCEPT !.st = s, !.revised = FALSE].sup = a.sup /\ [a EXCEPT !.st = s, !.revised = FALSE].st = s
    BY DEF AdmissionRows
  <1> QED BY <1>1, <1>2, <1>3

LEMMA FinishAdmission ==
  ASSUME ReactionInv, finish_admission
  PROVE  ReactionInv'
  <1>1. /\ d.lane = "admission" /\ d' = Idle
        /\ a' = IF a.revised /\ a.sup THEN Retired
                ELSE [a EXCEPT !.st = IF a.revised THEN "pending" ELSE "sent", !.revised = FALSE]
        /\ UNCHANGED <<sub, fence, live, pump, reopened, crossed, r, out, shown>>
    BY DEF finish_admission, Quiet
  <1>2. a \in AdmissionRows /\ a.revised \in BOOLEAN /\ a.sup \in BOOLEAN
    BY RowNow DEF AdmissionRows
  <1>3. a' \in AdmissionRows /\ a'.sup = a.sup /\ a'.st \notin {"none", "sending"}
    <2>1. CASE a.revised /\ a.sup
      BY <1>1, <1>2, <2>1, RetiredRow
    <2>2. CASE ~(a.revised /\ a.sup)
      <3>1. a' = [a EXCEPT !.st = IF a.revised THEN "pending" ELSE "sent", !.revised = FALSE]
        BY <1>1, <2>2
      <3> QED BY <1>2, <3>1, FailedAdmission
    <2> QED BY <2>1, <2>2
  <1> QED BY <1>1, <1>3, AdmissionDown

LEMMA Fault ==
  ASSUME ReactionInv, fault
  PROVE  ReactionInv'
  <1>1. PICK st \in {"pending", "blocked"} :
          /\ d.pc \in {"add", "remove"} /\ d' = Idle
          /\ IF d.lane = "reaction" THEN out' = Failed(out, st) /\ a' = a
             ELSE a' = (IF a.revised /\ a.sup THEN Retired ELSE Failed(a, st)) /\ out' = out
          /\ UNCHANGED <<sub, fence, live, pump, reopened, crossed, r, shown>>
    BY DEF fault, Quiet
  <1>2. d.lane \in {"reaction", "admission"}
    BY <1>1, RowNow DEF ReactionInv, LaneInv, Hands
  <1>3. CASE d.lane = "reaction"
    <2>1. out' = [out EXCEPT !.st = IF out.revised THEN "pending" ELSE st, !.revised = FALSE] /\ a' = a
          /\ out \in OutboxRows
      BY <1>1, <1>3, RowNow DEF Failed
    <2>2. PICK s \in {"pending", "blocked"} : s = IF out.revised THEN "pending" ELSE st
      OBVIOUS
    <2>3. out' = [out EXCEPT !.st = s, !.revised = FALSE]
      BY <2>1, <2>2
    <2>4. out' \in OutboxRows /\ out'.st = s /\ ~out'.revised /\ out'.payload = out.payload
      BY <2>1, <2>3 DEF OutboxRows
    <2>5. RowOK(r', Done') /\ (Delivered(r') => r.state \in shown)
      BY <1>1, RowKept DEF ReactionInv, SentInv
    <2> QED BY <1>1, <1>3, <2>1, <2>4, <2>5, PutDown
  <1>4. CASE d.lane = "admission"
    <2>1. a \in AdmissionRows /\ a.revised \in BOOLEAN /\ a.sup \in BOOLEAN
      BY RowNow DEF AdmissionRows
    <2>2. out' = out /\ a' = IF a.revised /\ a.sup THEN Retired ELSE Failed(a, st)
      BY <1>1, <1>4
    <2>3. a' \in AdmissionRows /\ a'.sup = a.sup /\ a'.st \notin {"none", "sending"}
      <3>1. CASE a.revised /\ a.sup
        BY <2>1, <2>2, <3>1, RetiredRow
      <3>2. CASE ~(a.revised /\ a.sup)
        <4>1. a' = [a EXCEPT !.st = IF a.revised THEN "pending" ELSE st, !.revised = FALSE]
          BY <2>2, <3>2 DEF Failed
        <4> QED BY <2>1, <4>1, FailedAdmission
      <3> QED BY <3>1, <3>2
    <2> QED BY <1>1, <1>4, <2>2, <2>3, AdmissionDown
  <1> QED BY <1>2, <1>3, <1>4

LEMMA Restart ==
  ASSUME ReactionInv, restart
  PROVE  ReactionInv'
  <1>1. /\ d' = [Idle EXCEPT !.pc = "start"] /\ pump' = NoPump /\ crossed' = FALSE
        /\ a' = [a EXCEPT !.st = IF a.st = "sending" THEN "pending" ELSE a.st, !.revised = FALSE]
        /\ out' = [out EXCEPT !.text = FALSE, !.revised = FALSE, !.st = IF out.st = "sending" THEN "pending" ELSE out.st]
        /\ UNCHANGED <<sub, r, fence, live, shown, reopened>>
    BY DEF restart
  <1>2. out \in OutboxRows /\ a \in AdmissionRows
    BY RowNow
  <1>3. d' \in Hands /\ d'.pc = "start" /\ d'.lane = "none" /\ d'.seen = NoPayload
    BY <1>1, IdleHand DEF Hands
  <1>4. pump' \in Pumps /\ pump'.pc = "idle" /\ pump'.seen = NoPayload /\ crossed' \in BOOLEAN
    <2>1. crossed' \in BOOLEAN
      BY <1>1, Zenon
    <2> QED BY <1>1, <2>1, IdleHand
  <1>5. /\ out' \in OutboxRows /\ out'.payload = out.payload /\ ~out'.text /\ ~out'.revised
        /\ out'.st = IF out.st = "sending" THEN "pending" ELSE out.st
    <2>1. PICK s \in {"none", "pending", "sent", "blocked"} : s = IF out.st = "sending" THEN "pending" ELSE out.st
      BY <1>2 DEF OutboxRows
    <2>2. out' = [out EXCEPT !.text = FALSE, !.revised = FALSE, !.st = s]
      BY <1>1, <2>1
    <2>3. out' \in OutboxRows /\ out'.payload = out.payload /\ ~out'.text /\ ~out'.revised /\ out'.st = s
      BY <1>2, <2>2 DEF OutboxRows
    <2> QED BY <2>1, <2>3
  <1>6. /\ a' \in AdmissionRows /\ a'.sup = a.sup /\ a'.state = a.state
        /\ a'.st = IF a.st = "sending" THEN "pending" ELSE a.st
    <2>1. PICK s \in {"none", "pending", "sent", "blocked", "superseded"} :
             s = IF a.st = "sending" THEN "pending" ELSE a.st
      BY <1>2 DEF AdmissionRows
    <2>2. a' = [a EXCEPT !.st = s, !.revised = FALSE]
      BY <1>1, <2>1
    <2> QED BY <1>2, <2>1, <2>2 DEF AdmissionRows
  <1>7. Types'
    BY <1>1, <1>3, <1>4, <1>5, <1>6 DEF ReactionInv, Types
  <1>8. RowOK(r', Done')
    BY <1>1, RowKept
  <1>9. ShapeInv'
    <2>1. sub = "none" => out' = NoOutbox
      <3> SUFFICES ASSUME sub = "none" PROVE out' = NoOutbox
        OBVIOUS
      <3>1. out = NoOutbox
        BY DEF ReactionInv, ShapeInv
      <3> QED BY <1>1, <3>1 DEF NoOutbox
    <2> QED BY <1>1, <1>3, <1>5, <1>6, <2>1 DEF ReactionInv, ShapeInv
  <1>10. PastInv' /\ FenceInv'
    BY <1>1, <1>3, <1>4, <1>5, PastNone DEF ReactionInv, PastInv, FenceInv
  <1>11. SentInv' /\ StaleInv' /\ HandInv'
    BY <1>1, <1>3, <1>5 DEF ReactionInv, SentInv, StaleInv, HandInv, Recovering, Delivered
  <1>12. LaneInv'
    <2>1. a'.st # "sending" /\ (a'.st = "pending" => out.st # "sent" /\ r.drev = 0)
      BY <1>6 DEF ReactionInv, LaneInv
    <2> QED BY <1>1, <1>3, <1>5, <2>1 DEF LaneInv, Recovering
  <1> QED BY <1>7, <1>8, <1>9, <1>10, <1>11, <1>12 DEF ReactionInv

LEMMA ReactionsPreserve == ReactionInv /\ [ReactionsNext]_reactionVars => ReactionInv'
  <1> SUFFICES ASSUME ReactionInv, [ReactionsNext]_reactionVars PROVE ReactionInv'
    OBVIOUS
  <1>1. CASE \E s \in {"accepted", "failed"} : queue_admission_reaction(s)
    BY <1>1, AdmissionQueued
  <1>2. CASE Reducer
    BY <1>2, QueuedSubmission, Shutdown, Resumes, Reopens, WorkEvent, Ends, RenderFails, NewerRender,
      ContentLost, ContentReplayed, QueueLost DEF Reducer
  <1>3. CASE QueueRecovery
    BY <1>3, QueueReads, QueueWrites DEF QueueRecovery
  <1>4. CASE Dispatcher
    BY <1>4, ClaimReaction, ClaimAdmission, CheckCurrent, CheckWaits, CheckStale, RecoverReads, RecoverWrites,
      FinishStale, AddReaction, RemoveReaction, FinishReaction, FinishAdmission DEF Dispatcher
  <1>5. CASE fault
    BY <1>5, Fault
  <1>6. CASE lease_expires \/ attach
    BY <1>6, OwnerMoves
  <1>7. CASE restart
    BY <1>7, Restart
  <1>8. CASE UNCHANGED reactionVars
    <2>1. UNCHANGED <<sub, r, out, a, fence, live, d, pump, shown, reopened, crossed>>
      BY <1>8 DEF reactionVars
    <2>2. RowOK(r', Done')
      BY <2>1, RowKept
    <2> QED BY <2>1, <2>2 DEF ReactionInv, Types, ShapeInv, PastInv, FenceInv, SentInv, StaleInv, LaneInv,
          HandInv, Owed
  <1> QED BY <1>1, <1>2, <1>3, <1>4, <1>5, <1>6, <1>7, <1>8 DEF ReactionsNext

\* The rows of the reaction, the outbox and the admission, the item in the
\* dispatcher's hand, what the recoveries have read and the emojis on the
\* message fit together in every reachable state (core/reducer.py
\* _set_submission_reaction, render/outbox.py _deliver_reaction and
\* recover_reaction_outbox, whose read and write are two steps).
THEOREM ReactionInvariant == ReactionsSpec => []ReactionInv
  <1>1. ReactionInv /\ [ReactionsNext]_reactionVars => ReactionInv'
    BY ReactionsPreserve
  <1> QED BY ReactionsBegin, <1>1, PTL DEF ReactionsSpec

LEMMA TrueFollows == ReactionInv => ReactionIsTrue
  BY DEF ReactionInv, RowOK, Done, SentInv, Owed, ReactionIsTrue, NoFalseSuccess, SentIsShown

\* Success is marked only for a submission that is or was complete, and an
\* outcome whose row is sent is on the message while nothing is in hand,
\* through shutdowns, render failures, lost texts, takeovers, restarts and
\* recoveries that write what they read before, unless a recovery of a
\* session's queue wrote what was no longer so (_set_submission_reaction,
\* _restore_shutdown_reactions, recover_reaction_outbox,
\* _finish_reaction_claim).
THEOREM ReactionsAreTrue == ReactionsSpec => []ReactionIsTrue
  BY ReactionInvariant, TrueFollows, PTL
=============================================================================
