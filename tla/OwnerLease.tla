------------------------------ MODULE OwnerLease ------------------------------
(***************************************************************************)
(* The cross-process owner lease of one Copilot session                    *)
(* (copilotd/storage/leases.py) together with the parts of the session     *)
(* runtime that take, renew, check and give up the lease                   *)
(* (copilotd/core/session_runtime.py).                                     *)
(*                                                                         *)
(* Every process that wants to drive the session has an owner id of its    *)
(* own, drawn afresh at each start, so a restarted process is another      *)
(* member of Owners.  All processes share one SQLite row.  A store call    *)
(* reads time.time() first and then waits for the database, so the time it *)
(* compares and writes may be old when its transaction commits: reading    *)
(* the clock and committing are two actions.                               *)
(***************************************************************************)
EXTENDS Integers

CONSTANTS
    Owners,      \* owner ids
    NoOwner,     \* the absent row's owner
    Ttl,         \* OWNER_LEASE_TTL_SECONDS
    Headroom,    \* MUTATION_HEADROOM_SECONDS
    OpTimeout,   \* sdk_operation_timeout_seconds
    Slack,       \* bound on the time from reading the clock to starting the RPC
    MaxClock,    \* bound: the model's clock stops here
    MaxFence     \* bound: no token above this one is granted

(* The store refuses a TTL below the headroom plus a margin, and the default
   timings leave 10 s between the operation timeout and the headroom. *)
ASSUME OwnersAssumption == NoOwner \notin Owners
ASSUME TimingAssumption ==
    /\ Ttl \in Nat /\ Headroom \in Nat
    /\ OpTimeout \in Nat /\ Slack \in Nat /\ MaxClock \in Nat /\ MaxFence \in Nat
    /\ Headroom < Ttl
    /\ Slack + OpTimeout < Headroom

VARIABLES
    clock,   \* time.time(), shared by the processes of one host
    row,     \* the session_owner_leases row
    held,    \* held[o]: the token of the lease in self._lease (0: None)
    mode,    \* mode[o]: what the runtime of o does with the session
    store,   \* store[o]: the lease-store call of o that waits for the database
    rpc      \* rpc[o]: the guarded SDK call of o

vars == <<clock, row, held, mode, store, rpc>>

Modes == {"detached", "owner", "fenced", "crashed"}
StoreOps == {"none", "acquire", "renew", "release"}
Phases == {"idle", "checking", "safe", "inflight"}

NoCall == [op |-> "none", at |-> 0, fence |-> 0]
IdleRpc == [phase |-> "idle", at |-> 0, start |-> 0]

Init ==
    /\ clock = 0
    /\ row = [owner |-> NoOwner, fence |-> 0, expires |-> 0]
    /\ held = [o \in Owners |-> 0]
    /\ mode = [o \in Owners |-> "detached"]
    /\ store = [o \in Owners |-> NoCall]
    /\ rpc = [o \in Owners |-> IdleRpc]

(* WHERE owner_id = ? AND fence_token = ?: the row is the tenure f of o. *)
Owns(o, f) == row.owner = o /\ row.fence = f

-----------------------------------------------------------------------------
(* acquire()                                                               *)

AcquireCall(o) ==
    /\ mode[o] = "detached"
    /\ store[o].op = "none"
    /\ store' = [store EXCEPT ![o] = [op |-> "acquire", at |-> clock, fence |-> 0]]
    /\ UNCHANGED <<clock, row, held, mode, rpc>>

(* Another owner's lease is unexpired at the time read: OwnerConflict. *)
AcquireConflict(o) ==
    /\ store[o].op = "acquire"
    /\ row.owner # o
    /\ row.expires > store[o].at
    /\ row.fence > 0
    /\ store' = [store EXCEPT ![o] = NoCall]
    /\ UNCHANGED <<clock, row, held, mode, rpc>>

(* Deviation: a takeover keeps the token of the tenure it ends. *)
GrantedFenceReused(o, at) == IF row.fence > 0 THEN row.fence ELSE 1

(* The token an acquisition is granted: the same one for an owner that still
   holds the row, the next one after a lapse, a release or another owner. *)
GrantedFence(o, at) ==
    IF row.owner = o /\ row.expires > at THEN row.fence ELSE row.fence + 1

(* Deviation: the rival's expiry is not looked at. *)
AcquireCommitUnguarded(o) ==
    LET at == store[o].at IN
    /\ store[o].op = "acquire"
    /\ GrantedFence(o, at) <= MaxFence
    /\ row' = [owner |-> o, fence |-> GrantedFence(o, at), expires |-> at + Ttl]
    /\ held' = [held EXCEPT ![o] = row'.fence]
    /\ mode' = [mode EXCEPT ![o] = "owner"]
    /\ store' = [store EXCEPT ![o] = NoCall]
    /\ UNCHANGED <<clock, rpc>>

AcquireCommit(o) ==
    LET at == store[o].at IN
    /\ store[o].op = "acquire"
    /\ row.fence > 0 => (row.owner = o \/ row.expires <= at)
    /\ GrantedFence(o, at) <= MaxFence
    /\ row' = [owner |-> o, fence |-> GrantedFence(o, at), expires |-> at + Ttl]
    /\ held' = [held EXCEPT ![o] = row'.fence]
    /\ mode' = [mode EXCEPT ![o] = "owner"]
    /\ store' = [store EXCEPT ![o] = NoCall]
    /\ UNCHANGED <<clock, rpc>>

-----------------------------------------------------------------------------
(* The renewal loop.  Its period is left out: a renewal may come at any time,
   so the safety properties do not depend on the loop being punctual.       *)

RenewCall(o) ==
    /\ mode[o] = "owner"
    /\ store[o].op = "none"
    /\ store' = [store EXCEPT ![o] =
                    [op |-> "renew", at |-> clock, fence |-> held[o]]]
    /\ UNCHANGED <<clock, row, held, mode, rpc>>

RenewCommit(o) ==
    LET call == store[o] IN
    /\ call.op = "renew"
    /\ Owns(o, call.fence) /\ row.expires > call.at
    /\ row' = [row EXCEPT !.expires = call.at + Ttl]
    /\ store' = [store EXCEPT ![o] = NoCall]
    /\ UNCHANGED <<clock, held, mode, rpc>>

(* rowcount # 1: FenceLost, the runtime is fenced and its mailbox frozen. *)
RenewFenceLost(o) ==
    LET call == store[o] IN
    /\ call.op = "renew"
    /\ ~(Owns(o, call.fence) /\ row.expires > call.at)
    /\ mode' = [mode EXCEPT ![o] = "fenced"]
    /\ store' = [store EXCEPT ![o] = NoCall]
    /\ UNCHANGED <<clock, row, held, rpc>>

(* The database raised something else.  The loop tries again while the lease
   it remembers has time left, and fences itself once that or the attempts run
   out. *)
RenewError(o) ==
    /\ store[o].op = "renew"
    /\ \/ mode' = [mode EXCEPT ![o] = "fenced"]
       \/ UNCHANGED mode
    /\ store' = [store EXCEPT ![o] = NoCall]
    /\ UNCHANGED <<clock, row, held, rpc>>

-----------------------------------------------------------------------------
(* release(), the last step of _stop_components: the mailbox has stopped, so
   no guarded call is under way, and self._lease is cleared first.          *)

ReleaseCall(o) ==
    /\ mode[o] \in {"owner", "fenced"}
    /\ store[o].op = "none"
    /\ rpc[o].phase = "idle"
    /\ store' = [store EXCEPT ![o] =
                    [op |-> "release", at |-> clock, fence |-> held[o]]]
    /\ held' = [held EXCEPT ![o] = 0]
    /\ mode' = [mode EXCEPT ![o] = "detached"]
    /\ UNCHANGED <<clock, row, rpc>>

(* The row is expired on the spot if it still is this tenure; if not, or if
   the database fails, nothing is written (the errors are collected). *)
ReleaseCommit(o) ==
    LET call == store[o] IN
    /\ call.op = "release"
    /\ \/ /\ Owns(o, call.fence) /\ row.expires > call.at
          /\ row' = [row EXCEPT !.expires = call.at]
       \/ UNCHANGED row
    /\ store' = [store EXCEPT ![o] = NoCall]
    /\ UNCHANGED <<clock, held, mode, rpc>>

-----------------------------------------------------------------------------
(* A guarded SDK call: has_mutation_headroom(), then the RPC under
   asyncio.timeout.  A fenced runtime has a frozen mailbox, which refuses new
   submissions while its worker goes on with the queued ones.              *)

RpcCall(o) ==
    /\ mode[o] \in {"owner", "fenced"}
    /\ rpc[o].phase = "idle"
    /\ rpc' = [rpc EXCEPT ![o] = [phase |-> "checking", at |-> clock, start |-> 0]]
    /\ UNCHANGED <<clock, row, held, mode, store>>

(* Deviation: a lease that is merely unexpired passes for one with headroom. *)
HasMutationHeadroomAsCurrent(o, at) ==
    held[o] > 0 /\ Owns(o, held[o]) /\ row.expires > at

HasMutationHeadroom(o, at) ==
    /\ held[o] > 0
    /\ Owns(o, held[o])
    /\ row.expires - at >= Headroom

RpcCheck(o) ==
    /\ rpc[o].phase = "checking"
    /\ rpc' = [rpc EXCEPT ![o] =
                  IF HasMutationHeadroom(o, rpc[o].at)
                  THEN [rpc[o] EXCEPT !.phase = "safe"] ELSE IdleRpc]
    /\ UNCHANGED <<clock, row, held, mode, store>>

(* Nothing lies between a passed check and the RPC: a runtime that its renewal
   loop has fenced meanwhile still starts the call. *)
RpcStart(o) ==
    /\ rpc[o].phase = "safe"
    /\ rpc' = [rpc EXCEPT ![o].phase = "inflight", ![o].start = clock]
    /\ UNCHANGED <<clock, row, held, mode, store>>

(* The RPC answered, failed, timed out or was cancelled by mailbox.stop().
   Without headroom _sdk_call then raises FenceLost and freezes the mailbox,
   which decides what the result counts for, not whether calls follow. *)
RpcEnd(o) ==
    /\ rpc[o].phase = "inflight"
    /\ rpc' = [rpc EXCEPT ![o] = IdleRpc]
    /\ UNCHANGED <<clock, row, held, mode, store>>

-----------------------------------------------------------------------------
(* The process dies: what it held in memory is gone, the row stays. *)
Crash(o) ==
    /\ mode[o] # "crashed"
    /\ mode' = [mode EXCEPT ![o] = "crashed"]
    /\ held' = [held EXCEPT ![o] = 0]
    /\ store' = [store EXCEPT ![o] = NoCall]
    /\ rpc' = [rpc EXCEPT ![o] = IdleRpc]
    /\ UNCHANGED <<clock, row>>

(* asyncio.timeout ends a call OpTimeout after its start, and the event loop
   takes at most Slack from the time read to the start of the RPC. *)
DeadlinesRespected ==
    \A o \in Owners :
        /\ rpc[o].phase \in {"checking", "safe"} => clock < rpc[o].at + Slack
        /\ rpc[o].phase = "inflight" => clock < rpc[o].start + OpTimeout

Tick ==
    /\ clock < MaxClock
    /\ DeadlinesRespected
    /\ clock' = clock + 1
    /\ UNCHANGED <<row, held, mode, store, rpc>>

OwnerStep(o) ==
    \/ AcquireCall(o) \/ AcquireConflict(o) \/ AcquireCommit(o)
    \/ RenewCall(o) \/ RenewCommit(o) \/ RenewFenceLost(o) \/ RenewError(o)
    \/ ReleaseCall(o) \/ ReleaseCommit(o)
    \/ RpcCall(o) \/ RpcCheck(o) \/ RpcStart(o) \/ RpcEnd(o)
    \/ Crash(o)

Next == Tick \/ \E o \in Owners : OwnerStep(o)

Spec == Init /\ [][Next]_vars

-----------------------------------------------------------------------------
(* The shape of every variable. *)
TypeOK ==
    /\ clock \in Nat
    /\ row \in [owner : Owners \cup {NoOwner}, fence : Nat, expires : Nat]
    /\ held \in [Owners -> Nat]
    /\ mode \in [Owners -> Modes]
    /\ store \in [Owners -> [op : StoreOps, at : Nat, fence : Nat]]
    /\ rpc \in [Owners -> [phase : Phases, at : Nat, start : Nat]]

(* While a guarded SDK call is in flight the session cannot change hands: the
   row is the caller's tenure and unexpired, whatever renewals, stale clocks,
   crashes and contenders did since the headroom check.  So a 40 s headroom
   really covers a 30 s call. *)
CallOwnsSession ==
    \A o \in Owners :
        rpc[o].phase = "inflight" =>
            /\ Owns(o, held[o])
            /\ row.expires > clock

(* At most one process has a guarded SDK call in flight. *)
ExclusiveCall ==
    \A o, p \in Owners :
        rpc[o].phase = "inflight" /\ rpc[p].phase = "inflight" => o = p

(* No two processes ever hold leases with the same fencing token, the stale
   lease objects of processes that lost the row included: a row stamped with a
   token names one tenure. *)
FenceNamesOneOwner ==
    \A o, p \in Owners : held[o] > 0 /\ held[o] = held[p] => o = p

(* acquire() takes the session from another owner, or from the same owner
   after a lapse, only once the lease has expired on the shared clock, and
   every such change raises the fencing token. *)
TakeoverOnlyAfterExpiry ==
    [][ /\ row'.fence >= row.fence
        /\ row'.owner # row.owner =>
              /\ row'.fence > row.fence
              /\ row.expires <= clock ]_vars
=============================================================================
