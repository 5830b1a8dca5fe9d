----------------------- MODULE NativeOperationsProofs -----------------------
(***************************************************************************)
(* Proofs about NativeOperations, for every set of keys and callers and    *)
(* every bound: a key's request is sent once, what is on record of an      *)
(* operation is true, and a Fleet run holds the session while it lives.     *)
(***************************************************************************)
EXTENDS NativeOperations, TLAPS, WellFoundedInduction, FiniteSetTheorems

-----------------------------------------------------------------------------
(* The shape of the state. *)

Outcomes == {"confirmed", "rejected", "unknown"}
OpStates == {None, "open"} \cup Outcomes
RowStates == {None, "pending", "started"} \cup Outcomes
CallStages == {"idle", "checked", "waiting", "ok", "rej", "unk", "chosen", "prompt"}
Steps == {"idle", "rpc", "working", "compacted", "failed"}
Ages == {0} \cup {Cardinality(S) : S \in SUBSET Keys}
Rows == [st : RowStates, sub : BOOLEAN, begun : BOOLEAN, old : BOOLEAN, at : Ages]
Calls == [pc : CallStages, key : Keys \cup {0}, parent : Keys \cup {0}]
FleetStates == {None, "submitting", "submitted_unknown", "rejected", "outcome_unknown"} \cup Live \cup Ended
FleetRows == [sub : FleetStates, lease : BOOLEAN]
Events == [type : {"start", "complete"}, key : Keys \cup {0}, ok : BOOLEAN, ahead : SUBSET Keys]

ShapeInv ==
  /\ kind \in Kinds /\ st \in {"up", "down", "attaching"} /\ step \in Steps
  /\ op \in [Keys -> OpStates] /\ kept \subseteq Keys /\ sel \subseteq Keys /\ ran \subseteq Keys
  /\ row \in [Keys -> Rows] /\ fleet \in [Keys -> FleetRows] /\ call \in [Callers -> Calls]
  /\ tries \in [Keys -> Nat] /\ mbox \in Seq(Keys) /\ net \in Seq(Events) /\ work \subseteq Keys \cup {0}

-----------------------------------------------------------------------------
(* The inductive invariant, by parts. *)

(* The mailbox has each key whose operation is open, once; only a compaction goes beyond the call. *)
MailInv ==
  /\ \A i, j \in 1..Len(mbox) : mbox[i] = mbox[j] => i = j
  /\ \A i \in 1..Len(mbox) : op[mbox[i]] = "open"
  /\ \A k \in Keys : op[k] = "open" => \E i \in 1..Len(mbox) : mbox[i] = k
  /\ mbox = <<>> => step = "idle"
  /\ kind # "compact" => step \in {"idle", "rpc"} /\ net = <<>> /\ work = {}

(* A key that was not sent, and one that can have no effect any more. *)
TryInv ==
  /\ \A k \in Keys : /\ tries[k] = 0 \/ tries[k] = 1
                     /\ op[k] = None => tries[k] = 0
                     /\ tries[k] = 0 => k \notin ran /\ k \notin work
                     /\ k \in work => k \notin ran
  /\ \A i \in 1..Len(mbox) : i > 1 \/ step \in {"idle", "rpc"} => tries[mbox[i]] = 0
Dead(k) == k \notin ran /\ k \notin work /\ (tries[k] = 1 \/ op[k] = "rejected")

(* The outcome of an operation, and what the SDK and its events say of it, is true. *)
OutcomeInv ==
  /\ \A k \in Keys : /\ op[k] = "confirmed" => k \in ran
                     /\ op[k] = "rejected" => Dead(k)
                     /\ k \in kept => op[k] = "confirmed"
  /\ mbox # <<>> /\ step = "compacted" => mbox[1] \in ran
  /\ mbox # <<>> /\ step = "failed" => Dead(mbox[1])
EventInv ==
  \A i \in 1..Len(net) : net[i].type = "complete" /\ net[i].key \in Keys =>
    IF net[i].ok THEN net[i].key \in ran ELSE Dead(net[i].key)

(* A caller was told what became of its operation. *)
CallInv ==
  \A c \in Callers :
    /\ call[c].pc # "idle" => call[c].key \in Keys
    /\ call[c].pc = "waiting" => \E i \in 1..Len(mbox) : mbox[i] = call[c].key
    /\ call[c].pc \in {"ok", "prompt"} => op[call[c].key] = "confirmed"
    /\ call[c].pc \in {"ok", "prompt"} /\ kind # "ask" => call[c].key \in kept
    /\ call[c].pc = "rej" => op[call[c].key] = "rejected"
    /\ call[c].pc = "unk" => op[call[c].key] \in {"confirmed", "unknown"} /\ call[c].key \notin kept

(* The rows repeat it, unless the event of another compaction settled one. *)
RowInv ==
  \A k \in Keys \ crossed : /\ row[k].st = "confirmed" => k \in ran
                            /\ row[k].st = "rejected" => Dead(k)

(* A submission that lives has the lease; it lives, or has ended, only when its start was confirmed; and a lease *)
(* is one of a submission that lives, or of one that a call without a result to answer from called unknown. *)
LeaseOf(k) ==
  /\ fleet[k].sub \in Live => fleet[k].lease
  /\ fleet[k].sub \in Live \cup Ended => op[k] = "confirmed"
  /\ fleet[k].lease => op[k] = "confirmed" /\ (fleet[k].sub \in Live \/ (k \notin kept /\ fleet[k].sub = "outcome_unknown"))
LeaseInv == \A k \in Keys : LeaseOf(k)

IInv == ShapeInv /\ MailInv /\ TryInv /\ OutcomeInv /\ EventInv /\ CallInv /\ RowInv /\ LeaseInv

-----------------------------------------------------------------------------
(* What the invariant says of the parts of the state. *)

(* The types of the fields. *)
LEMMA Fields ==
  ASSUME ShapeInv
  PROVE  /\ \A k \in Keys : /\ row[k] \in Rows /\ row[k].st \in RowStates
                            /\ fleet[k] \in FleetRows /\ fleet[k].lease \in BOOLEAN /\ fleet[k].sub \in FleetStates
         /\ \A c \in Callers : /\ call[c] \in Calls /\ call[c].pc \in CallStages
                               /\ call[c].key \in Keys \cup {0} /\ call[c].parent \in Keys \cup {0}
<1>1. \A k \in Keys : row[k] \in Rows /\ fleet[k] \in FleetRows
  BY DEF ShapeInv
<1>2. \A c \in Callers : call[c] \in Calls
  BY DEF ShapeInv
<1>3. \A r \in Rows : r.st \in RowStates
  BY DEF Rows
<1>4. \A r \in FleetRows : r.lease \in BOOLEAN /\ r.sub \in FleetStates
  BY DEF FleetRows
<1>5. \A r \in Calls : r.pc \in CallStages /\ r.key \in Keys \cup {0} /\ r.parent \in Keys \cup {0}
  BY DEF Calls
<1> QED
  BY <1>1, <1>2, <1>3, <1>4, <1>5

(* A row whose state is changed, with or without the other fields. *)
LEMMA RowState ==
  ASSUME NEW r \in Rows, NEW s \in RowStates, NEW b \in BOOLEAN, NEW a \in Ages
  PROVE  /\ [r EXCEPT !.st = s] \in Rows /\ [r EXCEPT !.st = s].st = s
         /\ [r EXCEPT !.st = s, !.sub = b] \in Rows /\ [r EXCEPT !.st = s, !.sub = b].st = s
         /\ [r EXCEPT !.st = s, !.at = a] \in Rows /\ [r EXCEPT !.st = s, !.at = a].st = s
BY DEF Rows

(* A call that is at another stage. *)
LEMMA CallStage ==
  ASSUME NEW r \in Calls, NEW p \in CallStages
  PROVE  LET t == [r EXCEPT !.pc = p] IN t \in Calls /\ t.pc = p /\ t.key = r.key /\ t.parent = r.parent
BY DEF Calls

(* The operation at the head of the mailbox is open, and what follows it is another one. *)
LEMMA AtHead ==
  ASSUME IInv, mbox # <<>>
  PROVE  /\ Head1 \in Keys /\ Head1 = mbox[1] /\ op[Head1] = "open" /\ Head1 \notin kept
         /\ Len(mbox) \in Nat /\ Len(mbox) >= 1
         /\ Tail(mbox) \in Seq(Keys) /\ Len(Tail(mbox)) = Len(mbox) - 1
         /\ \A i \in 1..Len(Tail(mbox)) : /\ i + 1 \in 1..Len(mbox) /\ i + 1 > 1 /\ Tail(mbox)[i] = mbox[i + 1]
                                          /\ Tail(mbox)[i] # Head1
         /\ step \in {"idle", "rpc"} => tries[Head1] = 0
         /\ ~Dead(Head1) \/ step \notin {"idle", "rpc"}
<1>1. /\ Head1 \in Keys /\ Head1 = mbox[1] /\ Len(mbox) \in Nat /\ Len(mbox) >= 1 /\ 1 \in 1..Len(mbox)
      /\ Tail(mbox) \in Seq(Keys) /\ Len(Tail(mbox)) = Len(mbox) - 1
      /\ \A i \in 1..Len(Tail(mbox)) : i + 1 \in 1..Len(mbox) /\ i + 1 > 1 /\ Tail(mbox)[i] = mbox[i + 1]
  BY DEF IInv, ShapeInv, Head1
<1>2. op[Head1] = "open" /\ Head1 \notin kept
  BY <1>1 DEF IInv, MailInv, OutcomeInv
<1>3. \A i \in 1..Len(Tail(mbox)) : Tail(mbox)[i] # Head1
  <2> SUFFICES ASSUME NEW i \in 1..Len(Tail(mbox)), Tail(mbox)[i] = Head1 PROVE FALSE
    OBVIOUS
  <2>1. i + 1 \in 1..Len(mbox) /\ i + 1 > 1 /\ mbox[i + 1] = mbox[1]
    BY <1>1
  <2>2. i + 1 = 1
    BY <2>1, <1>1 DEF IInv, MailInv
  <2> QED
    BY <2>1, <2>2
<1>4. step \in {"idle", "rpc"} => tries[Head1] = 0
  BY <1>1 DEF IInv, TryInv
<1> QED
  BY <1>1, <1>2, <1>3, <1>4 DEF Dead

(* No effect is taken back, and an operation that can have none has none later. *)
Grows == ran \subseteq ran' /\ \A k \in Keys : Dead(k) => Dead(k)'

(* Leases are left alone when no confirmation is taken back and only a result that was not there is kept. *)
LEMMA LeasesKept ==
  ASSUME IInv, UNCHANGED fleet,
         \A k \in Keys : /\ op[k] = "confirmed" => op'[k] = "confirmed"
                         /\ op[k] = "confirmed" /\ k \in kept' => k \in kept
  PROVE  LeaseInv'
<1> SUFFICES ASSUME NEW k \in Keys PROVE LeaseOf(k)'
  BY DEF LeaseInv
<1>1. LeaseOf(k)
  BY DEF IInv, LeaseInv
<1> QED
  BY <1>1 DEF LeaseOf

(* What is on record stays true when no effect is taken back. *)
LEMMA RecordsKept ==
  ASSUME IInv, Grows
  PROVE  /\ UNCHANGED net => EventInv'
         /\ UNCHANGED <<row, crossed>> => RowInv'
<1>1. ASSUME UNCHANGED net PROVE EventInv'
  <2> SUFFICES ASSUME NEW i \in 1..Len(net), NEW k \in Keys, net[i].type = "complete", net[i].key = k
               PROVE  IF net[i].ok THEN k \in ran' ELSE Dead(k)'
    BY <1>1 DEF EventInv, Dead
  <2>1. IF net[i].ok THEN k \in ran ELSE Dead(k)
    BY DEF IInv, EventInv
  <2> QED
    BY <2>1 DEF Grows
<1>2. ASSUME UNCHANGED <<row, crossed>> PROVE RowInv'
  <2> SUFFICES ASSUME NEW k \in Keys, k \notin crossed
               PROVE  (row[k].st = "confirmed" => k \in ran') /\ (row[k].st = "rejected" => Dead(k)')
    BY <1>2 DEF RowInv, Dead
  <2>1. (row[k].st = "confirmed" => k \in ran) /\ (row[k].st = "rejected" => Dead(k))
    BY DEF IInv, RowInv
  <2> QED
    BY <2>1 DEF Grows
<1> QED
  BY <1>1, <1>2

-----------------------------------------------------------------------------
(* The mailbox settles an operation. *)

(* Finish changes the operation at the head, and tells those who wait for it. *)
LEMMA FinishEffect ==
  ASSUME IInv, mbox # <<>>, NEW s \in Outcomes, Finish(s)
  PROVE  /\ op' \in [Keys -> OpStates] /\ op'[Head1] = s /\ (\A k \in Keys : k # Head1 => op'[k] = op[k])
         /\ kept' \subseteq Keys /\ kept \subseteq kept' /\ kept' \subseteq kept \cup {Head1}
         /\ Head1 \in kept' => s = "confirmed"
         /\ s = "confirmed" /\ kind # "ask" => Head1 \in kept'
         /\ mbox' = Tail(mbox) /\ step' = "idle"
         /\ call' \in [Callers -> Calls]
         /\ \A c \in Callers :
              /\ call'[c].key = call[c].key /\ call'[c].parent = call[c].parent
              /\ IF call[c].pc = "waiting" /\ call[c].key = Head1
                 THEN call'[c].pc = CASE s = "confirmed" -> "ok" [] s = "rejected" -> "rej" [] s = "unknown" -> "unk"
                 ELSE call'[c].pc = call[c].pc
<1>1. Head1 \in Keys /\ Head1 \notin kept
  BY AtHead
<1>2. op' = [op EXCEPT ![Head1] = s] /\ mbox' = Tail(mbox) /\ step' = "idle"
  BY DEF Finish
<1>3. op' \in [Keys -> OpStates] /\ op'[Head1] = s /\ (\A k \in Keys : k # Head1 => op'[k] = op[k])
  BY <1>1, <1>2 DEF IInv, ShapeInv, OpStates
<1>4. /\ kept' \subseteq Keys /\ kept \subseteq kept' /\ kept' \subseteq kept \cup {Head1}
      /\ (Head1 \in kept' => s = "confirmed") /\ (s = "confirmed" /\ kind # "ask" => Head1 \in kept')
  BY <1>1 DEF IInv, ShapeInv, Finish
<1> DEFINE p == CASE s = "confirmed" -> "ok" [] s = "rejected" -> "rej" [] s = "unknown" -> "unk"
<1>5. p \in CallStages
  BY DEF Outcomes, CallStages
<1>6. call' = [c \in Callers |-> IF call[c].pc = "waiting" /\ call[c].key = Head1
                                 THEN [call[c] EXCEPT !.pc = p] ELSE call[c]]
  BY DEF Finish
<1> HIDE DEF p
<1>7. \A c \in Callers : /\ call'[c] \in Calls /\ call'[c].key = call[c].key /\ call'[c].parent = call[c].parent
                         /\ IF call[c].pc = "waiting" /\ call[c].key = Head1
                            THEN call'[c].pc = p ELSE call'[c].pc = call[c].pc
  <2> SUFFICES ASSUME NEW c \in Callers
               PROVE  /\ call'[c] \in Calls /\ call'[c].key = call[c].key /\ call'[c].parent = call[c].parent
                      /\ IF call[c].pc = "waiting" /\ call[c].key = Head1
                         THEN call'[c].pc = p ELSE call'[c].pc = call[c].pc
    OBVIOUS
  <2>1. call[c] \in Calls
    BY Fields DEF IInv
  <2>2. LET t == [call[c] EXCEPT !.pc = p] IN t \in Calls /\ t.pc = p /\ t.key = call[c].key /\ t.parent = call[c].parent
    BY <2>1, <1>5, CallStage
  <2>3. call'[c] = IF call[c].pc = "waiting" /\ call[c].key = Head1 THEN [call[c] EXCEPT !.pc = p] ELSE call[c]
    BY <1>6
  <2> QED
    BY <2>1, <2>2, <2>3
<1>8. call' \in [Callers -> Calls]
  BY <1>6, <1>7
<1> QED
  BY <1>2, <1>3, <1>4, <1>7, <1>8 DEF p

(* What an operation is settled as is what came of it: no effect when it is rejected, an effect when it is *)
(* confirmed. *)
LEMMA FinishKeeps ==
  ASSUME IInv, mbox # <<>>, NEW s \in Outcomes, Finish(s), UNCHANGED <<kind, st, net, work, row, fleet, crossed>>,
         sel' \subseteq Keys, ran' \subseteq Keys, tries' \in [Keys -> Nat],
         \A k \in Keys : k # Head1 => tries'[k] = tries[k] /\ (k \in ran' <=> k \in ran),
         tries'[Head1] = 1 \/ (tries'[Head1] = tries[Head1] /\ (Head1 \in ran' <=> Head1 \in ran)),
         Head1 \in ran => Head1 \in ran', Dead(Head1) => Head1 \notin ran' /\ tries'[Head1] = tries[Head1],
         Head1 \in work => Head1 \notin ran',
         s = "confirmed" => Head1 \in ran', s = "rejected" => Head1 \notin ran' /\ Head1 \notin work
  PROVE  IInv'
<1>h. /\ Head1 \in Keys /\ op[Head1] = "open" /\ Head1 \notin kept
      /\ Tail(mbox) \in Seq(Keys) /\ Len(Tail(mbox)) = Len(mbox) - 1 /\ Len(mbox) \in Nat
      /\ \A i \in 1..Len(Tail(mbox)) : /\ i + 1 \in 1..Len(mbox) /\ i + 1 > 1 /\ Tail(mbox)[i] = mbox[i + 1]
                                       /\ Tail(mbox)[i] # Head1
  BY AtHead
<1>e. /\ op' \in [Keys -> OpStates] /\ op'[Head1] = s /\ (\A k \in Keys : k # Head1 => op'[k] = op[k])
      /\ kept' \subseteq Keys /\ kept \subseteq kept' /\ kept' \subseteq kept \cup {Head1}
      /\ Head1 \in kept' => s = "confirmed"
      /\ s = "confirmed" /\ kind # "ask" => Head1 \in kept'
      /\ mbox' = Tail(mbox) /\ step' = "idle"
      /\ call' \in [Callers -> Calls]
  BY FinishEffect
<1>c. \A c \in Callers :
              /\ call'[c].key = call[c].key /\ call'[c].parent = call[c].parent
              /\ IF call[c].pc = "waiting" /\ call[c].key = Head1
                 THEN call'[c].pc = CASE s = "confirmed" -> "ok" [] s = "rejected" -> "rej" [] s = "unknown" -> "unk"
                 ELSE call'[c].pc = call[c].pc
  BY FinishEffect
<1>d. \A k \in Keys : Dead(k) => Dead(k)'
  <2> SUFFICES ASSUME NEW k \in Keys, Dead(k) PROVE Dead(k)'
    OBVIOUS
  <2>1. CASE k # Head1
    BY <2>1, <1>e DEF Dead
  <2>2. CASE k = Head1
    BY <2>2, <1>h DEF Dead
  <2> QED
    BY <2>1, <2>2
<1>g. Grows
  <2>1. ran \subseteq Keys
    BY DEF IInv, ShapeInv
  <2>2. \A k \in ran : k \in ran'
    BY <2>1, <1>h
  <2> QED
    BY <1>d, <2>2 DEF Grows
<1>1. ShapeInv'
  BY <1>e, <1>h DEF IInv, ShapeInv, Steps
<1>2. MailInv'
  <2>1. \A i, j \in 1..Len(Tail(mbox)) : Tail(mbox)[i] = Tail(mbox)[j] => i = j
    <3> SUFFICES ASSUME NEW i \in 1..Len(Tail(mbox)), NEW j \in 1..Len(Tail(mbox)), Tail(mbox)[i] = Tail(mbox)[j]
                 PROVE  i = j
      OBVIOUS
    <3>1. i + 1 \in 1..Len(mbox) /\ j + 1 \in 1..Len(mbox) /\ mbox[i + 1] = mbox[j + 1]
      BY <1>h
    <3>2. i + 1 = j + 1
      BY <3>1 DEF IInv, MailInv
    <3> QED
      BY <3>2, <1>h
  <2>2. \A i \in 1..Len(Tail(mbox)) : op'[Tail(mbox)[i]] = "open"
    <3> SUFFICES ASSUME NEW i \in 1..Len(Tail(mbox)) PROVE op'[Tail(mbox)[i]] = "open"
      OBVIOUS
    <3>1. i + 1 \in 1..Len(mbox) /\ Tail(mbox)[i] = mbox[i + 1] /\ Tail(mbox)[i] # Head1 /\ mbox[i + 1] \in Keys
      BY <1>h DEF IInv, ShapeInv
    <3> QED
      BY <3>1, <1>e DEF IInv, MailInv
  <2>3. kind # "compact" => net = <<>> /\ work = {}
    BY DEF IInv, MailInv
  <2>4. \A k \in Keys : op'[k] = "open" => \E i \in 1..Len(Tail(mbox)) : Tail(mbox)[i] = k
    <3> SUFFICES ASSUME NEW k \in Keys, op'[k] = "open" PROVE \E i \in 1..Len(Tail(mbox)) : Tail(mbox)[i] = k
      OBVIOUS
    <3>1. k # Head1 /\ op[k] = "open"
      BY <1>e DEF Outcomes
    <3>2. PICK i \in 1..Len(mbox) : mbox[i] = k
      BY <3>1 DEF IInv, MailInv
    <3>3. i # 1
      BY <3>1, <3>2, AtHead
    <3>4. i - 1 \in 1..Len(Tail(mbox)) /\ Tail(mbox)[i - 1] = mbox[i]
      BY <3>3, <1>h
    <3> QED
      BY <3>2, <3>4
  <2> QED
    BY <2>1, <2>2, <2>3, <2>4, <1>e DEF MailInv
<1>3. TryInv'
  <2>1. \A k \in Keys : /\ tries'[k] = 0 \/ tries'[k] = 1
                        /\ op'[k] = None => tries'[k] = 0
                        /\ tries'[k] = 0 => k \notin ran' /\ k \notin work
                        /\ k \in work => k \notin ran'
    <3> SUFFICES ASSUME NEW k \in Keys
                 PROVE  /\ tries'[k] = 0 \/ tries'[k] = 1
                        /\ op'[k] = None => tries'[k] = 0
                        /\ tries'[k] = 0 => k \notin ran' /\ k \notin work
                        /\ k \in work => k \notin ran'
      OBVIOUS
    <3>0. /\ tries[k] = 0 \/ tries[k] = 1
          /\ op[k] = None => tries[k] = 0
          /\ tries[k] = 0 => k \notin ran /\ k \notin work
          /\ k \in work => k \notin ran
      BY DEF IInv, TryInv
    <3>1. CASE k # Head1
      BY <3>0, <3>1, <1>e
    <3>2. CASE k = Head1
      <4>1. op'[k] # None
        BY <3>2, <1>e DEF None, Outcomes
      <4> QED
        BY <3>0, <3>2, <4>1
    <3> QED
      BY <3>1, <3>2
  <2>2. \A i \in 1..Len(Tail(mbox)) : tries'[Tail(mbox)[i]] = 0
    <3> SUFFICES ASSUME NEW i \in 1..Len(Tail(mbox)) PROVE tries'[Tail(mbox)[i]] = 0
      OBVIOUS
    <3>1. i + 1 \in 1..Len(mbox) /\ i + 1 > 1 /\ Tail(mbox)[i] = mbox[i + 1] /\ Tail(mbox)[i] # Head1 /\ mbox[i + 1] \in Keys
      BY <1>h DEF IInv, ShapeInv
    <3>2. tries[mbox[i + 1]] = 0
      BY <3>1 DEF IInv, TryInv
    <3> QED
      BY <3>1, <3>2
  <2> QED
    BY <2>1, <2>2, <1>e DEF TryInv
<1>4. OutcomeInv'
  <2>1. \A k \in Keys : (op'[k] = "confirmed" => k \in ran') /\ (op'[k] = "rejected" => Dead(k)') /\ (k \in kept' => op'[k] = "confirmed")
    <3> SUFFICES ASSUME NEW k \in Keys
                 PROVE  (op'[k] = "confirmed" => k \in ran') /\ (op'[k] = "rejected" => Dead(k)') /\ (k \in kept' => op'[k] = "confirmed")
      OBVIOUS
    <3>1. CASE k # Head1
      <4>1. (op[k] = "confirmed" => k \in ran) /\ (op[k] = "rejected" => Dead(k)) /\ (k \in kept => op[k] = "confirmed")
        BY DEF IInv, OutcomeInv
      <4> QED
        BY <3>1, <4>1, <1>e, <1>d
    <3>2. CASE k = Head1
      BY <3>2, <1>e DEF Dead
    <3> QED
      BY <3>1, <3>2
  <2> QED
    BY <2>1, <1>e DEF OutcomeInv, Dead
<1>5. EventInv' /\ RowInv'
  BY <1>g, RecordsKept
<1>6. CallInv'
  <2> SUFFICES ASSUME NEW c \in Callers
               PROVE  /\ call'[c].pc # "idle" => call'[c].key \in Keys
                      /\ call'[c].pc = "waiting" => \E i \in 1..Len(Tail(mbox)) : Tail(mbox)[i] = call'[c].key
                      /\ call'[c].pc \in {"ok", "prompt"} => op'[call'[c].key] = "confirmed"
                      /\ call'[c].pc \in {"ok", "prompt"} /\ kind # "ask" => call'[c].key \in kept'
                      /\ call'[c].pc = "rej" => op'[call'[c].key] = "rejected"
                      /\ call'[c].pc = "unk" => op'[call'[c].key] \in {"confirmed", "unknown"} /\ call'[c].key \notin kept'
    BY <1>e DEF CallInv
  <2>0. /\ call[c].pc # "idle" => call[c].key \in Keys
        /\ call[c].pc = "waiting" => \E i \in 1..Len(mbox) : mbox[i] = call[c].key
        /\ call[c].pc \in {"ok", "prompt"} => op[call[c].key] = "confirmed"
        /\ call[c].pc \in {"ok", "prompt"} /\ kind # "ask" => call[c].key \in kept
        /\ call[c].pc = "rej" => op[call[c].key] = "rejected"
        /\ call[c].pc = "unk" => op[call[c].key] \in {"confirmed", "unknown"} /\ call[c].key \notin kept
    BY DEF IInv, CallInv
  <2>1. CASE call[c].pc = "waiting" /\ call[c].key = Head1
    <3>1. call'[c].key = Head1 /\ call'[c].pc = CASE s = "confirmed" -> "ok" [] s = "rejected" -> "rej" [] s = "unknown" -> "unk"
      BY <2>1, <1>c
    <3>2. CASE s = "confirmed"
      BY <3>1, <3>2, <1>e, <1>h
    <3>3. CASE s = "rejected"
      BY <3>1, <3>3, <1>e, <1>h
    <3>4. CASE s = "unknown"
      BY <3>1, <3>4, <1>e, <1>h
    <3> QED
      BY <3>2, <3>3, <3>4 DEF Outcomes
  <2>2. CASE call[c].pc = "waiting" /\ call[c].key # Head1
    <3>1. call'[c].key = call[c].key /\ call'[c].pc = "waiting"
      BY <2>2, <1>c
    <3>2. PICK i \in 1..Len(mbox) : mbox[i] = call[c].key
      BY <2>2, <2>0
    <3>3. i # 1
      BY <3>2, <2>2, AtHead
    <3>4. i - 1 \in 1..Len(Tail(mbox)) /\ Tail(mbox)[i - 1] = mbox[i]
      BY <3>3, <1>h
    <3> QED
      BY <3>1, <3>2, <3>4, <2>0, <2>2
  <2>3. CASE call[c].pc # "waiting"
    <3>1. call'[c].key = call[c].key /\ call'[c].pc = call[c].pc
      BY <2>3, <1>c
    <3>2. call[c].pc \in {"ok", "prompt", "rej", "unk"} => call[c].key \in Keys /\ call[c].key # Head1
      BY <2>0, <1>h
    <3> QED
      BY <3>1, <3>2, <2>0, <2>3, <1>e
  <2> QED
    BY <2>1, <2>2, <2>3
<1>7. LeaseInv'
  BY <1>h, <1>e, LeasesKept
<1> QED
  BY <1>1, <1>2, <1>3, <1>4, <1>5, <1>6, <1>7 DEF IInv

-----------------------------------------------------------------------------
(* What the callers do. *)

(* A step that leaves the mailbox and the SDK alone. *)
LEMMA MailboxKept ==
  ASSUME IInv, UNCHANGED <<kind, op, kept, mbox, step, Sdk>>
  PROVE  /\ MailInv' /\ TryInv' /\ OutcomeInv' /\ EventInv' /\ Grows
         /\ UNCHANGED row => RowInv'
         /\ UNCHANGED fleet => LeaseInv'
         /\ UNCHANGED call => CallInv'
         /\ \A k \in Keys : Dead(k)' <=> Dead(k)
<1>1. \A k \in Keys : Dead(k)' <=> Dead(k)
  BY DEF Dead, Sdk
<1>2. Grows
  BY <1>1 DEF Grows, Sdk
<1>3. MailInv' /\ TryInv' /\ OutcomeInv'
  BY DEF IInv, MailInv, TryInv, OutcomeInv, Dead, Sdk
<1>4. EventInv' /\ (UNCHANGED row => RowInv')
  BY <1>2, RecordsKept DEF Sdk
<1>5. UNCHANGED fleet => LeaseInv'
  BY LeasesKept
<1>6. UNCHANGED call => CallInv'
  BY DEF IInv, CallInv
<1> QED
  BY <1>1, <1>2, <1>3, <1>4, <1>5, <1>6

(* A caller that goes to another stage. *)
LEMMA ToEffect ==
  ASSUME ShapeInv, NEW c \in Callers, NEW p \in CallStages, To(c, p)
  PROVE  /\ call' \in [Callers -> Calls]
         /\ call'[c].pc = p /\ call'[c].key = call[c].key
         /\ \A d \in Callers : d # c => call'[d] = call[d]
<1>1. call[c] \in Calls
  BY Fields
<1>2. LET t == [call[c] EXCEPT !.pc = p] IN t \in Calls /\ t.pc = p /\ t.key = call[c].key /\ t.parent = call[c].parent
  BY <1>1, CallStage
<1>3. call' = [call EXCEPT ![c] = [call[c] EXCEPT !.pc = p]]
  BY DEF To, ShapeInv
<1> QED
  BY <1>2, <1>3 DEF ShapeInv

(* What is promised to callers is kept when one of them goes on and the mailbox stays as it is. *)
LEMMA CallersKept ==
  ASSUME IInv, UNCHANGED <<kind, op, kept, mbox>>, NEW c \in Callers,
         \A d \in Callers : d # c => call'[d] = call[d],
         call'[c].pc \in {"idle", "checked", "chosen", "prompt"},
         call'[c].pc # "idle" => call'[c].key \in Keys,
         call'[c].pc = "prompt" => call'[c].key = call[c].key /\ call[c].pc = "ok" /\ kind # "ask"
  PROVE  CallInv'
<1> SUFFICES ASSUME NEW d \in Callers
             PROVE  /\ call'[d].pc # "idle" => call'[d].key \in Keys
                    /\ call'[d].pc = "waiting" => \E i \in 1..Len(mbox) : mbox[i] = call'[d].key
                    /\ call'[d].pc \in {"ok", "prompt"} => op[call'[d].key] = "confirmed"
                    /\ call'[d].pc \in {"ok", "prompt"} /\ kind # "ask" => call'[d].key \in kept
                    /\ call'[d].pc = "rej" => op[call'[d].key] = "rejected"
                    /\ call'[d].pc = "unk" => op[call'[d].key] \in {"confirmed", "unknown"} /\ call'[d].key \notin kept
  BY DEF CallInv
<1>1. CASE d # c
  BY <1>1 DEF IInv, CallInv
<1>2. CASE d = c
  BY <1>2 DEF IInv, CallInv
<1> QED
  BY <1>1, <1>2

(* A call begins: its caller has checked, nothing else happened. *)
LEMMA NextBegin ==
  ASSUME IInv, NEW c \in Callers, NEW k \in Keys, NEW p \in Keys \cup {0}, Begin(c, k, p)
  PROVE  IInv'
<1>1. UNCHANGED <<kind, op, kept, row, seen, res, sel, fleet, mbox, step, Sdk, st, faults, autos>>
  BY DEF Begin
<1>2. call' = [call EXCEPT ![c] = [pc |-> "checked", key |-> k, parent |-> p]]
  BY DEF Begin
<1>3. [pc |-> "checked", key |-> k, parent |-> p] \in Calls
  BY DEF Calls, CallStages
<1>4. call' \in [Callers -> Calls] /\ (\A d \in Callers : d # c => call'[d] = call[d])
  BY <1>2, <1>3 DEF IInv, ShapeInv
<1>5. call'[c].pc = "checked" /\ call'[c].key = k
  BY <1>2, <1>3 DEF IInv, ShapeInv
<1>6. CallInv'
  BY <1>1, <1>4, <1>5, CallersKept
<1>7. ShapeInv'
  BY <1>1, <1>4 DEF IInv, ShapeInv, Sdk
<1> QED
  BY <1>1, <1>6, <1>7, MailboxKept DEF IInv

(* A selection was used, or a caller found nothing to do. *)
LEMMA NextUseSelection == ASSUME IInv, NEW c \in Callers, use_selection(c) PROVE IInv'
<1>1. UNCHANGED <<kind, op, kept, row, seen, res, fleet, mbox, step, Sdk, st, calls, faults, autos>>
  BY DEF use_selection
<1>2. /\ call' \in [Callers -> Calls] /\ call'[c].pc = "idle" /\ (\A d \in Callers : d # c => call'[d] = call[d])
      /\ sel' \subseteq sel
  BY ToEffect DEF use_selection, CallStages, IInv
<1>3. CallInv'
  BY <1>1, <1>2, CallersKept
<1>4. ShapeInv'
  BY <1>1, <1>2 DEF IInv, ShapeInv, Sdk
<1> QED
  BY <1>1, <1>3, <1>4, MailboxKept DEF IInv

(* submit: an operation that is new enters the mailbox, a call for one that waits waits with it, and one *)
(* that is settled is answered from what is on record. *)
LEMMA NextSubmit == ASSUME IInv, NEW c \in Callers, submit(c) PROVE IInv'
<1> DEFINE k == call[c].key
<1>1. UNCHANGED <<kind, kept, row, seen, res, sel, fleet, step, Sdk, st, calls, faults, autos>>
  BY DEF submit
<1>2. k \in Keys
  BY DEF submit, IInv, CallInv
<1>3. CASE InFlight(k) /\ To(c, "waiting") /\ UNCHANGED <<op, mbox>>
  <2>1. /\ call' \in [Callers -> Calls] /\ call'[c].pc = "waiting" /\ call'[c].key = k
        /\ \A d \in Callers : d # c => call'[d] = call[d]
    BY <1>3, ToEffect DEF CallStages, IInv
  <2>2. \E i \in 1..Len(mbox) : mbox[i] = k
    BY <1>3 DEF InFlight, IInv, ShapeInv
  <2>3. CallInv'
    <3> SUFFICES ASSUME NEW d \in Callers
                 PROVE  /\ call'[d].pc # "idle" => call'[d].key \in Keys
                        /\ call'[d].pc = "waiting" => \E i \in 1..Len(mbox) : mbox[i] = call'[d].key
                        /\ call'[d].pc \in {"ok", "prompt"} => op[call'[d].key] = "confirmed"
                        /\ call'[d].pc \in {"ok", "prompt"} /\ kind # "ask" => call'[d].key \in kept
                        /\ call'[d].pc = "rej" => op[call'[d].key] = "rejected"
                        /\ call'[d].pc = "unk" => op[call'[d].key] \in {"confirmed", "unknown"} /\ call'[d].key \notin kept
      BY <1>1, <1>3 DEF CallInv
    <3>1. CASE d # c
      BY <3>1, <2>1 DEF IInv, CallInv
    <3>2. CASE d = c
      BY <3>2, <2>1, <2>2, <1>2
    <3> QED
      BY <3>1, <3>2
  <2>4. ShapeInv'
    BY <1>1, <1>3, <2>1 DEF IInv, ShapeInv, Sdk
  <2> QED
    BY <1>1, <1>3, <2>3, <2>4, MailboxKept DEF IInv
<1>4. CASE ~InFlight(k) /\ ~FirstTime(k) /\ To(c, Replayed(k)) /\ UNCHANGED <<op, mbox>>
  <2>1. op[k] \in {"open", "confirmed", "rejected", "unknown"}
    BY <1>2, <1>4 DEF IInv, ShapeInv, OpStates, Outcomes, FirstTime, None
  <2>2. Replayed(k) \in {"rej", "idle", "ok", "unk"}
    BY DEF Replayed
  <2>3. /\ Replayed(k) = "ok" => op[k] = "confirmed" /\ k \in kept
        /\ Replayed(k) = "rej" => op[k] = "rejected"
        /\ Replayed(k) = "unk" => op[k] # "rejected" /\ (op[k] = "confirmed" => kind # "ask" /\ k \notin kept)
    BY DEF Replayed
  <2>4. /\ call' \in [Callers -> Calls] /\ call'[c].pc = Replayed(k) /\ call'[c].key = k
        /\ \A d \in Callers : d # c => call'[d] = call[d]
    BY <1>4, <2>2, ToEffect DEF CallStages, IInv
  <2>5. Replayed(k) = "unk" => op[k] \in {"confirmed", "unknown"} /\ k \notin kept
    <3>1. op[k] # "open"
      BY <1>2, <1>4 DEF IInv, MailInv, ShapeInv, InFlight
    <3>2. k \in kept => op[k] = "confirmed"
      BY <1>2 DEF IInv, OutcomeInv
    <3> QED
      BY <3>1, <3>2, <2>1, <2>3
  <2>6. CallInv'
    <3> SUFFICES ASSUME NEW d \in Callers
                 PROVE  /\ call'[d].pc # "idle" => call'[d].key \in Keys
                        /\ call'[d].pc = "waiting" => \E i \in 1..Len(mbox) : mbox[i] = call'[d].key
                        /\ call'[d].pc \in {"ok", "prompt"} => op[call'[d].key] = "confirmed"
                        /\ call'[d].pc \in {"ok", "prompt"} /\ kind # "ask" => call'[d].key \in kept
                        /\ call'[d].pc = "rej" => op[call'[d].key] = "rejected"
                        /\ call'[d].pc = "unk" => op[call'[d].key] \in {"confirmed", "unknown"} /\ call'[d].key \notin kept
      BY <1>1, <1>4 DEF CallInv
    <3>1. CASE d # c
      BY <3>1, <2>4 DEF IInv, CallInv
    <3>2. CASE d = c
      BY <3>2, <2>2, <2>3, <2>4, <2>5, <1>2
    <3> QED
      BY <3>1, <3>2
  <2>7. ShapeInv'
    BY <1>1, <1>4, <2>4 DEF IInv, ShapeInv, Sdk
  <2> QED
    BY <1>1, <1>4, <2>6, <2>7, MailboxKept DEF IInv
<1>5. CASE ~InFlight(k) /\ FirstTime(k) /\ To(c, "waiting") /\ op' = [op EXCEPT ![k] = "open"] /\ mbox' = Append(mbox, k)
  <2>1. /\ call' \in [Callers -> Calls] /\ call'[c].pc = "waiting" /\ call'[c].key = k
        /\ \A d \in Callers : d # c => call'[d] = call[d]
    BY <1>5, ToEffect DEF CallStages, IInv
  <2>2. /\ op' \in [Keys -> OpStates] /\ op'[k] = "open" /\ (\A j \in Keys : j # k => op'[j] = op[j])
        /\ op[k] = None
    BY <1>2, <1>5 DEF IInv, ShapeInv, OpStates, FirstTime, None
  <2>3. Len(mbox) \in Nat /\ mbox' \in Seq(Keys) /\ Len(mbox') = Len(mbox) + 1 /\ mbox'[Len(mbox) + 1] = k
    BY <1>2, <1>5 DEF IInv, ShapeInv
  <2>4. \A i \in 1..Len(mbox') : i = Len(mbox) + 1 \/ (i \in 1..Len(mbox) /\ mbox'[i] = mbox[i])
    BY <1>2, <1>5, <2>3 DEF IInv, ShapeInv
  <2>5. \A i \in 1..Len(mbox) : i \in 1..Len(mbox') /\ mbox'[i] = mbox[i] /\ mbox[i] \in Keys /\ mbox[i] # k
    BY <1>2, <1>5, <2>3 DEF IInv, ShapeInv, InFlight
  <2>6. \A j \in Keys : Dead(j) => Dead(j)'
    BY <1>1, <2>2 DEF Dead, Sdk, None
  <2>7. Grows
    BY <1>1, <2>6 DEF Grows, Sdk
  <2>8. tries[k] = 0 /\ k \notin kept
    BY <1>2, <2>2 DEF IInv, TryInv, OutcomeInv, None
  <2>9. MailInv'
    <3>1. \A i, j \in 1..Len(mbox') : mbox'[i] = mbox'[j] => i = j
      <4> SUFFICES ASSUME NEW i \in 1..Len(mbox'), NEW j \in 1..Len(mbox'), mbox'[i] = mbox'[j] PROVE i = j
        OBVIOUS
      <4>1. CASE i \in 1..Len(mbox) /\ j \in 1..Len(mbox)
        BY <4>1, <2>5 DEF IInv, MailInv
      <4>2. CASE i = Len(mbox) + 1 \/ j = Len(mbox) + 1
        BY <4>2, <2>3, <2>4, <2>5
      <4> QED
        BY <4>1, <4>2, <2>4
    <3>2. \A i \in 1..Len(mbox') : op'[mbox'[i]] = "open"
      <4> SUFFICES ASSUME NEW i \in 1..Len(mbox') PROVE op'[mbox'[i]] = "open"
        OBVIOUS
      <4>1. CASE i = Len(mbox) + 1
        BY <4>1, <2>2, <2>3
      <4>2. CASE i \in 1..Len(mbox) /\ mbox'[i] = mbox[i]
        BY <4>2, <2>2, <2>5 DEF IInv, MailInv
      <4> QED
        BY <4>1, <4>2, <2>4
    <3>3. \A j \in Keys : op'[j] = "open" => \E i \in 1..Len(mbox') : mbox'[i] = j
      <4> SUFFICES ASSUME NEW j \in Keys, op'[j] = "open" PROVE \E i \in 1..Len(mbox') : mbox'[i] = j
        OBVIOUS
      <4>1. CASE j = k
        <5>1. Len(mbox) + 1 \in 1..Len(mbox')
          BY <2>3
        <5> QED
          BY <4>1, <5>1, <2>3
      <4>2. CASE j # k
        <5>1. PICK i \in 1..Len(mbox) : mbox[i] = j
          BY <4>2, <2>2 DEF IInv, MailInv
        <5> QED
          BY <5>1, <2>5
      <4> QED
        BY <4>1, <4>2
    <3>4. mbox' # <<>>
      BY <2>3
    <3>5. kind # "compact" => step \in {"idle", "rpc"} /\ net = <<>> /\ work = {}
      BY DEF IInv, MailInv
    <3> QED
      BY <1>1, <3>1, <3>2, <3>3, <3>4, <3>5 DEF MailInv, Sdk
  <2>10. TryInv'
    <3>1. \A j \in Keys : /\ tries[j] = 0 \/ tries[j] = 1
                          /\ op'[j] = None => tries[j] = 0
                          /\ tries[j] = 0 => j \notin ran /\ j \notin work
                          /\ j \in work => j \notin ran
      BY <2>2, <2>8 DEF IInv, TryInv
    <3>2. \A i \in 1..Len(mbox') : i > 1 \/ step \in {"idle", "rpc"} => tries[mbox'[i]] = 0
      <4> SUFFICES ASSUME NEW i \in 1..Len(mbox'), i > 1 \/ step \in {"idle", "rpc"} PROVE tries[mbox'[i]] = 0
        OBVIOUS
      <4>1. CASE i = Len(mbox) + 1
        BY <4>1, <2>3, <2>8
      <4>2. CASE i \in 1..Len(mbox) /\ mbox'[i] = mbox[i]
        BY <4>2 DEF IInv, TryInv
      <4> QED
        BY <4>1, <4>2, <2>4
    <3> QED
      BY <1>1, <3>1, <3>2 DEF TryInv, Sdk
  <2>11. OutcomeInv'
    <3>1. \A j \in Keys : /\ op'[j] = "confirmed" => j \in ran
                          /\ op'[j] = "rejected" => Dead(j)'
                          /\ j \in kept => op'[j] = "confirmed"
      BY <2>2, <2>6, <2>8 DEF IInv, OutcomeInv
    <3>2. mbox = <<>> => step = "idle"
      BY DEF IInv, MailInv
    <3>3. mbox # <<>> => 1 \in 1..Len(mbox) /\ mbox'[1] = mbox[1] /\ mbox[1] \in Keys
      BY <2>3, <2>5 DEF IInv, ShapeInv
    <3>4. step = "compacted" => mbox'[1] \in ran
      BY <3>2, <3>3 DEF IInv, OutcomeInv
    <3>5. step = "failed" => Dead(mbox[1]) /\ mbox[1] \in Keys /\ mbox'[1] = mbox[1]
      BY <3>2, <3>3 DEF IInv, OutcomeInv
    <3>6. step = "failed" => Dead(mbox[1])'
      BY <3>5, <1>1, <2>2 DEF Dead, Sdk, None
    <3> QED
      BY <1>1, <3>1, <3>4, <3>6 DEF OutcomeInv, Sdk
  <2>12. EventInv' /\ RowInv'
    BY <1>1, <2>7, RecordsKept DEF Sdk
  <2>13. CallInv'
    <3> SUFFICES ASSUME NEW d \in Callers
                 PROVE  /\ call'[d].pc # "idle" => call'[d].key \in Keys
                        /\ call'[d].pc = "waiting" => \E i \in 1..Len(mbox') : mbox'[i] = call'[d].key
                        /\ call'[d].pc \in {"ok", "prompt"} => op'[call'[d].key] = "confirmed"
                        /\ call'[d].pc \in {"ok", "prompt"} /\ kind # "ask" => call'[d].key \in kept
                        /\ call'[d].pc = "rej" => op'[call'[d].key] = "rejected"
                        /\ call'[d].pc = "unk" => op'[call'[d].key] \in {"confirmed", "unknown"} /\ call'[d].key \notin kept
      BY <1>1 DEF CallInv
    <3>1. CASE d # c
      <4>0. call'[d] = call[d]
        BY <3>1, <2>1
      <4>1. call[d].pc = "waiting" => \E i \in 1..Len(mbox') : mbox'[i] = call[d].key
        BY <2>5 DEF IInv, CallInv
      <4>2. call[d].pc \in {"ok", "prompt", "rej", "unk"} => call[d].key \in Keys /\ call[d].key # k
        BY <2>2 DEF IInv, CallInv, None
      <4> QED
        BY <4>0, <4>1, <4>2, <2>2 DEF IInv, CallInv
    <3>2. CASE d = c
      <4>1. Len(mbox) + 1 \in 1..Len(mbox')
        BY <2>3
      <4> QED
        BY <3>2, <4>1, <2>1, <2>3, <1>2
    <3> QED
      BY <3>1, <3>2
  <2>14. ShapeInv'
    BY <1>1, <2>1, <2>2, <2>3 DEF IInv, ShapeInv, Sdk
  <2>15. LeaseInv'
    BY <1>1, <2>2, LeasesKept DEF None
  <2> QED
    BY <2>9, <2>10, <2>11, <2>12, <2>13, <2>14, <2>15 DEF IInv
<1> QED
  BY <1>3, <1>4, <1>5 DEF submit

-----------------------------------------------------------------------------
(* What the reducer does with the receipts of the callers. *)

(* A row that is written by a receipt has what the receipt says, and no other row is touched. *)
LEMMA SettledRow ==
  ASSUME ShapeInv, NEW k \in Keys, NEW s \in Outcomes, NEW b \in BOOLEAN,
         row' \in {CommandSettled(k, s, b), EphemeralSettled(k, s), CompactionSettled(k, s), FleetSettled(k, s), TaskSettled(k, s)}
  PROVE  row' \in [Keys -> Rows] /\ (\A j \in Keys : row'[j] = row[j] \/ (j = k /\ row'[j].st = s))
<1>1. row[k] \in Rows /\ s \in RowStates /\ 0 \in Ages
  BY Fields DEF RowStates, Ages
<1>2. /\ [row[k] EXCEPT !.st = s] \in Rows /\ [row[k] EXCEPT !.st = s].st = s
      /\ [row[k] EXCEPT !.st = s, !.sub = b] \in Rows /\ [row[k] EXCEPT !.st = s, !.sub = b].st = s
  BY <1>1 DEF Rows
<1>3. \/ row' = row
      \/ row' = [row EXCEPT ![k] = [row[k] EXCEPT !.st = s, !.sub = b]]
      \/ row' = [row EXCEPT ![k] = [row[k] EXCEPT !.st = s]]
  BY DEF CommandSettled, EphemeralSettled, CompactionSettled, FleetSettled, TaskSettled, ShapeInv
<1> QED
  BY <1>2, <1>3 DEF ShapeInv

(* What a receipt makes of the submission r. *)
Told(s, r, q) ==
  /\ s = "confirmed" => q.sub = "observed_active" /\ q.lease = TRUE
  /\ s = "rejected" => q.sub = "rejected"
  /\ s = "unknown" => q.sub = "outcome_unknown"
  /\ s # "confirmed" => q.lease = r.lease

(* A Fleet run takes the lease when its start is confirmed, and then says that it runs; no other receipt *)
(* takes the lease or gives it back. *)
LEMMA FleetSettles ==
  ASSUME ShapeInv, NEW k \in Keys, NEW s \in Outcomes
  PROVE  /\ FleetSubmission(k, s) \in [Keys -> FleetRows]
         /\ \A j \in Keys : FleetSubmission(k, s)[j] = fleet[j] \/ (j = k /\ Told(s, fleet[j], FleetSubmission(k, s)[j]))
<1> DEFINE sub == CASE s = "confirmed" -> "observed_active" [] s = "rejected" -> "rejected" [] s = "unknown" -> "outcome_unknown"
           lease == fleet[k].lease \/ s = "confirmed"
           t == [sub |-> sub, lease |-> lease]
<1>1. fleet[k].lease \in BOOLEAN
  BY Fields
<1>2. /\ sub \in FleetStates /\ (s = "confirmed" => sub = "observed_active") /\ (s = "rejected" => sub = "rejected")
      /\ (s = "unknown" => sub = "outcome_unknown")
  BY DEF Outcomes, FleetStates, Live
<1>3. lease \in BOOLEAN /\ (s # "confirmed" => lease = fleet[k].lease) /\ (s = "confirmed" => lease = TRUE)
  BY <1>1
<1>4. FleetSubmission(k, s) = fleet \/ FleetSubmission(k, s) = [fleet EXCEPT ![k] = t]
  BY DEF FleetSubmission, ShapeInv
<1> HIDE DEF sub, lease
<1>5. t \in FleetRows /\ t.sub = sub /\ t.lease = lease
  BY <1>2, <1>3 DEF FleetRows
<1>6. Told(s, fleet[k], t)
  BY <1>2, <1>3, <1>5 DEF Told
<1> HIDE DEF t
<1> QED
  BY <1>4, <1>5, <1>6 DEF ShapeInv

(* A receipt of a caller says what came of its operation. *)
LEMMA ReceiptKeeps ==
  ASSUME IInv, UNCHANGED <<kind, op, kept, mbox, step, Sdk>>,
         NEW k \in Keys, NEW id, NEW s \in Outcomes, NEW b \in BOOLEAN, Receipt(k, id, s, b),
         s = "confirmed" => op[k] = "confirmed" /\ (kind # "ask" => k \in kept),
         s = "rejected" => op[k] = "rejected",
         s = "unknown" => k \notin kept
  PROVE  row' \in [Keys -> Rows] /\ fleet' \in [Keys -> FleetRows] /\ sel' \subseteq Keys /\ RowInv' /\ LeaseInv'
<1>1. CASE UNCHANGED <<row, seen, fleet, sel>>
  BY <1>1, MailboxKept DEF IInv, ShapeInv
<1>2. CASE id \notin seen[k]
  <2>1. row' \in {CommandSettled(k, s, b), EphemeralSettled(k, s), CompactionSettled(k, s), FleetSettled(k, s), TaskSettled(k, s)}
    <3>1. kind \in {"command", "ask", "compact", "fleet", "task"}
      BY NativeAssumption DEF IInv, ShapeInv
    <3>2. row' = CASE kind = "command" -> CommandSettled(k, s, b) [] kind = "ask" -> EphemeralSettled(k, s)
                   [] kind = "compact" -> CompactionSettled(k, s) [] kind = "fleet" -> FleetSettled(k, s)
                   [] kind = "task" -> TaskSettled(k, s)
      BY <1>2 DEF Receipt
    <3> QED
      BY <3>1, <3>2
  <2>2. row' \in [Keys -> Rows] /\ (\A j \in Keys : row'[j] = row[j] \/ (j = k /\ row'[j].st = s))
    BY <2>1, SettledRow DEF IInv
  <2>3. sel' \subseteq Keys
    BY <1>2 DEF Receipt, IInv, ShapeInv
  <2>4. fleet' = IF kind = "fleet" THEN FleetSubmission(k, s) ELSE fleet
    BY <1>2 DEF Receipt
  <2>5. RowInv'
    <3>0. crossed' = crossed /\ ran' = ran
      BY DEF Sdk
    <3> SUFFICES ASSUME NEW j \in Keys, j \notin crossed
                 PROVE  (row'[j].st = "confirmed" => j \in ran) /\ (row'[j].st = "rejected" => Dead(j)')
      BY <3>0 DEF RowInv
    <3>1. Dead(j)' <=> Dead(j)
      BY MailboxKept
    <3>2. CASE row'[j] = row[j]
      BY <3>1, <3>2 DEF IInv, RowInv
    <3>3. CASE j = k /\ row'[j].st = s
      BY <3>1, <3>3 DEF IInv, OutcomeInv
    <3> QED
      BY <2>2, <3>2, <3>3
  <2>6. CASE kind = "fleet"
    <3>1. /\ fleet' \in [Keys -> FleetRows]
          /\ \A j \in Keys : fleet'[j] = fleet[j] \/ (j = k /\ Told(s, fleet[j], fleet'[j]))
      <4>1. fleet' = FleetSubmission(k, s)
        BY <2>4, <2>6
      <4>2. /\ FleetSubmission(k, s) \in [Keys -> FleetRows]
            /\ \A j \in Keys : FleetSubmission(k, s)[j] = fleet[j] \/ (j = k /\ Told(s, fleet[j], FleetSubmission(k, s)[j]))
        <5>1. ShapeInv
          BY DEF IInv
        <5> QED
          BY <5>1, FleetSettles, Zenon
      <4> QED
        BY <4>1, <4>2, Zenon
    <3>3. LeaseInv'
      <4> SUFFICES ASSUME NEW j \in Keys PROVE LeaseOf(j)'
        BY DEF LeaseInv
      <4>0. LeaseOf(j) /\ kept' = kept /\ op' = op
        BY DEF IInv, LeaseInv
      <4>1. CASE fleet'[j] = fleet[j]
        BY <4>0, <4>1 DEF LeaseOf
      <4>2. CASE fleet'[j] # fleet[j] /\ s = "confirmed"
        <5>1. j = k /\ op[k] = "confirmed" /\ fleet'[j].sub = "observed_active" /\ fleet'[j].lease = TRUE
          BY <4>2, <3>1 DEF Told
        <5> QED
          BY <4>0, <5>1 DEF LeaseOf, Live, Ended
      <4>3. CASE fleet'[j] # fleet[j] /\ s = "rejected"
        <5>1. j = k /\ op[k] = "rejected" /\ fleet'[j].sub = "rejected" /\ fleet'[j].lease = fleet[j].lease
          BY <4>3, <3>1 DEF Told
        <5> QED
          BY <4>0, <5>1 DEF LeaseOf, Live, Ended
      <4>4. CASE fleet'[j] # fleet[j] /\ s = "unknown"
        <5>1. j = k /\ k \notin kept /\ fleet'[j].sub = "outcome_unknown" /\ fleet'[j].lease = fleet[j].lease
          BY <4>4, <3>1 DEF Told
        <5> QED
          BY <4>0, <5>1 DEF LeaseOf, Live, Ended
      <4> QED
        BY <4>1, <4>2, <4>3, <4>4 DEF Outcomes
    <3> QED
      BY <2>2, <2>3, <2>5, <3>1, <3>3
  <2>7. CASE kind # "fleet"
    BY <2>2, <2>3, <2>4, <2>5, <2>7, MailboxKept DEF IInv, ShapeInv
  <2> QED
    BY <2>6, <2>7
<1> QED
  BY <1>1, <1>2 DEF Receipt

(* The caller commits the outcome it learnt. *)
LEMMA NextSettle == ASSUME IInv, NEW c \in Callers, settle(c) PROVE IInv'
<1> DEFINE k == call[c].key
           s == CASE call[c].pc = "ok" -> "confirmed" [] call[c].pc = "rej" -> "rejected" [] call[c].pc = "unk" -> "unknown"
           p == IF s = "confirmed" /\ kind = "command"
                THEN (IF call[c].parent # 0 THEN "chosen" ELSE IF res[k] = "prompt" THEN "prompt" ELSE "idle") ELSE "idle"
<1>1. UNCHANGED <<kind, op, kept, res, mbox, step, Sdk, st, calls, faults, autos>> /\ Receipt(k, s, s, FALSE) /\ To(c, p)
  BY DEF settle
<1>2. call[c].pc \in {"ok", "rej", "unk"}
  BY DEF settle
<1>3. s \in Outcomes /\ (s = "confirmed" <=> call[c].pc = "ok") /\ (s = "rejected" <=> call[c].pc = "rej")
  BY <1>2 DEF Outcomes
<1>4. p \in {"idle", "chosen", "prompt"} /\ (p = "prompt" => s = "confirmed" /\ kind = "command")
  OBVIOUS
<1> HIDE DEF s, p
<1>5. /\ k \in Keys
      /\ s = "confirmed" => op[k] = "confirmed" /\ (kind # "ask" => k \in kept)
      /\ s = "rejected" => op[k] = "rejected"
      /\ s = "unknown" => k \notin kept
  BY <1>2, <1>3 DEF IInv, CallInv
<1>6. row' \in [Keys -> Rows] /\ fleet' \in [Keys -> FleetRows] /\ sel' \subseteq Keys /\ RowInv' /\ LeaseInv'
  BY <1>1, <1>3, <1>5, ReceiptKeeps
<1>7. /\ call' \in [Callers -> Calls] /\ call'[c].pc = p /\ call'[c].key = k
      /\ \A d \in Callers : d # c => call'[d] = call[d]
  BY <1>1, <1>4, ToEffect DEF CallStages, IInv
<1>8. CallInv'
  BY <1>1, <1>3, <1>4, <1>5, <1>7, CallersKept
<1>9. ShapeInv'
  BY <1>1, <1>6, <1>7 DEF IInv, ShapeInv, Sdk
<1> QED
  BY <1>1, <1>6, <1>8, <1>9, MailboxKept DEF IInv

(* The prompt of a command was sent and is recorded, or was not. *)
LEMMA NextSendPrompt == ASSUME IInv, NEW c \in Callers, send_prompt(c) PROVE IInv'
<1> DEFINE k == call[c].key
<1>1. UNCHANGED <<kind, op, kept, res, mbox, step, Sdk, st, calls, autos>> /\ To(c, "idle") /\ call[c].pc = "prompt"
  BY DEF send_prompt
<1>2. k \in Keys /\ op[k] = "confirmed" /\ (kind # "ask" => k \in kept)
  BY <1>1 DEF IInv, CallInv
<1>3. row' \in [Keys -> Rows] /\ fleet' \in [Keys -> FleetRows] /\ sel' \subseteq Keys /\ RowInv' /\ LeaseInv'
  <2>1. CASE Receipt(k, "agent-submission", "confirmed", TRUE)
    <3>1. "confirmed" \in Outcomes
      BY DEF Outcomes
    <3> QED
      BY <1>1, <1>2, <2>1, <3>1, ReceiptKeeps
  <2>2. CASE UNCHANGED <<row, seen, fleet, sel>>
    BY <1>1, <2>2, MailboxKept DEF IInv, ShapeInv
  <2> QED
    BY <2>1, <2>2 DEF send_prompt
<1>4. /\ call' \in [Callers -> Calls] /\ call'[c].pc = "idle"
      /\ \A d \in Callers : d # c => call'[d] = call[d]
  BY <1>1, ToEffect DEF CallStages, IInv
<1>5. CallInv'
  BY <1>1, <1>4, CallersKept
<1>6. ShapeInv'
  BY <1>1, <1>3, <1>4 DEF IInv, ShapeInv, Sdk
<1> QED
  BY <1>1, <1>3, <1>5, <1>6, MailboxKept DEF IInv

(* A step that only moves submissions, each in a way that keeps its lease true. *)
LEMMA FleetMoves ==
  ASSUME IInv, FleetUnchanged, fleet' \in [Keys -> FleetRows], \A k \in Keys : LeaseOf(k)'
  PROVE  IInv'
<1>1. UNCHANGED <<kind, op, kept, row, seen, res, sel, call, mbox, step, Sdk, st, calls, faults, autos>>
  BY DEF FleetUnchanged
<1>2. LeaseInv'
  BY DEF LeaseInv
<1>3. ShapeInv'
  BY <1>1 DEF IInv, ShapeInv, Sdk
<1> QED
  BY <1>1, <1>2, <1>3, MailboxKept DEF IInv

(* Submissions that live go on, or end and release their lease. *)
LEMMA MovedKeeps ==
  ASSUME IInv, FleetUnchanged, NEW S \in SUBSET InState(Live), NEW to \in [S -> Live \cup Ended], Moved(S, to)
  PROVE  IInv'
<1>1. op' = op /\ kept' = kept
  BY DEF FleetUnchanged
<1>2. \A k \in Keys : fleet'[k] \in FleetRows /\ LeaseOf(k)'
  <2> SUFFICES ASSUME NEW k \in Keys PROVE fleet'[k] \in FleetRows /\ LeaseOf(k)'
    OBVIOUS
  <2>1. LeaseOf(k) /\ fleet[k] \in FleetRows /\ fleet[k].lease \in BOOLEAN
    BY Fields DEF IInv, LeaseInv
  <2>2. CASE k \notin S
    <3>1. fleet'[k] = fleet[k]
      BY <2>2 DEF Moved
    <3> QED
      BY <1>1, <2>1, <3>1 DEF LeaseOf
  <2>3. CASE k \in S
    <3> DEFINE l == fleet[k].lease /\ to[k] \notin Ended
    <3>1. fleet'[k] = [sub |-> to[k], lease |-> l] /\ l \in BOOLEAN
      BY <2>1, <2>3 DEF Moved
    <3>2. to[k] \in Live \cup Ended /\ to[k] \in FleetStates /\ fleet[k].sub \in Live
      BY <2>3 DEF FleetStates, InState
    <3>3. fleet[k].lease = TRUE /\ op[k] = "confirmed"
      BY <2>1, <3>2 DEF LeaseOf
    <3>4. (to[k] \in Live => l = TRUE) /\ (l = TRUE => to[k] \in Live)
      BY <3>2, <3>3 DEF Live, Ended
    <3> HIDE DEF l
    <3>5. fleet'[k] \in FleetRows /\ fleet'[k].sub = to[k] /\ fleet'[k].lease = l
      BY <3>1, <3>2 DEF FleetRows
    <3> QED
      BY <1>1, <3>1, <3>3, <3>4, <3>5 DEF LeaseOf
  <2> QED
    BY <2>2, <2>3
<1>3. fleet' \in [Keys -> FleetRows]
  <2>1. fleet' = [k \in Keys |-> fleet'[k]]
    BY DEF Moved
  <2> QED
    BY <1>2, <2>1
<1> QED
  BY <1>2, <1>3, FleetMoves

(* An idle event, and snapshots that show no work left. *)
LEMMA NextFleetIdle == ASSUME IInv, session_idle \/ settle_loop_idle PROVE IInv'
<1>1. CASE session_idle
  <2> DEFINE S == InState({"observed_active", "continuation_expected"})
  <2>1. PICK to \in [S -> {"loop_idle", "continuation_expected", "semantic_blocked"}] \cup [S -> {"observed_aborted"}] : Moved(S, to)
    BY <1>1 DEF session_idle
  <2>2. S \in SUBSET InState(Live)
    BY DEF InState, Live
  <2> HIDE DEF S
  <2>3. to \in [S -> Live \cup Ended]
    BY <2>1 DEF Live, Ended
  <2> QED
    BY <1>1, <2>1, <2>2, <2>3, MovedKeeps DEF session_idle
<1>2. CASE settle_loop_idle
  <2>1. PICK S \in SUBSET InState({"loop_idle"}) : \E to \in [S -> {"semantic_complete", "semantic_blocked"}] : Moved(S, to)
    BY <1>2 DEF settle_loop_idle
  <2>2. PICK to \in [S -> {"semantic_complete", "semantic_blocked"}] : Moved(S, to)
    BY <2>1
  <2>3. S \in SUBSET InState(Live)
    BY DEF InState, Live
  <2>4. to \in [S -> Live \cup Ended]
    BY DEF Live, Ended
  <2> QED
    BY <1>2, <2>2, <2>3, <2>4, MovedKeeps DEF settle_loop_idle
<1> QED
  BY <1>1, <1>2

(* Autopilot goes on, or a late task opens a submission that was complete. *)
LEMMA NextTaskEvent == ASSUME IInv, NEW k \in Keys, task_event(k) PROVE IInv'
<1>0. LeaseOf(k) /\ fleet[k] \in FleetRows /\ op' = op /\ kept' = kept /\ FleetUnchanged
  BY Fields DEF IInv, LeaseInv, task_event, FleetUnchanged
<1>1. PICK t \in FleetRows : t.sub \in Live /\ t.lease = TRUE /\ op[k] = "confirmed" /\ fleet' = [fleet EXCEPT ![k] = t]
  <2>1. CASE fleet[k].sub \in Live /\ fleet' = [fleet EXCEPT ![k].sub = "continuation_expected"]
    <3>1. fleet' = [fleet EXCEPT ![k] = [fleet[k] EXCEPT !.sub = "continuation_expected"]]
      BY <2>1 DEF IInv, ShapeInv
    <3>2. fleet[k].lease = TRUE /\ op[k] = "confirmed"
      <4>1. fleet[k].lease \in BOOLEAN /\ fleet[k].lease /\ op[k] = "confirmed"
        BY <1>0, <2>1, Fields DEF LeaseOf, IInv
      <4> QED
        BY <4>1
    <3> DEFINE t == [fleet[k] EXCEPT !.sub = "continuation_expected"]
    <3>3. t \in FleetRows /\ t.sub \in Live /\ t.lease = TRUE
      BY <1>0, <3>2 DEF FleetRows, FleetStates, Live
    <3> HIDE DEF t
    <3> QED
      BY <3>1, <3>2, <3>3 DEF t
  <2>2. CASE fleet[k].sub \in Live /\ fleet' = [fleet EXCEPT ![k] = [sub |-> "observed_active", lease |-> TRUE]]
    <3>1. [sub |-> "observed_active", lease |-> TRUE] \in FleetRows /\ "observed_active" \in Live
      BY DEF FleetRows, FleetStates, Live
    <3> QED
      BY <1>0, <2>2, <3>1 DEF LeaseOf
  <2>3. CASE fleet[k].sub = "semantic_complete" /\ fleet' = [fleet EXCEPT ![k] = [sub |-> "loop_idle", lease |-> TRUE]]
    <3>1. [sub |-> "loop_idle", lease |-> TRUE] \in FleetRows /\ "loop_idle" \in Live /\ "semantic_complete" \in Ended
      BY DEF FleetRows, FleetStates, Live, Ended
    <3> QED
      BY <1>0, <2>3, <3>1 DEF LeaseOf
  <2> QED
    BY <2>1, <2>2, <2>3 DEF task_event
<1>2. fleet' \in [Keys -> FleetRows] /\ fleet'[k] = t /\ (\A j \in Keys : j # k => fleet'[j] = fleet[j])
  BY <1>1 DEF IInv, ShapeInv
<1>3. \A j \in Keys : LeaseOf(j)'
  <2> SUFFICES ASSUME NEW j \in Keys PROVE LeaseOf(j)'
    OBVIOUS
  <2>1. CASE j = k
    BY <1>0, <1>1, <1>2, <2>1 DEF LeaseOf
  <2>2. CASE j # k
    BY <1>0, <1>2, <2>2 DEF LeaseOf, IInv, LeaseInv
  <2> QED
    BY <2>1, <2>2
<1> QED
  BY <1>0, <1>2, <1>3, FleetMoves

(* A compaction without a completion becomes unknown, which says nothing of it. *)
LEMMA ReconcileKeeps ==
  ASSUME IInv, UNCHANGED <<kind, op, kept, mbox, step, Sdk>>, NEW basis, ReconcileUnresolved(basis)
  PROVE  row' \in [Keys -> Rows] /\ RowInv'
<1>1. \A k \in Keys : row'[k] = row[k] \/ row'[k] = CompactionSettled(k, "unknown")[k]
  BY DEF ReconcileUnresolved
<1>2. \A k \in Keys : row'[k] \in Rows /\ (row'[k] = row[k] \/ row'[k].st = "unknown")
  <2> SUFFICES ASSUME NEW k \in Keys PROVE row'[k] \in Rows /\ (row'[k] = row[k] \/ row'[k].st = "unknown")
    OBVIOUS
  <2>1. row[k] \in Rows /\ "unknown" \in RowStates /\ 0 \in Ages /\ TRUE \in BOOLEAN
    BY Fields DEF IInv, RowStates, Outcomes, Ages
  <2>2. [row[k] EXCEPT !.st = "unknown"] \in Rows /\ [row[k] EXCEPT !.st = "unknown"].st = "unknown"
    BY <2>1, RowState
  <2>3. CompactionSettled(k, "unknown")[k] \in {row[k], [row[k] EXCEPT !.st = "unknown"]}
    BY DEF CompactionSettled, IInv, ShapeInv
  <2> QED
    BY <1>1, <2>1, <2>2, <2>3
<1>3. row' \in [Keys -> Rows]
  <2>1. row' = [k \in Keys |-> row'[k]]
    BY DEF ReconcileUnresolved
  <2> QED
    BY <1>2, <2>1
<1>4. RowInv'
  <2>0. crossed' = crossed /\ ran' = ran
    BY DEF Sdk
  <2> SUFFICES ASSUME NEW j \in Keys, j \notin crossed
               PROVE  (row'[j].st = "confirmed" => j \in ran) /\ (row'[j].st = "rejected" => Dead(j)')
    BY <2>0 DEF RowInv
  <2>1. Dead(j)' <=> Dead(j)
    BY MailboxKept
  <2> QED
    BY <1>2, <2>1 DEF IInv, RowInv
<1> QED
  BY <1>3, <1>4

(* reconcile_compaction, the end of an attach and its beginning. *)
LEMMA NextAttach == ASSUME IInv, reconcile_compaction \/ attached \/ resume PROVE IInv'
<1>1. UNCHANGED <<kind, op, kept, mbox, step, Sdk>> /\ UNCHANGED <<sel, fleet, call>> /\ st' \in {"up", "down", "attaching"}
  BY DEF reconcile_compaction, attached, resume, IInv, ShapeInv
<1>2. row' \in [Keys -> Rows] /\ RowInv'
  <2>1. CASE UNCHANGED row
    BY <1>1, <2>1, MailboxKept DEF IInv, ShapeInv
  <2>2. CASE \E basis \in {"explicit", "attach"} : ReconcileUnresolved(basis)
    BY <1>1, <2>2, ReconcileKeeps
  <2> QED
    BY <2>1, <2>2 DEF reconcile_compaction, attached, resume
<1>3. ShapeInv'
  BY <1>1, <1>2 DEF IInv, ShapeInv, Sdk
<1> QED
  BY <1>1, <1>2, <1>3, MailboxKept DEF IInv

-----------------------------------------------------------------------------
(* The operation at the head of the mailbox. *)

(* Events on their way that are marked, as received before a row or not, say what they said. *)
LEMMA EventsMarked ==
  ASSUME IInv, Grows, NEW a \in [1..Len(net) -> SUBSET Keys], net' = [i \in 1..Len(net) |-> [net[i] EXCEPT !.ahead = a[i]]]
  PROVE  net' \in Seq(Events) /\ EventInv' /\ (net = <<>> => net' = <<>>)
<1>1. net \in Seq(Events) /\ Len(net) \in Nat /\ (\A i \in 1..Len(net) : net[i] \in Events)
  BY DEF IInv, ShapeInv
<1>2. \A e \in Events : \A A \in SUBSET Keys :
        LET f == [e EXCEPT !.ahead = A] IN f \in Events /\ f.type = e.type /\ f.key = e.key /\ f.ok = e.ok
  BY DEF Events
<1>3. \A i \in 1..Len(net) : net'[i] \in Events /\ net'[i].type = net[i].type /\ net'[i].key = net[i].key /\ net'[i].ok = net[i].ok
  <2> SUFFICES ASSUME NEW i \in 1..Len(net)
               PROVE  net'[i] \in Events /\ net'[i].type = net[i].type /\ net'[i].key = net[i].key /\ net'[i].ok = net[i].ok
    OBVIOUS
  <2>1. net'[i] = [net[i] EXCEPT !.ahead = a[i]] /\ net[i] \in Events /\ a[i] \in SUBSET Keys
    BY <1>1
  <2> QED
    BY <1>2, <2>1
<1>4. net' \in [1..Len(net) -> Events]
  <2>1. net' = [i \in 1..Len(net) |-> net'[i]]
    OBVIOUS
  <2> QED
    BY <1>3, <2>1
<1>5. net' \in Seq(Events) /\ Len(net') = Len(net)
  BY <1>1, <1>4
<1>6. EventInv'
  <2> SUFFICES ASSUME NEW i \in 1..Len(net), NEW k \in Keys, net'[i].type = "complete", net'[i].key = k
               PROVE  IF net'[i].ok THEN k \in ran' ELSE Dead(k)'
    BY <1>5 DEF EventInv, Dead
  <2>1. net[i].type = "complete" /\ net[i].key = k /\ net[i].ok = net'[i].ok
    BY <1>3
  <2>2. IF net[i].ok THEN k \in ran ELSE Dead(k)
    BY <2>1 DEF IInv, EventInv
  <2> QED
    BY <2>1, <2>2 DEF Grows
<1> QED
  BY <1>1, <1>5, <1>6

(* A row is written after some of the events on their way were received. *)
LEMMA ReceivedEvents ==
  ASSUME IInv, Grows, NEW k \in Keys, Received(k)
  PROVE  net' \in Seq(Events) /\ EventInv' /\ (net = <<>> => net' = <<>>)
<1>1. PICK n \in 0..Len(net) : net' = [i \in DOMAIN net |-> IF i <= n THEN [net[i] EXCEPT !.ahead = @ \cup {k}] ELSE net[i]]
  BY DEF Received
<1> DEFINE a == [i \in 1..Len(net) |-> IF i <= n THEN net[i].ahead \cup {k} ELSE net[i].ahead]
<1>2. DOMAIN net = 1..Len(net) /\ (\A i \in 1..Len(net) : net[i] \in Events)
  BY DEF IInv, ShapeInv
<1>3. \A e \in Events : e.ahead \in SUBSET Keys /\ e = [e EXCEPT !.ahead = e.ahead]
  BY DEF Events
<1>4. a \in [1..Len(net) -> SUBSET Keys]
  BY <1>2, <1>3
<1>5. net' = [i \in 1..Len(net) |-> [net[i] EXCEPT !.ahead = a[i]]]
  BY <1>1, <1>2, <1>3
<1> HIDE DEF a
<1> QED
  BY <1>4, <1>5, EventsMarked

(* The operation starts and its row is pending, or it is settled without having been sent. *)
LEMMA NextDispatch == ASSUME IInv, dispatch PROVE IInv'
<1>1. UNCHANGED <<kind, seen, res, sel, work, ran, tries, crossed, st, calls, autos>> /\ mbox # <<>> /\ step = "idle"
  BY DEF dispatch, Running, Histories
<1>2. Head1 \in Keys /\ tries[Head1] = 0 /\ Head1 \notin ran /\ Head1 \notin work /\ ~Dead(Head1)
  BY <1>1, AtHead DEF IInv, TryInv
<1>3. CASE step' = "rpc" /\ row' = Pending(Head1) /\ Received(Head1) /\ UNCHANGED <<op, kept, call, mbox, faults>>
           /\ fleet' = IF kind = "fleet" /\ fleet[Head1].sub = None THEN [fleet EXCEPT ![Head1].sub = "submitting"] ELSE fleet
  <2>1. \A k \in Keys : Dead(k)' <=> Dead(k)
    BY <1>1, <1>3 DEF Dead
  <2>2. Grows
    BY <1>1, <2>1 DEF Grows
  <2>3. row' \in [Keys -> Rows] /\ (\A k \in Keys : row'[k] = row[k] \/ row'[k].st = "pending")
    <3> DEFINE a == Cardinality({j \in Keys : row[j].st # None})
    <3>1. row[Head1] \in Rows /\ "pending" \in RowStates /\ a \in Ages
      BY <1>2, Fields DEF IInv, RowStates, Ages
    <3>2. row' = row \/ row' = [row EXCEPT ![Head1] = [row[Head1] EXCEPT !.st = "pending", !.at = a]]
      BY <1>3 DEF Pending, IInv, ShapeInv
    <3> HIDE DEF a
    <3>3. /\ [row[Head1] EXCEPT !.st = "pending", !.at = a] \in Rows
          /\ [row[Head1] EXCEPT !.st = "pending", !.at = a].st = "pending"
      BY <3>1 DEF Rows
    <3> QED
      BY <3>2, <3>3 DEF IInv, ShapeInv
  <2>4. fleet' \in [Keys -> FleetRows] /\ (\A k \in Keys : \/ fleet'[k] = fleet[k]
                                                           \/ fleet[k].sub = None /\ fleet'[k].sub = "submitting" /\ fleet'[k].lease = fleet[k].lease)
    <3>1. fleet[Head1] \in FleetRows
      BY <1>2, Fields DEF IInv
    <3>2. /\ [fleet[Head1] EXCEPT !.sub = "submitting"] \in FleetRows
          /\ [fleet[Head1] EXCEPT !.sub = "submitting"].lease = fleet[Head1].lease
          /\ [fleet[Head1] EXCEPT !.sub = "submitting"].sub = "submitting"
      BY <3>1 DEF FleetRows, FleetStates
    <3>3. fleet' = fleet \/ (fleet[Head1].sub = None /\ fleet' = [fleet EXCEPT ![Head1] = [fleet[Head1] EXCEPT !.sub = "submitting"]])
      BY <1>3 DEF IInv, ShapeInv
    <3> DEFINE t == [fleet[Head1] EXCEPT !.sub = "submitting"]
    <3>4. t \in FleetRows /\ t.lease = fleet[Head1].lease /\ t.sub = "submitting"
      BY <3>2
    <3>5. fleet' = fleet \/ (fleet[Head1].sub = None /\ fleet' = [fleet EXCEPT ![Head1] = t])
      BY <3>3
    <3> HIDE DEF t
    <3>6. fleet' = fleet \/ (fleet[Head1].sub = None /\ fleet'[Head1] = t /\ \A k \in Keys : k # Head1 => fleet'[k] = fleet[k])
      BY <1>2, <3>5 DEF IInv, ShapeInv
    <3>7. fleet' \in [Keys -> FleetRows]
      BY <3>4, <3>5 DEF IInv, ShapeInv
    <3>8. ASSUME NEW k \in Keys
          PROVE  \/ fleet'[k] = fleet[k]
                 \/ fleet[k].sub = None /\ fleet'[k].sub = "submitting" /\ fleet'[k].lease = fleet[k].lease
      <4>1. CASE k = Head1
        BY <3>4, <3>6, <4>1, Zenon
      <4>2. CASE k # Head1
        BY <3>6, <4>2, Zenon
      <4> QED
        BY <4>1, <4>2
    <3> QED
      BY <3>7, <3>8, Zenon
  <2>5. LeaseInv'
    <3> SUFFICES ASSUME NEW k \in Keys PROVE LeaseOf(k)'
      BY DEF LeaseInv
    <3>0. LeaseOf(k) /\ op' = op /\ kept' = kept
      BY <1>3 DEF IInv, LeaseInv
    <3>1. CASE fleet'[k] = fleet[k]
      BY <3>0, <3>1 DEF LeaseOf
    <3>2. CASE fleet[k].sub = None /\ fleet'[k].sub = "submitting" /\ fleet'[k].lease = fleet[k].lease
      BY <3>0, <3>2 DEF LeaseOf, Live, Ended, None
    <3> QED
      BY <2>4, <3>1, <3>2
  <2>6. RowInv'
    <3> SUFFICES ASSUME NEW k \in Keys, k \notin crossed
                 PROVE  (row'[k].st = "confirmed" => k \in ran) /\ (row'[k].st = "rejected" => Dead(k)')
      BY <1>1 DEF RowInv
    <3> QED
      BY <2>1, <2>3 DEF IInv, RowInv
  <2>10. net' \in Seq(Events) /\ EventInv' /\ (net = <<>> => net' = <<>>)
    BY <1>2, <1>3, <2>2, ReceivedEvents
  <2>7. MailInv'
    BY <1>1, <1>3, <2>10 DEF IInv, MailInv
  <2>8. TryInv'
    BY <1>1, <1>3 DEF IInv, TryInv
  <2>9. OutcomeInv'
    BY <1>1, <1>3, <2>1 DEF IInv, OutcomeInv
  <2>11. CallInv'
    BY <1>1, <1>3 DEF IInv, CallInv
  <2>12. ShapeInv'
    BY <1>1, <1>3, <2>3, <2>4, <2>10 DEF IInv, ShapeInv, Steps
  <2> QED
    BY <2>5, <2>6, <2>7, <2>8, <2>9, <2>10, <2>11, <2>12 DEF IInv
<1>4. ASSUME NEW s \in {"unknown", "rejected"}, Finish(s), UNCHANGED <<row, fleet, net>> PROVE IInv'
  <2>1. s \in Outcomes
    BY DEF Outcomes
  <2>2. UNCHANGED <<kind, st, net, work, row, fleet, crossed>> /\ UNCHANGED <<sel, ran, tries>>
    BY <1>1, <1>4
  <2>3. sel' \subseteq Keys /\ ran' \subseteq Keys /\ tries' \in [Keys -> Nat]
    BY <2>2 DEF IInv, ShapeInv
  <2> QED
    BY <1>1, <1>2, <1>4, <2>1, <2>2, <2>3, FinishKeeps
<1> QED
  BY <1>3, <1>4 DEF dispatch

(* The request is sent, for the first time. *)
LEMMA SentEffect ==
  ASSUME IInv, mbox # <<>>, step = "rpc", tries' = [tries EXCEPT ![Head1] = @ + 1]
  PROVE  /\ tries' \in [Keys -> Nat] /\ tries'[Head1] = 1 /\ (\A k \in Keys : k # Head1 => tries'[k] = tries[k])
         /\ Head1 \in Keys /\ Head1 \notin ran /\ Head1 \notin work /\ ~Dead(Head1)
<1>1. Head1 \in Keys /\ tries[Head1] = 0 /\ ~Dead(Head1)
  BY AtHead
<1>2. Head1 \notin ran /\ Head1 \notin work
  BY <1>1 DEF IInv, TryInv
<1>3. tries' = [tries EXCEPT ![Head1] = 1]
  BY <1>1 DEF IInv, ShapeInv
<1> QED
  BY <1>1, <1>2, <1>3 DEF IInv, ShapeInv

(* The SDK call of everything but a compaction. *)
LEMMA NextRpc == ASSUME IInv, rpc PROVE IInv'
<1>1. UNCHANGED <<kind, row, seen, sel, fleet, work, net, st, calls, autos, crossed>> /\ mbox # <<>> /\ step = "rpc"
      /\ tries' = [tries EXCEPT ![Head1] = @ + 1]
  BY DEF rpc, Running
<1>2. /\ tries' \in [Keys -> Nat] /\ tries'[Head1] = 1 /\ (\A k \in Keys : k # Head1 => tries'[k] = tries[k])
      /\ Head1 \in Keys /\ Head1 \notin ran /\ Head1 \notin work /\ ~Dead(Head1)
  BY <1>1, SentEffect
<1>3. \E s \in Outcomes : Finish(s) /\ \/ s # "confirmed" /\ ran' = ran
                                       \/ s # "rejected" /\ ran' = ran \cup {Head1}
  BY DEF rpc, Outcomes
<1>4. PICK s \in Outcomes : Finish(s) /\ \/ s # "confirmed" /\ ran' = ran
                                         \/ s # "rejected" /\ ran' = ran \cup {Head1}
  BY <1>3
<1>5. sel' \subseteq Keys /\ ran' \subseteq Keys
  BY <1>1, <1>2, <1>4 DEF IInv, ShapeInv
<1>6. \A k \in Keys : k # Head1 => (k \in ran' <=> k \in ran)
  BY <1>4
<1> QED
  BY <1>1, <1>2, <1>4, <1>5, <1>6, FinishKeeps

(* A compaction is answered, or not waited for any longer. *)
LEMMA NextCompactEnds == ASSUME IInv, compact_times_out \/ compact_answered PROVE IInv'
<1>1. /\ UNCHANGED <<kind, st, net, work, row, fleet, crossed>> /\ UNCHANGED <<sel, ran, tries>> /\ mbox # <<>>
      /\ step \in {"working", "compacted", "failed"}
  BY DEF compact_times_out, compact_answered, Running, Sdk
<1>2. Head1 \in Keys /\ Head1 = mbox[1]
  BY <1>1, AtHead
<1>3. \E s \in Outcomes : Finish(s) /\ (s = "confirmed" => step = "compacted") /\ (s = "rejected" => step = "failed")
  BY DEF compact_times_out, compact_answered, Running, Outcomes
<1>4. PICK s \in Outcomes : Finish(s) /\ (s = "confirmed" => step = "compacted") /\ (s = "rejected" => step = "failed")
  BY <1>3
<1>5. (s = "confirmed" => Head1 \in ran) /\ (s = "rejected" => Dead(Head1))
  BY <1>1, <1>2, <1>4 DEF IInv, OutcomeInv
<1>6. sel' \subseteq Keys /\ ran' \subseteq Keys /\ tries' \in [Keys -> Nat]
  BY <1>1 DEF IInv, ShapeInv
<1>7. (Head1 \in work => Head1 \notin ran) /\ (Dead(Head1) => Head1 \notin ran /\ Head1 \notin work)
  BY <1>2 DEF IInv, TryInv, Dead
<1> QED
  BY <1>1, <1>2, <1>4, <1>5, <1>6, <1>7, FinishKeeps

-----------------------------------------------------------------------------
(* Compactions and their events. *)

(* What an event that is added to the log says is true, and so is what the log had. *)
LEMMA EventAdded ==
  ASSUME IInv, Grows, NEW e \in Events, net' = Append(net, e),
         e.type = "complete" /\ e.key \in Keys => IF e.ok THEN e.key \in ran' ELSE Dead(e.key)'
  PROVE  net' \in Seq(Events) /\ EventInv'
<1>1. net \in Seq(Events) /\ Len(net) \in Nat /\ net' \in Seq(Events) /\ Len(net') = Len(net) + 1
  BY DEF IInv, ShapeInv
<1>2. \A i \in 1..Len(net') : net'[i] = e \/ (i \in 1..Len(net) /\ net'[i] = net[i])
  BY <1>1
<1>3. EventInv'
  <2> SUFFICES ASSUME NEW i \in 1..Len(net'), NEW k \in Keys, net'[i].type = "complete", net'[i].key = k
               PROVE  IF net'[i].ok THEN k \in ran' ELSE Dead(k)'
    BY DEF EventInv, Dead
  <2>1. CASE net'[i] = e
    <3>1. e.type = "complete" /\ e.key = k
      BY <2>1
    <3>2. ~e.ok => Dead(k)'
      BY <3>1 DEF Dead
    <3> QED
      BY <2>1, <3>1, <3>2
  <2>2. CASE i \in 1..Len(net) /\ net'[i] = net[i]
    <3>1. IF net[i].ok THEN k \in ran ELSE Dead(k)
      BY <2>2 DEF IInv, EventInv
    <3> QED
      BY <2>2, <3>1 DEF Grows
  <2> QED
    BY <1>2, <2>1, <2>2
<1> QED
  BY <1>1, <1>3

(* A compaction is asked for. *)
LEMMA NextCompactHistory == ASSUME IInv, compact_history PROVE IInv'
<1>1. /\ UNCHANGED <<kind, row, seen, res, sel, fleet, st, calls, autos, ran, crossed>> /\ mbox # <<>> /\ step = "rpc"
      /\ kind = "compact" /\ tries' = [tries EXCEPT ![Head1] = @ + 1]
  BY DEF compact_history, Running
<1>2. /\ tries' \in [Keys -> Nat] /\ tries'[Head1] = 1 /\ (\A k \in Keys : k # Head1 => tries'[k] = tries[k])
      /\ Head1 \in Keys /\ Head1 \notin ran /\ Head1 \notin work /\ ~Dead(Head1)
  BY <1>1, SentEffect
<1>3. sel' \subseteq Keys /\ ran' \subseteq Keys
  BY <1>1 DEF IInv, ShapeInv
<1>4. ASSUME NEW s \in {"rejected", "unknown"}, Finish(s), UNCHANGED <<work, net>> PROVE IInv'
  <2>1. s \in Outcomes
    BY DEF Outcomes
  <2> QED
    BY <1>1, <1>2, <1>3, <1>4, <2>1, FinishKeeps
<1>5. CASE work' = work \cup {Head1} /\ net' = Append(net, Sent("start", Head1, TRUE)) /\ step' = "working"
           /\ UNCHANGED <<op, kept, call, mbox, faults>>
  <2>1. \A k \in Keys : Dead(k) => Dead(k)'
    BY <1>1, <1>2, <1>5 DEF Dead
  <2>2. Grows
    BY <1>1, <2>1 DEF Grows
  <2>3. net' \in Seq(Events) /\ EventInv'
    <3> DEFINE e == Sent("start", Head1, TRUE)
    <3>1. e \in Events /\ e.type # "complete"
      BY <1>2 DEF Events, Sent
    <3>2. net' = Append(net, e)
      BY <1>5
    <3> HIDE DEF e
    <3> QED
      BY <2>2, <3>1, <3>2, EventAdded
  <2>4. RowInv'
    BY <1>1, <2>2, RecordsKept
  <2>5. MailInv'
    BY <1>1, <1>5 DEF IInv, MailInv
  <2>6. TryInv'
    <3>1. \A k \in Keys : /\ tries'[k] = 0 \/ tries'[k] = 1
                          /\ op[k] = None => tries'[k] = 0
                          /\ tries'[k] = 0 => k \notin ran /\ k \notin work'
                          /\ k \in work' => k \notin ran
      <4> SUFFICES ASSUME NEW k \in Keys
                   PROVE  /\ tries'[k] = 0 \/ tries'[k] = 1
                          /\ op[k] = None => tries'[k] = 0
                          /\ tries'[k] = 0 => k \notin ran /\ k \notin work'
                          /\ k \in work' => k \notin ran
        OBVIOUS
      <4>1. CASE k = Head1
        <5>1. op[Head1] # None
          BY <1>1, AtHead DEF None
        <5> QED
          BY <4>1, <5>1, <1>2
      <4>2. CASE k # Head1
        BY <4>2, <1>2, <1>5 DEF IInv, TryInv
      <4> QED
        BY <4>1, <4>2
    <3>2. \A i \in 1..Len(mbox) : i > 1 => tries'[mbox[i]] = 0
      <4> SUFFICES ASSUME NEW i \in 1..Len(mbox), i > 1 PROVE tries'[mbox[i]] = 0
        OBVIOUS
      <4>1. mbox[i] \in Keys /\ tries[mbox[i]] = 0
        BY DEF IInv, ShapeInv, TryInv
      <4>2. 1 \in 1..Len(mbox) /\ Head1 = mbox[1]
        BY <1>1, AtHead
      <4>3. mbox[i] # Head1
        BY <4>2 DEF IInv, MailInv
      <4> QED
        BY <4>1, <4>3, <1>2
    <3> QED
      BY <1>1, <1>5, <3>1, <3>2 DEF TryInv
  <2>7. OutcomeInv'
    <3>1. \A k \in Keys : /\ op[k] = "confirmed" => k \in ran
                          /\ op[k] = "rejected" => Dead(k)'
                          /\ k \in kept => op[k] = "confirmed"
      BY <2>1 DEF IInv, OutcomeInv
    <3> QED
      BY <1>1, <1>5, <3>1 DEF OutcomeInv
  <2>8. CallInv'
    BY <1>1, <1>5 DEF IInv, CallInv
  <2>9. ShapeInv'
    BY <1>1, <1>2, <1>5, <2>3 DEF IInv, ShapeInv, Steps
  <2>10. LeaseInv'
    BY <1>1, <1>5, LeasesKept
  <2> QED
    BY <2>3, <2>4, <2>5, <2>6, <2>7, <2>8, <2>9, <2>10 DEF IInv
<1> QED
  BY <1>4, <1>5 DEF compact_history

(* The SDK begins a compaction of its own. *)
LEMMA NextSdkCompacts == ASSUME IInv, SdkCompacts PROVE IInv'
<1>1. /\ kind = "compact" /\ work = {} /\ work' = {0} /\ net' = Append(net, Sent("start", 0, TRUE))
      /\ UNCHANGED <<kind, op, kept, row, sel, fleet, call, mbox, step, st, ran, tries, crossed>>
  BY DEF SdkCompacts, Histories
<1>0. 0 \notin Keys
  BY NativeAssumption
<1>2. \A k \in Keys : Dead(k)' <=> Dead(k)
  BY <1>0, <1>1 DEF Dead
<1>3. Grows
  BY <1>1, <1>2 DEF Grows
<1>4. net' \in Seq(Events) /\ EventInv'
  <2> DEFINE e == Sent("start", 0, TRUE)
  <2>1. e \in Events /\ e.type # "complete"
    BY DEF Events, Sent
  <2>2. net' = Append(net, e)
    BY <1>1
  <2> HIDE DEF e
  <2> QED
    BY <1>3, <2>1, <2>2, EventAdded
<1>5. RowInv'
  BY <1>1, <1>3, RecordsKept
<1>6. MailInv' /\ CallInv' /\ LeaseInv'
  BY <1>1, LeasesKept DEF IInv, MailInv, CallInv
<1>7. TryInv'
  BY <1>0, <1>1 DEF IInv, TryInv
<1>8. OutcomeInv'
  <2>1. mbox # <<>> => mbox[1] \in Keys
    BY DEF IInv, ShapeInv
  <2>2. mbox # <<>> /\ step = "failed" => Dead(mbox[1])'
    BY <1>0, <1>1, <2>1 DEF IInv, OutcomeInv, Dead
  <2> QED
    BY <1>1, <1>2, <2>2 DEF IInv, OutcomeInv
<1>9. ShapeInv'
  BY <1>1, <1>4 DEF IInv, ShapeInv
<1> QED
  BY <1>4, <1>5, <1>6, <1>7, <1>8, <1>9 DEF IInv

(* A compaction ends; it had no effect before, and it is not asked for again. *)
LEMMA NextSdkCompletes == ASSUME IInv, NEW k \in Keys \cup {0}, SdkCompletes(k) PROVE IInv'
<1>1. PICK ok \in BOOLEAN :
        /\ net' = Append(net, Sent("complete", k, ok))
        /\ step' = IF up /\ step = "working" /\ mbox # <<>> /\ Head1 = k THEN (IF ok THEN "compacted" ELSE "failed") ELSE step
        /\ ran' = IF ok THEN ran \cup ({k} \ {0}) ELSE ran
  BY DEF SdkCompletes
<1>2. /\ k \in work /\ work' = work \ {k}
      /\ UNCHANGED <<kind, op, kept, row, sel, fleet, call, mbox, st, tries, crossed>>
  BY DEF SdkCompletes
<1>3. kind = "compact"
  BY <1>2 DEF IInv, MailInv
<1>4. 0 \notin Keys
  BY NativeAssumption
<1>5. k \in Keys => tries[k] = 1 /\ k \notin ran /\ ~Dead(k)
  BY <1>2 DEF IInv, TryInv, Dead
<1>6. /\ ran \subseteq ran' /\ ran' \subseteq ran \cup {k} /\ ran' \subseteq Keys
      /\ (ok = TRUE /\ k \in Keys => k \in ran') /\ (ok = FALSE => ran' = ran)
  BY <1>1, <1>4 DEF IInv, ShapeInv
<1>7. \A j \in Keys : Dead(j) => Dead(j)'
  BY <1>2, <1>5, <1>6 DEF Dead
<1>8. Grows
  BY <1>6, <1>7 DEF Grows
<1>9. ok = FALSE /\ k \in Keys => Dead(k)'
  BY <1>2, <1>5, <1>6 DEF Dead
<1>10. net' \in Seq(Events) /\ EventInv'
  <2> DEFINE e == Sent("complete", k, ok)
  <2>1. e \in Events /\ e.key = k /\ e.ok = ok
    BY DEF Events, Sent
  <2>2. net' = Append(net, e)
    BY <1>1
  <2> HIDE DEF e
  <2>3. e.key \in Keys => IF e.ok THEN e.key \in ran' ELSE Dead(e.key)'
    BY <2>1, <1>6, <1>9 DEF Dead
  <2> QED
    BY <1>8, <2>1, <2>2, <2>3, EventAdded
<1>11. RowInv'
  BY <1>2, <1>8, RecordsKept
<1>12. /\ step' \in Steps
       /\ step' \in {"idle", "rpc"} => step = step'
       /\ step = "idle" => step' = "idle"
       /\ step' = "compacted" => step = "compacted" \/ (Head1 = k /\ ok = TRUE)
       /\ step' = "failed" => step = "failed" \/ (Head1 = k /\ ok = FALSE)
  BY <1>1 DEF IInv, ShapeInv, Steps
<1>13. MailInv' /\ CallInv' /\ LeaseInv'
  BY <1>2, <1>3, <1>12, LeasesKept DEF IInv, MailInv, CallInv
<1>14. TryInv'
  <2>1. \A j \in Keys : /\ tries[j] = 0 => j \notin ran' /\ j \notin work'
                        /\ j \in work' => j \notin ran'
    <3> SUFFICES ASSUME NEW j \in Keys PROVE (tries[j] = 0 => j \notin ran' /\ j \notin work') /\ (j \in work' => j \notin ran')
      OBVIOUS
    <3>1. (tries[j] = 0 => j \notin ran /\ j \notin work) /\ (j \in work => j \notin ran)
      BY DEF IInv, TryInv
    <3> QED
      BY <3>1, <1>2, <1>5, <1>6
  <2> QED
    BY <2>1, <1>2, <1>12 DEF IInv, TryInv
<1>15. OutcomeInv'
  <2>1. \A j \in Keys : /\ op[j] = "confirmed" => j \in ran'
                        /\ op[j] = "rejected" => Dead(j)'
                        /\ j \in kept => op[j] = "confirmed"
    BY <1>6, <1>7 DEF IInv, OutcomeInv
  <2>2. ASSUME mbox # <<>>, step' = "compacted" PROVE mbox[1] \in ran'
    BY <2>2, <1>6, <1>12, AtHead DEF IInv, OutcomeInv
  <2>3. ASSUME mbox # <<>>, step' = "failed" PROVE Dead(mbox[1])'
    <3>1. mbox[1] \in Keys /\ Head1 = mbox[1]
      BY <2>3, AtHead
    <3>2. Dead(mbox[1]) => Dead(mbox[1])'
      BY <1>2, <1>5, <1>6, <3>1 DEF Dead
    <3>3. Head1 = k /\ ok = FALSE => Dead(mbox[1])'
      BY <1>2, <1>5, <1>6, <3>1 DEF Dead
    <3> QED
      BY <2>3, <1>12, <3>2, <3>3 DEF IInv, OutcomeInv
  <2> QED
    BY <2>1, <2>2, <2>3, <1>2 DEF OutcomeInv
<1>16. ShapeInv'
  BY <1>2, <1>6, <1>10, <1>12 DEF IInv, ShapeInv
<1> QED
  BY <1>10, <1>11, <1>13, <1>14, <1>15, <1>16 DEF IInv

(* The row an event writes is the one of its compaction, or one that is marked as crossed. *)
LEMMA NextDeliver == ASSUME IInv, deliver PROVE IInv'
<1> DEFINE e == Head(net)
<1>0. PICK S \in SUBSET Keys :
        /\ row' = ApplyCompactionEvent(e, S)
        /\ crossed' = IF e.type = "complete" /\ S # {} /\ Newest(EndsFor(S)) # e.key THEN crossed \cup {Newest(EndsFor(S))} ELSE crossed
  BY DEF deliver
<1>1. /\ net # <<>> /\ net' = Tail(net)
      /\ UNCHANGED <<kind, op, kept, sel, fleet, call, mbox, step, work, st, ran, tries>>
  BY DEF deliver
<1>2. /\ Len(net) \in Nat /\ 1 \in 1..Len(net) /\ e = net[1] /\ e \in Events
      /\ Tail(net) \in Seq(Events) /\ Len(Tail(net)) = Len(net) - 1
      /\ \A i \in 1..Len(Tail(net)) : i + 1 \in 1..Len(net) /\ Tail(net)[i] = net[i + 1]
  BY <1>1 DEF IInv, ShapeInv
<1>3. e.type \in {"start", "complete"} /\ e.ok \in BOOLEAN
  BY <1>2 DEF Events
<1>4. /\ e.type = "complete" => (e.key \in Keys => IF e.ok THEN e.key \in ran ELSE Dead(e.key))
  BY <1>2 DEF IInv, EventInv
<1>5. \A k \in Keys : Dead(k)' <=> Dead(k)
  BY <1>1 DEF Dead
<1>6. kind = "compact"
  BY <1>1 DEF IInv, MailInv
<1>7. /\ row' \in [Keys -> Rows]
      /\ \A k \in Keys : \/ row'[k] = row[k]
                         \/ e.type = "start" /\ row'[k].st = "started"
                         \/ /\ e.type = "complete" /\ k = Newest(EndsFor(S)) /\ S # {}
                            /\ row'[k].st = IF e.ok THEN "confirmed" ELSE "rejected"
  <2> DEFINE o == IF e.ok THEN "confirmed" ELSE "rejected"
  <2>1. {"started", "confirmed", "rejected"} \subseteq RowStates /\ o \in RowStates
    BY DEF RowStates, Outcomes
  <2>2. \A k \in Keys : /\ [row[k] EXCEPT !.st = o] \in Rows /\ [row[k] EXCEPT !.st = o].st = o
                        /\ [row[k] EXCEPT !.st = "started", !.begun = TRUE, !.old = FALSE] \in Rows
                        /\ [row[k] EXCEPT !.st = "started", !.begun = TRUE, !.old = FALSE].st = "started"
    <3> SUFFICES ASSUME NEW k \in Keys
                 PROVE  /\ [row[k] EXCEPT !.st = o] \in Rows /\ [row[k] EXCEPT !.st = o].st = o
                        /\ [row[k] EXCEPT !.st = "started", !.begun = TRUE, !.old = FALSE] \in Rows
                        /\ [row[k] EXCEPT !.st = "started", !.begun = TRUE, !.old = FALSE].st = "started"
      OBVIOUS
    <3>1. row[k] \in Rows
      BY Fields DEF IInv
    <3> HIDE DEF o
    <3> QED
      BY <2>1, <3>1 DEF Rows
  <2>3. CASE e.type = "start"
    <3> DEFINE n == Newest(Concerns(e, S))
    <3>1. row' = row \/ row' = [row EXCEPT ![n] = [row[n] EXCEPT !.st = "started", !.begun = TRUE, !.old = FALSE]]
      BY <1>0, <2>3 DEF ApplyCompactionEvent, IInv, ShapeInv
    <3> HIDE DEF n
    <3>2. \A k \in Keys : row'[k] = row[k] \/ row'[k] = [row[k] EXCEPT !.st = "started", !.begun = TRUE, !.old = FALSE]
      BY <3>1 DEF IInv, ShapeInv
    <3>3. row' = [k \in Keys |-> row'[k]]
      BY <3>1 DEF IInv, ShapeInv
    <3>4. \A k \in Keys : row'[k] \in Rows /\ (row'[k] = row[k] \/ row'[k].st = "started")
      BY <3>2, <2>2, Fields DEF IInv
    <3> QED
      BY <2>3, <3>3, <3>4
  <2>4. CASE e.type = "complete"
    <3> DEFINE n == Newest(EndsFor(S))
    <3>0. Concerns(e, S) = EndsFor(S) /\ (EndsFor(S) # {} => S # {})
      BY <2>4 DEF Concerns, EndsFor
    <3>1. row' = row \/ (S # {} /\ row' = [row EXCEPT ![n] = [row[n] EXCEPT !.st = o]])
      BY <1>0, <2>4, <3>0 DEF ApplyCompactionEvent, IInv, ShapeInv
    <3> HIDE DEF o, n
    <3>2. \A k \in Keys : row'[k] = row[k] \/ (S # {} /\ k = n /\ row'[k] = [row[k] EXCEPT !.st = o])
      BY <3>1 DEF IInv, ShapeInv
    <3>3. row' = [k \in Keys |-> row'[k]]
      BY <3>1 DEF IInv, ShapeInv
    <3>4. \A k \in Keys : row'[k] \in Rows /\ (row'[k] = row[k] \/ (S # {} /\ k = n /\ row'[k].st = o))
      BY <3>2, <2>2, Fields DEF IInv
    <3> QED
      BY <2>4, <3>3, <3>4 DEF o, n
  <2> QED
    BY <1>3, <2>3, <2>4
<1> HIDE DEF e
<1>8. RowInv'
  <2> SUFFICES ASSUME NEW k \in Keys, k \notin crossed'
               PROVE  (row'[k].st = "confirmed" => k \in ran) /\ (row'[k].st = "rejected" => Dead(k))
    BY <1>1, <1>5 DEF RowInv
  <2>1. k \notin crossed
    BY <1>0
  <2>2. CASE row'[k] = row[k]
    BY <2>1, <2>2 DEF IInv, RowInv
  <2>3. CASE e.type = "start" /\ row'[k].st = "started"
    BY <2>3
  <2>4. CASE e.type = "complete" /\ k = Newest(EndsFor(S)) /\ S # {} /\ row'[k].st = IF e.ok THEN "confirmed" ELSE "rejected"
    <3>1. e.key = k
      BY <1>0, <2>4
    <3>2. IF e.ok THEN k \in ran ELSE Dead(k)
      BY <1>4, <2>4, <3>1
    <3> QED
      BY <2>4, <3>2
  <2> QED
    BY <1>7, <2>2, <2>3, <2>4
<1>9. EventInv'
  <2> SUFFICES ASSUME NEW i \in 1..Len(Tail(net)), NEW k \in Keys, Tail(net)[i].type = "complete", Tail(net)[i].key = k
               PROVE  IF Tail(net)[i].ok THEN k \in ran ELSE Dead(k)
    BY <1>1, <1>5 DEF EventInv
  <2>1. i + 1 \in 1..Len(net) /\ Tail(net)[i] = net[i + 1]
    BY <1>2
  <2> QED
    BY <2>1 DEF IInv, EventInv
<1>10. MailInv' /\ CallInv' /\ LeaseInv' /\ TryInv'
  BY <1>1, <1>6, LeasesKept DEF IInv, MailInv, CallInv, TryInv
<1>11. OutcomeInv'
  BY <1>1 DEF IInv, OutcomeInv, Dead
<1>12. ShapeInv'
  BY <1>1, <1>2, <1>7 DEF IInv, ShapeInv
<1> QED
  BY <1>8, <1>9, <1>10, <1>11, <1>12 DEF IInv

(* A crash: what was open is unknown, and nobody waits or holds anything any more. *)
LEMMA NextCrash == ASSUME IInv, crash PROVE IInv'
<1>1. /\ kept' = {} /\ sel' = {} /\ call' = [c \in Callers |-> Free] /\ mbox' = <<>> /\ step' = "idle" /\ st' = "down"
      /\ op' = [k \in Keys |-> IF op[k] = "open" THEN "unknown" ELSE op[k]]
      /\ work' \in {work, {}} /\ UNCHANGED <<kind, ran, tries, crossed>>
  BY DEF crash, Histories
<1>3. /\ fleet' \in [Keys -> FleetRows]
      /\ \A k \in Keys : fleet'[k].lease = FALSE /\ fleet'[k].sub \notin Live /\ (fleet'[k].sub \in Ended => fleet[k].sub \in Ended)
  <2> DEFINE sub(k) == CASE fleet[k].sub = "submitting" -> "submitted_unknown"
                         [] fleet[k].sub \in Live \cup {"submitted_unknown"} -> "outcome_unknown"
                         [] OTHER -> fleet[k].sub
  <2>1. \A k \in Keys : sub(k) \in FleetStates /\ sub(k) \notin Live /\ (sub(k) \in Ended => fleet[k].sub \in Ended)
    <3> SUFFICES ASSUME NEW k \in Keys PROVE sub(k) \in FleetStates /\ sub(k) \notin Live /\ (sub(k) \in Ended => fleet[k].sub \in Ended)
      OBVIOUS
    <3>1. fleet[k].sub \in FleetStates
      BY Fields DEF IInv
    <3> QED
      BY <3>1 DEF FleetStates, Live, Ended
  <2>2. fleet' = [k \in Keys |-> [sub |-> sub(k), lease |-> FALSE]]
    BY DEF crash
  <2> HIDE DEF sub
  <2>3. \A k \in Keys : fleet'[k] = [sub |-> sub(k), lease |-> FALSE]
    BY <2>2
  <2>4. fleet' \in [Keys -> FleetRows]
    BY <2>1, <2>2 DEF FleetRows
  <2> QED
    BY <2>1, <2>3, <2>4
<1>r. row' \in [Keys -> Rows] /\ (\A k \in Keys : row'[k].st = row[k].st)
  <2>1. row' = [k \in Keys |-> [row[k] EXCEPT !.old = row[k].st # None]]
    BY DEF crash
  <2>2. \A k \in Keys : row[k] \in Rows
    BY Fields DEF IInv
  <2>3. \A r \in Rows : [r EXCEPT !.old = r.st # None] \in Rows /\ [r EXCEPT !.old = r.st # None].st = r.st
    BY DEF Rows
  <2> QED
    BY <2>1, <2>2, <2>3
<1>4. Free \in Calls /\ Free.pc = "idle"
  BY DEF Free, Calls, CallStages
<1>5. call' \in [Callers -> Calls] /\ (\A c \in Callers : call'[c].pc = "idle")
  BY <1>1, <1>4
<1>6. op' \in [Keys -> OpStates] /\ (\A k \in Keys : op'[k] # "open" /\ (op[k] # "open" => op'[k] = op[k]) /\ (op[k] = "open" => op'[k] = "unknown"))
  BY <1>1 DEF IInv, ShapeInv, OpStates, Outcomes
<1>7. \A k \in Keys : Dead(k) => Dead(k)'
  BY <1>1, <1>6 DEF Dead
<1>8. Grows
  BY <1>1, <1>7 DEF Grows
<1>9. net' \in Seq(Events) /\ EventInv' /\ (net = <<>> => net' = <<>>)
  <2> DEFINE a == [i \in 1..Len(net) |-> {}]
  <2>1. DOMAIN net = 1..Len(net)
    BY DEF IInv, ShapeInv
  <2>2. a \in [1..Len(net) -> SUBSET Keys] /\ (\A i \in 1..Len(net) : a[i] = {})
    OBVIOUS
  <2>3. net' = [i \in 1..Len(net) |-> [net[i] EXCEPT !.ahead = {}]]
    BY <2>1 DEF crash
  <2> HIDE DEF a
  <2>4. net' = [i \in 1..Len(net) |-> [net[i] EXCEPT !.ahead = a[i]]]
    BY <2>2, <2>3
  <2> QED
    BY <1>8, <2>2, <2>4, EventsMarked
<1>s. RowInv'
  <2> SUFFICES ASSUME NEW k \in Keys, k \notin crossed
               PROVE  (row'[k].st = "confirmed" => k \in ran) /\ (row'[k].st = "rejected" => Dead(k)')
    BY <1>1 DEF RowInv
  <2> QED
    BY <1>7, <1>r DEF IInv, RowInv
<1>10. ShapeInv'
  <2>1. mbox' \in Seq(Keys) /\ step' \in Steps
    BY <1>1 DEF Steps
  <2> QED
    BY <1>1, <1>3, <1>5, <1>6, <1>9, <1>r, <2>1 DEF IInv, ShapeInv
<1>11. MailInv'
  <2>1. Len(mbox') = 0
    BY <1>1
  <2>2. kind # "compact" => net = <<>> /\ work = {}
    BY DEF IInv, MailInv
  <2> QED
    BY <1>1, <1>6, <1>9, <2>1, <2>2 DEF MailInv
<1>12. TryInv'
  <2>1. Len(mbox') = 0
    BY <1>1
  <2>2. \A k \in Keys : /\ tries[k] = 0 \/ tries[k] = 1
                        /\ op'[k] = None => tries[k] = 0
                        /\ tries[k] = 0 => k \notin ran /\ k \notin work'
                        /\ k \in work' => k \notin ran
    BY <1>1, <1>6 DEF IInv, TryInv, None
  <2> QED
    BY <1>1, <2>1, <2>2 DEF TryInv
<1>13. OutcomeInv'
  <2>1. \A k \in Keys : (op'[k] = "confirmed" => k \in ran) /\ (op'[k] = "rejected" => Dead(k)')
    BY <1>6, <1>7 DEF IInv, OutcomeInv
  <2> QED
    BY <1>1, <2>1 DEF OutcomeInv
<1>14. CallInv'
  BY <1>5 DEF CallInv
<1>15. LeaseInv'
  <2> SUFFICES ASSUME NEW k \in Keys PROVE LeaseOf(k)'
    BY DEF LeaseInv
  <2>1. fleet[k].sub \in Ended => op[k] = "confirmed"
    BY DEF IInv, LeaseInv, LeaseOf
  <2>2. fleet'[k].sub \in Ended => op'[k] = "confirmed"
    BY <1>3, <1>6, <2>1
  <2> QED
    BY <1>3, <2>2 DEF LeaseOf
<1> QED
  BY <1>9, <1>s, <1>10, <1>11, <1>12, <1>13, <1>14, <1>15 DEF IInv

-----------------------------------------------------------------------------
(* The theorems. *)

(* The initial state satisfies the invariant. *)
LEMMA InitIInv == ASSUME Init PROVE IInv
<1>1. LET r == [st |-> None, sub |-> FALSE, begun |-> FALSE, old |-> FALSE, at |-> 0] IN r \in Rows /\ r.st = None
  BY DEF Rows, RowStates, Ages
<1>2. [sub |-> None, lease |-> FALSE] \in FleetRows
  BY DEF FleetRows, FleetStates
<1>3. Free \in Calls /\ Free.pc = "idle"
  BY DEF Free, Calls, CallStages
<1>4. row \in [Keys -> Rows] /\ (\A k \in Keys : row[k].st = None)
  BY <1>1 DEF Init
<1>5. fleet \in [Keys -> FleetRows] /\ (\A k \in Keys : fleet[k].lease = FALSE /\ fleet[k].sub = None)
  BY <1>2 DEF Init
<1>6. call \in [Callers -> Calls] /\ (\A c \in Callers : call[c].pc = "idle")
  BY <1>3 DEF Init
<1>7. op \in [Keys -> OpStates] /\ tries \in [Keys -> Nat] /\ mbox \in Seq(Keys) /\ net \in Seq(Events) /\ Len(mbox) = 0 /\ Len(net) = 0
  BY DEF Init, OpStates
<1>8. ShapeInv
  BY <1>4, <1>5, <1>6, <1>7 DEF ShapeInv, Init, Steps
<1>9. MailInv /\ TryInv /\ OutcomeInv
  BY <1>7 DEF Init, MailInv, TryInv, OutcomeInv, None
<1>10. EventInv /\ CallInv /\ RowInv
  BY <1>4, <1>6, <1>7 DEF EventInv, CallInv, RowInv, None
<1>11. LeaseInv
  BY <1>5 DEF LeaseInv, LeaseOf, Live, Ended, None
<1> QED
  BY <1>8, <1>9, <1>10, <1>11 DEF IInv

(* Every step keeps the invariant. *)
LEMMA NextIInv == ASSUME IInv, [Next]_vars PROVE IInv'
<1>1. ASSUME NEW c \in Callers,
             \/ invoke_native_command(c) \/ continue_native_command(c) \/ ask_ephemeral(c) \/ compact(c) \/ start_fleet(c) \/ task_action(c)
      PROVE  IInv'
  <2>1. \E k \in Keys, p \in Keys \cup {0} : Begin(c, k, p)
    BY <1>1 DEF invoke_native_command, continue_native_command, ask_ephemeral, compact, start_fleet, task_action, IInv, ShapeInv
  <2> QED
    BY <2>1, NextBegin
<1>2. ASSUME NEW c \in Callers, submit(c) \/ settle(c) \/ use_selection(c) \/ send_prompt(c) PROVE IInv'
  BY <1>2, NextSubmit, NextSettle, NextUseSelection, NextSendPrompt
<1>3. CASE dispatch \/ rpc \/ compact_history \/ compact_times_out \/ compact_answered \/ deliver
  BY <1>3, NextDispatch, NextRpc, NextCompactHistory, NextCompactEnds, NextDeliver
<1>4. ASSUME NEW k \in Keys \cup {0}, SdkCompletes(k) PROVE IInv'
  BY <1>4, NextSdkCompletes
<1>5. ASSUME NEW k \in Keys, task_event(k) PROVE IInv'
  BY <1>5, NextTaskEvent
<1>8. CASE session_idle \/ settle_loop_idle
  BY <1>8, NextFleetIdle
<1>6. CASE SdkCompacts \/ reconcile_compaction \/ crash \/ resume \/ attached
  BY <1>6, NextSdkCompacts, NextAttach, NextCrash
<1>7. CASE UNCHANGED vars
  <2>1. UNCHANGED <<kind, op, kept, mbox, step, Sdk>> /\ UNCHANGED <<row, fleet, call, sel, st>>
    BY <1>7 DEF vars, Sdk
  <2>2. ShapeInv'
    BY <2>1 DEF IInv, ShapeInv, Sdk
  <2> QED
    BY <2>1, <2>2, MailboxKept DEF IInv
<1> QED
  BY <1>1, <1>2, <1>3, <1>4, <1>5, <1>6, <1>7, <1>8 DEF Next

(* The invariant holds in every reachable state. *)
THEOREM Invariance == Spec => []IInv
<1>1. Init => IInv
  BY InitIInv
<1>2. IInv /\ [Next]_vars => IInv'
  BY NextIInv
<1> QED
  BY <1>1, <1>2, PTL DEF Spec

(* Every variable keeps its type, and a caller that waits waits for an operation that the mailbox has. *)
THEOREM TypeCorrect == Spec => []TypeOK
<1>1. IInv => TypeOK
  <2> SUFFICES ASSUME IInv PROVE TypeOK
    OBVIOUS
  <2>1. \A k \in Keys : row[k].st \in {None, "pending", "started", "confirmed", "rejected", "unknown"}
    BY Fields DEF IInv, RowStates, Outcomes
  <2>2. \A c \in Callers : call[c].pc = "waiting" => InFlight(call[c].key)
    <3>1. DOMAIN mbox = 1..Len(mbox)
      BY DEF IInv, ShapeInv
    <3> QED
      BY <3>1 DEF IInv, CallInv, InFlight
  <2>3. op \in [Keys -> {None, "open", "confirmed", "rejected", "unknown"}]
    BY DEF IInv, ShapeInv, OpStates, Outcomes
  <2> QED
    BY <2>1, <2>2, <2>3 DEF TypeOK, IInv, ShapeInv, Steps
<1> QED
  BY <1>1, Invariance, PTL

(* The request of a key is sent once, however often and by whomever the key is called, before and after *)
(* restarts of the process. *)
THEOREM RequestsSentOnce == Spec => []SentOnce
<1>1. IInv => SentOnce
  BY DEF IInv, TryInv, SentOnce
<1> QED
  BY <1>1, Invariance, PTL

(* What the rows say is true through retries, lost answers, restarts and replays, unless the event of *)
(* another compaction settled them; and a Fleet run holds the session while its submission lives, with the *)
(* one exception that LeaseTrue states. *)
THEOREM RecordsAreTrue == Spec => []RecordsTrue
<1>1. IInv => RecordsTrue
  <2> SUFFICES ASSUME IInv PROVE RecordsTrue
    OBVIOUS
  <2>1. OutcomeTrue
    BY DEF IInv, RowInv, OutcomeTrue, Dead
  <2>2. LeaseTrue
    BY DEF IInv, LeaseInv, LeaseOf, OutcomeInv, LeaseTrue
  <2> QED
    BY <2>1, <2>2 DEF RecordsTrue
<1> QED
  BY <1>1, Invariance, PTL

-----------------------------------------------------------------------------
(* The outcome of a compaction is final. *)

(* With finitely many keys there is a newest one among those an event may be about. *)
LEMMA NewestIsOne ==
  ASSUME ShapeInv, IsFiniteSet(Keys), NEW S \in SUBSET Keys, S # {}
  PROVE  Newest(S) \in S
<1> DEFINE N == Cardinality(Keys)
           T == {N - row[k].at : k \in S}
<1>1. N \in Nat
  BY FS_CardinalityType
<1>2. \A a \in Ages : a \in Nat /\ a <= N
  <2> SUFFICES ASSUME NEW U \in SUBSET Keys PROVE Cardinality(U) \in Nat /\ Cardinality(U) <= N
    BY <1>1 DEF Ages
  <2>1. IsFiniteSet(U) /\ Cardinality(U) <= N
    BY FS_Subset
  <2> QED
    BY <2>1, FS_CardinalityType
<1>3. \A k \in S : row[k].at \in Nat /\ row[k].at <= N
  <2>1. \A r \in Rows : r.at \in Ages
    BY DEF Rows
  <2> QED
    BY <1>2, <2>1, Fields
<1> HIDE DEF N
<1>4. T \subseteq Nat /\ T # {}
  BY <1>1, <1>3
<1> HIDE DEF T
<1>5. PICK n \in T : \A m \in T : n <= m
  <2> DEFINE R == OpToRel(<, Nat)
  <2>1. IsWellFoundedOn(R, Nat)
    BY NatLessThanWellFounded
  <2>2. \A a, b \in Nat : a < b => <<a, b>> \in R
    BY DEF OpToRel
  <2> SUFFICES \E n \in T : \A m \in T : n <= m
    OBVIOUS
  <2> HIDE DEF R
  <2>3. PICK n \in T : \A m \in T : ~ (<<m, n>> \in R)
    BY <1>4, <2>1, WFMin
  <2>4. ASSUME NEW m \in T PROVE n <= m
    <3>1. n \in Nat /\ m \in Nat
      BY <1>4
    <3>2. ~ (m < n)
      BY <2>2, <2>3, <3>1
    <3> QED
      BY <3>1, <3>2
  <2> QED
    BY <2>4
<1> USE DEF T
<1>6. PICK k \in S : n = N - row[k].at
  OBVIOUS
<1>7. \A j \in S : row[j].at <= row[k].at
  <2> SUFFICES ASSUME NEW j \in S PROVE row[j].at <= row[k].at
    OBVIOUS
  <2>1. n <= N - row[j].at
    BY <1>5
  <2> QED
    BY <2>1, <1>1, <1>3, <1>6
<1> QED
  BY <1>7 DEF Newest

(* An event settles a compaction that is unresolved, or begins one that is not settled. *)
LEMMA EventsAreLate ==
  ASSUME ShapeInv, IsFiniteSet(Keys), deliver, NEW k \in Keys, row[k].st \in {"confirmed", "rejected"}
  PROVE  row'[k] = row[k]
<1> DEFINE e == Head(net)
<1>1. PICK S \in SUBSET Keys : After(e, S) /\ row' = ApplyCompactionEvent(e, S)
  BY DEF deliver
<1> HIDE DEF e
<1>2. S \subseteq Unresolved
  BY <1>1 DEF After
<1> DEFINE C == Concerns(e, S)
<1>3. C \subseteq Unresolved /\ C \in SUBSET Keys
  BY <1>2 DEF Concerns, StartsFor, EndsFor, Unresolved
<1>4. CASE C = {}
  BY <1>1, <1>4 DEF ApplyCompactionEvent
<1>5. CASE C # {}
  <2> DEFINE n == Newest(C)
  <2>1. n \in C
    BY <1>3, <1>5, NewestIsOne
  <2>2. n # k
    BY <1>3, <2>1 DEF Unresolved
  <2>3. \/ row' = [row EXCEPT ![n].st = "started", ![n].begun = TRUE, ![n].old = FALSE]
        \/ row' = [row EXCEPT ![n].st = IF e.ok THEN "confirmed" ELSE "rejected"]
    BY <1>1, <1>5 DEF ApplyCompactionEvent
  <2> HIDE DEF n
  <2> QED
    BY <2>2, <2>3 DEF ShapeInv
<1> QED
  BY <1>4, <1>5

(* A receipt, of a caller or of a reconciliation, leaves a known outcome alone. *)
LEMMA ReceiptsAreLate ==
  ASSUME ShapeInv, kind = "compact", NEW j \in Keys, NEW k \in Keys, NEW s \in Outcomes, row[k].st \in {"confirmed", "rejected"}
  PROVE  CompactionSettled(j, s)[k].st = row[k].st
<1>1. CASE j = k
  BY <1>1 DEF CompactionSettled
<1>2. CASE j # k
  BY <1>2 DEF CompactionSettled, ShapeInv
<1> QED
  BY <1>1, <1>2

(* A known outcome of a compaction stays, in whichever order receipts and events come. *)
LEMMA OutcomeStays ==
  ASSUME IInv, IsFiniteSet(Keys), Next, kind = "compact", NEW k \in Keys, row[k].st \in {"confirmed", "rejected"}
  PROVE  row'[k].st = row[k].st
<1>1. ASSUME NEW j \in Keys, NEW id, NEW s \in Outcomes, NEW b \in BOOLEAN, Receipt(j, id, s, b) PROVE row'[k].st = row[k].st
  <2>1. row' = row \/ row' = CompactionSettled(j, s)
    BY <1>1 DEF Receipt
  <2> QED
    BY <2>1, ReceiptsAreLate DEF IInv
<1>2. ASSUME NEW c \in Callers, settle(c) PROVE row'[k].st = row[k].st
  <2> DEFINE s == CASE call[c].pc = "ok" -> "confirmed" [] call[c].pc = "rej" -> "rejected" [] call[c].pc = "unk" -> "unknown"
  <2>1. call[c].pc \in {"ok", "rej", "unk"} /\ Receipt(call[c].key, s, s, FALSE)
    BY <1>2 DEF settle
  <2>2. s \in Outcomes
    BY <2>1 DEF Outcomes
  <2>3. call[c].key \in Keys
    BY <2>1 DEF IInv, CallInv
  <2> HIDE DEF s
  <2> QED
    BY <1>1, <2>1, <2>2, <2>3
<1>3. ASSUME NEW c \in Callers, send_prompt(c) PROVE row'[k].st = row[k].st
  <2>1. call[c].key \in Keys /\ "confirmed" \in Outcomes
    BY <1>3 DEF send_prompt, IInv, CallInv, Outcomes
  <2>2. CASE UNCHANGED row
    BY <2>2
  <2>3. CASE Receipt(call[c].key, "agent-submission", "confirmed", TRUE)
    BY <1>1, <2>1, <2>3
  <2> QED
    BY <1>3, <2>2, <2>3 DEF send_prompt
<1>4. CASE dispatch
  <2>1. CASE UNCHANGED row
    BY <2>1
  <2>2. CASE mbox # <<>> /\ row' = Pending(Head1)
    <3>1. Head1 \in Keys
      BY <2>2, AtHead
    <3>2. CASE Head1 = k
      BY <2>2, <3>2 DEF Pending, None
    <3>3. CASE Head1 # k
      BY <2>2, <3>1, <3>3 DEF Pending, IInv, ShapeInv
    <3> QED
      BY <3>2, <3>3
  <2> QED
    BY <1>4, <2>1, <2>2 DEF dispatch, Running
<1>5. CASE deliver
  BY <1>5, EventsAreLate DEF IInv
<1>6. ASSUME NEW basis, ReconcileUnresolved(basis) PROVE row'[k].st = row[k].st
  <2>1. row'[k] = row[k] \/ row'[k] = CompactionSettled(k, "unknown")[k]
    BY <1>6 DEF ReconcileUnresolved
  <2>2. "unknown" \in Outcomes
    BY DEF Outcomes
  <2> QED
    BY <2>1, <2>2, ReceiptsAreLate DEF IInv
<1>7. CASE reconcile_compaction \/ attached
  <2>1. ReconcileUnresolved("explicit") \/ ReconcileUnresolved("attach")
    BY <1>7 DEF reconcile_compaction, attached
  <2> QED
    BY <1>6, <2>1
<1>8. CASE UNCHANGED row
  BY <1>8
<1>9. CASE crash
  <2>1. row'[k] = [row[k] EXCEPT !.old = row[k].st # None]
    BY <1>9 DEF crash
  <2>2. row[k] \in Rows
    BY Fields DEF IInv
  <2> QED
    BY <2>1, <2>2 DEF Rows
<1> QED
  BY <1>2, <1>3, <1>4, <1>5, <1>7, <1>8, <1>9 DEF Next, invoke_native_command, continue_native_command, ask_ephemeral, compact,
     start_fleet, task_action, Begin, submit, use_selection, rpc, compact_history, compact_times_out, compact_answered,
     SdkCompletes, session_idle, settle_loop_idle, task_event, FleetUnchanged, SdkCompacts, resume

(* The outcome of a compaction is final: the receipts of callers and reconciliations and the events of the *)
(* SDK come in any order, and none of them changes an outcome that is known. *)
THEOREM CompactionsAreFinal == ASSUME IsFiniteSet(Keys) PROVE Spec => CompactionFinal
<1>1. IInv /\ [Next]_vars => [kind = "compact" => \A k \in Keys : row[k].st \in {"confirmed", "rejected"} => row'[k].st = row[k].st]_vars
  BY OutcomeStays
<1> QED
  BY <1>1, Invariance, PTL DEF Spec, CompactionFinal

-----------------------------------------------------------------------------
(* The submission of a command's prompt is kept. *)

(* A row that has a submission was confirmed before, and the journal has the receipt of it. *)
SubmissionInv ==
  /\ seen = [k \in Keys |-> seen[k]]
  /\ \A k \in Keys : row[k].sub => "confirmed" \in seen[k]
  /\ \A c \in Callers : call[c].pc = "prompt" => "confirmed" \in seen[call[c].key]

(* What a step may do to the submission of a row. *)
SubmissionStep(k) ==
  \/ row'[k].sub = row[k].sub
  \/ row'[k].sub = TRUE /\ "confirmed" \in seen[k]
  \/ row'[k].sub = FALSE /\ (row[k].sub => row'[k].st # "confirmed")
SubmissionSteps ==
  /\ seen' = [k \in Keys |-> seen'[k]]
  /\ \A k \in Keys : seen[k] \subseteq seen'[k] /\ SubmissionStep(k)

(* Updates of a row that leave the submission alone. *)
LEMMA SubmissionField ==
  ASSUME NEW r \in Rows, NEW s \in RowStates, NEW b \in BOOLEAN
  PROVE  /\ r.sub \in BOOLEAN
         /\ [r EXCEPT !.st = s].sub = r.sub
         /\ \A a : [r EXCEPT !.st = s, !.at = a].sub = r.sub
         /\ [r EXCEPT !.st = s, !.sub = b].sub = b /\ [r EXCEPT !.st = s, !.sub = b].st = s
BY DEF Rows

(* A receipt writes a submission only after the confirmation, and takes none away from a confirmed row: *)
(* the receipt of a confirmation that the journal has is dropped. *)
LEMMA ReceiptKeepsSubmission ==
  ASSUME IInv, SubmissionInv, NEW k \in Keys, NEW id, NEW s \in Outcomes, NEW b \in BOOLEAN, Receipt(k, id, s, b),
         IF b THEN "confirmed" \in seen[k] ELSE id = s
  PROVE  SubmissionSteps /\ id \in seen'[k]
<1>1. CASE id \in seen[k]
  <2>1. UNCHANGED <<row, seen>>
    BY <1>1 DEF Receipt
  <2> QED
    BY <1>1, <2>1 DEF SubmissionSteps, SubmissionStep, SubmissionInv
<1>2. CASE id \notin seen[k]
  <2>1. seen' = [seen EXCEPT ![k] = seen[k] \cup {id}]
    BY <1>2 DEF Receipt, SubmissionInv
  <2>2. /\ seen' = [j \in Keys |-> seen'[j]] /\ id \in seen'[k]
        /\ \A j \in Keys : seen[j] \subseteq seen'[j]
    BY <2>1 DEF SubmissionInv
  <2>3. \/ row' = row
        \/ row' = [row EXCEPT ![k] = [row[k] EXCEPT !.st = s, !.sub = b]]
        \/ row' = [row EXCEPT ![k] = [row[k] EXCEPT !.st = s]]
    <3>1. kind \in {"command", "ask", "compact", "fleet", "task"}
      BY NativeAssumption DEF IInv, ShapeInv
    <3>2. row' \in {CommandSettled(k, s, b), EphemeralSettled(k, s), CompactionSettled(k, s), FleetSettled(k, s), TaskSettled(k, s)}
      BY <1>2, <3>1 DEF Receipt
    <3> QED
      BY <3>2 DEF CommandSettled, EphemeralSettled, CompactionSettled, FleetSettled, TaskSettled, IInv, ShapeInv
  <2>4. row[k] \in Rows /\ s \in RowStates /\ row \in [Keys -> Rows]
    BY Fields DEF IInv, ShapeInv, RowStates
  <2>5. [row[k] EXCEPT !.st = s].sub = row[k].sub /\ [row[k] EXCEPT !.st = s, !.sub = b].sub = b /\ [row[k] EXCEPT !.st = s, !.sub = b].st = s
    BY <2>4, SubmissionField
  <2>6. \A j \in Keys : SubmissionStep(j)
    <3> SUFFICES ASSUME NEW j \in Keys PROVE SubmissionStep(j)
      OBVIOUS
    <3>1. CASE j # k \/ row' = row \/ row' = [row EXCEPT ![k] = [row[k] EXCEPT !.st = s]]
      BY <3>1, <2>3, <2>4, <2>5 DEF SubmissionStep
    <3>2. CASE j = k /\ row' = [row EXCEPT ![k] = [row[k] EXCEPT !.st = s, !.sub = b]]
      <4>1. row'[j].sub = b /\ row'[j].st = s
        BY <3>2, <2>4, <2>5
      <4>2. CASE b = TRUE
        BY <3>2, <4>1, <4>2 DEF SubmissionStep
      <4>3. CASE b = FALSE
        <5>1. row[k].sub => s # "confirmed"
          BY <4>3, <1>2 DEF SubmissionInv
        <5> QED
          BY <3>2, <4>1, <4>3, <5>1 DEF SubmissionStep
      <4> QED
        BY <4>2, <4>3
    <3> QED
      BY <3>1, <3>2, <2>3
  <2> QED
    BY <2>2, <2>6 DEF SubmissionSteps
<1> QED
  BY <1>1, <1>2

(* A step without a receipt leaves the submissions alone. *)
LEMMA OthersKeepSubmission ==
  ASSUME IInv, SubmissionInv,
         \/ UNCHANGED <<row, seen>>
         \/ dispatch \/ deliver \/ crash
         \/ \E basis \in {"explicit", "attach"} : ReconcileUnresolved(basis)
  PROVE  SubmissionSteps
<1>0. row \in [Keys -> Rows] /\ (\A k \in Keys : row[k] \in Rows) /\ RowStates # {}
      /\ {"pending", "started", "unknown", "confirmed", "rejected"} \subseteq RowStates
  BY Fields DEF IInv, ShapeInv, RowStates, Outcomes
<1>1. CASE UNCHANGED <<row, seen>>
  BY <1>1 DEF SubmissionSteps, SubmissionStep, SubmissionInv
<1>2. CASE dispatch
  <2>1. seen' = seen /\ (row' = row \/ row' = Pending(Head1)) /\ mbox # <<>>
    BY <1>2 DEF dispatch, Running
  <2>2. Head1 \in Keys
    BY <2>1, AtHead
  <2> DEFINE a == Cardinality({j \in Keys : row[j].st # None})
  <2>3. row' = row \/ row' = [row EXCEPT ![Head1] = [row[Head1] EXCEPT !.st = "pending", !.at = a]]
    BY <2>1 DEF Pending, IInv, ShapeInv
  <2> HIDE DEF a
  <2>4. [row[Head1] EXCEPT !.st = "pending", !.at = a].sub = row[Head1].sub
    BY <1>0, <2>2 DEF Rows
  <2>5. \A k \in Keys : row'[k].sub = row[k].sub
    BY <1>0, <2>3, <2>4
  <2> QED
    BY <2>1, <2>5 DEF SubmissionSteps, SubmissionStep, SubmissionInv
<1>3. CASE deliver
  <2> DEFINE e == Head(net)
             o == IF e.ok THEN "confirmed" ELSE "rejected"
  <2>0. PICK S \in SUBSET Keys : row' = ApplyCompactionEvent(e, S)
    BY <1>3 DEF deliver
  <2>1. seen' = seen
    BY <1>3 DEF deliver
  <2> DEFINE n == Newest(Concerns(e, S))
  <2>2. \/ row' = row
        \/ row' = [row EXCEPT ![n] = [row[n] EXCEPT !.st = "started", !.begun = TRUE, !.old = FALSE]]
        \/ row' = [row EXCEPT ![n] = [row[n] EXCEPT !.st = o]]
    BY <2>0 DEF ApplyCompactionEvent, IInv, ShapeInv
  <2>3. o \in RowStates
    BY <1>0
  <2> HIDE DEF o, n
  <2>4. \A k \in Keys : /\ [row[k] EXCEPT !.st = o].sub = row[k].sub
                        /\ [row[k] EXCEPT !.st = "started", !.begun = TRUE, !.old = FALSE].sub = row[k].sub
    BY <1>0, <2>3 DEF Rows
  <2>5. \A k \in Keys : row'[k].sub = row[k].sub
    BY <1>0, <2>2, <2>4
  <2> QED
    BY <2>1, <2>5 DEF SubmissionSteps, SubmissionStep, SubmissionInv
<1>4. ASSUME NEW basis \in {"explicit", "attach"}, ReconcileUnresolved(basis) PROVE SubmissionSteps
  <2>1. \A k \in Keys : row'[k] = row[k] \/ row'[k] = CompactionSettled(k, "unknown")[k]
    BY <1>4 DEF ReconcileUnresolved
  <2>2. \A k \in Keys : CompactionSettled(k, "unknown")[k] \in {row[k], [row[k] EXCEPT !.st = "unknown"]}
    BY DEF CompactionSettled, IInv, ShapeInv
  <2>3. \A k \in Keys : [row[k] EXCEPT !.st = "unknown"].sub = row[k].sub
    BY <1>0 DEF Rows
  <2>4. \A k \in Keys : row'[k].sub = row[k].sub
    BY <2>1, <2>2, <2>3
  <2>5. seen' = [k \in Keys |-> seen'[k]] /\ (\A k \in Keys : seen[k] \subseteq seen'[k])
    BY <1>4 DEF ReconcileUnresolved
  <2> QED
    BY <2>4, <2>5 DEF SubmissionSteps, SubmissionStep
<1>5. CASE crash
  <2>1. seen' = seen /\ row' = [k \in Keys |-> [row[k] EXCEPT !.old = row[k].st # None]]
    BY <1>5 DEF crash
  <2>2. \A k \in Keys : row'[k].sub = row[k].sub
    BY <1>0, <2>1 DEF Rows
  <2> QED
    BY <2>1, <2>2 DEF SubmissionSteps, SubmissionStep, SubmissionInv
<1> QED
  BY <1>1, <1>2, <1>3, <1>4, <1>5

(* Every step keeps the submissions, and a caller with a prompt in hand has committed the confirmation. *)
LEMMA NextSubmission ==
  ASSUME IInv, SubmissionInv, [Next]_vars
  PROVE  SubmissionSteps /\ SubmissionInv'
<1>0. ASSUME SubmissionSteps,
             \A c \in Callers : call'[c].pc = "prompt" =>
               \/ call[c].pc = "prompt" /\ call'[c].key = call[c].key
               \/ call'[c].key \in Keys /\ "confirmed" \in seen'[call'[c].key]
      PROVE  SubmissionSteps /\ SubmissionInv'
  <2>1. \A k \in Keys : row'[k].sub => "confirmed" \in seen'[k]
    BY <1>0 DEF SubmissionSteps, SubmissionStep, SubmissionInv
  <2>2. \A c \in Callers : call'[c].pc = "prompt" => "confirmed" \in seen'[call'[c].key]
    <3> SUFFICES ASSUME NEW c \in Callers, call'[c].pc = "prompt" PROVE "confirmed" \in seen'[call'[c].key]
      OBVIOUS
    <3>1. CASE call[c].pc = "prompt" /\ call'[c].key = call[c].key
      <4>1. call[c].key \in Keys /\ "confirmed" \in seen[call[c].key]
        BY <3>1 DEF IInv, CallInv, SubmissionInv
      <4> QED
        BY <3>1, <4>1, <1>0 DEF SubmissionSteps
    <3> QED
      BY <3>1, <1>0
  <2> QED
    BY <1>0, <2>1, <2>2 DEF SubmissionInv, SubmissionSteps
<1>1. CASE UNCHANGED call
  <2>1. SubmissionSteps
    <3>1. \/ UNCHANGED <<row, seen>> \/ dispatch \/ deliver \/ crash
          \/ \E basis \in {"explicit", "attach"} : ReconcileUnresolved(basis)
          \/ \E c \in Callers : settle(c) \/ send_prompt(c)
      BY DEF Next, vars, invoke_native_command, continue_native_command, ask_ephemeral, compact, start_fleet, task_action,
         Begin, submit, use_selection, rpc, compact_history, compact_times_out, compact_answered, SdkCompletes, session_idle,
         settle_loop_idle, task_event, FleetUnchanged, SdkCompacts, resume, reconcile_compaction, attached
    <3>2. ASSUME NEW c \in Callers, settle(c) \/ send_prompt(c) PROVE FALSE
      <4>1. \E p \in {"idle", "chosen", "prompt"} : To(c, p) /\ (p = "prompt" => call[c].pc = "ok") /\ call[c].pc \in {"ok", "rej", "unk", "prompt"}
        BY <3>2 DEF settle, send_prompt
      <4>2. PICK p \in {"idle", "chosen", "prompt"} : To(c, p) /\ (p = "prompt" => call[c].pc = "ok") /\ call[c].pc \in {"ok", "rej", "unk", "prompt"}
        BY <4>1
      <4>3. p \in CallStages
        BY DEF CallStages
      <4>4. call'[c].pc = p
        BY <4>2, <4>3, ToEffect DEF IInv
      <4> QED
        BY <1>1, <4>2, <4>4
    <3> QED
      BY <3>1, <3>2, OthersKeepSubmission
  <2> QED
    BY <1>0, <1>1, <2>1
<1>2. ASSUME NEW c \in Callers, settle(c) PROVE SubmissionSteps /\ SubmissionInv'
  <2> DEFINE k == call[c].key
             s == CASE call[c].pc = "ok" -> "confirmed" [] call[c].pc = "rej" -> "rejected" [] call[c].pc = "unk" -> "unknown"
             p == IF s = "confirmed" /\ kind = "command"
                  THEN (IF call[c].parent # 0 THEN "chosen" ELSE IF res[k] = "prompt" THEN "prompt" ELSE "idle") ELSE "idle"
  <2>1. Receipt(k, s, s, FALSE) /\ To(c, p) /\ call[c].pc \in {"ok", "rej", "unk"}
    BY <1>2 DEF settle
  <2>2. s \in Outcomes
    BY <2>1 DEF Outcomes
  <2>3. p \in {"idle", "chosen", "prompt"} /\ (p = "prompt" => s = "confirmed")
    OBVIOUS
  <2> HIDE DEF s, p
  <2>4. k \in Keys
    BY <2>1 DEF IInv, CallInv
  <2>5. SubmissionSteps /\ s \in seen'[k]
    BY <2>1, <2>2, <2>4, ReceiptKeepsSubmission
  <2>6. call'[c].pc = p /\ call'[c].key = k /\ (\A d \in Callers : d # c => call'[d] = call[d])
    BY <2>1, <2>3, ToEffect DEF CallStages, IInv
  <2>7. \A d \in Callers : call'[d].pc = "prompt" =>
               \/ call[d].pc = "prompt" /\ call'[d].key = call[d].key
               \/ call'[d].key \in Keys /\ "confirmed" \in seen'[call'[d].key]
    BY <2>3, <2>4, <2>5, <2>6
  <2> QED
    BY <1>0, <2>5, <2>7
<1>3. ASSUME NEW c \in Callers, send_prompt(c) PROVE SubmissionSteps /\ SubmissionInv'
  <2>1. call[c].key \in Keys /\ "confirmed" \in seen[call[c].key] /\ "confirmed" \in Outcomes
    BY <1>3 DEF send_prompt, IInv, CallInv, SubmissionInv, Outcomes
  <2>2. SubmissionSteps
    <3>1. CASE UNCHANGED <<row, seen, fleet, sel>>
      BY <3>1, OthersKeepSubmission
    <3>2. CASE Receipt(call[c].key, "agent-submission", "confirmed", TRUE)
      BY <2>1, <3>2, ReceiptKeepsSubmission
    <3> QED
      BY <1>3, <3>1, <3>2 DEF send_prompt
  <2>3. call'[c].pc = "idle" /\ (\A d \in Callers : d # c => call'[d] = call[d])
    BY <1>3, ToEffect DEF send_prompt, CallStages, IInv
  <2> QED
    BY <1>0, <2>2, <2>3
<1>4. ASSUME NEW c \in Callers,
             \/ invoke_native_command(c) \/ continue_native_command(c) \/ ask_ephemeral(c) \/ compact(c) \/ start_fleet(c)
             \/ task_action(c) \/ submit(c) \/ use_selection(c)
      PROVE  SubmissionSteps /\ SubmissionInv'
  <2>1. UNCHANGED <<row, seen>>
    BY <1>4 DEF invoke_native_command, continue_native_command, ask_ephemeral, compact, start_fleet, task_action,
         Begin, submit, use_selection
  <2>2. SubmissionSteps
    BY <2>1, OthersKeepSubmission
  <2>3. call'[c].pc # "prompt" /\ (\A d \in Callers : d # c => call'[d] = call[d])
    <3>1. CASE submit(c) \/ use_selection(c)
      <4>1. \E p \in CallStages \ {"prompt"} : To(c, p)
        <5>1. Replayed(call[c].key) \in CallStages \ {"prompt"}
          BY DEF Replayed, CallStages
        <5>2. "waiting" \in CallStages \ {"prompt"} /\ "idle" \in CallStages \ {"prompt"}
          BY DEF CallStages
        <5> QED
          BY <3>1, <5>1, <5>2 DEF submit, use_selection
      <4> QED
        BY <4>1, ToEffect DEF IInv
    <3>2. CASE \E k, q : Begin(c, k, q)
      BY <3>2 DEF Begin, IInv, ShapeInv
    <3> QED
      BY <1>4, <3>1, <3>2 DEF invoke_native_command, continue_native_command, ask_ephemeral, compact, start_fleet, task_action
  <2> QED
    BY <1>0, <2>2, <2>3
<1>5. ASSUME NEW s \in Outcomes, mbox # <<>>, Finish(s), UNCHANGED <<row, seen>> PROVE SubmissionSteps /\ SubmissionInv'
  <2>1. SubmissionSteps
    BY <1>5, OthersKeepSubmission
  <2>2. \A c \in Callers : call'[c].pc = "prompt" => call[c].pc = "prompt" /\ call'[c].key = call[c].key
    <3> SUFFICES ASSUME NEW c \in Callers, call'[c].pc = "prompt" PROVE call[c].pc = "prompt" /\ call'[c].key = call[c].key
      OBVIOUS
    <3>1. /\ call'[c].key = call[c].key
          /\ IF call[c].pc = "waiting" /\ call[c].key = Head1
             THEN call'[c].pc = CASE s = "confirmed" -> "ok" [] s = "rejected" -> "rej" [] s = "unknown" -> "unk"
             ELSE call'[c].pc = call[c].pc
      BY <1>5, FinishEffect
    <3> QED
      BY <3>1 DEF Outcomes
  <2> QED
    BY <1>0, <2>1, <2>2
<1>6. CASE crash
  <2>1. \A c \in Callers : call'[c] = Free
    BY <1>6 DEF crash
  <2>2. SubmissionSteps
    BY <1>6, OthersKeepSubmission
  <2>3. Free.pc # "prompt"
    BY DEF Free
  <2> QED
    BY <1>0, <2>1, <2>2, <2>3
<1>7. CASE dispatch \/ rpc \/ compact_history \/ compact_times_out \/ compact_answered
  <2>1. UNCHANGED call \/ \E s \in Outcomes : mbox # <<>> /\ Finish(s) /\ UNCHANGED <<row, seen>>
    BY <1>7 DEF dispatch, rpc, compact_history, compact_times_out, compact_answered, Running, Outcomes
  <2> QED
    BY <2>1, <1>1, <1>5
<1>8. CASE deliver \/ SdkCompacts \/ reconcile_compaction \/ resume \/ attached \/ UNCHANGED vars
           \/ (\E k \in Keys \cup {0} : SdkCompletes(k)) \/ session_idle \/ settle_loop_idle \/ (\E k \in Keys : task_event(k))
  <2>1. UNCHANGED call
    BY <1>8 DEF deliver, SdkCompacts, reconcile_compaction, resume, attached, SdkCompletes, session_idle, settle_loop_idle,
       task_event, FleetUnchanged, vars
  <2> QED
    BY <1>1, <2>1
<1> QED
  BY <1>2, <1>3, <1>4, <1>6, <1>7, <1>8 DEF Next

(* A command that stays confirmed keeps the submission of its prompt, through replays of its key and the *)
(* receipts of other callers. *)
THEOREM SubmissionsAreKept == Spec => SubmissionKept
<1>1. Init => IInv /\ SubmissionInv
  <2> SUFFICES ASSUME Init PROVE IInv /\ SubmissionInv
    OBVIOUS
  <2>1. seen = [k \in Keys |-> seen[k]] /\ (\A k \in Keys : row[k].sub = FALSE)
    BY DEF Init
  <2>2. \A c \in Callers : call[c].pc # "prompt"
    BY DEF Init, Free
  <2> QED
    BY <2>1, <2>2, InitIInv DEF SubmissionInv
<1>2. IInv /\ SubmissionInv /\ [Next]_vars => IInv' /\ SubmissionInv'
  BY NextIInv, NextSubmission
<1>3. IInv /\ SubmissionInv /\ [Next]_vars => [\A k \in Keys : row[k].sub /\ row'[k].st = "confirmed" => row'[k].sub]_vars
  BY NextSubmission DEF SubmissionSteps, SubmissionStep
<1> QED
  BY <1>1, <1>2, <1>3, PTL DEF Spec, SubmissionKept
====
