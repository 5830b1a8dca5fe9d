------------------------- MODULE ReducerInboxProofs -------------------------
(***************************************************************************)
(* Proofs about ReducerInbox: no slot and no receipt disappears, SDK       *)
(* events are journaled in the order they came in, and what                *)
(* commit_internal reports is true.                                        *)
(*                                                                         *)
(* The argument follows a number from _reserve to the journal.  It is held *)
(* by one producer, then stands in one of three sequences (the callbacks   *)
(* of the loop, the queue, the worker's batch), then in the journal.  Any  *)
(* two positions of that line carry different numbers, and the numbers of  *)
(* SDK events grow along it, because one thread at a time is inside the    *)
(* ingress.  The line is kept as four sequences of numbers, so that a step *)
(* of the program is a step of at most two of them.                        *)
(***************************************************************************)
EXTENDS ReducerInbox, TLAPS, SequenceTheorems, FiniteSetTheorems, FunctionTheorems

---------------------------------------------------------------------------
(* The inductive invariant.                                                *)

Producers == Coroutines \cup SdkThreads
AnyEnvelope == [from : Producers \cup {NoOne}, seq : Nat]
Callbacks == [run : {"put", "clear", "overflow"}, env : AnyEnvelope]

\* A callback that puts an envelope names its producer; any other one carries 0.
CallbackOK(cb) ==
    /\ cb.run = "put" => cb.env \in Envelopes /\ cb.env.seq # 0
    /\ cb.run # "put" => cb.env.seq = 0

Stages == {"idle", "joining", "waiting", "woken", "reserved", "acking", "posted",
           "dropped", "committed", "failed", "committedCancel", "refused",
           "cancelled", "closing", "closed"}

\* The variables have their types.
Types ==
    /\ outstanding \in Nat /\ nextSeq \in Nat /\ lost \in Nat
    /\ incidents \in Nat /\ delivered \in Nat
    /\ space \in BOOLEAN /\ closed \in BOOLEAN /\ sdkClosed \in BOOLEAN
    /\ overflowed \in BOOLEAN /\ cancelling \in BOOLEAN /\ stopping \in BOOLEAN
    /\ bound \in BOOLEAN
    /\ ready \in Seq(Callbacks)
    /\ \A i \in 1..Len(ready) : CallbackOK(ready[i])
    /\ queue \in Seq(Envelopes) /\ batch \in Seq(Envelopes)
    /\ reducer \in {"get", "validating", "adapting", "persisted", "stopped", "dead"}
    /\ loop \in Coroutines \cup {NoOne}
    /\ pc \in [Coroutines -> Stages]
    /\ seqOf \in [Producers -> Nat]
    /\ sdk \in [SdkThreads -> {"idle", "checked", "reserved"}]
    /\ ingress \in SdkThreads \cup {NoOne}
    /\ reduced \in Seq(Nat)
    /\ sdkSeqs \subseteq 1..nextSeq

\* Who is between a reservation and its call_soon: the thread in the ingress and
\* the coroutine the loop runs.  A worker that holds no batch holds none.
Locks ==
    /\ \A t \in SdkThreads : sdk[t] # "idle" <=> ingress = t
    /\ \A p \in Coroutines : pc[p] = "reserved" <=> loop = p
    /\ reducer \in {"get", "stopped", "dead"} => batch = <<>>

\* The slots in use, counted by who holds them.
ThreadSlot == IF \E t \in SdkThreads : sdk[t] = "reserved" THEN 1 ELSE 0
LoopSlot == IF loop = NoOne THEN 0 ELSE 1
Slots ==
    /\ outstanding = Cardinality(Puts) + Len(queue) + Len(batch) + ThreadSlot + LoopSlot
    /\ outstanding <= Capacity

\* m stands before n in the line, where S are the numbers of SDK events.
Before(m, n, S) ==
    /\ m # 0 /\ n # 0 => m # n
    /\ m \in S /\ n \in S => m < n
Sorted(s, S) == \A i, j \in 1..Len(s) : i < j => Before(s[i], s[j], S)
Ahead(s, t, S) == \A i \in 1..Len(s), j \in 1..Len(t) : Before(s[i], t[j], S)
Below(s, n, S) == \A i \in 1..Len(s) : Before(s[i], n, S)
UpTo(s, n) == \A i \in 1..Len(s) : s[i] <= n
Nums(cbs) == [i \in DOMAIN cbs |-> cbs[i].env.seq]

\* J, B, Q, R: the journal, the batch, the queue and the callbacks.  A batch that
\* is persisted is in the journal already (P).
Pipe(J, B, Q, R, S, N, P) ==
    /\ UpTo(J, N) /\ UpTo(B, N) /\ UpTo(Q, N) /\ UpTo(R, N)
    /\ Sorted(J, S) /\ Sorted(B, S) /\ Sorted(Q, S) /\ Sorted(R, S)
    /\ ~P => Ahead(J, B, S)
    /\ Ahead(J, Q, S) /\ Ahead(J, R, S) /\ Ahead(B, Q, S) /\ Ahead(B, R, S)
    /\ Ahead(Q, R, S)
\* Every number in the line stands before n.
Fresh(J, B, Q, R, S, n) ==
    Below(J, n, S) /\ Below(B, n, S) /\ Below(Q, n, S) /\ Below(R, n, S)

Order == Pipe(reduced, Seqs(batch), Seqs(queue), Nums(ready), sdkSeqs, nextSeq,
              reducer = "persisted")

\* A number held by a producer is yet to enter the line.
Held(n) == /\ n \in 1..nextSeq
           /\ Fresh(reduced, Seqs(batch), Seqs(queue), Nums(ready), sdkSeqs, n)
Holders ==
    /\ \A t \in SdkThreads :
         sdk[t] = "reserved" => Held(seqOf[t]) /\ seqOf[t] \in sdkSeqs
    /\ \A p \in Coroutines : loop = p => Held(seqOf[p]) /\ seqOf[p] \notin sdkSeqs

\* An envelope of a coroutine carries its number, and the coroutine has no answer.
Flying(e, at, nums) ==
    /\ e.seq # 0
    /\ e.from \in Coroutines =>
         e.seq = nums[e.from] /\ at[e.from] \in {"acking", "posted"}
EnvsFly(envs, at, nums) == \A i \in 1..Len(envs) : Flying(envs[i], at, nums)
PutsFly(cbs, at, nums) ==
    \A i \in 1..Len(cbs) : cbs[i].run = "put" => Flying(cbs[i].env, at, nums)
InFlight == EnvsFly(batch, pc, seqOf) /\ EnvsFly(queue, pc, seqOf) /\ PutsFly(ready, pc, seqOf)

\* A persisted batch is journaled, a success was journaled, an error came from a
\* worker that is dead and was not.
Reports ==
    /\ reducer = "persisted" /\ bound =>
         \A i \in 1..Len(batch) : Contains(reduced, batch[i].seq)
    /\ \A p \in Waiters :
         /\ pc[p] = "committed" /\ bound => Contains(reduced, seqOf[p])
         /\ pc[p] = "failed" => reducer = "dead" /\ ~Contains(reduced, seqOf[p])

IInv == /\ Types /\ Locks /\ Slots /\ NothingVanishes
        /\ Order /\ Holders /\ InFlight /\ Reports

---------------------------------------------------------------------------
(* Facts about sequences.                                                  *)

\* The numbers of a sequence of envelopes.
LEMMA SeqsOK ==
  ASSUME NEW q \in Seq(Envelopes)
  PROVE  /\ Seqs(q) \in Seq(Nat)
         /\ Len(Seqs(q)) = Len(q)
         /\ \A i \in 1..Len(q) : Seqs(q)[i] = q[i].seq
  <1>1. PICK n \in Nat : n = Len(q) /\ DOMAIN q = 1..n /\ \A i \in 1..n : q[i] \in Envelopes
    BY LenProperties
  <1>2. \A i \in 1..n : q[i].seq \in Nat
    BY <1>1 DEF Envelopes
  <1>3. Seqs(q) = [i \in 1..n |-> q[i].seq]
    BY <1>1 DEF Seqs
  <1>4. Seqs(q) \in [1..n -> Nat] /\ DOMAIN Seqs(q) = 1..n
    BY <1>2, <1>3
  <1>5. Seqs(q) \in Seq(Nat)
    BY <1>4
  <1>6. Len(Seqs(q)) = n
    BY <1>4, <1>5, LenProperties
  <1> QED BY <1>1, <1>3, <1>5, <1>6

\* The numbers of a sequence of callbacks.
LEMMA NumsOK ==
  ASSUME NEW q \in Seq(Callbacks)
  PROVE  /\ Nums(q) \in Seq(Nat)
         /\ Len(Nums(q)) = Len(q)
         /\ \A i \in 1..Len(q) : Nums(q)[i] = q[i].env.seq
  <1>1. PICK n \in Nat : n = Len(q) /\ DOMAIN q = 1..n /\ \A i \in 1..n : q[i] \in Callbacks
    BY LenProperties
  <1>2. \A i \in 1..n : q[i].env.seq \in Nat
    BY <1>1 DEF Callbacks, AnyEnvelope
  <1>3. Nums(q) = [i \in 1..n |-> q[i].env.seq]
    BY <1>1 DEF Nums
  <1>4. Nums(q) \in [1..n -> Nat] /\ DOMAIN Nums(q) = 1..n
    BY <1>2, <1>3
  <1>5. Nums(q) \in Seq(Nat)
    BY <1>4
  <1>6. Len(Nums(q)) = n
    BY <1>4, <1>5, LenProperties
  <1> QED BY <1>1, <1>3, <1>5, <1>6

LEMMA SeqsAppend ==
  ASSUME NEW q \in Seq(Envelopes), NEW e \in Envelopes
  PROVE  Seqs(Append(q, e)) = Append(Seqs(q), e.seq)
  <1>0. Len(q) \in Nat
    BY LenProperties
  <1>1. Append(q, e) \in Seq(Envelopes) /\ Len(Append(q, e)) = Len(q) + 1 /\ Len(q) \in Nat
    BY AppendProperties, LenProperties
  <1>2. e.seq \in Nat
    BY DEF Envelopes
  <1>3. /\ Append(Seqs(q), e.seq) \in Seq(Nat)
        /\ Len(Append(Seqs(q), e.seq)) = Len(q) + 1
    BY <1>2, SeqsOK, AppendProperties
  <1>4. \A i \in 1..(Len(q) + 1) : Seqs(Append(q, e))[i] = Append(Seqs(q), e.seq)[i]
    <2> TAKE i \in 1..(Len(q) + 1)
    <2>1. Seqs(Append(q, e))[i] = Append(q, e)[i].seq
      BY <1>1, SeqsOK
    <2>2. CASE i = Len(q) + 1
      BY <2>1, <2>2, <1>1, <1>2, SeqsOK, AppendProperties
    <2>3. CASE i \in 1..Len(q)
      BY <2>1, <2>3, <1>1, <1>2, SeqsOK, AppendProperties
    <2>4. i = Len(q) + 1 \/ i \in 1..Len(q)
      BY <1>0
    <2> QED BY <2>2, <2>3, <2>4
  <1>5. Seqs(Append(q, e)) \in Seq(Nat) /\ Len(Seqs(Append(q, e))) = Len(q) + 1
    BY <1>1, SeqsOK
  <1> QED BY <1>3, <1>4, <1>5, SeqEqual

LEMMA NumsAppend ==
  ASSUME NEW q \in Seq(Callbacks), NEW e \in Callbacks
  PROVE  Nums(Append(q, e)) = Append(Nums(q), e.env.seq)
  <1>0. Len(q) \in Nat
    BY LenProperties
  <1>1. Append(q, e) \in Seq(Callbacks) /\ Len(Append(q, e)) = Len(q) + 1 /\ Len(q) \in Nat
    BY AppendProperties, LenProperties
  <1>2. e.env.seq \in Nat
    BY DEF Callbacks, AnyEnvelope
  <1>3. /\ Append(Nums(q), e.env.seq) \in Seq(Nat)
        /\ Len(Append(Nums(q), e.env.seq)) = Len(q) + 1
    BY <1>2, NumsOK, AppendProperties
  <1>4. \A i \in 1..(Len(q) + 1) : Nums(Append(q, e))[i] = Append(Nums(q), e.env.seq)[i]
    <2> TAKE i \in 1..(Len(q) + 1)
    <2>1. Nums(Append(q, e))[i] = Append(q, e)[i].env.seq
      BY <1>1, NumsOK
    <2>2. CASE i = Len(q) + 1
      BY <2>1, <2>2, <1>1, <1>2, NumsOK, AppendProperties
    <2>3. CASE i \in 1..Len(q)
      BY <2>1, <2>3, <1>1, <1>2, NumsOK, AppendProperties
    <2>4. i = Len(q) + 1 \/ i \in 1..Len(q)
      BY <1>0
    <2> QED BY <2>2, <2>3, <2>4
  <1>5. Nums(Append(q, e)) \in Seq(Nat) /\ Len(Nums(Append(q, e))) = Len(q) + 1
    BY <1>1, NumsOK
  <1> QED BY <1>3, <1>4, <1>5, SeqEqual

LEMMA NumsTail ==
  ASSUME NEW q \in Seq(Callbacks), q # <<>>
  PROVE  /\ Nums(q) # <<>>
         /\ Nums(Tail(q)) = Tail(Nums(q))
         /\ Head(q).env.seq = Head(Nums(q))
         /\ Head(q) = q[1] /\ 1 \in 1..Len(q)
  <1>1. /\ Tail(q) \in Seq(Callbacks) /\ Len(Tail(q)) = Len(q) - 1
        /\ \A i \in 1..Len(Tail(q)) : Tail(q)[i] = q[i + 1]
        /\ Len(q) \in Nat \ {0}
    BY HeadTailProperties, EmptySeq
  <1>2. Nums(q) \in Seq(Nat) /\ Nums(q) # <<>>
    BY <1>1, NumsOK, EmptySeq
  <1>3. /\ Tail(Nums(q)) \in Seq(Nat) /\ Len(Tail(Nums(q))) = Len(q) - 1
        /\ \A i \in 1..Len(Tail(Nums(q))) : Tail(Nums(q))[i] = Nums(q)[i + 1]
    BY <1>2, NumsOK, HeadTailProperties
  <1>4. \A i \in 1..(Len(q) - 1) : Nums(Tail(q))[i] = Tail(Nums(q))[i]
    <2> TAKE i \in 1..(Len(q) - 1)
    <2>1. Nums(Tail(q))[i] = q[i + 1].env.seq
      BY <1>1, NumsOK
    <2>2. i + 1 \in 1..Len(q)
      BY <1>1
    <2> QED BY <2>1, <2>2, <1>3, NumsOK
  <1>5. Nums(Tail(q)) = Tail(Nums(q))
    BY <1>1, <1>3, <1>4, NumsOK, SeqEqual
  <1>6. Head(q) = q[1] /\ Head(Nums(q)) = Nums(q)[1] /\ 1 \in 1..Len(q)
    BY <1>1, <1>2
  <1> QED BY <1>2, <1>5, <1>6, NumsOK

LEMMA SeqsSub ==
  ASSUME NEW q \in Seq(Envelopes), NEW m \in 1..(Len(q) + 1), NEW n \in (m - 1)..Len(q)
  PROVE  /\ SubSeq(q, m, n) \in Seq(Envelopes)
         /\ Len(SubSeq(q, m, n)) = n - m + 1
         /\ \A i \in 1..(n - m + 1) : SubSeq(q, m, n)[i] = q[m + i - 1]
         /\ Seqs(SubSeq(q, m, n)) = SubSeq(Seqs(q), m, n)
         /\ SubSeq(Seqs(q), m, n) \in Seq(Nat)
         /\ Len(SubSeq(Seqs(q), m, n)) = n - m + 1
         /\ \A i \in 1..(n - m + 1) : SubSeq(Seqs(q), m, n)[i] = Seqs(q)[m + i - 1]
  <1>0. m \in Nat /\ n \in Nat /\ Len(q) \in Nat /\ m >= 1 /\ m <= n + 1 /\ n <= Len(q)
    BY LenProperties
  <1>1. \A i \in m..n : q[i] \in Envelopes /\ Seqs(q)[i] \in Nat
    <2> TAKE i \in m..n
    <2>1. i \in 1..Len(q)
      BY <1>0
    <2> QED BY <2>1, ElementOfSeq, SeqsOK
  <1>2. /\ SubSeq(q, m, n) \in Seq(Envelopes)
        /\ Len(SubSeq(q, m, n)) = n - m + 1
        /\ \A i \in 1..(n - m + 1) : SubSeq(q, m, n)[i] = q[m + i - 1]
    BY <1>0, <1>1, SubSeqProperties
  <1>3. /\ SubSeq(Seqs(q), m, n) \in Seq(Nat)
        /\ Len(SubSeq(Seqs(q), m, n)) = n - m + 1
        /\ \A i \in 1..(n - m + 1) : SubSeq(Seqs(q), m, n)[i] = Seqs(q)[m + i - 1]
    BY <1>0, <1>1, SubSeqProperties
  <1>4. \A i \in 1..(n - m + 1) : Seqs(SubSeq(q, m, n))[i] = SubSeq(Seqs(q), m, n)[i]
    <2> TAKE i \in 1..(n - m + 1)
    <2>1. Seqs(SubSeq(q, m, n))[i] = q[m + i - 1].seq
      BY <1>2, SeqsOK
    <2>2. m + i - 1 \in 1..Len(q)
      BY <1>0
    <2> QED BY <2>1, <2>2, <1>3, SeqsOK
  <1> QED BY <1>2, <1>3, <1>4, SeqsOK, SeqEqual

\* RemoveAt takes out one position.
LEMMA RemoveAtOK ==
  ASSUME NEW T, NEW q \in Seq(T), NEW k \in 1..Len(q)
  PROVE  /\ RemoveAt(q, k) \in Seq(T)
         /\ Len(RemoveAt(q, k)) = Len(q) - 1
         /\ \A i \in 1..(Len(q) - 1) :
              RemoveAt(q, k)[i] = IF i < k THEN q[i] ELSE q[i + 1]
  <1>0. Len(q) \in Nat /\ k \in Nat /\ k >= 1 /\ k <= Len(q)
    BY LenProperties
  <1>1. \A i \in 1..Len(q) : q[i] \in T
    BY ElementOfSeq
  <1>2. /\ SubSeq(q, 1, k - 1) \in Seq(T)
        /\ Len(SubSeq(q, 1, k - 1)) = k - 1
        /\ \A i \in 1..(k - 1) : SubSeq(q, 1, k - 1)[i] = q[i]
    <2>1. \A i \in 1..(k - 1) : q[i] \in T
      BY <1>0, <1>1
    <2>2. /\ SubSeq(q, 1, k - 1) \in Seq(T)
          /\ Len(SubSeq(q, 1, k - 1)) = IF 1 <= k - 1 THEN k - 1 - 1 + 1 ELSE 0
          /\ \A i \in 1..(k - 1 - 1 + 1) : SubSeq(q, 1, k - 1)[i] = q[1 + i - 1]
      BY <1>0, <2>1, SubSeqProperties
    <2> QED BY <1>0, <2>2
  <1>3. /\ SubSeq(q, k + 1, Len(q)) \in Seq(T)
        /\ Len(SubSeq(q, k + 1, Len(q))) = Len(q) - k
        /\ \A i \in 1..(Len(q) - k) : SubSeq(q, k + 1, Len(q))[i] = q[k + i]
    <2>1. \A i \in (k + 1)..Len(q) : q[i] \in T
      BY <1>0, <1>1
    <2>2. /\ SubSeq(q, k + 1, Len(q)) \in Seq(T)
          /\ Len(SubSeq(q, k + 1, Len(q)))
               = IF k + 1 <= Len(q) THEN Len(q) - (k + 1) + 1 ELSE 0
          /\ \A i \in 1..(Len(q) - (k + 1) + 1) :
               SubSeq(q, k + 1, Len(q))[i] = q[(k + 1) + i - 1]
      BY <1>0, <2>1, SubSeqProperties
    <2> QED BY <1>0, <2>2
  <1>4. RemoveAt(q, k) = SubSeq(q, 1, k - 1) \o SubSeq(q, k + 1, Len(q))
    BY DEF RemoveAt
  <1>5. /\ RemoveAt(q, k) \in Seq(T)
        /\ Len(RemoveAt(q, k)) = (k - 1) + (Len(q) - k)
        /\ \A i \in 1..((k - 1) + (Len(q) - k)) :
             RemoveAt(q, k)[i] = IF i <= k - 1 THEN SubSeq(q, 1, k - 1)[i]
                                 ELSE SubSeq(q, k + 1, Len(q))[i - (k - 1)]
    <2> DEFINE a == SubSeq(q, 1, k - 1)
               b == SubSeq(q, k + 1, Len(q))
    <2>1. a \in Seq(T) /\ b \in Seq(T) /\ Len(a) = k - 1 /\ Len(b) = Len(q) - k
      BY <1>2, <1>3
    <2>2. /\ a \o b \in Seq(T)
          /\ Len(a \o b) = Len(a) + Len(b)
          /\ \A i \in 1..(Len(a) + Len(b)) :
               (a \o b)[i] = IF i <= Len(a) THEN a[i] ELSE b[i - Len(a)]
      <3> HIDE DEF a, b
      <3> QED BY <2>1, ConcatProperties
    <2> HIDE DEF a, b
    <2>3. RemoveAt(q, k) = a \o b
      BY <1>4 DEF a, b
    <2>4. /\ RemoveAt(q, k) \in Seq(T)
          /\ Len(RemoveAt(q, k)) = (k - 1) + (Len(q) - k)
          /\ \A i \in 1..((k - 1) + (Len(q) - k)) :
               RemoveAt(q, k)[i] = IF i <= k - 1 THEN a[i] ELSE b[i - (k - 1)]
      BY <2>1, <2>2, <2>3
    <2> QED BY <2>4 DEF a, b
  <1>6. \A i \in 1..(Len(q) - 1) :
          RemoveAt(q, k)[i] = IF i < k THEN q[i] ELSE q[i + 1]
    <2> TAKE i \in 1..(Len(q) - 1)
    <2>1. CASE i < k
      <3>1. i \in 1..(k - 1) /\ i \in 1..((k - 1) + (Len(q) - k)) /\ i <= k - 1
        BY <2>1, <1>0
      <3> QED BY <3>1, <1>2, <1>5, <2>1
    <2>2. CASE ~(i < k)
      <3>1. /\ i - (k - 1) \in 1..(Len(q) - k) /\ i \in 1..((k - 1) + (Len(q) - k))
            /\ ~(i <= k - 1) /\ k + (i - (k - 1)) = i + 1
        BY <2>2, <1>0
      <3> QED BY <3>1, <1>3, <1>5, <2>2
    <2> QED BY <2>1, <2>2
  <1> QED BY <1>0, <1>5, <1>6

LEMMA SeqsRemove ==
  ASSUME NEW q \in Seq(Envelopes), NEW k \in 1..Len(q)
  PROVE  Seqs(RemoveAt(q, k)) = RemoveAt(Seqs(q), k)
  <1>1. /\ RemoveAt(q, k) \in Seq(Envelopes) /\ Len(RemoveAt(q, k)) = Len(q) - 1
        /\ RemoveAt(Seqs(q), k) \in Seq(Nat) /\ Len(RemoveAt(Seqs(q), k)) = Len(q) - 1
    BY RemoveAtOK, SeqsOK
  <1>2. \A i \in 1..(Len(q) - 1) : Seqs(RemoveAt(q, k))[i] = RemoveAt(Seqs(q), k)[i]
    <2> TAKE i \in 1..(Len(q) - 1)
    <2>1. Seqs(RemoveAt(q, k))[i] = RemoveAt(q, k)[i].seq
      BY <1>1, SeqsOK
    <2>2. i \in 1..Len(q) /\ i + 1 \in 1..Len(q)
      BY LenProperties
    <2>3. RemoveAt(q, k)[i] = IF i < k THEN q[i] ELSE q[i + 1]
      BY RemoveAtOK
    <2>4. RemoveAt(Seqs(q), k)[i] = IF i < k THEN Seqs(q)[i] ELSE Seqs(q)[i + 1]
      BY RemoveAtOK, SeqsOK
    <2> QED BY <2>1, <2>2, <2>3, <2>4, SeqsOK
  <1> QED BY <1>1, <1>2, SeqsOK, SeqEqual

LEMMA EmptyNums == Seqs(<<>>) = <<>> /\ Nums(<<>>) = <<>>
  <1>1. <<>> \in Seq(Envelopes) /\ <<>> \in Seq(Callbacks) /\ <<>> \in Seq(Nat) /\ Len(<<>>) = 0
    BY EmptySeq
  <1>2. Seqs(<<>>) \in Seq(Nat) /\ Len(Seqs(<<>>)) = 0
    BY <1>1, SeqsOK
  <1>3. Nums(<<>>) \in Seq(Nat) /\ Len(Nums(<<>>)) = 0
    BY <1>1, NumsOK
  <1> QED BY <1>2, <1>3, EmptySeq

---------------------------------------------------------------------------
(* Counting the callbacks that put an envelope.                            *)

PutsOf(cbs) == {i \in DOMAIN cbs : cbs[i].run = "put"}

LEMMA PutsFinite ==
  ASSUME NEW q \in Seq(Callbacks)
  PROVE  /\ PutsOf(q) \subseteq 1..Len(q)
         /\ IsFiniteSet(PutsOf(q))
         /\ Cardinality(PutsOf(q)) \in Nat
  <1>1. Len(q) \in Nat /\ DOMAIN q = 1..Len(q)
    BY LenProperties
  <1>2. PutsOf(q) \subseteq 1..Len(q)
    BY <1>1 DEF PutsOf
  <1>3. IsFiniteSet(1..Len(q))
    BY <1>1, FS_Interval
  <1>4. IsFiniteSet(PutsOf(q))
    BY <1>2, <1>3, FS_Subset
  <1> QED BY <1>2, <1>4, FS_CardinalityType

LEMMA PutsAppend ==
  ASSUME NEW q \in Seq(Callbacks), NEW e \in Callbacks
  PROVE  Cardinality(PutsOf(Append(q, e)))
           = Cardinality(PutsOf(q)) + (IF e.run = "put" THEN 1 ELSE 0)
  <1> DEFINE a == Append(q, e)
             n == Len(q) + 1
  <1>1. /\ a \in Seq(Callbacks) /\ Len(a) = n
        /\ \A i \in 1..Len(q) : a[i] = q[i]
        /\ a[n] = e
    BY AppendProperties
  <1>2. DOMAIN a = 1..n /\ DOMAIN q = 1..Len(q) /\ Len(q) \in Nat
    BY <1>1, LenProperties
  <1>3. n \notin PutsOf(q)
    BY <1>2, PutsFinite
  <1> HIDE DEF a
  <1>4. CASE e.run = "put"
    <2>1. PutsOf(a) = PutsOf(q) \cup {n}
      BY <1>1, <1>2, <1>4 DEF PutsOf
    <2>2. Cardinality(PutsOf(q) \cup {n}) = Cardinality(PutsOf(q)) + 1
      BY <1>3, PutsFinite, FS_AddElement
    <2> QED BY <2>1, <2>2, <1>4 DEF a
  <1>5. CASE e.run # "put"
    <2>1. PutsOf(a) = PutsOf(q)
      BY <1>1, <1>2, <1>5 DEF PutsOf
    <2> QED BY <2>1, <1>5, PutsFinite DEF a
  <1> QED BY <1>4, <1>5

LEMMA PutsTail ==
  ASSUME NEW q \in Seq(Callbacks), q # <<>>
  PROVE  Cardinality(PutsOf(Tail(q)))
           = Cardinality(PutsOf(q)) - (IF q[1].run = "put" THEN 1 ELSE 0)
  <1> DEFINE r == Tail(q)
             A == PutsOf(q) \ {1}
             f == [i \in A |-> i - 1]
  <1>1. /\ r \in Seq(Callbacks) /\ Len(r) = Len(q) - 1
        /\ \A i \in 1..Len(r) : r[i] = q[i + 1]
        /\ Len(q) \in Nat \ {0}
    BY HeadTailProperties, EmptySeq
  <1>2. DOMAIN r = 1..(Len(q) - 1) /\ DOMAIN q = 1..Len(q)
    BY <1>1, LenProperties
  <1> HIDE DEF r
  <1>3. \A i : i \in A <=> i \in 2..Len(q) /\ q[i].run = "put"
    BY <1>1, <1>2 DEF PutsOf
  <1>4. \A j : j \in PutsOf(r) <=> j \in 1..(Len(q) - 1) /\ q[j + 1].run = "put"
    BY <1>1, <1>2 DEF PutsOf
  <1>5. IsFiniteSet(A) /\ Cardinality(A)
          = IF 1 \in PutsOf(q) THEN Cardinality(PutsOf(q)) - 1 ELSE Cardinality(PutsOf(q))
    BY PutsFinite, FS_RemoveElement
  <1> HIDE DEF A
  <1>6. f \in [A -> PutsOf(r)]
    <2>1. \A i \in A : i - 1 \in PutsOf(r)
      <3> TAKE i \in A
      <3>1. i \in 2..Len(q) /\ q[i].run = "put"
        BY <1>3
      <3>2. i - 1 \in 1..(Len(q) - 1) /\ (i - 1) + 1 = i
        BY <3>1, <1>1
      <3> QED BY <3>1, <3>2, <1>4
    <2> QED BY <2>1
  <1>7. \A x, y \in A : f[x] = f[y] => x = y
    <2> TAKE x, y \in A
    <2>1. x \in 2..Len(q) /\ y \in 2..Len(q)
      BY <1>3
    <2>2. f[x] = x - 1 /\ f[y] = y - 1
      OBVIOUS
    <2> QED BY <2>1, <2>2, <1>1
  <1>8. \A j \in PutsOf(r) : \E x \in A : f[x] = j
    <2> TAKE j \in PutsOf(r)
    <2>1. j \in 1..(Len(q) - 1) /\ q[j + 1].run = "put"
      BY <1>4
    <2>2. j + 1 \in 2..Len(q) /\ (j + 1) - 1 = j
      BY <2>1, <1>1
    <2>3. j + 1 \in A
      BY <2>1, <2>2, <1>3
    <2>4. f[j + 1] = j
      BY <2>2, <2>3
    <2> QED BY <2>3, <2>4
  <1> HIDE DEF f
  <1>9. f \in Bijection(A, PutsOf(r))
    BY <1>6, <1>7, <1>8 DEF Bijection, Injection, Surjection, IsInjective
  <1>10. Cardinality(PutsOf(r)) = Cardinality(A)
    BY <1>5, <1>9, FS_Bijection DEF ExistsBijection
  <1>11. 1 \in PutsOf(q) <=> q[1].run = "put"
    BY <1>1, <1>2 DEF PutsOf
  <1> QED BY <1>5, <1>10, <1>11, PutsFinite DEF r

LEMMA PutsEmpty == Cardinality(PutsOf(<<>>)) = 0
  <1>1. PutsOf(<<>>) = {}
    BY DEF PutsOf
  <1> QED BY <1>1, FS_EmptySet

\* _schedule of a loss hands two callbacks to the loop.
LEMMA AppendTwo ==
  ASSUME NEW T, NEW q \in Seq(T), NEW a \in T, NEW b \in T
  PROVE  q \o <<a, b>> = Append(Append(q, a), b)
  OBVIOUS

---------------------------------------------------------------------------
(* Steps of the line.                                                      *)

\* t holds only numbers that s holds.
From(t, s) == \A i \in 1..Len(t) : \E j \in 1..Len(s) : t[i] = s[j]

LEMMA FromKeeps ==
  ASSUME NEW s, NEW t, From(t, s)
  PROVE  /\ \A n : UpTo(s, n) => UpTo(t, n)
         /\ \A n, S : Below(s, n, S) => Below(t, n, S)
         /\ \A u, S : Ahead(s, u, S) => Ahead(t, u, S)
         /\ \A u, S : Ahead(u, s, S) => Ahead(u, t, S)
  <1>1. \A n : UpTo(s, n) => UpTo(t, n)
    BY DEF From, UpTo
  <1>2. \A n, S : Below(s, n, S) => Below(t, n, S)
    BY DEF From, Below
  <1>3. \A u, S : Ahead(s, u, S) => Ahead(t, u, S)
    BY DEF From, Ahead
  <1>4. \A u, S : Ahead(u, s, S) => Ahead(u, t, S)
    BY DEF From, Ahead
  <1> QED BY <1>1, <1>2, <1>3, <1>4

\* The empty sequence is nowhere in the way.
LEMMA EmptyLine ==
  /\ \A n : UpTo(<<>>, n)
  /\ \A S : Sorted(<<>>, S)
  /\ \A n, S : Below(<<>>, n, S)
  /\ \A u, S : Ahead(<<>>, u, S) /\ Ahead(u, <<>>, S)
  <1>1. 1..Len(<<>>) = {}
    OBVIOUS
  <1> QED BY <1>1 DEF UpTo, Sorted, Below, Ahead

\* What Append does to the line.
LEMMA AppendLine ==
  ASSUME NEW s \in Seq(Nat), NEW x \in Nat
  PROVE  /\ \A n : UpTo(s, n) /\ x <= n => UpTo(Append(s, x), n)
         /\ \A S : Sorted(s, S) /\ Below(s, x, S) => Sorted(Append(s, x), S)
         /\ \A n, S : Below(s, n, S) /\ Before(x, n, S) => Below(Append(s, x), n, S)
         /\ \A u, S : Ahead(u, s, S) /\ Below(u, x, S) => Ahead(u, Append(s, x), S)
  <1>1. /\ Len(s) \in Nat /\ Len(Append(s, x)) = Len(s) + 1
        /\ \A i \in 1..Len(s) : Append(s, x)[i] = s[i]
        /\ Append(s, x)[Len(s) + 1] = x
    BY AppendProperties, LenProperties
  <1>2. \A i \in 1..(Len(s) + 1) : i \in 1..Len(s) \/ i = Len(s) + 1
    BY <1>1
  <1>3. \A i, j \in 1..(Len(s) + 1) : i < j => i \in 1..Len(s)
    BY <1>1
  <1>4. \A n : UpTo(s, n) /\ x <= n => UpTo(Append(s, x), n)
    BY <1>1, <1>2 DEF UpTo
  <1>5. \A S : Sorted(s, S) /\ Below(s, x, S) => Sorted(Append(s, x), S)
    BY <1>1, <1>2, <1>3 DEF Sorted, Below
  <1>6. \A n, S : Below(s, n, S) /\ Before(x, n, S) => Below(Append(s, x), n, S)
    BY <1>1, <1>2 DEF Below
  <1>7. \A u, S : Ahead(u, s, S) /\ Below(u, x, S) => Ahead(u, Append(s, x), S)
    BY <1>1, <1>2 DEF Ahead, Below
  <1> QED BY <1>4, <1>5, <1>6, <1>7

\* The number 0 stands anywhere.
LEMMA ZeroAnywhere ==
  ASSUME NEW S, 0 \notin S
  PROVE  /\ \A n : Before(0, n, S) /\ Before(n, 0, S)
         /\ \A s : Below(s, 0, S)
  <1>1. \A n : Before(0, n, S) /\ Before(n, 0, S)
    BY DEF Before
  <1> QED BY <1>1 DEF Below

LEMMA TailLine ==
  ASSUME NEW s \in Seq(Nat), s # <<>>
  PROVE  /\ From(Tail(s), s)
         /\ \A S : Sorted(s, S) => Sorted(Tail(s), S)
         /\ Head(s) \in Nat
         /\ \A n : UpTo(s, n) => Head(s) <= n
         /\ \A n, S : Below(s, n, S) => Before(Head(s), n, S)
         /\ \A u, S : Ahead(u, s, S) => Below(u, Head(s), S)
         /\ \A S : Sorted(s, S) => \A i \in 1..Len(Tail(s)) : Before(Head(s), Tail(s)[i], S)
  <1>1. /\ Len(s) \in Nat \ {0} /\ Len(Tail(s)) = Len(s) - 1
        /\ \A i \in 1..Len(Tail(s)) : Tail(s)[i] = s[i + 1]
    BY HeadTailProperties, EmptySeq
  <1>2. \A i \in 1..(Len(s) - 1) : i + 1 \in 1..Len(s) /\ 1 < i + 1
    BY <1>1
  <1>3. 1 \in 1..Len(s) /\ Head(s) = s[1] /\ s[1] \in Nat
    BY <1>1, ElementOfSeq
  <1>4. From(Tail(s), s)
    BY <1>1, <1>2 DEF From
  <1>5. \A S : Sorted(s, S) => Sorted(Tail(s), S)
    <2>1. \A i, j \in 1..(Len(s) - 1) : i < j => i + 1 < j + 1
      BY <1>1
    <2> QED BY <1>1, <1>2, <2>1 DEF Sorted
  <1>6. \A n : UpTo(s, n) => Head(s) <= n
    BY <1>3 DEF UpTo
  <1>7. \A n, S : Below(s, n, S) => Before(Head(s), n, S)
    BY <1>3 DEF Below
  <1>8. \A u, S : Ahead(u, s, S) => Below(u, Head(s), S)
    BY <1>3 DEF Ahead, Below
  <1>9. \A S : Sorted(s, S) => \A i \in 1..Len(Tail(s)) : Before(Head(s), Tail(s)[i], S)
    BY <1>1, <1>2, <1>3 DEF Sorted
  <1> QED BY <1>3, <1>4, <1>5, <1>6, <1>7, <1>8, <1>9

\* A callback is handed to the loop with a number that is fresh.
LEMMA PipeAppend ==
  ASSUME NEW J, NEW B, NEW Q, NEW R \in Seq(Nat), NEW S, NEW N, NEW P, NEW x \in Nat,
         Pipe(J, B, Q, R, S, N, P), Fresh(J, B, Q, R, S, x), x <= N
  PROVE  Pipe(J, B, Q, Append(R, x), S, N, P)
  BY AppendLine DEF Pipe, Fresh

LEMMA FreshAppend ==
  ASSUME NEW J, NEW B, NEW Q, NEW R \in Seq(Nat), NEW S, NEW x \in Nat, NEW n,
         Fresh(J, B, Q, R, S, n), Before(x, n, S)
  PROVE  Fresh(J, B, Q, Append(R, x), S, n)
  BY AppendLine DEF Fresh

\* The loop runs a callback that puts an envelope.
LEMMA PipePut ==
  ASSUME NEW J, NEW B, NEW Q \in Seq(Nat), NEW R \in Seq(Nat), NEW S, NEW N, NEW P,
         R # <<>>, Pipe(J, B, Q, R, S, N, P)
  PROVE  /\ Pipe(J, B, Append(Q, Head(R)), Tail(R), S, N, P)
         /\ \A n : Fresh(J, B, Q, R, S, n) => Fresh(J, B, Append(Q, Head(R)), Tail(R), S, n)
  <1> DEFINE x == Head(R)
             T == Tail(R)
             U == Append(Q, x)
  <1>1. /\ x \in Nat /\ From(T, R) /\ Sorted(T, S) /\ x <= N
        /\ Below(J, x, S) /\ Below(B, x, S) /\ Below(Q, x, S)
        /\ \A i \in 1..Len(T) : Before(x, T[i], S)
        /\ \A n : Below(R, n, S) => Before(x, n, S)
    BY TailLine DEF Pipe
  <1>2. UpTo(T, N) /\ Ahead(J, T, S) /\ Ahead(B, T, S) /\ Ahead(Q, T, S)
    BY <1>1, FromKeeps DEF Pipe
  <1>3. \A n : Below(R, n, S) => Below(T, n, S)
    BY <1>1, FromKeeps
  <1> HIDE DEF x, T
  <1>4. UpTo(U, N) /\ Sorted(U, S) /\ Ahead(J, U, S) /\ Ahead(B, U, S)
    BY <1>1, AppendLine DEF Pipe
  <1>5. \A n : Below(Q, n, S) /\ Before(x, n, S) => Below(U, n, S)
    BY <1>1, AppendLine
  <1>6. Ahead(U, T, S)
    <2>1. \A j \in 1..Len(T) : Below(Q, T[j], S)
      BY <1>2 DEF Ahead, Below
    <2>2. \A j \in 1..Len(T) : Below(U, T[j], S)
      BY <2>1, <1>1, <1>5
    <2> HIDE DEF U
    <2> QED BY <2>2 DEF Ahead, Below
  <1> HIDE DEF U
  <1>7. Pipe(J, B, U, T, S, N, P)
    BY <1>1, <1>2, <1>4, <1>6 DEF Pipe
  <1>8. \A n : Fresh(J, B, Q, R, S, n) => Fresh(J, B, U, T, S, n)
    BY <1>1, <1>3, <1>5 DEF Fresh
  <1> QED BY <1>7, <1>8 DEF U, T, x

\* The loop runs another callback.
LEMMA PipeDrop ==
  ASSUME NEW J, NEW B, NEW Q, NEW R \in Seq(Nat), NEW S, NEW N, NEW P,
         R # <<>>, Pipe(J, B, Q, R, S, N, P)
  PROVE  /\ Pipe(J, B, Q, Tail(R), S, N, P)
         /\ \A n : Fresh(J, B, Q, R, S, n) => Fresh(J, B, Q, Tail(R), S, n)
  BY TailLine, FromKeeps DEF Pipe, Fresh

\* The worker takes the first n envelopes of the queue.
LEMMA PipeTake ==
  ASSUME NEW J, NEW Q \in Seq(Nat), NEW R, NEW S, NEW N, NEW n \in 0..Len(Q),
         Pipe(J, <<>>, Q, R, S, N, FALSE)
  PROVE  /\ Pipe(J, SubSeq(Q, 1, n), SubSeq(Q, n + 1, Len(Q)), R, S, N, FALSE)
         /\ \A x : Fresh(J, <<>>, Q, R, S, x)
                     => Fresh(J, SubSeq(Q, 1, n), SubSeq(Q, n + 1, Len(Q)), R, S, x)
  <1> DEFINE T == SubSeq(Q, 1, n)
             U == SubSeq(Q, n + 1, Len(Q))
  <1>0. Len(Q) \in Nat /\ n \in Nat /\ n <= Len(Q) /\ \A i \in 1..Len(Q) : Q[i] \in Nat
    BY LenProperties, ElementOfSeq
  <1>1. Len(T) = n /\ \A i \in 1..n : T[i] = Q[i]
    <2>1. \A i \in 1..n : Q[i] \in Nat
      BY <1>0
    <2>2. /\ Len(T) = IF 1 <= n THEN n - 1 + 1 ELSE 0
          /\ \A i \in 1..(n - 1 + 1) : T[i] = Q[1 + i - 1]
      BY <1>0, <2>1, SubSeqProperties
    <2> QED BY <1>0, <2>2
  <1>2. Len(U) = Len(Q) - n /\ \A i \in 1..(Len(Q) - n) : U[i] = Q[n + i]
    <2>1. \A i \in (n + 1)..Len(Q) : Q[i] \in Nat
      BY <1>0
    <2>2. /\ Len(U) = IF n + 1 <= Len(Q) THEN Len(Q) - (n + 1) + 1 ELSE 0
          /\ \A i \in 1..(Len(Q) - (n + 1) + 1) : U[i] = Q[(n + 1) + i - 1]
      BY <1>0, <2>1, SubSeqProperties
    <2> QED BY <1>0, <2>2
  <1> HIDE DEF T, U
  <1>3. From(T, Q)
    BY <1>0, <1>1 DEF From
  <1>4. \A i \in 1..(Len(Q) - n) : n + i \in 1..Len(Q)
    BY <1>0
  <1>5. From(U, Q)
    BY <1>2, <1>4 DEF From
  <1>6. Sorted(Q, S)
    BY DEF Pipe
  <1>7. Sorted(T, S)
    <2>1. \A i \in 1..n : i \in 1..Len(Q)
      BY <1>0
    <2> QED BY <1>1, <1>6, <2>1 DEF Sorted
  <1>8. Sorted(U, S)
    <2>1. \A i, j \in 1..(Len(Q) - n) : i < j => n + i < n + j
      BY <1>0
    <2> QED BY <1>2, <1>4, <1>6, <2>1 DEF Sorted
  <1>9. Ahead(T, U, S)
    <2>1. \A i \in 1..n, j \in 1..(Len(Q) - n) : i \in 1..Len(Q) /\ i < n + j
      BY <1>0
    <2> QED BY <1>1, <1>2, <1>4, <1>6, <2>1 DEF Sorted, Ahead
  <1>10. /\ UpTo(T, N) /\ UpTo(U, N) /\ Ahead(J, T, S) /\ Ahead(J, U, S)
         /\ Ahead(T, R, S) /\ Ahead(U, R, S)
    BY <1>3, <1>5, FromKeeps DEF Pipe
  <1>11. Pipe(J, T, U, R, S, N, FALSE)
    BY <1>7, <1>8, <1>9, <1>10 DEF Pipe
  <1>12. \A x : Fresh(J, <<>>, Q, R, S, x) => Fresh(J, T, U, R, S, x)
    BY <1>3, <1>5, FromKeeps DEF Fresh
  <1> QED BY <1>11, <1>12 DEF T, U

\* The worker takes an invalid event out of its batch.
LEMMA PipeRemove ==
  ASSUME NEW J, NEW B \in Seq(Nat), NEW Q, NEW R, NEW S, NEW N, NEW P,
         NEW k \in 1..Len(B), Pipe(J, B, Q, R, S, N, P)
  PROVE  /\ Pipe(J, RemoveAt(B, k), Q, R, S, N, P)
         /\ \A x : Fresh(J, B, Q, R, S, x) => Fresh(J, RemoveAt(B, k), Q, R, S, x)
  <1> DEFINE T == RemoveAt(B, k)
  <1>0. Len(B) \in Nat
    BY LenProperties
  <1>1. /\ Len(T) = Len(B) - 1
        /\ \A i \in 1..(Len(B) - 1) : T[i] = IF i < k THEN B[i] ELSE B[i + 1]
    BY RemoveAtOK
  <1> HIDE DEF T
  <1>2. \A i \in 1..(Len(B) - 1) : i \in 1..Len(B) /\ i + 1 \in 1..Len(B)
    BY <1>0
  <1>3. From(T, B)
    BY <1>1, <1>2 DEF From
  <1>4. Sorted(T, S)
    <2>1. Sorted(B, S)
      BY DEF Pipe
    <2>2. \A i, j \in 1..(Len(B) - 1) : i < j => Before(T[i], T[j], S)
      <3> TAKE i, j \in 1..(Len(B) - 1)
      <3> HAVE i < j
      <3> DEFINE a == IF i < k THEN i ELSE i + 1
                 b == IF j < k THEN j ELSE j + 1
      <3>1. a \in 1..Len(B) /\ b \in 1..Len(B) /\ a < b
        BY <1>0
      <3>2. T[i] = B[a] /\ T[j] = B[b]
        BY <1>1
      <3> HIDE DEF a, b
      <3> QED BY <2>1, <3>1, <3>2 DEF Sorted
    <2> QED BY <2>2, <1>1 DEF Sorted
  <1>5. Pipe(J, T, Q, R, S, N, P)
    BY <1>3, <1>4, FromKeeps DEF Pipe
  <1>6. \A x : Fresh(J, B, Q, R, S, x) => Fresh(J, T, Q, R, S, x)
    BY <1>3, FromKeeps DEF Fresh
  <1> QED BY <1>5, <1>6 DEF T

\* The transaction journals the batch.
LEMMA PipeCommit ==
  ASSUME NEW J \in Seq(Nat), NEW B \in Seq(Nat), NEW Q, NEW R, NEW S, NEW N,
         Pipe(J, B, Q, R, S, N, FALSE)
  PROVE  /\ Pipe(J \o B, B, Q, R, S, N, TRUE)
         /\ \A x : Fresh(J, B, Q, R, S, x) => Fresh(J \o B, B, Q, R, S, x)
  <1> DEFINE T == J \o B
  <1>0. Len(J) \in Nat /\ Len(B) \in Nat
    BY LenProperties
  <1>1. /\ Len(T) = Len(J) + Len(B)
        /\ \A i \in 1..(Len(J) + Len(B)) : T[i] = IF i <= Len(J) THEN J[i] ELSE B[i - Len(J)]
    BY ConcatProperties
  <1> HIDE DEF T
  <1>2. \A i \in 1..(Len(J) + Len(B)) :
          \/ i \in 1..Len(J) /\ T[i] = J[i]
          \/ i - Len(J) \in 1..Len(B) /\ T[i] = B[i - Len(J)]
    BY <1>0, <1>1
  <1>3. UpTo(T, N)
    BY <1>1, <1>2 DEF Pipe, UpTo
  <1>4. Ahead(T, Q, S) /\ Ahead(T, R, S)
    BY <1>1, <1>2 DEF Pipe, Ahead
  <1>5. \A x : Below(J, x, S) /\ Below(B, x, S) => Below(T, x, S)
    BY <1>1, <1>2 DEF Below
  <1>6. Sorted(T, S)
    <2>1. Sorted(J, S) /\ Sorted(B, S) /\ Ahead(J, B, S)
      BY DEF Pipe
    <2> SUFFICES ASSUME NEW i \in 1..(Len(J) + Len(B)), NEW j \in 1..(Len(J) + Len(B)), i < j
                 PROVE  Before(T[i], T[j], S)
      BY <1>1 DEF Sorted
    <2>2. CASE i <= Len(J) /\ j <= Len(J)
      <3>1. i \in 1..Len(J) /\ j \in 1..Len(J) /\ T[i] = J[i] /\ T[j] = J[j]
        BY <1>0, <1>1, <2>2
      <3> QED BY <2>1, <3>1 DEF Sorted
    <2>3. CASE i <= Len(J) /\ ~(j <= Len(J))
      <3>1. i \in 1..Len(J) /\ j - Len(J) \in 1..Len(B) /\ T[i] = J[i] /\ T[j] = B[j - Len(J)]
        BY <1>0, <1>1, <2>3
      <3> QED BY <2>1, <3>1 DEF Ahead
    <2>4. CASE ~(i <= Len(J))
      <3>1. /\ i - Len(J) \in 1..Len(B) /\ j - Len(J) \in 1..Len(B)
            /\ i - Len(J) < j - Len(J)
            /\ T[i] = B[i - Len(J)] /\ T[j] = B[j - Len(J)]
        BY <1>0, <1>1, <2>4
      <3> QED BY <2>1, <3>1 DEF Sorted
    <2> QED BY <2>2, <2>3, <2>4
  <1>7. Pipe(T, B, Q, R, S, N, TRUE)
    BY <1>3, <1>4, <1>6 DEF Pipe
  <1>8. \A x : Fresh(J, B, Q, R, S, x) => Fresh(T, B, Q, R, S, x)
    BY <1>5 DEF Fresh
  <1> QED BY <1>7, <1>8 DEF T

\* Events of a session that is lost are skipped.
LEMMA PipeSkip ==
  ASSUME NEW J, NEW B, NEW Q, NEW R, NEW S, NEW N, Pipe(J, B, Q, R, S, N, FALSE)
  PROVE  Pipe(J, B, Q, R, S, N, TRUE)
  BY DEF Pipe

\* An acknowledged batch leaves the line.
LEMMA PipeAck ==
  ASSUME NEW J, NEW B, NEW Q, NEW R, NEW S, NEW N, NEW P, Pipe(J, B, Q, R, S, N, P)
  PROVE  /\ Pipe(J, <<>>, Q, R, S, N, FALSE)
         /\ \A x : Fresh(J, B, Q, R, S, x) => Fresh(J, <<>>, Q, R, S, x)
  BY EmptyLine DEF Pipe, Fresh

\* fail_pending empties the batch and the queue.
LEMMA PipeFail ==
  ASSUME NEW J, NEW B, NEW Q, NEW R, NEW S, NEW N, NEW P, Pipe(J, B, Q, R, S, N, P)
  PROVE  /\ Pipe(J, <<>>, <<>>, R, S, N, FALSE)
         /\ \A x : Fresh(J, B, Q, R, S, x) => Fresh(J, <<>>, <<>>, R, S, x)
  BY EmptyLine DEF Pipe, Fresh

\* A number is handed out, to an SDK event or to a coroutine: it is fresh, and
\* the line is as it was.
LEMMA FewerSdk ==
  ASSUME NEW N \in Nat, NEW S \in SUBSET (1..N), NEW U, U = S \/ U = S \cup {N + 1}
  PROVE  /\ \A m, n : m <= N /\ n <= N /\ m \in Nat /\ n \in Nat
                        => (Before(m, n, S) <=> Before(m, n, U))
         /\ \A m \in Nat : m <= N => Before(m, N + 1, U)
  <1>1. \A m \in Nat : m <= N => (m \in S <=> m \in U)
    OBVIOUS
  <1>2. \A m \in Nat : m <= N => m < N + 1 /\ m # N + 1
    OBVIOUS
  <1> QED BY <1>1, <1>2 DEF Before

LEMMA PipeNumber ==
  ASSUME NEW J \in Seq(Nat), NEW B \in Seq(Nat), NEW Q \in Seq(Nat), NEW R \in Seq(Nat),
         NEW N \in Nat, NEW S \in SUBSET (1..N), NEW U, U = S \/ U = S \cup {N + 1}, NEW P,
         Pipe(J, B, Q, R, S, N, P)
  PROVE  /\ Pipe(J, B, Q, R, U, N + 1, P)
         /\ \A x \in 1..N : Fresh(J, B, Q, R, S, x) => Fresh(J, B, Q, R, U, x)
         /\ Fresh(J, B, Q, R, U, N + 1)
  <1>1. \A s \in Seq(Nat) : \A i \in 1..Len(s) : s[i] \in Nat
    BY ElementOfSeq
  <1>2. \A s \in Seq(Nat) : UpTo(s, N) => \A i \in 1..Len(s) : s[i] \in Nat /\ s[i] <= N
    BY <1>1 DEF UpTo
  <1>3. \A s \in Seq(Nat) : UpTo(s, N) => UpTo(s, N + 1) /\ Below(s, N + 1, U)
    <2> TAKE s \in Seq(Nat)
    <2> HAVE UpTo(s, N)
    <2>1. \A i \in 1..Len(s) : s[i] \in Nat /\ s[i] <= N
      BY <1>2
    <2>2. \A i \in 1..Len(s) : s[i] <= N + 1
      BY <2>1
    <2>3. \A i \in 1..Len(s) : Before(s[i], N + 1, U)
      BY <2>1, FewerSdk
    <2> QED BY <2>2, <2>3 DEF UpTo, Below
  <1>4. \A s \in Seq(Nat) : UpTo(s, N) /\ Sorted(s, S) => Sorted(s, U)
    BY <1>2, FewerSdk DEF Sorted
  <1>5. \A s, t \in Seq(Nat) : UpTo(s, N) /\ UpTo(t, N) /\ Ahead(s, t, S) => Ahead(s, t, U)
    BY <1>2, FewerSdk DEF Ahead
  <1>6. \A s \in Seq(Nat) : \A x \in 1..N : UpTo(s, N) /\ Below(s, x, S) => Below(s, x, U)
    <2>1. \A x \in 1..N : x \in Nat /\ x <= N
      OBVIOUS
    <2> QED BY <2>1, <1>2, FewerSdk DEF Below
  <1> QED BY <1>3, <1>4, <1>5, <1>6 DEF Pipe, Fresh

---------------------------------------------------------------------------
(* Steps that move no number.                                              *)

\* A coroutine that is neither holding a number nor waiting for its answer goes
\* on, and gets no answer.
Calm(at, to) ==
    \A p \in Coroutines :
        \/ to[p] = at[p]
        \/ /\ at[p] \notin {"acking", "posted", "reserved"}
           /\ to[p] \notin {"committed", "failed", "reserved"}

\* The worker stays, or goes on without a batch to account for.
WorkerGoesOn ==
    \/ reducer' = reducer
    \/ reducer = "validating" /\ reducer' = "adapting"
    \/ reducer = "adapting" /\ reducer' = "get" /\ batch = <<>>

Quiet ==
    /\ UNCHANGED <<outstanding, nextSeq, lost, incidents, ready, queue, batch, loop,
                   seqOf, reduced, sdkSeqs>>
    /\ delivered' \in Nat
    /\ space' \in BOOLEAN /\ closed' \in BOOLEAN /\ sdkClosed' \in BOOLEAN
    /\ overflowed' \in BOOLEAN /\ cancelling' \in BOOLEAN /\ stopping' \in BOOLEAN
    /\ bound' \in BOOLEAN /\ (bound' => bound)
    /\ WorkerGoesOn
    /\ pc' \in [Coroutines -> Stages] /\ Calm(pc, pc')
    /\ sdk' \in [SdkThreads -> {"idle", "checked", "reserved"}]
    /\ ingress' \in SdkThreads \cup {NoOne}
    /\ \A t \in SdkThreads : sdk'[t] # "idle" <=> ingress' = t
    /\ \A t \in SdkThreads : sdk'[t] = "reserved" <=> sdk[t] = "reserved"

LEMMA QuietStep ==
  ASSUME IInv, Quiet
  PROVE  IInv'
  <1>1. Types'
    <2>1. /\ outstanding' = outstanding /\ nextSeq' = nextSeq /\ lost' = lost
          /\ incidents' = incidents /\ ready' = ready /\ queue' = queue /\ batch' = batch
          /\ loop' = loop /\ seqOf' = seqOf /\ reduced' = reduced /\ sdkSeqs' = sdkSeqs
      BY DEF Quiet
    <2>2. reducer' \in {"get", "validating", "adapting", "persisted", "stopped", "dead"}
      BY DEF IInv, Types, Quiet, WorkerGoesOn
    <2> QED BY <2>1, <2>2 DEF IInv, Types, Quiet, CallbackOK
  <1>2. Locks'
    <2>1. \A p \in Coroutines : (pc[p] = "reserved" <=> loop = p)' 
      BY DEF IInv, Locks, Quiet, Calm
    <2>2. (reducer \in {"get", "stopped", "dead"} => batch = <<>>)'
      BY DEF IInv, Locks, Quiet, WorkerGoesOn
    <2> QED BY <2>1, <2>2 DEF Locks, Quiet
  <1>3. Slots'
    <2>1. ThreadSlot' = ThreadSlot
      BY DEF ThreadSlot, Quiet
    <2>2. LoopSlot' = LoopSlot /\ Puts' = Puts
      BY DEF LoopSlot, Puts, Quiet
    <2> QED BY <2>1, <2>2 DEF Slots, IInv, Quiet
  <1>4. NothingVanishes'
    <2>1. reducer' # "dead" /\ bound' => reducer # "dead" /\ bound
      BY DEF Quiet, WorkerGoesOn
    <2>2. reducer' = "persisted" <=> reducer = "persisted"
      BY DEF Quiet, WorkerGoesOn
    <2> QED BY <2>1, <2>2 DEF NothingVanishes, IInv, Quiet
  <1>5. (reducer' = "persisted") = (reducer = "persisted")
    BY DEF Quiet, WorkerGoesOn
  <1>6. Order'
    BY <1>5 DEF Order, IInv, Quiet
  <1>7. Holders'
    BY DEF Holders, Held, IInv, Quiet
  <1>8. InFlight'
    <2>1. \A e \in Envelopes : Flying(e, pc, seqOf) => Flying(e, pc', seqOf')
      BY DEF Flying, Quiet, Calm
    <2>2. \A i \in 1..Len(batch) : batch[i] \in Envelopes
      BY ElementOfSeq DEF IInv, Types
    <2>3. \A i \in 1..Len(queue) : queue[i] \in Envelopes
      BY ElementOfSeq DEF IInv, Types
    <2>4. \A i \in 1..Len(ready) : ready[i].run = "put" => ready[i].env \in Envelopes
      BY DEF IInv, Types, CallbackOK
    <2> QED BY <2>1, <2>2, <2>3, <2>4 DEF InFlight, EnvsFly, PutsFly, IInv, Quiet
  <1>9. Reports'
    <2>1. reduced' = reduced /\ batch' = batch /\ seqOf' = seqOf
      BY DEF Quiet
    <2>2. reducer' = "persisted" <=> reducer = "persisted"
      BY DEF Quiet, WorkerGoesOn
    <2>3. reducer = "dead" => reducer' = "dead"
      BY DEF Quiet, WorkerGoesOn
    <2>4. \A p \in Waiters : /\ pc'[p] = "committed" => pc[p] = "committed"
                             /\ pc'[p] = "failed" => pc[p] = "failed"
      BY DEF Quiet, Calm, Coroutines
    <2>5. \A p \in Waiters :
            /\ pc'[p] = "committed" /\ bound' => Contains(reduced', seqOf'[p])
            /\ pc'[p] = "failed" => reducer' = "dead" /\ ~(Contains(reduced', seqOf'[p]))
      BY <2>1, <2>3, <2>4 DEF Reports, IInv, Quiet
    <2>6. reducer' = "persisted" /\ bound' => \A i \in 1..Len(batch') : Contains(reduced', batch'[i].seq)
      BY <2>1, <2>2 DEF Reports, IInv, Quiet
    <2> QED BY <2>5, <2>6 DEF Reports
  <1> QED BY <1>1, <1>2, <1>3, <1>4, <1>6, <1>7, <1>8, <1>9 DEF IInv

---------------------------------------------------------------------------
(* The actions that are quiet.                                             *)

LEMMA Kinds ==
  /\ Stopper \in Waiters /\ Supervisor \in Waiters /\ Waiters \subseteq Coroutines
  /\ Stopper \in Coroutines /\ Supervisor \in Coroutines
  /\ Committers \subseteq Waiters /\ Posters \subseteq Coroutines
  /\ Posters \cap Waiters = {} /\ SdkThreads \cap Coroutines = {}
  /\ NoOne \notin Coroutines /\ NoOne \notin SdkThreads
  /\ Coroutines \subseteq Producers /\ SdkThreads \subseteq Producers
  /\ Capacity \in Nat /\ BatchSize \in Nat \ {0}
  BY InboxAssumption DEF Waiters, Coroutines, Producers

\* What a quiet step leaves alone, when the SDK threads stand still.
LEMMA QuietCoroutine ==
  ASSUME IInv,
         UNCHANGED <<outstanding, nextSeq, lost, ready, queue, batch, loop, seqOf, threads,
                     store, reducer>>,
         space' \in BOOLEAN, closed' \in BOOLEAN, sdkClosed' \in BOOLEAN,
         overflowed' \in BOOLEAN, cancelling' \in BOOLEAN, stopping' \in BOOLEAN,
         pc' \in [Coroutines -> Stages], Calm(pc, pc')
  PROVE  IInv'
  <1>1. /\ incidents' = incidents /\ reduced' = reduced /\ sdkSeqs' = sdkSeqs
        /\ bound' = bound /\ delivered' = delivered /\ sdk' = sdk /\ ingress' = ingress
    BY DEF threads, store
  <1>2. Quiet
    BY <1>1 DEF Quiet, WorkerGoesOn, IInv, Types, Locks
  <1> QED BY <1>2, QuietStep

LEMMA CalmExcept ==
  ASSUME pc \in [Coroutines -> Stages], NEW p \in Coroutines, NEW s \in Stages,
         pc[p] \notin {"acking", "posted", "reserved"},
         s \notin {"committed", "failed", "reserved"}
  PROVE  /\ [pc EXCEPT ![p] = s] \in [Coroutines -> Stages]
         /\ Calm(pc, [pc EXCEPT ![p] = s])
  BY DEF Calm

LEMMA CalmWake ==
  ASSUME NEW at \in [Coroutines -> Stages]
  PROVE  /\ Wake(at) \in [Coroutines -> Stages]
         /\ Calm(at, Wake(at))
  <1>1. \A p \in Coroutines : /\ Wake(at)[p] \in Stages
                              /\ \/ Wake(at)[p] = at[p]
                                 \/ at[p] = "waiting" /\ Wake(at)[p] = "woken"
    BY DEF Wake, Stages
  <1>2. Wake(at) = [p \in Coroutines |-> IF at[p] = "waiting" THEN "woken" ELSE at[p]]
    BY DEF Wake
  <1>3. Wake(at) \in [Coroutines -> Stages]
    BY <1>1, <1>2
  <1> QED BY <1>1, <1>3 DEF Calm

LEMMA SdkCallKeeps ==
  ASSUME IInv, NEW t \in SdkThreads, SdkCall(t)
  PROVE  IInv'
  <1>1. /\ outstanding' = outstanding /\ nextSeq' = nextSeq /\ lost' = lost
        /\ incidents' = incidents /\ ready' = ready /\ queue' = queue /\ batch' = batch
        /\ loop' = loop /\ seqOf' = seqOf /\ reduced' = reduced /\ sdkSeqs' = sdkSeqs
        /\ reducer' = reducer /\ pc' = pc /\ bound' = bound /\ space' = space
        /\ closed' = closed /\ sdkClosed' = sdkClosed /\ overflowed' = overflowed
        /\ cancelling' = cancelling /\ stopping' = stopping
    BY DEF SdkCall, counters, gates, pipeline, control, producer, store
  <1>2. delivered' \in Nat
    BY DEF SdkCall, IInv, Types
  <1>3. /\ sdk' \in [SdkThreads -> {"idle", "checked", "reserved"}]
        /\ ingress' \in SdkThreads \cup {NoOne}
        /\ \A u \in SdkThreads : sdk'[u] # "idle" <=> ingress' = u
        /\ \A u \in SdkThreads : sdk'[u] = "reserved" <=> sdk[u] = "reserved"
    <2>1. CASE sdkClosed
      BY <2>1 DEF SdkCall, IInv, Types, Locks
    <2>2. CASE ~sdkClosed
      BY <2>2, Kinds DEF SdkCall, IInv, Types, Locks
    <2> QED BY <2>1, <2>2
  <1>4. Quiet
    BY <1>1, <1>2, <1>3 DEF Quiet, WorkerGoesOn, Calm, IInv, Types
  <1> QED BY <1>4, QuietStep

LEMMA SdkRefusedKeeps ==
  ASSUME IInv, NEW t \in SdkThreads, SdkRefused(t)
  PROVE  IInv'
  <1>1. /\ outstanding' = outstanding /\ nextSeq' = nextSeq /\ lost' = lost
        /\ incidents' = incidents /\ ready' = ready /\ queue' = queue /\ batch' = batch
        /\ loop' = loop /\ seqOf' = seqOf /\ reduced' = reduced /\ sdkSeqs' = sdkSeqs
        /\ reducer' = reducer /\ pc' = pc /\ bound' = bound /\ space' = space
        /\ closed' = closed /\ sdkClosed' = sdkClosed /\ overflowed' = overflowed
        /\ cancelling' = cancelling /\ stopping' = stopping /\ delivered' = delivered
    BY DEF SdkRefused, counters, gates, pipeline, control, producer, store
  <1>2. /\ sdk' \in [SdkThreads -> {"idle", "checked", "reserved"}]
        /\ ingress' \in SdkThreads \cup {NoOne}
        /\ \A u \in SdkThreads : sdk'[u] # "idle" <=> ingress' = u
        /\ \A u \in SdkThreads : sdk'[u] = "reserved" <=> sdk[u] = "reserved"
    BY Kinds DEF SdkRefused, IInv, Types, Locks
  <1>3. Quiet
    BY <1>1, <1>2 DEF Quiet, WorkerGoesOn, Calm, IInv, Types
  <1> QED BY <1>3, QuietStep

LEMMA LoopWaitKeeps ==
  ASSUME IInv, NEW p \in Coroutines, LoopWait(p)
  PROVE  IInv'
  <1>1. pc[p] \in {"idle", "woken"}
    BY DEF LoopWait, MayTry
  <1>2. pc' \in [Coroutines -> Stages] /\ Calm(pc, pc')
    BY <1>1, CalmExcept DEF LoopWait, IInv, Types, Stages
  <1> QED BY <1>2, QuietCoroutine DEF LoopWait, IInv, Types, gates, pipeline, control

LEMMA LoopRefusedKeeps ==
  ASSUME IInv, NEW p \in Coroutines, LoopRefused(p)
  PROVE  IInv'
  <1>1. pc[p] \in {"idle", "woken"}
    BY DEF LoopRefused, MayTry
  <1>2. pc' \in [Coroutines -> Stages] /\ Calm(pc, pc')
    BY <1>1, CalmExcept DEF LoopRefused, IInv, Types, Stages
  <1> QED BY <1>2, QuietCoroutine DEF LoopRefused, IInv, Types, counters, gates, pipeline, control

LEMMA CancelWaitKeeps ==
  ASSUME IInv, NEW p \in Coroutines, CancelWait(p)
  PROVE  IInv'
  <1>1. pc' \in [Coroutines -> Stages] /\ Calm(pc, pc')
    BY CalmExcept DEF CancelWait, IInv, Types, Stages
  <1> QED BY <1>1, QuietCoroutine DEF CancelWait, IInv, Types, counters, gates, pipeline, control

LEMMA SuperviseOverflowKeeps ==
  ASSUME IInv, SuperviseOverflow
  PROVE  IInv'
  <1>1. pc' \in [Coroutines -> Stages] /\ Calm(pc, pc')
    BY CalmExcept, Kinds DEF SuperviseOverflow, IInv, Types, Stages
  <1> QED BY <1>1, QuietCoroutine DEF SuperviseOverflow, IInv, Types, counters, pipeline, control

LEMMA JoinReturnsKeeps ==
  ASSUME IInv, JoinReturns
  PROVE  IInv'
  <1>1. pc' \in [Coroutines -> Stages] /\ Calm(pc, pc')
    BY CalmExcept, Kinds DEF JoinReturns, IInv, Types, Stages
  <1> QED BY <1>1, QuietCoroutine DEF JoinReturns, IInv, Types, counters, gates, pipeline, control

LEMMA StopCallKeeps ==
  ASSUME IInv, StopCall
  PROVE  IInv'
  <1>1. PICK s \in {"closed", "woken"} : pc' = [pc EXCEPT ![Stopper] = s]
    BY DEF StopCall
  <1>2. pc' \in [Coroutines -> Stages] /\ Calm(pc, pc')
    <2>1. /\ pc \in [Coroutines -> Stages] /\ Stopper \in Coroutines /\ s \in Stages
          /\ pc[Stopper] \notin {"acking", "posted", "reserved"}
          /\ s \notin {"committed", "failed", "reserved"}
      BY Kinds DEF StopCall, IInv, Types, Stages
    <2> QED BY <1>1, <2>1, CalmExcept
  <1>3. closed' \in BOOLEAN
    BY DEF StopCall
  <1> QED BY <1>2, <1>3, QuietCoroutine DEF StopCall, IInv, Types, counters, pipeline

LEMMA StopCancelsKeeps ==
  ASSUME IInv, StopCancels
  PROVE  IInv'
  <1>1. pc' \in [Coroutines -> Stages] /\ Calm(pc, pc')
    BY CalmExcept, Kinds DEF StopCancels, IInv, Types, Stages
  <1>2. cancelling' \in BOOLEAN
    BY DEF StopCancels
  <1> QED BY <1>1, <1>2, QuietCoroutine DEF StopCancels, IInv, Types, counters, pipeline

LEMMA StopClosesKeeps ==
  ASSUME IInv, StopCloses
  PROVE  IInv'
  <1>1. PICK to : to = [pc EXCEPT ![Stopper] = "closed"]
    OBVIOUS
  <1>2. to \in [Coroutines -> Stages] /\ Calm(pc, to)
    BY <1>1, CalmExcept, Kinds DEF StopCloses, IInv, Types, Stages
  <1>3. pc' = Wake(to)
    BY <1>1 DEF StopCloses
  <1>4. pc' \in [Coroutines -> Stages] /\ Calm(to, pc')
    BY <1>2, <1>3, CalmWake
  <1>5. Calm(pc, pc')
    BY <1>2, <1>4 DEF Calm
  <1> QED BY <1>4, <1>5, QuietCoroutine DEF StopCloses, IInv, Types, pipeline, control

LEMMA FenceMovesKeeps ==
  ASSUME IInv, FenceMoves
  PROVE  IInv'
  <1>1. Quiet
    BY DEF FenceMoves, Quiet, WorkerGoesOn, Calm, IInv, Types, Locks, counters, gates, pipeline,
           control, producer, threads
  <1> QED BY <1>1, QuietStep

LEMMA WorkerValidateKeeps ==
  ASSUME IInv, WorkerValidate
  PROVE  IInv'
  <1>1. Quiet
    BY DEF WorkerValidate, Quiet, WorkerGoesOn, Calm, IInv, Types, Locks, counters, gates, pipeline,
           producer, threads, store
  <1> QED BY <1>1, QuietStep

LEMMA WorkerNothingLeftKeeps ==
  ASSUME IInv, WorkerNothingLeft
  PROVE  IInv'
  <1>1. Quiet
    BY DEF WorkerNothingLeft, Quiet, WorkerGoesOn, Calm, IInv, Types, Locks, counters, gates,
           pipeline, producer, threads, store
  <1> QED BY <1>1, QuietStep

---------------------------------------------------------------------------
(* Callbacks that carry no envelope, and counting.                         *)

\* cbs to more: callbacks were handed to the loop that put nothing.
Mute(cbs, more) ==
    /\ more \in Seq(Callbacks) /\ \A i \in 1..Len(more) : CallbackOK(more[i])
    /\ Cardinality(PutsOf(more)) = Cardinality(PutsOf(cbs))
    /\ \A at, nums : PutsFly(cbs, at, nums) => PutsFly(more, at, nums)
    /\ \A J, B, Q, S, P : \A N \in Nat :
         0 \notin S /\ Pipe(J, B, Q, Nums(cbs), S, N, P) => Pipe(J, B, Q, Nums(more), S, N, P)
    /\ \A J, B, Q, S, n :
         0 \notin S /\ Fresh(J, B, Q, Nums(cbs), S, n) => Fresh(J, B, Q, Nums(more), S, n)

LEMMA AppendElems ==
  ASSUME NEW T, NEW q \in Seq(T), NEW e \in T
  PROVE  \A i \in 1..Len(Append(q, e)) :
           (i \in 1..Len(q) /\ Append(q, e)[i] = q[i]) \/ Append(q, e)[i] = e
  <1>1. /\ Len(q) \in Nat /\ Len(Append(q, e)) = Len(q) + 1
        /\ \A i \in 1..Len(q) : Append(q, e)[i] = q[i]
        /\ Append(q, e)[Len(q) + 1] = e
    BY AppendProperties, LenProperties
  <1>2. \A i \in 1..(Len(q) + 1) : i \in 1..Len(q) \/ i = Len(q) + 1
    BY <1>1
  <1> QED BY <1>1, <1>2

LEMMA RunOK ==
  ASSUME NEW what \in {"clear", "overflow"}
  PROVE  /\ Run(what) \in Callbacks /\ CallbackOK(Run(what))
         /\ Run(what).run # "put" /\ Run(what).env.seq = 0
  BY DEF Run, Envelope, Callbacks, AnyEnvelope, CallbackOK

LEMMA MuteAppend ==
  ASSUME NEW q \in Seq(Callbacks), \A i \in 1..Len(q) : CallbackOK(q[i]),
         NEW what \in {"clear", "overflow"}
  PROVE  Mute(q, Append(q, Run(what)))
  <1> DEFINE e == Run(what)
             a == Append(q, e)
  <1>1. e \in Callbacks /\ CallbackOK(e) /\ e.run # "put" /\ e.env.seq = 0
    BY RunOK
  <1> HIDE DEF e
  <1>2. a \in Seq(Callbacks) /\ Nums(a) = Append(Nums(q), 0) /\ Nums(q) \in Seq(Nat)
    BY <1>1, AppendProperties, NumsAppend, NumsOK
  <1>3. Cardinality(PutsOf(a)) = Cardinality(PutsOf(q))
    BY <1>1, PutsAppend, PutsFinite
  <1>4. \A i \in 1..Len(a) : (i \in 1..Len(q) /\ a[i] = q[i]) \/ a[i] = e
    BY <1>1, AppendElems
  <1> HIDE DEF a
  <1>5. \A i \in 1..Len(a) : CallbackOK(a[i])
    BY <1>1, <1>4
  <1>6. \A at, nums : PutsFly(q, at, nums) => PutsFly(a, at, nums)
    BY <1>1, <1>4 DEF PutsFly
  <1>7. ASSUME NEW J, NEW B, NEW Q, NEW S, NEW P, NEW N \in Nat, 0 \notin S,
               Pipe(J, B, Q, Nums(q), S, N, P)
        PROVE  Pipe(J, B, Q, Nums(a), S, N, P)
    <2>1. Fresh(J, B, Q, Nums(q), S, 0)
      BY <1>7, ZeroAnywhere DEF Fresh
    <2>2. 0 <= N /\ 0 \in Nat
      OBVIOUS
    <2> QED BY <2>1, <2>2, <1>2, <1>7, PipeAppend
  <1>8. ASSUME NEW J, NEW B, NEW Q, NEW S, NEW n, 0 \notin S, Fresh(J, B, Q, Nums(q), S, n)
        PROVE  Fresh(J, B, Q, Nums(a), S, n)
    <2>1. Before(0, n, S) /\ 0 \in Nat
      BY <1>8, ZeroAnywhere
    <2> QED BY <2>1, <1>2, <1>8, FreshAppend
  <1>9. Mute(q, a)
    BY <1>2, <1>3, <1>5, <1>6, <1>7, <1>8 DEF Mute
  <1> QED BY <1>9 DEF a, e

LEMMA MuteSame ==
  ASSUME NEW q \in Seq(Callbacks), \A i \in 1..Len(q) : CallbackOK(q[i])
  PROVE  Mute(q, q)
  BY DEF Mute

LEMMA MuteTwice ==
  ASSUME NEW q, NEW a, NEW b, Mute(q, a), Mute(a, b)
  PROVE  Mute(q, b)
  BY DEF Mute

\* The slots of a state, as numbers.
LEMMA Counts ==
  ASSUME IInv
  PROVE  /\ Puts = PutsOf(ready) /\ Cardinality(PutsOf(ready)) \in Nat
         /\ Len(queue) \in Nat /\ Len(batch) \in Nat /\ Len(reduced) \in Nat
         /\ ThreadSlot \in {0, 1} /\ LoopSlot \in {0, 1}
         /\ outstanding \in Nat /\ Capacity \in Nat
         /\ Seqs(batch) \in Seq(Nat) /\ Seqs(queue) \in Seq(Nat) /\ Nums(ready) \in Seq(Nat)
         /\ 0 \notin sdkSeqs /\ sdkSeqs \in SUBSET (1..nextSeq) /\ nextSeq \in Nat
  <1>1. Puts = PutsOf(ready)
    BY DEF Puts, PutsOf
  <1>2. ready \in Seq(Callbacks) /\ queue \in Seq(Envelopes) /\ batch \in Seq(Envelopes)
        /\ reduced \in Seq(Nat) /\ outstanding \in Nat
        /\ sdkSeqs \in SUBSET (1..nextSeq) /\ nextSeq \in Nat
    BY DEF IInv, Types
  <1>3. ThreadSlot \in {0, 1} /\ LoopSlot \in {0, 1}
    BY DEF ThreadSlot, LoopSlot
  <1>4. 0 \notin sdkSeqs
    BY <1>2
  <1> QED BY <1>1, <1>2, <1>3, <1>4, PutsFinite, LenProperties, SeqsOK, NumsOK, Kinds

\* SlotsAccounted counts the holders as sets; each set has one member at most.
LEMMA HolderSets ==
  ASSUME IInv
  PROVE  /\ Cardinality({t \in SdkThreads : sdk[t] = "reserved"}) = ThreadSlot
         /\ Cardinality({p \in Coroutines : pc[p] = "reserved"}) = LoopSlot
  <1>1. Cardinality({t \in SdkThreads : sdk[t] = "reserved"}) = ThreadSlot
    <2>1. CASE \E t \in SdkThreads : sdk[t] = "reserved"
      <3>1. PICK t \in SdkThreads : sdk[t] = "reserved"
        BY <2>1
      <3>2. {u \in SdkThreads : sdk[u] = "reserved"} = {t}
        BY <3>1 DEF IInv, Locks
      <3> QED BY <3>2, <2>1, FS_Singleton DEF ThreadSlot
    <2>2. CASE ~\E t \in SdkThreads : sdk[t] = "reserved"
      <3>1. {u \in SdkThreads : sdk[u] = "reserved"} = {}
        BY <2>2
      <3> QED BY <3>1, <2>2, FS_EmptySet DEF ThreadSlot
    <2> QED BY <2>1, <2>2
  <1>2. Cardinality({p \in Coroutines : pc[p] = "reserved"}) = LoopSlot
    <2>1. CASE loop = NoOne
      <3>1. {p \in Coroutines : pc[p] = "reserved"} = {}
        BY <2>1, Kinds DEF IInv, Locks
      <3> QED BY <3>1, <2>1, FS_EmptySet DEF LoopSlot
    <2>2. CASE loop # NoOne
      <3>1. {p \in Coroutines : pc[p] = "reserved"} = {loop}
        BY <2>2 DEF IInv, Locks, Types
      <3> QED BY <3>1, <2>2, FS_Singleton DEF LoopSlot
    <2> QED BY <2>1, <2>2
  <1> QED BY <1>1, <1>2

---------------------------------------------------------------------------
(* Producers: a number is handed out, lost or scheduled.                   *)

\* NothingVanishes, with the batch that is journaled and not acknowledged as a
\* number of its own.
Journaled == IF reducer = "persisted" THEN Len(batch) ELSE 0

LEMMA FlyKeep ==
  ASSUME IInv, NEW to, NEW nums,
         \A p \in Coroutines :
           pc[p] \in {"acking", "posted"} => to[p] = pc[p] /\ nums[p] = seqOf[p]
  PROVE  EnvsFly(batch, to, nums) /\ EnvsFly(queue, to, nums) /\ PutsFly(ready, to, nums)
  <1>1. \A e : Flying(e, pc, seqOf) => Flying(e, to, nums)
    BY DEF Flying
  <1> QED BY <1>1 DEF IInv, InFlight, EnvsFly, PutsFly

LEMMA ReportsKeep ==
  ASSUME IInv, UNCHANGED <<reduced, batch, reducer, bound>>,
         \A p \in Waiters : pc'[p] \in {"committed", "failed"} =>
                              pc'[p] = pc[p] /\ seqOf'[p] = seqOf[p]
  PROVE  Reports'
  <1>1. reducer' = "persisted" /\ bound' => \A i \in 1..Len(batch') : Contains(reduced', batch'[i].seq)
    BY DEF Reports, IInv
  <1>2. \A p \in Waiters :
          /\ pc'[p] = "committed" /\ bound' => Contains(reduced', seqOf'[p])
          /\ pc'[p] = "failed" => reducer' = "dead" /\ ~Contains(reduced', seqOf'[p])
    BY DEF Reports, IInv
  <1> QED BY <1>1, <1>2 DEF Reports

\* A step of a producer: what the worker owns stays.
ProducerStep ==
    /\ UNCHANGED <<queue, batch, reducer, reduced, bound, incidents>>
    /\ space' \in BOOLEAN
    /\ UNCHANGED <<closed, sdkClosed, overflowed, cancelling, stopping, delivered>>

LEMMA ProducerTypes ==
  ASSUME IInv, ProducerStep,
         outstanding' \in Nat, nextSeq' \in Nat, lost' \in Nat,
         ready' \in Seq(Callbacks), \A i \in 1..Len(ready') : CallbackOK(ready'[i]),
         loop' \in Coroutines \cup {NoOne}, pc' \in [Coroutines -> Stages],
         seqOf' \in [Producers -> Nat],
         sdk' \in [SdkThreads -> {"idle", "checked", "reserved"}],
         ingress' \in SdkThreads \cup {NoOne}, sdkSeqs' \subseteq 1..nextSeq'
  PROVE  Types'
  BY DEF Types, IInv, ProducerStep

\* The line and the numbers held, when a number is handed out.
LEMMA NumberOrder ==
  ASSUME IInv, ProducerStep, nextSeq' = nextSeq + 1, Mute(ready, ready'),
         sdkSeqs' = sdkSeqs \/ sdkSeqs' = sdkSeqs \cup {nextSeq + 1}
  PROVE  /\ Order' /\ sdkSeqs' \subseteq 1..nextSeq' /\ nextSeq' \in Nat
         /\ \A n \in Nat : Held(n) \/ n = nextSeq' =>
              /\ n \in 1..nextSeq'
              /\ Fresh(reduced', Seqs(batch'), Seqs(queue'), Nums(ready'), sdkSeqs', n)
         /\ \A n : Held(n) => (n \in sdkSeqs' <=> n \in sdkSeqs)
  <1> DEFINE J == reduced
             B == Seqs(batch)
             Q == Seqs(queue)
             R == Nums(ready)
             N == nextSeq
             S == sdkSeqs
             U == sdkSeqs'
             P == reducer = "persisted"
  <1>1. /\ J \in Seq(Nat) /\ B \in Seq(Nat) /\ Q \in Seq(Nat) /\ R \in Seq(Nat)
        /\ N \in Nat /\ S \in SUBSET (1..N) /\ (U = S \/ U = S \cup {N + 1})
        /\ Pipe(J, B, Q, R, S, N, P)
    BY Counts DEF IInv, Types, Order
  <1>2. 0 \notin U /\ U \subseteq 1..(N + 1) /\ N + 1 \in Nat
    <2> HIDE DEF J, B, Q, R, N, S, U, P
    <2>1. 1..N \subseteq 1..(N + 1) /\ N + 1 \in 1..(N + 1) /\ 0 \notin 1..(N + 1)
      BY <1>1
    <2>2. \A x \in U : x \in 1..N \/ x = N + 1
      BY <1>1
    <2>3. \A x \in U : x \in 1..(N + 1)
      BY <2>1, <2>2
    <2> QED BY <1>1, <2>1, <2>3
  <1>3. \A n : Held(n) <=> n \in 1..N /\ Fresh(J, B, Q, R, S, n)
    BY DEF Held
  <1>4. /\ reduced' = reduced /\ batch' = batch /\ queue' = queue /\ reducer' = reducer
    BY DEF ProducerStep
  <1> HIDE DEF J, B, Q, R, N, S, U, P
  <1>5. /\ Pipe(J, B, Q, R, U, N + 1, P)
        /\ \A x \in 1..N : Fresh(J, B, Q, R, S, x) => Fresh(J, B, Q, R, U, x)
        /\ Fresh(J, B, Q, R, U, N + 1)
    BY <1>1, PipeNumber
  <1>6. Pipe(J, B, Q, Nums(ready'), U, N + 1, P)
    BY <1>2, <1>5 DEF Mute, R
  <1>7. \A n : Fresh(J, B, Q, R, U, n) => Fresh(J, B, Q, Nums(ready'), U, n)
    BY <1>2 DEF Mute, R
  <1>8. Order'
    BY <1>4, <1>6 DEF Order, J, B, Q, U, N, P
  <1>9. \A n \in Nat : Held(n) \/ n = N + 1 =>
              n \in 1..(N + 1) /\ Fresh(J, B, Q, Nums(ready'), U, n)
    <2> SUFFICES ASSUME NEW n \in Nat, Held(n) \/ n = N + 1
                 PROVE  n \in 1..(N + 1) /\ Fresh(J, B, Q, Nums(ready'), U, n)
      OBVIOUS
    <2>1. n \in 1..(N + 1)
      BY <1>1, <1>3
    <2>2. Fresh(J, B, Q, R, U, n)
      BY <1>3, <1>5
    <2> QED BY <2>1, <2>2, <1>7
  <1>10. \A n : Held(n) => (n \in U <=> n \in S)
    BY <1>1, <1>3
  <1> QED BY <1>2, <1>4, <1>8, <1>9, <1>10 DEF J, B, Q, U, N, S

\* A number handed out is lost or takes a slot.
LEMMA NumberCounted ==
  ASSUME IInv, ProducerStep, nextSeq' = nextSeq + 1, lost' \in Nat, outstanding' \in Nat,
         lost' + outstanding' = lost + outstanding + 1
  PROVE  NothingVanishes'
  <1>1. /\ reducer' = reducer /\ bound' = bound /\ reduced' = reduced /\ batch' = batch
        /\ incidents' = incidents
    BY DEF ProducerStep
  <1>2. /\ Len(reduced) \in Nat /\ incidents \in Nat /\ outstanding \in Nat /\ lost \in Nat
        /\ Len(batch) \in Nat /\ nextSeq \in Nat
    BY Counts DEF IInv, Types
  <1>3. Journaled \in Nat /\ Journaled' = Journaled
    BY <1>1, <1>2 DEF Journaled
  <1> SUFFICES ASSUME reducer' # "dead" /\ bound'
               PROVE  nextSeq' = Len(reduced') + incidents' + lost' + outstanding' - Journaled'
    BY DEF NothingVanishes, Journaled
  <1>4. nextSeq = Len(reduced) + incidents + lost + outstanding - Journaled
    BY <1>1 DEF NothingVanishes, Journaled, IInv
  <1>5. /\ lost' + outstanding' = lost + outstanding + 1 /\ nextSeq' = nextSeq + 1
        /\ lost' \in Nat /\ outstanding' \in Nat
    OBVIOUS
  <1>6. nextSeq + 1 = Len(reduced) + incidents + lost' + outstanding' - Journaled
    <2>1. PICK a \in Nat, k \in Nat : a = Len(reduced) /\ k = Journaled
      BY <1>2, <1>3
    <2>2. PICK e \in Nat, f \in Nat : e = lost' /\ f = outstanding'
      BY <1>5
    <2>3. nextSeq = a + incidents + lost + outstanding - k
      BY <1>4, <2>1
    <2>4. e + f = lost + outstanding + 1
      BY <1>5, <2>2
    <2>5. nextSeq + 1 = a + incidents + e + f - k
      BY <2>3, <2>4, <1>2
    <2> QED BY <2>1, <2>2, <2>5
  <1> QED BY <1>1, <1>3, <1>5, <1>6

\* _record_overflow_locked: a number is spent and counted as lost.
LEMMA LoseStep ==
  ASSUME IInv, ProducerStep, nextSeq' = nextSeq + 1, lost' = lost + 1, Mute(ready, ready'),
         UNCHANGED <<outstanding, loop, seqOf, sdkSeqs>>,
         pc' \in [Coroutines -> Stages], Calm(pc, pc'),
         sdk' \in [SdkThreads -> {"idle", "checked", "reserved"}],
         ingress' \in SdkThreads \cup {NoOne},
         \A t \in SdkThreads : sdk'[t] # "idle" <=> ingress' = t,
         \A t \in SdkThreads : sdk'[t] = "reserved" <=> sdk[t] = "reserved"
  PROVE  IInv'
  <1>1. /\ Order' /\ sdkSeqs' \subseteq 1..nextSeq' /\ nextSeq' \in Nat
        /\ \A n \in Nat : Held(n) =>
              /\ n \in 1..nextSeq'
              /\ Fresh(reduced', Seqs(batch'), Seqs(queue'), Nums(ready'), sdkSeqs', n)
    BY NumberOrder
  <1>2. Types'
    BY <1>1, ProducerTypes DEF IInv, Types, Mute
  <1>3. Locks'
    <2>1. \A p \in Coroutines : (pc[p] = "reserved" <=> loop = p)'
      BY DEF IInv, Locks, Calm
    <2> QED BY <2>1 DEF IInv, Locks, ProducerStep
  <1>4. Slots'
    <2>1. ThreadSlot' = ThreadSlot /\ LoopSlot' = LoopSlot
      BY DEF ThreadSlot, LoopSlot
    <2>2. Cardinality(Puts') = Cardinality(Puts)
      BY DEF Mute, Puts, PutsOf
    <2> QED BY <2>1, <2>2 DEF Slots, IInv, ProducerStep
  <1>5. NothingVanishes'
    <2>1. lost' + outstanding' = lost + outstanding + 1 /\ lost' \in Nat /\ outstanding' \in Nat
      BY Counts DEF IInv, Types
    <2> QED BY <2>1, NumberCounted
  <1>6. Holders'
    <2>1. \A h \in Producers : seqOf'[h] = seqOf[h] /\ seqOf[h] \in Nat
      BY DEF IInv, Types
    <2>2. \A t \in SdkThreads : sdk'[t] = "reserved" => Held(seqOf[t]) /\ seqOf[t] \in sdkSeqs'
      BY DEF IInv, Holders
    <2>3. \A p \in Coroutines : loop' = p => Held(seqOf[p]) /\ seqOf[p] \notin sdkSeqs'
      BY DEF IInv, Holders
    <2> QED BY <1>1, <2>1, <2>2, <2>3, Kinds DEF Holders, Held
  <1>7. InFlight'
    <2>1. EnvsFly(batch, pc', seqOf') /\ EnvsFly(queue, pc', seqOf') /\ PutsFly(ready, pc', seqOf')
      BY FlyKeep DEF Calm
    <2> QED BY <2>1 DEF InFlight, Mute, ProducerStep
  <1>8. Reports'
    <2>1. \A p \in Waiters : pc'[p] \in {"committed", "failed"} =>
                               pc'[p] = pc[p] /\ seqOf'[p] = seqOf[p]
      BY Kinds DEF Calm
    <2> QED BY <2>1, ReportsKeep DEF ProducerStep
  <1> QED BY <1>1, <1>2, <1>3, <1>4, <1>5, <1>6, <1>7, <1>8 DEF IInv

LEMMA SdkOverflowKeeps ==
  ASSUME IInv, NEW t \in SdkThreads, SdkOverflow(t)
  PROVE  IInv'
  <1>1. /\ ready \in Seq(Callbacks) /\ \A i \in 1..Len(ready) : CallbackOK(ready[i])
    BY DEF IInv, Types
  <1>2. ready' = Append(Append(ready, Run("clear")), Run("overflow"))
    BY <1>1, AppendTwo, RunOK DEF SdkOverflow
  <1>3. Mute(ready, Append(ready, Run("clear")))
    BY <1>1, MuteAppend
  <1>4. Mute(Append(ready, Run("clear")), ready')
    BY <1>2, <1>3, MuteAppend DEF Mute
  <1>5. Mute(ready, ready')
    BY <1>3, <1>4, MuteTwice
  <1>6. ProducerStep
    BY DEF ProducerStep, SdkOverflow, gates, control, producer, store, IInv, Types
  <1>7. nextSeq' = nextSeq + 1 /\ lost' = lost + 1
        /\ UNCHANGED <<outstanding, loop, seqOf, sdkSeqs, pc>>
    BY DEF SdkOverflow, RecordOverflow, producer, store
  <1>8. pc' \in [Coroutines -> Stages] /\ Calm(pc, pc')
    BY <1>7 DEF Calm, IInv, Types
  <1>9. /\ sdk' \in [SdkThreads -> {"idle", "checked", "reserved"}]
        /\ ingress' \in SdkThreads \cup {NoOne}
        /\ \A u \in SdkThreads : sdk'[u] # "idle" <=> ingress' = u
        /\ \A u \in SdkThreads : sdk'[u] = "reserved" <=> sdk[u] = "reserved"
    BY Kinds DEF SdkOverflow, IInv, Types, Locks
  <1> QED BY <1>5, <1>6, <1>7, <1>8, <1>9, LoseStep

LEMMA LoopOverflowKeeps ==
  ASSUME IInv, NEW p \in Coroutines, LoopOverflow(p)
  PROVE  IInv'
  <1>1. Mute(ready, ready')
    BY MuteAppend DEF LoopOverflow, IInv, Types
  <1>2. ProducerStep
    BY DEF ProducerStep, LoopOverflow, gates, control, threads, store, IInv, Types
  <1>3. nextSeq' = nextSeq + 1 /\ lost' = lost + 1
        /\ UNCHANGED <<outstanding, loop, seqOf, sdkSeqs, sdk, ingress>>
    BY DEF LoopOverflow, RecordOverflow, threads, store
  <1>4. pc[p] \in {"idle", "woken"}
    BY DEF LoopOverflow, MayTry
  <1>5. pc' \in [Coroutines -> Stages] /\ Calm(pc, pc')
    BY <1>4, CalmExcept DEF LoopOverflow, IInv, Types, Stages
  <1>6. /\ sdk' \in [SdkThreads -> {"idle", "checked", "reserved"}]
        /\ ingress' \in SdkThreads \cup {NoOne}
        /\ \A u \in SdkThreads : sdk'[u] # "idle" <=> ingress' = u
        /\ \A u \in SdkThreads : sdk'[u] = "reserved" <=> sdk[u] = "reserved"
    BY <1>3 DEF IInv, Types, Locks
  <1> QED BY <1>1, <1>2, <1>3, <1>5, <1>6, LoseStep

\* _reserve grants a slot to an SDK thread.
LEMMA SdkReserveKeeps ==
  ASSUME IInv, NEW t \in SdkThreads, SdkReserve(t)
  PROVE  IInv'
  <1>1. /\ nextSeq' = nextSeq + 1 /\ outstanding' = outstanding + 1 /\ outstanding < Capacity
        /\ seqOf' = [seqOf EXCEPT ![t] = nextSeq + 1] /\ sdk' = [sdk EXCEPT ![t] = "reserved"]
        /\ sdkSeqs' = sdkSeqs \cup {nextSeq + 1} /\ sdk[t] = "checked"
        /\ UNCHANGED <<lost, loop, pc, ingress>>
    BY Counts DEF SdkReserve, TakeSlot, Full
  <1>2. ProducerStep
    BY DEF ProducerStep, SdkReserve, gates, control, IInv, Types
  <1>3. Mute(ready, ready')
    <2>1. ready \in Seq(Callbacks) /\ \A i \in 1..Len(ready) : CallbackOK(ready[i])
      BY DEF IInv, Types
    <2>2. ready' = ready \/ ready' = Append(ready, Run("clear"))
      BY DEF SdkReserve
    <2> QED BY <2>1, <2>2, MuteSame, MuteAppend
  <1>4. /\ Order' /\ sdkSeqs' \subseteq 1..nextSeq' /\ nextSeq' \in Nat
        /\ \A n \in Nat : Held(n) \/ n = nextSeq' =>
              /\ n \in 1..nextSeq'
              /\ Fresh(reduced', Seqs(batch'), Seqs(queue'), Nums(ready'), sdkSeqs', n)
        /\ \A n : Held(n) => (n \in sdkSeqs' <=> n \in sdkSeqs)
    BY <1>1, <1>2, <1>3, NumberOrder
  <1>5. /\ seqOf' \in [Producers -> Nat] /\ seqOf'[t] = nextSeq + 1
        /\ \A p \in Coroutines : seqOf'[p] = seqOf[p]
    BY <1>1, Kinds DEF IInv, Types
  <1>6. /\ sdk' \in [SdkThreads -> {"idle", "checked", "reserved"}] /\ sdk'[t] = "reserved"
        /\ \A u \in SdkThreads : u # t => sdk'[u] = "idle" /\ sdk[u] = "idle"
        /\ ingress = t
    BY <1>1 DEF IInv, Types, Locks
  <1>7. Types'
    BY <1>1, <1>2, <1>3, <1>4, <1>5, <1>6, ProducerTypes DEF IInv, Types, Mute
  <1>8. Locks'
    BY <1>1, <1>2, <1>6 DEF IInv, Locks, ProducerStep
  <1>9. Slots'
    <2>1. ThreadSlot = 0 /\ ThreadSlot' = 1 /\ LoopSlot' = LoopSlot
      BY <1>1, <1>6 DEF ThreadSlot, LoopSlot
    <2>2. Cardinality(Puts') = Cardinality(Puts)
      BY <1>3 DEF Mute, Puts, PutsOf
    <2>3. Len(queue') = Len(queue) /\ Len(batch') = Len(batch)
      BY <1>2 DEF ProducerStep
    <2>4. outstanding = Cardinality(Puts) + Len(queue) + Len(batch) + ThreadSlot + LoopSlot
      BY DEF IInv, Slots
    <2> QED BY <1>1, <2>1, <2>2, <2>3, <2>4, Counts DEF Slots
  <1>10. NothingVanishes'
    <2>1. lost' + outstanding' = lost + outstanding + 1 /\ lost' \in Nat /\ outstanding' \in Nat
      BY <1>1, Counts DEF IInv, Types
    <2> QED BY <2>1, <1>1, <1>2, NumberCounted
  <1>11. Holders'
    <2>1. \A u \in SdkThreads : sdk'[u] = "reserved" => u = t
      BY <1>6
    <2>2. Held(seqOf[t])' /\ seqOf'[t] \in sdkSeqs'
      BY <1>1, <1>4, <1>5 DEF Held
    <2>3. ASSUME NEW p \in Coroutines, loop' = p
          PROVE  Held(seqOf[p])' /\ seqOf'[p] \notin sdkSeqs'
      <3>1. Held(seqOf[p]) /\ seqOf[p] \notin sdkSeqs /\ seqOf[p] \in Nat
        BY <1>1, <2>3, Kinds DEF IInv, Types, Holders
      <3> QED BY <3>1, <1>4, <1>5 DEF Held
    <2> QED BY <2>1, <2>2, <2>3 DEF Holders
  <1>12. InFlight'
    <2>1. EnvsFly(batch, pc', seqOf') /\ EnvsFly(queue, pc', seqOf') /\ PutsFly(ready, pc', seqOf')
      BY <1>1, <1>5, FlyKeep
    <2> QED BY <2>1, <1>2, <1>3 DEF InFlight, Mute, ProducerStep
  <1>13. Reports'
    BY <1>1, <1>2, <1>5, Kinds, ReportsKeep DEF ProducerStep
  <1> QED BY <1>4, <1>7, <1>8, <1>9, <1>10, <1>11, <1>12, <1>13 DEF IInv

\* _reserve grants a slot to a coroutine.
LEMMA LoopReserveKeeps ==
  ASSUME IInv, NEW q \in Coroutines, LoopReserve(q)
  PROVE  IInv'
  <1>1. /\ nextSeq' = nextSeq + 1 /\ outstanding' = outstanding + 1 /\ outstanding < Capacity
        /\ seqOf' = [seqOf EXCEPT ![q] = nextSeq + 1] /\ pc' = [pc EXCEPT ![q] = "reserved"]
        /\ loop = NoOne /\ loop' = q /\ pc[q] \in {"idle", "woken"}
        /\ UNCHANGED <<lost, ready, sdkSeqs, sdk, ingress>>
    BY Counts DEF LoopReserve, TakeSlot, Full, MayTry, pipeline, threads, store
  <1>2. ProducerStep
    <2>1. space' \in BOOLEAN
      BY DEF LoopReserve
    <2> QED BY <2>1 DEF ProducerStep, LoopReserve, gates, pipeline, control, threads, store
  <1>3. Mute(ready, ready')
    BY <1>1, MuteSame DEF IInv, Types
  <1>4. /\ Order' /\ sdkSeqs' \subseteq 1..nextSeq' /\ nextSeq' \in Nat
        /\ \A n \in Nat : Held(n) \/ n = nextSeq' =>
              /\ n \in 1..nextSeq'
              /\ Fresh(reduced', Seqs(batch'), Seqs(queue'), Nums(ready'), sdkSeqs', n)
    BY <1>1, <1>2, <1>3, NumberOrder
  <1>5. /\ seqOf' \in [Producers -> Nat] /\ seqOf'[q] = nextSeq + 1
        /\ \A h \in Producers : h # q => seqOf'[h] = seqOf[h]
    BY <1>1, Kinds DEF IInv, Types
  <1>6. /\ pc' \in [Coroutines -> Stages] /\ pc'[q] = "reserved"
        /\ \A p \in Coroutines : p # q => pc'[p] = pc[p]
        /\ \A p \in Coroutines : pc[p] # "reserved"
    <2>1. \A p \in Coroutines : pc[p] # "reserved"
      BY <1>1, Kinds DEF IInv, Locks
    <2> QED BY <2>1, <1>1 DEF IInv, Types, Stages
  <1>7. Types'
    BY <1>1, <1>2, <1>3, <1>4, <1>5, <1>6, ProducerTypes DEF IInv, Types, Mute
  <1>8. Locks'
    BY <1>1, <1>2, <1>6 DEF IInv, Locks, ProducerStep
  <1>9. Slots'
    <2>1. ThreadSlot' = ThreadSlot /\ LoopSlot = 0 /\ LoopSlot' = 1
      BY <1>1, Kinds DEF ThreadSlot, LoopSlot
    <2>2. Cardinality(Puts') = Cardinality(Puts)
      BY <1>3 DEF Mute, Puts, PutsOf
    <2>3. Len(queue') = Len(queue) /\ Len(batch') = Len(batch)
      BY <1>2 DEF ProducerStep
    <2>4. outstanding = Cardinality(Puts) + Len(queue) + Len(batch) + ThreadSlot + LoopSlot
      BY DEF IInv, Slots
    <2> QED BY <1>1, <2>1, <2>2, <2>3, <2>4, Counts DEF Slots
  <1>10. NothingVanishes'
    <2>1. lost' + outstanding' = lost + outstanding + 1 /\ lost' \in Nat /\ outstanding' \in Nat
      BY <1>1, Counts DEF IInv, Types
    <2> QED BY <2>1, <1>1, <1>2, NumberCounted
  <1>11. Holders'
    <2>1. ASSUME NEW t \in SdkThreads, sdk'[t] = "reserved"
          PROVE  Held(seqOf[t])' /\ seqOf'[t] \in sdkSeqs'
      <3>1. Held(seqOf[t]) /\ seqOf[t] \in sdkSeqs /\ seqOf[t] \in Nat /\ t # q
        BY <1>1, <2>1, Kinds DEF IInv, Types, Holders
      <3>2. seqOf'[t] = seqOf[t]
        BY <3>1, <1>5, Kinds
      <3> QED BY <3>1, <3>2, <1>1, <1>4 DEF Held
    <2>2. Held(seqOf[q])' /\ seqOf'[q] \notin sdkSeqs'
      <3>1. nextSeq + 1 \notin sdkSeqs
        BY Counts
      <3> QED BY <3>1, <1>1, <1>4, <1>5 DEF Held
    <2> QED BY <1>1, <2>1, <2>2 DEF Holders
  <1>12. InFlight'
    <2>1. \A p \in Coroutines :
            pc[p] \in {"acking", "posted"} => pc'[p] = pc[p] /\ seqOf'[p] = seqOf[p]
      BY <1>1, <1>5, <1>6, Kinds
    <2>2. EnvsFly(batch, pc', seqOf') /\ EnvsFly(queue, pc', seqOf') /\ PutsFly(ready, pc', seqOf')
      BY <2>1, FlyKeep
    <2> QED BY <2>2, <1>2, <1>3 DEF InFlight, Mute, ProducerStep
  <1>13. Reports'
    <2>1. \A p \in Waiters : pc'[p] \in {"committed", "failed"} =>
                               pc'[p] = pc[p] /\ seqOf'[p] = seqOf[p]
      BY <1>1, <1>5, <1>6, Kinds
    <2> QED BY <2>1, <1>2, ReportsKeep DEF ProducerStep
  <1> QED BY <1>4, <1>7, <1>8, <1>9, <1>10, <1>11, <1>12, <1>13 DEF IInv

\* _schedule: the number a producer holds enters the line.
LEMMA ScheduleStep ==
  ASSUME IInv, ProducerStep, NEW h \in Producers, Held(seqOf[h]),
         ready' = Append(ready, Put(h, seqOf[h])), UNCHANGED <<nextSeq, sdkSeqs, seqOf>>
  PROVE  /\ ready' \in Seq(Callbacks) /\ \A i \in 1..Len(ready') : CallbackOK(ready'[i])
         /\ Cardinality(Puts') = Cardinality(Puts) + 1
         /\ Order'
         /\ \A n : Held(n) /\ Before(seqOf[h], n, sdkSeqs) =>
              /\ n \in 1..nextSeq'
              /\ Fresh(reduced', Seqs(batch'), Seqs(queue'), Nums(ready'), sdkSeqs', n)
         /\ \A at, nums : PutsFly(ready, at, nums)
                            /\ (h \in Coroutines => seqOf[h] = nums[h]
                                                    /\ at[h] \in {"acking", "posted"})
                          => PutsFly(ready', at, nums)
  <1> DEFINE x == seqOf[h]
             e == Put(h, x)
  <1>1. x \in Nat /\ x # 0 /\ x <= nextSeq
        /\ Fresh(reduced, Seqs(batch), Seqs(queue), Nums(ready), sdkSeqs, x)
    BY Counts DEF Held
  <1> HIDE DEF x
  <1>2. /\ e \in Callbacks /\ e.run = "put" /\ e.env.seq = x /\ e.env.from = h
        /\ e.env \in Envelopes /\ CallbackOK(e)
    BY <1>1 DEF Put, Envelope, Callbacks, AnyEnvelope, Envelopes, CallbackOK, Producers
  <1> HIDE DEF e
  <1>3. ready \in Seq(Callbacks) /\ (\A i \in 1..Len(ready) : CallbackOK(ready[i]))
        /\ ready' = Append(ready, e)
    BY DEF IInv, Types, e, x
  <1>4. ready' \in Seq(Callbacks)
    BY <1>2, <1>3, AppendProperties
  <1>5. \A i \in 1..Len(ready') : (i \in 1..Len(ready) /\ ready'[i] = ready[i]) \/ ready'[i] = e
    BY <1>2, <1>3, AppendElems
  <1>6. \A i \in 1..Len(ready') : CallbackOK(ready'[i])
    BY <1>2, <1>3, <1>5
  <1>7. Cardinality(Puts') = Cardinality(Puts) + 1
    <2>1. Cardinality(PutsOf(ready')) = Cardinality(PutsOf(ready)) + 1
      BY <1>2, <1>3, PutsAppend
    <2> QED BY <2>1 DEF Puts, PutsOf
  <1>8. Nums(ready') = Append(Nums(ready), x) /\ Nums(ready) \in Seq(Nat)
    BY <1>2, <1>3, NumsAppend, NumsOK
  <1>9. /\ reduced' = reduced /\ batch' = batch /\ queue' = queue /\ reducer' = reducer
        /\ nextSeq' = nextSeq /\ sdkSeqs' = sdkSeqs
    BY DEF ProducerStep
  <1>10. Order'
    <2>1. Pipe(reduced, Seqs(batch), Seqs(queue), Nums(ready), sdkSeqs, nextSeq, reducer = "persisted")
      BY DEF IInv, Order
    <2>2. Pipe(reduced, Seqs(batch), Seqs(queue), Append(Nums(ready), x), sdkSeqs, nextSeq,
               reducer = "persisted")
      BY <1>1, <1>8, <2>1, PipeAppend
    <2> QED BY <1>8, <1>9, <2>2 DEF Order
  <1>11. ASSUME NEW n, Held(n), Before(x, n, sdkSeqs)
         PROVE  /\ n \in 1..nextSeq'
                /\ Fresh(reduced', Seqs(batch'), Seqs(queue'), Nums(ready'), sdkSeqs', n)
    <2>1. n \in 1..nextSeq /\ Fresh(reduced, Seqs(batch), Seqs(queue), Nums(ready), sdkSeqs, n)
      BY <1>11 DEF Held
    <2>2. Fresh(reduced, Seqs(batch), Seqs(queue), Append(Nums(ready), x), sdkSeqs, n)
      BY <1>1, <1>8, <1>11, <2>1, FreshAppend
    <2> QED BY <1>8, <1>9, <2>1, <2>2
  <1>12. ASSUME NEW at, NEW nums, PutsFly(ready, at, nums),
                h \in Coroutines => x = nums[h] /\ at[h] \in {"acking", "posted"}
         PROVE  PutsFly(ready', at, nums)
    <2>1. Flying(e.env, at, nums)
      BY <1>1, <1>2, <1>12 DEF Flying
    <2> QED BY <1>5, <1>12, <2>1 DEF PutsFly
  <1> QED BY <1>4, <1>6, <1>7, <1>10, <1>11, <1>12 DEF x

LEMMA SdkScheduleKeeps ==
  ASSUME IInv, NEW t \in SdkThreads, SdkSchedule(t)
  PROVE  IInv'
  <1>1. /\ sdk[t] = "reserved" /\ ready' = Append(ready, Put(t, seqOf[t]))
        /\ sdk' = [sdk EXCEPT ![t] = "idle"] /\ ingress' = NoOne
        /\ UNCHANGED <<nextSeq, sdkSeqs, seqOf, outstanding, lost, loop, pc>>
    BY DEF SdkSchedule, counters, producer, store
  <1>2. ProducerStep
    BY DEF ProducerStep, SdkSchedule, counters, gates, control, store, IInv, Types
  <1>3. t \in Producers /\ Held(seqOf[t]) /\ seqOf[t] \in sdkSeqs
    BY <1>1, Kinds DEF IInv, Holders
  <1>4. /\ ready' \in Seq(Callbacks) /\ \A i \in 1..Len(ready') : CallbackOK(ready'[i])
        /\ Cardinality(Puts') = Cardinality(Puts) + 1
        /\ Order'
        /\ \A n : Held(n) /\ Before(seqOf[t], n, sdkSeqs) =>
              /\ n \in 1..nextSeq'
              /\ Fresh(reduced', Seqs(batch'), Seqs(queue'), Nums(ready'), sdkSeqs', n)
        /\ \A at, nums : PutsFly(ready, at, nums)
                            /\ (t \in Coroutines => seqOf[t] = nums[t]
                                                    /\ at[t] \in {"acking", "posted"})
                          => PutsFly(ready', at, nums)
    BY <1>1, <1>2, <1>3, ScheduleStep
  <1>5. /\ sdk' \in [SdkThreads -> {"idle", "checked", "reserved"}]
        /\ \A u \in SdkThreads : sdk'[u] = "idle"
    BY <1>1 DEF IInv, Types, Locks
  <1>6. Types'
    BY <1>1, <1>2, <1>4, <1>5, ProducerTypes DEF IInv, Types
  <1>7. Locks'
    BY <1>1, <1>2, <1>5, Kinds DEF IInv, Locks, ProducerStep
  <1>8. Slots'
    <2>1. ThreadSlot = 1 /\ ThreadSlot' = 0 /\ LoopSlot' = LoopSlot
      BY <1>1, <1>5 DEF ThreadSlot, LoopSlot
    <2>2. Len(queue') = Len(queue) /\ Len(batch') = Len(batch)
      BY <1>2 DEF ProducerStep
    <2>3. outstanding = Cardinality(Puts) + Len(queue) + Len(batch) + ThreadSlot + LoopSlot
      BY DEF IInv, Slots
    <2>4. outstanding <= Capacity
      BY DEF IInv, Slots
    <2> QED BY <1>1, <1>4, <2>1, <2>2, <2>3, <2>4, Counts DEF Slots
  <1>9. NothingVanishes'
    BY <1>1, <1>2 DEF NothingVanishes, IInv, ProducerStep
  <1>10. Holders'
    <2>1. ASSUME NEW p \in Coroutines, loop' = p
          PROVE  Held(seqOf[p])' /\ seqOf'[p] \notin sdkSeqs'
      <3>1. Held(seqOf[p]) /\ seqOf[p] \notin sdkSeqs
        BY <1>1, <2>1 DEF IInv, Holders
      <3>2. Before(seqOf[t], seqOf[p], sdkSeqs)
        BY <3>1, <1>3 DEF Before
      <3> QED BY <3>1, <3>2, <1>1, <1>4 DEF Held
    <2> QED BY <1>5, <2>1 DEF Holders
  <1>11. InFlight'
    <2>1. EnvsFly(batch', pc', seqOf') /\ EnvsFly(queue', pc', seqOf')
      BY <1>1, <1>2 DEF InFlight, ProducerStep, IInv
    <2>2. PutsFly(ready, pc, seqOf) /\ t \notin Coroutines
      BY Kinds DEF InFlight, IInv
    <2>3. PutsFly(ready', pc, seqOf)
      BY <2>2, <1>4
    <2> QED BY <1>1, <2>1, <2>3 DEF InFlight
  <1>12. Reports'
    BY <1>1, <1>2, ReportsKeep DEF ProducerStep
  <1> QED BY <1>4, <1>6, <1>7, <1>8, <1>9, <1>10, <1>11, <1>12 DEF IInv

LEMMA LoopScheduleKeeps ==
  ASSUME IInv, NEW q \in Coroutines, LoopSchedule(q)
  PROVE  IInv'
  <1>1. /\ loop = q /\ loop' = NoOne /\ ready' = Append(ready, Put(q, seqOf[q]))
        /\ UNCHANGED <<nextSeq, sdkSeqs, seqOf, outstanding, lost, sdk, ingress>>
    BY DEF LoopSchedule, counters, threads, store
  <1>2. PICK s \in {"acking", "posted"} : pc' = [pc EXCEPT ![q] = s]
    BY DEF LoopSchedule
  <1>3. ProducerStep
    BY DEF ProducerStep, LoopSchedule, counters, gates, control, threads, store, IInv, Types
  <1>4. q \in Producers /\ Held(seqOf[q]) /\ seqOf[q] \notin sdkSeqs
    BY <1>1, Kinds DEF IInv, Holders
  <1>5. /\ ready' \in Seq(Callbacks) /\ \A i \in 1..Len(ready') : CallbackOK(ready'[i])
        /\ Cardinality(Puts') = Cardinality(Puts) + 1
        /\ Order'
        /\ \A n : Held(n) /\ Before(seqOf[q], n, sdkSeqs) =>
              /\ n \in 1..nextSeq'
              /\ Fresh(reduced', Seqs(batch'), Seqs(queue'), Nums(ready'), sdkSeqs', n)
        /\ \A at, nums : PutsFly(ready, at, nums)
                            /\ (q \in Coroutines => seqOf[q] = nums[q]
                                                    /\ at[q] \in {"acking", "posted"})
                          => PutsFly(ready', at, nums)
    BY <1>1, <1>3, <1>4, ScheduleStep
  <1>6. /\ pc' \in [Coroutines -> Stages] /\ pc'[q] = s /\ pc[q] = "reserved"
        /\ \A p \in Coroutines : p # q => pc'[p] = pc[p] /\ pc[p] # "reserved"
    BY <1>1, <1>2 DEF IInv, Types, Locks, Stages
  <1>7. Types'
    BY <1>1, <1>3, <1>5, <1>6, ProducerTypes DEF IInv, Types
  <1>8. Locks'
    BY <1>1, <1>2, <1>3, <1>6, Kinds DEF IInv, Locks, ProducerStep
  <1>9. Slots'
    <2>1. ThreadSlot' = ThreadSlot /\ LoopSlot = 1 /\ LoopSlot' = 0
      BY <1>1, Kinds DEF ThreadSlot, LoopSlot
    <2>2. Len(queue') = Len(queue) /\ Len(batch') = Len(batch)
      BY <1>3 DEF ProducerStep
    <2>3. outstanding = Cardinality(Puts) + Len(queue) + Len(batch) + ThreadSlot + LoopSlot
      BY DEF IInv, Slots
    <2>4. outstanding <= Capacity
      BY DEF IInv, Slots
    <2> QED BY <1>1, <1>5, <2>1, <2>2, <2>3, <2>4, Counts DEF Slots
  <1>10. NothingVanishes'
    BY <1>1, <1>3 DEF NothingVanishes, IInv, ProducerStep
  <1>11. Holders'
    <2>1. ASSUME NEW t \in SdkThreads, sdk'[t] = "reserved"
          PROVE  Held(seqOf[t])' /\ seqOf'[t] \in sdkSeqs'
      <3>1. Held(seqOf[t]) /\ seqOf[t] \in sdkSeqs
        BY <1>1, <2>1 DEF IInv, Holders
      <3>2. Before(seqOf[q], seqOf[t], sdkSeqs)
        BY <3>1, <1>4 DEF Before
      <3> QED BY <3>1, <3>2, <1>1, <1>5 DEF Held
    <2> QED BY <1>1, <2>1, Kinds DEF Holders
  <1>12. InFlight'
    <2>1. \A p \in Coroutines :
            pc[p] \in {"acking", "posted"} => pc'[p] = pc[p] /\ seqOf'[p] = seqOf[p]
      BY <1>1, <1>6
    <2>2. EnvsFly(batch, pc', seqOf') /\ EnvsFly(queue, pc', seqOf') /\ PutsFly(ready, pc', seqOf')
      BY <2>1, FlyKeep
    <2>3. PutsFly(ready', pc', seqOf')
      BY <2>2, <1>1, <1>2, <1>5, <1>6
    <2> QED BY <2>2, <2>3, <1>3 DEF InFlight, ProducerStep
  <1>13. Reports'
    <2>1. \A p \in Waiters : pc'[p] \in {"committed", "failed"} =>
                               pc'[p] = pc[p] /\ seqOf'[p] = seqOf[p]
      BY <1>1, <1>2, <1>6, Kinds
    <2> QED BY <2>1, <1>3, ReportsKeep DEF ProducerStep
  <1> QED BY <1>5, <1>7, <1>8, <1>9, <1>10, <1>11, <1>12, <1>13 DEF IInv

\* The loop runs its oldest callback.
LEMMA RunCallbackKeeps ==
  ASSUME IInv, RunCallback
  PROVE  IInv'
  <1>1. /\ UNCHANGED <<outstanding, nextSeq, lost, closed, sdkClosed, batch, reducer, cancelling,
                       stopping, loop, pc, seqOf, sdk, ingress, delivered, reduced, sdkSeqs,
                       incidents, bound>>
        /\ ready # <<>> /\ ready' = Tail(ready)
        /\ queue' = IF Head(ready).run = "put" THEN Append(queue, Head(ready).env) ELSE queue
        /\ space' \in BOOLEAN /\ overflowed' \in BOOLEAN
    BY DEF RunCallback, control, producer, threads, store
  <1> DEFINE cb == ready[1]
             R == Nums(ready)
             Q == Seqs(queue)
             B == Seqs(batch)
  <1>2. /\ ready \in Seq(Callbacks) /\ (\A i \in 1..Len(ready) : CallbackOK(ready[i]))
        /\ queue \in Seq(Envelopes)
    BY DEF IInv, Types
  <1>3. /\ R # <<>> /\ Nums(ready') = Tail(R) /\ cb.env.seq = Head(R) /\ Head(ready) = cb
        /\ 1 \in 1..Len(ready)
    BY <1>1, <1>2, NumsTail
  <1>4. /\ ready' \in Seq(Callbacks)
        /\ \A i \in 1..Len(ready') : ready'[i] = ready[i + 1] /\ i + 1 \in 1..Len(ready)
    <2>1. /\ ready' \in Seq(Callbacks) /\ Len(ready') = Len(ready) - 1
          /\ \A i \in 1..Len(ready') : ready'[i] = ready[i + 1]
      BY <1>1, <1>2, HeadTailProperties
    <2>2. Len(ready) \in Nat
      BY <1>2, LenProperties
    <2>3. \A i \in 1..(Len(ready) - 1) : i + 1 \in 1..Len(ready)
      BY <2>2
    <2> QED BY <2>1, <2>3
  <1>5. \A i \in 1..Len(ready') : CallbackOK(ready'[i])
    BY <1>2, <1>4
  <1>6. CallbackOK(cb) /\ cb \in Callbacks
    BY <1>2, <1>3, ElementOfSeq
  <1>7. R \in Seq(Nat) /\ Q \in Seq(Nat)
    BY Counts
  <1>8. Pipe(reduced, B, Q, R, sdkSeqs, nextSeq, reducer = "persisted")
    BY DEF IInv, Order
  <1>9. PutsFly(ready', pc, seqOf)
    BY <1>4 DEF PutsFly, IInv, InFlight
  <1>10. /\ queue' \in Seq(Envelopes)
         /\ Cardinality(Puts') + Len(queue') = Cardinality(Puts) + Len(queue)
         /\ Pipe(reduced, B, Seqs(queue'), Nums(ready'), sdkSeqs, nextSeq, reducer = "persisted")
         /\ \A n : Fresh(reduced, B, Q, R, sdkSeqs, n)
                     => Fresh(reduced, B, Seqs(queue'), Nums(ready'), sdkSeqs, n)
         /\ EnvsFly(queue', pc, seqOf)
    <2>0. /\ Cardinality(PutsOf(ready'))
               = Cardinality(PutsOf(ready)) - (IF cb.run = "put" THEN 1 ELSE 0)
          /\ Puts' = PutsOf(ready') /\ Puts = PutsOf(ready)
          /\ Cardinality(PutsOf(ready)) \in Nat /\ Len(queue) \in Nat
      BY <1>1, <1>2, PutsTail, Counts DEF Puts, PutsOf
    <2>1. CASE cb.run = "put"
      <3>1. cb.env \in Envelopes /\ queue' = Append(queue, cb.env)
        BY <2>1, <1>1, <1>3, <1>6 DEF CallbackOK
      <3>2. queue' \in Seq(Envelopes) /\ Len(queue') = Len(queue) + 1
        BY <3>1, <1>2, AppendProperties
      <3>3. Seqs(queue') = Append(Q, Head(R))
        BY <3>1, <1>2, <1>3, SeqsAppend
      <3>4. EnvsFly(queue', pc, seqOf)
        <4>1. Flying(cb.env, pc, seqOf)
          BY <2>1, <1>3 DEF IInv, InFlight, PutsFly
        <4>2. \A i \in 1..Len(queue') : (i \in 1..Len(queue) /\ queue'[i] = queue[i])
                                          \/ queue'[i] = cb.env
          BY <3>1, <1>2, AppendElems
        <4> QED BY <4>1, <4>2 DEF IInv, InFlight, EnvsFly
      <3>5. /\ Pipe(reduced, B, Append(Q, Head(R)), Tail(R), sdkSeqs, nextSeq, reducer = "persisted")
            /\ \A n : Fresh(reduced, B, Q, R, sdkSeqs, n)
                        => Fresh(reduced, B, Append(Q, Head(R)), Tail(R), sdkSeqs, n)
        BY <1>3, <1>7, <1>8, PipePut
      <3>6. Cardinality(Puts') + Len(queue') = Cardinality(Puts) + Len(queue)
        BY <2>0, <2>1, <3>2
      <3> QED BY <3>2, <3>3, <3>4, <3>5, <3>6, <1>3
    <2>2. CASE cb.run # "put"
      <3>1. queue' = queue
        BY <2>2, <1>1, <1>3
      <3>2. /\ Pipe(reduced, B, Q, Tail(R), sdkSeqs, nextSeq, reducer = "persisted")
            /\ \A n : Fresh(reduced, B, Q, R, sdkSeqs, n)
                        => Fresh(reduced, B, Q, Tail(R), sdkSeqs, n)
        BY <1>3, <1>7, <1>8, PipeDrop
      <3>3. EnvsFly(queue', pc, seqOf)
        BY <3>1 DEF IInv, InFlight
      <3>4. Cardinality(Puts') + Len(queue') = Cardinality(Puts) + Len(queue)
        BY <2>0, <2>2, <3>1
      <3> QED BY <3>1, <3>2, <3>3, <3>4, <1>2, <1>3
    <2> QED BY <2>1, <2>2
  <1>11. Types'
    BY <1>1, <1>4, <1>5, <1>10 DEF Types, IInv
  <1>12. Locks'
    BY <1>1 DEF Locks, IInv
  <1>13. Slots'
    <2>1. ThreadSlot' = ThreadSlot /\ LoopSlot' = LoopSlot
      BY <1>1 DEF ThreadSlot, LoopSlot
    <2>2. /\ outstanding = Cardinality(Puts) + Len(queue) + Len(batch) + ThreadSlot + LoopSlot
          /\ outstanding <= Capacity /\ outstanding' = outstanding /\ Len(batch') = Len(batch)
      BY <1>1 DEF IInv, Slots
    <2>3. Cardinality(Puts') \in Nat /\ Len(queue') \in Nat
      <3>1. Puts' = PutsOf(ready')
        BY DEF Puts, PutsOf
      <3> QED BY <3>1, <1>4, <1>10, PutsFinite, LenProperties
    <2> QED BY <1>10, <2>1, <2>2, <2>3, Counts DEF Slots
  <1>14. NothingVanishes'
    BY <1>1 DEF NothingVanishes, IInv
  <1>15. Order'
    BY <1>1, <1>10 DEF Order
  <1>16. Holders'
    BY <1>1, <1>10 DEF Holders, Held, IInv
  <1>17. InFlight'
    BY <1>1, <1>9, <1>10 DEF InFlight, IInv
  <1>18. Reports'
    BY <1>1, ReportsKeep
  <1> QED BY <1>11, <1>12, <1>13, <1>14, <1>15, <1>16, <1>17, <1>18 DEF IInv

---------------------------------------------------------------------------
(* The worker.                                                             *)

\* A step of the worker: what the producers own stays.
WorkerStep ==
    /\ UNCHANGED <<nextSeq, lost, ready, loop, seqOf, sdk, ingress, delivered, sdkSeqs, bound,
                   cancelling, stopping, overflowed>>
    /\ space' \in BOOLEAN /\ closed' \in BOOLEAN /\ sdkClosed' \in BOOLEAN

LEMMA WorkerTypes ==
  ASSUME IInv, WorkerStep, outstanding' \in Nat, incidents' \in Nat,
         queue' \in Seq(Envelopes), batch' \in Seq(Envelopes), reduced' \in Seq(Nat),
         reducer' \in {"get", "validating", "adapting", "persisted", "stopped", "dead"},
         pc' \in [Coroutines -> Stages]
  PROVE  Types'
  <1>1. /\ nextSeq' = nextSeq /\ lost' = lost /\ ready' = ready /\ loop' = loop /\ seqOf' = seqOf
        /\ sdk' = sdk /\ ingress' = ingress /\ delivered' = delivered /\ sdkSeqs' = sdkSeqs
        /\ bound' = bound /\ cancelling' = cancelling /\ stopping' = stopping
        /\ overflowed' = overflowed
    BY DEF WorkerStep
  <1> QED BY <1>1 DEF Types, IInv, WorkerStep

\* The slots, after a step of the worker that frees d of them.
LEMMA WorkerSlots ==
  ASSUME IInv, WorkerStep, NEW d \in Nat, outstanding' = outstanding - d,
         queue' \in Seq(Envelopes), batch' \in Seq(Envelopes),
         Len(queue') + Len(batch') + d = Len(queue) + Len(batch)
  PROVE  Slots' /\ outstanding' \in Nat
  <1>1. ThreadSlot' = ThreadSlot /\ LoopSlot' = LoopSlot /\ Puts' = Puts
    BY DEF ThreadSlot, LoopSlot, Puts, WorkerStep
  <1>2. Len(queue') \in Nat /\ Len(batch') \in Nat
    BY LenProperties
  <1>3. PICK a \in Nat, b \in Nat, c \in Nat, e \in Nat, f \in Nat, g \in Nat, h \in Nat :
          /\ a = Cardinality(Puts) /\ b = Len(queue) /\ c = Len(batch)
          /\ e = ThreadSlot /\ f = LoopSlot /\ g = Len(queue') /\ h = Len(batch')
    BY <1>2, Counts
  <1>4. outstanding = a + b + c + e + f /\ outstanding <= Capacity
    BY <1>3 DEF IInv, Slots
  <1>5. g + h + d = b + c
    BY <1>3
  <1>6. outstanding' = a + g + h + e + f /\ outstanding' <= Capacity /\ outstanding' \in Nat
    BY <1>4, <1>5, Counts
  <1> QED BY <1>1, <1>3, <1>6 DEF Slots

LEMMA WorkerHolders ==
  ASSUME IInv, WorkerStep,
         \A n : Fresh(reduced, Seqs(batch), Seqs(queue), Nums(ready), sdkSeqs, n)
                  => Fresh(reduced', Seqs(batch'), Seqs(queue'), Nums(ready), sdkSeqs, n)
  PROVE  Holders'
  BY DEF Holders, Held, IInv, WorkerStep

\* get() and get_nowait().
LEMMA WorkerTakeKeeps ==
  ASSUME IInv, WorkerTake
  PROVE  IInv'
  <1>1. /\ WorkerStep /\ reducer = "get" /\ reducer' = "validating"
        /\ UNCHANGED <<outstanding, incidents, reduced, pc>>
    BY DEF WorkerTake, WorkerStep, counters, gates, producer, threads, store, IInv, Types
  <1>2. batch = <<>> /\ queue \in Seq(Envelopes) /\ Len(queue) \in Nat
    BY <1>1, LenProperties DEF IInv, Types, Locks
  <1>3. PICK n \in 0..Len(queue) : /\ batch' = SubSeq(queue, 1, n)
                                   /\ queue' = SubSeq(queue, n + 1, Len(queue))
    <2>1. PICK n : /\ n = (IF Len(queue) < BatchSize THEN Len(queue) ELSE BatchSize)
                   /\ batch' = SubSeq(queue, 1, n)
                   /\ queue' = SubSeq(queue, n + 1, Len(queue))
      BY DEF WorkerTake
    <2>2. n \in 0..Len(queue)
      BY <2>1, <1>2, Kinds
    <2> QED BY <2>1, <2>2
  <1>4. /\ batch' \in Seq(Envelopes) /\ Len(batch') = n
        /\ \A i \in 1..n : batch'[i] = queue[i]
        /\ Seqs(batch') = SubSeq(Seqs(queue), 1, n)
    <2>1. 1 \in 1..(Len(queue) + 1) /\ n \in (1 - 1)..Len(queue) /\ n - 1 + 1 = n
      BY <1>2
    <2>2. /\ SubSeq(queue, 1, n) \in Seq(Envelopes)
          /\ Len(SubSeq(queue, 1, n)) = n - 1 + 1
          /\ \A i \in 1..(n - 1 + 1) : SubSeq(queue, 1, n)[i] = queue[1 + i - 1]
          /\ Seqs(SubSeq(queue, 1, n)) = SubSeq(Seqs(queue), 1, n)
      BY <2>1, <1>2, SeqsSub
    <2>3. \A i \in 1..n : 1 + i - 1 = i
      OBVIOUS
    <2> QED BY <1>3, <2>1, <2>2, <2>3
  <1>5. /\ queue' \in Seq(Envelopes) /\ Len(queue') = Len(queue) - n
        /\ \A i \in 1..(Len(queue) - n) : queue'[i] = queue[n + i] /\ n + i \in 1..Len(queue)
        /\ Seqs(queue') = SubSeq(Seqs(queue), n + 1, Len(queue))
    <2>1. /\ n + 1 \in 1..(Len(queue) + 1) /\ Len(queue) \in ((n + 1) - 1)..Len(queue)
          /\ Len(queue) - (n + 1) + 1 = Len(queue) - n
      BY <1>2
    <2>2. /\ SubSeq(queue, n + 1, Len(queue)) \in Seq(Envelopes)
          /\ Len(SubSeq(queue, n + 1, Len(queue))) = Len(queue) - (n + 1) + 1
          /\ \A i \in 1..(Len(queue) - (n + 1) + 1) :
               SubSeq(queue, n + 1, Len(queue))[i] = queue[(n + 1) + i - 1]
          /\ Seqs(SubSeq(queue, n + 1, Len(queue))) = SubSeq(Seqs(queue), n + 1, Len(queue))
      BY <2>1, <1>2, SeqsSub
    <2>3. \A i \in 1..(Len(queue) - n) : (n + 1) + i - 1 = n + i /\ n + i \in 1..Len(queue)
      BY <1>2
    <2> QED BY <1>3, <2>1, <2>2, <2>3
  <1>6. Len(batch) = 0 /\ Len(queue') + Len(batch') + 0 = Len(queue) + Len(batch)
    BY <1>2, <1>4, <1>5, EmptySeq
  <1>7. Slots' /\ outstanding' \in Nat
    <2>1. outstanding' = outstanding - 0 /\ 0 \in Nat
      BY <1>1, Counts
    <2> QED BY <1>1, <1>4, <1>5, <1>6, <2>1, WorkerSlots
  <1>8. Types'
    BY <1>1, <1>4, <1>5, <1>7, WorkerTypes DEF IInv, Types
  <1>9. Locks'
    BY <1>1 DEF Locks, IInv, WorkerStep
  <1>10. NothingVanishes'
    BY <1>1 DEF NothingVanishes, IInv, WorkerStep
  <1>11. /\ Pipe(reduced', Seqs(batch'), Seqs(queue'), Nums(ready), sdkSeqs, nextSeq, FALSE)
         /\ \A x : Fresh(reduced, Seqs(batch), Seqs(queue), Nums(ready), sdkSeqs, x)
                     => Fresh(reduced', Seqs(batch'), Seqs(queue'), Nums(ready), sdkSeqs, x)
    <2>1. /\ Seqs(batch) = <<>> /\ Seqs(queue) \in Seq(Nat) /\ Len(Seqs(queue)) = Len(queue)
          /\ (reducer = "persisted") = FALSE
      BY <1>1, <1>2, EmptyNums, SeqsOK
    <2>2. Pipe(reduced, <<>>, Seqs(queue), Nums(ready), sdkSeqs, nextSeq, FALSE)
      BY <2>1 DEF IInv, Order
    <2>3. /\ Pipe(reduced, SubSeq(Seqs(queue), 1, n), SubSeq(Seqs(queue), n + 1, Len(queue)),
                  Nums(ready), sdkSeqs, nextSeq, FALSE)
          /\ \A x : Fresh(reduced, <<>>, Seqs(queue), Nums(ready), sdkSeqs, x)
                      => Fresh(reduced, SubSeq(Seqs(queue), 1, n),
                               SubSeq(Seqs(queue), n + 1, Len(queue)), Nums(ready), sdkSeqs, x)
      BY <2>1, <2>2, PipeTake
    <2> QED BY <2>1, <2>3, <1>1, <1>4, <1>5
  <1>12. Order'
    <2>1. (reducer' = "persisted") = FALSE
      BY <1>1
    <2> QED BY <2>1, <1>1, <1>11 DEF Order, WorkerStep
  <1>13. Holders'
    BY <1>1, <1>11, WorkerHolders
  <1>14. InFlight'
    <2>1. EnvsFly(batch', pc, seqOf)
      <3>1. \A i \in 1..n : i \in 1..Len(queue)
        BY <1>2
      <3> QED BY <3>1, <1>4 DEF IInv, InFlight, EnvsFly
    <2>2. EnvsFly(queue', pc, seqOf)
      BY <1>5 DEF IInv, InFlight, EnvsFly
    <2> QED BY <2>1, <2>2, <1>1 DEF InFlight, IInv, WorkerStep
  <1>15. Reports'
    BY <1>1 DEF Reports, IInv, WorkerStep
  <1> QED BY <1>7, <1>8, <1>9, <1>10, <1>12, <1>13, <1>14, <1>15 DEF IInv

\* persist_incident and the acknowledgement of the invalid event.
LEMMA WorkerIncidentKeeps ==
  ASSUME IInv, NEW k, WorkerIncident(k)
  PROVE  IInv'
  <1>1. /\ WorkerStep /\ reducer = "adapting" /\ incidents' = incidents + 1
        /\ UNCHANGED <<queue, reducer, reduced>> /\ batch' = RemoveAt(batch, k)
        /\ batch[k].from \in SdkThreads /\ k \in DOMAIN batch
        /\ outstanding' = outstanding - Len(<<batch[k]>>)
        /\ pc' = [p \in Coroutines |-> IF p \in Senders(<<batch[k]>>) THEN "committed"
                                       ELSE Wake(pc)[p]]
    BY DEF WorkerIncident, Acknowledge, WorkerStep, gates, control, threads, IInv, Types
  <1>2. batch \in Seq(Envelopes) /\ k \in 1..Len(batch) /\ Len(batch) \in Nat
    BY <1>1, LenProperties DEF IInv, Types
  <1>3. pc' = Wake(pc)
    <2>1. Senders(<<batch[k]>>) = {}
      BY <1>1, Kinds DEF Senders
    <2> QED BY <1>1, <2>1 DEF Wake
  <1>4. pc' \in [Coroutines -> Stages] /\ Calm(pc, pc')
    BY <1>3, CalmWake DEF IInv, Types
  <1>5. /\ batch' \in Seq(Envelopes) /\ Len(batch') = Len(batch) - 1
        /\ \A i \in 1..(Len(batch) - 1) :
             batch'[i] = IF i < k THEN batch[i] ELSE batch[i + 1]
        /\ Seqs(batch') = RemoveAt(Seqs(batch), k)
    BY <1>1, <1>2, RemoveAtOK, SeqsRemove
  <1>6. outstanding' = outstanding - 1 /\ queue' = queue /\ queue \in Seq(Envelopes)
        /\ Len(queue') + Len(batch') + 1 = Len(queue) + Len(batch)
    BY <1>1, <1>2, <1>5, Counts DEF IInv, Types
  <1>7. Slots' /\ outstanding' \in Nat
    BY <1>1, <1>5, <1>6, WorkerSlots
  <1>8. Types'
    <2>1. /\ incidents' \in Nat /\ reduced' \in Seq(Nat) /\ queue' \in Seq(Envelopes)
          /\ reducer' \in {"get", "validating", "adapting", "persisted", "stopped", "dead"}
      BY <1>1, <1>6 DEF IInv, Types
    <2> QED BY <1>1, <1>4, <1>5, <1>7, <2>1, WorkerTypes
  <1>9. Locks'
    BY <1>1, <1>4 DEF Locks, IInv, WorkerStep, Calm
  <1>10. NothingVanishes'
    <2>1. /\ reducer' = reducer /\ reducer # "persisted" /\ bound' = bound /\ nextSeq' = nextSeq
          /\ reduced' = reduced /\ lost' = lost /\ lost \in Nat /\ incidents \in Nat
      BY <1>1 DEF WorkerStep, IInv, Types
    <2>2. PICK j \in Nat : j = Len(reduced)
      BY Counts
    <2>3. reducer # "dead" /\ bound => nextSeq = j + incidents + lost + outstanding
      BY <2>1, <2>2, Counts DEF NothingVanishes, IInv
    <2>4. reducer # "dead" /\ bound => nextSeq = j + incidents' + lost + outstanding'
      BY <2>1, <2>3, <1>1, <1>6, Counts
    <2> QED BY <2>1, <2>2, <2>4, <1>7, <1>1 DEF NothingVanishes
  <1>11. /\ Pipe(reduced, Seqs(batch'), Seqs(queue), Nums(ready), sdkSeqs, nextSeq,
                 reducer = "persisted")
         /\ \A x : Fresh(reduced, Seqs(batch), Seqs(queue), Nums(ready), sdkSeqs, x)
                     => Fresh(reduced, Seqs(batch'), Seqs(queue), Nums(ready), sdkSeqs, x)
    <2>1. Seqs(batch) \in Seq(Nat) /\ k \in 1..Len(Seqs(batch))
      BY <1>2, SeqsOK
    <2>2. Pipe(reduced, Seqs(batch), Seqs(queue), Nums(ready), sdkSeqs, nextSeq,
               reducer = "persisted")
      BY DEF IInv, Order
    <2> QED BY <2>1, <2>2, <1>5, PipeRemove
  <1>12. Order'
    BY <1>1, <1>11 DEF Order, WorkerStep
  <1>13. Holders'
    BY <1>1, <1>11, WorkerHolders
  <1>14. InFlight'
    <2>1. EnvsFly(batch, pc', seqOf') /\ EnvsFly(queue, pc', seqOf') /\ PutsFly(ready, pc', seqOf')
      BY <1>1, <1>4, FlyKeep DEF Calm, WorkerStep
    <2>2. EnvsFly(batch', pc', seqOf')
      <3>1. \A i \in 1..(Len(batch) - 1) : i \in 1..Len(batch) /\ i + 1 \in 1..Len(batch)
        BY <1>2
      <3> QED BY <2>1, <3>1, <1>5 DEF EnvsFly
    <2> QED BY <2>1, <2>2, <1>1 DEF InFlight, WorkerStep
  <1>15. Reports'
    <2>1. \A p \in Waiters : pc'[p] \in {"committed", "failed"} => pc'[p] = pc[p]
      BY <1>4, Kinds DEF Calm
    <2> QED BY <1>1, <2>1 DEF Reports, IInv, WorkerStep
  <1> QED BY <1>7, <1>8, <1>9, <1>10, <1>12, <1>13, <1>14, <1>15 DEF IInv

LEMMA ContainsConcat ==
  ASSUME NEW J \in Seq(Nat), NEW B \in Seq(Nat)
  PROVE  /\ \A n : Contains(J, n) => Contains(J \o B, n)
         /\ \A i \in 1..Len(B) : Contains(J \o B, B[i])
         /\ J \o B \in Seq(Nat) /\ Len(J \o B) = Len(J) + Len(B)
  <1>1. /\ Len(J) \in Nat /\ Len(B) \in Nat
        /\ J \o B \in Seq(Nat) /\ Len(J \o B) = Len(J) + Len(B)
        /\ \A i \in 1..(Len(J) + Len(B)) :
             (J \o B)[i] = IF i <= Len(J) THEN J[i] ELSE B[i - Len(J)]
    BY ConcatProperties, LenProperties
  <1>2. \A i \in 1..Len(J) : i \in 1..(Len(J) + Len(B)) /\ (J \o B)[i] = J[i]
    BY <1>1
  <1>3. \A i \in 1..Len(B) : Len(J) + i \in 1..(Len(J) + Len(B)) /\ (J \o B)[Len(J) + i] = B[i]
    <2> TAKE i \in 1..Len(B)
    <2>1. /\ Len(J) + i \in 1..(Len(J) + Len(B)) /\ ~(Len(J) + i <= Len(J))
          /\ Len(J) + i - Len(J) = i
      BY <1>1
    <2> QED BY <1>1, <2>1
  <1>4. \A n : Contains(J, n) => Contains(J \o B, n)
    BY <1>1, <1>2 DEF Contains
  <1>5. \A i \in 1..Len(B) : Contains(J \o B, B[i])
    BY <1>1, <1>3 DEF Contains
  <1> QED BY <1>1, <1>4, <1>5

\* persist.
LEMMA WorkerCommitKeeps ==
  ASSUME IInv, WorkerCommit
  PROVE  IInv'
  <1>1. /\ WorkerStep /\ reducer = "adapting" /\ reducer' = "persisted"
        /\ UNCHANGED <<outstanding, queue, batch, incidents, pc>>
        /\ reduced' = IF bound THEN reduced \o Seqs(batch) ELSE reduced
    BY DEF WorkerCommit, WorkerStep, counters, gates, pipeline, producer, threads, IInv, Types
  <1>2. /\ reduced \in Seq(Nat) /\ Seqs(batch) \in Seq(Nat) /\ batch \in Seq(Envelopes)
        /\ Len(Seqs(batch)) = Len(batch) /\ queue \in Seq(Envelopes)
        /\ \A i \in 1..Len(batch) : Seqs(batch)[i] = batch[i].seq
    BY SeqsOK DEF IInv, Types
  <1>3. /\ reduced' \in Seq(Nat)
        /\ \A n : Contains(reduced, n) => Contains(reduced', n)
        /\ bound => Len(reduced') = Len(reduced) + Len(batch)
        /\ bound => \A i \in 1..Len(batch) : Contains(reduced', batch[i].seq)
    BY <1>1, <1>2, ContainsConcat
  <1>4. Slots' /\ outstanding' \in Nat
    BY <1>1, <1>2, Counts, WorkerSlots
  <1>5. Types'
    BY <1>1, <1>2, <1>3, <1>4, WorkerTypes DEF IInv, Types
  <1>6. Locks'
    BY <1>1 DEF Locks, IInv, WorkerStep
  <1>7. NothingVanishes'
    <2>1. PICK j \in Nat, b \in Nat : j = Len(reduced) /\ b = Len(batch)
      BY Counts
    <2>2. bound => nextSeq = j + incidents + lost + outstanding
      BY <1>1, <2>1, Counts DEF NothingVanishes, IInv, Types
    <2>3. bound => nextSeq = (j + b) + incidents + lost + outstanding - b
      BY <2>1, <2>2, Counts DEF IInv, Types
    <2>4. bound => Len(reduced') = j + b
      BY <1>3, <2>1
    <2>5. /\ bound' = bound /\ nextSeq' = nextSeq /\ incidents' = incidents /\ lost' = lost
          /\ outstanding' = outstanding /\ Len(batch') = b /\ reducer' = "persisted"
      BY <1>1, <2>1 DEF WorkerStep
    <2> QED BY <2>3, <2>4, <2>5 DEF NothingVanishes
  <1>8. /\ Pipe(reduced', Seqs(batch), Seqs(queue), Nums(ready), sdkSeqs, nextSeq, TRUE)
        /\ \A x : Fresh(reduced, Seqs(batch), Seqs(queue), Nums(ready), sdkSeqs, x)
                    => Fresh(reduced', Seqs(batch), Seqs(queue), Nums(ready), sdkSeqs, x)
    <2>1. (reducer = "persisted") = FALSE
      BY <1>1
    <2>2. Pipe(reduced, Seqs(batch), Seqs(queue), Nums(ready), sdkSeqs, nextSeq, FALSE)
      BY <2>1 DEF IInv, Order
    <2> QED BY <1>1, <1>2, <2>2, PipeCommit, PipeSkip
  <1>9. Order'
    <2>1. (reducer' = "persisted") = TRUE
      BY <1>1
    <2> QED BY <2>1, <1>1, <1>8 DEF Order, WorkerStep
  <1>10. Holders'
    BY <1>1, <1>8, WorkerHolders
  <1>11. InFlight'
    BY <1>1 DEF InFlight, IInv, WorkerStep
  <1>12. Reports'
    BY <1>1, <1>3 DEF Reports, IInv, WorkerStep
  <1> QED BY <1>4, <1>5, <1>6, <1>7, <1>9, <1>10, <1>11, <1>12 DEF IInv

---------------------------------------------------------------------------
(* Acknowledgements.                                                       *)

\* One producer has one envelope: the one acknowledged is not elsewhere.
LEMMA OneEnvelope ==
  ASSUME IInv, NEW p \in Coroutines
  PROVE  /\ \A i \in 1..Len(batch), j \in 1..Len(queue) :
              ~(batch[i].from = p /\ queue[j].from = p)
         /\ \A i \in 1..Len(batch), j \in 1..Len(ready) :
              ~(batch[i].from = p /\ ready[j].run = "put" /\ ready[j].env.from = p)
         /\ \A i \in 1..Len(queue), j \in 1..Len(ready) :
              ~(queue[i].from = p /\ ready[j].run = "put" /\ ready[j].env.from = p)
  <1>1. /\ \A i \in 1..Len(batch) : batch[i].seq # 0 /\ (batch[i].from = p => batch[i].seq = seqOf[p])
        /\ \A i \in 1..Len(queue) : queue[i].seq # 0 /\ (queue[i].from = p => queue[i].seq = seqOf[p])
        /\ \A i \in 1..Len(ready) : ready[i].run = "put" =>
             /\ ready[i].env.seq # 0
             /\ ready[i].env.from = p => ready[i].env.seq = seqOf[p]
    BY DEF IInv, InFlight, EnvsFly, PutsFly, Flying
  <1>2. /\ Len(Seqs(batch)) = Len(batch) /\ (\A i \in 1..Len(batch) : Seqs(batch)[i] = batch[i].seq)
        /\ Len(Seqs(queue)) = Len(queue) /\ (\A i \in 1..Len(queue) : Seqs(queue)[i] = queue[i].seq)
        /\ Len(Nums(ready)) = Len(ready) /\ (\A i \in 1..Len(ready) : Nums(ready)[i] = ready[i].env.seq)
    BY SeqsOK, NumsOK DEF IInv, Types
  <1>3. /\ Ahead(Seqs(batch), Seqs(queue), sdkSeqs)
        /\ Ahead(Seqs(batch), Nums(ready), sdkSeqs)
        /\ Ahead(Seqs(queue), Nums(ready), sdkSeqs)
    BY DEF IInv, Order, Pipe
  <1>4. \A i \in 1..Len(batch), j \in 1..Len(queue) : ~(batch[i].from = p /\ queue[j].from = p)
    BY <1>1, <1>2, <1>3 DEF Ahead, Before
  <1>5. \A i \in 1..Len(batch), j \in 1..Len(ready) :
          ~(batch[i].from = p /\ ready[j].run = "put" /\ ready[j].env.from = p)
    BY <1>1, <1>2, <1>3 DEF Ahead, Before
  <1>6. \A i \in 1..Len(queue), j \in 1..Len(ready) :
          ~(queue[i].from = p /\ ready[j].run = "put" /\ ready[j].env.from = p)
    BY <1>1, <1>2, <1>3 DEF Ahead, Before
  <1> QED BY <1>4, <1>5, <1>6

\* Who is answered, and by which envelope.
LEMMA SendersOf ==
  ASSUME NEW q \in Seq(Envelopes), NEW p
  PROVE  p \in Senders(q) <=> p \in Waiters /\ \E i \in 1..Len(q) : q[i].from = p
  <1>1. DOMAIN q = 1..Len(q)
    BY LenProperties
  <1> QED BY <1>1 DEF Senders

\* acknowledge of envs: what becomes of the coroutines.
LEMMA AckedPc ==
  ASSUME IInv, NEW envs, NEW result \in {"committed", "failed", "committedCancel"},
         pc' = [p \in Coroutines |-> IF p \in Senders(envs) THEN result ELSE Wake(pc)[p]],
         \A p \in Senders(envs) : p \in Coroutines /\ pc[p] # "reserved"
  PROVE  /\ pc' \in [Coroutines -> Stages]
         /\ \A p \in Coroutines : p \in Senders(envs) => pc'[p] = result
         /\ \A p \in Coroutines : p \notin Senders(envs) =>
              \/ pc'[p] = pc[p]
              \/ pc[p] = "waiting" /\ pc'[p] = "woken"
         /\ \A p \in Coroutines : pc'[p] = "reserved" <=> pc[p] = "reserved"
  <1>1. \A p \in Coroutines : Wake(pc)[p] = IF pc[p] = "waiting" THEN "woken" ELSE pc[p]
    BY DEF Wake
  <1>2. \A p \in Coroutines : pc[p] \in Stages
    BY DEF IInv, Types
  <1>3. "woken" \in Stages /\ result \in Stages
    BY DEF Stages
  <1>4. \A p \in Coroutines : pc'[p] \in Stages
    BY <1>1, <1>2, <1>3
  <1>5. pc' \in [Coroutines -> Stages]
    BY <1>4
  <1> QED BY <1>1, <1>5

\* persist returned.
LEMMA WorkerAckKeeps ==
  ASSUME IInv, WorkerAck
  PROVE  IInv'
  <1>1. /\ WorkerStep /\ reducer = "persisted" /\ reducer' \in {"get", "stopped"}
        /\ UNCHANGED <<queue, reduced, incidents>> /\ batch' = <<>> /\ loop = NoOne
        /\ outstanding' = outstanding - Len(batch)
        /\ pc' = [p \in Coroutines |-> IF p \in Senders(batch) THEN "committed" ELSE Wake(pc)[p]]
    BY DEF WorkerAck, Acknowledge, WorkerStep, gates, threads, store, IInv, Types
  <1>2. /\ batch \in Seq(Envelopes) /\ queue \in Seq(Envelopes) /\ Len(batch) \in Nat
        /\ Len(queue) \in Nat
    BY LenProperties DEF IInv, Types
  <1>3. \A p : p \in Senders(batch) <=> p \in Waiters /\ \E i \in 1..Len(batch) : batch[i].from = p
    BY <1>2, SendersOf
  <1>4. \A p \in Coroutines : pc[p] # "reserved"
    BY <1>1, Kinds DEF IInv, Locks
  <1>5. /\ pc' \in [Coroutines -> Stages]
        /\ \A p \in Coroutines : p \in Senders(batch) => pc'[p] = "committed"
        /\ \A p \in Coroutines : p \notin Senders(batch) =>
              \/ pc'[p] = pc[p]
              \/ pc[p] = "waiting" /\ pc'[p] = "woken"
        /\ \A p \in Coroutines : pc'[p] = "reserved" <=> pc[p] = "reserved"
    BY <1>1, <1>3, <1>4, Kinds, AckedPc
  <1>6. batch' \in Seq(Envelopes) /\ Len(batch') = 0
        /\ Len(queue') + Len(batch') + Len(batch) = Len(queue) + Len(batch)
    BY <1>1, <1>2, EmptySeq
  <1>7. Slots' /\ outstanding' \in Nat
    BY <1>1, <1>2, <1>6, WorkerSlots
  <1>8. Types'
    BY <1>1, <1>2, <1>5, <1>6, <1>7, WorkerTypes DEF IInv, Types
  <1>9. Locks'
    BY <1>1, <1>5 DEF Locks, IInv, WorkerStep
  <1>10. NothingVanishes'
    <2>1. PICK j \in Nat, b \in Nat : j = Len(reduced) /\ b = Len(batch)
      BY Counts
    <2>2. bound => nextSeq = j + incidents + lost + outstanding - b
      BY <1>1, <2>1, Counts DEF NothingVanishes, IInv, Types
    <2>3. bound => nextSeq = j + incidents + lost + (outstanding - b)
      BY <2>1, <2>2, Counts DEF IInv, Types
    <2>4. /\ bound' = bound /\ nextSeq' = nextSeq /\ incidents' = incidents /\ lost' = lost
          /\ outstanding' = outstanding - b /\ Len(reduced') = j /\ reducer' # "persisted"
      BY <1>1, <2>1 DEF WorkerStep
    <2>5. bound' => nextSeq' = Len(reduced') + incidents' + lost' + outstanding'
      BY <2>3, <2>4
    <2>6. /\ Len(reduced') + incidents' + lost' + outstanding' \in Nat
      BY <1>7, <2>1, <2>4 DEF IInv, Types
    <2> QED BY <2>4, <2>5, <2>6 DEF NothingVanishes
  <1>11. /\ Pipe(reduced', Seqs(batch'), Seqs(queue'), Nums(ready), sdkSeqs, nextSeq, FALSE)
         /\ \A x : Fresh(reduced, Seqs(batch), Seqs(queue), Nums(ready), sdkSeqs, x)
                     => Fresh(reduced', Seqs(batch'), Seqs(queue'), Nums(ready), sdkSeqs, x)
    <2>1. Seqs(batch') = <<>> /\ reduced' = reduced /\ queue' = queue
      BY <1>1, EmptyNums
    <2>2. Pipe(reduced, Seqs(batch), Seqs(queue), Nums(ready), sdkSeqs, nextSeq,
               reducer = "persisted")
      BY DEF IInv, Order
    <2> QED BY <2>1, <2>2, PipeAck
  <1>12. Order'
    <2>1. (reducer' = "persisted") = FALSE
      BY <1>1
    <2> QED BY <2>1, <1>1, <1>11 DEF Order, WorkerStep
  <1>13. Holders'
    BY <1>1, <1>11, WorkerHolders
  <1>14. InFlight'
    <2>1. EnvsFly(batch', pc', seqOf')
      BY <1>6 DEF EnvsFly
    <2>2. ASSUME NEW e, Flying(e, pc, seqOf), e.from \notin Senders(batch)
          PROVE  Flying(e, pc', seqOf)
      BY <2>2, <1>5 DEF Flying
    <2>3. EnvsFly(queue, pc', seqOf)
      <3> SUFFICES ASSUME NEW j \in 1..Len(queue) PROVE Flying(queue[j], pc', seqOf)
        BY DEF EnvsFly
      <3>1. Flying(queue[j], pc, seqOf)
        BY DEF IInv, InFlight, EnvsFly
      <3>2. queue[j].from \notin Senders(batch)
        BY <1>3, Kinds, OneEnvelope
      <3> QED BY <3>1, <3>2, <2>2
    <2>4. PutsFly(ready, pc', seqOf)
      <3> SUFFICES ASSUME NEW j \in 1..Len(ready), ready[j].run = "put"
                   PROVE  Flying(ready[j].env, pc', seqOf)
        BY DEF PutsFly
      <3>1. Flying(ready[j].env, pc, seqOf)
        BY DEF IInv, InFlight, PutsFly
      <3>2. ready[j].env.from \notin Senders(batch)
        BY <1>3, Kinds, OneEnvelope
      <3> QED BY <3>1, <3>2, <2>2
    <2> QED BY <2>1, <2>3, <2>4, <1>1 DEF InFlight, WorkerStep
  <1>15. Reports'
    <2>1. ASSUME NEW p \in Waiters, pc'[p] = "committed", bound
          PROVE  Contains(reduced, seqOf[p])
      <3>1. CASE p \in Senders(batch)
        <4>1. PICK i \in 1..Len(batch) : batch[i].from = p
          BY <3>1, <1>3
        <4>2. batch[i].seq = seqOf[p]
          BY <4>1, Kinds DEF IInv, InFlight, EnvsFly, Flying
        <4>3. Contains(reduced, batch[i].seq)
          BY <1>1, <2>1 DEF IInv, Reports
        <4> QED BY <4>2, <4>3
      <3>2. CASE p \notin Senders(batch)
        <4>1. pc[p] = "committed"
          BY <3>2, <2>1, <1>5, Kinds
        <4> QED BY <4>1, <2>1 DEF IInv, Reports
      <3> QED BY <3>1, <3>2
    <2>2. \A p \in Waiters : pc'[p] # "failed"
      <3>1. \A p \in Waiters : pc[p] # "failed"
        BY <1>1 DEF IInv, Reports
      <3> QED BY <3>1, <1>5, Kinds
    <2> QED BY <2>1, <2>2, <1>1 DEF Reports, WorkerStep
  <1> QED BY <1>7, <1>8, <1>9, <1>10, <1>12, <1>13, <1>14, <1>15 DEF IInv

\* The worker gives up: the batch and the queue are answered with its error.
LEMMA FailStep ==
  ASSUME IInv, NEW result \in {"failed", "committedCancel"}, FailPending(result), loop = NoOne,
         UNCHANGED <<nextSeq, lost, overflowed, ready, cancelling, stopping, loop, seqOf, threads,
                     store>>,
         reducer \in {"get", "validating", "adapting", "persisted"},
         result = "failed" => reducer # "persisted"
  PROVE  IInv'
  <1> DEFINE envs == batch \o queue
  <1>1. /\ WorkerStep /\ reducer' = "dead" /\ batch' = <<>> /\ queue' = <<>>
        /\ UNCHANGED <<reduced, incidents>>
        /\ outstanding' = outstanding - Len(envs)
        /\ pc' = [p \in Coroutines |-> IF p \in Senders(envs) THEN result ELSE Wake(pc)[p]]
    BY DEF FailPending, Acknowledge, WorkerStep, threads, store, IInv, Types
  <1>2. /\ batch \in Seq(Envelopes) /\ queue \in Seq(Envelopes) /\ Len(batch) \in Nat
        /\ Len(queue) \in Nat
    BY LenProperties DEF IInv, Types
  <1>3. /\ envs \in Seq(Envelopes) /\ Len(envs) = Len(batch) + Len(queue)
        /\ \A i \in 1..(Len(batch) + Len(queue)) :
             envs[i] = IF i <= Len(batch) THEN batch[i] ELSE queue[i - Len(batch)]
    BY <1>2, ConcatProperties
  <1> HIDE DEF envs
  <1>4. \A p \in Senders(envs) :
          /\ p \in Waiters
          /\ \/ \E i \in 1..Len(batch) : batch[i].from = p
             \/ \E i \in 1..Len(queue) : queue[i].from = p
    <2> TAKE p \in Senders(envs)
    <2>1. PICK i \in 1..Len(envs) : envs[i].from = p /\ p \in Waiters
      BY <1>3, SendersOf
    <2>2. CASE i <= Len(batch)
      <3>1. i \in 1..Len(batch) /\ envs[i] = batch[i]
        BY <1>2, <1>3, <2>2
      <3> QED BY <2>1, <3>1
    <2>3. CASE ~(i <= Len(batch))
      <3>1. i - Len(batch) \in 1..Len(queue) /\ envs[i] = queue[i - Len(batch)]
        BY <1>2, <1>3, <2>3
      <3> QED BY <2>1, <3>1
    <2> QED BY <2>2, <2>3
  <1>5. \A p \in Coroutines : pc[p] # "reserved"
    BY Kinds DEF IInv, Locks
  <1>6. /\ pc' \in [Coroutines -> Stages]
        /\ \A p \in Coroutines : p \in Senders(envs) => pc'[p] = result
        /\ \A p \in Coroutines : p \notin Senders(envs) =>
              \/ pc'[p] = pc[p]
              \/ pc[p] = "waiting" /\ pc'[p] = "woken"
        /\ \A p \in Coroutines : pc'[p] = "reserved" <=> pc[p] = "reserved"
    <2>1. \A p \in Senders(envs) : p \in Coroutines /\ pc[p] # "reserved"
      BY <1>4, <1>5, Kinds
    <2> QED BY <1>1, <2>1, AckedPc
  <1>7. /\ batch' \in Seq(Envelopes) /\ queue' \in Seq(Envelopes)
        /\ Len(batch') = 0 /\ Len(queue') = 0
    BY <1>1, EmptySeq
  <1>8. Slots' /\ outstanding' \in Nat
    <2>1. Len(envs) \in Nat /\ Len(queue') + Len(batch') + Len(envs) = Len(queue) + Len(batch)
      BY <1>2, <1>3, <1>7
    <2> QED BY <1>1, <1>7, <2>1, WorkerSlots
  <1>9. Types'
    BY <1>1, <1>6, <1>7, <1>8, WorkerTypes DEF IInv, Types
  <1>10. Locks'
    BY <1>1, <1>6 DEF Locks, IInv, WorkerStep
  <1>11. NothingVanishes'
    BY <1>1 DEF NothingVanishes
  <1>12. /\ Pipe(reduced', Seqs(batch'), Seqs(queue'), Nums(ready), sdkSeqs, nextSeq, FALSE)
         /\ \A x : Fresh(reduced, Seqs(batch), Seqs(queue), Nums(ready), sdkSeqs, x)
                     => Fresh(reduced', Seqs(batch'), Seqs(queue'), Nums(ready), sdkSeqs, x)
    <2>1. Seqs(batch') = <<>> /\ Seqs(queue') = <<>> /\ reduced' = reduced
      BY <1>1, EmptyNums
    <2>2. Pipe(reduced, Seqs(batch), Seqs(queue), Nums(ready), sdkSeqs, nextSeq,
               reducer = "persisted")
      BY DEF IInv, Order
    <2> QED BY <2>1, <2>2, PipeFail
  <1>13. Order'
    <2>1. (reducer' = "persisted") = FALSE
      BY <1>1
    <2> QED BY <2>1, <1>1, <1>12 DEF Order, WorkerStep
  <1>14. Holders'
    BY <1>1, <1>12, WorkerHolders
  <1>15. InFlight'
    <2>1. EnvsFly(batch', pc', seqOf') /\ EnvsFly(queue', pc', seqOf')
      BY <1>7 DEF EnvsFly
    <2>2. PutsFly(ready, pc', seqOf)
      <3> SUFFICES ASSUME NEW j \in 1..Len(ready), ready[j].run = "put"
                   PROVE  Flying(ready[j].env, pc', seqOf)
        BY DEF PutsFly
      <3>1. Flying(ready[j].env, pc, seqOf)
        BY DEF IInv, InFlight, PutsFly
      <3>2. ready[j].env.from \notin Senders(envs)
        BY <1>4, Kinds, OneEnvelope
      <3> QED BY <3>1, <3>2, <1>6 DEF Flying
    <2> QED BY <2>1, <2>2, <1>1 DEF InFlight, WorkerStep
  <1>16. Reports'
    <2>1. \A p \in Waiters : pc'[p] = "committed" => pc[p] = "committed"
      BY <1>6, Kinds
    <2>2. ASSUME NEW p \in Waiters, pc'[p] = "failed"
          PROVE  ~Contains(reduced, seqOf[p])
      <3>1. pc[p] # "failed"
        BY DEF IInv, Reports
      <3>2. p \in Senders(envs) /\ result = "failed"
        BY <3>1, <2>2, <1>6, Kinds
      <3>3. /\ Ahead(reduced, Seqs(batch), sdkSeqs) /\ Ahead(reduced, Seqs(queue), sdkSeqs)
        BY <3>2 DEF IInv, Order, Pipe
      <3>4. /\ Len(Seqs(batch)) = Len(batch) /\ (\A i \in 1..Len(batch) : Seqs(batch)[i] = batch[i].seq)
            /\ Len(Seqs(queue)) = Len(queue) /\ (\A i \in 1..Len(queue) : Seqs(queue)[i] = queue[i].seq)
        BY <1>2, SeqsOK
      <3>5. CASE \E i \in 1..Len(batch) : batch[i].from = p
        <4>1. PICK i \in 1..Len(batch) : batch[i].from = p
          BY <3>5
        <4>2. batch[i].seq = seqOf[p] /\ seqOf[p] # 0
          BY <4>1, Kinds DEF IInv, InFlight, EnvsFly, Flying
        <4>3. \A j \in 1..Len(reduced) : Before(reduced[j], seqOf[p], sdkSeqs)
          BY <4>2, <3>3, <3>4 DEF Ahead
        <4> QED BY <4>2, <4>3 DEF Contains, Before
      <3>6. CASE \E i \in 1..Len(queue) : queue[i].from = p
        <4>1. PICK i \in 1..Len(queue) : queue[i].from = p
          BY <3>6
        <4>2. queue[i].seq = seqOf[p] /\ seqOf[p] # 0
          BY <4>1, Kinds DEF IInv, InFlight, EnvsFly, Flying
        <4>3. \A j \in 1..Len(reduced) : Before(reduced[j], seqOf[p], sdkSeqs)
          BY <4>2, <3>3, <3>4 DEF Ahead
        <4> QED BY <4>2, <4>3 DEF Contains, Before
      <3> QED BY <3>2, <3>5, <3>6, <1>4
    <2>3. \A p \in Waiters : pc[p] = "committed" /\ bound => Contains(reduced, seqOf[p])
      BY DEF IInv, Reports
    <2> QED BY <2>1, <2>2, <2>3, <1>1 DEF Reports, WorkerStep
  <1> QED BY <1>8, <1>9, <1>10, <1>11, <1>13, <1>14, <1>15, <1>16 DEF IInv

---------------------------------------------------------------------------
(* The invariant holds.                                                    *)

LEMMA WorkerFailsKeeps ==
  ASSUME IInv, WorkerFails \/ WorkerCancelled
  PROVE  IInv'
  <1>1. /\ FailPending("failed") /\ loop = NoOne
        /\ UNCHANGED <<nextSeq, lost, overflowed, ready, cancelling, stopping, loop, seqOf, threads,
                       store>>
        /\ reducer \in {"get", "validating", "adapting"}
    BY DEF WorkerFails, WorkerCancelled
  <1> QED BY <1>1, FailStep

LEMMA WorkerCommittedCancelledKeeps ==
  ASSUME IInv, WorkerCommittedCancelled
  PROVE  IInv'
  <1>1. /\ FailPending("committedCancel") /\ loop = NoOne
        /\ UNCHANGED <<nextSeq, lost, overflowed, ready, cancelling, stopping, loop, seqOf, threads,
                       store>>
        /\ reducer = "persisted"
    BY DEF WorkerCommittedCancelled
  <1> QED BY <1>1, FailStep

LEMMA InitInv == InboxInit => IInv
  <1> SUFFICES ASSUME InboxInit PROVE IInv
    OBVIOUS
  <1>1. /\ ready = <<>> /\ queue = <<>> /\ batch = <<>> /\ reduced = <<>> /\ reducer = "get"
        /\ nextSeq = 0 /\ outstanding = 0 /\ lost = 0 /\ incidents = 0 /\ loop = NoOne
        /\ sdkSeqs = {} /\ ingress = NoOne
        /\ pc = [p \in Coroutines |-> "idle"] /\ sdk = [t \in SdkThreads |-> "idle"]
        /\ seqOf = [h \in Producers |-> 0]
    BY DEF InboxInit, Producers
  <1>2. /\ <<>> \in Seq(Callbacks) /\ <<>> \in Seq(Envelopes) /\ <<>> \in Seq(Nat)
        /\ Len(<<>>) = 0
    BY EmptySeq
  <1>3. Types
    <2>1. pc \in [Coroutines -> Stages] /\ sdk \in [SdkThreads -> {"idle", "checked", "reserved"}]
          /\ seqOf \in [Producers -> Nat]
      BY <1>1 DEF Stages
    <2>2. /\ space \in BOOLEAN /\ closed \in BOOLEAN /\ sdkClosed \in BOOLEAN
          /\ overflowed \in BOOLEAN /\ cancelling \in BOOLEAN /\ stopping \in BOOLEAN
          /\ bound \in BOOLEAN /\ delivered \in Nat
      BY DEF InboxInit
    <2>3. \A i \in 1..Len(ready) : CallbackOK(ready[i])
      BY <1>1, <1>2
    <2> QED BY <1>1, <1>2, <2>1, <2>2, <2>3 DEF Types
  <1>4. Locks
    BY <1>1, Kinds DEF Locks
  <1>5. Slots
    <2>1. ThreadSlot = 0 /\ LoopSlot = 0
      BY <1>1 DEF ThreadSlot, LoopSlot
    <2>2. Cardinality(Puts) = 0
      BY <1>1, PutsEmpty DEF Puts, PutsOf
    <2> QED BY <1>1, <1>2, <2>1, <2>2, Kinds DEF Slots
  <1>6. NothingVanishes
    BY <1>1, <1>2 DEF NothingVanishes
  <1>7. Order
    BY <1>1, EmptyNums, EmptyLine DEF Order, Pipe
  <1>8. Holders
    BY <1>1, Kinds DEF Holders
  <1>9. InFlight
    BY <1>1, <1>2 DEF InFlight, EnvsFly, PutsFly
  <1>10. Reports
    <2>1. \A p \in Waiters : pc[p] = "idle"
      BY <1>1, Kinds
    <2> QED BY <1>1, <2>1 DEF Reports
  <1> QED BY <1>3, <1>4, <1>5, <1>6, <1>7, <1>8, <1>9, <1>10 DEF IInv

LEMMA StutterInv ==
  ASSUME IInv, UNCHANGED inboxVars
  PROVE  IInv'
  <1>1. Quiet
    BY DEF Quiet, WorkerGoesOn, Calm, IInv, Types, Locks, inboxVars, counters, gates, pipeline, control,
           producer, threads, store
  <1> QED BY <1>1, QuietStep

LEMMA NextInv == IInv /\ [InboxNext]_inboxVars => IInv'
  <1> SUFFICES ASSUME IInv, [InboxNext]_inboxVars PROVE IInv'
    OBVIOUS
  <1>1. ASSUME NEW t \in SdkThreads, SdkNext(t) PROVE IInv'
    BY <1>1, SdkCallKeeps, SdkReserveKeeps, SdkOverflowKeeps, SdkRefusedKeeps, SdkScheduleKeeps
       DEF SdkNext
  <1>2. ASSUME NEW p \in Coroutines, LoopNext(p) PROVE IInv'
    BY <1>2, LoopReserveKeeps, LoopWaitKeeps, LoopOverflowKeeps, LoopRefusedKeeps, LoopScheduleKeeps
       DEF LoopNext
  <1>3. ASSUME NEW p \in Coroutines, CancelWait(p) PROVE IInv'
    BY <1>3, CancelWaitKeeps
  <1>4. ASSUME NEW i \in 1..BatchSize, WorkerIncident(i) PROVE IInv'
    BY <1>4, WorkerIncidentKeeps
  <1>5. CASE RunCallback
    BY <1>5, RunCallbackKeeps
  <1>6. CASE SuperviseOverflow
    BY <1>6, SuperviseOverflowKeeps
  <1>7. CASE JoinReturns
    BY <1>7, JoinReturnsKeeps
  <1>8. CASE WorkerNext
    BY <1>8, WorkerTakeKeeps, WorkerValidateKeeps, WorkerNothingLeftKeeps, WorkerCommitKeeps,
       WorkerAckKeeps, WorkerFailsKeeps, WorkerCommittedCancelledKeeps
       DEF WorkerNext
  <1>9. CASE StopCall
    BY <1>9, StopCallKeeps
  <1>10. CASE StopCancels
    BY <1>10, StopCancelsKeeps
  <1>11. CASE StopCloses
    BY <1>11, StopClosesKeeps
  <1>12. CASE FenceMoves
    BY <1>12, FenceMovesKeeps
  <1>13. CASE UNCHANGED inboxVars
    BY <1>13, StutterInv
  <1> QED BY <1>1, <1>2, <1>3, <1>4, <1>5, <1>6, <1>7, <1>8, <1>9, <1>10, <1>11, <1>12, <1>13
      DEF InboxNext

\* The numbers, the holders, the slots and the reports fit together in every
\* reachable state: IInv is inductive.
THEOREM InboxInvariant == InboxSpec => []IInv
  BY InitInv, NextInv, PTL DEF InboxSpec

---------------------------------------------------------------------------
(* What it implies.                                                        *)

\* _reserve, _put_reserved, acknowledge: every slot is held by exactly one
\* envelope, and every inbox_seq is journaled, an incident, lost or on its way.
LEMMA ReceiptsFollow == IInv => ReceiptsAccounted
  <1> SUFFICES ASSUME IInv PROVE ReceiptsAccounted
    OBVIOUS
  <1>1. PICK a \in Nat, b \in Nat, c \in Nat, e \in Nat, f \in Nat :
          /\ a = Cardinality(Puts) /\ b = Len(queue) /\ c = Len(batch)
          /\ e = ThreadSlot /\ f = LoopSlot
    BY Counts
  <1>2. outstanding = a + b + c + e + f /\ outstanding <= Capacity
    BY <1>1 DEF IInv, Slots
  <1>3. outstanding = Cardinality(Puts) + Len(queue) + Len(batch)
           + Cardinality({t \in SdkThreads : sdk[t] = "reserved"})
           + Cardinality({p \in Coroutines : pc[p] = "reserved"})
    BY <1>1, <1>2, HolderSets
  <1>4. Puts # {} => a # 0
    BY <1>1, Counts, PutsFinite, FS_EmptySet DEF IInv, Types
  <1>5. Puts # {} => b < Capacity
    BY <1>2, <1>4, Kinds
  <1> QED BY <1>1, <1>3, <1>5 DEF ReceiptsAccounted, SlotsAccounted, IInv

\* No slot of the inbox is leaked or freed twice, a put never finds the queue
\* full, and no receipt disappears without a trace (core/inbox.py _reserve,
\* _put_reserved, acknowledge; core/reducer.py _reduce_loop).
THEOREM ReceiptsAreAccounted == InboxSpec => []ReceiptsAccounted
  BY InboxInvariant, ReceiptsFollow, PTL

LEMMA HonestFollows == IInv => CommitHonest
  BY DEF IInv, Reports, CommitHonest

\* What commit_internal reports is true: a return means a committed receipt as
\* long as the session is bound, an error means the receipt was not committed
\* (acknowledge, fail_pending).
THEOREM CommitIsHonest == InboxSpec => []CommitHonest
  BY InboxInvariant, HonestFollows, PTL

\* A sequence put together from sorted parts, one ahead of the other.
LEMMA SortedConcat ==
  ASSUME NEW s \in Seq(Nat), NEW t \in Seq(Nat), NEW S, Sorted(s, S), Sorted(t, S), Ahead(s, t, S)
  PROVE  /\ s \o t \in Seq(Nat) /\ Sorted(s \o t, S)
         /\ \A u : Ahead(s, u, S) /\ Ahead(t, u, S) => Ahead(s \o t, u, S)
  <1> DEFINE T == s \o t
  <1>0. Len(s) \in Nat /\ Len(t) \in Nat
    BY LenProperties
  <1>1. /\ T \in Seq(Nat) /\ Len(T) = Len(s) + Len(t)
        /\ \A i \in 1..(Len(s) + Len(t)) : T[i] = IF i <= Len(s) THEN s[i] ELSE t[i - Len(s)]
    BY ConcatProperties
  <1> HIDE DEF T
  <1>2. \A i \in 1..(Len(s) + Len(t)) :
          \/ i \in 1..Len(s) /\ T[i] = s[i]
          \/ i - Len(s) \in 1..Len(t) /\ T[i] = t[i - Len(s)]
    BY <1>0, <1>1
  <1>3. \A u : Ahead(s, u, S) /\ Ahead(t, u, S) => Ahead(T, u, S)
    BY <1>1, <1>2 DEF Ahead
  <1>4. Sorted(T, S)
    <2> SUFFICES ASSUME NEW i \in 1..(Len(s) + Len(t)), NEW j \in 1..(Len(s) + Len(t)), i < j
                 PROVE  Before(T[i], T[j], S)
      BY <1>1 DEF Sorted
    <2>1. CASE i <= Len(s) /\ j <= Len(s)
      <3>1. i \in 1..Len(s) /\ j \in 1..Len(s) /\ T[i] = s[i] /\ T[j] = s[j]
        BY <1>0, <1>1, <2>1
      <3> QED BY <3>1 DEF Sorted
    <2>2. CASE i <= Len(s) /\ ~(j <= Len(s))
      <3>1. i \in 1..Len(s) /\ j - Len(s) \in 1..Len(t) /\ T[i] = s[i] /\ T[j] = t[j - Len(s)]
        BY <1>0, <1>1, <2>2
      <3> QED BY <3>1 DEF Ahead
    <2>3. CASE ~(i <= Len(s))
      <3>1. /\ i - Len(s) \in 1..Len(t) /\ j - Len(s) \in 1..Len(t)
            /\ i - Len(s) < j - Len(s)
            /\ ~(j <= Len(s))
        BY <1>0, <2>3
      <3>2. T[i] = t[i - Len(s)] /\ T[j] = t[j - Len(s)]
        BY <3>1, <1>1, <2>3
      <3> QED BY <3>1, <3>2 DEF Sorted
    <2> QED BY <2>1, <2>2, <2>3
  <1> QED BY <1>1, <1>3, <1>4 DEF T

LEMMA OrderFollows == IInv => SdkOrder
  <1> SUFFICES ASSUME IInv PROVE SdkOrder
    OBVIOUS
  <1> DEFINE B == IF reducer = "persisted" THEN <<>> ELSE Seqs(batch)
             Q == Seqs(queue)
             R == Nums(ready)
             S == sdkSeqs
  <1>1. /\ reduced \in Seq(Nat) /\ B \in Seq(Nat) /\ Q \in Seq(Nat) /\ R \in Seq(Nat)
    BY Counts, EmptySeq DEF IInv, Types
  <1>2. /\ Sorted(reduced, S) /\ Sorted(B, S) /\ Sorted(Q, S) /\ Sorted(R, S)
        /\ Ahead(reduced, B, S) /\ Ahead(reduced, Q, S) /\ Ahead(reduced, R, S)
        /\ Ahead(B, Q, S) /\ Ahead(B, R, S) /\ Ahead(Q, R, S)
    BY EmptyLine DEF IInv, Order, Pipe
  <1>3. Line = reduced \o B \o Q \o R
    BY DEF Line, Nums
  <1> HIDE DEF B, Q, R, S
  <1>4. /\ reduced \o B \in Seq(Nat) /\ Sorted(reduced \o B, S)
        /\ Ahead(reduced \o B, Q, S) /\ Ahead(reduced \o B, R, S)
    BY <1>1, <1>2, SortedConcat
  <1>5. /\ reduced \o B \o Q \in Seq(Nat) /\ Sorted(reduced \o B \o Q, S)
        /\ Ahead(reduced \o B \o Q, R, S)
    BY <1>1, <1>2, <1>4, SortedConcat
  <1>6. Line \in Seq(Nat) /\ Sorted(Line, S)
    BY <1>1, <1>2, <1>3, <1>5, SortedConcat
  <1>7. DOMAIN Line = 1..Len(Line)
    BY <1>6, LenProperties
  <1>8. \A i, j \in 1..Len(Line) : i < j /\ {Line[i], Line[j]} \subseteq S => Line[i] < Line[j]
    BY <1>6 DEF Sorted, Before
  <1> QED BY <1>7, <1>8 DEF SdkOrder, S

\* SDK events are journaled in the order in which the ingress received them,
\* whatever threads they come on (SdkEventIngress.__call__).
THEOREM SdkEventsInOrder == InboxSpec => []SdkOrder
  BY InboxInvariant, OrderFollows, PTL

\* The journal holds numbers that were handed out.
RealNumbers == \A i \in 1..Len(reduced) : reduced[i] # 0

LEMMA RealInit == InboxInit => RealNumbers
  BY EmptySeq DEF InboxInit, RealNumbers

LEMMA RealNext == IInv /\ RealNumbers /\ [InboxNext]_inboxVars => RealNumbers'
  <1> SUFFICES ASSUME IInv, RealNumbers, [InboxNext]_inboxVars PROVE RealNumbers'
    OBVIOUS
  <1>1. CASE WorkerCommit
    <2>1. /\ reduced \in Seq(Nat) /\ Seqs(batch) \in Seq(Nat) /\ Len(Seqs(batch)) = Len(batch)
          /\ \A i \in 1..Len(batch) : Seqs(batch)[i] = batch[i].seq /\ batch[i].seq # 0
      BY SeqsOK DEF IInv, Types, InFlight, EnvsFly, Flying
    <2>2. PICK b : b = Seqs(batch)
      OBVIOUS
    <2>3. \A i \in 1..Len(b) : b[i] # 0
      BY <2>1, <2>2
    <2>4. /\ Len(reduced) \in Nat /\ Len(b) \in Nat
          /\ Len(reduced \o b) = Len(reduced) + Len(b)
          /\ \A i \in 1..(Len(reduced) + Len(b)) :
               (reduced \o b)[i] = IF i <= Len(reduced) THEN reduced[i] ELSE b[i - Len(reduced)]
      BY <2>1, <2>2, ConcatProperties, LenProperties
    <2>5. \A i \in 1..(Len(reduced) + Len(b)) :
            i \in 1..Len(reduced) \/ (~(i <= Len(reduced)) /\ i - Len(reduced) \in 1..Len(b))
      BY <2>4
    <2>6. \A i \in 1..(Len(reduced) + Len(b)) : (reduced \o b)[i] # 0
      BY <2>3, <2>4, <2>5 DEF RealNumbers
    <2>7. reduced' = reduced \/ reduced' = reduced \o b
      BY <1>1, <2>2 DEF WorkerCommit
    <2> QED BY <2>4, <2>6, <2>7 DEF RealNumbers
  <1>2. CASE reduced' = reduced
    BY <1>2 DEF RealNumbers
  <1>3. ASSUME NEW t \in SdkThreads, SdkNext(t) PROVE reduced' = reduced
    BY <1>3 DEF SdkNext, SdkCall, SdkReserve, SdkOverflow, SdkRefused, SdkSchedule, store
  <1>4. ASSUME NEW p \in Coroutines, LoopNext(p) \/ CancelWait(p) PROVE reduced' = reduced
    BY <1>4 DEF LoopNext, LoopReserve, LoopWait, LoopOverflow, LoopRefused, LoopSchedule, CancelWait,
                store
  <1>5. ASSUME NEW i \in 1..BatchSize, WorkerIncident(i) PROVE reduced' = reduced
    BY <1>5 DEF WorkerIncident
  <1>6. CASE RunCallback \/ SuperviseOverflow \/ JoinReturns \/ StopCall \/ StopCancels \/ StopCloses
             \/ FenceMoves
    BY <1>2, <1>6 DEF RunCallback, SuperviseOverflow, JoinReturns, StopCall, StopCancels, StopCloses,
                FenceMoves, store
  <1>7. CASE WorkerTake \/ WorkerValidate \/ WorkerNothingLeft \/ WorkerAck \/ WorkerFails
             \/ WorkerCancelled \/ WorkerCommittedCancelled
    BY <1>2, <1>7 DEF WorkerTake, WorkerValidate, WorkerNothingLeft, WorkerAck, WorkerFails,
                WorkerCancelled, WorkerCommittedCancelled, store
  <1>8. CASE UNCHANGED inboxVars
    BY <1>2, <1>8 DEF inboxVars, store
  <1> QED BY <1>1, <1>2, <1>3, <1>4, <1>5, <1>6, <1>7, <1>8 DEF InboxNext, WorkerNext

LEMMA TypeFollows == IInv /\ RealNumbers => InboxTypeOK
  <1> SUFFICES ASSUME IInv, RealNumbers PROVE InboxTypeOK
    OBVIOUS
  <1>1. outstanding \in 0..Capacity
    BY Counts DEF IInv, Slots
  <1>2. /\ DOMAIN ready = 1..Len(ready) /\ DOMAIN queue = 1..Len(queue)
        /\ DOMAIN batch = 1..Len(batch) /\ DOMAIN reduced = 1..Len(reduced)
    BY LenProperties DEF IInv, Types
  <1>3. /\ \A i \in 1..Len(ready) : ready[i] \in Callbacks /\ CallbackOK(ready[i])
        /\ \A i \in 1..Len(queue) : queue[i] \in Envelopes
        /\ \A i \in 1..Len(batch) : batch[i] \in Envelopes
        /\ \A i \in 1..Len(reduced) : reduced[i] \in Nat
    BY ElementOfSeq DEF IInv, Types
  <1>4. \A i \in DOMAIN ready :
          /\ ready[i].run \in {"put", "clear", "overflow"}
          /\ ready[i].run = "put" => ready[i].env \in Envelopes
    BY <1>2, <1>3 DEF Callbacks, CallbackOK
  <1>5. \A envs \in {queue, batch} : \A i \in DOMAIN envs : envs[i] \in Envelopes
    BY <1>2, <1>3
  <1>6. \A i \in DOMAIN reduced : reduced[i] \in 1..nextSeq
    <2>1. UpTo(reduced, nextSeq)
      BY DEF IInv, Order, Pipe
    <2> QED BY <2>1, <1>2, <1>3, Counts DEF UpTo, RealNumbers
  <1>7. /\ nextSeq \in Nat /\ lost \in Nat /\ incidents \in Nat /\ delivered \in Nat
        /\ {space, closed, sdkClosed, overflowed, cancelling, stopping, bound} \subseteq BOOLEAN
        /\ reducer \in {"get", "validating", "adapting", "persisted", "stopped", "dead"}
        /\ loop \in Coroutines \cup {NoOne} /\ ingress \in SdkThreads \cup {NoOne}
        /\ sdkSeqs \subseteq 1..nextSeq
    BY DEF IInv, Types
  <1>8. \A p \in Coroutines : pc[p] \in Stages
    BY DEF IInv, Types
  <1>9. \A t \in SdkThreads : sdk[t] \in {"idle", "checked", "reserved"}
    BY DEF IInv, Types
  <1> QED BY <1>1, <1>4, <1>5, <1>6, <1>7, <1>8, <1>9 DEF InboxTypeOK, Stages

\* The variables of the inbox and of its worker keep their types; in particular
\* no more than Capacity slots are ever in use.
THEOREM TypeCorrect == InboxSpec => []InboxTypeOK
  <1>1. IInv /\ RealNumbers /\ [InboxNext]_inboxVars => IInv' /\ RealNumbers'
    BY NextInv, RealNext
  <1>2. InboxInit => IInv /\ RealNumbers
    BY InitInv, RealInit
  <1> QED BY <1>1, <1>2, TypeFollows, PTL DEF InboxSpec
====
