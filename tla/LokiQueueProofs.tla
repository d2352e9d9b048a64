--------------------------- MODULE LokiQueueProofs ---------------------------
(***************************************************************************)
(* Records on their way to Loki keep their order and none is lost between  *)
(* the queue, the batch and Loki, proved for any number of records, any    *)
(* sizes and any number of retries.                                        *)
(***************************************************************************)
EXTENDS LokiQueue, SequenceTheorems, TLAPS

Queued == ToSet(queue) \ {Wake}
Batch == ToSet(pending)
InStore == ToSet(stored)

\* The queue is in the order of acceptance, whatever wakes are between.
Sorted(s) ==
  \A i, j \in DOMAIN s : i < j /\ s[i] # Wake /\ s[j] # Wake => s[i] < s[j]

\* Records are settled up to done, in the batch up to taken, else in the queue.
Split(done, taken) ==
  /\ done \in 0 .. taken /\ taken \in 0 .. accepted
  /\ 1 .. done \subseteq Settled /\ Settled \subseteq 1 .. taken
  /\ Batch = done + 1 .. taken /\ Queued = taken + 1 .. accepted

(***************************************************************************)
(* The invariant: the records are split in two places of their order, and  *)
(* a batch is stored as a whole or not, which it is only while it is       *)
(* pushed.                                                                 *)
(***************************************************************************)
OrderInv ==
  /\ Sorted(queue)
  /\ \E done, taken \in Nat : Split(done, taken)
  /\ Batch \cap Settled = {} \/ (worker \in {"push", "killed"} /\ Batch \subseteq InStore)

\* TypeOK is inductive together with what a batch may still take.
BatchInv == worker \in {"look", "look_queue", "get"} => Len(pending) < BatchSize

-----------------------------------------------------------------------------
(* Sequences *)

LEMMA AppendFits ==
  ASSUME NEW S, NEW s \in Seq(S), NEW e \in S, NEW n \in Nat, Len(s) < n
  PROVE  Append(s, e) \in Seq(S) /\ Len(Append(s, e)) <= n
BY AppendProperties, LenProperties

LEMMA TailFits ==
  ASSUME NEW S, NEW s \in Seq(S), s # <<>>, NEW n \in Nat, Len(s) <= n
  PROVE  Tail(s) \in Seq(S) /\ Len(Tail(s)) <= n
BY HeadTailProperties, LenProperties

LEMMA AppendSet ==
  ASSUME NEW S, NEW s \in Seq(S), NEW e \in S
  PROVE  ToSet(Append(s, e)) = ToSet(s) \cup {e}
BY AppendProperties, LenProperties DEF ToSet

LEMMA ConcatSet ==
  ASSUME NEW S, NEW s \in Seq(S), NEW t \in Seq(S)
  PROVE  ToSet(s \o t) = ToSet(s) \cup ToSet(t)
<1>1. /\ s \o t \in Seq(S) /\ Len(s \o t) = Len(s) + Len(t)
      /\ \A i \in 1 .. Len(s) + Len(t) : (s \o t)[i] = IF i <= Len(s) THEN s[i] ELSE t[i - Len(s)]
  BY ConcatProperties
<1>2. Len(s) \in Nat /\ Len(t) \in Nat /\ DOMAIN s = 1 .. Len(s) /\ DOMAIN t = 1 .. Len(t)
      /\ DOMAIN (s \o t) = 1 .. Len(s) + Len(t)
  BY <1>1, LenProperties
<1>3. \A i \in DOMAIN s : (s \o t)[i] = s[i] /\ i \in DOMAIN (s \o t)
  BY <1>1, <1>2
<1>4. \A i \in DOMAIN t : (s \o t)[Len(s) + i] = t[i] /\ Len(s) + i \in DOMAIN (s \o t)
  BY <1>1, <1>2
<1>5. \A i \in DOMAIN (s \o t) : (s \o t)[i] \in ToSet(s) \cup ToSet(t)
  BY <1>1, <1>2 DEF ToSet
<1>6. ToSet(s) \subseteq ToSet(s \o t)
  BY <1>3 DEF ToSet
<1>7. ToSet(t) \subseteq ToSet(s \o t)
  BY <1>4 DEF ToSet
<1>8. ToSet(s \o t) \subseteq ToSet(s) \cup ToSet(t)
  BY <1>5 DEF ToSet
<1> QED
  BY <1>6, <1>7, <1>8

LEMMA TailSet ==
  ASSUME NEW S, NEW s \in Seq(S), s # <<>>
  PROVE  /\ ToSet(s) = {Head(s)} \cup ToSet(Tail(s))
         /\ \A x \in ToSet(Tail(s)) : \E i \in DOMAIN s : i > 1 /\ s[i] = x
         /\ Head(s) = s[1] /\ 1 \in DOMAIN s
<1>1. /\ Head(s) = s[1] /\ Tail(s) \in Seq(S) /\ Len(Tail(s)) = Len(s) - 1
      /\ \A i \in 1 .. Len(Tail(s)) : Tail(s)[i] = s[i + 1]
  BY HeadTailProperties
<1>2. Len(s) \in Nat \ {0} /\ DOMAIN s = 1 .. Len(s) /\ DOMAIN Tail(s) = 1 .. Len(s) - 1
  BY <1>1, LenProperties, EmptySeq
<1>3. \A i \in DOMAIN Tail(s) : i + 1 \in DOMAIN s /\ i + 1 > 1 /\ Tail(s)[i] = s[i + 1]
  BY <1>1, <1>2
<1>4. \A i \in DOMAIN s : i = 1 \/ (i - 1 \in DOMAIN Tail(s) /\ s[i] = Tail(s)[i - 1])
  BY <1>1, <1>2
<1>5. \A x \in ToSet(Tail(s)) : \E i \in DOMAIN s : i > 1 /\ s[i] = x
  BY <1>3 DEF ToSet
<1>6. ToSet(Tail(s)) \subseteq ToSet(s) /\ Head(s) \in ToSet(s)
  BY <1>1, <1>2, <1>5 DEF ToSet
<1>7. ToSet(s) \subseteq {Head(s)} \cup ToSet(Tail(s))
  BY <1>1, <1>4 DEF ToSet
<1> QED
  BY <1>1, <1>2, <1>5, <1>6, <1>7

LEMMA SortedAppend ==
  ASSUME NEW s \in Seq({Wake} \cup Record), Sorted(s), NEW e \in {Wake} \cup Record,
         e = Wake \/ \A x \in ToSet(s) \ {Wake} : x < e
  PROVE  Sorted(Append(s, e))
<1>1. /\ Len(s) \in Nat /\ DOMAIN s = 1 .. Len(s) /\ DOMAIN Append(s, e) = 1 .. Len(s) + 1
      /\ \A i \in 1 .. Len(s) : Append(s, e)[i] = s[i]
      /\ Append(s, e)[Len(s) + 1] = e
  BY AppendProperties, LenProperties
<1>2. \A i \in 1 .. Len(s) : s[i] \in ToSet(s)
  BY <1>1 DEF ToSet
<1> QED
  BY <1>1, <1>2 DEF Sorted

LEMMA SortedTail ==
  ASSUME NEW s \in Seq({Wake} \cup Record), Sorted(s), s # <<>>
  PROVE  Sorted(Tail(s))
<1>1. /\ Tail(s) \in Seq({Wake} \cup Record) /\ Len(Tail(s)) = Len(s) - 1
      /\ \A i \in 1 .. Len(Tail(s)) : Tail(s)[i] = s[i + 1]
  BY HeadTailProperties
<1>2. Len(s) \in Nat \ {0} /\ DOMAIN s = 1 .. Len(s) /\ DOMAIN Tail(s) = 1 .. Len(s) - 1
  BY <1>1, LenProperties, EmptySeq
<1> QED
  BY <1>1, <1>2 DEF Sorted

-----------------------------------------------------------------------------
(* Types *)

TypeInv == TypeOK /\ BatchInv

LEMMA TypeInit == Init => TypeInv
<1> SUFFICES ASSUME Init PROVE TypeInv
  OBVIOUS
<1>1. stopping \in BOOLEAN /\ due \in BOOLEAN
  BY DEF Init
<1>2. queue \in Seq({Wake} \cup Record) /\ pending \in Seq(Record) /\ stored \in Seq(Record)
  BY DEF Init
<1>3. Len(queue) = 0 /\ Len(pending) = 0
  BY DEF Init
<1> QED
  BY <1>1, <1>2, <1>3, SizesAssumption DEF Init, TypeInv, TypeOK, BatchInv

LEMMA TypeStep == TypeInv /\ [Next]_vars => TypeInv'
<1> SUFFICES ASSUME TypeInv, [Next]_vars PROVE TypeInv'
  OBVIOUS
<1> USE SizesAssumption
<1>0. /\ queue \in Seq({Wake} \cup Record) /\ pending \in Seq(Record)
      /\ Len(queue) \in Nat /\ Len(pending) \in Nat /\ stored \in Seq(Record)
      /\ Len(queue) <= QueueSize /\ Len(pending) <= BatchSize
  BY LenProperties DEF TypeInv, TypeOK
<1>1. CASE Emit
  <2>1. /\ accepted' \in 0 .. Records /\ overflow' \in 0 .. Records
        /\ accepted' + overflow' <= Records
        /\ queue' = queue \/ (Len(queue) < QueueSize /\ queue' = Append(queue, accepted')
                              /\ accepted' \in Record)
    BY <1>0, <1>1, SMTT(30) DEF Emit, TypeInv, TypeOK, Record
  <2>2. queue' \in Seq({Wake} \cup Record) /\ Len(queue') <= QueueSize
    <3>1. CASE queue' = queue
      BY <1>0, <3>1
    <3>2. CASE Len(queue) < QueueSize /\ queue' = Append(queue, accepted') /\ accepted' \in Record
      <4>1. Append(queue, accepted') \in Seq({Wake} \cup Record)
            /\ Len(Append(queue, accepted')) <= QueueSize
        BY <1>0, <3>2, AppendFits
      <4> QED
        BY <3>2, <4>1
    <3> QED
      BY <2>1, <3>1, <3>2
  <2> QED
    BY <1>1, <2>1, <2>2 DEF Emit, TypeInv, TypeOK, BatchInv, batching, loki
<1>2. CASE SetStop
  BY <1>2 DEF SetStop, TypeInv, TypeOK, BatchInv, producers, batching, loki
<1>3. CASE PutWake
  <2>1. queue' \in Seq({Wake} \cup Record) /\ Len(queue') <= QueueSize
    <3>1. Append(queue, Wake) \in Seq({Wake} \cup Record) /\ Len(Append(queue, Wake)) = Len(queue) + 1
      BY <1>0, AppendProperties
    <3> QED
      BY <1>0, <1>3, <3>1 DEF PutWake
  <2> QED
    BY <1>3, <2>1 DEF PutWake, TypeInv, TypeOK, BatchInv, producers, batching, loki
<1>4. CASE Joined \/ Exit
  BY <1>4 DEF Joined, Exit, TypeInv, TypeOK, BatchInv, producers, batching, loki
<1>5. CASE LookAtStop \/ LookAtQueue \/ Ends \/ FlushTime
  BY <1>5 DEF LookAtStop, LookAtQueue, Ends, FlushTime, TypeInv, TypeOK, BatchInv, beside, producers, loki
<1>6. CASE Get
  <2>1. queue' \in Seq({Wake} \cup Record) /\ Len(queue') <= QueueSize
    <3>1. CASE queue' = queue
      BY <1>0, <3>1
    <3>2. CASE queue # <<>> /\ queue' = Tail(queue)
      <4>1. Tail(queue) \in Seq({Wake} \cup Record) /\ Len(Tail(queue)) <= QueueSize
        BY <1>0, <3>2, TailFits
      <4> QED
        BY <3>2, <4>1
    <3> QED
      BY <1>6, <3>1, <3>2 DEF Get
  <2>2. pending' = pending \/ \E e \in Record : pending' = Append(pending, e)
    <3>1. queue # <<>> => Head(queue) \in {Wake} \cup Record
      BY <1>0, HeadTailProperties
    <3> QED
      BY <1>6, <3>1 DEF Get
  <2>3. pending' \in Seq(Record) /\ Len(pending') <= BatchSize
    <3>1. Len(pending) < BatchSize
      BY <1>6 DEF Get, TypeInv, BatchInv
    <3>2. CASE pending' = pending
      BY <1>0, <3>2
    <3>3. ASSUME NEW e \in Record, pending' = Append(pending, e)
          PROVE  pending' \in Seq(Record) /\ Len(pending') <= BatchSize
      <4>1. Append(pending, e) \in Seq(Record) /\ Len(Append(pending, e)) <= BatchSize
        BY <1>0, <3>1, AppendFits
      <4> QED
        BY <3>3, <4>1
    <3> QED
      BY <2>2, <3>2, <3>3
  <2> QED
    BY <1>6, <2>1, <2>3 DEF Get, TypeInv, TypeOK, BatchInv, beside, producers, loki
<1>7. CASE FlushIfReady
  BY <1>0, <1>7 DEF FlushIfReady, Ripe, TypeInv, TypeOK, BatchInv, beside, producers, loki
<1>8. CASE Push
  <2>1. /\ stored' \in {stored, stored \o pending}
        /\ refused' \in {refused, refused \cup ToSet(pending)}
        /\ gaveUp' \in {gaveUp, gaveUp \cup ToSet(pending)}
        /\ \/ Flushed
           \/ worker' = "push" /\ attempt' \in 0 .. MaxRetries /\ UNCHANGED <<pending, due>>
    BY <1>8 DEF Push, TypeInv, TypeOK
  <2>2. stored' \in Seq(Record)
    <3>1. stored \o pending \in Seq(Record)
      BY <1>0, ConcatProperties
    <3> QED
      BY <1>0, <2>1, <3>1
  <2>3. ToSet(pending) \subseteq Record
    BY <1>0, LenProperties, ElementOfSeq DEF ToSet
  <2>4. UNCHANGED <<accepted, overflow, stopping, closer, queue>>
    BY <1>8 DEF Push, beside, producers
  <2>5. CASE Flushed
    <3>1. pending' \in Seq(Record) /\ Len(pending') = 0
      BY <2>5 DEF Flushed
    <3>2. due' \in BOOLEAN
      BY <2>5 DEF Flushed
    <3> QED
      BY <2>1, <2>2, <2>3, <2>4, <2>5, <3>1, <3>2 DEF Flushed, TypeInv, TypeOK, BatchInv
  <2>6. CASE ~Flushed
    BY <2>1, <2>2, <2>3, <2>4, <2>6 DEF TypeInv, TypeOK, BatchInv
  <2> QED
    BY <2>5, <2>6
<1>9. CASE Finished \/ UNCHANGED vars
  BY <1>9 DEF Finished, vars, TypeInv, TypeOK, BatchInv, producers, batching, loki
<1> QED
  BY <1>1, <1>2, <1>3, <1>4, <1>5, <1>6, <1>7, <1>8, <1>9 DEF Next, Worker

LEMMA TypeAlways == Spec => []TypeInv
BY TypeInit, TypeStep, PTL DEF Spec

\* Type correctness: the queue and the batch stay in their sizes, because a batch
\* that is full is pushed before the next entry is taken.
THEOREM Typing == Spec => []TypeOK
BY TypeAlways, PTL DEF TypeInv

-----------------------------------------------------------------------------
(* Order *)

LEMMA OrderInit == Init => OrderInv
<1> SUFFICES ASSUME Init PROVE OrderInv
  OBVIOUS
<1>1. Batch = {} /\ Queued = {} /\ Settled = {} /\ accepted = 0
  BY DEF Init, Batch, Queued, Settled, ToSet
<1>2. Split(0, 0)
  BY <1>1 DEF Split
<1>3. Sorted(queue)
  BY DEF Init, Sorted
<1> QED
  BY <1>1, <1>2, <1>3 DEF OrderInv

\* Steps that take nothing from the queue and push nothing.
LEMMA OrderKept ==
  ASSUME OrderInv, UNCHANGED <<accepted, queue, pending, stored, refused, gaveUp>>,
         worker = "push" => worker' \in {"push", "killed"}, worker = "killed" => worker' = "killed"
  PROVE  OrderInv'
BY DEF OrderInv, Split, Batch, Queued, InStore, Settled

LEMMA OrderEmit == TypeInv /\ OrderInv /\ Emit => OrderInv'
<1> SUFFICES ASSUME TypeInv, OrderInv, Emit PROVE OrderInv'
  OBVIOUS
<1>1. CASE UNCHANGED <<accepted, queue>>
  BY <1>1, OrderKept DEF Emit, batching, loki
<1>2. CASE accepted' = accepted + 1 /\ queue' = Append(queue, accepted')
  <2>1. /\ queue \in Seq({Wake} \cup Record) /\ accepted \in Nat
        /\ accepted' \in Record /\ accepted' # Wake
    BY <1>2, SizesAssumption DEF Emit, TypeInv, TypeOK, Record, Wake
  <2>2. PICK done \in Nat, taken \in Nat : Split(done, taken)
    BY DEF OrderInv
  <2>3. Queued' = Queued \cup {accepted'}
    BY <1>2, <2>1, AppendSet DEF Queued
  <2>4. Sorted(queue')
    BY <1>2, <2>1, <2>2, SortedAppend DEF OrderInv, Split, Queued
  <2>5. UNCHANGED <<pending, stored, refused, gaveUp, worker>>
    BY DEF Emit, batching, loki
  <2>6. Split(done, taken)'
    BY <1>2, <2>1, <2>2, <2>3, <2>5 DEF Split, Batch, Settled
  <2> QED
    BY <2>2, <2>4, <2>5, <2>6 DEF OrderInv, Batch, InStore, Settled
<1> QED
  BY <1>1, <1>2 DEF Emit

LEMMA OrderWake == TypeInv /\ OrderInv /\ PutWake => OrderInv'
<1> SUFFICES ASSUME TypeInv, OrderInv, PutWake PROVE OrderInv'
  OBVIOUS
<1>1. UNCHANGED <<accepted, pending, stored, refused, gaveUp, worker>>
  BY DEF PutWake, producers, batching, loki
<1>2. queue \in Seq({Wake} \cup Record)
  BY DEF TypeInv, TypeOK
<1>3. Sorted(queue')
  BY <1>2, SortedAppend DEF PutWake, OrderInv
<1>4. Queued' = Queued
  BY <1>2, AppendSet DEF PutWake, Queued
<1> QED
  BY <1>1, <1>3, <1>4 DEF OrderInv, Split, Batch, InStore, Settled

\* The record that leaves the queue is the next in the order.
LEMMA OrderGet == TypeInv /\ OrderInv /\ Get => OrderInv'
<1> SUFFICES ASSUME TypeInv, OrderInv, Get PROVE OrderInv'
  OBVIOUS
<1>1. /\ worker = "get" /\ worker' = "ready" /\ UNCHANGED <<accepted, stored, refused, gaveUp>>
  BY DEF Get, beside, producers, loki
<1>2. queue \in Seq({Wake} \cup Record) /\ pending \in Seq(Record) /\ accepted \in Nat
  BY SizesAssumption DEF TypeInv, TypeOK
<1>3. PICK done \in Nat, taken \in Nat : Split(done, taken)
  BY DEF OrderInv
<1>4. Batch \cap Settled = {}
  BY <1>1 DEF OrderInv
<1>5. CASE UNCHANGED <<queue, pending>>
  BY <1>1, <1>5, OrderKept
<1>6. CASE queue # <<>> /\ queue' = Tail(queue) /\ Head(queue) = Wake /\ pending' = pending
  <2>1. Queued' = Queued /\ Sorted(queue')
    BY <1>2, <1>6, TailSet, SortedTail DEF Queued, OrderInv
  <2> QED
    BY <1>1, <1>3, <1>4, <1>6, <2>1 DEF OrderInv, Split, Batch, Settled
<1>7. CASE /\ queue # <<>> /\ queue' = Tail(queue) /\ Head(queue) # Wake
           /\ pending' = Append(pending, Head(queue))
  <2>1. Sorted(queue')
    BY <1>2, <1>7, SortedTail DEF OrderInv
  <2>2. \A x \in ToSet(Tail(queue)) \ {Wake} : Head(queue) < x
    BY <1>2, <1>7, TailSet DEF OrderInv, Sorted
  <2>3. Head(queue) \in Record /\ Record \subseteq Nat
    BY <1>2, <1>7, HeadTailProperties DEF Record
  <2>4. Queued = {Head(queue)} \cup Queued' /\ Queued' = ToSet(Tail(queue)) \ {Wake}
    BY <1>2, <1>7, TailSet DEF Queued
  <2>5. Head(queue) = taken + 1 /\ Queued' = taken + 2 .. accepted /\ taken < accepted
    <3>0. PICK h : h = Head(queue)
      OBVIOUS
    <3>1. h \in Nat /\ Queued = {h} \cup Queued' /\ \A x \in Queued' : h < x
      BY <2>2, <2>3, <2>4, <3>0
    <3>2. \A x : x \in Queued <=> x \in taken + 1 .. accepted
      BY <1>3 DEF Split
    <3>3. h = taken + 1
      <4>1. h \in taken + 1 .. accepted
        BY <3>1, <3>2
      <4>2. taken + 1 \in taken + 1 .. accepted
        BY <1>2, <4>1
      <4>3. taken + 1 = h \/ taken + 1 \in Queued'
        BY <3>1, <3>2, <4>2
      <4>4. taken + 1 \in Queued' => h < taken + 1
        BY <3>1
      <4> QED
        BY <3>1, <4>1, <4>3, <4>4
    <3>4. h \notin Queued'
      BY <3>1
    <3>5. \A x : x \in Queued' <=> x \in taken + 1 .. accepted /\ x # taken + 1
      BY <3>1, <3>2, <3>3, <3>4
    <3>6. taken + 1 \in taken + 1 .. accepted
      BY <3>1, <3>2, <3>3
    <3>7. Queued' = taken + 2 .. accepted
      <4>1. taken \in Nat /\ accepted \in Nat
        BY <1>2, <1>3
      <4>2. \A x : x \in taken + 2 .. accepted <=> x \in taken + 1 .. accepted /\ x # taken + 1
        BY <4>1
      <4>3. \A x : x \in Queued' <=> x \in taken + 2 .. accepted
        BY <3>5, <4>2
      <4> QED
        BY <4>3
    <3> QED
      BY <1>2, <3>0, <3>3, <3>6, <3>7
  <2>6. Batch' = Batch \cup {taken + 1}
    BY <1>2, <1>7, <2>3, <2>5, AppendSet DEF Batch
  <2>7. Settled' = Settled
    BY <1>1 DEF Settled
  <2>8. Split(done, taken + 1)'
    <3>1. /\ done \in 0 .. taken /\ taken \in 0 .. accepted /\ 1 .. done \subseteq Settled
          /\ Settled \subseteq 1 .. taken /\ Batch = done + 1 .. taken
      BY <1>3 DEF Split
    <3>2. /\ done \in 0 .. taken + 1 /\ taken + 1 \in 0 .. accepted
          /\ Settled \subseteq 1 .. taken + 1 /\ Batch' = done + 1 .. taken + 1
          /\ Queued' = (taken + 1) + 1 .. accepted
      BY <1>2, <2>5, <2>6, <3>1
    <3> QED
      BY <1>1, <2>7, <3>1, <3>2 DEF Split
  <2>9. Batch' \cap Settled' = {}
    BY <1>3, <1>4, <2>6, <2>7 DEF Split
  <2> QED
    BY <1>3, <2>1, <2>8, <2>9 DEF OrderInv
<1> QED
  BY <1>5, <1>6, <1>7 DEF Get

\* A batch is settled as a whole, or stays.
LEMMA OrderPush == TypeInv /\ OrderInv /\ Push => OrderInv'
<1> SUFFICES ASSUME TypeInv, OrderInv, Push PROVE OrderInv'
  OBVIOUS
<1>1. worker = "push" /\ UNCHANGED <<accepted, queue>>
  BY DEF Push, beside, producers
<1>2. pending \in Seq(Record) /\ stored \in Seq(Record) /\ accepted \in Nat
  BY SizesAssumption DEF TypeInv, TypeOK
<1>3. PICK done \in Nat, taken \in Nat : Split(done, taken)
  BY DEF OrderInv
<1>4. ToSet(stored \o pending) = InStore \cup Batch
  BY <1>2, ConcatSet DEF InStore, Batch
<1>5. Queued' = Queued /\ Sorted(queue')
  BY <1>1 DEF Queued, OrderInv
<1>6. CASE Flushed
  <2>1. Batch' = {}
    BY <1>6 DEF Flushed, Batch, ToSet
  <2>2. Settled' = Settled \cup Batch
    BY <1>1, <1>4, <1>6 DEF Push, Settled, Batch, InStore, Flushed
  <2>3. Split(taken, taken)'
    BY <1>1, <1>2, <1>3, <1>5, <2>1, <2>2 DEF Split
  <2> QED
    BY <1>3, <1>5, <2>1, <2>3 DEF OrderInv
<1>7. CASE ~Flushed
  <2>1. UNCHANGED <<pending, refused, gaveUp, worker>> /\ stored' \in {stored, stored \o pending}
    BY <1>7 DEF Push
  <2>2. Batch' = Batch
    BY <2>1 DEF Batch
  <2>3. CASE stored' = stored
    BY <1>1, <2>1, <2>3, OrderKept
  <2>4. CASE stored' = stored \o pending
    <3>1. Settled' = Settled \cup Batch /\ InStore' = InStore \cup Batch
      BY <1>4, <2>1, <2>4 DEF Settled, InStore
    <3>2. Split(done, taken)'
      BY <1>1, <1>2, <1>3, <1>5, <2>2, <3>1 DEF Split
    <3> QED
      BY <1>1, <1>3, <1>5, <2>1, <2>2, <3>1, <3>2 DEF OrderInv
  <2> QED
    BY <2>1, <2>3, <2>4
<1> QED
  BY <1>6, <1>7

LEMMA OrderStep == TypeInv /\ OrderInv /\ [Next]_vars => OrderInv'
<1> SUFFICES ASSUME TypeInv, OrderInv, [Next]_vars PROVE OrderInv'
  OBVIOUS
<1>1. CASE SetStop \/ Joined \/ Exit \/ FlushTime \/ Finished \/ UNCHANGED vars
  BY <1>1, OrderKept
     DEF SetStop, Joined, Exit, FlushTime, Finished, vars, beside, producers, batching, loki
<1>2. CASE LookAtStop \/ LookAtQueue \/ FlushIfReady \/ Ends
  BY <1>2, OrderKept DEF LookAtStop, LookAtQueue, FlushIfReady, Ends, beside, producers, loki
<1> QED
  BY <1>1, <1>2, OrderEmit, OrderWake, OrderGet, OrderPush DEF Next, Worker

LEMMA OrderAlways == Spec => [](TypeInv /\ OrderInv)
BY TypeAlways, OrderInit, OrderStep, PTL DEF Spec

\* Every accepted record is in the queue, in the batch or settled: between two of
\* them none is lost, whenever the handler is closed and the process exits.
THEOREM RecordsKept == Spec => []NothingLost
<1>1. TypeInv /\ OrderInv => NothingLost
  <2> SUFFICES ASSUME TypeInv, OrderInv PROVE NothingLost
    OBVIOUS
  <2>1. PICK done \in Nat, taken \in Nat : Split(done, taken)
    BY DEF OrderInv
  <2>2. accepted \in Nat /\ Waiting = Queued \cup Batch
    BY SizesAssumption DEF TypeInv, TypeOK, Waiting, Queued, Batch
  <2>3. /\ done \in 0 .. taken /\ taken \in 0 .. accepted /\ 1 .. done \subseteq Settled
        /\ Settled \subseteq 1 .. taken /\ Waiting = (taken + 1 .. accepted) \cup (done + 1 .. taken)
    BY <2>1, <2>2 DEF Split
  <2>4. \A n \in 1 .. accepted : n \in 1 .. done \/ n \in Waiting
    BY <2>2, <2>3
  <2>5. 1 .. taken \subseteq 1 .. accepted /\ Waiting \subseteq 1 .. accepted
    BY <2>2, <2>3
  <2> QED
    BY <2>3, <2>4, <2>5 DEF NothingLost
<1> QED
  BY <1>1, OrderAlways, PTL

\* Loki stores no record while an earlier one may still be stored, however often
\* a batch is pushed again.
THEOREM StoredInOrder == Spec => []InOrder
<1>1. TypeInv /\ OrderInv => InOrder
  <2> SUFFICES ASSUME TypeInv, OrderInv, NEW late \in Waiting \ Settled, NEW r \in InStore
               PROVE  r < late
    BY DEF InOrder, InStore
  <2>1. PICK done \in Nat, taken \in Nat : Split(done, taken)
    BY DEF OrderInv
  <2>2. accepted \in Nat /\ late \in Queued \cup Batch /\ r \in Settled
    BY SizesAssumption DEF TypeInv, TypeOK, Waiting, Queued, Batch, Settled, InStore
  <2>3. late \in Batch => r \notin Batch
    BY <2>2 DEF OrderInv, Settled, InStore
  <2> QED
    BY <2>1, <2>2, <2>3 DEF Split
<1> QED
  BY <1>1, OrderAlways, PTL
=============================================================================
