------------------------------ MODULE QosProofs ------------------------------
(***************************************************************************)
(* Proofs about the queues of the QoS build, for any number of priorities, any    *)
(* length of the queues and any writers and readers: the events are as many as    *)
(* the packets that wait for one (EventPerPacket), and readers keep to the        *)
(* priorities (InPriority).                                                  *)
(*                                                                         *)
(* That no reader comes away empty rests on a count for each level: as many      *)
(* packets are queued from there on as readers still have to look from there on    *)
(* (Enough).  A reader goes past a level only when there is nothing on it.       *)
(***************************************************************************)
EXTENDS QosQueue, TLAPS, FiniteSetTheorems

Above(l) == {q \in Queued : q.prio >= l}

Past(l) == {r \in Readers : scan[r] >= l}

(* Each queue holds packets of its priority, in the order they were written.  *)
Ordered ==
  \A p \in Levels : \A k \in 1 .. Len(queue[p]) :
    /\ queue[p][k].prio = p /\ queue[p][k].nr \in 1 .. written
    /\ \A j \in 1 .. Len(queue[p]) : j < k => queue[p][j].nr < queue[p][k].nr

(* What a reader saw and has gone past is not queued any more.               *)
Looked ==
  \A r \in Readers :
    /\ \A q \in seen[r] : q.nr <= written
    /\ \A q \in seen[r] \cap Queued : q.prio >= scan[r]

Enough == \A l \in Levels : Cardinality(Past(l)) <= Cardinality(Above(l))

Unflushed == flushes = 0 => flush = NoScan

Balanced == flushes = 0 => EventPerPacket /\ Enough

QosInv == TypeOK /\ Ordered /\ Looked /\ Unflushed /\ Balanced

-----------------------------------------------------------------------------
(* What is queued.                                                          *)

LEMMA QueuedIs ==
  ASSUME NEW q
  PROVE  q \in Queued <=> \E p \in Levels : \E k \in 1 .. Len(queue[p]) : q = queue[p][k]
BY DEF Queued, PacketsIn

LEMMA QueuesTyped ==
  ASSUME TypeOK, NEW p \in Levels
  PROVE  /\ queue[p] \in Seq(Packets) /\ Len(queue[p]) \in Nat /\ Len(queue[p]) <= QueueLength
         /\ \A k \in 1 .. Len(queue[p]) : queue[p][k] \in Packets
<1>1. queue[p] \in Seq(Packets) /\ Len(queue[p]) <= QueueLength
  BY DEF TypeOK
<1>2. QED
  BY <1>1

(* There are no more packets than places.                                   *)
LEMMA QueuedBounded ==
  ASSUME TypeOK, Ordered
  PROVE  /\ IsFiniteSet(Queued)
         /\ Cardinality(Queued) \in Nat
         /\ Cardinality(Queued) <= Prios * QueueLength
<1> DEFINE Places == Levels \X (1 .. QueueLength)
           At(q) == CHOOSE k \in 1 .. Len(queue[q.prio]) : q = queue[q.prio][k]
           place == [q \in Queued |-> <<q.prio, At(q)>>]
<1>1. /\ IsFiniteSet(Levels) /\ Cardinality(Levels) = Prios
      /\ IsFiniteSet(1 .. QueueLength) /\ Cardinality(1 .. QueueLength) = QueueLength
  <2>1. Prios \in Nat \ {0} /\ QueueLength \in Nat \ {0}
    BY QosAssumption
  <2>2. /\ IsFiniteSet(0 .. Prios - 1) /\ Cardinality(0 .. Prios - 1) = Prios
    BY <2>1, FS_Interval
  <2>3. IsFiniteSet(1 .. QueueLength) /\ Cardinality(1 .. QueueLength) = QueueLength
    BY <2>1, FS_Interval
  <2>4. QED
    BY <2>2, <2>3 DEF Levels
<1>2. IsFiniteSet(Places) /\ Cardinality(Places) = Prios * QueueLength
  BY <1>1, FS_Product
<1>3. \A q \in Queued : /\ q.prio \in Levels
                        /\ At(q) \in 1 .. Len(queue[q.prio]) /\ q = queue[q.prio][At(q)]
                        /\ At(q) \in 1 .. QueueLength
  <2> SUFFICES ASSUME NEW q \in Queued
               PROVE  /\ q.prio \in Levels
                      /\ At(q) \in 1 .. Len(queue[q.prio]) /\ q = queue[q.prio][At(q)]
                      /\ At(q) \in 1 .. QueueLength
    OBVIOUS
  <2>1. PICK p \in Levels : \E k \in 1 .. Len(queue[p]) : q = queue[p][k]
    BY QueuedIs
  <2>2. q.prio = p
    BY <2>1 DEF Ordered
  <2>3. At(q) \in 1 .. Len(queue[p]) /\ q = queue[p][At(q)]
    BY <2>1, <2>2
  <2>4. Len(queue[p]) \in Nat /\ Len(queue[p]) <= QueueLength /\ QueueLength \in Nat
    BY QueuesTyped, QosAssumption
  <2>5. At(q) \in 1 .. QueueLength
    BY <2>3, <2>4
  <2>6. QED
    BY <2>2, <2>3, <2>5
<1>4. place \in Injection(Queued, Places)
  <2>1. place \in [Queued -> Places]
    BY <1>3
  <2>2. ASSUME NEW a \in Queued, NEW b \in Queued, place[a] = place[b] PROVE a = b
    <3> HIDE DEF At
    <3>1. a.prio = b.prio /\ At(a) = At(b)
      BY <2>2
    <3>2. a = queue[a.prio][At(a)] /\ b = queue[b.prio][At(b)]
      BY <1>3
    <3>3. QED
      BY <3>1, <3>2
  <2>3. QED
    BY <2>1, <2>2 DEF Injection, IsInjective
<1>5. IsFiniteSet(Queued) /\ Cardinality(Queued) <= Cardinality(Places)
  BY <1>2, <1>4, FS_Injection
<1>6. QED
  BY <1>2, <1>5, FS_CardinalityType

LEMMA AboveFinite ==
  ASSUME TypeOK, Ordered, NEW l
  PROVE  IsFiniteSet(Above(l)) /\ Cardinality(Above(l)) \in Nat
<1>1. Above(l) \in SUBSET Queued
  BY DEF Above
<1>2. QED
  BY <1>1, QueuedBounded, FS_Subset, FS_CardinalityType

LEMMA ReadersFinite ==
  ASSUME NEW S \in SUBSET Readers
  PROVE  IsFiniteSet(S) /\ Cardinality(S) \in Nat
BY QosAssumption, FS_Subset, FS_CardinalityType

LEMMA WritersFinite ==
  ASSUME NEW S \in SUBSET Writers
  PROVE  IsFiniteSet(S) /\ Cardinality(S) \in Nat
BY QosAssumption, FS_Subset, FS_CardinalityType

(* A packet at the end of its queue.                                        *)
LEMMA Appended ==
  ASSUME TypeOK, Ordered, NEW p \in Levels, NEW e \in Packets, e.prio = p, e.nr = written + 1,
         written' = written + 1, queue' = [queue EXCEPT ![p] = Append(@, e)]
  PROVE  /\ Queued' = Queued \cup {e} /\ e \notin Queued
         /\ Ordered'
<1>1. /\ queue \in [Levels -> Seq(Packets)]
      /\ queue'[p] = Append(queue[p], e) /\ \A o \in Levels \ {p} : queue'[o] = queue[o]
  BY DEF TypeOK
<1>2. /\ queue[p] \in Seq(Packets) /\ Len(queue[p]) \in Nat /\ Len(queue'[p]) = Len(queue[p]) + 1
      /\ \A k \in 1 .. Len(queue[p]) : queue'[p][k] = queue[p][k]
      /\ queue'[p][Len(queue[p]) + 1] = e
  BY <1>1
<1>3. Queued' = Queued \cup {e}
  <2>1. ASSUME NEW q \in Queued' PROVE q \in Queued \cup {e}
    <3>1. PICK o \in Levels : \E k \in 1 .. Len(queue'[o]) : q = queue'[o][k]
      BY <2>1 DEF Queued, PacketsIn
    <3>2. CASE o = p
      BY <1>2, <3>1, <3>2, QueuedIs
    <3>3. CASE o # p
      BY <1>1, <3>1, <3>3, QueuedIs
    <3>4. QED
      BY <3>2, <3>3
  <2>2. ASSUME NEW q \in Queued PROVE q \in Queued'
    <3>1. PICK o \in Levels : \E k \in 1 .. Len(queue[o]) : q = queue[o][k]
      BY QueuedIs
    <3>2. \E k \in 1 .. Len(queue'[o]) : q = queue'[o][k]
      BY <1>1, <1>2, <3>1
    <3>3. QED
      BY <3>2 DEF Queued, PacketsIn
  <2>3. e \in Queued'
    <3>1. e = queue'[p][Len(queue[p]) + 1] /\ Len(queue[p]) + 1 \in 1 .. Len(queue'[p])
      BY <1>2
    <3>2. QED
      BY <3>1 DEF Queued, PacketsIn
  <2>4. QED
    BY <2>1, <2>2, <2>3
<1>4. written \in Nat
  BY QosAssumption DEF TypeOK
<1>5. e \notin Queued
  <2>1. SUFFICES ASSUME e \in Queued PROVE FALSE
    OBVIOUS
  <2>2. PICK o \in Levels : \E k \in 1 .. Len(queue[o]) : e = queue[o][k]
    BY <2>1, QueuedIs
  <2>3. e.nr \in 1 .. written
    BY <2>2 DEF Ordered
  <2>4. QED
    BY <1>4, <2>3
<1>6. Ordered'
  <2> SUFFICES ASSUME NEW o \in Levels, NEW k \in 1 .. Len(queue'[o])
               PROVE  /\ queue'[o][k].prio = o /\ queue'[o][k].nr \in 1 .. written + 1
                      /\ \A j \in 1 .. Len(queue'[o]) :
                           j < k => queue'[o][j].nr < queue'[o][k].nr
    BY DEF Ordered
  <2>1. CASE o # p
    BY <1>1, <1>4, <2>1 DEF Ordered
  <2>2. CASE o = p /\ k \in 1 .. Len(queue[p])
    BY <1>2, <1>4, <2>2 DEF Ordered
  <2>3. CASE o = p /\ k = Len(queue[p]) + 1
    <3>1. \A j \in 1 .. Len(queue[p]) : queue'[p][j].nr \in 1 .. written
      BY <1>2 DEF Ordered
    <3>2. queue'[o][k] = e
      BY <1>2, <2>3
    <3>3. \A j \in 1 .. Len(queue'[o]) : j < k => j \in 1 .. Len(queue[p])
      BY <1>2, <2>3
    <3>4. QED
      BY <1>4, <2>3, <3>1, <3>2, <3>3
  <2>4. QED
    BY <1>2, <2>1, <2>2, <2>3
<1>7. QED
  BY <1>3, <1>5, <1>6

(* The first packet of a queue taken.                                       *)
LEMMA Taken ==
  ASSUME TypeOK, Ordered, NEW p \in Levels, queue[p] # <<>>,
         written' = written, queue' = [queue EXCEPT ![p] = Tail(@)]
  PROVE  /\ Queued' = Queued \ {Head(queue[p])}
         /\ Head(queue[p]) \in Queued /\ Head(queue[p]) \in Packets /\ Head(queue[p]).prio = p
         /\ \A q \in Queued : q.prio = p => q = Head(queue[p]) \/ Head(queue[p]).nr < q.nr
         /\ Ordered'
<1> DEFINE h == Head(queue[p])
<1>1. /\ queue \in [Levels -> Seq(Packets)]
      /\ queue'[p] = Tail(queue[p]) /\ \A o \in Levels \ {p} : queue'[o] = queue[o]
  BY DEF TypeOK
<1>2. /\ queue[p] \in Seq(Packets) /\ Len(queue[p]) \in Nat \ {0}
      /\ Len(queue'[p]) = Len(queue[p]) - 1 /\ h = queue[p][1]
      /\ \A k \in 1 .. Len(queue'[p]) : queue'[p][k] = queue[p][k + 1]
  BY <1>1
<1>3. h \in Queued /\ h \in Packets /\ h.prio = p
  <2>1. 1 \in 1 .. Len(queue[p])
    BY <1>2
  <2>2. h \in Queued
    BY <1>2, <2>1, QueuedIs
  <2>3. h \in Packets
    BY <1>2, <2>1
  <2>4. h.prio = p
    BY <1>2, <2>1 DEF Ordered
  <2>5. QED
    BY <2>2, <2>3, <2>4
<1>4. \A k \in 2 .. Len(queue[p]) : h.nr < queue[p][k].nr /\ queue[p][k] # h
  <2> SUFFICES ASSUME NEW k \in 2 .. Len(queue[p])
               PROVE  h.nr < queue[p][k].nr /\ queue[p][k] # h
    OBVIOUS
  <2>1. k \in 1 .. Len(queue[p]) /\ 1 \in 1 .. Len(queue[p]) /\ 1 < k
    BY <1>2
  <2>2. h.nr < queue[p][k].nr /\ queue[p][k].nr \in 1 .. written /\ h.nr \in 1 .. written
    BY <1>2, <2>1 DEF Ordered
  <2>3. QED
    BY <2>2, QosAssumption DEF TypeOK
<1>5. \A q \in Queued : q.prio = p => q = h \/ (h.nr < q.nr /\ \E k \in 2 .. Len(queue[p]) : q = queue[p][k])
  <2> SUFFICES ASSUME NEW q \in Queued, q.prio = p
               PROVE  q = h \/ (h.nr < q.nr /\ \E k \in 2 .. Len(queue[p]) : q = queue[p][k])
    OBVIOUS
  <2>1. PICK o \in Levels : \E k \in 1 .. Len(queue[o]) : q = queue[o][k]
    BY QueuedIs
  <2>2. o = p
    BY <2>1 DEF Ordered
  <2>3. PICK k \in 1 .. Len(queue[p]) : q = queue[p][k]
    BY <2>1, <2>2
  <2>4. k = 1 \/ k \in 2 .. Len(queue[p])
    BY <1>2
  <2>5. QED
    BY <1>2, <1>4, <2>3, <2>4
<1>6. Queued' = Queued \ {h}
  <2>1. ASSUME NEW q \in Queued' PROVE q \in Queued \ {h}
    <3>1. PICK o \in Levels : \E k \in 1 .. Len(queue'[o]) : q = queue'[o][k]
      BY <2>1 DEF Queued, PacketsIn
    <3>2. CASE o = p
      <4>1. PICK k \in 1 .. Len(queue'[p]) : q = queue[p][k + 1]
        BY <1>2, <3>1, <3>2
      <4>2. k + 1 \in 1 .. Len(queue[p]) /\ k + 1 \in 2 .. Len(queue[p])
        BY <1>2
      <4>3. QED
        BY <1>4, <4>1, <4>2, QueuedIs
    <3>3. CASE o # p
      <4>1. \E k \in 1 .. Len(queue[o]) : q = queue[o][k]
        BY <1>1, <3>1, <3>3
      <4>2. q.prio = o
        BY <4>1 DEF Ordered
      <4>3. QED
        BY <1>3, <3>3, <4>1, <4>2, QueuedIs
    <3>4. QED
      BY <3>2, <3>3
  <2>2. ASSUME NEW q \in Queued, q # h PROVE q \in Queued'
    <3>1. PICK o \in Levels : \E k \in 1 .. Len(queue[o]) : q = queue[o][k]
      BY QueuedIs
    <3>2. q.prio = o
      BY <3>1 DEF Ordered
    <3>3. \E k \in 1 .. Len(queue'[o]) : q = queue'[o][k]
      <4>1. CASE o # p
        BY <1>1, <3>1, <4>1
      <4>2. CASE o = p
        <5>1. PICK k \in 2 .. Len(queue[p]) : q = queue[p][k]
          BY <1>5, <2>2, <3>2, <4>2
        <5>2. k - 1 \in 1 .. Len(queue'[p]) /\ queue'[p][k - 1] = queue[p][k]
          <6>1. k - 1 \in 1 .. Len(queue'[p]) /\ (k - 1) + 1 = k
            BY <1>2
          <6>2. QED
            BY <1>2, <6>1
        <5>3. QED
          BY <4>2, <5>1, <5>2
      <4>3. QED
        BY <4>1, <4>2
    <3>4. QED
      BY <3>3 DEF Queued, PacketsIn
  <2>3. QED
    BY <2>1, <2>2
<1>7. Ordered'
  <2> SUFFICES ASSUME NEW o \in Levels, NEW k \in 1 .. Len(queue'[o])
               PROVE  /\ queue'[o][k].prio = o /\ queue'[o][k].nr \in 1 .. written
                      /\ \A j \in 1 .. Len(queue'[o]) :
                           j < k => queue'[o][j].nr < queue'[o][k].nr
    BY DEF Ordered
  <2>1. CASE o # p
    BY <1>1, <2>1 DEF Ordered
  <2>2. CASE o = p
    <3>1. \A j \in 1 .. Len(queue'[p]) :
            j + 1 \in 1 .. Len(queue[p]) /\ queue'[p][j] = queue[p][j + 1]
      BY <1>2
    <3>2. k + 1 \in 1 .. Len(queue[p]) /\ queue'[p][k] = queue[p][k + 1]
      BY <2>2, <3>1
    <3>3. queue'[p][k].prio = p /\ queue'[p][k].nr \in 1 .. written
      BY <3>2 DEF Ordered
    <3>4. ASSUME NEW j \in 1 .. Len(queue'[p]), j < k
          PROVE  queue'[p][j].nr < queue'[p][k].nr
      <4>1. j + 1 \in 1 .. Len(queue[p]) /\ queue'[p][j] = queue[p][j + 1] /\ j + 1 < k + 1
        BY <1>2, <2>2, <3>1, <3>4
      <4>2. queue[p][j + 1].nr < queue[p][k + 1].nr
        BY <3>2, <4>1 DEF Ordered
      <4>3. QED
        BY <3>2, <4>1, <4>2
    <3>5. QED
      BY <2>2, <3>3, <3>4
  <2>3. QED
    BY <2>1, <2>2
<1>8. QED
  BY <1>3, <1>5, <1>6, <1>7

-----------------------------------------------------------------------------
(* What the steps need of the state.                                        *)

LEMMA Rooms ==
  ASSUME QosInv
  PROVE  /\ Prios \in Nat \ {0} /\ QueueLength \in Nat \ {0} /\ MaxPackets \in Nat
         /\ 0 \in Levels /\ Prios - 1 \in Levels /\ NoScan \notin Levels
         /\ EventLength \in Nat /\ events \in Nat /\ dropped \in Nat /\ written \in Nat
         /\ Queued \subseteq Packets
<1>1. /\ Prios \in Nat \ {0} /\ QueueLength \in Nat \ {0} /\ MaxPackets \in Nat
      /\ 0 \in Levels /\ Prios - 1 \in Levels /\ NoScan \notin Levels
  BY QosAssumption DEF Levels, NoScan
<1>2. EventLength \in Nat
  BY <1>1 DEF EventLength
<1>3. events \in Nat /\ dropped \in Nat /\ written \in Nat
  BY <1>1, <1>2 DEF QosInv, TypeOK
<1>4. Queued \subseteq Packets
  BY QueuedIs, QueuesTyped DEF QosInv
<1>5. QED
  BY <1>1, <1>2, <1>3, <1>4

LEMMA Counted ==
  ASSUME QosInv, flushes = 0
  PROVE  /\ Cardinality(Queued) = events + Cardinality(Writing) + Cardinality(Scanning) + dropped
         /\ kind = "connection" => dropped = 0
         /\ ~spurious
         /\ \A l \in Levels : Cardinality(Past(l)) <= Cardinality(Above(l))
BY DEF QosInv, Balanced, EventPerPacket, Enough

LEMMA Counts ==
  ASSUME QosInv
  PROVE  /\ IsFiniteSet(Queued) /\ Cardinality(Queued) \in Nat
         /\ IsFiniteSet(Writing) /\ Cardinality(Writing) \in Nat
         /\ IsFiniteSet(Scanning) /\ Cardinality(Scanning) \in Nat
         /\ \A l : /\ IsFiniteSet(Above(l)) /\ Cardinality(Above(l)) \in Nat
                   /\ IsFiniteSet(Past(l)) /\ Cardinality(Past(l)) \in Nat
<1>1. IsFiniteSet(Queued) /\ Cardinality(Queued) \in Nat
  BY QueuedBounded DEF QosInv
<1>2. IsFiniteSet(Writing) /\ Cardinality(Writing) \in Nat
  BY WritersFinite DEF Writing
<1>3. IsFiniteSet(Scanning) /\ Cardinality(Scanning) \in Nat
  BY ReadersFinite DEF Scanning
<1>4. ASSUME NEW l
      PROVE  /\ IsFiniteSet(Above(l)) /\ Cardinality(Above(l)) \in Nat
             /\ IsFiniteSet(Past(l)) /\ Cardinality(Past(l)) \in Nat
  BY AboveFinite, ReadersFinite DEF QosInv, Past
<1>5. QED
  BY <1>1, <1>2, <1>3, <1>4

LEMMA QueueKept ==
  ASSUME UNCHANGED queue
  PROVE  Queued' = Queued /\ \A l : Above(l)' = Above(l)
BY DEF Queued, PacketsIn, Above

LEMMA EventsKept ==
  ASSUME UNCHANGED kind
  PROVE  EventLength' = EventLength
BY DEF EventLength

-----------------------------------------------------------------------------
(* Every step keeps the invariant.                                          *)

LEMMA InitInv ==
  ASSUME Init
  PROVE  QosInv
<1>1. TypeOK
  <2>1. /\ Prios \in Nat \ {0} /\ QueueLength \in Nat \ {0}
        /\ MaxPackets \in Nat /\ MaxFlushes \in Nat
    BY QosAssumption
  <2>2. NoPacket \in Packets
    BY <2>1 DEF NoPacket, Packets, Levels
  <2>3. queue \in [Levels -> Seq(Packets)] /\ \A p \in Levels : Len(queue[p]) <= QueueLength
    BY <2>1 DEF Init
  <2>4. EventLength \in Nat
    BY <2>1 DEF EventLength
  <2>5. /\ wpkt \in [Writers -> Packets] /\ scan \in [Readers -> {NoScan} \cup Levels]
        /\ seen \in [Readers -> SUBSET Packets] /\ flush \in {NoScan} \cup (0 .. Prios)
    BY <2>2 DEF Init
  <2>6. /\ events \in 0 .. EventLength /\ written \in 0 .. MaxPackets /\ flushes \in 0 .. MaxFlushes
        /\ dropped \in Nat
    <3>1. events = 0 /\ written = 0 /\ flushes = 0 /\ dropped = 0
      BY DEF Init
    <3>2. QED
      BY <2>1, <2>4, <3>1
  <2>7. /\ got \in Seq(Packets) /\ freed \subseteq Packets /\ spurious \in BOOLEAN
        /\ kind \in {"router", "connection"}
    <3>1. got = <<>> /\ freed = {} /\ spurious = FALSE /\ kind \in {"router", "connection"}
      BY DEF Init
    <3>2. <<>> \in Seq(Packets)
      OBVIOUS
    <3>3. spurious \in BOOLEAN
      BY <3>1, Zenon
    <3>4. QED
      BY <3>1, <3>2, <3>3
  <2>8. QED
    BY <2>3, <2>5, <2>6, <2>7 DEF TypeOK
<1>2. Ordered
  BY DEF Init, Ordered
<1>3. Queued = {}
  BY DEF Init, Queued, PacketsIn
<1>4. Looked /\ Unflushed
  BY <1>3 DEF Init, Looked, Unflushed
<1>5. Writing = {} /\ Scanning = {} /\ \A l \in Levels : Past(l) = {} /\ Above(l) = {}
  BY <1>3 DEF Init, Writing, Scanning, Past, Above, NoScan, Levels
<1>6. Balanced
  <2>1. Cardinality({}) = 0
    BY FS_EmptySet
  <2>2. events = 0 /\ dropped = 0 /\ ~spurious
    BY DEF Init
  <2>3. EventPerPacket
    BY <1>3, <1>5, <2>1, <2>2 DEF EventPerPacket
  <2>4. Enough
    BY <1>5, <2>1 DEF Enough
  <2>5. QED
    BY <2>3, <2>4 DEF Balanced
<1>7. QED
  BY <1>1, <1>2, <1>4, <1>6 DEF QosInv

LEMMA WriteStep ==
  ASSUME QosInv, NEW w \in Writers, Write(w)
  PROVE  QosInv'
<1> USE DEF QosInv
<1>1. PICK p \in Levels :
        LET new == [nr |-> written + 1, prio |-> p] IN
          \/ /\ Room(p)
             /\ queue' = [queue EXCEPT ![p] = Append(@, new)]
             /\ wpkt' = [wpkt EXCEPT ![w] = new]
             /\ UNCHANGED freed
          \/ /\ ~Room(p)
             /\ freed' = freed \cup {new}
             /\ UNCHANGED <<queue, wpkt>>
  BY DEF Write
<1> DEFINE new == [nr |-> written + 1, prio |-> p]
<1>2. /\ wpkt[w] = NoPacket /\ written < MaxPackets /\ written' = written + 1
      /\ UNCHANGED <<kind, events, scan, seen, flush, flushes, got, dropped, spurious>>
  BY DEF Write
<1>3. new \in Packets /\ new # NoPacket /\ written' \in 0 .. MaxPackets /\ written \in Nat
  BY <1>2, Rooms DEF Packets, NoPacket
<1>4. EventLength' = EventLength
  BY <1>2, EventsKept
<1>5. Past(0) = Past(0)' /\ Scanning' = Scanning /\ \A l : Past(l)' = Past(l)
  BY <1>2 DEF Past, Scanning
<1>6. CASE Room(p)
  <2>1. queue' = [queue EXCEPT ![p] = Append(@, new)] /\ wpkt' = [wpkt EXCEPT ![w] = new]
        /\ UNCHANGED freed
    BY <1>1, <1>6
  <2>2. Queued' = Queued \cup {new} /\ new \notin Queued /\ Ordered'
    BY <1>2, <1>3, <2>1, Appended
  <2>3. /\ queue' \in [Levels -> Seq(Packets)]
        /\ \A o \in Levels : Len(queue'[o]) <= QueueLength
    <3>1. queue'[p] = Append(queue[p], new) /\ \A o \in Levels \ {p} : queue'[o] = queue[o]
      BY <2>1 DEF TypeOK
    <3>2. queue[p] \in Seq(Packets) /\ Len(queue[p]) < QueueLength /\ Len(queue[p]) \in Nat
      BY <1>6, QueuesTyped DEF Room
    <3>3. Append(queue[p], new) \in Seq(Packets) /\ Len(Append(queue[p], new)) = Len(queue[p]) + 1
      BY <1>3, <3>2
    <3>4. queue' \in [Levels -> Seq(Packets)]
      BY <2>1, <3>3 DEF TypeOK
    <3>5. Len(queue'[p]) <= QueueLength /\ \A o \in Levels \ {p} : Len(queue'[o]) <= QueueLength
      BY SMTT(30), <3>1, <3>2, <3>3, Rooms, QueuesTyped
    <3>6. QED
      BY <3>4, <3>5
  <2>4. TypeOK'
    BY <1>2, <1>3, <1>4, <2>1, <2>3 DEF TypeOK
  <2>5. Looked'
    <3>1. \A r \in Readers : \A q \in seen[r] : q # new
      BY <1>3 DEF Looked
    <3>2. \A r \in Readers : \A q \in seen[r] : q.nr \in Nat
      BY DEF TypeOK, Packets
    <3>3. QED
      BY <1>2, <1>3, <2>2, <3>1, <3>2 DEF Looked
  <2>6. ASSUME flushes = 0 PROVE EventPerPacket' /\ Enough'
    <3>1. Writing' = Writing \cup {w} /\ w \notin Writing
      BY <1>2, <1>3, <2>1 DEF Writing, TypeOK
    <3>2. Cardinality(Writing') = Cardinality(Writing) + 1
      BY <3>1, Counts, FS_AddElement
    <3>3. IsFiniteSet(Queued') /\ Cardinality(Queued') = Cardinality(Queued) + 1
      BY <2>2, Counts, FS_AddElement
    <3>4. EventPerPacket'
      BY <1>2, <1>5, <2>6, <3>2, <3>3, Counted, Counts, Rooms DEF EventPerPacket
    <3>5. ASSUME NEW l \in Levels PROVE Cardinality(Past(l)') <= Cardinality(Above(l)')
      <4>1. Above(l) \in SUBSET Above(l)' /\ Above(l)' \in SUBSET Queued'
        BY <2>2 DEF Above
      <4>2. IsFiniteSet(Above(l)')
        BY <3>3, <4>1, FS_Subset
      <4>3. Cardinality(Above(l)) <= Cardinality(Above(l)') /\ Cardinality(Above(l)') \in Nat
        BY <4>1, <4>2, FS_Subset, FS_CardinalityType
      <4>4. QED
        BY <1>5, <2>6, <4>3, Counted, Counts
    <3>6. QED
      BY <3>4, <3>5 DEF Enough
  <2>7. QED
    BY <1>2, <2>2, <2>4, <2>5, <2>6 DEF Unflushed, Balanced
<1>7. CASE ~Room(p)
  <2>1. freed' = freed \cup {new} /\ UNCHANGED <<queue, wpkt>>
    BY <1>1, <1>7
  <2>2. TypeOK'
    BY <1>2, <1>3, <1>4, <2>1 DEF TypeOK
  <2>3. Ordered'
    BY <1>2, <1>3, <2>1 DEF Ordered
  <2>4. Queued' = Queued /\ Writing' = Writing /\ \A l : Above(l)' = Above(l)
    BY <2>1, QueueKept DEF Writing
  <2>5. Looked'
    <3>1. \A r \in Readers : \A q \in seen[r] : q.nr \in Nat
      BY DEF TypeOK, Packets
    <3>2. QED
      BY <1>2, <1>3, <2>4, <3>1 DEF Looked
  <2>6. Balanced'
    BY <1>2, <1>5, <2>4 DEF Balanced, EventPerPacket, Enough
  <2>7. QED
    BY <1>2, <2>2, <2>3, <2>5, <2>6 DEF Unflushed
<1>8. QED
  BY <1>6, <1>7

LEMMA QueueEventStep ==
  ASSUME QosInv, NEW w \in Writers, QueueEvent(w)
  PROVE  QosInv'
<1> USE DEF QosInv
<1>1. /\ wpkt[w] # NoPacket /\ wpkt' = [wpkt EXCEPT ![w] = NoPacket]
      /\ UNCHANGED <<kind, queue, written, scan, seen, flush, flushes, got, spurious>>
      /\ \/ events < EventLength /\ events' = events + 1 /\ UNCHANGED <<freed, dropped>>
         \/ /\ events = EventLength /\ dropped' = dropped + 1 /\ UNCHANGED events
            /\ freed' = IF kind = "router" THEN freed ELSE freed \cup {wpkt[w]}
  BY DEF QueueEvent
<1>2. EventLength' = EventLength /\ Queued' = Queued /\ \A l : Above(l)' = Above(l)
  BY <1>1, EventsKept, QueueKept
<1>3. TypeOK'
  <2>1. NoPacket \in Packets
    BY Rooms DEF NoPacket, Packets
  <2>2. wpkt' \in [Writers -> Packets] /\ wpkt[w] \in Packets
    BY <1>1, <2>1 DEF TypeOK
  <2>3. events' \in 0 .. EventLength /\ dropped' \in Nat
    BY <1>1, Rooms
  <2>4. freed' \subseteq Packets
    BY <1>1, <2>2 DEF TypeOK
  <2>5. QED
    BY <1>1, <1>2, <2>2, <2>3, <2>4 DEF TypeOK
<1>4. Ordered'
  BY <1>1 DEF Ordered
<1>5. Looked'
  BY <1>1, <1>2 DEF Looked
<1>6. ASSUME flushes = 0 PROVE EventPerPacket' /\ Enough'
  <2>1. Writing' = Writing \ {w} /\ w \in Writing
    BY <1>1 DEF Writing, TypeOK
  <2>2. Cardinality(Writing') = Cardinality(Writing) - 1
    BY <2>1, Counts, FS_RemoveElement
  <2>3. Scanning' = Scanning /\ \A l : Past(l)' = Past(l)
    BY <1>1 DEF Scanning, Past
  <2>4. Enough'
    BY <1>2, <1>6, <2>3, Counted DEF Enough
  <2>5. kind = "connection" => events < EventLength
    <3>1. SUFFICES ASSUME kind = "connection", ~(events < EventLength) PROVE FALSE
      OBVIOUS
    <3>2. EventLength = Prios * QueueLength
      BY <3>1 DEF EventLength
    <3>3. Cardinality(Writing) - 1 \in Nat
      BY <2>1, <2>2, Counts, WritersFinite DEF Writing
    <3>4. Cardinality(Queued) <= EventLength
      BY <3>2, QueuedBounded
    <3>5. QED
      BY <1>6, <3>1, <3>3, <3>4, Counted, Counts, Rooms
  <2>6. events' + dropped' = events + dropped + 1 /\ events' \in Nat /\ dropped' \in Nat
    BY <1>1, Rooms
  <2>7. kind = "connection" => dropped' = 0
    BY <1>1, <1>6, <2>5, Counted, Rooms
  <2>8. EventPerPacket'
    BY <1>1, <1>2, <1>6, <2>2, <2>3, <2>6, <2>7, Counted, Counts, Rooms DEF EventPerPacket
  <2>9. QED
    BY <2>4, <2>8
<1>7. QED
  BY <1>1, <1>3, <1>4, <1>5, <1>6 DEF Unflushed, Balanced

LEMMA TakeEventStep ==
  ASSUME QosInv, NEW r \in Readers, TakeEvent(r)
  PROVE  QosInv'
<1> USE DEF QosInv
<1>1. /\ scan[r] = NoScan /\ events > 0 /\ events' = events - 1
      /\ scan' = [scan EXCEPT ![r] = 0] /\ seen' = [seen EXCEPT ![r] = Queued]
      /\ UNCHANGED <<kind, queue, written, wpkt, flush, flushes, got, freed, dropped, spurious>>
  BY DEF TakeEvent
<1>2. EventLength' = EventLength /\ Queued' = Queued /\ \A l : Above(l)' = Above(l)
  BY <1>1, EventsKept, QueueKept
<1>3. /\ scan' \in [Readers -> {NoScan} \cup Levels] /\ scan'[r] = 0
      /\ \A o \in Readers \ {r} : scan'[o] = scan[o]
  BY <1>1, Rooms DEF TypeOK
<1>4. TypeOK'
  <2>1. seen' \in [Readers -> SUBSET Packets]
    BY <1>1, Rooms DEF TypeOK
  <2>2. events' \in 0 .. EventLength
    BY <1>1, Rooms DEF TypeOK
  <2>3. QED
    BY <1>1, <1>2, <1>3, <2>1, <2>2 DEF TypeOK
<1>5. Ordered'
  BY <1>1 DEF Ordered
<1>6. \A q \in Queued : q.nr <= written /\ q.prio >= 0
  BY SMTT(30), QueuedIs, Rooms DEF Ordered, Levels
<1>7. Looked'
  BY <1>1, <1>2, <1>3, <1>6 DEF Looked, TypeOK
<1>8. ASSUME flushes = 0 PROVE EventPerPacket' /\ Enough'
  <2>1. Scanning' = Scanning \cup {r} /\ r \notin Scanning
    BY <1>1, <1>3, Rooms DEF Scanning
  <2>2. Cardinality(Scanning') = Cardinality(Scanning) + 1 /\ Writing' = Writing
    BY <1>1, <2>1, Counts, FS_AddElement DEF Writing
  <2>3. EventPerPacket'
    BY <1>1, <1>2, <1>8, <2>2, Counted, Counts, Rooms DEF EventPerPacket
  <2>4. ASSUME NEW l \in Levels PROVE Cardinality(Past(l)') <= Cardinality(Above(l)')
    <3>1. CASE l = 0
      <4>1. Past(l)' \subseteq Scanning'
        BY <1>3, <3>1 DEF Past, Scanning, NoScan
      <4>2. Cardinality(Past(l)') <= Cardinality(Scanning) + 1
        BY <2>2, <4>1, ReadersFinite, FS_Subset DEF Scanning
      <4>3. Above(l)' = Queued
        BY <1>2, <1>6, <3>1 DEF Above
      <4>4. Cardinality(Past(l)') \in Nat
        BY ReadersFinite DEF Past
      <4>5. QED
        BY <1>1, <1>8, <4>2, <4>3, <4>4, Counted, Counts, Rooms
    <3>2. CASE l # 0
      <4>1. Past(l)' = Past(l)
        BY <1>1, <1>3, <3>2 DEF Past, NoScan, Levels
      <4>2. QED
        BY <1>2, <1>8, <4>1, Counted
    <3>3. QED
      BY <3>1, <3>2
  <2>5. QED
    BY <2>3, <2>4 DEF Enough
<1>9. QED
  BY <1>1, <1>4, <1>5, <1>7, <1>8 DEF Unflushed, Balanced

(* A reader that finds a packet on its level.                                *)
Take(r) ==
  /\ scan[r] \in Levels /\ queue[scan[r]] # <<>>
  /\ got' = Append(got, Head(queue[scan[r]]))
  /\ queue' = [queue EXCEPT ![scan[r]] = Tail(@)]
  /\ scan' = [scan EXCEPT ![r] = NoScan] /\ seen' = [seen EXCEPT ![r] = {}]
  /\ UNCHANGED <<spurious, kind, events, written, wpkt, flush, flushes, freed, dropped>>

(* One that goes on to the next.                                            *)
Pass(r) ==
  /\ scan[r] \in Levels /\ queue[scan[r]] = <<>> /\ scan[r] < Prios - 1
  /\ scan' = [scan EXCEPT ![r] = @ + 1]
  /\ UNCHANGED <<got, queue, seen, spurious, kind, events, written, wpkt, flush, flushes, freed,
                 dropped>>

(* One that has found nothing.                                              *)
GiveUp(r) ==
  /\ scan[r] \in Levels /\ queue[scan[r]] = <<>> /\ scan[r] = Prios - 1
  /\ scan' = [scan EXCEPT ![r] = NoScan] /\ seen' = [seen EXCEPT ![r] = {}]
  /\ spurious' = TRUE
  /\ UNCHANGED <<got, queue, kind, events, written, wpkt, flush, flushes, freed, dropped>>

LEMMA ScanIs ==
  ASSUME NEW r \in Readers, Scan(r)
  PROVE  Take(r) \/ Pass(r) \/ GiveUp(r)
BY DEF Scan, Level, Take, Pass, GiveUp

LEMMA TakeStep ==
  ASSUME QosInv, NEW r \in Readers, Take(r)
  PROVE  QosInv'
<1> USE DEF QosInv
<1> DEFINE s == scan[r]
           h == Head(queue[s])
<1>1. /\ s \in Levels /\ queue[s] # <<>>
      /\ got' = Append(got, h) /\ queue' = [queue EXCEPT ![s] = Tail(@)]
      /\ scan' = [scan EXCEPT ![r] = NoScan] /\ seen' = [seen EXCEPT ![r] = {}]
      /\ UNCHANGED <<spurious, kind, events, written, wpkt, flush, flushes, freed, dropped>>
  BY DEF Take
<1>2. /\ Queued' = Queued \ {h} /\ h \in Queued /\ h \in Packets /\ h.prio = s
      /\ Ordered'
  BY <1>1, Taken
<1>3. EventLength' = EventLength
  BY <1>1, EventsKept
<1>4. /\ scan' \in [Readers -> {NoScan} \cup Levels] /\ scan'[r] = NoScan
      /\ \A o \in Readers \ {r} : scan'[o] = scan[o]
  BY <1>1 DEF TypeOK
<1>5. TypeOK'
  <2>1. /\ queue' \in [Levels -> Seq(Packets)]
        /\ \A o \in Levels : Len(queue'[o]) <= QueueLength
    <3>1. queue'[s] = Tail(queue[s]) /\ \A o \in Levels \ {s} : queue'[o] = queue[o]
      BY <1>1 DEF TypeOK
    <3>2. queue[s] \in Seq(Packets) /\ Len(queue[s]) <= QueueLength /\ Len(queue[s]) \in Nat
      BY <1>1, QueuesTyped
    <3>3. Tail(queue[s]) \in Seq(Packets) /\ Len(Tail(queue[s])) = Len(queue[s]) - 1
      BY <1>1, <3>2
    <3>4. queue' \in [Levels -> Seq(Packets)]
      BY <1>1, <3>3 DEF TypeOK
    <3>5. Len(queue'[s]) <= QueueLength /\ \A o \in Levels \ {s} : Len(queue'[o]) <= QueueLength
      BY SMTT(30), <3>1, <3>2, <3>3, Rooms, QueuesTyped
    <3>6. QED
      BY <3>4, <3>5
  <2>2. seen' \in [Readers -> SUBSET Packets] /\ got' \in Seq(Packets)
    BY <1>1, <1>2 DEF TypeOK
  <2>3. QED
    BY <1>1, <1>3, <1>4, <2>1, <2>2 DEF TypeOK
<1>6. Looked'
  BY <1>1, <1>2, <1>4 DEF Looked, TypeOK
<1>7. ASSUME flushes = 0 PROVE EventPerPacket' /\ Enough'
  <2>1. Scanning' = Scanning \ {r} /\ r \in Scanning
    BY <1>1, <1>4, Rooms DEF Scanning
  <2>2. Cardinality(Scanning') = Cardinality(Scanning) - 1 /\ Writing' = Writing
    BY <1>1, <2>1, Counts, FS_RemoveElement DEF Writing
  <2>3. Cardinality(Queued') = Cardinality(Queued) - 1
    BY <1>2, Counts, FS_RemoveElement
  <2>4. EventPerPacket'
    <3>1. events' = events /\ dropped' = dropped /\ spurious' = spurious /\ kind' = kind
      BY <1>1
    <3>2. Cardinality(Queued') =
            events' + Cardinality(Writing') + Cardinality(Scanning') + dropped'
      BY <1>7, <2>2, <2>3, <3>1, Counted, Counts, Rooms
    <3>3. (kind' = "connection" => dropped' = 0) /\ ~spurious'
      BY <1>7, <3>1, Counted
    <3>4. QED
      BY <3>2, <3>3 DEF EventPerPacket
  <2>5. ASSUME NEW l \in Levels PROVE Cardinality(Past(l)') <= Cardinality(Above(l)')
    <3>1. Past(l)' = Past(l) \ {r} /\ Above(l)' = Above(l) \ {h}
      BY <1>2, <1>4 DEF Past, Above, NoScan, Levels
    <3>2. (r \in Past(l) <=> s >= l) /\ (h \in Above(l) <=> s >= l)
      BY <1>2 DEF Past, Above
    <3>3. IsFiniteSet(Past(l)) /\ IsFiniteSet(Above(l))
      BY Counts
    <3>4. /\ Cardinality(Past(l)') = IF r \in Past(l) THEN Cardinality(Past(l)) - 1
                                                      ELSE Cardinality(Past(l))
          /\ Cardinality(Above(l)') = IF h \in Above(l) THEN Cardinality(Above(l)) - 1
                                                        ELSE Cardinality(Above(l))
      <4> HIDE DEF h, s
      <4>1. QED
        BY <3>1, <3>3, FS_RemoveElement
    <3>5. /\ Cardinality(Past(l)) \in Nat /\ Cardinality(Above(l)) \in Nat
          /\ Cardinality(Past(l)) <= Cardinality(Above(l))
      BY <1>7, Counted, Counts
    <3>6. QED
      BY <3>2, <3>4, <3>5
  <2>6. QED
    BY <2>4, <2>5 DEF Enough
<1>8. QED
  BY <1>1, <1>2, <1>5, <1>6, <1>7 DEF Unflushed, Balanced

(* What is queued from a level on when there is nothing on it.               *)
LEMMA EmptyLevel ==
  ASSUME QosInv, NEW p \in Levels, queue[p] = <<>>
  PROVE  \A q \in Queued : q.prio >= p => q.prio >= p + 1 /\ q.prio <= Prios - 1
<1> SUFFICES ASSUME NEW q \in Queued, q.prio >= p
             PROVE  q.prio >= p + 1 /\ q.prio <= Prios - 1
  OBVIOUS
<1>1. PICK o \in Levels : \E k \in 1 .. Len(queue[o]) : q = queue[o][k]
  BY QueuedIs
<1>2. q.prio = o
  BY <1>1 DEF Ordered, QosInv
<1>3. o # p
  BY <1>1
<1>4. QED
  BY <1>2, <1>3, Rooms DEF Levels

LEMMA PassStep ==
  ASSUME QosInv, NEW r \in Readers, Pass(r)
  PROVE  QosInv'
<1> USE DEF QosInv
<1> DEFINE s == scan[r]
<1>1. /\ s \in Levels /\ queue[s] = <<>> /\ s < Prios - 1
      /\ scan' = [scan EXCEPT ![r] = @ + 1]
      /\ UNCHANGED <<got, queue, seen, spurious, kind, events, written, wpkt, flush, flushes, freed,
                     dropped>>
  BY DEF Pass
<1>2. EventLength' = EventLength /\ Queued' = Queued /\ \A l : Above(l)' = Above(l)
  BY <1>1, EventsKept, QueueKept
<1>3. s + 1 \in Levels /\ s \in Nat
  BY <1>1, Rooms DEF Levels
<1>4. /\ scan' \in [Readers -> {NoScan} \cup Levels] /\ scan'[r] = s + 1
      /\ \A o \in Readers \ {r} : scan'[o] = scan[o]
  BY <1>1, <1>3 DEF TypeOK
<1>5. TypeOK' /\ Ordered'
  BY <1>1, <1>2, <1>4 DEF TypeOK, Ordered
<1>6. \A q \in Queued : q.prio >= s => q.prio >= s + 1
  BY <1>1, EmptyLevel
<1>7. Looked'
  BY <1>1, <1>2, <1>4, <1>6 DEF Looked
<1>8. ASSUME flushes = 0 PROVE EventPerPacket' /\ Enough'
  <2>1. Scanning' = Scanning /\ Writing' = Writing
    BY <1>1, <1>3, <1>4, Rooms DEF Scanning, Writing
  <2>2. EventPerPacket'
    BY <1>1, <1>2, <1>8, <2>1, Counted DEF EventPerPacket
  <2>3. ASSUME NEW l \in Levels PROVE Cardinality(Past(l)') <= Cardinality(Above(l)')
    <3>1. CASE l = s + 1
      <4>1. Past(l)' \subseteq Past(s)
        BY <1>3, <1>4, <3>1 DEF Past, TypeOK, NoScan, Levels
      <4>2. Cardinality(Past(l)') <= Cardinality(Past(s))
        BY <4>1, Counts, FS_Subset
      <4>3. Above(s) = Above(l)
        BY <1>3, <1>6, <3>1, Rooms DEF Above, Packets, Levels
      <4>4. Cardinality(Past(l)') \in Nat
        BY ReadersFinite DEF Past
      <4>5. QED
        BY <1>1, <1>2, <1>8, <4>2, <4>3, <4>4, Counted, Counts
    <3>2. CASE l # s + 1
      <4>1. Past(l)' = Past(l)
        BY <1>3, <1>4, <3>2 DEF Past, Levels
      <4>2. QED
        BY <1>2, <1>8, <4>1, Counted
    <3>3. QED
      BY <3>1, <3>2
  <2>4. QED
    BY <2>2, <2>3 DEF Enough
<1>9. QED
  BY <1>1, <1>5, <1>7, <1>8 DEF Unflushed, Balanced

LEMMA GiveUpStep ==
  ASSUME QosInv, NEW r \in Readers, GiveUp(r)
  PROVE  QosInv'
<1> USE DEF QosInv
<1> DEFINE s == scan[r]
<1>1. /\ s \in Levels /\ queue[s] = <<>> /\ s = Prios - 1
      /\ scan' = [scan EXCEPT ![r] = NoScan] /\ seen' = [seen EXCEPT ![r] = {}]
      /\ spurious' = TRUE
      /\ UNCHANGED <<got, queue, kind, events, written, wpkt, flush, flushes, freed, dropped>>
  BY DEF GiveUp
<1>2. EventLength' = EventLength /\ Queued' = Queued
  BY <1>1, EventsKept, QueueKept
<1>3. /\ scan' \in [Readers -> {NoScan} \cup Levels] /\ scan'[r] = NoScan
      /\ \A o \in Readers \ {r} : scan'[o] = scan[o]
  BY <1>1 DEF TypeOK
<1>4. TypeOK' /\ Ordered'
  BY <1>1, <1>2, <1>3 DEF TypeOK, Ordered
<1>5. Looked'
  BY <1>1, <1>2, <1>3 DEF Looked, TypeOK
<1>6. flushes # 0
  <2>1. SUFFICES ASSUME flushes = 0 PROVE FALSE
    OBVIOUS
  <2>2. s \in Int /\ r \in Past(s)
    BY <1>1, Rooms DEF Past, Levels
  <2>3. Above(s) = {}
    <3>1. ASSUME NEW q \in Above(s) PROVE FALSE
      <4>1. q \in Queued /\ q.prio >= s
        BY DEF Above
      <4>2. q.prio >= s + 1 /\ q.prio <= s
        BY <1>1, <4>1, EmptyLevel
      <4>3. q.prio \in Int
        BY <4>1, Rooms DEF Packets, Levels
      <4>4. QED
        BY <2>2, <4>2, <4>3
    <3>2. QED
      BY <3>1
  <2>4. Cardinality(Past(s)) <= 0
    BY <1>1, <2>1, <2>3, Counted, FS_EmptySet
  <2>5. Cardinality(Past(s)) = 0
    BY <2>4, Counts
  <2>6. Past(s) = {}
    BY <2>5, Counts, FS_EmptySet
  <2>7. QED
    BY <2>2, <2>6
<1>7. QED
  BY <1>1, <1>4, <1>5, <1>6 DEF Unflushed, Balanced

LEMMA FlushStep ==
  ASSUME QosInv, BeginFlush \/ FlushPacket \/ FlushEvent
  PROVE  QosInv'
<1> USE DEF QosInv
<1>1. CASE BeginFlush
  <2>1. /\ flush' = 0 /\ flush = NoScan /\ flushes < MaxFlushes /\ flushes' = flushes + 1
        /\ UNCHANGED <<kind, queue, events, written, wpkt, scan, seen, got, freed, dropped, spurious>>
    BY <1>1 DEF BeginFlush
  <2>2. EventLength' = EventLength /\ Queued' = Queued
    BY <2>1, EventsKept, QueueKept
  <2>3. flushes' \in 0 .. MaxFlushes /\ flushes' # 0 /\ flush' \in 0 .. Prios
    BY <2>1, QosAssumption, Rooms DEF TypeOK
  <2>4. TypeOK'
    BY <2>1, <2>2, <2>3 DEF TypeOK
  <2>5. Ordered' /\ Looked' /\ Unflushed' /\ Balanced'
    BY <2>1, <2>2, <2>3 DEF Ordered, Looked, Unflushed, Balanced
  <2>6. QED
    BY <2>4, <2>5
<1>2. CASE FlushPacket
  <2>1. /\ flush \in Levels
        /\ UNCHANGED <<kind, events, written, wpkt, scan, seen, flushes, got, dropped, spurious>>
        /\ \/ /\ queue[flush] # <<>> /\ freed' = freed \cup {Head(queue[flush])}
              /\ queue' = [queue EXCEPT ![flush] = Tail(@)] /\ UNCHANGED flush
           \/ queue[flush] = <<>> /\ flush' = flush + 1 /\ UNCHANGED <<queue, freed>>
    BY <1>2 DEF FlushPacket
  <2>2. EventLength' = EventLength
    BY <2>1, EventsKept
  <2>3. flushes # 0
    BY <2>1, Rooms DEF Unflushed
  <2>4. Unflushed' /\ Balanced'
    BY <2>1, <2>3 DEF Unflushed, Balanced
  <2>5. CASE queue[flush] # <<>>
    <3>1. /\ queue' = [queue EXCEPT ![flush] = Tail(@)] /\ written' = written
          /\ freed' = freed \cup {Head(queue[flush])} /\ flush' = flush
      BY <2>1, <2>5
    <3>2. Queued' \subseteq Queued /\ Head(queue[flush]) \in Packets /\ Ordered'
      BY <2>1, <2>5, <3>1, Taken
    <3>3. Looked'
      BY <2>1, <3>2 DEF Looked
    <3>4. /\ queue[flush] \in Seq(Packets) /\ Len(queue[flush]) <= QueueLength
          /\ Len(queue[flush]) \in Nat
      BY <2>1, QueuesTyped
    <3>5. /\ Tail(queue[flush]) \in Seq(Packets)
          /\ Len(Tail(queue[flush])) = Len(queue[flush]) - 1
      BY <2>5, <3>4
    <3>6. queue' \in [Levels -> Seq(Packets)]
      BY <2>1, <3>1, <3>5 DEF TypeOK
    <3>7. \A o \in Levels : queue'[o] = IF o = flush THEN Tail(queue[flush]) ELSE queue[o]
      BY <2>1, <3>1 DEF TypeOK
    <3>8. ASSUME NEW o \in Levels PROVE Len(queue'[o]) <= QueueLength
      <4>1. CASE o = flush
        <5>1. queue'[o] = Tail(queue[flush])
          BY <3>7, <4>1
        <5>2. Len(Tail(queue[flush])) <= QueueLength
          BY <3>4, <3>5, Rooms
        <5>3. QED
          BY <5>1, <5>2
      <4>2. CASE o # flush
        <5>1. queue'[o] = queue[o]
          BY <3>7, <4>2
        <5>2. Len(queue[o]) <= QueueLength
          BY QueuesTyped
        <5>3. QED
          BY <5>1, <5>2
      <4>3. QED
        BY <4>1, <4>2
    <3>9. TypeOK'
      BY <2>1, <2>2, <3>1, <3>2, <3>6, <3>8 DEF TypeOK
    <3>10. QED
      BY <2>4, <3>2, <3>3, <3>9
  <2>6. CASE queue[flush] = <<>>
    <3>1. flush' = flush + 1 /\ UNCHANGED <<queue, freed>>
      BY <2>1, <2>6
    <3>2. flush' \in 0 .. Prios
      BY <2>1, <3>1, Rooms DEF Levels
    <3>3. TypeOK'
      BY <2>1, <2>2, <3>1, <3>2 DEF TypeOK
    <3>4. Ordered' /\ Looked'
      BY <2>1, <3>1, QueueKept DEF Ordered, Looked
    <3>5. QED
      BY <2>4, <3>3, <3>4
  <2>7. QED
    BY <2>5, <2>6
<1>3. CASE FlushEvent
  <2>1. /\ flush = Prios
        /\ UNCHANGED <<kind, queue, written, wpkt, scan, seen, flushes, got, freed, dropped, spurious>>
        /\ \/ events > 0 /\ events' = events - 1 /\ UNCHANGED flush
           \/ events = 0 /\ flush' = NoScan /\ UNCHANGED events
    BY <1>3 DEF FlushEvent
  <2>2. EventLength' = EventLength /\ Queued' = Queued
    BY <2>1, EventsKept, QueueKept
  <2>3. flushes # 0
    BY <2>1, Rooms DEF Unflushed, NoScan
  <2>4. events' \in 0 .. EventLength /\ flush' \in {NoScan} \cup (0 .. Prios)
    BY <2>1, Rooms DEF TypeOK
  <2>5. TypeOK'
    BY <2>1, <2>2, <2>4 DEF TypeOK
  <2>6. Ordered' /\ Looked' /\ Unflushed' /\ Balanced'
    BY <2>1, <2>2, <2>3 DEF Ordered, Looked, Unflushed, Balanced
  <2>7. QED
    BY <2>5, <2>6
<1>4. QED
  BY <1>1, <1>2, <1>3

LEMMA StutterInv ==
  ASSUME QosInv, UNCHANGED vars
  PROVE  QosInv'
<1>1. /\ UNCHANGED <<kind, queue, events, written, wpkt, scan, seen, flush, flushes, got, freed>>
      /\ UNCHANGED <<dropped, spurious>>
  BY DEF vars
<1>2. TypeOK' /\ Ordered'
  BY <1>1 DEF QosInv, TypeOK, Ordered, EventLength
<1>3. Looked' /\ Unflushed'
  BY <1>1, QueueKept DEF QosInv, Looked, Unflushed
<1>4. Balanced'
  BY <1>1, QueueKept DEF QosInv, Balanced, EventPerPacket, Enough, Writing, Scanning, Past
<1>5. QED
  BY <1>2, <1>3, <1>4 DEF QosInv

(* A packet that is read is the first of the first queue that is not empty, and   *)
(* what was seen on the levels before has gone.                              *)
LEMMA TakesBest ==
  ASSUME QosInv, NEW o \in Readers, Take(o), NEW r \in Readers
  PROVE  ReadsBest(r)
<1> SUFFICES ASSUME scan[r] # NoScan, scan'[r] = NoScan, NEW q \in seen[r] \cap Queued,
                    q # got'[Len(got')]
             PROVE  \/ got'[Len(got')].prio < q.prio
                    \/ got'[Len(got')].prio = q.prio /\ got'[Len(got')].nr < q.nr
  BY DEF ReadsBest
<1> DEFINE h == Head(queue[scan[o]])
<1>1. o = r
  BY DEF Take, QosInv, TypeOK
<1>2. scan[r] \in Levels /\ queue[scan[r]] # <<>>
      /\ queue' = [queue EXCEPT ![scan[r]] = Tail(@)] /\ written' = written
  BY <1>1 DEF Take
<1>3. /\ h \in Packets /\ h.prio = scan[r]
      /\ \A a \in Queued : a.prio = scan[r] => a = h \/ h.nr < a.nr
  BY <1>1, <1>2, Taken DEF QosInv
<1>4. got'[Len(got')] = h
  <2>1. got \in Seq(Packets) /\ got' = Append(got, h)
    BY DEF QosInv, TypeOK, Take
  <2>2. QED
    BY <1>3, <2>1
<1>5. q.prio >= scan[r] /\ q.prio \in Int /\ scan[r] \in Int
  BY SMTT(30), <1>2, Rooms DEF QosInv, Looked, Packets, Levels
<1>6. QED
  BY <1>3, <1>4, <1>5

-----------------------------------------------------------------------------
(* What becomes of each packet.                                             *)

Read == {got[k] : k \in 1 .. Len(got)}

Fate ==
  /\ IsFiniteSet(Read) /\ IsFiniteSet(freed)
  /\ \A a \in Read \cup freed : a.nr \in 0 .. written
  /\ \A w \in Writers : wpkt[w].nr \in 0 .. written
  /\ kind = "router" \/ dropped = 0 =>
       /\ OneFate
       /\ \A a, b \in Queued \cup Read \cup freed : a.nr = b.nr => a = b

LEMMA FateInit ==
  ASSUME Init
  PROVE  Fate
<1>1. Queued = {} /\ Read = {} /\ freed = {} /\ got = <<>> /\ written = 0
      /\ \A w \in Writers : wpkt[w].nr = 0
  BY DEF Init, Queued, PacketsIn, Read, NoPacket
<1>2. IsFiniteSet({}) /\ Cardinality({}) = 0
  BY FS_EmptySet
<1>3. OneFate
  <2>1. {got[k] : k \in 1 .. Len(got)} = {}
    BY <1>1
  <2>2. \A j, k \in 1 .. Len(got) : j # k => got[j].nr # got[k].nr
    BY <1>1
  <2>3. Cardinality(Queued) + Cardinality({}) + Cardinality(freed) = written
    BY <1>1, <1>2
  <2>4. Queued \cap {} = {} /\ Queued \cap freed = {} /\ {} \cap freed = {}
    BY <1>1
  <2>5. QED
    BY <2>1, <2>2, <2>3, <2>4 DEF OneFate
<1>4. QED
  BY <1>1, <1>2, <1>3 DEF Fate

(* The numbers of the sets Fate is about.                                    *)
LEMMA FateCounts ==
  ASSUME QosInv, Fate
  PROVE  /\ Cardinality(Queued) \in Nat /\ Cardinality(Read) \in Nat /\ Cardinality(freed) \in Nat
         /\ kind = "router" \/ dropped = 0 =>
              /\ \A j, k \in 1 .. Len(got) : j # k => got[j].nr # got[k].nr
              /\ Queued \cap Read = {} /\ Queued \cap freed = {} /\ Read \cap freed = {}
              /\ Cardinality(Queued) + Cardinality(Read) + Cardinality(freed) = written
         /\ \A a \in Queued : a.nr \in 1 .. written
<1>1. Cardinality(Queued) \in Nat /\ Cardinality(Read) \in Nat /\ Cardinality(freed) \in Nat
  BY Counts, FS_CardinalityType DEF Fate
<1>2. \A a \in Queued : a.nr \in 1 .. written
  BY QueuedIs DEF QosInv, Ordered
<1>3. QED
  BY <1>1, <1>2 DEF Fate, OneFate, Read

(* A step that moves no packet.                                              *)
LEMMA FateKept ==
  ASSUME QosInv, Fate, UNCHANGED <<kind, queue, written, got, freed>>,
         \A w \in Writers : wpkt'[w].nr \in 0 .. written,
         dropped' = dropped \/ (kind = "router" /\ dropped' \in Nat)
  PROVE  Fate'
<1>1. Queued' = Queued /\ Read' = Read
  BY QueueKept DEF Read
<1>2. kind' = kind /\ written' = written /\ got' = got /\ freed' = freed
  OBVIOUS
<1>3. kind' = "router" \/ dropped' = 0 => kind = "router" \/ dropped = 0
  BY <1>2
<1>4. OneFate => OneFate'
  BY <1>1, <1>2, <1>3 DEF OneFate
<1>5. QED
  BY <1>1, <1>2, <1>3, <1>4 DEF Fate

LEMMA FateWrite ==
  ASSUME QosInv, Fate, NEW w \in Writers, Write(w)
  PROVE  Fate'
<1>1. PICK p \in Levels :
        LET new == [nr |-> written + 1, prio |-> p] IN
          /\ \/ queue' = [queue EXCEPT ![p] = Append(@, new)] /\ UNCHANGED freed
             \/ freed' = freed \cup {new} /\ UNCHANGED queue
          /\ UNCHANGED wpkt \/ wpkt' = [wpkt EXCEPT ![w] = new]
  BY DEF Write
<1> DEFINE new == [nr |-> written + 1, prio |-> p]
<1>2. /\ wpkt[w] = NoPacket /\ written < MaxPackets /\ written' = written + 1
      /\ UNCHANGED <<kind, got, dropped>>
  BY DEF Write
<1>3. new \in Packets /\ new.nr = written + 1 /\ new.prio = p /\ written \in Nat
  BY <1>2, Rooms DEF Packets
<1>4. Read' = Read /\ \A v \in Writers : wpkt'[v].nr \in 0 .. written'
  <2>1. wpkt' = wpkt \/ wpkt' = [wpkt EXCEPT ![w] = new]
    BY <1>1
  <2>2. \A v \in Writers : wpkt'[v] = wpkt[v] \/ wpkt'[v] = new
    BY <2>1 DEF QosInv, TypeOK
  <2>3. QED
    BY <1>2, <1>3, <2>2 DEF Read, Fate
<1>5. new \notin Queued /\ new \notin Read /\ new \notin freed
  BY <1>3, FateCounts DEF Fate
<1>6. \A a \in Read \cup freed : a.nr \in 0 .. written + 1 /\ a.nr # new.nr
  BY <1>3 DEF Fate
<1>7. \A a \in Queued : a.nr # new.nr
  BY <1>3, FateCounts
<1>8. CASE queue' = [queue EXCEPT ![p] = Append(@, new)] /\ freed' = freed
  <2>1. Queued' = Queued \cup {new}
    <3> HIDE DEF new
    <3>1. QED
      BY <1>2, <1>3, <1>8, Appended DEF QosInv
  <2>2. Cardinality(Queued') = Cardinality(Queued) + 1
    BY <1>5, <2>1, Counts, FS_AddElement
  <2>3. ASSUME kind' = "router" \/ dropped' = 0
        PROVE  /\ OneFate'
               /\ \A a, b \in Queued' \cup Read' \cup freed' : a.nr = b.nr => a = b
    <3>1. kind = "router" \/ dropped = 0
      BY <1>2, <2>3
    <3>2. \A a, b \in Queued \cup Read \cup freed : a.nr = b.nr => a = b
      BY <3>1 DEF Fate
    <3>3. \A a, b \in Queued' \cup Read' \cup freed' : a.nr = b.nr => a = b
      BY <1>4, <1>6, <1>7, <1>8, <2>1, <3>2
    <3>4. Queued' \cap Read' = {} /\ Queued' \cap freed' = {} /\ Read' \cap freed' = {}
      BY <1>4, <1>5, <1>8, <2>1, <3>1, FateCounts
    <3>5. Cardinality(Queued') + Cardinality(Read') + Cardinality(freed') = written'
      BY <1>2, <1>3, <1>4, <1>8, <2>2, <3>1, FateCounts
    <3>6. \A j, k \in 1 .. Len(got') : j # k => got'[j].nr # got'[k].nr
      BY <1>2, <3>1, FateCounts
    <3>7. QED
      BY <3>3, <3>4, <3>5, <3>6 DEF OneFate, Read
  <2>4. QED
    BY <1>2, <1>4, <1>6, <1>8, <2>3 DEF Fate
<1>9. CASE freed' = freed \cup {new} /\ queue' = queue
  <2>1. Queued' = Queued
    BY <1>9, QueueKept
  <2>2. IsFiniteSet(freed') /\ Cardinality(freed') = Cardinality(freed) + 1
    BY <1>5, <1>9, FS_AddElement DEF Fate
  <2>3. ASSUME kind' = "router" \/ dropped' = 0
        PROVE  /\ OneFate'
               /\ \A a, b \in Queued' \cup Read' \cup freed' : a.nr = b.nr => a = b
    <3>1. kind = "router" \/ dropped = 0
      BY <1>2, <2>3
    <3>2. \A a, b \in Queued \cup Read \cup freed : a.nr = b.nr => a = b
      BY <3>1 DEF Fate
    <3>3. \A a, b \in Queued' \cup Read' \cup freed' : a.nr = b.nr => a = b
      BY <1>4, <1>6, <1>7, <1>9, <2>1, <3>2
    <3>4. Queued' \cap Read' = {} /\ Queued' \cap freed' = {} /\ Read' \cap freed' = {}
      BY <1>4, <1>5, <1>9, <2>1, <3>1, FateCounts
    <3>5. Cardinality(Queued') + Cardinality(Read') + Cardinality(freed') = written'
      BY <1>2, <1>3, <1>4, <2>1, <2>2, <3>1, FateCounts
    <3>6. \A j, k \in 1 .. Len(got') : j # k => got'[j].nr # got'[k].nr
      BY <1>2, <3>1, FateCounts
    <3>7. QED
      BY <3>3, <3>4, <3>5, <3>6 DEF OneFate, Read
  <2>4. new.nr \in 0 .. written'
    BY <1>2, <1>3
  <2>5. QED
    BY <1>2, <1>4, <1>6, <1>9, <2>2, <2>3, <2>4 DEF Fate
<1>10. QED
  BY <1>1, <1>8, <1>9

LEMMA FateTake ==
  ASSUME QosInv, Fate, NEW r \in Readers, Take(r)
  PROVE  Fate'
<1> DEFINE h == Head(queue[scan[r]])
<1>1. /\ scan[r] \in Levels /\ queue[scan[r]] # <<>>
      /\ got' = Append(got, h) /\ queue' = [queue EXCEPT ![scan[r]] = Tail(@)]
      /\ UNCHANGED <<kind, written, wpkt, freed, dropped>>
  BY DEF Take
<1>2. Queued' = Queued \ {h} /\ h \in Queued /\ h \in Packets
  BY <1>1, Taken DEF QosInv
<1>3. /\ got \in Seq(Packets) /\ Len(got) \in Nat /\ Len(got') = Len(got) + 1
      /\ got'[Len(got) + 1] = h /\ \A k \in 1 .. Len(got) : got'[k] = got[k]
  BY <1>1, <1>2 DEF QosInv, TypeOK
<1>4. Read' = Read \cup {h}
  <2>1. ASSUME NEW q \in Read' PROVE q \in Read \cup {h}
    BY <1>3 DEF Read
  <2>2. ASSUME NEW q \in Read PROVE q \in Read'
    <3>1. PICK k \in 1 .. Len(got) : q = got[k]
      BY DEF Read
    <3>2. k \in 1 .. Len(got') /\ q = got'[k]
      BY <1>3, <3>1
    <3>3. QED
      BY <3>2 DEF Read
  <2>3. h \in Read'
    <3>1. Len(got) + 1 \in 1 .. Len(got')
      BY <1>3
    <3>2. QED
      BY <1>3, <3>1 DEF Read
  <2>4. QED
    BY <2>1, <2>2, <2>3
<1>5. /\ IsFiniteSet(Read') /\ Cardinality(Queued') = Cardinality(Queued) - 1
      /\ Cardinality(Read') = IF h \in Read THEN Cardinality(Read) ELSE Cardinality(Read) + 1
  BY <1>2, <1>4, Counts, FS_RemoveElement, FS_AddElement DEF Fate
<1>6. ASSUME kind' = "router" \/ dropped' = 0
      PROVE  /\ OneFate'
             /\ \A a, b \in Queued' \cup Read' \cup freed' : a.nr = b.nr => a = b
  <2>1. kind = "router" \/ dropped = 0
    BY <1>1, <1>6
  <2>2. \A a, b \in Queued \cup Read \cup freed : a.nr = b.nr => a = b
    BY <2>1 DEF Fate
  <2>3. h \notin Read /\ h \notin freed
    BY <1>2, <2>1, FateCounts
  <2>4. \A a, b \in Queued' \cup Read' \cup freed' : a.nr = b.nr => a = b
    BY <1>1, <1>2, <1>4, <2>2
  <2>5. Queued' \cap Read' = {} /\ Queued' \cap freed' = {} /\ Read' \cap freed' = {}
    BY <1>1, <1>2, <1>4, <2>1, <2>3, FateCounts
  <2>6. Cardinality(Queued') + Cardinality(Read') + Cardinality(freed') = written'
    <3>1. Cardinality(Queued) + Cardinality(Read) + Cardinality(freed) = written
      BY <2>1, FateCounts
    <3>2. freed' = freed /\ written' = written
      BY <1>1
    <3>3. QED
      BY <1>5, <2>3, <3>1, <3>2, FateCounts
  <2>7. ASSUME NEW j \in 1 .. Len(got'), NEW k \in 1 .. Len(got'), j # k
        PROVE  got'[j].nr # got'[k].nr
    <3>1. \A i \in 1 .. Len(got) : got[i].nr # h.nr
      BY <1>2, <2>2, <2>3 DEF Read
    <3>2. \A i, l \in 1 .. Len(got) : i # l => got[i].nr # got[l].nr
      BY <2>1, FateCounts
    <3>3. (j \in 1 .. Len(got) \/ j = Len(got) + 1) /\ (k \in 1 .. Len(got) \/ k = Len(got) + 1)
      BY <1>3
    <3>4. QED
      BY <1>3, <2>7, <3>1, <3>2, <3>3
  <2>8. OneFate'
    BY <2>5, <2>6, <2>7 DEF OneFate, Read
  <2>9. QED
    BY <2>4, <2>8
<1>7. \A a \in Read' \cup freed' : a.nr \in 0 .. written'
  BY <1>1, <1>2, <1>4, FateCounts DEF Fate
<1>8. QED
  BY <1>1, <1>5, <1>6, <1>7 DEF Fate

LEMMA FateFlush ==
  ASSUME QosInv, Fate, FlushPacket
  PROVE  Fate'
<1> DEFINE h == Head(queue[flush])
<1>1. /\ flush \in Levels /\ UNCHANGED <<kind, written, wpkt, got, dropped>>
      /\ \/ /\ queue[flush] # <<>> /\ freed' = freed \cup {h}
            /\ queue' = [queue EXCEPT ![flush] = Tail(@)]
         \/ UNCHANGED <<queue, freed>>
  BY DEF FlushPacket
<1>2. CASE queue' = queue /\ freed' = freed
  BY <1>1, <1>2, FateKept DEF Fate
<1>3. CASE /\ queue[flush] # <<>> /\ freed' = freed \cup {h}
           /\ queue' = [queue EXCEPT ![flush] = Tail(@)]
  <2>1. Queued' = Queued \ {h} /\ h \in Queued
    BY <1>1, <1>3, Taken DEF QosInv
  <2>2. Read' = Read
    BY <1>1 DEF Read
  <2>3. /\ IsFiniteSet(freed') /\ Cardinality(Queued') = Cardinality(Queued) - 1
        /\ Cardinality(freed') = IF h \in freed THEN Cardinality(freed) ELSE Cardinality(freed) + 1
    BY <1>3, <2>1, Counts, FS_RemoveElement, FS_AddElement DEF Fate
  <2>4. ASSUME kind' = "router" \/ dropped' = 0
        PROVE  /\ OneFate'
               /\ \A a, b \in Queued' \cup Read' \cup freed' : a.nr = b.nr => a = b
    <3>1. kind = "router" \/ dropped = 0
      BY <1>1, <2>4
    <3>2. \A a, b \in Queued \cup Read \cup freed : a.nr = b.nr => a = b
      BY <3>1 DEF Fate
    <3>3. h \notin Read /\ h \notin freed
      BY <2>1, <3>1, FateCounts
    <3>4. \A a, b \in Queued' \cup Read' \cup freed' : a.nr = b.nr => a = b
      BY <1>3, <2>1, <2>2, <3>2
    <3>5. Queued' \cap Read' = {} /\ Queued' \cap freed' = {} /\ Read' \cap freed' = {}
      BY <1>3, <2>1, <2>2, <3>1, <3>3, FateCounts
    <3>6. Cardinality(Queued') + Cardinality(Read') + Cardinality(freed') = written'
      <4>1. Cardinality(Queued) + Cardinality(Read) + Cardinality(freed) = written
        BY <3>1, FateCounts
      <4>2. written' = written
        BY <1>1
      <4>3. QED
        BY <2>2, <2>3, <3>3, <4>1, <4>2, FateCounts
    <3>7. \A j, k \in 1 .. Len(got') : j # k => got'[j].nr # got'[k].nr
      BY <1>1, <3>1, FateCounts
    <3>8. OneFate'
      BY <3>5, <3>6, <3>7 DEF OneFate, Read
    <3>9. QED
      BY <3>4, <3>8
  <2>5. \A a \in Read' \cup freed' : a.nr \in 0 .. written'
    BY <1>1, <1>3, <2>1, <2>2, FateCounts DEF Fate
  <2>6. QED
    BY <1>1, <2>2, <2>3, <2>4, <2>5 DEF Fate
<1>4. QED
  BY <1>1, <1>2, <1>3

(* The event of a connection's packet is dropped: what becomes of it is open.     *)
LEMMA FateEvent ==
  ASSUME QosInv, Fate, NEW w \in Writers, QueueEvent(w)
  PROVE  Fate'
<1>1. /\ UNCHANGED <<kind, queue, written, got>> /\ wpkt[w] # NoPacket
      /\ wpkt' = [wpkt EXCEPT ![w] = NoPacket]
      /\ \/ UNCHANGED <<freed, dropped>>
         \/ /\ dropped' = dropped + 1
            /\ freed' = IF kind = "router" THEN freed ELSE freed \cup {wpkt[w]}
  BY DEF QueueEvent
<1>types. \A v \in Writers : wpkt'[v].nr \in 0 .. written
  <2>1. \A v \in Writers : wpkt'[v] = wpkt[v] \/ wpkt'[v] = NoPacket
    BY <1>1 DEF QosInv, TypeOK
  <2>2. QED
    BY <2>1, Rooms DEF Fate, NoPacket
<1>2. CASE UNCHANGED <<freed, dropped>>
  BY <1>1, <1>types, <1>2, FateKept
<1>3. CASE dropped' = dropped + 1 /\ kind = "router" /\ freed' = freed
  BY <1>1, <1>types, <1>3, FateKept, Rooms
<1>4. CASE dropped' = dropped + 1 /\ kind # "router" /\ freed' = freed \cup {wpkt[w]}
  <2>1. ~(kind' = "router" \/ dropped' = 0)
    BY <1>1, <1>4, Rooms
  <2>2. IsFiniteSet(freed') /\ Read' = Read
    BY SMTT(30), <1>1, <1>4, FS_AddElement DEF Fate, Read
  <2>3. wpkt[w].nr \in 0 .. written
    BY DEF Fate
  <2>4. QED
    BY <1>1, <1>types, <1>4, <2>1, <2>2, <2>3 DEF Fate
<1>5. QED
  BY <1>1, <1>2, <1>3, <1>4

-----------------------------------------------------------------------------
THEOREM InvariantHolds == Spec => []QosInv
<1>1. Init => QosInv
  BY InitInv
<1>2. QosInv /\ [Next]_vars => QosInv'
  <2> SUFFICES ASSUME QosInv, [Next]_vars PROVE QosInv'
    OBVIOUS
  <2>1. CASE \E w \in Writers : Write(w) \/ QueueEvent(w)
    BY <2>1, WriteStep, QueueEventStep
  <2>2. CASE \E r \in Readers : TakeEvent(r) \/ Scan(r)
    BY <2>2, TakeEventStep, ScanIs, TakeStep, PassStep, GiveUpStep
  <2>3. CASE BeginFlush \/ FlushPacket \/ FlushEvent
    BY <2>3, FlushStep
  <2>4. CASE UNCHANGED vars
    BY <2>4, StutterInv
  <2>5. QED
    BY <2>1, <2>2, <2>3, <2>4 DEF Next
<1>3. QED
  BY <1>1, <1>2, PTL DEF Spec

(* The types, for any queues and threads.                                   *)
THEOREM TypeCorrect == Spec => []TypeOK
<1>1. QosInv => TypeOK
  BY DEF QosInv
<1>2. QED
  BY <1>1, InvariantHolds, PTL

(* Until the connection is flushed, every packet that is queued has its event, or  *)
(* a thread about to queue or use one, but for the events there was no room for;   *)
(* a connection has room for them, and no reader comes away empty.             *)
THEOREM EventPerPacketAlways == Spec => []EventPerPacket
<1>1. QosInv => EventPerPacket
  BY DEF QosInv, Balanced, EventPerPacket
<1>2. QED
  BY <1>1, InvariantHolds, PTL

(* A packet is queued, read or freed, one of them and once, but for a connection's  *)
(* one whose event found no room.                                            *)
THEOREM OneFateAlways == Spec => []OneFate
<1>1. Init => Fate
  BY FateInit
<1>2. QosInv /\ Fate /\ [Next]_vars => Fate'
  <2> SUFFICES ASSUME QosInv, Fate, [Next]_vars PROVE Fate'
    OBVIOUS
  <2>1. CASE \E w \in Writers : Write(w) \/ QueueEvent(w)
    BY <2>1, FateWrite, FateEvent
  <2>2. CASE \E r \in Readers : Take(r)
    BY <2>2, FateTake
  <2>3. CASE FlushPacket
    BY <2>3, FateFlush
  <2>4. CASE \/ \E r \in Readers : TakeEvent(r) \/ Pass(r) \/ GiveUp(r)
             \/ BeginFlush \/ FlushEvent \/ UNCHANGED vars
    <3>1. UNCHANGED <<kind, queue, written, wpkt, got, freed, dropped>>
      BY <2>4 DEF TakeEvent, Pass, GiveUp, BeginFlush, FlushEvent, vars
    <3>2. QED
      BY <3>1, FateKept DEF Fate
  <2>5. QED
    BY <2>1, <2>2, <2>3, <2>4, ScanIs DEF Next
<1>3. Fate => OneFate
  BY DEF Fate, OneFate
<1>4. QED
  BY <1>1, <1>2, <1>3, InvariantHolds, PTL DEF Spec

(* Whatever is written and flushed meanwhile, no reader takes a packet past one   *)
(* of higher priority, or an earlier one of the same, that it could know of.      *)
THEOREM InPriorityAlways == Spec => InPriority
<1>1. QosInv /\ [Next]_vars => [\A r \in Readers : ReadsBest(r)]_vars
  <2> SUFFICES ASSUME QosInv, [Next]_vars, NEW r \in Readers, got' # got PROVE ReadsBest(r)
    BY DEF ReadsBest
  <2>1. \E o \in Readers : Scan(o)
    BY DEF Next, vars, Write, QueueEvent, TakeEvent, BeginFlush, FlushPacket, FlushEvent
  <2>2. PICK o \in Readers : Take(o)
    BY <2>1, ScanIs DEF Pass, GiveUp
  <2>3. QED
    BY <2>2, TakesBest
<1>2. QED
  BY <1>1, InvariantHolds, PTL DEF Spec, InPriority
=============================================================================
