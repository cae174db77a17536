------------------------------- MODULE QosQueue -------------------------------
(***************************************************************************)
(* The priority queues of the QoS build: one queue of packets per priority and   *)
(* one queue of events, which wakes the reader.  The router's input           *)
(* (csp_qfifo.c) and the receive queues of a connection (csp_conn_enqueue_packet,  *)
(* csp_read, csp_conn_flush_rx_queue) are made this way and differ in who writes,  *)
(* who reads, how many events there is room for, and what a full event queue      *)
(* does.  Each call of a queue (pthread_queue.c) takes the queue's lock; nothing  *)
(* is locked between two calls.                                               *)
(***************************************************************************)
EXTENDS Integers, Sequences, FiniteSets

CONSTANTS
  Prios,        \* CSP_PRIORITIES
  QueueLength,  \* CSP_FIFO_INPUT, or CSP_RX_QUEUE_LENGTH, of one priority
  Writers,      \* threads that write packets
  Deliverer,    \* the one of them that is the router task
  Readers,      \* threads that read packets
  Router,       \* the one of them that is the router task
  MaxPackets,   \* a bound of the model: packets written
  MaxFlushes    \* a bound of the model: how often the connection is closed

ASSUME QosAssumption ==
  /\ Prios \in Nat \ {0} /\ QueueLength \in Nat \ {0}
  /\ Deliverer \in Writers /\ Router \in Readers
  /\ IsFiniteSet(Writers) /\ IsFiniteSet(Readers)
  /\ MaxPackets \in Nat /\ MaxFlushes \in Nat

VARIABLES
  kind,      \* which of the two it is: "router" or "connection"
  queue,     \* the packets of each priority
  events,    \* how many events are queued
  written,   \* packets written so far
  wpkt,      \* the packet whose event each writer is about to queue
  scan,      \* the priority each reader looks at next, once it has an event
  seen,      \* history: what was queued when the reader got its event
  flush,     \* the priority csp_close flushes, Prios for the events
  flushes,   \* how often it has begun
  got,       \* history: packets read
  freed,     \* history: packets freed by a writer or a flush
  dropped,   \* history: events that found no room
  spurious   \* history: a reader has had an event and found no packet

vars == <<kind, queue, events, written, wpkt, scan, seen, flush, flushes, got, freed,
          dropped, spurious>>

NoPacket == [nr |-> 0, prio |-> 0]

Levels == 0 .. Prios - 1

NoScan == -1

EventLength == IF kind = "router" THEN QueueLength ELSE Prios * QueueLength

Init ==
  /\ kind \in {"router", "connection"}
  /\ queue = [p \in Levels |-> <<>>]
  /\ events = 0 /\ written = 0
  /\ wpkt = [w \in Writers |-> NoPacket]
  /\ scan = [r \in Readers |-> NoScan]
  /\ seen = [r \in Readers |-> {}]
  /\ flush = NoScan /\ flushes = 0
  /\ got = <<>> /\ freed = {}
  /\ dropped = 0 /\ spurious = FALSE

PacketsIn(p) == {queue[p][k] : k \in 1 .. Len(queue[p])}

Queued == UNION {PacketsIn(p) : p \in Levels}

-----------------------------------------------------------------------------
(* Mutant: one packet more than there is room for.                           *)
Room_OffByOne(p) == Len(queue[p]) <= QueueLength

(* csp_queue_enqueue without a timeout.                                      *)
Room(p) == Len(queue[p]) < QueueLength

(* csp_qfifo_write by any interface's thread, csp_conn_enqueue_packet by the      *)
(* router task.                                                              *)
MayWrite(w) == kind = "router" \/ w = Deliverer

Write(w) ==
  /\ MayWrite(w) /\ wpkt[w] = NoPacket
  /\ written < MaxPackets
  /\ written' = written + 1
  /\ \E p \in Levels :
       LET new == [nr |-> written + 1, prio |-> p] IN
         \/ /\ Room(p)
            /\ queue' = [queue EXCEPT ![p] = Append(@, new)]
            /\ wpkt' = [wpkt EXCEPT ![w] = new]
            /\ UNCHANGED freed
         \/ /\ ~Room(p)
            /\ freed' = freed \cup {new}
            /\ UNCHANGED <<queue, wpkt>>
  /\ UNCHANGED <<kind, events, scan, seen, flush, flushes, got, dropped, spurious>>

(* Mutant: an event is queued only for the packet that ends a silence.       *)
QueueEvent_First(w) ==
  /\ wpkt[w] # NoPacket
  /\ wpkt' = [wpkt EXCEPT ![w] = NoPacket]
  /\ events' = IF events = 0 THEN 1 ELSE events
  /\ UNCHANGED <<kind, queue, written, scan, seen, flush, flushes, got, freed, dropped, spurious>>

(* The event.  Without room for it the router's packet stays where it is, and a  *)
(* connection's is reported as not queued, and freed.                         *)
QueueEvent(w) ==
  /\ wpkt[w] # NoPacket
  /\ wpkt' = [wpkt EXCEPT ![w] = NoPacket]
  /\ \/ /\ events < EventLength
        /\ events' = events + 1
        /\ UNCHANGED <<freed, dropped>>
     \/ /\ events = EventLength
        /\ dropped' = dropped + 1
        /\ freed' = IF kind = "router" THEN freed ELSE freed \cup {wpkt[w]}
        /\ UNCHANGED events
  /\ UNCHANGED <<kind, queue, written, scan, seen, flush, flushes, got, spurious>>

-----------------------------------------------------------------------------
(* csp_qfifo_read by the router task, csp_read by the threads that have the       *)
(* connection.                                                               *)
MayRead(r) == kind = "connection" \/ r = Router

TakeEvent(r) ==
  /\ MayRead(r) /\ scan[r] = NoScan
  /\ events > 0
  /\ events' = events - 1
  /\ scan' = [scan EXCEPT ![r] = 0]
  /\ seen' = [seen EXCEPT ![r] = Queued]
  /\ UNCHANGED <<kind, queue, written, wpkt, flush, flushes, got, freed, dropped, spurious>>

(* Mutant: the queues are looked at from the lowest priority on.             *)
Level_Lowest(r) == Prios - 1 - scan[r]

(* The queue r looks at.                                                     *)
Level(r) == scan[r]

(* One queue is looked at: its first packet is taken, or the next is looked at. *)
Scan(r) ==
  /\ scan[r] \in Levels
  /\ LET q == queue[Level(r)] IN
       \/ /\ q # <<>>
          /\ got' = Append(got, Head(q))
          /\ queue' = [queue EXCEPT ![Level(r)] = Tail(q)]
          /\ scan' = [scan EXCEPT ![r] = NoScan]
          /\ seen' = [seen EXCEPT ![r] = {}]
          /\ UNCHANGED spurious
       \/ /\ q = <<>> /\ scan[r] < Prios - 1
          /\ scan' = [scan EXCEPT ![r] = @ + 1]
          /\ UNCHANGED <<got, queue, seen, spurious>>
       \/ /\ q = <<>> /\ scan[r] = Prios - 1
          /\ scan' = [scan EXCEPT ![r] = NoScan]
          /\ seen' = [seen EXCEPT ![r] = {}]
          /\ spurious' = TRUE
          /\ UNCHANGED <<got, queue>>
  /\ UNCHANGED <<kind, events, written, wpkt, flush, flushes, freed, dropped>>

-----------------------------------------------------------------------------
(* csp_conn_flush_rx_queue: the packets, queue by queue, then the events.  Others *)
(* go on meanwhile.                                                          *)
BeginFlush ==
  /\ kind = "connection"
  /\ flush = NoScan /\ flushes < MaxFlushes
  /\ flushes' = flushes + 1
  /\ flush' = 0
  /\ UNCHANGED <<kind, queue, events, written, wpkt, scan, seen, got, freed, dropped, spurious>>

(* Mutant: the packet's buffer is freed, and the packet is not taken.        *)
FlushPacket_Left ==
  /\ flush \in Levels
  /\ IF queue[flush] # <<>>
       THEN freed' = freed \cup {Head(queue[flush])} /\ flush' = flush + 1
       ELSE flush' = flush + 1 /\ UNCHANGED freed
  /\ UNCHANGED <<kind, queue, events, written, wpkt, scan, seen, flushes, got, dropped, spurious>>

FlushPacket ==
  /\ flush \in Levels
  /\ \/ /\ queue[flush] # <<>>
        /\ freed' = freed \cup {Head(queue[flush])}
        /\ queue' = [queue EXCEPT ![flush] = Tail(@)]
        /\ UNCHANGED flush
     \/ /\ queue[flush] = <<>>
        /\ flush' = flush + 1
        /\ UNCHANGED <<queue, freed>>
  /\ UNCHANGED <<kind, events, written, wpkt, scan, seen, flushes, got, dropped, spurious>>

FlushEvent ==
  /\ flush = Prios
  /\ \/ events > 0 /\ events' = events - 1 /\ UNCHANGED flush
     \/ events = 0 /\ flush' = NoScan /\ UNCHANGED events
  /\ UNCHANGED <<kind, queue, written, wpkt, scan, seen, flushes, got, freed, dropped, spurious>>

Next ==
  \/ \E w \in Writers : Write(w) \/ QueueEvent(w)
  \/ \E r \in Readers : TakeEvent(r) \/ Scan(r)
  \/ BeginFlush \/ FlushPacket \/ FlushEvent

Spec == Init /\ [][Next]_vars

-----------------------------------------------------------------------------
Packets == [nr : 0 .. MaxPackets, prio : Levels]

TypeOK ==
  /\ kind \in {"router", "connection"}
  /\ queue \in [Levels -> Seq(Packets)]
  /\ \A p \in Levels : Len(queue[p]) <= QueueLength
  /\ events \in 0 .. EventLength
  /\ written \in 0 .. MaxPackets
  /\ wpkt \in [Writers -> Packets]
  /\ scan \in [Readers -> {NoScan} \cup Levels]
  /\ seen \in [Readers -> SUBSET Packets]
  /\ flush \in {NoScan} \cup (0 .. Prios)
  /\ flushes \in 0 .. MaxFlushes
  /\ got \in Seq(Packets) /\ freed \subseteq Packets
  /\ dropped \in Nat /\ spurious \in BOOLEAN

Writing == {w \in Writers : wpkt[w] # NoPacket}

Scanning == {r \in Readers : scan[r] # NoScan}

(* As long as nothing is flushed, a packet that waits has its event, or a thread  *)
(* that is about to queue or has just taken one, but for as many packets as       *)
(* there were events that found no room.  Those wait until other packets come   *)
(* and are never caught up with.  A connection has room for all events, and no  *)
(* reader finds nothing.                                                     *)
EventPerPacket ==
  flushes = 0 =>
    /\ Cardinality(Queued) = events + Cardinality(Writing) + Cardinality(Scanning) + dropped
    /\ kind = "connection" => dropped = 0
    /\ ~spurious

(* A packet is queued, read or freed, one of them and once; also when the         *)
(* connection is flushed while it is written and read, until some event of the   *)
(* connection has found no room, which takes such a flush: csp_udp_new_packet    *)
(* then frees a packet that stays queued.                                      *)
OneFate ==
  kind = "router" \/ dropped = 0 =>
    /\ \A j, k \in 1 .. Len(got) : j # k => got[j].nr # got[k].nr
    /\ LET read == {got[k] : k \in 1 .. Len(got)} IN
         /\ Queued \cap read = {} /\ Queued \cap freed = {} /\ read \cap freed = {}
         /\ Cardinality(Queued) + Cardinality(read) + Cardinality(freed) = written

ReadsBest(r) ==
  got' # got /\ scan[r] # NoScan /\ scan'[r] = NoScan =>
    LET p == got'[Len(got')] IN
      \A q \in seen[r] \cap Queued :
        q # p => p.prio < q.prio \/ (p.prio = q.prio /\ p.nr < q.nr)

(* No reader takes a packet while one of higher priority is queued that was there *)
(* when it was woken; packets of one priority are read in the order they came    *)
(* in.                                                                     *)
InPriority == [][\A r \in Readers : ReadsBest(r)]_vars
=============================================================================
