---------------------------------- MODULE Can ----------------------------------
(***************************************************************************)
(* The CAN interface (csp_if_can.c): threads of several nodes cut packets into  *)
(* frames of eight bytes (csp_can_tx), the bus brings them to one node in the     *)
(* order they were sent, frame by frame, and csp_can_rx_task puts the packets    *)
(* together again, many at a time, in its array of packet buffer elements.      *)
(* Frames get lost: on the bus, in the driver, whose can_send hides it, and when  *)
(* the queue between the driver's thread and the task is full.                 *)
(***************************************************************************)
EXTENDS Integers, Sequences, FiniteSets

CONSTANTS
  Senders,     \* threads that send
  Node,        \* [Senders -> the node each is a thread of]
  Idents,      \* identifiers are 0 .. Idents-1: 2^CFP_ID_SIZE
  Lengths,     \* of the packets' data
  Elements,    \* PBUF_ELEMENTS
  QueueSize,   \* CSP_CAN_RX_QUEUE_SIZE
  MaxPackets,  \* a bound of the model: packets sent
  MaxFaults    \* a bound of the model: frames lost, and times there is no buffer

Nodes == {Node[s] : s \in Senders}

(* "remain" has eight bits.                                                  *)
ASSUME CanAssumption ==
  /\ IsFiniteSet(Senders) /\ Node \in [Senders -> Nodes]
  /\ {Idents, Elements, QueueSize} \subseteq Nat \ {0}
  /\ {MaxPackets, MaxFaults} \subseteq Nat
  /\ Lengths \subseteq 0 .. 256

VARIABLES
  csp_can_id,  \* the next identifier of each node
  tx,          \* the packet each thread is sending, and how much has been sent
  queue,       \* csp_can_rx_queue
  pbuf,        \* csp_can_pbuf
  routed,      \* what csp_new_packet got: the packet's length and its parts
  packets,     \* history: the packets begun
  taken,       \* history: buffers got by csp_buffer_get and not freed since
  faults,
  lossy        \* history: a frame has been lost, there was no element or buffer, a
               \* packet has been timed out, or two have had one identifier at a time

vars == <<csp_can_id, tx, queue, pbuf, routed, packets, taken, faults, lossy>>

NoTx == [nr |-> 0, length |-> 0, ident |-> 0, begun |-> FALSE, count |-> 0]

(* An element in state BUF_FREE.  The packet in it is the parts received.     *)
FreeElement == [used |-> FALSE, key |-> <<>>, remain |-> 0, packet |-> FALSE,
                length |-> 0, rx_count |-> 0, parts |-> <<>>]

Init ==
  /\ csp_can_id = [n \in Nodes |-> 0]
  /\ tx = [s \in Senders |-> NoTx]
  /\ queue = <<>>
  /\ pbuf = [e \in 1 .. Elements |-> FreeElement]
  /\ routed = <<>> /\ packets = <<>>
  /\ taken = 0 /\ faults = 0
  /\ lossy = FALSE

-----------------------------------------------------------------------------
(* csp_can_tx.                                                               *)

Busy(s) == tx[s].nr > 0

(* Mutant: the identifier does not go round.                                 *)
NextIdent_Unmasked(id) == id + 1

NextIdent(id) == (id + 1) % Idents

(* csp_can_id_get.  The identifiers have gone round when a packet of the node   *)
(* is still being sent under the same one.                                    *)
GetIdent(s) ==
  /\ ~Busy(s) /\ Len(packets) < MaxPackets
  /\ LET n == Node[s]
         id == csp_can_id[n] IN
       /\ \E len \in Lengths :
            /\ tx' = [tx EXCEPT ![s] = [NoTx EXCEPT !.nr = Len(packets) + 1, !.length = len,
                                                    !.ident = id]]
            /\ packets' = Append(packets,
                 [length |-> len, by |-> s,
                  ord |-> Cardinality({k \in 1 .. Len(packets) : Node[packets[k].by] = n})])
       /\ csp_can_id' = [csp_can_id EXCEPT ![n] = NextIdent(@)]
       /\ lossy' = (lossy \/ \E t \in Senders : Node[t] = n /\ Busy(t) /\ tx[t].ident = id)
  /\ UNCHANGED <<queue, pbuf, routed, taken, faults>>

Smaller(a, b) == IF a < b THEN a ELSE b

(* The first frame has the header and the length, six bytes, and two of data.  *)
FirstBytes(len) == Smaller(len, 2)

(* Mutant: the source is left out of the mask.                               *)
Key_NoSource(s) == <<tx[s].ident>>

(* What CFP_ID_CONN_MASK leaves of the CAN identifier; there is one receiver.  *)
Key(s) == <<Node[s], tx[s].ident>>

BeginFrame(s) ==
  [key |-> Key(s), begin |-> TRUE, remain |-> (tx[s].length + 5) \div 8,
   length |-> tx[s].length, bytes |-> FirstBytes(tx[s].length), part |-> <<tx[s].nr, 0>>]

(* Mutant: a last frame that is not full is not counted.                     *)
MoreFrame_Down(s) ==
  LET left == tx[s].length - tx[s].count
      bytes == Smaller(left, 8) IN
    [key |-> Key(s), begin |-> FALSE, remain |-> (left - bytes) \div 8,
     length |-> 0, bytes |-> bytes, part |-> <<tx[s].nr, tx[s].count>>]

MoreFrame(s) ==
  LET left == tx[s].length - tx[s].count
      bytes == Smaller(left, 8) IN
    [key |-> Key(s), begin |-> FALSE, remain |-> (left - bytes + 7) \div 8,
     length |-> 0, bytes |-> bytes, part |-> <<tx[s].nr, tx[s].count>>]

Frame(s) == IF tx[s].begun THEN MoreFrame(s) ELSE BeginFrame(s)

(* What s has sent once its frame f is out; then the packet's buffer is freed.  *)
Sent(s, f) ==
  IF tx[s].count + f.bytes < tx[s].length
    THEN [tx[s] EXCEPT !.begun = TRUE, !.count = @ + f.bytes]
    ELSE NoTx

(* can_send, which always returns 0, and csp_can_rx_frame at the other end.   *)
SendFrame(s) ==
  /\ Busy(s)
  /\ tx' = [tx EXCEPT ![s] = Sent(s, Frame(s))]
  /\ \/ /\ Len(queue) < QueueSize
        /\ queue' = Append(queue, Frame(s))
        /\ UNCHANGED <<faults, lossy>>
     \/ /\ Len(queue) = QueueSize
        /\ lossy' = TRUE
        /\ UNCHANGED <<queue, faults>>
     \/ /\ Len(queue) < QueueSize /\ faults < MaxFaults
        /\ faults' = faults + 1 /\ lossy' = TRUE
        /\ UNCHANGED queue
  /\ UNCHANGED <<csp_can_id, pbuf, routed, packets, taken>>

-----------------------------------------------------------------------------
(* csp_can_rx_task: csp_can_process_frame.                                    *)

(* csp_can_pbuf_find.                                                        *)
Bound(key) == {e \in 1 .. Elements : pbuf[e].used /\ pbuf[e].key = key}

Unused == {e \in 1 .. Elements : ~pbuf[e].used}

First(S) == CHOOSE e \in S : \A d \in S : e <= d

(* Mutant: csp_buffer_free is not called.                                    *)
PbufFree_Leaking(e) == pbuf' = [pbuf EXCEPT ![e] = FreeElement] /\ UNCHANGED taken

(* csp_can_pbuf_free.                                                        *)
PbufFree(e) ==
  /\ pbuf' = [pbuf EXCEPT ![e] = FreeElement]
  /\ taken' = IF pbuf[e].packet THEN taken - 1 ELSE taken

(* Element e becomes b; when all its data is there, the packet is the router's. *)
Keep(e, b) ==
  IF b.rx_count = b.length
    THEN /\ pbuf' = [pbuf EXCEPT ![e] = FreeElement]
         /\ routed' = Append(routed, [length |-> b.length, parts |-> b.parts])
    ELSE /\ pbuf' = [pbuf EXCEPT ![e] = b]
         /\ UNCHANGED routed

(* The element f begins its packet in: the one it is bound to, whose packet is  *)
(* incomplete, or the first free one.                                         *)
ElementFor(f) == IF Bound(f.key) # {} THEN First(Bound(f.key)) ELSE First(Unused)

Begun(f) ==
  [used |-> TRUE, key |-> f.key, remain |-> f.remain, packet |-> TRUE,
   length |-> f.length, rx_count |-> f.bytes, parts |-> <<f.part>>]

(* A packet that is there already is written over.                           *)
Begin(f) ==
  /\ f.begin
  /\ Bound(f.key) \cup Unused # {}
  /\ LET e == ElementFor(f) IN
       /\ Keep(e, Begun(f))
       /\ taken' = IF pbuf[e].packet THEN taken ELSE taken + 1
  /\ UNCHANGED <<faults, lossy>>

NoElement(f) ==
  /\ f.begin
  /\ Bound(f.key) \cup Unused = {}
  /\ lossy' = TRUE
  /\ UNCHANGED <<pbuf, routed, taken, faults>>

NoBuffer(f) ==
  /\ f.begin /\ Bound(f.key) = {} /\ Unused # {}
  /\ faults < MaxFaults
  /\ faults' = faults + 1 /\ lossy' = TRUE
  /\ UNCHANGED <<pbuf, routed, taken>>

Unbound(f) ==
  /\ ~f.begin /\ Bound(f.key) = {}
  /\ UNCHANGED <<pbuf, routed, taken, faults, lossy>>

(* No frame is missing before f, and the data is not more than there should be. *)
InTurn(e, f) ==
  /\ f.remain = pbuf[e].remain - 1
  /\ pbuf[e].rx_count + f.bytes <= pbuf[e].length

More(f) ==
  /\ ~f.begin /\ Bound(f.key) # {}
  /\ LET e == First(Bound(f.key)) IN
       \/ /\ InTurn(e, f)
          /\ Keep(e, [pbuf[e] EXCEPT !.remain = @ - 1, !.rx_count = @ + f.bytes,
                                     !.parts = Append(@, f.part)])
          /\ UNCHANGED taken
       \/ /\ ~InTurn(e, f)
          /\ PbufFree(e)
          /\ UNCHANGED routed
  /\ UNCHANGED <<faults, lossy>>

ProcessFrame ==
  /\ queue # <<>>
  /\ queue' = Tail(queue)
  /\ LET f == Head(queue) IN
       Begin(f) \/ NoElement(f) \/ NoBuffer(f) \/ Unbound(f) \/ More(f)
  /\ UNCHANGED <<csp_can_id, tx, packets>>

(* Mutant: the packet is freed and the element is not.                       *)
Cleanup_Used ==
  /\ queue = <<>>
  /\ \E e \in 1 .. Elements :
       pbuf[e].packet /\ pbuf' = [pbuf EXCEPT ![e].packet = FALSE] /\ taken' = taken - 1
  /\ lossy' = TRUE
  /\ UNCHANGED <<csp_can_id, tx, queue, routed, packets, faults>>

(* csp_can_pbuf_cleanup, when nothing has come for a second: of the elements,   *)
(* one whose last frame is ten seconds old.                                   *)
Cleanup ==
  /\ queue = <<>>
  /\ \E e \in 1 .. Elements : pbuf[e].used /\ PbufFree(e)
  /\ lossy' = TRUE
  /\ UNCHANGED <<csp_can_id, tx, queue, routed, packets, faults>>

Next ==
  \/ \E s \in Senders : GetIdent(s) \/ SendFrame(s)
  \/ ProcessFrame \/ Cleanup

Spec == Init /\ [][Next]_vars

(* The task runs, and its waits time out.                                    *)
FairSpec == Spec /\ WF_vars(ProcessFrame) /\ WF_vars(Cleanup)

-----------------------------------------------------------------------------
Keys == Nodes \X (0 .. Idents - 1)

Parts == (1 .. MaxPackets) \X (0 .. 256)

TypeOK ==
  /\ csp_can_id \in [Nodes -> 0 .. Idents - 1]
  /\ tx \in [Senders -> [nr : 0 .. MaxPackets, length : 0 .. 256, ident : 0 .. Idents - 1,
                         begun : BOOLEAN, count : 0 .. 256]]
  /\ queue \in Seq([key : Keys, begin : BOOLEAN, remain : 0 .. 255, length : 0 .. 256,
                    bytes : 0 .. 8, part : Parts])
  /\ Len(queue) <= QueueSize
  /\ pbuf \in [1 .. Elements -> [used : BOOLEAN, key : Keys \cup {<<>>}, remain : 0 .. 255,
                                 packet : BOOLEAN, length : 0 .. 256, rx_count : 0 .. 256,
                                 parts : Seq(Parts)]]
  /\ routed \in Seq([length : 0 .. 256, parts : Seq(Parts)])
  /\ packets \in Seq([length : Lengths, by : Senders, ord : Nat])
  /\ taken \in Nat /\ faults \in 0 .. MaxFaults
  /\ lossy \in BOOLEAN

(* Packet n as it should arrive.                                             *)
Frames(len) == 1 + (len - FirstBytes(len) + 7) \div 8

Whole(n) ==
  [length |-> packets[n].length,
   parts |-> [k \in 1 .. Frames(packets[n].length) |-> <<n, IF k = 1 THEN 0 ELSE 8 * k - 14>>]]

(* The packets of two parts are of one node, and the identifiers have gone round  *)
(* between them.                                                             *)
TurnApart(p, q) ==
  LET a == packets[p[1]]
      b == packets[q[1]] IN
    Node[a.by] = Node[b.by] /\ a.ord # b.ord /\ (a.ord - b.ord) % Idents = 0

Beginning(k) == routed[k].parts[1][1]

Mixed(k) ==
  \E p \in {routed[k].parts[j] : j \in 1 .. Len(routed[k].parts)} :
    TurnApart(routed[k].parts[1], p)

(* Whatever frames are lost, and however packets of threads and nodes run into   *)
(* each other: the router gets packets that were sent, whole, those of a thread  *)
(* in order and once.  Parts of two packets are put together only when the      *)
(* node's identifiers have gone round, 1024 packets in the code.               *)
RoutedWhole ==
  /\ \A k \in 1 .. Len(routed) : routed[k] = Whole(Beginning(k)) \/ Mixed(k)
  /\ \A j, k \in {i \in 1 .. Len(routed) : ~Mixed(i)} :
       j < k /\ packets[Beginning(j)].by = packets[Beginning(k)].by => Beginning(j) < Beginning(k)

Quiet == queue = <<>> /\ \A s \in Senders : ~Busy(s)

(* Where nothing has been lost, given up or run out, every packet arrives.    *)
AllArrive ==
  Quiet /\ ~lossy => \A n \in 1 .. Len(packets) : \E k \in 1 .. Len(routed) : routed[k] = Whole(n)

(* Every buffer is the router's, or in an element where its packet grows.     *)
BuffersKept == taken = Len(routed) + Cardinality({e \in 1 .. Elements : pbuf[e].packet})

(* When traffic ends, the elements of packets that were cut short are freed.   *)
ElementsFreed == <>[](\A e \in 1 .. Elements : ~pbuf[e].used)
=============================================================================
