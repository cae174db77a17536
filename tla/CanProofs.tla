------------------------------- MODULE CanProofs -------------------------------
(***************************************************************************)
(* Proofs about module Can, for any number of threads, nodes, elements and       *)
(* packets, any lengths and any loss.  Frames are numbered within their packet:   *)
(* FrameOf(n, i) is frame i of packet n, and nothing else is ever on the bus.     *)
(*                                                                         *)
(* Three inductive invariants, each resting on the one before:                  *)
(*   KeepInv    what each thread sends, the queue and each element hold; the      *)
(*              buffers taken are counted;                                    *)
(*   WholeInv   the frames of a thread are in the queue in their order, after     *)
(*              those the router has got and before those to be sent;            *)
(*   ArriveInv  where nothing has been lost, each frame sent is in the queue or    *)
(*              has been processed, not both, and the packets that share an      *)
(*              identifier are in the queue one after the other.                *)
(***************************************************************************)
EXTENDS Can, FiniteSetTheorems, SequenceTheorems, WellFoundedInduction, TLAPS

(* Where the data of frame i begins in its packet, and whose it is.            *)
Offset(i) == IF i = 1 THEN 0 ELSE 8 * i - 14

KeyOf(n) == <<Node[packets[n].by], packets[n].ord % Idents>>

BytesOf(len, i) == IF i = 1 THEN FirstBytes(len) ELSE Smaller(len - Offset(i), 8)

FrameOf(n, i) ==
  LET len == packets[n].length IN
    [key |-> KeyOf(n), begin |-> (i = 1), remain |-> Frames(len) - i,
     length |-> IF i = 1 THEN len ELSE 0,
     bytes |-> BytesOf(len, i), part |-> <<n, Offset(i)>>]

Numbers == 1 .. Len(packets)

FramesOf(n) == 1 .. Frames(packets[n].length)

(* Of the packets p, those of node d, which are counted in the order sent.      *)
OfNodeIn(p, d) == {k \in 1 .. Len(p) : Node[p[k].by] = d}

InOrderSent(p) ==
  /\ \A n \in 1 .. Len(p) : p[n].ord < Cardinality(OfNodeIn(p, Node[p[n].by]))
  /\ \A m, n \in 1 .. Len(p) : m < n /\ Node[p[m].by] = Node[p[n].by] => p[m].ord < p[n].ord

OfNode(d) == OfNodeIn(packets, d)

(* Each node's packets have its identifiers, one after the other.              *)
Numbered ==
  /\ InOrderSent(packets)
  /\ \A d \in Nodes : csp_can_id[d] = Cardinality(OfNode(d)) % Idents

(* The frame thread s sends next, and that it is one of its packet.            *)
NextFrame(s) == IF tx[s].begun THEN (tx[s].count + 14) \div 8 ELSE 1

SendingOK(s) == Busy(s) =>
  LET n == tx[s].nr IN
    /\ n \in Numbers /\ packets[n].by = s
    /\ tx[s].length = packets[n].length /\ Key(s) = KeyOf(n)
    /\ NextFrame(s) \in FramesOf(n) /\ tx[s].count = Offset(NextFrame(s))
    /\ tx[s].begun <=> NextFrame(s) > 1

FramesInQueue ==
  \A q \in 1 .. Len(queue) : \E n \in Numbers : \E i \in FramesOf(n) : queue[q] = FrameOf(n, i)

(* All parts are of one packet.                                              *)
Pure(parts) == \A j \in 1 .. Len(parts) : parts[j][1] = parts[1][1]

(* What an element has put together has one key; if it is pure, it is the        *)
(* beginning of a packet, and what remains is the rest of it.                   *)
PartsOK(parts) ==
  /\ Len(parts) >= 1
  /\ \A j \in 1 .. Len(parts) : /\ parts[j][1] \in Numbers
                                /\ KeyOf(parts[j][1]) = KeyOf(parts[1][1])

BuiltOK(b) ==
  LET n == b.parts[1][1]
      m == Len(b.parts) IN
    /\ b.used /\ b.packet /\ PartsOK(b.parts)
    /\ b.key = KeyOf(n) /\ b.length = packets[n].length
    /\ Pure(b.parts) => /\ m <= Frames(b.length) /\ b.remain = Frames(b.length) - m
                        /\ b.rx_count = IF m < Frames(b.length) THEN 8 * m - 6 ELSE b.length
                        /\ \A j \in 1 .. m : b.parts[j] = <<n, Offset(j)>>

ElementOK(e) ==
  \/ BuiltOK(pbuf[e]) /\ pbuf[e].rx_count # pbuf[e].length
  \/ pbuf[e] = FreeElement

CanTypes ==
  /\ TypeOK /\ Numbered /\ FramesInQueue
  /\ \A s \in Senders : SendingOK(s)
  /\ \A e \in 1 .. Elements : ElementOK(e)

-----------------------------------------------------------------------------
(* What the router has got, if it is pure, is a packet, in the order of those    *)
(* of its thread, and before all that its thread is still sending.              *)
RoutedOK ==
  \A k \in 1 .. Len(routed) :
    /\ PartsOK(routed[k].parts)
    /\ Pure(routed[k].parts) => routed[k] = Whole(Beginning(k))

PureRouted == {k \in 1 .. Len(routed) : Pure(routed[k].parts)}

By(k) == packets[Beginning(k)].by

RoutedInOrder ==
  \A j, k \in PureRouted : j < k /\ By(j) = By(k) => Beginning(j) < Beginning(k)

NrAt(q) == queue[q].part[1]

SenderAt(q) == packets[NrAt(q)].by

(* The frame at q is of a packet before n, or begins before offset o of it.     *)
Earlier(q, n, o) == NrAt(q) < n \/ (NrAt(q) = n /\ queue[q].part[2] < o)

InSequence ==
  /\ \A p, q \in 1 .. Len(queue) :
       p < q /\ SenderAt(p) = SenderAt(q) => Earlier(p, NrAt(q), queue[q].part[2])
  /\ \A q \in 1 .. Len(queue) :
       Busy(SenderAt(q)) => Earlier(q, tx[SenderAt(q)].nr, tx[SenderAt(q)].count)

RoutedBefore ==
  \A k \in PureRouted :
    /\ \A q \in 1 .. Len(queue) : SenderAt(q) = By(k) => Beginning(k) < NrAt(q)
    /\ Busy(By(k)) => Beginning(k) < tx[By(k)].nr

WholeInv == CanTypes /\ RoutedOK /\ RoutedInOrder /\ InSequence /\ RoutedBefore

-----------------------------------------------------------------------------
(* Where nothing has been lost, every frame that has been sent is in the queue   *)
(* or has been put where it belongs, and the packets of one key come one after    *)
(* the other.                                                                *)
SentFrames(n) ==
  IF tx[packets[n].by].nr = n THEN NextFrame(packets[n].by) - 1 ELSE Frames(packets[n].length)

InQueue(n, i) == \E q \in 1 .. Len(queue) : queue[q] = FrameOf(n, i)

Holds(e, n) == pbuf[e].used /\ pbuf[e].parts[1][1] = n

Arrived(n) == \E k \in 1 .. Len(routed) : routed[k] = Whole(n)

Processed(n, i) ==
  Arrived(n) \/ \E e \in 1 .. Elements : Holds(e, n) /\ i <= Len(pbuf[e].parts)

Accounted ==
  \A n \in Numbers : \A i \in FramesOf(n) :
    /\ InQueue(n, i) \/ Processed(n, i) <=> i <= SentFrames(n)
    /\ ~(InQueue(n, i) /\ Processed(n, i))

KeysInTurn ==
  /\ \A p, q \in 1 .. Len(queue) :
       p < q /\ queue[p].key = queue[q].key => Earlier(p, NrAt(q), queue[q].part[2])
  /\ \A s \in Senders : Busy(s) => \A n \in Numbers : KeyOf(n) = Key(s) => n <= tx[s].nr
  /\ \A e \in 1 .. Elements : pbuf[e].used =>
       /\ Pure(pbuf[e].parts) /\ ~Arrived(pbuf[e].parts[1][1])
       /\ \A q \in 1 .. Len(queue) : queue[q].key = pbuf[e].key => pbuf[e].parts[1][1] <= NrAt(q)
  /\ \A d, e \in 1 .. Elements : pbuf[d].used /\ pbuf[e].used /\ pbuf[d].key = pbuf[e].key => d = e

ArriveInv == WholeInv /\ (~lossy => Accounted /\ KeysInTurn)

-----------------------------------------------------------------------------
(* Numbers: the frames of a packet, and remainders.                           *)

LEMMA FramesOfLength ==
  ASSUME NEW len \in 0 .. 256
  PROVE  /\ Frames(len) \in 1 .. 33 /\ FirstBytes(len) \in 0 .. 2
         /\ (len + 5) \div 8 = Frames(len) - 1
         /\ Frames(len) = 1 => FirstBytes(len) = len
         /\ Frames(len) > 1 => FirstBytes(len) = 2 /\ len > 2
BY DEF Frames, FirstBytes, Smaller

(* Frame i takes up where the one before has ended, and the last one ends the     *)
(* packet.                                                                   *)
LEMMA FrameSpan ==
  ASSUME NEW len \in 0 .. 256, NEW i \in 1 .. Frames(len)
  PROVE  /\ Offset(i) \in 0 .. len /\ BytesOf(len, i) \in 0 .. 8
         /\ i < Frames(len) => /\ Offset(i) + BytesOf(len, i) = 8 * i - 6
                               /\ 8 * i - 6 < len /\ Offset(i + 1) = 8 * i - 6
         /\ i = Frames(len) => Offset(i) + BytesOf(len, i) = len
         /\ i > 1 => /\ (Offset(i) + 14) \div 8 = i
                     /\ (len - Offset(i) - BytesOf(len, i) + 7) \div 8 = Frames(len) - i
                     /\ BytesOf(len, i) = Smaller(len - Offset(i), 8)
<1>1. Frames(len) \in 1 .. 33 /\ i \in 1 .. 33
  BY FramesOfLength
<1>2. CASE i = 1
  BY <1>1, <1>2, FramesOfLength DEF Offset, BytesOf
<1>3. CASE i > 1
  <2>1. len > 2 /\ Frames(len) = 1 + (len + 5) \div 8
    BY <1>1, <1>3, FramesOfLength
  <2>2. Offset(i) = 8 * i - 14 /\ BytesOf(len, i) = Smaller(len - Offset(i), 8)
    BY <1>1, <1>3 DEF Offset, BytesOf
  <2>3. Offset(i + 1) = 8 * i - 6
    BY <1>1, <1>3 DEF Offset
  <2>4. QED
    BY <1>1, <1>3, <2>1, <2>2, <2>3 DEF Smaller
<1>4. QED
  BY <1>1, <1>2, <1>3

LEMMA Remainder ==
  ASSUME NEW m \in Nat \ {0}, NEW a \in Int
  PROVE  a % m \in 0 .. m - 1 /\ a = m * (a \div m) + (a % m) /\ a \div m \in Int
OBVIOUS

LEMMA RemainderIs ==
  ASSUME NEW m \in Nat \ {0}, NEW q \in Int, NEW r \in 0 .. m - 1
  PROVE  (m * q + r) % m = r
OBVIOUS

LEMMA OneMore ==
  ASSUME NEW m \in Nat \ {0}, NEW q \in Int
  PROVE  m * (q + 1) = m * q + m
OBVIOUS

LEMMA Multiple ==
  ASSUME NEW m \in Nat \ {0}, NEW q \in Int
  PROVE  (m * q) % m = 0
OBVIOUS

(* The next identifier of a node is that of its next packet.                  *)
LEMMA NextRemainder ==
  ASSUME NEW m \in Nat \ {0}, NEW a \in Int
  PROVE  ((a % m) + 1) % m = (a + 1) % m
<1>1. PICK q \in Int, r \in 0 .. m - 1 : r = a % m /\ a = m * q + r
  BY Remainder
<1>2. a = m * q + r
  BY <1>1
<1>3. CASE r + 1 < m
  <2>1. r + 1 \in 0 .. m - 1 /\ a + 1 = m * q + (r + 1)
    BY <1>2, <1>3
  <2>2. (a + 1) % m = r + 1
    BY <2>1, RemainderIs
  <2>3. (r + 1) % m = r + 1
    BY <2>1
  <2>4. QED
    BY <1>1, <2>2, <2>3
<1>4. CASE r + 1 = m
  <2>1. a + 1 = m * (q + 1)
    BY <1>2, <1>4
  <2>2. (a + 1) % m = 0
    <3>1. (m * (q + 1)) % m = 0
      BY Multiple
    <3>2. QED
      BY <2>1, <3>1
  <2>3. (r + 1) % m = 0
    BY <1>4
  <2>4. QED
    BY <1>1, <2>2, <2>3
<1>5. QED
  BY <1>1, <1>3, <1>4

(* Packets under one identifier are some rounds of the identifiers apart.       *)
LEMMA RoundsApart ==
  ASSUME NEW m \in Nat \ {0}, NEW a \in Int, NEW b \in Int, a % m = b % m
  PROVE  (a - b) % m = 0
<1>1. PICK p \in Int, r \in 0 .. m - 1 : r = a % m /\ a = m * p + r
  BY Remainder
<1>2. PICK q \in Int, t \in 0 .. m - 1 : t = b % m /\ b = m * q + t
  BY Remainder
<1>3. r = t
  BY <1>1, <1>2
<1>4. a = m * p + r /\ b = m * q + r
  BY <1>1, <1>2, <1>3
<1>5. m * p - m * q = m * (p - q)
  OBVIOUS
<1>6. a - b = m * (p - q)
  BY <1>4, <1>5
<1>7. (m * (p - q)) % m = 0
  BY Multiple
<1>8. QED
  BY <1>6, <1>7

LEMMA LeastNat ==
  ASSUME NEW S, S \subseteq Nat, S # {}
  PROVE  \E x \in S : \A y \in S : x <= y
<1> DEFINE R == OpToRel(<, Nat)
<1>1. IsWellFoundedOn(R, Nat)
  BY NatLessThanWellFounded
<1>2. \A a, b \in Nat : a < b => <<a, b>> \in R
  BY DEF OpToRel
<1> HIDE DEF R
<1>3. PICK x \in S : \A y \in S : ~(<<y, x>> \in R)
  BY <1>1, WFMin
<1>4. ASSUME NEW y \in S PROVE x <= y
  <2>1. x \in Nat /\ y \in Nat
    OBVIOUS
  <2>2. ~(y < x)
    BY <1>2, <1>3, <2>1
  <2>3. QED
    BY <2>1, <2>2
<1>5. QED
  BY <1>4

LEMMA FirstIsThere ==
  ASSUME NEW S, S \subseteq 1 .. Elements, S # {}
  PROVE  First(S) \in S
<1>1. S \subseteq Nat
  BY CanAssumption
<1>2. \E x \in S : \A y \in S : x <= y
  BY <1>1, LeastNat
<1>3. QED
  BY <1>2 DEF First

-----------------------------------------------------------------------------
(* Sequences, and what a step leaves of the packets.                          *)

LEMMA TailIs ==
  ASSUME NEW S, NEW q \in Seq(S), q # <<>>
  PROVE  /\ Len(q) \in Nat \ {0} /\ Head(q) = q[1] /\ q[1] \in S
         /\ Tail(q) \in Seq(S) /\ Len(Tail(q)) = Len(q) - 1
         /\ \A k \in 1 .. Len(q) - 1 : Tail(q)[k] = q[k + 1]
<1>1. Len(q) \in Nat /\ Len(q) # 0
  BY EmptySeq, LenProperties
<1>2. QED
  BY <1>1, HeadTailProperties, ElementOfSeq

LEMMA AppendIs ==
  ASSUME NEW S, NEW q \in Seq(S), NEW x \in S
  PROVE  /\ Append(q, x) \in Seq(S) /\ Len(Append(q, x)) = Len(q) + 1 /\ Len(q) \in Nat
         /\ \A k \in 1 .. Len(q) : Append(q, x)[k] = q[k]
         /\ Append(q, x)[Len(q) + 1] = x
BY AppendProperties, LenProperties

PacketsKept ==
  /\ Numbers \subseteq Numbers'
  /\ \A n \in Numbers : packets'[n] = packets[n]

LEMMA PacketsStay ==
  ASSUME TypeOK, [Next]_vars
  PROVE  PacketsKept
<1>1. CASE packets' = packets
  BY <1>1 DEF PacketsKept, Numbers
<1>2. ASSUME NEW s \in Senders, GetIdent(s)
      PROVE  PacketsKept
  <2>1. packets \in Seq([length : Lengths, by : Senders, ord : Nat])
    BY DEF TypeOK
  <2>2. PICK x : packets' = Append(packets, x)
    BY <1>2 DEF GetIdent
  <2>3. Len(packets') = Len(packets) + 1 /\ Len(packets) \in Nat
        /\ \A k \in 1 .. Len(packets) : packets'[k] = packets[k]
    BY <2>1, <2>2, AppendProperties, LenProperties
  <2>4. QED
    BY <2>3 DEF PacketsKept, Numbers
<1>3. QED
  BY <1>1, <1>2 DEF Next, vars, SendFrame, ProcessFrame, Cleanup

LEMMA PacketIs ==
  ASSUME TypeOK, NEW n \in Numbers
  PROVE  /\ n \in Nat \ {0} /\ Len(packets) \in Nat /\ n <= Len(packets)
         /\ packets[n].length \in 0 .. 256 /\ packets[n].length \in Lengths
         /\ packets[n].by \in Senders /\ packets[n].ord \in Nat
         /\ Node[packets[n].by] \in Nodes /\ KeyOf(n) \in Keys
         /\ KeyOf(n)[1] = Node[packets[n].by]
<1>1. packets \in Seq([length : Lengths, by : Senders, ord : Nat])
  BY DEF TypeOK
<1>2. Len(packets) \in Nat /\ packets[n] \in [length : Lengths, by : Senders, ord : Nat]
  BY <1>1, ElementOfSeq, LenProperties DEF Numbers
<1>3. Node[packets[n].by] \in Nodes /\ packets[n].length \in 0 .. 256
  BY <1>2, CanAssumption DEF Nodes
<1>4. packets[n].ord % Idents \in 0 .. Idents - 1
  <2>1. Idents \in Nat \ {0} /\ packets[n].ord \in Int
    BY <1>2, CanAssumption
  <2>2. \A a \in Int : a % Idents \in 0 .. Idents - 1
    BY <2>1, Remainder
  <2>3. QED
    BY <2>1, <2>2
<1>5. KeyOf(n) \in Keys /\ KeyOf(n)[1] = Node[packets[n].by]
  BY <1>3, <1>4 DEF KeyOf, Keys
<1>6. n \in Nat \ {0} /\ n <= Len(packets)
  BY <1>2 DEF Numbers
<1>7. QED
  BY <1>2, <1>3, <1>5, <1>6

LEMMA PacketsSame ==
  ASSUME PacketsKept
  PROVE  \A n \in Numbers : /\ n \in Numbers' /\ KeyOf(n)' = KeyOf(n)
                            /\ FramesOf(n)' = FramesOf(n) /\ Whole(n)' = Whole(n)
                            /\ \A i : FrameOf(n, i)' = FrameOf(n, i)
<1>1. ASSUME NEW n \in Numbers
      PROVE  /\ n \in Numbers' /\ KeyOf(n)' = KeyOf(n)
             /\ FramesOf(n)' = FramesOf(n) /\ Whole(n)' = Whole(n)
             /\ \A i : FrameOf(n, i)' = FrameOf(n, i)
  <2>1. n \in Numbers' /\ packets'[n] = packets[n]
    BY DEF PacketsKept
  <2>2. KeyOf(n)' = KeyOf(n)
    BY <2>1 DEF KeyOf
  <2>3. FramesOf(n)' = FramesOf(n)
    BY <2>1 DEF FramesOf
  <2>4. Whole(n)' = Whole(n)
    BY <2>1 DEF Whole
  <2>5. ASSUME NEW i PROVE FrameOf(n, i)' = FrameOf(n, i)
    BY <2>1, <2>2 DEF FrameOf
  <2>6. QED
    BY <2>1, <2>2, <2>3, <2>4, <2>5
<1>2. QED
  BY <1>1

(* What there is of an element's packets is not changed by a packet more.      *)
LEMMA PartsStay ==
  ASSUME TypeOK, PacketsKept, NEW b, BuiltOK(b)
  PROVE  BuiltOK(b)'
<1>1. \A j \in 1 .. Len(b.parts) : b.parts[j][1] \in Numbers
  BY DEF BuiltOK, PartsOK
<1>2. 1 \in 1 .. Len(b.parts)
  BY DEF BuiltOK, PartsOK
<1>3. \A j \in 1 .. Len(b.parts) : /\ b.parts[j][1] \in Numbers'
                                   /\ KeyOf(b.parts[j][1])' = KeyOf(b.parts[j][1])
  BY <1>1, PacketsSame
<1>4. PartsOK(b.parts)'
  BY <1>2, <1>3 DEF BuiltOK, PartsOK
<1>5. packets'[b.parts[1][1]] = packets[b.parts[1][1]]
  BY <1>1, <1>2 DEF PacketsKept
<1>6. QED
  BY <1>2, <1>3, <1>4, <1>5 DEF BuiltOK, Pure

FrameRecord == [key : Keys, begin : BOOLEAN, remain : 0 .. 255, length : 0 .. 256,
                bytes : 0 .. 8, part : Parts]

LEMMA FrameType ==
  ASSUME TypeOK, NEW n \in Numbers, NEW i \in FramesOf(n), n <= MaxPackets
  PROVE  FrameOf(n, i) \in FrameRecord
<1>1. KeyOf(n) \in Keys /\ packets[n].length \in 0 .. 256 /\ n \in Nat \ {0}
  BY PacketIs
<1>2. i \in 1 .. Frames(packets[n].length) /\ Frames(packets[n].length) \in 1 .. 33
  BY <1>1, FramesOfLength DEF FramesOf
<1>3. Offset(i) \in 0 .. packets[n].length /\ BytesOf(packets[n].length, i) \in 0 .. 8
  BY <1>1, <1>2, FrameSpan
<1>4. <<n, Offset(i)>> \in Parts
  BY <1>1, <1>3, CanAssumption DEF Parts
<1>5. Frames(packets[n].length) - i \in 0 .. 255
  BY <1>2
<1>6. QED
  BY <1>1, <1>3, <1>4, <1>5 DEF FrameOf, FrameRecord

-----------------------------------------------------------------------------
(* What a thread sends is the next frame of its packet.                       *)

TxRecord == [nr : 0 .. MaxPackets, length : 0 .. 256, ident : 0 .. Idents - 1,
             begun : BOOLEAN, count : 0 .. 256]

LEMMA SendsNext ==
  ASSUME TypeOK, NEW s \in Senders, SendingOK(s), Busy(s)
  PROVE  /\ Frame(s) = FrameOf(tx[s].nr, NextFrame(s))
         /\ tx[s].nr \in Numbers /\ tx[s].nr <= MaxPackets
         /\ NextFrame(s) \in FramesOf(tx[s].nr)
<1> DEFINE n == tx[s].nr
           i == NextFrame(s)
<1>1. tx[s] \in TxRecord /\ MaxPackets \in Nat
  BY CanAssumption DEF TypeOK, TxRecord
<1>2. /\ n \in Numbers /\ packets[n].by = s
      /\ tx[s].length = packets[n].length /\ Key(s) = KeyOf(n)
      /\ i \in FramesOf(n) /\ tx[s].count = Offset(i)
      /\ tx[s].begun <=> i > 1
  BY DEF SendingOK
<1>3. n <= MaxPackets
  BY <1>1 DEF TxRecord
<1> DEFINE len == packets[n].length
<1>4. len \in 0 .. 256 /\ i \in 1 .. Frames(len)
  BY <1>1, <1>2 DEF FramesOf, TxRecord
<1>5. i \in Nat /\ i >= 1 /\ Frames(len) \in Nat
  BY SMTT(30), <1>4, FramesOfLength
<1> HIDE DEF n, i, len
<1>6. CASE ~tx[s].begun
  <2>1. i = 1
    BY <1>2, <1>5, <1>6
  <2>2. (len + 5) \div 8 = Frames(len) - 1
    BY <1>4, FramesOfLength
  <2>3. Frame(s) = BeginFrame(s)
    BY <1>6 DEF Frame
  <2>4. BeginFrame(s) = FrameOf(n, 1)
    <3>1. Offset(1) = 0 /\ BytesOf(len, 1) = FirstBytes(len)
      BY DEF Offset, BytesOf
    <3>2. tx[s].length = len
      BY <1>2 DEF len
    <3>3. BeginFrame(s) = [key |-> KeyOf(n), begin |-> TRUE, remain |-> Frames(len) - 1,
                           length |-> len, bytes |-> FirstBytes(len), part |-> <<n, 0>>]
      BY <1>2, <2>2, <3>2 DEF BeginFrame, n
    <3>4. FrameOf(n, 1) = [key |-> KeyOf(n), begin |-> TRUE, remain |-> Frames(len) - 1,
                           length |-> len, bytes |-> FirstBytes(len), part |-> <<n, 0>>]
      BY <3>1 DEF FrameOf, len
    <3>5. QED
      BY <3>3, <3>4
  <2>5. QED
    BY <1>2, <1>3, <2>1, <2>3, <2>4 DEF n, i
<1>7. CASE tx[s].begun
  <2>1. i > 1 /\ i # 1
    BY <1>2, <1>5, <1>7
  <2>2. /\ (len - Offset(i) - BytesOf(len, i) + 7) \div 8 = Frames(len) - i
        /\ BytesOf(len, i) = Smaller(len - Offset(i), 8)
    BY <1>4, <2>1, FrameSpan
  <2>3. Frame(s) = MoreFrame(s)
    BY <1>7 DEF Frame
  <2>4. MoreFrame(s) = [key |-> KeyOf(n), begin |-> FALSE, remain |-> Frames(len) - i,
                        length |-> 0, bytes |-> BytesOf(len, i), part |-> <<n, Offset(i)>>]
    <3>1. tx[s].length - tx[s].count = len - Offset(i)
      BY <1>2 DEF len
    <3>2. QED
      BY <1>2, <2>2, <3>1 DEF MoreFrame, n
  <2>5. FrameOf(n, i) = [key |-> KeyOf(n), begin |-> FALSE, remain |-> Frames(len) - i,
                         length |-> 0, bytes |-> BytesOf(len, i), part |-> <<n, Offset(i)>>]
    BY <2>1 DEF FrameOf, len
  <2>6. QED
    BY <1>2, <1>3, <2>3, <2>4, <2>5 DEF n, i
<1>8. QED
  BY <1>1, <1>6, <1>7

(* A thread that has sent a frame has the next one to send, or is done.         *)
LEMMA SentIs ==
  ASSUME TypeOK, NEW s \in Senders, SendingOK(s), Busy(s)
  PROVE  LET n == tx[s].nr
             i == NextFrame(s)
             t == Sent(s, Frame(s)) IN
         /\ t \in TxRecord
         /\ i < Frames(packets[n].length) =>
              t = [tx[s] EXCEPT !.begun = TRUE, !.count = Offset(i + 1)]
         /\ i = Frames(packets[n].length) => t = NoTx
         /\ Frame(s).part = <<n, tx[s].count>>
         /\ i + 1 > 1 /\ i < Frames(packets[n].length) => (Offset(i + 1) + 14) \div 8 = i + 1
<1> DEFINE n == tx[s].nr
           i == NextFrame(s)
           len == packets[n].length
<1>1. tx[s] \in TxRecord /\ Idents \in Nat \ {0} /\ MaxPackets \in Nat
  BY CanAssumption DEF TypeOK, TxRecord
<1>2. /\ n \in Numbers /\ tx[s].length = len /\ i \in FramesOf(n) /\ tx[s].count = Offset(i)
  BY DEF SendingOK
<1>3. Frame(s) = FrameOf(n, i)
  BY SendsNext
<1>4. len \in 0 .. 256 /\ i \in 1 .. Frames(len) /\ Frames(len) \in 1 .. 33
  BY <1>1, <1>2, FramesOfLength DEF FramesOf, TxRecord
<1> HIDE DEF n, i, len
<1>5. /\ i < Frames(len) => /\ Offset(i) + BytesOf(len, i) = 8 * i - 6
                            /\ 8 * i - 6 < len /\ Offset(i + 1) = 8 * i - 6
      /\ i = Frames(len) => Offset(i) + BytesOf(len, i) = len
  BY <1>4, FrameSpan
<1>6. Frame(s).bytes = BytesOf(len, i) /\ Frame(s).part = <<n, tx[s].count>>
  BY <1>2, <1>3 DEF FrameOf, len
<1>7. CASE i < Frames(len)
  <2>1. tx[s].count + Frame(s).bytes = Offset(i + 1) /\ Offset(i + 1) < tx[s].length
        /\ Offset(i + 1) \in 0 .. 256
    BY <1>2, <1>4, <1>5, <1>6, <1>7
  <2>2. Sent(s, Frame(s)) = [tx[s] EXCEPT !.begun = TRUE, !.count = Offset(i + 1)]
    BY <2>1 DEF Sent
  <2>3. i + 1 \in 1 .. Frames(len) /\ i + 1 > 1 /\ i # Frames(len)
    BY <1>4, <1>7
  <2>4. (Offset(i + 1) + 14) \div 8 = i + 1
    BY <1>4, <2>3, FrameSpan
  <2>5. Sent(s, Frame(s)) \in TxRecord
    <3>1. \A r \in TxRecord : \A c \in 0 .. 256 :
            [r EXCEPT !.begun = TRUE, !.count = c] \in TxRecord
      BY DEF TxRecord
    <3>2. QED
      BY <1>1, <2>1, <2>2, <3>1
  <2>6. QED
    BY <1>6, <2>2, <2>3, <2>4, <2>5 DEF n, i, len
<1>8. CASE i = Frames(len)
  <2>1. tx[s].count + Frame(s).bytes = tx[s].length
    BY <1>2, <1>5, <1>6, <1>8
  <2>2. Sent(s, Frame(s)) = NoTx
    <3>1. ~(tx[s].count + Frame(s).bytes < tx[s].length)
      BY <1>1, <2>1 DEF TxRecord
    <3>2. QED
      BY <3>1 DEF Sent
  <2>3. NoTx \in TxRecord
    BY <1>1 DEF NoTx, TxRecord
  <2>4. ~(i < Frames(len))
    BY <1>4, <1>8
  <2>5. QED
    BY <1>6, <2>2, <2>3, <2>4 DEF n, i, len
<1>9. QED
  BY <1>4, <1>7, <1>8

-----------------------------------------------------------------------------
(* What the receiver's task makes of the frame at the head of the queue.       *)

ElementRecord == [used : BOOLEAN, key : Keys \cup {<<>>}, remain : 0 .. 255, packet : BOOLEAN,
                  length : 0 .. 256, rx_count : 0 .. 256, parts : Seq(Parts)]

Grown(e, f) == [pbuf[e] EXCEPT !.remain = @ - 1, !.rx_count = @ + f.bytes,
                               !.parts = Append(@, f.part)]

(* Element e with frame i of packet n.                                        *)
WithFrame(e, n, i) == IF i = 1 THEN Begun(FrameOf(n, i)) ELSE Grown(e, FrameOf(n, i))

Takes(e, n, i) ==
  /\ \/ e \in Bound(KeyOf(n))
     \/ i = 1 /\ Bound(KeyOf(n)) = {} /\ e \in Unused
  /\ i > 1 => InTurn(e, FrameOf(n, i))
  /\ Keep(e, WithFrame(e, n, i))
  /\ taken' = IF pbuf[e].packet THEN taken ELSE taken + 1

Ignores(n, i) ==
  /\ lossy' \/ (i > 1 /\ Bound(KeyOf(n)) = {})
  /\ UNCHANGED <<pbuf, routed, taken>>

Drops(e, n, i) ==
  /\ i > 1 /\ e \in Bound(KeyOf(n)) /\ ~InTurn(e, FrameOf(n, i))
  /\ PbufFree(e)
  /\ UNCHANGED routed

LEMMA ElementIs ==
  ASSUME CanTypes, NEW e \in 1 .. Elements
  PROVE  /\ pbuf[e] \in ElementRecord
         /\ pbuf[e].used => BuiltOK(pbuf[e]) /\ pbuf[e].rx_count # pbuf[e].length /\ pbuf[e].packet
         /\ ~pbuf[e].used => pbuf[e] = FreeElement /\ ~pbuf[e].packet
<1>1. pbuf[e] \in ElementRecord
  BY ZenonT(30) DEF CanTypes, TypeOK, ElementRecord
<1>2. ElementOK(e)
  BY DEF CanTypes
<1>3. FreeElement.used = FALSE /\ FreeElement.packet = FALSE
  BY DEF FreeElement
<1>4. BuiltOK(pbuf[e]) => pbuf[e].used /\ pbuf[e].packet
  BY DEF BuiltOK
<1>5. QED
  BY <1>1, <1>2, <1>3, <1>4 DEF ElementOK

LEMMA ProcessCases ==
  ASSUME CanTypes, ProcessFrame
  PROVE  \E n \in Numbers : \E i \in FramesOf(n) :
           /\ Head(queue) = FrameOf(n, i) /\ n <= MaxPackets
           /\ \/ Ignores(n, i)
              \/ \E e \in 1 .. Elements : Drops(e, n, i)
              \/ \E e \in 1 .. Elements : Takes(e, n, i)
<1>1. queue \in Seq(FrameRecord) /\ queue # <<>> /\ TypeOK
  BY DEF CanTypes, TypeOK, ProcessFrame, FrameRecord
<1>2. Len(queue) \in Nat \ {0} /\ Head(queue) = queue[1] /\ queue[1] \in FrameRecord
  BY <1>1, TailIs
<1>a. PICK n \in Numbers : \E i \in FramesOf(n) : Head(queue) = FrameOf(n, i)
  BY <1>2 DEF CanTypes, FramesInQueue
<1>b. PICK i \in FramesOf(n) : Head(queue) = FrameOf(n, i)
  BY <1>a
<1>3. Head(queue) = FrameOf(n, i) /\ n <= MaxPackets
  <2>1. Head(queue).part = <<n, Offset(i)>>
    BY <1>b DEF FrameOf
  <2>2. Head(queue).part \in Parts
    BY <1>2 DEF FrameRecord
  <2>3. n \in 1 .. MaxPackets
    BY <2>1, <2>2 DEF Parts
  <2>4. QED
    BY <1>b, <2>3, CanAssumption
<1> DEFINE f == FrameOf(n, i)
<1>4. f.key = KeyOf(n) /\ (f.begin <=> i = 1)
  BY DEF FrameOf
<1>5. i \in Nat /\ i >= 1 /\ (i > 1 <=> i # 1)
  <2>1. packets[n].length \in 0 .. 256
    BY <1>1, PacketIs
  <2>2. QED
    BY <2>1, FramesOfLength DEF FramesOf
<1>6. Begin(f) \/ NoElement(f) \/ NoBuffer(f) \/ Unbound(f) \/ More(f)
  BY <1>3 DEF ProcessFrame
<1> HIDE DEF f
<1>7. CASE Begin(f)
  <2>1. i = 1 /\ Bound(f.key) \cup Unused # {}
    BY <1>4, <1>7 DEF Begin
  <2>2. PICK e : /\ e = ElementFor(f) /\ Keep(e, Begun(f))
                 /\ taken' = IF pbuf[e].packet THEN taken ELSE taken + 1
    BY <1>7 DEF Begin
  <2>3. Bound(f.key) \subseteq 1 .. Elements /\ Unused \subseteq 1 .. Elements
    BY DEF Bound, Unused
  <2>4. e \in Bound(f.key) \/ (Bound(f.key) = {} /\ e \in Unused)
    <3>1. CASE Bound(f.key) # {}
      <4>1. First(Bound(f.key)) \in Bound(f.key)
        BY <2>3, <3>1, FirstIsThere
      <4>2. QED
        BY <2>2, <3>1, <4>1 DEF ElementFor
    <3>2. CASE Bound(f.key) = {}
      <4>1. First(Unused) \in Unused
        BY <2>1, <2>3, <3>2, FirstIsThere
      <4>2. QED
        BY <2>2, <3>2, <4>1 DEF ElementFor
    <3>3. QED
      BY <3>1, <3>2
  <2>5. Takes(e, n, i) /\ e \in 1 .. Elements
    <3>1. f = FrameOf(n, i)
      BY DEF f
    <3>2. WithFrame(e, n, i) = Begun(f) /\ ~(i > 1)
      BY <1>5, <2>1, <3>1 DEF WithFrame
    <3>3. QED
      BY <1>4, <2>1, <2>2, <2>3, <2>4, <3>2 DEF Takes
  <2>6. QED
    BY <1>3, <2>5
<1>8. CASE NoElement(f) \/ NoBuffer(f)
  <2>1. Ignores(n, i)
    BY <1>8 DEF NoElement, NoBuffer, Ignores
  <2>2. QED
    BY <1>3, <2>1
<1>9. CASE Unbound(f)
  <2>1. ~f.begin /\ Bound(f.key) = {} /\ UNCHANGED <<pbuf, routed, taken>>
    BY <1>9 DEF Unbound
  <2>2. i > 1
    BY <1>4, <1>5, <2>1
  <2>3. Ignores(n, i)
    BY <1>4, <2>1, <2>2 DEF Ignores
  <2>4. QED
    BY <1>3, <2>3
<1>10. CASE More(f)
  <2>1. i > 1 /\ Bound(f.key) # {}
    <3>1. ~f.begin /\ Bound(f.key) # {}
      BY <1>10 DEF More
    <3>2. QED
      BY <1>4, <1>5, <3>1
  <2>2. PICK e : /\ e = First(Bound(f.key))
                 /\ \/ InTurn(e, f) /\ Keep(e, Grown(e, f)) /\ UNCHANGED taken
                    \/ ~InTurn(e, f) /\ PbufFree(e) /\ UNCHANGED routed
    BY <1>10 DEF More, Grown
  <2>3. Bound(f.key) \subseteq 1 .. Elements
    BY DEF Bound
  <2>4. e \in Bound(f.key) /\ e \in 1 .. Elements
    BY <2>1, <2>2, <2>3, FirstIsThere
  <2>5. pbuf[e].used /\ pbuf[e].packet
    BY <2>4, ElementIs DEF Bound
  <2>6. CASE InTurn(e, f) /\ Keep(e, Grown(e, f)) /\ UNCHANGED taken
    <3>1. i # 1
      BY <1>5, <2>1
    <3>2. Takes(e, n, i)
      BY <1>4, <2>1, <2>4, <2>5, <2>6, <3>1 DEF Takes, WithFrame, f
    <3>3. QED
      BY <1>3, <2>4, <3>2
  <2>7. CASE ~InTurn(e, f) /\ PbufFree(e) /\ UNCHANGED routed
    <3>1. Drops(e, n, i)
      BY <1>4, <2>1, <2>4, <2>7 DEF Drops, f
    <3>2. QED
      BY <1>3, <2>4, <3>1
  <2>8. QED
    BY <2>2, <2>6, <2>7
<1>11. QED
  BY <1>6, <1>7, <1>8, <1>9, <1>10

(* An element that is begun has the first part of its packet.                  *)
LEMMA BegunOK ==
  ASSUME TypeOK, NEW n \in Numbers, n <= MaxPackets, 1 \in FramesOf(n)
  PROVE  LET b == Begun(FrameOf(n, 1)) IN
         /\ BuiltOK(b) /\ b \in ElementRecord /\ b.key = KeyOf(n)
         /\ b.parts = <<<<n, Offset(1)>>>>
<1> DEFINE f == FrameOf(n, 1)
           len == packets[n].length
<1>1. /\ len \in 0 .. 256 /\ Frames(len) \in 1 .. 33 /\ Offset(1) = 0
      /\ BytesOf(len, 1) = FirstBytes(len) /\ FirstBytes(len) \in 0 .. 2
      /\ Frames(len) = 1 => FirstBytes(len) = len
      /\ Frames(len) > 1 => FirstBytes(len) = 2
  BY PacketIs, FramesOfLength DEF Offset, BytesOf
<1>2. f \in FrameRecord
  BY FrameType
<1>3. /\ f.key = KeyOf(n) /\ f.remain = Frames(len) - 1 /\ f.length = len
      /\ f.bytes = FirstBytes(len) /\ f.part = <<n, Offset(1)>>
  BY <1>1 DEF FrameOf
<1> HIDE DEF f
<1> DEFINE b == Begun(f)
<1>4. /\ b.used = TRUE /\ b.key = KeyOf(n) /\ b.remain = Frames(len) - 1 /\ b.packet = TRUE
      /\ b.length = len /\ b.rx_count = FirstBytes(len) /\ b.parts = <<<<n, Offset(1)>>>>
  BY <1>3 DEF Begun
<1>5. b \in ElementRecord
  BY <1>2 DEF Begun, FrameRecord, ElementRecord
<1> HIDE DEF b, len
<1>6. Len(b.parts) = 1 /\ b.parts[1] = <<n, Offset(1)>> /\ b.parts[1][1] = n
  BY <1>4
<1>7. PartsOK(b.parts)
  BY <1>6 DEF PartsOK
<1>8. /\ 1 <= Frames(len) /\ FirstBytes(len) = IF 1 < Frames(len) THEN 8 * 1 - 6 ELSE len
      /\ \A j \in 1 .. 1 : b.parts[j] = <<n, Offset(j)>>
  BY <1>1, <1>6
<1>9. BuiltOK(b)
  BY <1>4, <1>6, <1>7, <1>8 DEF BuiltOK, len
<1>10. QED
  BY <1>4, <1>5, <1>9 DEF b, f

(* One that has the next frame has one part more, of a packet with the same key.  *)
LEMMA GrownOK ==
  ASSUME CanTypes, NEW n \in Numbers, NEW i \in FramesOf(n), n <= MaxPackets, i > 1,
         NEW e \in 1 .. Elements, e \in Bound(KeyOf(n)), InTurn(e, FrameOf(n, i))
  PROVE  LET b == Grown(e, FrameOf(n, i)) IN
         /\ BuiltOK(b) /\ b \in ElementRecord /\ b.key = KeyOf(n)
         /\ b.parts = Append(pbuf[e].parts, <<n, Offset(i)>>)
         /\ Pure(b.parts) => /\ Pure(pbuf[e].parts) /\ n = pbuf[e].parts[1][1]
                             /\ i = Len(pbuf[e].parts) + 1
<1> DEFINE f == FrameOf(n, i)
           a == pbuf[e]
           len == packets[n].length
<1>1. TypeOK
  BY DEF CanTypes
<1>2. a \in ElementRecord /\ BuiltOK(a) /\ a.key = KeyOf(n)
  BY ElementIs DEF Bound
<1>3. /\ f \in FrameRecord /\ f.remain = Frames(len) - i /\ f.bytes = BytesOf(len, i)
      /\ f.part = <<n, Offset(i)>>
  BY <1>1, FrameType DEF FrameOf
<1>4. f.remain = a.remain - 1 /\ a.rx_count + f.bytes <= a.length
  BY DEF InTurn
<1>5. /\ len \in 0 .. 256 /\ Frames(len) \in 1 .. 33 /\ i \in 1 .. Frames(len)
  BY <1>1, PacketIs, FramesOfLength DEF FramesOf
<1>6. /\ i < Frames(len) => Offset(i) + BytesOf(len, i) = 8 * i - 6
      /\ i = Frames(len) => Offset(i) + BytesOf(len, i) = len
      /\ BytesOf(len, i) \in 0 .. 8
  BY <1>5, FrameSpan
<1>c. Offset(i) = 8 * i - 14
  BY <1>5 DEF Offset
<1>d. a.rx_count \in 0 .. 256 /\ a.length \in 0 .. 256 /\ a.remain \in 0 .. 255
      /\ f.bytes \in 0 .. 8 /\ f.remain \in 0 .. 255
  BY <1>2, <1>3 DEF ElementRecord, FrameRecord
<1> HIDE DEF f, a
<1> DEFINE b == [used |-> a.used, key |-> a.key, remain |-> f.remain, packet |-> a.packet,
                 length |-> a.length, rx_count |-> a.rx_count + f.bytes,
                 parts |-> Append(a.parts, f.part)]
<1>7. Grown(e, f) = b
  <2>1. Grown(e, f) = [a EXCEPT !.remain = @ - 1, !.rx_count = @ + f.bytes,
                                !.parts = Append(@, f.part)]
    BY DEF Grown, a
  <2>2. QED
    BY <1>2, <1>4, <2>1 DEF ElementRecord
<1>8. /\ b.used = a.used /\ b.key = a.key /\ b.remain = f.remain /\ b.packet = a.packet
      /\ b.length = a.length /\ b.rx_count = a.rx_count + f.bytes
      /\ b.parts = Append(a.parts, f.part)
  OBVIOUS
<1>9. a.parts \in Seq(Parts) /\ f.part \in Parts /\ f.part[1] = n
  BY <1>2, <1>3 DEF ElementRecord, FrameRecord
<1> DEFINE m == Len(a.parts)
<1>10. /\ b.parts \in Seq(Parts) /\ Len(b.parts) = m + 1 /\ m \in Nat /\ m >= 1
       /\ \A j \in 1 .. m : b.parts[j] = a.parts[j]
       /\ b.parts[m + 1] = f.part
  BY <1>2, <1>8, <1>9, AppendIs DEF BuiltOK, PartsOK
<1>11. a.rx_count + f.bytes \in 0 .. 256
  <2>1. \A x, z \in 0 .. 256 : \A y \in 0 .. 8 : x + y <= z => x + y \in 0 .. 256
    OBVIOUS
  <2>2. QED
    BY <1>4, <1>d, <2>1
<1>12. a.used \in BOOLEAN /\ a.packet \in BOOLEAN /\ a.key \in Keys \cup {<<>>}
  BY <1>2 DEF ElementRecord
<1>13. b \in ElementRecord
  BY <1>d, <1>10, <1>11, <1>12 DEF ElementRecord
<1> HIDE DEF b, m, len
<1>e. i \in Int /\ m \in Int /\ m >= 1 /\ Frames(len) \in Int /\ i <= Frames(len) /\ i >= 1
  <2>1. m \in Nat /\ m >= 1
    BY <1>10
  <2>2. QED
    BY <1>5, <2>1
<1>14. PartsOK(b.parts)
  <2>1. /\ \A j \in 1 .. m : a.parts[j][1] \in Numbers /\ KeyOf(a.parts[j][1]) = KeyOf(a.parts[1][1])
        /\ KeyOf(n) = KeyOf(a.parts[1][1])
    BY <1>2 DEF BuiltOK, PartsOK, m
  <2>2. ASSUME NEW j \in 1 .. m + 1
        PROVE  b.parts[j][1] \in Numbers /\ KeyOf(b.parts[j][1]) = KeyOf(b.parts[1][1])
    <3>1. b.parts[1] = a.parts[1]
      BY <1>10
    <3>2. CASE j = m + 1
      BY <1>9, <1>10, <2>1, <3>1, <3>2
    <3>3. CASE j \in 1 .. m
      BY <1>10, <2>1, <3>1, <3>3
    <3>4. QED
      BY <1>10, <3>2, <3>3
  <2>3. QED
    BY <1>10, <2>2 DEF PartsOK
<1>15. b.parts[1][1] = a.parts[1][1]
  BY <1>10
<1>16. ASSUME Pure(b.parts)
       PROVE  /\ Pure(a.parts) /\ n = a.parts[1][1] /\ i = m + 1
              /\ m + 1 <= Frames(b.length) /\ b.remain = Frames(b.length) - (m + 1)
              /\ b.rx_count = IF m + 1 < Frames(b.length) THEN 8 * (m + 1) - 6 ELSE b.length
              /\ \A j \in 1 .. m + 1 : b.parts[j] = <<n, Offset(j)>>
  <2>1. \A j \in 1 .. m + 1 : b.parts[j][1] = b.parts[1][1]
    BY <1>10, <1>16 DEF Pure
  <2>2. n = a.parts[1][1]
    <3>1. b.parts[m + 1][1] = b.parts[1][1]
      BY <1>10, <2>1
    <3>2. QED
      BY <1>9, <1>10, <1>15, <3>1
  <2>3. Pure(a.parts)
    <3>1. ASSUME NEW j \in 1 .. m PROVE a.parts[j][1] = a.parts[1][1]
      BY <1>10, <1>15, <2>1
    <3>2. QED
      BY <3>1 DEF Pure, m
  <2>4. /\ a.length = len /\ m <= Frames(len) /\ a.remain = Frames(len) - m
        /\ a.rx_count = IF m < Frames(len) THEN 8 * m - 6 ELSE len
        /\ \A j \in 1 .. m : a.parts[j] = <<n, Offset(j)>>
    BY <1>2, <2>2, <2>3 DEF BuiltOK, m, len
  <2>5. i = m + 1
    <3>1. \A x, y, z \in Int : y - x = (y - z) - 1 => x = z + 1
      OBVIOUS
    <3>2. Frames(len) - i = (Frames(len) - m) - 1
      BY <1>3, <1>4, <2>4
    <3>3. QED
      BY <1>e, <3>1, <3>2
  <2>6. b.length = len /\ b.remain = Frames(len) - (m + 1) /\ m + 1 <= Frames(len)
    BY <1>3, <1>5, <1>8, <1>10, <2>4, <2>5
  <2>7. b.rx_count = 8 * m - 6 + BytesOf(len, i)
    <3>1. m < Frames(len)
      <4>1. \A x, y, z \in Int : x <= y /\ x = z + 1 => z < y
        OBVIOUS
      <4>2. QED
        BY <1>e, <2>5, <4>1
    <3>2. a.rx_count = 8 * m - 6
      BY <2>4, <3>1
    <3>3. QED
      BY <1>3, <1>8, <3>2
  <2>8. b.rx_count = IF m + 1 < Frames(len) THEN 8 * (m + 1) - 6 ELSE len
    <3>1. Offset(i) = 8 * m - 6
      BY <1>c, <1>10, <2>5
    <3>2. CASE i < Frames(len)
      BY <1>5, <1>6, <1>10, <2>5, <2>7, <3>1, <3>2
    <3>3. CASE i = Frames(len)
      BY <1>5, <1>6, <1>10, <2>5, <2>7, <3>1, <3>3
    <3>4. QED
      BY <1>5, <3>2, <3>3
  <2>9. ASSUME NEW j \in 1 .. m + 1 PROVE b.parts[j] = <<n, Offset(j)>>
    <3>1. b.parts[m + 1] = <<n, Offset(m + 1)>>
      BY <1>3, <1>10, <2>5
    <3>2. ASSUME j # m + 1 PROVE j \in 1 .. m
      <4>1. \A x \in Nat : \A y \in 1 .. x + 1 : y # x + 1 => y \in 1 .. x
        OBVIOUS
      <4>2. QED
        BY <1>10, <3>2, <4>1
    <3>3. CASE j # m + 1
      <4>1. j \in 1 .. m
        BY <3>2, <3>3
      <4>2. b.parts[j] = a.parts[j]
        BY <1>10, <4>1
      <4>3. a.parts[j] = <<n, Offset(j)>>
        BY <2>4, <4>1
      <4>4. QED
        BY <4>2, <4>3
    <3>4. QED
      BY <3>1, <3>3
  <2>10. QED
    BY <2>2, <2>3, <2>5, <2>6, <2>8, <2>9
<1>17. b.used /\ b.packet /\ b.key = KeyOf(b.parts[1][1]) /\ b.length = packets[b.parts[1][1]].length
  BY <1>2, <1>8, <1>15 DEF BuiltOK
<1>18. BuiltOK(b)
  BY <1>10, <1>14, <1>15, <1>16, <1>17 DEF BuiltOK
<1>19. b.key = KeyOf(n) /\ b.parts = Append(a.parts, <<n, Offset(i)>>)
  BY <1>2, <1>3, <1>8
<1>20. QED
  BY <1>7, <1>13, <1>16, <1>18, <1>19 DEF a, f, m

-----------------------------------------------------------------------------
(* Types, numbers and buffers: every step.                                     *)

LEMMA SendingStays ==
  ASSUME PacketsKept, NEW t, SendingOK(t), tx'[t] = tx[t]
  PROVE  SendingOK(t)'
<1>1. (Busy(t) <=> Busy(t)') /\ NextFrame(t)' = NextFrame(t) /\ Key(t)' = Key(t)
  BY DEF Busy, NextFrame, Key
<1>2. CASE ~Busy(t)
  BY <1>1, <1>2 DEF SendingOK
<1>3. CASE Busy(t)
  <2>1. tx[t].nr \in Numbers
    BY <1>3 DEF SendingOK
  <2>2. /\ tx[t].nr \in Numbers' /\ packets'[tx[t].nr] = packets[tx[t].nr]
        /\ KeyOf(tx[t].nr)' = KeyOf(tx[t].nr) /\ FramesOf(tx[t].nr)' = FramesOf(tx[t].nr)
    BY <2>1, PacketsSame DEF PacketsKept
  <2>3. /\ tx[t].nr \in Numbers /\ packets[tx[t].nr].by = t
        /\ tx[t].length = packets[tx[t].nr].length /\ Key(t) = KeyOf(tx[t].nr)
        /\ NextFrame(t) \in FramesOf(tx[t].nr) /\ tx[t].count = Offset(NextFrame(t))
        /\ tx[t].begun <=> NextFrame(t) > 1
    BY <1>3 DEF SendingOK
  <2>4. /\ tx'[t].nr \in Numbers' /\ packets'[tx'[t].nr].by = t
        /\ tx'[t].length = packets'[tx'[t].nr].length /\ Key(t)' = KeyOf(tx[t].nr)'
        /\ NextFrame(t)' \in FramesOf(tx[t].nr)' /\ tx'[t].count = Offset(NextFrame(t)')
        /\ tx'[t].begun <=> NextFrame(t)' > 1
    BY <1>1, <2>2, <2>3
  <2>5. KeyOf(tx[t].nr)' = <<Node[packets'[tx'[t].nr].by], packets'[tx'[t].nr].ord % Idents>>
        /\ FramesOf(tx[t].nr)' = 1 .. Frames(packets'[tx'[t].nr].length)
    BY DEF KeyOf, FramesOf
  <2>6. QED
    BY <2>4 DEF SendingOK, KeyOf, FramesOf
<1>4. QED
  BY <1>2, <1>3

LEMMA ElementStays ==
  ASSUME TypeOK, PacketsKept, NEW e, ElementOK(e), pbuf'[e] = pbuf[e]
  PROVE  ElementOK(e)'
<1>1. CASE pbuf[e] = FreeElement
  BY <1>1 DEF ElementOK, FreeElement
<1>2. CASE BuiltOK(pbuf[e]) /\ pbuf[e].rx_count # pbuf[e].length
  <2>1. PICK b : b = pbuf[e]
    OBVIOUS
  <2>2. BuiltOK(b)'
    BY <1>2, <2>1, PartsStay
  <2>3. QED
    BY <1>2, <2>1, <2>2 DEF ElementOK
<1>3. QED
  BY <1>1, <1>2 DEF ElementOK

LEMMA FramesStay ==
  ASSUME PacketsKept, FramesInQueue, queue' = queue
  PROVE  FramesInQueue'
BY PacketsSame DEF FramesInQueue

PacketRecord == [length : Lengths, by : Senders, ord : Nat]

LEMMA OneCounted ==
  ASSUME NEW p \in Seq(PacketRecord), NEW x \in PacketRecord,
         x.ord = Cardinality(OfNodeIn(p, Node[x.by])), InOrderSent(p)
  PROVE  LET q == Append(p, x) IN
         /\ InOrderSent(q) /\ Cardinality(OfNodeIn(p, Node[x.by])) \in Nat
         /\ Cardinality(OfNodeIn(q, Node[x.by])) = Cardinality(OfNodeIn(p, Node[x.by])) + 1
         /\ \A c : c # Node[x.by] => OfNodeIn(q, c) = OfNodeIn(p, c)
<1> DEFINE q == Append(p, x)
           n == Len(p) + 1
           d == Node[x.by]
<1>1. /\ Len(p) \in Nat /\ Len(q) = n /\ q[n] = x
      /\ \A k \in 1 .. Len(p) : q[k] = p[k] /\ p[k] \in PacketRecord /\ k < n
  BY AppendIs, ElementOfSeq
<1> HIDE DEF q
<1>2. 1 .. Len(q) = (1 .. Len(p)) \cup {n} /\ n \notin 1 .. Len(p)
  BY <1>1
<1>3. OfNodeIn(q, d) = OfNodeIn(p, d) \cup {n} /\ n \notin OfNodeIn(p, d)
  BY <1>1, <1>2 DEF OfNodeIn
<1>4. \A c : c # d => OfNodeIn(q, c) = OfNodeIn(p, c)
  BY <1>1, <1>2 DEF OfNodeIn
<1>5. IsFiniteSet(OfNodeIn(p, d))
  <2>1. OfNodeIn(p, d) \subseteq 1 .. Len(p)
    BY DEF OfNodeIn
  <2>2. IsFiniteSet(1 .. Len(p))
    BY <1>1, FS_Interval
  <2>3. QED
    BY <2>1, <2>2, FS_Subset
<1>6. Cardinality(OfNodeIn(p, d)) \in Nat
  BY <1>5, FS_CardinalityType
<1>7. Cardinality(OfNodeIn(q, d)) = Cardinality(OfNodeIn(p, d)) + 1
  BY <1>3, <1>5, FS_AddElement
<1>8. ASSUME NEW k \in 1 .. Len(q)
      PROVE  q[k].ord < Cardinality(OfNodeIn(q, Node[q[k].by]))
  <2>1. CASE k = n
    BY <1>1, <1>6, <1>7, <2>1
  <2>2. CASE k \in 1 .. Len(p) /\ Node[p[k].by] = d
    <3>1. q[k] = p[k] /\ p[k].ord < Cardinality(OfNodeIn(p, d)) /\ p[k].ord \in Nat
      BY <1>1, <2>2 DEF InOrderSent, PacketRecord
    <3>2. QED
      BY <1>6, <1>7, <2>2, <3>1
  <2>3. CASE k \in 1 .. Len(p) /\ Node[p[k].by] # d
    <3>1. q[k] = p[k] /\ p[k].ord < Cardinality(OfNodeIn(p, Node[p[k].by]))
      BY <1>1, <2>3 DEF InOrderSent
    <3>2. QED
      BY <1>4, <2>3, <3>1
  <2>4. QED
    BY <1>2, <2>1, <2>2, <2>3
<1>9. ASSUME NEW m \in 1 .. Len(q), NEW k \in 1 .. Len(q), m < k, Node[q[m].by] = Node[q[k].by]
      PROVE  q[m].ord < q[k].ord
  <2>1. m \in 1 .. Len(p)
    BY <1>1, <1>9
  <2>2. CASE k = n
    BY <1>1, <1>9, <2>1, <2>2 DEF InOrderSent
  <2>3. CASE k \in 1 .. Len(p)
    BY <1>1, <1>9, <2>1, <2>3 DEF InOrderSent
  <2>4. QED
    BY <1>2, <2>2, <2>3
<1>10. InOrderSent(q)
  BY <1>8, <1>9 DEF InOrderSent
<1>11. QED
  BY <1>4, <1>6, <1>7, <1>10 DEF q

LEMMA OfNodeFinite ==
  ASSUME TypeOK, NEW d
  PROVE  Cardinality(OfNode(d)) \in Nat
<1>1. Len(packets) \in Nat
  BY LenProperties DEF TypeOK
<1>2. IsFiniteSet(1 .. Len(packets)) /\ OfNode(d) \subseteq 1 .. Len(packets)
  BY <1>1, FS_Interval DEF OfNode, OfNodeIn
<1>3. IsFiniteSet(OfNode(d))
  BY <1>2, FS_Subset
<1>4. QED
  BY <1>3, FS_CardinalityType

LEMMA IdentTypes ==
  ASSUME CanTypes, NEW s \in Senders, GetIdent(s)
  PROVE  CanTypes'
<1> DEFINE n == Len(packets) + 1
           d == Node[s]
           id == csp_can_id[d]
<1>1. TypeOK
  BY DEF CanTypes
<1>2. PICK len \in Lengths :
        /\ tx' = [tx EXCEPT ![s] = [NoTx EXCEPT !.nr = n, !.length = len, !.ident = id]]
        /\ packets' = Append(packets, [length |-> len, by |-> s, ord |-> Cardinality(OfNode(d))])
  BY DEF GetIdent, OfNode, OfNodeIn
<1>3. /\ csp_can_id' = [csp_can_id EXCEPT ![d] = NextIdent(@)]
      /\ UNCHANGED <<queue, pbuf, routed, taken, faults>>
      /\ Len(packets) < MaxPackets /\ lossy' \in BOOLEAN
  BY <1>1 DEF GetIdent, TypeOK
<1>4. Len(packets) \in Nat /\ Cardinality(OfNode(d)) \in Nat
  BY <1>1, OfNodeFinite, LenProperties DEF TypeOK
<1>5. /\ packets' \in Seq([length : Lengths, by : Senders, ord : Nat])
      /\ Len(packets') = n /\ \A k \in 1 .. Len(packets) : packets'[k] = packets[k]
      /\ packets'[n] = [length |-> len, by |-> s, ord |-> Cardinality(OfNode(d))]
  <2>1. [length |-> len, by |-> s, ord |-> Cardinality(OfNode(d))]
          \in [length : Lengths, by : Senders, ord : Nat]
    BY <1>4
  <2>2. packets \in Seq([length : Lengths, by : Senders, ord : Nat])
    BY <1>1 DEF TypeOK
  <2>3. QED
    BY <1>2, <2>1, <2>2, AppendIs
<1>6. PacketsKept
  BY <1>1, PacketsStay DEF Next
<1>7. Idents \in Nat \ {0} /\ MaxPackets \in Nat /\ len \in 0 .. 256 /\ d \in Nodes
  BY CanAssumption DEF Nodes
<1>8. id \in 0 .. Idents - 1
  BY <1>1, <1>7 DEF TypeOK
<1>9. NextIdent(id) \in 0 .. Idents - 1
  <2>1. id + 1 \in Int
    BY <1>7, <1>8
  <2>2. \A a \in Int : a % Idents \in 0 .. Idents - 1
    BY <1>7, Remainder
  <2>3. QED
    BY <2>1, <2>2 DEF NextIdent
<1>10. tx'[s] = [nr |-> n, length |-> len, ident |-> id, begun |-> FALSE, count |-> 0]
       /\ \A t \in Senders \ {s} : tx'[t] = tx[t]
  BY ZenonT(30), <1>1, <1>2 DEF TypeOK, NoTx
<1>11. TypeOK'
  <2>1. [nr |-> n, length |-> len, ident |-> id, begun |-> FALSE, count |-> 0] \in TxRecord
    BY <1>3, <1>4, <1>7, <1>8 DEF TxRecord
  <2>2. tx \in [Senders -> TxRecord]
    BY <1>1 DEF TypeOK, TxRecord
  <2>3. tx' \in [Senders -> TxRecord]
    BY <1>2, <2>1, <2>2 DEF NoTx
  <2>4. csp_can_id' \in [Nodes -> 0 .. Idents - 1]
    BY <1>1, <1>3, <1>9 DEF TypeOK
  <2>5. QED
    BY <1>1, <1>3, <1>5, <2>3, <2>4 DEF TypeOK, TxRecord
<1>12. Numbers' = Numbers \cup {n} /\ n \notin Numbers
  BY <1>4, <1>5 DEF Numbers
<1>15. Numbered'
  <2>1. InOrderSent(packets) /\ \A c \in Nodes : csp_can_id[c] = Cardinality(OfNode(c)) % Idents
    BY DEF CanTypes, Numbered
  <2>2. PICK x \in PacketRecord :
          packets' = Append(packets, x) /\ Node[x.by] = d /\ x.ord = Cardinality(OfNodeIn(packets, d))
    BY <1>2, <1>4 DEF PacketRecord, OfNode
  <2>3. packets \in Seq(PacketRecord)
    BY <1>1 DEF TypeOK, PacketRecord
  <2>4. /\ InOrderSent(packets')
        /\ Cardinality(OfNodeIn(packets', d)) = Cardinality(OfNodeIn(packets, d)) + 1
        /\ \A c : c # d => OfNodeIn(packets', c) = OfNodeIn(packets, c)
    BY <2>1, <2>2, <2>3, OneCounted
  <2>5. ASSUME NEW c \in Nodes
        PROVE  csp_can_id'[c] = Cardinality(OfNodeIn(packets', c)) % Idents
    <3>1. csp_can_id \in [Nodes -> 0 .. Idents - 1]
      BY <1>1 DEF TypeOK
    <3>2. CASE c # d
      <4>1. csp_can_id'[c] = csp_can_id[c] /\ OfNodeIn(packets', c) = OfNode(c)
        BY <1>3, <2>4, <3>1, <3>2 DEF OfNode
      <4>2. QED
        BY <2>1, <4>1
    <3>3. CASE c = d
      <4>1. csp_can_id'[d] = (id + 1) % Idents
        BY <1>3, <1>7, <3>1 DEF NextIdent
      <4>2. id = Cardinality(OfNode(d)) % Idents
        BY <1>7, <2>1
      <4>3. \A a \in Int : ((a % Idents) + 1) % Idents = (a + 1) % Idents
        BY <1>7, NextRemainder
      <4>4. Cardinality(OfNode(d)) \in Int
        BY <1>4
      <4>5. csp_can_id'[d] = (Cardinality(OfNode(d)) + 1) % Idents
        BY <4>1, <4>2, <4>3, <4>4
      <4>6. QED
        BY <2>4, <3>3, <4>5 DEF OfNode
    <3>4. QED
      BY <3>2, <3>3
  <2>6. QED
    BY <2>4, <2>5 DEF Numbered, OfNode
<1>16. SendingOK(s)'
  <2>1. n \in Numbers' /\ tx'[s].nr = n /\ packets'[n].by = s /\ tx'[s].length = packets'[n].length
        /\ packets'[n].ord = Cardinality(OfNode(d)) /\ packets'[n].length = len
    BY <1>5, <1>10, <1>12
  <2>2. id = Cardinality(OfNode(d)) % Idents
    BY <1>7 DEF CanTypes, Numbered
  <2>3. Key(s)' = <<d, id>> /\ <<Node[packets'[n].by], packets'[n].ord % Idents>> = <<d, id>>
    BY <1>10, <2>1, <2>2 DEF Key
  <2>4. NextFrame(s)' = 1 /\ tx'[s].count = Offset(1) /\ ~tx'[s].begun
    BY <1>10 DEF NextFrame, Offset
  <2>5. 1 \in 1 .. Frames(packets'[n].length)
    <3>1. Frames(len) \in 1 .. 33 /\ 1 \in 1 .. Frames(len)
      BY <1>7, FramesOfLength
    <3>2. QED
      BY <2>1, <3>1
  <2>6. QED
    BY <2>1, <2>3, <2>4, <2>5 DEF SendingOK, KeyOf, FramesOf
<1>17. \A t \in Senders : SendingOK(t)'
  <2>1. ASSUME NEW t \in Senders \ {s} PROVE SendingOK(t)'
    BY <1>6, <1>10, SendingStays DEF CanTypes
  <2>2. QED
    BY <1>16, <2>1
<1>18. FramesInQueue'
  BY <1>3, <1>6, FramesStay DEF CanTypes
<1>19. \A e \in 1 .. Elements : ElementOK(e)'
  BY <1>1, <1>3, <1>6, ElementStays DEF CanTypes
<1>20. QED
  BY <1>11, <1>15, <1>17, <1>18, <1>19 DEF CanTypes

LEMMA SendTypes ==
  ASSUME CanTypes, NEW s \in Senders, SendFrame(s)
  PROVE  CanTypes'
<1> DEFINE n == tx[s].nr
           i == NextFrame(s)
           len == packets[n].length
           t == Sent(s, Frame(s))
<1>1. TypeOK /\ SendingOK(s) /\ Busy(s)
  BY DEF CanTypes, SendFrame
<1>2. /\ Frame(s) = FrameOf(n, i) /\ n \in Numbers /\ n <= MaxPackets /\ i \in FramesOf(n)
  BY <1>1, SendsNext
<1>3. /\ t \in TxRecord /\ Frame(s).part = <<n, tx[s].count>>
      /\ i < Frames(len) => t = [tx[s] EXCEPT !.begun = TRUE, !.count = Offset(i + 1)]
      /\ i = Frames(len) => t = NoTx
      /\ i + 1 > 1 /\ i < Frames(len) => (Offset(i + 1) + 14) \div 8 = i + 1
  BY <1>1, SentIs
<1>4. len \in 0 .. 256 /\ Frames(len) \in 1 .. 33 /\ i \in 1 .. Frames(len)
  BY <1>1, <1>2, PacketIs, FramesOfLength DEF FramesOf
<1>5. /\ UNCHANGED <<csp_can_id, pbuf, routed, packets, taken>>
      /\ tx' = [tx EXCEPT ![s] = t] /\ lossy' \in BOOLEAN /\ faults' \in 0 .. MaxFaults
      /\ \/ queue' = queue
         \/ queue' = Append(queue, Frame(s)) /\ Len(queue) < QueueSize
  <2>1. MaxFaults \in Nat
    BY CanAssumption
  <2>2. lossy \in BOOLEAN /\ faults \in 0 .. MaxFaults
    BY <1>1 DEF TypeOK
  <2>3. \/ UNCHANGED <<faults, lossy>> /\ queue' = Append(queue, Frame(s)) /\ Len(queue) < QueueSize
        \/ lossy' = TRUE /\ UNCHANGED <<queue, faults>>
        \/ faults < MaxFaults /\ faults' = faults + 1 /\ lossy' = TRUE /\ UNCHANGED queue
    BY DEF SendFrame
  <2>4. faults' \in 0 .. MaxFaults
    BY <2>1, <2>2, <2>3
  <2>5. QED
    BY <2>2, <2>3, <2>4 DEF SendFrame
<1>6. PacketsKept
  BY <1>5 DEF PacketsKept, Numbers
<1>7. tx \in [Senders -> TxRecord] /\ tx' \in [Senders -> TxRecord] /\ tx'[s] = t
      /\ \A r \in Senders \ {s} : tx'[r] = tx[r]
  BY SMTT(30), <1>1, <1>3, <1>5 DEF TypeOK, TxRecord
<1>8. /\ queue' \in Seq(FrameRecord) /\ Len(queue') <= QueueSize
      /\ FramesInQueue'
  <2>1. queue \in Seq(FrameRecord) /\ Len(queue) \in Nat /\ Len(queue) <= QueueSize
    BY <1>1, LenProperties DEF TypeOK, FrameRecord
  <2>2. CASE queue' = queue
    BY <1>6, <2>1, <2>2, FramesStay DEF CanTypes
  <2>3. CASE queue' = Append(queue, Frame(s)) /\ Len(queue) < QueueSize
    <3>1. Frame(s) \in FrameRecord
      BY <1>1, <1>2, FrameType
    <3>2. /\ queue' \in Seq(FrameRecord) /\ Len(queue') = Len(queue) + 1
          /\ \A k \in 1 .. Len(queue) : queue'[k] = queue[k]
          /\ queue'[Len(queue) + 1] = FrameOf(n, i)
      BY <1>2, <2>1, <2>3, <3>1, AppendIs
    <3>3. QueueSize \in Nat
      BY CanAssumption
    <3>4. ASSUME NEW q \in 1 .. Len(queue')
          PROVE  \E m \in Numbers' : \E j \in FramesOf(m)' : queue'[q] = FrameOf(m, j)'
      <4>1. \A m \in Numbers : /\ m \in Numbers' /\ FramesOf(m)' = FramesOf(m)
                               /\ \A j : FrameOf(m, j)' = FrameOf(m, j)
        BY <1>6, PacketsSame
      <4>2. CASE q \in 1 .. Len(queue)
        <5>1. \E m \in Numbers : \E j \in FramesOf(m) : queue'[q] = FrameOf(m, j)
          BY <3>2, <4>2 DEF CanTypes, FramesInQueue
        <5>2. QED
          BY <4>1, <5>1
      <4>3. CASE q = Len(queue) + 1
        <5>1. \E m \in Numbers : \E j \in FramesOf(m) : queue'[q] = FrameOf(m, j)
          BY <1>2, <3>2, <4>3
        <5>2. QED
          BY <4>1, <5>1
      <4>4. QED
        BY <2>1, <3>2, <4>2, <4>3
    <3>5. QED
      BY <2>1, <2>3, <3>2, <3>3, <3>4 DEF FramesInQueue
  <2>4. QED
    BY <1>5, <2>2, <2>3
<1>9. TypeOK'
  BY <1>1, <1>5, <1>7, <1>8 DEF TypeOK, TxRecord, FrameRecord
<1>10. Numbered'
  BY <1>5 DEF CanTypes, Numbered, OfNode
<1>11. SendingOK(s)'
  <2>1. CASE i = Frames(len)
    <3>1. ~(Busy(s)')
      BY <1>3, <1>7, <2>1 DEF Busy, NoTx
    <3>2. QED
      BY <3>1 DEF SendingOK
  <2>2. CASE i < Frames(len)
    <3>1. t = [tx[s] EXCEPT !.begun = TRUE, !.count = Offset(i + 1)]
      BY <1>3, <2>2
    <3>2. /\ t.nr = n /\ t.length = tx[s].length /\ t.ident = tx[s].ident
          /\ t.begun = TRUE /\ t.count = Offset(i + 1)
      BY <1>7, <3>1 DEF TxRecord
    <3>3. NextFrame(s)' = i + 1
      <4>1. (Offset(i + 1) + 14) \div 8 = i + 1
        BY SMTT(30), <1>3, <1>4, <2>2
      <4>2. QED
        BY <1>7, <3>2, <4>1 DEF NextFrame
    <3>4. i + 1 \in FramesOf(n) /\ i + 1 > 1
      BY <1>4, <2>2 DEF FramesOf
    <3>5. /\ packets[n].by = s /\ tx[s].length = len /\ Key(s) = KeyOf(n)
      BY <1>1 DEF SendingOK
    <3>6. Key(s)' = KeyOf(n)
      BY <1>7, <3>2, <3>5 DEF Key
    <3>7. /\ tx'[s].nr = n /\ n \in Numbers /\ packets[n].by = s /\ tx'[s].length = len
          /\ NextFrame(s)' \in FramesOf(n) /\ tx'[s].count = Offset(NextFrame(s)')
          /\ tx'[s].begun /\ NextFrame(s)' > 1
      BY <1>2, <1>7, <3>2, <3>3, <3>4, <3>5
    <3>8. Key(s)' = <<Node[packets'[tx'[s].nr].by], packets'[tx'[s].nr].ord % Idents>>
          /\ Numbers' = Numbers
          /\ FramesOf(n) = 1 .. Frames(packets'[tx'[s].nr].length) /\ packets' = packets
      BY <1>5, <3>6, <3>7 DEF KeyOf, FramesOf, Numbers
    <3>9. QED
      BY <3>7, <3>8 DEF SendingOK, KeyOf, FramesOf
  <2>3. QED
    BY <1>4, <2>1, <2>2
<1>12. \A r \in Senders : SendingOK(r)'
  <2>1. ASSUME NEW r \in Senders \ {s} PROVE SendingOK(r)'
    BY <1>6, <1>7, SendingStays DEF CanTypes
  <2>2. QED
    BY <1>11, <2>1
<1>13. \A e \in 1 .. Elements : ElementOK(e)'
  BY <1>1, <1>5, <1>6, ElementStays DEF CanTypes
<1>14. QED
  BY <1>8, <1>9, <1>10, <1>12, <1>13 DEF CanTypes

Filled(p) == {e \in 1 .. Elements : p[e].packet}

LEMMA FilledCount ==
  ASSUME NEW p \in [1 .. Elements -> ElementRecord], NEW e \in 1 .. Elements, NEW b \in ElementRecord
  PROVE  LET q == [p EXCEPT ![e] = b] IN
         /\ Cardinality(Filled(p)) \in Nat
         /\ (b.packet <=> p[e].packet) => Cardinality(Filled(q)) = Cardinality(Filled(p))
         /\ b.packet /\ ~p[e].packet => Cardinality(Filled(q)) = Cardinality(Filled(p)) + 1
         /\ ~b.packet /\ p[e].packet => /\ Cardinality(Filled(q)) = Cardinality(Filled(p)) - 1
                                        /\ Cardinality(Filled(p)) > 0
<1> DEFINE q == [p EXCEPT ![e] = b]
<1>1. q[e] = b /\ \A d \in 1 .. Elements : d # e => q[d] = p[d]
  OBVIOUS
<1> HIDE DEF q
<1>2. IsFiniteSet(1 .. Elements)
  BY CanAssumption, FS_Interval
<1>3. Filled(p) \subseteq 1 .. Elements /\ Filled(q) \subseteq 1 .. Elements
  BY DEF Filled
<1>4. IsFiniteSet(Filled(p)) /\ IsFiniteSet(Filled(q))
  BY <1>2, <1>3, FS_Subset
<1>5. Cardinality(Filled(p)) \in Nat /\ Cardinality(Filled(q)) \in Nat
  BY <1>4, FS_CardinalityType
<1>6. CASE b.packet <=> p[e].packet
  <2>1. Filled(q) = Filled(p)
    BY <1>1, <1>6 DEF Filled
  <2>2. QED
    BY <1>5, <1>6, <2>1 DEF q
<1>7. CASE b.packet /\ ~p[e].packet
  <2>1. Filled(q) = Filled(p) \cup {e} /\ e \notin Filled(p)
    BY <1>1, <1>7 DEF Filled
  <2>2. Cardinality(Filled(q)) = Cardinality(Filled(p)) + 1
    BY <1>4, <2>1, FS_AddElement
  <2>3. QED
    BY <1>5, <1>7, <2>2 DEF q
<1>8. CASE ~b.packet /\ p[e].packet
  <2>1. Filled(p) = Filled(q) \cup {e} /\ e \notin Filled(q)
    BY <1>1, <1>8 DEF Filled
  <2>2. Cardinality(Filled(p)) = Cardinality(Filled(q)) + 1
    BY <1>4, <2>1, FS_AddElement
  <2>3. /\ Cardinality(Filled(q)) = Cardinality(Filled(p)) - 1
        /\ Cardinality(Filled(p)) > 0
    BY <1>5, <2>2
  <2>4. QED
    BY <1>5, <1>8, <2>3 DEF q
<1>9. b.packet \in BOOLEAN /\ p[e].packet \in BOOLEAN
  BY DEF ElementRecord
<1>10. QED
  BY <1>6, <1>7, <1>8, <1>9

LEMMA OneElement ==
  ASSUME CanTypes, NEW e \in 1 .. Elements, NEW b \in ElementRecord, packets' = packets,
         b = FreeElement \/ (BuiltOK(b) /\ b.rx_count # b.length),
         pbuf' = [pbuf EXCEPT ![e] = b]
  PROVE  /\ pbuf' \in [1 .. Elements -> ElementRecord]
         /\ \A d \in 1 .. Elements : ElementOK(d)'
<1>1. TypeOK /\ PacketsKept
  BY DEF CanTypes, PacketsKept, Numbers
<1>2. pbuf \in [1 .. Elements -> ElementRecord]
  BY <1>1 DEF TypeOK, ElementRecord
<1>3. pbuf' \in [1 .. Elements -> ElementRecord] /\ pbuf'[e] = b
      /\ \A d \in 1 .. Elements : d # e => pbuf'[d] = pbuf[d]
  BY <1>2
<1>4. ElementOK(e)'
  <2>1. CASE b = FreeElement
    BY <1>3, <2>1 DEF ElementOK, FreeElement
  <2>2. CASE BuiltOK(b) /\ b.rx_count # b.length
    <3>1. BuiltOK(b)'
      BY <1>1, <2>2, PartsStay
    <3>2. QED
      BY <1>3, <2>2, <3>1 DEF ElementOK
  <2>3. QED
    BY <2>1, <2>2
<1>5. ASSUME NEW d \in 1 .. Elements, d # e PROVE ElementOK(d)'
  BY <1>1, <1>3, <1>5, ElementStays DEF CanTypes
<1>6. QED
  BY <1>3, <1>4, <1>5

LEMMA FreeIsElement == FreeElement \in ElementRecord /\ FreeElement.packet = FALSE
<1>1. <<>> \in Seq(Parts)
  BY EmptySeq
<1>2. QED
  BY <1>1 DEF FreeElement, ElementRecord

(* The element f is put in has it, as it should be.                           *)
LEMMA TakesOK ==
  ASSUME CanTypes, NEW n \in Numbers, NEW i \in FramesOf(n), n <= MaxPackets,
         NEW e \in 1 .. Elements, Takes(e, n, i)
  PROVE  LET b == WithFrame(e, n, i) IN
         /\ BuiltOK(b) /\ b \in ElementRecord /\ b.key = KeyOf(n)
         /\ i = 1 => b.parts = <<<<n, Offset(1)>>>>
         /\ i > 1 => /\ e \in Bound(KeyOf(n))
                     /\ b.parts = Append(pbuf[e].parts, <<n, Offset(i)>>)
                     /\ Pure(b.parts) => /\ Pure(pbuf[e].parts) /\ n = pbuf[e].parts[1][1]
                                         /\ i = Len(pbuf[e].parts) + 1
         /\ i = 1 \/ i > 1
<1>1. TypeOK
  BY DEF CanTypes
<1>2. i = 1 \/ (i > 1 /\ i # 1)
  <2>1. packets[n].length \in 0 .. 256
    BY <1>1, PacketIs
  <2>2. QED
    BY <2>1, FramesOfLength DEF FramesOf
<1>3. CASE i = 1
  <2>1. LET b == Begun(FrameOf(n, 1)) IN
         /\ BuiltOK(b) /\ b \in ElementRecord /\ b.key = KeyOf(n)
         /\ b.parts = <<<<n, Offset(1)>>>>
    BY <1>1, <1>3, BegunOK
  <2>2. WithFrame(e, n, i) = Begun(FrameOf(n, 1)) /\ ~(i > 1)
    BY <1>3 DEF WithFrame
  <2>3. QED
    BY <1>3, <2>1, <2>2
<1>4. CASE i > 1 /\ i # 1
  <2>1. e \in Bound(KeyOf(n)) /\ InTurn(e, FrameOf(n, i))
    BY <1>4 DEF Takes
  <2>2. WithFrame(e, n, i) = Grown(e, FrameOf(n, i))
    BY <1>4 DEF WithFrame
  <2>3. LET b == Grown(e, FrameOf(n, i)) IN
         /\ BuiltOK(b) /\ b \in ElementRecord /\ b.key = KeyOf(n)
         /\ b.parts = Append(pbuf[e].parts, <<n, Offset(i)>>)
         /\ Pure(b.parts) => /\ Pure(pbuf[e].parts) /\ n = pbuf[e].parts[1][1]
                             /\ i = Len(pbuf[e].parts) + 1
    BY <1>4, <2>1, GrownOK
  <2>4. QED
    BY <1>4, <2>1, <2>2, <2>3
<1>5. QED
  BY <1>2, <1>3, <1>4

RoutedRecord == [length : 0 .. 256, parts : Seq(Parts)]

(* The receiver's task, and its cleanup: one element at most, and a packet more   *)
(* at most.                                                                  *)
LEMMA ReceiveTypes ==
  ASSUME CanTypes, BuffersKept, ProcessFrame \/ Cleanup
  PROVE  CanTypes' /\ BuffersKept'
<1>1. TypeOK /\ UNCHANGED <<csp_can_id, tx, packets>>
  BY DEF CanTypes, ProcessFrame, Cleanup
<1>2. PacketsKept
  BY <1>1 DEF PacketsKept, Numbers
<1>3. /\ pbuf \in [1 .. Elements -> ElementRecord] /\ routed \in Seq(RoutedRecord)
      /\ Len(routed) \in Nat /\ taken \in Nat /\ lossy \in BOOLEAN /\ faults \in 0 .. MaxFaults
      /\ taken = Len(routed) + Cardinality(Filled(pbuf))
  BY <1>1, LenProperties DEF TypeOK, ElementRecord, RoutedRecord, BuffersKept, Filled
<1>4. Numbered' /\ \A s \in Senders : SendingOK(s)'
  BY <1>1, <1>2, SendingStays DEF CanTypes, Numbered, OfNode
<1>5. /\ queue' \in Seq(FrameRecord) /\ Len(queue') <= QueueSize /\ FramesInQueue'
  <2>1. queue \in Seq(FrameRecord) /\ Len(queue) \in Nat /\ Len(queue) <= QueueSize
        /\ QueueSize \in Nat
    BY <1>1, LenProperties, CanAssumption DEF TypeOK, FrameRecord
  <2>2. CASE Cleanup
    <3>1. queue' = queue
      BY <2>2 DEF Cleanup
    <3>2. QED
      BY <1>2, <2>1, <3>1, FramesStay DEF CanTypes
  <2>3. CASE ProcessFrame
    <3>1. queue # <<>> /\ queue' = Tail(queue)
      BY <2>3 DEF ProcessFrame
    <3>2. /\ queue' \in Seq(FrameRecord) /\ Len(queue') = Len(queue) - 1
          /\ \A k \in 1 .. Len(queue) - 1 : queue'[k] = queue[k + 1]
      BY <2>1, <3>1, TailIs
    <3>3. ASSUME NEW q \in 1 .. Len(queue')
          PROVE  \E m \in Numbers' : \E j \in FramesOf(m)' : queue'[q] = FrameOf(m, j)'
      <4>1. queue'[q] = queue[q + 1] /\ q + 1 \in 1 .. Len(queue)
        BY <2>1, <3>2
      <4>2. \E m \in Numbers : \E j \in FramesOf(m) : queue'[q] = FrameOf(m, j)
        BY <4>1 DEF CanTypes, FramesInQueue
      <4>3. \A m \in Numbers : /\ m \in Numbers' /\ FramesOf(m)' = FramesOf(m)
                               /\ \A j : FrameOf(m, j)' = FrameOf(m, j)
        BY <1>2, PacketsSame
      <4>4. QED
        BY <4>2, <4>3
    <3>4. QED
      BY <2>1, <3>2, <3>3 DEF FramesInQueue
  <2>4. QED
    BY <2>2, <2>3
<1>6. lossy' \in BOOLEAN /\ faults' \in 0 .. MaxFaults
  <2>1. MaxFaults \in Nat
    BY CanAssumption
  <2>2. CASE Cleanup
    BY <1>3, <2>2 DEF Cleanup
  <2>3. CASE ProcessFrame
    <3>1. UNCHANGED <<faults, lossy>> \/ (lossy' = TRUE /\ UNCHANGED faults)
          \/ (faults < MaxFaults /\ faults' = faults + 1 /\ lossy' = TRUE)
      BY <2>3 DEF ProcessFrame, Begin, NoElement, NoBuffer, Unbound, More
    <3>2. faults' \in 0 .. MaxFaults
      BY <1>3, <2>1, <3>1
    <3>3. lossy' \in BOOLEAN
      BY <1>3, <3>1
    <3>4. QED
      BY <3>2, <3>3
  <2>4. QED
    BY <2>2, <2>3
<1> DEFINE Kept == /\ pbuf' \in [1 .. Elements -> ElementRecord] /\ routed' \in Seq(RoutedRecord)
                   /\ \A d \in 1 .. Elements : ElementOK(d)'
                   /\ taken' \in Nat /\ taken' = Len(routed') + Cardinality(Filled(pbuf'))
<1>7. ASSUME UNCHANGED <<pbuf, routed, taken>>
      PROVE  Kept
  <2>1. \A d \in 1 .. Elements : ElementOK(d)'
    BY <1>1, <1>2, <1>7, ElementStays DEF CanTypes
  <2>2. QED
    BY <1>3, <1>7, <2>1
<1>8. ASSUME NEW e \in 1 .. Elements, PbufFree(e), UNCHANGED routed
      PROVE  Kept
  <2>1. pbuf' = [pbuf EXCEPT ![e] = FreeElement]
        /\ taken' = IF pbuf[e].packet THEN taken - 1 ELSE taken
    BY <1>8 DEF PbufFree
  <2>2. FreeElement \in ElementRecord /\ ~FreeElement.packet
    BY FreeIsElement
  <2>3. pbuf' \in [1 .. Elements -> ElementRecord] /\ \A d \in 1 .. Elements : ElementOK(d)'
    BY <1>1, <2>1, <2>2, OneElement
  <2>4. /\ Cardinality(Filled(pbuf)) \in Nat
        /\ ~pbuf[e].packet => Cardinality(Filled(pbuf')) = Cardinality(Filled(pbuf))
        /\ pbuf[e].packet => /\ Cardinality(Filled(pbuf')) = Cardinality(Filled(pbuf)) - 1
                             /\ Cardinality(Filled(pbuf)) > 0
    BY <1>3, <2>1, <2>2, FilledCount
  <2>5. taken' \in Nat /\ taken' = Len(routed) + Cardinality(Filled(pbuf'))
    <3>1. CASE pbuf[e].packet
      BY <1>3, <2>1, <2>4, <3>1
    <3>2. CASE ~pbuf[e].packet
      BY <1>3, <2>1, <2>4, <3>2
    <3>3. QED
      BY <3>1, <3>2
  <2>6. QED
    BY <1>3, <1>8, <2>3, <2>5
<1>9. ASSUME NEW n \in Numbers, NEW i \in FramesOf(n), n <= MaxPackets,
             NEW e \in 1 .. Elements, Takes(e, n, i)
      PROVE  Kept
  <2> DEFINE b == WithFrame(e, n, i)
  <2>1. BuiltOK(b) /\ b \in ElementRecord
    BY <1>9, TakesOK
  <2> HIDE DEF b
  <2>2. Keep(e, b) /\ taken' = IF pbuf[e].packet THEN taken ELSE taken + 1
    BY <1>9 DEF Takes, b
  <2>3. b.packet
    BY <2>1 DEF BuiltOK
  <2>4. CASE b.rx_count = b.length
    <3>1. /\ pbuf' = [pbuf EXCEPT ![e] = FreeElement]
          /\ routed' = Append(routed, [length |-> b.length, parts |-> b.parts])
      BY <2>2, <2>4 DEF Keep
    <3>2. FreeElement \in ElementRecord /\ ~FreeElement.packet
      BY FreeIsElement
    <3>3. pbuf' \in [1 .. Elements -> ElementRecord] /\ \A d \in 1 .. Elements : ElementOK(d)'
      BY <1>1, <3>1, <3>2, OneElement
    <3>4. /\ Cardinality(Filled(pbuf)) \in Nat
          /\ ~pbuf[e].packet => Cardinality(Filled(pbuf')) = Cardinality(Filled(pbuf))
          /\ pbuf[e].packet => /\ Cardinality(Filled(pbuf')) = Cardinality(Filled(pbuf)) - 1
                               /\ Cardinality(Filled(pbuf)) > 0
      BY <1>3, <3>1, <3>2, FilledCount
    <3>5. [length |-> b.length, parts |-> b.parts] \in RoutedRecord
      BY <2>1 DEF ElementRecord, RoutedRecord
    <3>6. routed' \in Seq(RoutedRecord) /\ Len(routed') = Len(routed) + 1
      BY <1>3, <3>1, <3>5, AppendIs
    <3>7. taken' \in Nat /\ taken' = Len(routed') + Cardinality(Filled(pbuf'))
      <4>1. CASE pbuf[e].packet
        BY <1>3, <2>2, <3>4, <3>6, <4>1
      <4>2. CASE ~pbuf[e].packet
        BY <1>3, <2>2, <3>4, <3>6, <4>2
      <4>3. QED
        BY <4>1, <4>2
    <3>8. QED
      BY <3>3, <3>6, <3>7
  <2>5. CASE b.rx_count # b.length
    <3>1. pbuf' = [pbuf EXCEPT ![e] = b] /\ routed' = routed
      BY <2>2, <2>5 DEF Keep
    <3>2. pbuf' \in [1 .. Elements -> ElementRecord] /\ \A d \in 1 .. Elements : ElementOK(d)'
      BY <1>1, <2>1, <2>5, <3>1, OneElement
    <3>3. /\ Cardinality(Filled(pbuf)) \in Nat
          /\ pbuf[e].packet => Cardinality(Filled(pbuf')) = Cardinality(Filled(pbuf))
          /\ ~pbuf[e].packet => Cardinality(Filled(pbuf')) = Cardinality(Filled(pbuf)) + 1
      BY <1>3, <2>1, <2>3, <3>1, FilledCount
    <3>4. taken' \in Nat /\ taken' = Len(routed) + Cardinality(Filled(pbuf'))
      <4>1. CASE pbuf[e].packet
        BY <1>3, <2>2, <3>3, <4>1
      <4>2. CASE ~pbuf[e].packet
        BY <1>3, <2>2, <3>3, <4>2
      <4>3. QED
        BY <4>1, <4>2
    <3>5. QED
      BY <1>3, <3>1, <3>2, <3>4
  <2>6. QED
    BY <2>4, <2>5
<1>10. Kept
  <2>1. CASE Cleanup
    <3>1. PICK e \in 1 .. Elements : PbufFree(e) /\ UNCHANGED routed
      BY <2>1 DEF Cleanup
    <3>2. QED
      BY <1>8, <3>1
  <2>2. CASE ProcessFrame
    <3>1. PICK n \in Numbers : \E i \in FramesOf(n) :
           /\ n <= MaxPackets
           /\ \/ Ignores(n, i)
              \/ \E e \in 1 .. Elements : Drops(e, n, i)
              \/ \E e \in 1 .. Elements : Takes(e, n, i)
      BY <2>2, ProcessCases
    <3>2. PICK i \in FramesOf(n) :
           \/ Ignores(n, i)
           \/ \E e \in 1 .. Elements : Drops(e, n, i)
           \/ \E e \in 1 .. Elements : Takes(e, n, i)
      BY <3>1
    <3>3. CASE Ignores(n, i)
      BY <1>7, <3>3 DEF Ignores
    <3>4. CASE \E e \in 1 .. Elements : Drops(e, n, i)
      BY <1>8, <3>4 DEF Drops
    <3>5. CASE \E e \in 1 .. Elements : Takes(e, n, i)
      BY <1>9, <3>1, <3>5
    <3>6. QED
      BY <3>2, <3>3, <3>4, <3>5
  <2>3. QED
    BY <2>1, <2>2
<1>11. TypeOK'
  BY <1>1, <1>5, <1>6, <1>10 DEF TypeOK, ElementRecord, FrameRecord, RoutedRecord
<1>12. BuffersKept'
  BY <1>10 DEF BuffersKept, Filled
<1>13. QED
  BY <1>4, <1>5, <1>10, <1>11, <1>12 DEF CanTypes

KeepInv == CanTypes /\ BuffersKept

LEMMA InitKeeps == Init => KeepInv
<1> SUFFICES ASSUME Init PROVE KeepInv
  OBVIOUS
<1>1. /\ Idents \in Nat \ {0} /\ QueueSize \in Nat /\ MaxPackets \in Nat /\ MaxFaults \in Nat
  BY CanAssumption
<1>2. /\ csp_can_id = [n \in Nodes |-> 0] /\ tx = [s \in Senders |-> NoTx]
      /\ queue = <<>> /\ pbuf = [e \in 1 .. Elements |-> FreeElement]
      /\ routed = <<>> /\ packets = <<>> /\ taken = 0 /\ faults = 0 /\ lossy = FALSE
  BY DEF Init
<1>3. <<>> \in Seq(FrameRecord) /\ <<>> \in Seq(RoutedRecord) /\ <<>> \in Seq(PacketRecord)
      /\ Len(queue) = 0 /\ Len(routed) = 0 /\ Len(packets) = 0
  BY <1>2, EmptySeq
<1>4. NoTx \in TxRecord /\ FreeElement \in ElementRecord /\ ~FreeElement.packet
  BY <1>1, FreeIsElement DEF NoTx, TxRecord
<1>5. csp_can_id \in [Nodes -> 0 .. Idents - 1]
  BY <1>1, <1>2
<1>6. tx \in [Senders -> TxRecord] /\ pbuf \in [1 .. Elements -> ElementRecord]
  BY <1>2, <1>4
<1>7. TypeOK
  <2>1. Len(queue) <= QueueSize /\ taken \in Nat /\ faults \in 0 .. MaxFaults /\ lossy \in BOOLEAN
    <3>1. Len(queue) <= QueueSize
      BY <1>1, <1>3
    <3>2. 0 \in 0 .. MaxFaults
      BY <1>1
    <3>3. QED
      BY <1>2, <3>1, <3>2
  <2>2. queue \in Seq(FrameRecord) /\ routed \in Seq(RoutedRecord) /\ packets \in Seq(PacketRecord)
    BY <1>2, <1>3
  <2>3. QED
    BY <1>5, <1>6, <2>1, <2>2
        DEF TypeOK, TxRecord, FrameRecord, ElementRecord, RoutedRecord, PacketRecord
<1>8. Numbered
  <2>1. InOrderSent(packets)
    BY <1>3 DEF InOrderSent
  <2>2. ASSUME NEW d \in Nodes PROVE csp_can_id[d] = Cardinality(OfNode(d)) % Idents
    <3>1. OfNode(d) = {}
      BY <1>3 DEF OfNode, OfNodeIn
    <3>2. Cardinality(OfNode(d)) = 0
      BY <3>1, FS_EmptySet
    <3>3. csp_can_id[d] = 0 /\ 0 % Idents = 0
      BY <1>1, <1>2
    <3>4. QED
      BY <3>2, <3>3
  <2>3. QED
    BY <2>1, <2>2 DEF Numbered
<1>9. \A s \in Senders : SendingOK(s)
  BY <1>2 DEF SendingOK, Busy, NoTx
<1>10. FramesInQueue
  BY <1>3 DEF FramesInQueue
<1>11. \A e \in 1 .. Elements : ElementOK(e)
  BY <1>2 DEF ElementOK
<1>12. BuffersKept
  <2>1. Filled(pbuf) = {}
    BY <1>2, <1>4 DEF Filled
  <2>2. Cardinality(Filled(pbuf)) = 0
    BY <2>1, FS_EmptySet
  <2>3. QED
    BY <1>2, <1>3, <2>2 DEF BuffersKept, Filled
<1>13. QED
  BY <1>7, <1>8, <1>9, <1>10, <1>11, <1>12 DEF KeepInv, CanTypes

LEMMA NextKeeps == KeepInv /\ [Next]_vars => KeepInv'
<1> SUFFICES ASSUME KeepInv, [Next]_vars PROVE KeepInv'
  OBVIOUS
<1>1. CanTypes /\ BuffersKept /\ TypeOK
  BY DEF KeepInv, CanTypes
<1>2. ASSUME NEW s \in Senders, GetIdent(s) PROVE KeepInv'
  <2>1. CanTypes'
    BY <1>1, <1>2, IdentTypes
  <2>2. BuffersKept'
    BY <1>1, <1>2 DEF GetIdent, BuffersKept
  <2>3. QED
    BY <2>1, <2>2 DEF KeepInv
<1>3. ASSUME NEW s \in Senders, SendFrame(s) PROVE KeepInv'
  <2>1. CanTypes'
    BY <1>1, <1>3, SendTypes
  <2>2. BuffersKept'
    BY <1>1, <1>3 DEF SendFrame, BuffersKept
  <2>3. QED
    BY <2>1, <2>2 DEF KeepInv
<1>4. CASE ProcessFrame \/ Cleanup
  BY <1>1, <1>4, ReceiveTypes DEF KeepInv
<1>5. CASE UNCHANGED vars
  <2>1. PacketsKept /\ packets' = packets
    BY <1>5 DEF vars, PacketsKept, Numbers
  <2>2. TypeOK' /\ Numbered' /\ BuffersKept'
    BY <1>1, <1>5 DEF vars, TypeOK, CanTypes, Numbered, OfNode, BuffersKept
  <2>3. \A s \in Senders : SendingOK(s)'
    BY <1>1, <1>5, <2>1, SendingStays DEF vars, CanTypes
  <2>4. FramesInQueue'
    BY <1>1, <1>5, <2>1, FramesStay DEF vars, CanTypes
  <2>5. \A e \in 1 .. Elements : ElementOK(e)'
    BY <1>1, <1>5, <2>1, ElementStays DEF vars, CanTypes
  <2>6. QED
    BY <2>2, <2>3, <2>4, <2>5 DEF KeepInv, CanTypes
<1>6. QED
  BY <1>2, <1>3, <1>4, <1>5 DEF Next

LEMMA KeepInvariant == Spec => []KeepInv
<1>1. Init => KeepInv
  BY InitKeeps
<1>2. KeepInv /\ [Next]_vars => KeepInv'
  BY NextKeeps
<1>3. QED
  BY <1>1, <1>2, PTL DEF Spec

(* The variables of the interface at both ends have their types: no frame says   *)
(* more than it can, and a packet never has more data than its buffer was got    *)
(* for.                                                                      *)
THEOREM TypeCorrect == Spec => []TypeOK
<1>1. KeepInv => TypeOK
  BY DEF KeepInv, CanTypes
<1>2. QED
  BY <1>1, KeepInvariant, PTL

(* csp_can_pbuf_free, csp_can_process_frame: a buffer that was got is the router's *)
(* or in an element, whatever is lost, cut short, written over or timed out.      *)
THEOREM BuffersAlwaysKept == Spec => []BuffersKept
<1>1. KeepInv => BuffersKept
  BY DEF KeepInv
<1>2. QED
  BY <1>1, KeepInvariant, PTL

-----------------------------------------------------------------------------
(* What is routed.                                                           *)

LEMMA OffsetsRise ==
  ASSUME NEW i \in Nat \ {0}, NEW j \in Nat \ {0}
  PROVE  (i < j <=> Offset(i) < Offset(j)) /\ Offset(i) \in Nat
BY DEF Offset

LEMMA QueueIs ==
  ASSUME CanTypes, NEW q \in 1 .. Len(queue)
  PROVE  /\ NrAt(q) \in Numbers /\ SenderAt(q) \in Senders
         /\ \E i \in FramesOf(NrAt(q)) :
              /\ queue[q] = FrameOf(NrAt(q), i)
              /\ queue[q].part = <<NrAt(q), Offset(i)>> /\ i \in Nat \ {0}
         /\ queue[q].part[2] \in Nat
<1>1. PICK n \in Numbers : \E i \in FramesOf(n) : queue[q] = FrameOf(n, i)
  BY DEF CanTypes, FramesInQueue
<1>2. PICK i \in FramesOf(n) : queue[q] = FrameOf(n, i)
  BY <1>1
<1>3. queue[q].part = <<n, Offset(i)>> /\ NrAt(q) = n
  BY <1>2 DEF FrameOf, NrAt
<1>4. packets[n].length \in 0 .. 256 /\ packets[n].by \in Senders
  BY PacketIs DEF CanTypes
<1>5. i \in Nat \ {0}
  BY <1>4, FramesOfLength DEF FramesOf
<1>6. Offset(i) \in Nat
  BY <1>5, OffsetsRise
<1>7. QED
  BY <1>2, <1>3, <1>4, <1>5, <1>6 DEF SenderAt

LEMMA SameParts ==
  ASSUME TypeOK, PacketsKept, NEW parts, PartsOK(parts)
  PROVE  /\ PartsOK(parts)' /\ parts[1][1] \in Numbers /\ 1 \in 1 .. Len(parts)
         /\ packets'[parts[1][1]] = packets[parts[1][1]]
         /\ Whole(parts[1][1])' = Whole(parts[1][1])
<1>1. 1 \in 1 .. Len(parts) /\ parts[1][1] \in Numbers
  BY DEF PartsOK
<1>2. \A j \in 1 .. Len(parts) : /\ parts[j][1] \in Numbers'
                                 /\ KeyOf(parts[j][1])' = KeyOf(parts[j][1])
  BY PacketsSame DEF PartsOK
<1>3. PartsOK(parts)'
  BY <1>1, <1>2 DEF PartsOK
<1>4. QED
  BY <1>1, <1>3, PacketsSame DEF PacketsKept

LEMMA RoutedStays ==
  ASSUME CanTypes, PacketsKept, RoutedOK, RoutedInOrder, routed' = routed
  PROVE  /\ RoutedOK' /\ RoutedInOrder' /\ PureRouted' = PureRouted
         /\ \A k \in PureRouted : /\ Beginning(k)' = Beginning(k) /\ By(k)' = By(k)
                                  /\ Beginning(k) \in Numbers
<1>1. TypeOK
  BY DEF CanTypes
<1>2. ASSUME NEW k \in 1 .. Len(routed)
      PROVE  /\ PartsOK(routed[k].parts)'
             /\ Pure(routed[k].parts)' => routed'[k] = Whole(Beginning(k))'
             /\ Beginning(k)' = Beginning(k) /\ By(k)' = By(k) /\ Beginning(k) \in Numbers
  <2>1. PICK r : r = routed[k]
    OBVIOUS
  <2>2. PartsOK(r.parts) /\ (Pure(r.parts) => r = Whole(r.parts[1][1]))
    BY <2>1 DEF RoutedOK, Beginning
  <2>3. /\ PartsOK(r.parts)' /\ r.parts[1][1] \in Numbers
        /\ packets'[r.parts[1][1]] = packets[r.parts[1][1]]
        /\ Whole(r.parts[1][1])' = Whole(r.parts[1][1])
    BY <1>1, <2>2, SameParts
  <2>4. Beginning(k)' = Beginning(k) /\ Beginning(k) = r.parts[1][1]
    BY <2>1 DEF Beginning
  <2>5. By(k)' = By(k)
    BY <2>3, <2>4 DEF By
  <2>6. Whole(Beginning(k))' = Whole(r.parts[1][1])'
    BY <2>1, <2>4 DEF Whole
  <2>7. PartsOK(routed[k].parts)' /\ (Pure(routed[k].parts)' <=> Pure(r.parts))
    BY <2>1, <2>3 DEF PartsOK, Pure
  <2>8. QED
    BY <2>1, <2>2, <2>3, <2>4, <2>5, <2>6, <2>7
<1>3. RoutedOK'
  BY <1>2 DEF RoutedOK, Beginning
<1>4. PureRouted' = PureRouted
  BY DEF PureRouted
<1>5. RoutedInOrder'
  BY <1>2, <1>4 DEF RoutedInOrder, PureRouted
<1>6. QED
  BY <1>2, <1>3, <1>4, <1>5 DEF PureRouted

(* A pure element that has all its data is a packet, and its last frame is the     *)
(* one that has just come.                                                   *)
LEMMA FullIsWhole ==
  ASSUME TypeOK, NEW b \in ElementRecord, BuiltOK(b), b.rx_count = b.length, Pure(b.parts)
  PROVE  /\ [length |-> b.length, parts |-> b.parts] = Whole(b.parts[1][1])
         /\ Len(b.parts) = Frames(packets[b.parts[1][1]].length)
<1> DEFINE n == b.parts[1][1]
           m == Len(b.parts)
           len == packets[n].length
           F == Frames(len)
<1>1. /\ n \in Numbers /\ b.length = len /\ m <= F /\ m >= 1
      /\ b.rx_count = IF m < F THEN 8 * m - 6 ELSE len
      /\ \A j \in 1 .. m : b.parts[j] = <<n, Offset(j)>>
  <2>1. 1 \in 1 .. m
    BY DEF BuiltOK, PartsOK
  <2>2. QED
    BY <2>1 DEF BuiltOK, PartsOK
<1>2. b.parts \in Seq(Parts) /\ m \in Nat
  BY LenProperties DEF ElementRecord
<1>3. len \in 0 .. 256 /\ F \in 1 .. 33
  BY <1>1, PacketIs, FramesOfLength
<1> HIDE DEF n, m, len, F
<1>4. m = F
  <2>1. CASE m < F
    <3>1. m \in 1 .. F
      BY <1>1, <1>2, <1>3, <2>1
    <3>2. 8 * m - 6 < len
      BY <1>3, <2>1, <3>1, FrameSpan DEF F
    <3>3. 8 * m - 6 = len
      BY <1>1, <2>1
    <3>4. QED
      BY <1>2, <1>3, <3>2, <3>3
  <2>2. QED
    BY <1>1, <1>2, <1>3, <2>1
<1>5. b.parts = [k \in 1 .. F |-> <<n, IF k = 1 THEN 0 ELSE 8 * k - 14>>]
  <2>1. b.parts = [k \in 1 .. m |-> b.parts[k]]
    BY <1>2, LenProperties DEF m
  <2>2. \A k \in 1 .. F : b.parts[k] = <<n, IF k = 1 THEN 0 ELSE 8 * k - 14>>
    BY <1>1, <1>4 DEF Offset
  <2>3. QED
    BY <1>4, <2>1, <2>2
<1>6. QED
  BY <1>1, <1>4, <1>5 DEF Whole, n, m, len, F

RoutesOf(n, i, x) ==
  /\ routed' = Append(routed, x) /\ x \in RoutedRecord /\ PartsOK(x.parts)
  /\ Pure(x.parts) => x = Whole(n) /\ x.parts[1][1] = n /\ i = Frames(packets[n].length)

LEMMA ProcessRoutes ==
  ASSUME CanTypes, ProcessFrame
  PROVE  \E n \in Numbers : \E i \in FramesOf(n) :
           /\ Head(queue) = FrameOf(n, i)
           /\ routed' = routed \/ \E x : RoutesOf(n, i, x)
<1>1. PICK n \in Numbers : \E i \in FramesOf(n) :
        /\ Head(queue) = FrameOf(n, i) /\ n <= MaxPackets
        /\ \/ Ignores(n, i)
           \/ \E e \in 1 .. Elements : Drops(e, n, i)
           \/ \E e \in 1 .. Elements : Takes(e, n, i)
  BY ProcessCases
<1>2. PICK i \in FramesOf(n) :
        /\ Head(queue) = FrameOf(n, i)
        /\ \/ Ignores(n, i)
           \/ \E e \in 1 .. Elements : Drops(e, n, i)
           \/ \E e \in 1 .. Elements : Takes(e, n, i)
  BY <1>1
<1>3. CASE Ignores(n, i) \/ \E e \in 1 .. Elements : Drops(e, n, i)
  BY <1>2, <1>3 DEF Ignores, Drops
<1>4. ASSUME NEW e \in 1 .. Elements, Takes(e, n, i)
      PROVE  routed' = routed \/ \E x : RoutesOf(n, i, x)
  <2> DEFINE b == WithFrame(e, n, i)
  <2>1. /\ BuiltOK(b) /\ b \in ElementRecord
        /\ i = 1 => b.parts = <<<<n, Offset(1)>>>>
        /\ i > 1 => /\ e \in Bound(KeyOf(n))
                    /\ b.parts = Append(pbuf[e].parts, <<n, Offset(i)>>)
                    /\ Pure(b.parts) => /\ Pure(pbuf[e].parts) /\ n = pbuf[e].parts[1][1]
                                        /\ i = Len(pbuf[e].parts) + 1
        /\ i = 1 \/ i > 1
    BY <1>1, <1>4, TakesOK
  <2>2. Keep(e, b)
    BY <1>4 DEF Takes
  <2> HIDE DEF b
  <2>3. CASE b.rx_count # b.length
    BY <2>2, <2>3 DEF Keep
  <2>4. CASE b.rx_count = b.length
    <3> DEFINE x == [length |-> b.length, parts |-> b.parts]
    <3>1. routed' = Append(routed, x) /\ x \in RoutedRecord /\ x.parts = b.parts
      BY <2>1, <2>2, <2>4 DEF Keep, RoutedRecord, ElementRecord
    <3>2. PartsOK(x.parts)
      BY <2>1, <3>1 DEF BuiltOK
    <3>3. ASSUME Pure(x.parts)
          PROVE  x = Whole(n) /\ x.parts[1][1] = n /\ i = Frames(packets[n].length)
      <4>1. TypeOK /\ Pure(b.parts)
        BY <3>1, <3>3 DEF CanTypes
      <4>2. x = Whole(b.parts[1][1]) /\ Len(b.parts) = Frames(packets[b.parts[1][1]].length)
        BY <2>1, <2>4, <4>1, FullIsWhole
      <4>3. b.parts[1][1] = n /\ i = Len(b.parts)
        <5>1. CASE i = 1
          BY <2>1, <5>1
        <5>2. CASE i > 1
          <6>1. pbuf[e].parts \in Seq(Parts) /\ Len(pbuf[e].parts) >= 1
            <7>1. pbuf[e].used
              BY <2>1, <5>2 DEF Bound
            <7>2. pbuf[e] \in ElementRecord /\ BuiltOK(pbuf[e])
              BY <7>1, ElementIs
            <7>3. QED
              BY <7>2 DEF ElementRecord, BuiltOK, PartsOK
          <6>2. /\ n = pbuf[e].parts[1][1] /\ i = Len(pbuf[e].parts) + 1
                /\ b.parts = Append(pbuf[e].parts, <<n, Offset(i)>>)
            BY <2>1, <4>1, <5>2
          <6>3. Len(b.parts) = Len(pbuf[e].parts) + 1 /\ Len(pbuf[e].parts) \in Nat
                /\ \A k \in 1 .. Len(pbuf[e].parts) : b.parts[k] = pbuf[e].parts[k]
            <7>1. Append(pbuf[e].parts, <<n, Offset(i)>>) \in Seq(Parts)
              BY <2>1, <6>2 DEF ElementRecord
            <7>2. QED
              BY <6>1, <6>2, AppendProperties, LenProperties
          <6>4. 1 \in 1 .. Len(pbuf[e].parts)
            BY <6>1, <6>3
          <6>5. QED
            BY <6>2, <6>3, <6>4
        <5>3. QED
          BY <2>1, <5>1, <5>2
      <4>4. QED
        BY <3>1, <4>2, <4>3
    <3>4. RoutesOf(n, i, x)
      BY <3>1, <3>2, <3>3 DEF RoutesOf
    <3>5. QED
      BY <3>4
  <2>5. QED
    BY <2>3, <2>4
<1>5. QED
  BY <1>2, <1>3, <1>4

LEMMA QueueStays ==
  ASSUME CanTypes, PacketsKept, NEW q \in 1 .. Len(queue), NEW p, queue'[p] = queue[q]
  PROVE  /\ NrAt(p)' = NrAt(q) /\ SenderAt(p)' = SenderAt(q)
         /\ queue'[p].part[2] = queue[q].part[2]
<1>1. NrAt(p)' = NrAt(q)
  BY DEF NrAt
<1>2. NrAt(q) \in Numbers
  BY QueueIs
<1>3. SenderAt(p)' = SenderAt(q)
  BY <1>1, <1>2 DEF SenderAt, PacketsKept
<1>4. QED
  BY <1>1, <1>3

LEMMA IdentWhole ==
  ASSUME WholeInv, NEW s \in Senders, GetIdent(s)
  PROVE  RoutedOK' /\ RoutedInOrder' /\ InSequence' /\ RoutedBefore'
<1> DEFINE n == Len(packets) + 1
<1>1. /\ CanTypes /\ TypeOK /\ RoutedOK /\ RoutedInOrder /\ InSequence /\ RoutedBefore
      /\ queue' = queue /\ routed' = routed /\ ~Busy(s)
  BY DEF WholeInv, CanTypes, GetIdent
<1>2. PacketsKept
  BY <1>1, PacketsStay DEF Next
<1>3. /\ tx'[s].nr = n /\ \A t \in Senders : t # s => tx'[t] = tx[t]
  <2>1. PICK len : tx' = [tx EXCEPT ![s] = [NoTx EXCEPT !.nr = n, !.length = len,
                                                        !.ident = csp_can_id[Node[s]]]]
    BY DEF GetIdent
  <2>2. tx \in [Senders -> TxRecord]
    BY <1>1 DEF TypeOK, TxRecord
  <2>3. QED
    BY <2>1, <2>2 DEF NoTx
<1>4. \A m \in Numbers : m \in Nat /\ m < n
  BY <1>1, PacketIs DEF n
<1> HIDE DEF n
<1>5. /\ RoutedOK' /\ RoutedInOrder' /\ PureRouted' = PureRouted
      /\ \A k \in PureRouted : /\ Beginning(k)' = Beginning(k) /\ By(k)' = By(k)
                               /\ Beginning(k) \in Numbers
  BY <1>1, <1>2, RoutedStays
<1>6. \A q \in 1 .. Len(queue) :
        /\ NrAt(q)' = NrAt(q) /\ SenderAt(q)' = SenderAt(q)
        /\ queue'[q].part[2] = queue[q].part[2]
        /\ NrAt(q) \in Numbers /\ SenderAt(q) \in Senders
  BY <1>1, <1>2, QueueStays, QueueIs
<1>7. \A t \in Senders : t # s => (Busy(t)' <=> Busy(t))
  BY <1>3 DEF Busy
<1>8. InSequence'
  <2>1. ASSUME NEW p \in 1 .. Len(queue'), NEW q \in 1 .. Len(queue'), p < q,
               SenderAt(p)' = SenderAt(q)'
        PROVE  Earlier(p, NrAt(q), queue[q].part[2])'
    <3>1. Earlier(p, NrAt(q), queue[q].part[2])
      BY <1>1, <1>6, <2>1 DEF InSequence
    <3>2. QED
      BY <1>1, <1>6, <2>1, <3>1 DEF Earlier
  <2>2. ASSUME NEW q \in 1 .. Len(queue'), Busy(SenderAt(q))'
        PROVE  Earlier(q, tx[SenderAt(q)].nr, tx[SenderAt(q)].count)'
    <3>1. CASE SenderAt(q) = s
      <4>1. NrAt(q)' < n /\ tx'[SenderAt(q)'].nr = n
        BY <1>1, <1>3, <1>4, <1>6, <3>1
      <4>2. QED
        BY <4>1 DEF Earlier
    <3>2. CASE SenderAt(q) # s
      <4>1. PICK t \in Senders : t = SenderAt(q)
        BY <1>1, <1>6
      <4>2. tx'[t] = tx[t] /\ (Busy(t)' <=> Busy(t)) /\ SenderAt(q)' = t
        BY <1>1, <1>3, <1>6, <1>7, <3>2, <4>1
      <4>3. Busy(t)
        BY <2>2, <4>2 DEF Busy
      <4>4. Earlier(q, tx[t].nr, tx[t].count)
        BY <1>1, <4>1, <4>3 DEF InSequence
      <4>5. QED
        BY <1>1, <1>6, <4>2, <4>4 DEF Earlier
    <3>3. QED
      BY <3>1, <3>2
  <2>3. QED
    BY <2>1, <2>2 DEF InSequence
<1>9. RoutedBefore'
  <2>1. ASSUME NEW k \in PureRouted
        PROVE  /\ \A q \in 1 .. Len(queue') : SenderAt(q)' = By(k)' => Beginning(k)' < NrAt(q)'
               /\ Busy(By(k))' => Beginning(k)' < tx'[By(k)'].nr
    <3>1. \A q \in 1 .. Len(queue') : SenderAt(q)' = By(k)' => Beginning(k)' < NrAt(q)'
      BY <1>1, <1>5, <1>6 DEF RoutedBefore
    <3>2. ASSUME Busy(By(k))' PROVE Beginning(k)' < tx'[By(k)'].nr
      <4>1. PICK t : t = By(k)
        OBVIOUS
      <4>2. By(k)' = t /\ Beginning(k)' = Beginning(k) /\ t \in Senders /\ Beginning(k) \in Numbers
        BY <1>1, <1>5, <4>1, PacketIs DEF By
      <4>3. CASE t = s
        BY <1>3, <1>4, <4>2, <4>3
      <4>4. CASE t # s
        <5>1. Busy(t) /\ tx'[t] = tx[t]
          BY <1>3, <3>2, <4>2, <4>4 DEF Busy
        <5>2. Beginning(k) < tx[t].nr
          BY <1>1, <4>1, <5>1 DEF RoutedBefore
        <5>3. QED
          BY <4>2, <5>1, <5>2
      <4>5. QED
        BY <4>3, <4>4
    <3>3. QED
      BY <3>1, <3>2
  <2>2. QED
    BY <1>5, <2>1 DEF RoutedBefore
<1>10. QED
  BY <1>5, <1>8, <1>9

LEMMA SendWhole ==
  ASSUME WholeInv, NEW s \in Senders, SendFrame(s)
  PROVE  RoutedOK' /\ RoutedInOrder' /\ InSequence' /\ RoutedBefore'
<1> DEFINE n == tx[s].nr
           i == NextFrame(s)
           o == tx[s].count
<1>1. /\ CanTypes /\ TypeOK /\ RoutedOK /\ RoutedInOrder /\ InSequence /\ RoutedBefore
      /\ routed' = routed /\ packets' = packets /\ Busy(s) /\ SendingOK(s)
  BY DEF WholeInv, CanTypes, SendFrame
<1>2. PacketsKept
  BY <1>1 DEF PacketsKept, Numbers
<1>3. Frame(s) = FrameOf(n, i) /\ n \in Numbers /\ i \in FramesOf(n) /\ packets[n].by = s
      /\ n <= MaxPackets
  BY <1>1, SendsNext DEF SendingOK
<1>4. /\ i < Frames(packets[n].length) =>
           Sent(s, Frame(s)) = [tx[s] EXCEPT !.begun = TRUE, !.count = Offset(i + 1)]
      /\ i = Frames(packets[n].length) => Sent(s, Frame(s)) = NoTx
      /\ Frame(s).part = <<n, o>> /\ o = Offset(i)
  BY <1>1, SentIs DEF SendingOK
<1>5. i \in Nat \ {0} /\ i <= Frames(packets[n].length) /\ Frames(packets[n].length) \in Nat
      /\ n \in Nat
  <2>1. packets[n].length \in 0 .. 256
    BY <1>1, <1>3, PacketIs
  <2>2. n \in Nat
    BY <1>1, <1>3, PacketIs
  <2>3. QED
    BY SMTT(30), <1>3, <2>1, <2>2, FramesOfLength DEF FramesOf
<1>6. tx \in [Senders -> TxRecord] /\ tx' = [tx EXCEPT ![s] = Sent(s, Frame(s))]
  BY <1>1 DEF TypeOK, TxRecord, SendFrame
<1>7. /\ \A t \in Senders : t # s => tx'[t] = tx[t]
      /\ Busy(s)' => tx'[s].nr = n /\ tx'[s].count = Offset(i + 1)
  <2>1. CASE i = Frames(packets[n].length)
    <3>1. tx'[s] = NoTx
      BY <1>4, <1>6, <2>1
    <3>2. QED
      BY <1>6, <3>1 DEF Busy, NoTx
  <2>2. CASE i < Frames(packets[n].length)
    <3>1. tx'[s] = [tx[s] EXCEPT !.begun = TRUE, !.count = Offset(i + 1)]
      BY <1>4, <1>6, <2>2
    <3>2. tx[s] \in TxRecord
      BY <1>6
    <3>3. QED
      BY <1>6, <3>1, <3>2 DEF TxRecord
  <2>3. QED
    BY <1>5, <2>1, <2>2
<1>8. o \in Nat /\ Offset(i + 1) \in Nat /\ o < Offset(i + 1)
  BY <1>4, <1>5, OffsetsRise
<1>9. /\ queue \in Seq(FrameRecord) /\ Len(queue) \in Nat
      /\ queue' = queue \/ queue' = Append(queue, Frame(s))
      /\ Frame(s) \in FrameRecord
  <2>1. FrameOf(n, i) \in FrameRecord
    BY <1>1, <1>3, FrameType
  <2>2. queue \in Seq(FrameRecord)
    BY <1>1 DEF TypeOK, FrameRecord
  <2>3. queue' = queue \/ queue' = Append(queue, Frame(s))
    BY DEF SendFrame
  <2>4. QED
    BY <1>3, <2>1, <2>2, <2>3, LenProperties
<1> HIDE DEF n, i, o
<1>10. /\ Len(queue') = Len(queue) \/ (Len(queue') = Len(queue) + 1 /\ queue'[Len(queue) + 1] = Frame(s))
       /\ \A q \in 1 .. Len(queue) : queue'[q] = queue[q]
  BY <1>9, AppendIs
<1>11. \A q \in 1 .. Len(queue) :
         /\ NrAt(q)' = NrAt(q) /\ SenderAt(q)' = SenderAt(q)
         /\ queue'[q].part[2] = queue[q].part[2] /\ queue[q].part[2] \in Nat
         /\ NrAt(q) \in Numbers /\ SenderAt(q) \in Senders
  BY <1>1, <1>2, <1>10, QueueStays, QueueIs
<1>12. ASSUME NEW q \in 1 .. Len(queue'), q \notin 1 .. Len(queue)
       PROVE  /\ q = Len(queue) + 1 /\ NrAt(q)' = n /\ queue'[q].part[2] = o /\ SenderAt(q)' = s
  <2>1. q = Len(queue) + 1 /\ queue'[q] = Frame(s)
    BY <1>9, <1>10, <1>12
  <2>2. NrAt(q)' = n /\ queue'[q].part[2] = o
    BY <1>4, <2>1 DEF NrAt
  <2>3. SenderAt(q)' = s
    BY <1>1, <1>3, <2>2 DEF SenderAt
  <2>4. QED
    BY <2>1, <2>2, <2>3
<1>13. \A q \in 1 .. Len(queue) : SenderAt(q) = s => Earlier(q, n, o)
  BY <1>1 DEF InSequence, n, o
<1>14. InSequence'
  <2>1. ASSUME NEW p \in 1 .. Len(queue'), NEW q \in 1 .. Len(queue'), p < q,
               SenderAt(p)' = SenderAt(q)'
        PROVE  Earlier(p, NrAt(q), queue[q].part[2])'
    <3>1. CASE q \in 1 .. Len(queue)
      <4>1. p \in 1 .. Len(queue)
        BY <1>9, <1>10, <2>1, <3>1
      <4>2. Earlier(p, NrAt(q), queue[q].part[2])
        BY <1>1, <1>11, <2>1, <3>1, <4>1 DEF InSequence
      <4>3. QED
        BY <1>11, <3>1, <4>1, <4>2 DEF Earlier
    <3>2. CASE q \notin 1 .. Len(queue)
      <4>1. q = Len(queue) + 1 /\ NrAt(q)' = n /\ queue'[q].part[2] = o /\ SenderAt(q)' = s
        BY <1>12, <3>2
      <4>2. p \in 1 .. Len(queue)
        BY <1>9, <1>10, <2>1, <4>1
      <4>3. Earlier(p, n, o)
        BY <1>11, <1>13, <2>1, <4>1, <4>2
      <4>4. QED
        BY <1>11, <4>1, <4>2, <4>3 DEF Earlier
    <3>3. QED
      BY <3>1, <3>2
  <2>2. ASSUME NEW q \in 1 .. Len(queue'), Busy(SenderAt(q))'
        PROVE  Earlier(q, tx[SenderAt(q)].nr, tx[SenderAt(q)].count)'
    <3>1. CASE q \in 1 .. Len(queue) /\ SenderAt(q) # s
      <4>1. PICK t \in Senders : t = SenderAt(q)
        BY <1>11, <3>1
      <4>2. tx'[t] = tx[t] /\ SenderAt(q)' = t
        BY <1>7, <1>11, <3>1, <4>1
      <4>3. Busy(t)
        BY <2>2, <4>2 DEF Busy
      <4>4. Earlier(q, tx[t].nr, tx[t].count)
        BY <1>1, <3>1, <4>1, <4>3 DEF InSequence
      <4>5. QED
        BY <1>11, <3>1, <4>2, <4>4 DEF Earlier
    <3>2. CASE q \in 1 .. Len(queue) /\ SenderAt(q) = s
      <4>1. SenderAt(q)' = s /\ Earlier(q, n, o)
        BY <1>11, <1>13, <3>2
      <4>2. tx'[s].nr = n /\ tx'[s].count = Offset(i + 1)
        BY <1>7, <2>2, <4>1 DEF Busy
      <4>3. NrAt(q)' < n \/ (NrAt(q)' = n /\ queue'[q].part[2] < o)
        BY <1>11, <3>2, <4>1 DEF Earlier
      <4>4. queue'[q].part[2] \in Nat
        BY <1>11, <3>2
      <4>5. queue'[q].part[2] < o => queue'[q].part[2] < Offset(i + 1)
        BY <1>8, <4>4
      <4>6. QED
        BY <4>1, <4>2, <4>3, <4>5 DEF Earlier
    <3>3. CASE q \notin 1 .. Len(queue)
      <4>1. NrAt(q)' = n /\ queue'[q].part[2] = o /\ SenderAt(q)' = s
        BY <1>12, <3>3
      <4>2. tx'[s].nr = n /\ tx'[s].count = Offset(i + 1)
        BY <1>7, <2>2, <4>1 DEF Busy
      <4>3. QED
        BY <1>8, <4>1, <4>2 DEF Earlier
    <3>4. QED
      BY <3>1, <3>2, <3>3
  <2>3. QED
    BY <2>1, <2>2 DEF InSequence
<1>15. /\ RoutedOK' /\ RoutedInOrder' /\ PureRouted' = PureRouted
       /\ \A k \in PureRouted : /\ Beginning(k)' = Beginning(k) /\ By(k)' = By(k)
                                /\ Beginning(k) \in Numbers
  BY <1>1, <1>2, RoutedStays
<1>16. RoutedBefore'
  <2>1. ASSUME NEW k \in PureRouted
        PROVE  /\ \A q \in 1 .. Len(queue') : SenderAt(q)' = By(k)' => Beginning(k)' < NrAt(q)'
               /\ Busy(By(k))' => Beginning(k)' < tx'[By(k)'].nr
    <3>1. By(k) = s => Beginning(k) < n
      BY <1>1 DEF RoutedBefore, n
    <3>2. ASSUME NEW q \in 1 .. Len(queue'), SenderAt(q)' = By(k)'
          PROVE  Beginning(k)' < NrAt(q)'
      <4>1. CASE q \in 1 .. Len(queue)
        BY <1>1, <1>11, <1>15, <3>2, <4>1 DEF RoutedBefore
      <4>2. CASE q \notin 1 .. Len(queue)
        BY <1>12, <1>15, <3>1, <3>2, <4>2
      <4>3. QED
        BY <4>1, <4>2
    <3>3. ASSUME Busy(By(k))' PROVE Beginning(k)' < tx'[By(k)'].nr
      <4>1. PICK t : t = By(k)
        OBVIOUS
      <4>2. By(k)' = t /\ Beginning(k)' = Beginning(k) /\ t \in Senders
        BY <1>1, <1>15, <4>1, PacketIs DEF By
      <4>3. CASE t = s
        BY <1>7, <3>1, <3>3, <4>1, <4>2, <4>3 DEF Busy
      <4>4. CASE t # s
        <5>1. Busy(t) /\ tx'[t] = tx[t]
          BY <1>7, <3>3, <4>2, <4>4 DEF Busy
        <5>2. Beginning(k) < tx[t].nr
          BY <1>1, <4>1, <5>1 DEF RoutedBefore
        <5>3. QED
          BY <4>2, <5>1, <5>2
      <4>5. QED
        BY <4>3, <4>4
    <3>4. QED
      BY <3>2, <3>3
  <2>2. QED
    BY <1>15, <2>1 DEF RoutedBefore
<1>17. QED
  BY <1>14, <1>15, <1>16

LEMMA ReceiveWhole ==
  ASSUME WholeInv, ProcessFrame \/ Cleanup
  PROVE  RoutedOK' /\ RoutedInOrder' /\ InSequence' /\ RoutedBefore'
<1>1. /\ CanTypes /\ TypeOK /\ RoutedOK /\ RoutedInOrder /\ InSequence /\ RoutedBefore
      /\ packets' = packets /\ tx' = tx
  BY DEF WholeInv, CanTypes, ProcessFrame, Cleanup
<1>2. PacketsKept
  BY <1>1 DEF PacketsKept, Numbers
<1>3. queue \in Seq(FrameRecord) /\ Len(queue) \in Nat
  BY <1>1, LenProperties DEF TypeOK, FrameRecord
<1>4. PICK h \in {0, 1} :
        /\ h <= Len(queue) /\ Len(queue') = Len(queue) - h
        /\ \A q \in 1 .. Len(queue') : queue'[q] = queue[q + h] /\ q + h \in 1 .. Len(queue)
        /\ h = 0 => routed' = routed
        /\ h = 1 => /\ Head(queue) = queue[1] /\ 1 \in 1 .. Len(queue)
                    /\ \E n \in Numbers : \E i \in FramesOf(n) :
                         /\ Head(queue) = FrameOf(n, i)
                         /\ routed' = routed \/ \E x : RoutesOf(n, i, x)
  <2>1. CASE Cleanup
    <3>1. queue' = queue /\ routed' = routed
      BY <2>1 DEF Cleanup
    <3>2. \A q \in 1 .. Len(queue) : q + 0 = q
      BY <1>3
    <3>3. QED
      BY <1>3, <3>1, <3>2
  <2>2. CASE ProcessFrame
    <3>1. queue # <<>> /\ queue' = Tail(queue)
      BY <2>2 DEF ProcessFrame
    <3>2. /\ Len(queue) \in Nat \ {0} /\ Head(queue) = queue[1] /\ Len(queue') = Len(queue) - 1
          /\ \A q \in 1 .. Len(queue) - 1 : queue'[q] = queue[q + 1]
      BY <1>3, <3>1, TailIs
    <3>3. \E n \in Numbers : \E i \in FramesOf(n) :
            /\ Head(queue) = FrameOf(n, i)
            /\ routed' = routed \/ \E x : RoutesOf(n, i, x)
      BY <1>1, <2>2, ProcessRoutes
    <3>4. /\ 1 <= Len(queue) /\ 1 \in 1 .. Len(queue)
          /\ \A q \in 1 .. Len(queue') : queue'[q] = queue[q + 1] /\ q + 1 \in 1 .. Len(queue)
      BY <3>2
    <3>5. QED
      BY <3>2, <3>3, <3>4
  <2>3. QED
    BY <2>1, <2>2
<1>5. \A q \in 1 .. Len(queue') :
        /\ q + h \in 1 .. Len(queue)
        /\ NrAt(q)' = NrAt(q + h) /\ SenderAt(q)' = SenderAt(q + h)
        /\ queue'[q].part[2] = queue[q + h].part[2]
        /\ NrAt(q + h) \in Numbers /\ SenderAt(q + h) \in Senders
  BY <1>1, <1>2, <1>4, QueueStays, QueueIs
<1>6. InSequence'
  <2>1. ASSUME NEW p \in 1 .. Len(queue'), NEW q \in 1 .. Len(queue'), p < q,
               SenderAt(p)' = SenderAt(q)'
        PROVE  Earlier(p, NrAt(q), queue[q].part[2])'
    <3>1. p + h < q + h /\ SenderAt(p + h) = SenderAt(q + h)
      BY <1>4, <1>5, <2>1
    <3>2. Earlier(p + h, NrAt(q + h), queue[q + h].part[2])
      BY <1>1, <1>5, <3>1 DEF InSequence
    <3>3. QED
      BY <1>5, <3>2 DEF Earlier
  <2>2. ASSUME NEW q \in 1 .. Len(queue'), Busy(SenderAt(q))'
        PROVE  Earlier(q, tx[SenderAt(q)].nr, tx[SenderAt(q)].count)'
    <3>1. Busy(SenderAt(q + h))
      BY <1>1, <1>5, <2>2 DEF Busy
    <3>2. Earlier(q + h, tx[SenderAt(q + h)].nr, tx[SenderAt(q + h)].count)
      BY <1>1, <1>5, <3>1 DEF InSequence
    <3>3. QED
      BY <1>1, <1>5, <3>2 DEF Earlier
  <2>3. QED
    BY <2>1, <2>2 DEF InSequence
<1>7. CASE routed' = routed
  <2>1. /\ RoutedOK' /\ RoutedInOrder' /\ PureRouted' = PureRouted
        /\ \A k \in PureRouted : /\ Beginning(k)' = Beginning(k) /\ By(k)' = By(k)
                                 /\ Beginning(k) \in Numbers
    BY <1>1, <1>2, <1>7, RoutedStays
  <2>2. ASSUME NEW k \in PureRouted
        PROVE  /\ \A q \in 1 .. Len(queue') : SenderAt(q)' = By(k)' => Beginning(k)' < NrAt(q)'
               /\ Busy(By(k))' => Beginning(k)' < tx'[By(k)'].nr
    <3>1. \A q \in 1 .. Len(queue') : SenderAt(q)' = By(k)' => Beginning(k)' < NrAt(q)'
      BY <1>1, <1>5, <2>1 DEF RoutedBefore
    <3>2. Busy(By(k))' => Beginning(k)' < tx'[By(k)'].nr
      BY <1>1, <2>1 DEF RoutedBefore, Busy
    <3>3. QED
      BY <3>1, <3>2
  <2>3. RoutedBefore'
    BY <2>1, <2>2 DEF RoutedBefore
  <2>4. QED
    BY <1>6, <2>1, <2>3
<1>8. CASE routed' # routed
  <2>1. h = 1 /\ Head(queue) = queue[1] /\ 1 \in 1 .. Len(queue)
    BY <1>4, <1>8
  <2>2. PICK n \in Numbers : \E i \in FramesOf(n) :
          Head(queue) = FrameOf(n, i) /\ \E x : RoutesOf(n, i, x)
    BY <1>4, <1>8, <2>1
  <2>3. PICK i \in FramesOf(n) : Head(queue) = FrameOf(n, i) /\ \E x : RoutesOf(n, i, x)
    BY <2>2
  <2>4. PICK x : RoutesOf(n, i, x)
    BY <2>3
  <2>5. /\ NrAt(1) = n /\ queue[1].part[2] = Offset(i) /\ SenderAt(1) = packets[n].by
    BY <2>1, <2>3 DEF FrameOf, NrAt, SenderAt
  <2>6. /\ x \in RoutedRecord /\ PartsOK(x.parts)
        /\ Pure(x.parts) => x = Whole(n) /\ x.parts[1][1] = n /\ i = Frames(packets[n].length)
        /\ routed' = Append(routed, x)
    BY <2>4 DEF RoutesOf
  <2>a. PICK L : L = Len(routed)
    OBVIOUS
  <2>7. /\ L \in Nat /\ Len(routed') = L + 1 /\ routed'[L + 1] = x
        /\ \A k \in 1 .. L : routed'[k] = routed[k]
    <3>1. routed \in Seq(RoutedRecord)
      BY <1>1 DEF TypeOK, RoutedRecord
    <3>2. QED
      BY <2>6, <2>a, <3>1, AppendIs
  <2>8. 1 .. Len(routed') = (1 .. L) \cup {L + 1} /\ L + 1 \notin 1 .. L
        /\ \A k \in 1 .. L : k < L + 1
    BY <2>7
  <2>9. \A k \in 1 .. L : /\ PartsOK(routed[k].parts)
                          /\ Pure(routed[k].parts) => routed[k] = Whole(routed[k].parts[1][1])
    BY <1>1, <2>a DEF RoutedOK, Beginning
  <2>10. ASSUME NEW k \in 1 .. L
         PROVE  /\ Beginning(k)' = Beginning(k) /\ By(k)' = By(k)
                /\ (k \in PureRouted' <=> k \in PureRouted)
    <3>1. Beginning(k)' = Beginning(k) /\ By(k)' = By(k)
      BY <1>1, <2>7 DEF Beginning, By
    <3>2. k \in PureRouted' <=> k \in PureRouted
      BY <2>7, <2>8, <2>a DEF PureRouted
    <3>3. QED
      BY <3>1, <3>2
  <2>11. (L + 1 \in PureRouted' <=> Pure(x.parts)) /\ Beginning(L + 1)' = x.parts[1][1]
    <3>1. L + 1 \in 1 .. Len(routed')
      BY <2>8
    <3>2. QED
      BY <2>7, <3>1 DEF PureRouted, Beginning
  <2>12. \A m \in Numbers : KeyOf(m)' = KeyOf(m) /\ Whole(m)' = Whole(m)
    BY <1>2, PacketsSame
  <2>13. RoutedOK'
    <3>1. ASSUME NEW k \in 1 .. Len(routed'), NEW r, r = routed'[k], PartsOK(r.parts),
                 Pure(r.parts) => r = Whole(r.parts[1][1])
          PROVE  /\ PartsOK(routed[k].parts)'
                 /\ Pure(routed[k].parts)' => routed'[k] = Whole(Beginning(k))'
      <4>1. PartsOK(r.parts)' /\ Whole(r.parts[1][1])' = Whole(r.parts[1][1])
        BY <1>1, <1>2, <3>1, SameParts
      <4>2. Whole(Beginning(k))' = Whole(r.parts[1][1])'
        BY <3>1 DEF Beginning, Whole
      <4>3. PartsOK(routed[k].parts)' /\ (Pure(routed[k].parts)' <=> Pure(r.parts))
        BY <3>1, <4>1 DEF PartsOK, Pure
      <4>4. QED
        BY <3>1, <4>1, <4>2, <4>3
    <3>2. ASSUME NEW k \in 1 .. Len(routed')
          PROVE  \E r : /\ r = routed'[k] /\ PartsOK(r.parts)
                        /\ Pure(r.parts) => r = Whole(r.parts[1][1])
      <4>1. CASE k \in 1 .. L
        BY <2>7, <2>9, <4>1
      <4>2. CASE k = L + 1
        BY <2>6, <2>7, <4>2
      <4>3. QED
        BY <2>8, <4>1, <4>2
    <3>3. ASSUME NEW k \in 1 .. Len(routed')
          PROVE  /\ PartsOK(routed[k].parts)'
                 /\ Pure(routed[k].parts)' => routed'[k] = Whole(Beginning(k))'
      BY <3>1, <3>2
    <3>4. QED
      BY <3>3 DEF RoutedOK
  <2>14. ASSUME L + 1 \in PureRouted'
         PROVE  /\ Beginning(L + 1)' = n /\ By(L + 1)' = SenderAt(1)
                /\ i = Frames(packets[n].length)
    <3>1. Beginning(L + 1)' = n /\ i = Frames(packets[n].length)
      BY <2>6, <2>11, <2>14
    <3>2. By(L + 1)' = SenderAt(1)
      BY <1>1, <2>5, <3>1 DEF By
    <3>3. QED
      BY <3>1, <3>2
  <2>15. RoutedInOrder'
    <3>1. ASSUME NEW j \in PureRouted', NEW k \in PureRouted', j < k, By(j)' = By(k)'
          PROVE  Beginning(j)' < Beginning(k)'
      <4>1. j \in 1 .. Len(routed') /\ k \in 1 .. Len(routed')
        BY DEF PureRouted
      <4>2. j \in 1 .. L
        BY <2>7, <2>8, <3>1, <4>1
      <4>3. j \in PureRouted /\ Beginning(j)' = Beginning(j) /\ By(j)' = By(j)
        BY <2>10, <3>1, <4>2
      <4>4. CASE k \in 1 .. L
        <5>1. k \in PureRouted /\ Beginning(k)' = Beginning(k) /\ By(k)' = By(k)
          BY <2>10, <3>1, <4>4
        <5>2. QED
          BY <1>1, <3>1, <4>3, <5>1 DEF RoutedInOrder
      <4>5. CASE k = L + 1
        <5>1. Beginning(k)' = n /\ By(j) = SenderAt(1)
          BY <2>14, <3>1, <4>3, <4>5
        <5>2. Beginning(j) < NrAt(1)
          BY <1>1, <2>1, <4>3, <5>1 DEF RoutedBefore
        <5>3. QED
          BY <2>5, <4>3, <5>1, <5>2
      <4>6. QED
        BY <2>8, <4>1, <4>4, <4>5
    <3>2. QED
      BY <3>1 DEF RoutedInOrder
  <2>16. RoutedBefore'
    <3>1. ASSUME NEW k \in PureRouted', k \in 1 .. L
          PROVE  /\ \A q \in 1 .. Len(queue') : SenderAt(q)' = By(k)' => Beginning(k)' < NrAt(q)'
                 /\ Busy(By(k))' => Beginning(k)' < tx'[By(k)'].nr
      <4>1. k \in PureRouted /\ Beginning(k)' = Beginning(k) /\ By(k)' = By(k)
        BY <2>10, <3>1
      <4>2. \A q \in 1 .. Len(queue') : SenderAt(q)' = By(k)' => Beginning(k)' < NrAt(q)'
        BY <1>1, <1>5, <4>1 DEF RoutedBefore
      <4>3. Busy(By(k))' => Beginning(k)' < tx'[By(k)'].nr
        BY <1>1, <4>1 DEF RoutedBefore, Busy
      <4>4. QED
        BY <4>2, <4>3
    <3>2. ASSUME L + 1 \in PureRouted'
          PROVE  /\ \A q \in 1 .. Len(queue') : SenderAt(q)' = By(L + 1)' => n < NrAt(q)'
                 /\ Busy(By(L + 1))' => n < tx'[By(L + 1)'].nr
      <4> DEFINE F == Frames(packets[n].length)
      <4>1. By(L + 1)' = SenderAt(1) /\ i = F
        BY <2>14, <3>2
      <4>2. F \in Nat \ {0} /\ n \in Nat
        <5>1. packets[n].length \in 0 .. 256 /\ n \in Nat
          BY <1>1, PacketIs
        <5>2. QED
          BY <5>1, FramesOfLength
      <4> HIDE DEF F
      <4>3. \A j \in Nat \ {0} : j <= F => ~(Offset(i) < Offset(j))
        BY <4>1, <4>2, OffsetsRise
      <4>4. ASSUME NEW q \in 1 .. Len(queue'), SenderAt(q)' = SenderAt(1)
            PROVE  n < NrAt(q)'
        <5>1. q + 1 \in 1 .. Len(queue) /\ 1 < q + 1
          BY <1>5, <2>1
        <5>2. SenderAt(q + 1) = SenderAt(1) /\ NrAt(q)' = NrAt(q + 1)
          BY <1>5, <2>1, <4>4
        <5>3. Earlier(1, NrAt(q + 1), queue[q + 1].part[2])
          BY <1>1, <2>1, <5>1, <5>2 DEF InSequence
        <5>4. CASE n = NrAt(q + 1)
          <6>1. PICK j \in FramesOf(NrAt(q + 1)) :
                  queue[q + 1].part = <<NrAt(q + 1), Offset(j)>> /\ j \in Nat \ {0}
            BY <1>1, <5>1, QueueIs
          <6>2. j <= F
            BY <4>2, <5>4, <6>1 DEF FramesOf, F
          <6>3. ~(Offset(i) < queue[q + 1].part[2])
            BY <4>3, <6>1, <6>2
          <6>4. NrAt(1) < NrAt(q + 1)
            BY <2>5, <5>3, <6>3 DEF Earlier
          <6>5. QED
            BY <2>5, <5>2, <6>4
        <5>5. CASE n # NrAt(q + 1)
          BY <2>5, <5>2, <5>3, <5>5 DEF Earlier
        <5>6. QED
          BY <5>4, <5>5
      <4>5. ASSUME Busy(By(L + 1))' PROVE n < tx'[By(L + 1)'].nr
        <5>1. PICK t : t = SenderAt(1)
          OBVIOUS
        <5>2. Busy(t) /\ By(L + 1)' = t /\ t \in Senders
          BY <1>1, <2>5, <4>1, <4>5, <5>1, PacketIs DEF Busy
        <5>3. Earlier(1, tx[t].nr, tx[t].count)
          BY <1>1, <2>1, <5>1, <5>2 DEF InSequence
        <5>4. SendingOK(t)
          BY <1>1, <5>2 DEF CanTypes
        <5>5. CASE tx[t].nr = n
          <6>1. NextFrame(t) \in 1 .. F /\ tx[t].count = Offset(NextFrame(t))
            BY <5>2, <5>4, <5>5 DEF SendingOK, FramesOf, F
          <6>2. ~(Offset(i) < tx[t].count)
            BY <4>2, <4>3, <6>1
          <6>3. QED
            BY <1>1, <2>5, <5>2, <5>3, <6>2 DEF Earlier
        <5>6. CASE tx[t].nr # n
          BY <1>1, <2>5, <5>2, <5>3, <5>6 DEF Earlier
        <5>7. QED
          BY <5>5, <5>6
      <4>6. QED
        BY <4>1, <4>4, <4>5
    <3>3. ASSUME NEW k \in PureRouted'
          PROVE  /\ \A q \in 1 .. Len(queue') : SenderAt(q)' = By(k)' => Beginning(k)' < NrAt(q)'
                 /\ Busy(By(k))' => Beginning(k)' < tx'[By(k)'].nr
      <4>1. k \in 1 .. L \/ k = L + 1
        BY <2>8 DEF PureRouted
      <4>2. CASE k \in 1 .. L
        BY <3>1, <4>2
      <4>3. CASE k = L + 1
        BY <2>14, <3>2, <4>3
      <4>4. QED
        BY <4>1, <4>2, <4>3
    <3>4. QED
      BY <3>3 DEF RoutedBefore
  <2>17. QED
    BY <1>6, <2>13, <2>15, <2>16
<1>9. QED
  BY <1>7, <1>8

LEMMA WholeInvariant == Spec => []WholeInv
<1>1. Init => WholeInv
  <2> SUFFICES ASSUME Init PROVE WholeInv
    OBVIOUS
  <2>1. CanTypes
    BY InitKeeps DEF KeepInv
  <2>2. Len(queue) = 0 /\ Len(routed) = 0
    BY DEF Init
  <2>3. RoutedOK /\ RoutedInOrder /\ InSequence /\ RoutedBefore
    BY <2>2 DEF RoutedOK, PureRouted, RoutedInOrder, InSequence, RoutedBefore
  <2>4. QED
    BY <2>1, <2>3 DEF WholeInv
<1>2. WholeInv /\ BuffersKept /\ [Next]_vars => WholeInv'
  <2> SUFFICES ASSUME WholeInv, BuffersKept, [Next]_vars PROVE WholeInv'
    OBVIOUS
  <2>1. CanTypes'
    BY NextKeeps DEF WholeInv, KeepInv
  <2>2. RoutedOK' /\ RoutedInOrder' /\ InSequence' /\ RoutedBefore'
    <3>1. CASE UNCHANGED vars
      <4>1. RoutedOK' /\ RoutedInOrder'
        BY <3>1 DEF vars, WholeInv, RoutedOK, RoutedInOrder, PureRouted, Beginning, By, PartsOK,
                    Numbers, KeyOf, Whole
      <4>2. InSequence /\ RoutedBefore /\ UNCHANGED <<tx, queue, routed, packets>>
        BY <3>1 DEF vars, WholeInv
      <4>3. InSequence'
        BY SMTT(30), <4>2 DEF InSequence, Busy, NrAt, SenderAt, Earlier
      <4>4. RoutedBefore'
        BY <4>2 DEF RoutedBefore, PureRouted, Beginning, By, Busy, NrAt, SenderAt
      <4>5. QED
        BY <4>1, <4>3, <4>4
    <3>2. QED
      BY <3>1, IdentWhole, SendWhole, ReceiveWhole DEF Next
  <2>3. QED
    BY <2>1, <2>2 DEF WholeInv
<1>3. KeepInv => BuffersKept
  BY DEF KeepInv
<1>4. QED
  BY <1>1, <1>2, <1>3, KeepInvariant, PTL DEF Spec

(* Two packets of one key are of one node, and a number of rounds apart.        *)
LEMMA SameKeyApart ==
  ASSUME CanTypes, NEW parts, PartsOK(parts), NEW j \in 1 .. Len(parts),
         parts[j][1] # parts[1][1]
  PROVE  TurnApart(parts[1], parts[j])
<1>1. /\ parts[1][1] \in Numbers /\ parts[j][1] \in Numbers
      /\ KeyOf(parts[j][1]) = KeyOf(parts[1][1])
  <2>1. 1 \in 1 .. Len(parts)
    BY DEF PartsOK
  <2>2. QED
    BY <2>1 DEF PartsOK
<1>2. PICK a \in Numbers, b \in Numbers : a = parts[1][1] /\ b = parts[j][1]
  BY <1>1
<1>3. /\ a \in Nat /\ b \in Nat /\ a # b
      /\ packets[a].ord \in Int /\ packets[b].ord \in Int
      /\ packets[a].ord \in Nat /\ packets[b].ord \in Nat
  BY <1>2, PacketIs DEF CanTypes
<1>4. Node[packets[a].by] = Node[packets[b].by] /\ packets[a].ord % Idents = packets[b].ord % Idents
  BY <1>1, <1>2 DEF KeyOf
<1>5. packets[a].ord # packets[b].ord
  <2>1. \A m, n \in Numbers : m < n /\ Node[packets[m].by] = Node[packets[n].by]
                                => packets[m].ord < packets[n].ord
    BY DEF CanTypes, Numbered, InOrderSent, Numbers
  <2>2. a < b \/ b < a
    BY <1>3
  <2>3. packets[a].ord < packets[b].ord \/ packets[b].ord < packets[a].ord
    BY <1>4, <2>1, <2>2
  <2>4. QED
    BY <1>3, <2>3
<1>6. (packets[a].ord - packets[b].ord) % Idents = 0
  <2>1. Idents \in Nat \ {0}
    BY CanAssumption
  <2>2. QED
    BY <1>3, <1>4, <2>1, RoundsApart
<1>7. QED
  BY <1>2, <1>4, <1>5, <1>6 DEF TurnApart

(* csp_can_process_frame, whatever frames are lost or run into each other: the     *)
(* router gets whole packets that were sent, those of one thread in order and     *)
(* once, until a node's identifiers go round.                                  *)
THEOREM RoutedAlwaysWhole == Spec => []RoutedWhole
<1>1. WholeInv => RoutedWhole
  <2> SUFFICES ASSUME WholeInv PROVE RoutedWhole
    OBVIOUS
  <2>1. CanTypes /\ RoutedOK /\ RoutedInOrder
    BY DEF WholeInv
  <2>2. ASSUME NEW k \in 1 .. Len(routed), ~Pure(routed[k].parts)
        PROVE  Mixed(k)
    <3>1. PICK j \in 1 .. Len(routed[k].parts) :
            routed[k].parts[j][1] # routed[k].parts[1][1]
      BY <2>2 DEF Pure
    <3>2. PartsOK(routed[k].parts)
      BY <2>1 DEF RoutedOK
    <3>3. TurnApart(routed[k].parts[1], routed[k].parts[j])
      BY <2>1, <3>1, <3>2, SameKeyApart
    <3>4. QED
      BY <3>3 DEF Mixed
  <2>3. \A k \in 1 .. Len(routed) : routed[k] = Whole(Beginning(k)) \/ Mixed(k)
    BY <2>1, <2>2 DEF RoutedOK
  <2>4. ASSUME NEW j \in {i \in 1 .. Len(routed) : ~Mixed(i)},
               NEW k \in {i \in 1 .. Len(routed) : ~Mixed(i)},
               j < k, packets[Beginning(j)].by = packets[Beginning(k)].by
        PROVE  Beginning(j) < Beginning(k)
    <3>1. j \in PureRouted /\ k \in PureRouted
      BY <2>2 DEF PureRouted
    <3>2. QED
      BY <2>1, <2>4, <3>1 DEF RoutedInOrder, By
  <2>5. QED
    BY <2>3, <2>4 DEF RoutedWhole
<1>2. QED
  BY <1>1, WholeInvariant, PTL

-----------------------------------------------------------------------------
(* Where nothing is lost.                                                     *)

LEMMA FramesDiffer ==
  ASSUME CanTypes, NEW n \in Numbers, NEW m \in Numbers, NEW i \in FramesOf(n), NEW j \in FramesOf(m),
         FrameOf(n, i) = FrameOf(m, j)
  PROVE  n = m /\ i = j
<1>1. <<n, Offset(i)>> = <<m, Offset(j)>>
  BY DEF FrameOf
<1>2. n = m /\ Offset(i) = Offset(j)
  BY <1>1
<1>3. packets[n].length \in 0 .. 256 /\ packets[m].length \in 0 .. 256
  BY PacketIs DEF CanTypes
<1>4. i \in Nat \ {0} /\ j \in Nat \ {0}
  BY <1>3, FramesOfLength DEF FramesOf
<1>5. i = j
  BY <1>2, <1>4, OffsetsRise
<1>6. QED
  BY <1>2, <1>5

LEMMA WholeBegins ==
  ASSUME CanTypes, NEW n \in Numbers
  PROVE  /\ Whole(n).parts[1] = <<n, 0>> /\ Whole(n).parts[1][1] = n
         /\ Frames(packets[n].length) \in FramesOf(n) /\ 1 \in FramesOf(n)
         /\ \A i \in FramesOf(n) : i \in Nat /\ i >= 1 /\ i <= Frames(packets[n].length)
         /\ Frames(packets[n].length) \in Nat
<1>1. packets[n].length \in 0 .. 256
  BY PacketIs DEF CanTypes
<1>2. Frames(packets[n].length) \in 1 .. 33 /\ 1 \in 1 .. Frames(packets[n].length)
  BY <1>1, FramesOfLength
<1>3. Whole(n).parts[1] = <<n, 0>>
  BY <1>2 DEF Whole
<1>4. QED
  BY <1>2, <1>3 DEF FramesOf

(* What an element holds.                                                    *)
LEMMA HolderIs ==
  ASSUME WholeInv, KeysInTurn, NEW e \in 1 .. Elements, pbuf[e].used
  PROVE  LET n == pbuf[e].parts[1][1]
             m == Len(pbuf[e].parts) IN
         /\ Holds(e, n) /\ n \in Numbers /\ pbuf[e].key = KeyOf(n) /\ ~Arrived(n)
         /\ m \in Nat /\ m >= 1 /\ m < Frames(packets[n].length)
         /\ pbuf[e].length = packets[n].length /\ pbuf[e].rx_count = 8 * m - 6
         /\ pbuf[e].remain = Frames(packets[n].length) - m /\ Pure(pbuf[e].parts)
         /\ pbuf[e].parts \in Seq(Parts) /\ pbuf[e] \in ElementRecord
         /\ \A j \in 1 .. m : pbuf[e].parts[j] = <<n, Offset(j)>>
<1> DEFINE b == pbuf[e]
           n == b.parts[1][1]
           m == Len(b.parts)
<1>1. CanTypes
  BY DEF WholeInv
<1>2. b \in ElementRecord /\ BuiltOK(b) /\ b.rx_count # b.length
  BY <1>1, ElementIs
<1>3. Pure(b.parts) /\ ~Arrived(n)
  BY DEF KeysInTurn
<1>4. b.parts \in Seq(Parts) /\ m \in Nat
  BY <1>2, LenProperties DEF ElementRecord
<1>5. m >= 1 /\ 1 \in 1 .. m
  BY <1>2 DEF BuiltOK, PartsOK
<1>6. n \in Numbers
  BY <1>2, <1>5 DEF BuiltOK, PartsOK
<1>7. Frames(packets[n].length) \in Nat
  BY <1>1, <1>6, WholeBegins
<1>8. /\ b.key = KeyOf(n) /\ b.length = packets[n].length
      /\ m <= Frames(b.length) /\ b.remain = Frames(b.length) - m
      /\ b.rx_count = IF m < Frames(b.length) THEN 8 * m - 6 ELSE b.length
      /\ \A j \in 1 .. m : b.parts[j] = <<n, Offset(j)>>
  BY <1>2, <1>3 DEF BuiltOK
<1>9. m < Frames(packets[n].length)
  BY <1>2, <1>4, <1>7, <1>8
<1>10. QED
  BY <1>2, <1>3, <1>4, <1>5, <1>6, <1>8, <1>9 DEF Holds

(* The frame at the head of the queue is the next one of its packet, and the       *)
(* element with its key, if there is one, is its packet's.                       *)
LEMMA HeadIsNext ==
  ASSUME WholeInv, Accounted, KeysInTurn, queue # <<>>, NEW n \in Numbers, NEW i \in FramesOf(n),
         Head(queue) = FrameOf(n, i)
  PROVE  /\ ~Arrived(n) /\ i <= SentFrames(n)
         /\ \A j \in FramesOf(n) : Processed(n, j) <=> j < i
         /\ i = 1 => Bound(KeyOf(n)) = {}
         /\ \A e \in Bound(KeyOf(n)) : Holds(e, n) /\ i = Len(pbuf[e].parts) + 1
         /\ i > 1 => Bound(KeyOf(n)) # {}
         /\ \A q \in 1 .. Len(queue) : q > 1 => queue[q] # FrameOf(n, i)
<1>1. CanTypes /\ TypeOK
  BY DEF WholeInv, CanTypes
<1>2. /\ Len(queue) \in Nat \ {0} /\ Head(queue) = queue[1] /\ 1 \in 1 .. Len(queue)
      /\ queue[1] = FrameOf(n, i)
  <2>1. queue \in Seq(FrameRecord)
    BY <1>1 DEF TypeOK, FrameRecord
  <2>2. Len(queue) \in Nat \ {0} /\ Head(queue) = queue[1]
    BY <2>1, TailIs
  <2>3. QED
    BY <2>2
<1>3. /\ i \in Nat /\ i >= 1 /\ i <= Frames(packets[n].length) /\ Frames(packets[n].length) \in Nat
      /\ NrAt(1) = n /\ queue[1].part[2] = Offset(i) /\ queue[1].key = KeyOf(n)
  BY <1>1, <1>2, WholeBegins DEF NrAt, FrameOf
<1>4. InQueue(n, i) /\ ~Processed(n, i) /\ i <= SentFrames(n)
  <2>1. InQueue(n, i)
    BY <1>2 DEF InQueue
  <2>2. QED
    BY <2>1 DEF Accounted
<1>5. ~Arrived(n) /\ \A e \in 1 .. Elements : Holds(e, n) => ~(i <= Len(pbuf[e].parts))
  BY <1>4 DEF Processed
<1>6. ASSUME NEW q \in 1 .. Len(queue), q > 1, queue[q].key = KeyOf(n)
      PROVE  n < NrAt(q) \/ (NrAt(q) = n /\ Offset(i) < queue[q].part[2])
  <2>1. Earlier(1, NrAt(q), queue[q].part[2])
    BY <1>2, <1>3, <1>6 DEF KeysInTurn
  <2>2. QED
    BY <1>3, <2>1 DEF Earlier
<1>7. ASSUME NEW q \in 1 .. Len(queue), q > 1, NEW j \in FramesOf(n), j <= i, queue[q] = FrameOf(n, j)
      PROVE  FALSE
  <2>1. queue[q].key = KeyOf(n) /\ NrAt(q) = n /\ queue[q].part[2] = Offset(j)
    BY <1>7 DEF FrameOf, NrAt
  <2>2. n \in Nat /\ j \in Nat \ {0} /\ i \in Nat \ {0}
    <3>1. j \in Nat /\ j >= 1
      BY <1>1, WholeBegins
    <3>2. QED
      BY <1>1, <1>3, <3>1, PacketIs
  <2>3. Offset(i) < Offset(j)
    BY <1>6, <1>7, <2>1, <2>2
  <2>4. QED
    BY <1>7, <2>2, <2>3, OffsetsRise
<1>8. ASSUME NEW j \in FramesOf(n), j < i
      PROVE  Processed(n, j)
  <2>1. j \in Nat /\ j >= 1
    BY <1>1, WholeBegins
  <2>2. j <= SentFrames(n) => InQueue(n, j) \/ Processed(n, j)
    BY DEF Accounted
  <2>3. j <= SentFrames(n)
    <3>1. SentFrames(n) \in Int
      <4>1. CASE tx[packets[n].by].nr = n
        <5>1. packets[n].by \in Senders /\ n \in Nat \ {0}
          BY <1>1, PacketIs
        <5>2. SendingOK(packets[n].by) /\ Busy(packets[n].by)
          BY <1>1, <4>1, <5>1 DEF CanTypes, Busy
        <5>3. NextFrame(packets[n].by) \in FramesOf(n)
          BY <4>1, <5>2 DEF SendingOK
        <5>4. NextFrame(packets[n].by) \in Nat
          BY <1>1, <5>3, WholeBegins
        <5>5. QED
          BY <4>1, <5>4 DEF SentFrames
      <4>2. CASE tx[packets[n].by].nr # n
        BY <1>3, <4>2 DEF SentFrames
      <4>3. QED
        BY <4>1, <4>2
    <3>2. QED
      BY <1>3, <1>4, <1>8, <2>1, <3>1
  <2>4. ASSUME InQueue(n, j) PROVE FALSE
    <3>1. PICK q \in 1 .. Len(queue) : queue[q] = FrameOf(n, j)
      BY <2>4 DEF InQueue
    <3>2. q = 1 \/ q > 1
      BY <1>2
    <3>3. q # 1
      <4>1. i # j
        BY <1>3, <1>8, <2>1
      <4>2. QED
        BY <1>1, <1>2, <3>1, <4>1, FramesDiffer
    <3>4. QED
      BY <1>3, <1>7, <1>8, <2>1, <3>1, <3>2, <3>3
  <2>5. QED
    BY <2>2, <2>3, <2>4
<1>9. ASSUME NEW d \in Bound(KeyOf(n))
      PROVE  Holds(d, n) /\ i = Len(pbuf[d].parts) + 1
  <2>1. d \in 1 .. Elements /\ pbuf[d].used /\ pbuf[d].key = KeyOf(n)
    BY DEF Bound
  <2> DEFINE m == pbuf[d].parts[1][1]
             l == Len(pbuf[d].parts)
             F == Frames(packets[m].length)
  <2>2. /\ Holds(d, m) /\ m \in Numbers /\ KeyOf(m) = KeyOf(n) /\ ~Arrived(m)
        /\ l \in Nat /\ l >= 1 /\ l < F
    BY <2>1, HolderIs
  <2>3. m <= n
    BY <1>2, <1>3, <2>1 DEF KeysInTurn
  <2>4. m \in Nat /\ n \in Nat /\ F \in FramesOf(m) /\ F \in Nat
    BY <1>1, <2>2, PacketIs, WholeBegins
  <2> HIDE DEF m, l, F
  <2>5. m = n
    <3>1. SUFFICES ASSUME m < n PROVE FALSE
      BY <2>3, <2>4
    <3>2. ~Processed(m, F)
      <4>1. ASSUME NEW e \in 1 .. Elements, Holds(e, m), F <= Len(pbuf[e].parts)
            PROVE  FALSE
        <5>1. pbuf[e].used /\ pbuf[e].parts[1][1] = m
          BY <4>1 DEF Holds
        <5>2. pbuf[e].key = KeyOf(m)
          BY <5>1, HolderIs
        <5>3. e = d
          BY <2>1, <2>2, <5>1, <5>2 DEF KeysInTurn
        <5>4. QED
          BY <2>2, <2>4, <4>1, <5>3 DEF l
      <4>2. QED
        BY <2>2, <4>1 DEF Processed
    <3>3. CASE InQueue(m, F)
      <4>1. PICK q \in 1 .. Len(queue) : queue[q] = FrameOf(m, F)
        BY <3>3 DEF InQueue
      <4>2. NrAt(q) = m /\ queue[q].key = KeyOf(n)
        BY <2>2, <4>1 DEF NrAt, FrameOf
      <4>3. q > 1
        BY <1>2, <1>3, <2>4, <3>1, <4>2
      <4>4. n < m \/ m = n
        BY <1>6, <4>2, <4>3
      <4>5. QED
        BY <2>4, <3>1, <4>4
    <3>4. CASE ~InQueue(m, F)
      <4>1. ~(F <= SentFrames(m))
        BY <2>2, <2>4, <3>2, <3>4 DEF Accounted
      <4>2. tx[packets[m].by].nr = m
        BY <2>4, <4>1 DEF SentFrames, F
      <4>3. packets[m].by \in Senders /\ m \in Nat \ {0}
        BY <1>1, <2>2, PacketIs
      <4>4. Busy(packets[m].by) /\ SendingOK(packets[m].by)
        BY <1>1, <4>2, <4>3 DEF Busy, CanTypes
      <4>5. Key(packets[m].by) = KeyOf(m)
        BY <4>2, <4>4 DEF SendingOK
      <4>6. n <= tx[packets[m].by].nr
        BY <2>2, <4>3, <4>4, <4>5 DEF KeysInTurn
      <4>7. QED
        BY <2>4, <3>1, <4>2, <4>6
    <3>5. QED
      BY <3>3, <3>4
  <2>6. l < i
    BY <1>3, <1>5, <2>1, <2>2, <2>5 DEF l
  <2>7. i <= l + 1
    <3>1. SUFFICES ASSUME l + 1 < i PROVE FALSE
      BY <1>3, <2>2
    <3>2. l + 1 \in FramesOf(n)
      BY <1>3, <2>2, <3>1 DEF FramesOf
    <3>3. Processed(n, l + 1)
      BY <1>8, <3>1, <3>2
    <3>4. PICK e \in 1 .. Elements : Holds(e, n) /\ l + 1 <= Len(pbuf[e].parts)
      BY <1>5, <3>3 DEF Processed
    <3>5. pbuf[e].used /\ pbuf[e].parts[1][1] = n
      BY <3>4 DEF Holds
    <3>6. pbuf[e].key = KeyOf(n)
      BY <3>5, HolderIs
    <3>7. e = d
      BY <2>1, <3>5, <3>6 DEF KeysInTurn
    <3>8. QED
      BY <2>2, <3>4, <3>7 DEF l
  <2>8. QED
    BY <1>3, <2>2, <2>5, <2>6, <2>7 DEF l
<1>10. ASSUME i > 1
       PROVE  Bound(KeyOf(n)) # {}
  <2>1. 1 \in FramesOf(n)
    BY <1>1, WholeBegins
  <2>2. Processed(n, 1)
    BY <1>8, <1>10, <2>1
  <2>3. PICK e \in 1 .. Elements : Holds(e, n)
    BY <1>5, <2>2 DEF Processed
  <2>4. pbuf[e].used /\ pbuf[e].parts[1][1] = n
    BY <2>3 DEF Holds
  <2>5. pbuf[e].key = KeyOf(n)
    BY <2>4, HolderIs
  <2>6. QED
    BY <2>4, <2>5 DEF Bound
<1>11. i = 1 => Bound(KeyOf(n)) = {}
  <2>1. SUFFICES ASSUME i = 1, NEW d \in Bound(KeyOf(n)) PROVE FALSE
    OBVIOUS
  <2>2. 1 = Len(pbuf[d].parts) + 1
    BY <1>9, <2>1
  <2>3. d \in 1 .. Elements /\ pbuf[d].used
    BY DEF Bound
  <2>4. Len(pbuf[d].parts) \in Nat /\ Len(pbuf[d].parts) >= 1
    BY <2>3, HolderIs
  <2>5. QED
    BY <2>2, <2>4
<1>12. ASSUME NEW j \in FramesOf(n), Processed(n, j)
       PROVE  j < i
  <2>1. PICK e \in 1 .. Elements : Holds(e, n) /\ j <= Len(pbuf[e].parts)
    BY <1>5, <1>12 DEF Processed
  <2>2. pbuf[e].used /\ pbuf[e].parts[1][1] = n
    BY <2>1 DEF Holds
  <2>3. Len(pbuf[e].parts) \in Nat
    BY <2>2, HolderIs
  <2>4. Len(pbuf[e].parts) < i
    BY <1>3, <1>5, <2>1, <2>3
  <2>5. j \in Nat
    BY <1>1, WholeBegins
  <2>6. QED
    BY <1>3, <2>1, <2>3, <2>4, <2>5
<1>13. QED
  BY <1>3, <1>4, <1>5, <1>7, <1>8, <1>9, <1>10, <1>11, <1>12

(* The frame joins its packet in an element of its own, pure.                  *)
Joins(e, n, i, b) ==
  /\ b \in ElementRecord /\ BuiltOK(b) /\ Pure(b.parts) /\ b.parts[1][1] = n
  /\ Len(b.parts) = i /\ b.key = KeyOf(n)
  /\ Keep(e, b)
  /\ pbuf[e].used => Holds(e, n)
  /\ \A d \in Bound(KeyOf(n)) : d = e

LEMMA TakenInTurn ==
  ASSUME WholeInv, Accounted, KeysInTurn, ProcessFrame, ~lossy'
  PROVE  \E n \in Numbers : \E i \in FramesOf(n) :
           Head(queue) = FrameOf(n, i) /\ \E e \in 1 .. Elements : \E b : Joins(e, n, i, b)
<1>1. CanTypes /\ TypeOK /\ queue # <<>>
  BY DEF WholeInv, CanTypes, ProcessFrame
<1>2. PICK n \in Numbers : \E i \in FramesOf(n) :
        /\ Head(queue) = FrameOf(n, i) /\ n <= MaxPackets
        /\ \/ Ignores(n, i)
           \/ \E e \in 1 .. Elements : Drops(e, n, i)
           \/ \E e \in 1 .. Elements : Takes(e, n, i)
  BY <1>1, ProcessCases
<1>3. PICK i \in FramesOf(n) :
        /\ Head(queue) = FrameOf(n, i)
        /\ \/ Ignores(n, i)
           \/ \E e \in 1 .. Elements : Drops(e, n, i)
           \/ \E e \in 1 .. Elements : Takes(e, n, i)
  BY <1>2
<1>4. /\ i = 1 => Bound(KeyOf(n)) = {}
      /\ \A e \in Bound(KeyOf(n)) : Holds(e, n) /\ i = Len(pbuf[e].parts) + 1
      /\ i > 1 => Bound(KeyOf(n)) # {}
  BY <1>1, <1>3, HeadIsNext
<1>5. ~Ignores(n, i)
  BY <1>4 DEF Ignores
<1>6. ASSUME NEW e \in 1 .. Elements, Drops(e, n, i)
      PROVE  FALSE
  <2> DEFINE m == Len(pbuf[e].parts)
             len == packets[n].length
             F == Frames(len)
  <2>1. e \in Bound(KeyOf(n)) /\ pbuf[e].used /\ i > 1 /\ ~InTurn(e, FrameOf(n, i))
    BY <1>6 DEF Drops, Bound
  <2>2. Holds(e, n) /\ i = m + 1 /\ pbuf[e].parts[1][1] = n
    BY <1>4, <2>1 DEF Holds
  <2>3. /\ m \in Nat /\ m >= 1 /\ pbuf[e].length = len /\ pbuf[e].rx_count = 8 * m - 6
        /\ pbuf[e].remain = F - m
    BY <2>1, <2>2, HolderIs
  <2>4. len \in 0 .. 256 /\ i \in 1 .. F /\ F \in 1 .. 33
    BY <1>1, PacketIs, FramesOfLength DEF FramesOf
  <2>5. /\ i < F => Offset(i) + BytesOf(len, i) = 8 * i - 6 /\ 8 * i - 6 < len
        /\ i = F => Offset(i) + BytesOf(len, i) = len
        /\ BytesOf(len, i) \in 0 .. 8
    BY <2>4, FrameSpan
  <2>6. FrameOf(n, i).remain = F - i /\ FrameOf(n, i).bytes = BytesOf(len, i)
    BY DEF FrameOf
  <2> HIDE DEF m, len, F
  <2>7. Offset(i) = 8 * i - 14
    BY <2>1 DEF Offset
  <2>8. FrameOf(n, i).remain = pbuf[e].remain - 1
    <3>1. F - i = (F - m) - 1
      BY <2>2, <2>3, <2>4
    <3>2. QED
      BY <2>3, <2>6, <3>1
  <2>9. pbuf[e].rx_count + FrameOf(n, i).bytes <= pbuf[e].length
    <3>1. 8 * m - 6 = Offset(i)
      BY <2>2, <2>3, <2>7
    <3>2. Offset(i) + BytesOf(len, i) <= len
      BY <2>4, <2>5, <2>7
    <3>3. QED
      BY <2>3, <2>6, <3>1, <3>2
  <2>10. QED
    BY <2>1, <2>8, <2>9 DEF InTurn
<1>7. ASSUME NEW e \in 1 .. Elements, Takes(e, n, i)
      PROVE  Joins(e, n, i, WithFrame(e, n, i))
  <2> DEFINE b == WithFrame(e, n, i)
  <2>1. /\ BuiltOK(b) /\ b \in ElementRecord /\ b.key = KeyOf(n)
        /\ i = 1 => b.parts = <<<<n, Offset(1)>>>>
        /\ i > 1 => e \in Bound(KeyOf(n)) /\ b.parts = Append(pbuf[e].parts, <<n, Offset(i)>>)
        /\ i = 1 \/ i > 1
    BY <1>1, <1>2, <1>7, TakesOK
  <2>2. Keep(e, b) /\ (e \in Bound(KeyOf(n)) \/ (i = 1 /\ e \in Unused))
    BY <1>7 DEF Takes
  <2> HIDE DEF b
  <2>3. pbuf[e].used => Holds(e, n)
    BY <1>4, <2>2 DEF Unused
  <2>4. ASSUME NEW d \in Bound(KeyOf(n)) PROVE d = e
    <3>1. e \in Bound(KeyOf(n))
      BY <1>4, <2>2, <2>4
    <3>2. QED
      BY <2>4, <3>1 DEF Bound, KeysInTurn
  <2>5. Pure(b.parts) /\ b.parts[1][1] = n /\ Len(b.parts) = i
    <3>1. CASE i = 1
      <4>1. Len(b.parts) = 1 /\ b.parts[1] = <<n, Offset(1)>>
        BY <2>1, <3>1
      <4>2. QED
        BY <3>1, <4>1 DEF Pure
    <3>2. CASE i > 1
      <4>1. e \in Bound(KeyOf(n)) /\ b.parts = Append(pbuf[e].parts, <<n, Offset(i)>>)
        BY <2>1, <3>2
      <4>2. Holds(e, n) /\ i = Len(pbuf[e].parts) + 1 /\ pbuf[e].used /\ pbuf[e].parts[1][1] = n
        BY <1>4, <4>1 DEF Holds
      <4>3. /\ Pure(pbuf[e].parts) /\ pbuf[e].parts \in Seq(Parts)
            /\ Len(pbuf[e].parts) \in Nat /\ Len(pbuf[e].parts) >= 1
        BY <4>2, HolderIs
      <4>4. /\ Len(b.parts) = i
            /\ \A k \in 1 .. Len(pbuf[e].parts) : b.parts[k] = pbuf[e].parts[k]
            /\ b.parts[i] = <<n, Offset(i)>>
        <5>1. Append(pbuf[e].parts, <<n, Offset(i)>>) \in Seq(Parts)
          BY <2>1, <4>1 DEF ElementRecord
        <5>2. QED
          BY <4>1, <4>2, <4>3, <5>1, AppendProperties
      <4>5. 1 \in 1 .. Len(pbuf[e].parts)
        BY <4>3
      <4>6. b.parts[1][1] = n
        BY <4>2, <4>4, <4>5
      <4>7. ASSUME NEW k \in 1 .. i PROVE b.parts[k][1] = n
        <5>1. CASE k = i
          BY <4>4, <5>1
        <5>2. CASE k \in 1 .. Len(pbuf[e].parts)
          <6>1. pbuf[e].parts[k][1] = pbuf[e].parts[1][1]
            BY <4>3, <5>2 DEF Pure
          <6>2. QED
            BY <4>2, <4>4, <5>2, <6>1
        <5>3. QED
          BY <4>2, <4>3, <5>1, <5>2
      <4>8. QED
        BY <4>4, <4>6, <4>7 DEF Pure
    <3>3. QED
      BY <2>1, <3>1, <3>2
  <2>6. QED
    BY <2>1, <2>2, <2>3, <2>4, <2>5 DEF Joins, b
<1>8. QED
  BY <1>3, <1>5, <1>6, <1>7

LEMMA ArrivedStays ==
  ASSUME PacketsKept, routed' = routed, NEW n \in Numbers
  PROVE  Arrived(n)' <=> Arrived(n)
<1>1. Whole(n)' = Whole(n)
  BY PacketsSame
<1>2. QED
  BY <1>1 DEF Arrived

LEMMA IdentArrive ==
  ASSUME WholeInv, Accounted, KeysInTurn, NEW s \in Senders, GetIdent(s), ~lossy'
  PROVE  Accounted' /\ KeysInTurn'
<1>1. /\ CanTypes /\ TypeOK /\ RoutedOK /\ ~Busy(s) /\ CanTypes'
      /\ queue' = queue /\ routed' = routed /\ pbuf' = pbuf
  BY IdentTypes DEF WholeInv, CanTypes, GetIdent
<1>2. PacketsKept
  BY <1>1, PacketsStay DEF Next
<1>3. PICK N : N = Len(packets) + 1
  OBVIOUS
<1>4. tx'[s].nr = N /\ tx'[s].ident = csp_can_id[Node[s]] /\ ~tx'[s].begun
      /\ \A t \in Senders : t # s => tx'[t] = tx[t]
  <2>1. PICK len : tx' = [tx EXCEPT ![s] = [NoTx EXCEPT !.nr = N, !.length = len,
                                                        !.ident = csp_can_id[Node[s]]]]
    BY <1>3 DEF GetIdent
  <2>2. tx \in [Senders -> TxRecord]
    BY <1>1 DEF TypeOK, TxRecord
  <2>3. QED
    BY <2>1, <2>2 DEF NoTx
<1>5. \A m \in Numbers : m \in Nat /\ m < N
  BY <1>1, <1>3, PacketIs
<1>6. /\ Numbers' = Numbers \cup {N} /\ packets'[N].by = s /\ N \in Nat \ {0} /\ N \notin Numbers
      /\ Frames(packets'[N].length) \in 1 .. 33 /\ 1 \in 1 .. Frames(packets'[N].length)
  <2>1. packets \in Seq(PacketRecord) /\ Len(packets) \in Nat
    BY <1>1, LenProperties DEF TypeOK, PacketRecord
  <2>2. \E x : packets' = Append(packets, x) /\ x.by = s /\ x.length \in 0 .. 256
    <3>1. PICK len \in Lengths : \E c : packets' = Append(packets, [length |-> len, by |-> s, ord |-> c])
      BY DEF GetIdent
    <3>2. PICK c : packets' = Append(packets, [length |-> len, by |-> s, ord |-> c])
      BY <3>1
    <3>3. len \in 0 .. 256
      BY CanAssumption
    <3>4. PICK r : r = [length |-> len, by |-> s, ord |-> c]
      OBVIOUS
    <3>5. packets' = Append(packets, r) /\ r.by = s /\ r.length \in 0 .. 256
      BY <3>2, <3>3, <3>4
    <3>6. QED
      BY <3>5
  <2>a. PICK x : packets' = Append(packets, x) /\ x.by = s /\ x.length \in 0 .. 256
    BY <2>2
  <2>3. Len(packets') = N /\ packets'[N] = x
    BY <1>3, <2>1, <2>a, AppendProperties
  <2>4. Frames(packets'[N].length) \in 1 .. 33 /\ 1 \in 1 .. Frames(packets'[N].length)
    <3>1. PICK len \in 0 .. 256 : len = x.length
      BY <2>a
    <3>2. Frames(len) \in 1 .. 33 /\ 1 \in 1 .. Frames(len)
      BY FramesOfLength
    <3>3. packets'[N].length = len
      BY <2>3, <3>1
    <3>4. QED
      BY <3>2, <3>3
  <2>5. QED
    BY <1>3, <2>1, <2>a, <2>3, <2>4 DEF Numbers
<1>7. \A m \in Numbers : /\ KeyOf(m)' = KeyOf(m) /\ FramesOf(m)' = FramesOf(m)
                         /\ Whole(m)' = Whole(m) /\ packets'[m] = packets[m]
                         /\ \A j : FrameOf(m, j)' = FrameOf(m, j)
                         /\ (Arrived(m)' <=> Arrived(m))
  BY <1>1, <1>2, PacketsSame, ArrivedStays DEF PacketsKept
<1>8. KeyOf(N)' = Key(s)' /\ Key(s)' = <<Node[s], csp_can_id[Node[s]]>>
  <2>1. SendingOK(s)' /\ Busy(s)'
    BY <1>1, <1>4, <1>5, <1>6 DEF CanTypes, Busy
  <2>2. Key(s)' = KeyOf(tx[s].nr)'
    BY <2>1 DEF SendingOK
  <2>3. Key(s)' = KeyOf(N)'
    BY <1>4, <2>2 DEF KeyOf
  <2>4. QED
    BY <1>4, <2>3 DEF Key
<1>9. \A e \in 1 .. Elements : \A m : Holds(e, m)' <=> Holds(e, m)
  BY <1>1 DEF Holds
<1>10. \A m \in Numbers : \A i : /\ (InQueue(m, i)' <=> InQueue(m, i))
                                 /\ (Processed(m, i)' <=> Processed(m, i))
  BY <1>1, <1>7, <1>9 DEF InQueue, Processed
<1>11. \A m \in Numbers : SentFrames(m)' = SentFrames(m)
  <2>1. ASSUME NEW m \in Numbers, packets[m].by = s
        PROVE  SentFrames(m)' = SentFrames(m)
    <3>1. tx'[s].nr # m /\ tx[s].nr # m
      <4>1. m # 0 /\ m \in Nat
        BY <1>1, PacketIs
      <4>2. tx[s].nr \in Nat /\ ~(tx[s].nr > 0)
        <5>1. tx[s].nr \in 0 .. MaxPackets /\ MaxPackets \in Nat
          BY <1>1, CanAssumption DEF TypeOK
        <5>2. QED
          BY <1>1, <5>1 DEF Busy
      <4>3. QED
        BY <1>4, <1>5, <4>1, <4>2
    <3>2. QED
      BY <1>7, <2>1, <3>1 DEF SentFrames
  <2>2. ASSUME NEW m \in Numbers, packets[m].by # s
        PROVE  SentFrames(m)' = SentFrames(m)
    <3>1. packets[m].by \in Senders
      BY <1>1, PacketIs
    <3>2. tx'[packets[m].by] = tx[packets[m].by] /\ packets'[m] = packets[m]
      BY <1>4, <1>7, <2>2, <3>1
    <3>3. QED
      BY <3>2 DEF SentFrames, NextFrame
  <2>3. QED
    BY <2>1, <2>2
<1>12. ASSUME NEW i \in FramesOf(N)'
       PROVE  ~(InQueue(N, i)') /\ ~(Processed(N, i)') /\ ~(i <= SentFrames(N)')
  <2>1. ~(InQueue(N, i)')
    <3>1. SUFFICES ASSUME NEW q \in 1 .. Len(queue), queue[q] = FrameOf(N, i)' PROVE FALSE
      BY <1>1 DEF InQueue
    <3>2. NrAt(q) = N
      BY <3>1 DEF NrAt, FrameOf
    <3>3. QED
      BY <1>1, <1>6, <3>2, QueueIs
  <2>2. ~(Arrived(N)')
    <3>1. SUFFICES ASSUME NEW k \in 1 .. Len(routed), routed[k] = Whole(N)' PROVE FALSE
      BY <1>1 DEF Arrived
    <3>2. Whole(N)'.parts[1][1] = N
      BY <1>6 DEF Whole
    <3>3. routed[k].parts[1][1] \in Numbers
      <4>1. PartsOK(routed[k].parts)
        BY <1>1 DEF RoutedOK
      <4>2. 1 \in 1 .. Len(routed[k].parts)
        BY <4>1 DEF PartsOK
      <4>3. QED
        BY <4>1, <4>2 DEF PartsOK
    <3>4. QED
      BY <1>6, <3>1, <3>2, <3>3
  <2>3. \A e \in 1 .. Elements : ~(Holds(e, N)')
    <3>1. SUFFICES ASSUME NEW e \in 1 .. Elements, Holds(e, N) PROVE FALSE
      BY <1>9
    <3>2. pbuf[e].used /\ pbuf[e].parts[1][1] = N
      BY <3>1 DEF Holds
    <3>3. QED
      BY <1>6, <3>2, HolderIs
  <2>4. ~(Processed(N, i)')
    BY <2>2, <2>3 DEF Processed
  <2>5. SentFrames(N)' = 0
    <3>1. NextFrame(s)' = 1
      BY <1>4 DEF NextFrame
    <3>2. SentFrames(N)' = NextFrame(s)' - 1
      BY <1>4, <1>6 DEF SentFrames, NextFrame
    <3>3. QED
      BY <3>1, <3>2
  <2>6. i \in Nat /\ i >= 1
    BY <1>6 DEF FramesOf
  <2>7. QED
    BY <2>1, <2>4, <2>5, <2>6
<1>13. Accounted'
  <2>1. ASSUME NEW m \in Numbers', NEW i \in FramesOf(m)'
        PROVE  /\ (InQueue(m, i)' \/ Processed(m, i)') <=> i <= SentFrames(m)'
               /\ ~(InQueue(m, i)' /\ Processed(m, i)')
    <3>1. CASE m \in Numbers
      BY <1>7, <1>10, <1>11, <3>1 DEF Accounted
    <3>2. CASE m = N
      BY <1>12, <3>2
    <3>3. QED
      BY <1>6, <3>1, <3>2
  <2>2. QED
    BY <2>1 DEF Accounted
<1>14. ASSUME NEW t \in Senders, Busy(t)', NEW m \in Numbers', KeyOf(m)' = Key(t)'
       PROVE  m <= tx'[t].nr
  <2>1. CASE t = s
    <3>1. m \in Nat /\ m <= N
      BY <1>5, <1>6
    <3>2. QED
      BY <1>4, <2>1, <3>1
  <2>2. CASE t # s
    <3>1. tx'[t] = tx[t] /\ Busy(t) /\ Key(t)' = Key(t)
      BY <1>4, <1>14, <2>2 DEF Busy, Key
    <3>2. CASE m \in Numbers
      BY <1>7, <1>14, <3>1, <3>2 DEF KeysInTurn
    <3>3. CASE m = N
      <4>1. Key(t) = <<Node[s], csp_can_id[Node[s]]>>
        BY <1>8, <1>14, <3>1, <3>3
      <4>2. Node[t] = Node[s] /\ tx[t].ident = csp_can_id[Node[s]]
        BY <4>1 DEF Key
      <4>3. lossy'
        BY <3>1, <4>2 DEF GetIdent
      <4>4. QED
        BY <4>3
    <3>4. QED
      BY <1>6, <3>2, <3>3
  <2>3. QED
    BY <2>1, <2>2
<1>15. KeysInTurn'
  <2>1. \A p, q \in 1 .. Len(queue') :
          p < q /\ queue'[p].key = queue'[q].key => Earlier(p, NrAt(q), queue[q].part[2])'
    <3>1. \A p, q \in 1 .. Len(queue) :
            p < q /\ queue[p].key = queue[q].key => Earlier(p, NrAt(q), queue[q].part[2])
      BY DEF KeysInTurn
    <3>2. QED
      BY <1>1, <3>1 DEF Earlier, NrAt
  <2>2. ASSUME NEW e \in 1 .. Elements, pbuf'[e].used
        PROVE  /\ Pure(pbuf[e].parts)' /\ ~(Arrived(pbuf[e].parts[1][1])')
               /\ \A q \in 1 .. Len(queue') :
                    queue'[q].key = pbuf'[e].key => pbuf'[e].parts[1][1] <= NrAt(q)'
    <3>1. Pure(pbuf[e].parts)' /\ \A q \in 1 .. Len(queue') :
                    queue'[q].key = pbuf'[e].key => pbuf'[e].parts[1][1] <= NrAt(q)'
      BY <1>1, <2>2 DEF KeysInTurn, NrAt, Pure
    <3>2. PICK m : m = pbuf[e].parts[1][1]
      OBVIOUS
    <3>3. m \in Numbers /\ ~Arrived(m)
      BY <1>1, <2>2, <3>2, HolderIs
    <3>4. ~(Arrived(m)')
      BY <1>7, <3>3
    <3>5. QED
      BY <1>1, <3>1, <3>2, <3>4 DEF Arrived, Whole
  <2>3. \A d, e \in 1 .. Elements :
          pbuf'[d].used /\ pbuf'[e].used /\ pbuf'[d].key = pbuf'[e].key => d = e
    BY <1>1 DEF KeysInTurn
  <2>4. QED
    BY <1>14, <2>1, <2>2, <2>3 DEF KeysInTurn
<1>16. QED
  BY <1>13, <1>15

LEMMA SendArrive ==
  ASSUME WholeInv, Accounted, KeysInTurn, NEW s \in Senders, SendFrame(s), ~lossy'
  PROVE  Accounted' /\ KeysInTurn'
<1>1. /\ CanTypes /\ TypeOK /\ Busy(s) /\ SendingOK(s) /\ InSequence
      /\ packets' = packets /\ routed' = routed /\ pbuf' = pbuf
      /\ queue' = Append(queue, Frame(s)) /\ tx' = [tx EXCEPT ![s] = Sent(s, Frame(s))]
  BY DEF WholeInv, CanTypes, SendFrame
<1>2. PICK n \in Numbers : n = tx[s].nr
  BY <1>1, SendsNext
<1>3. PICK i \in FramesOf(n) : i = NextFrame(s)
  BY <1>1, <1>2, SendsNext
<1>4. /\ Frame(s) = FrameOf(n, i) /\ packets[n].by = s /\ n <= MaxPackets /\ Key(s) = KeyOf(n)
      /\ tx[s].count = Offset(i)
  BY <1>1, <1>2, <1>3, SendsNext DEF SendingOK
<1>5. PICK F : F = Frames(packets[n].length)
  OBVIOUS
<1>6. /\ i < F => /\ Sent(s, Frame(s)) = [tx[s] EXCEPT !.begun = TRUE, !.count = Offset(i + 1)]
                  /\ (Offset(i + 1) + 14) \div 8 = i + 1
      /\ i = F => Sent(s, Frame(s)) = NoTx
  <2>1. i + 1 > 1
    BY <1>1, WholeBegins
  <2>2. QED
    BY <1>1, <1>2, <1>3, <1>5, <2>1, SentIs
<1>7. i \in Nat /\ i >= 1 /\ i <= F /\ F \in Nat /\ n \in Nat /\ n # 0
  BY <1>1, <1>5, WholeBegins, PacketIs
<1>8. tx \in [Senders -> TxRecord]
  BY <1>1 DEF TypeOK, TxRecord
<1>9. /\ \A t \in Senders : t # s => tx'[t] = tx[t]
      /\ i < F => /\ tx'[s].nr = n /\ tx'[s].begun /\ tx'[s].count = Offset(i + 1)
                  /\ tx'[s].ident = tx[s].ident
      /\ i = F => tx'[s].nr = 0
  <2>1. CASE i = F
    BY <1>1, <1>6, <1>7, <1>8, <2>1 DEF NoTx
  <2>2. CASE i < F
    <3>1. tx'[s] = [tx[s] EXCEPT !.begun = TRUE, !.count = Offset(i + 1)]
      BY <1>1, <1>6, <1>8, <2>2
    <3>2. tx[s] \in TxRecord /\ i # F
      BY <1>7, <1>8, <2>2
    <3>3. tx'[s].nr = n /\ tx'[s].begun /\ tx'[s].count = Offset(i + 1) /\ tx'[s].ident = tx[s].ident
      BY <1>2, <3>1, <3>2 DEF TxRecord
    <3>4. QED
      BY <1>1, <1>8, <3>2, <3>3
  <2>3. QED
    BY <1>7, <2>1, <2>2
<1>10. PacketsKept
  BY <1>1 DEF PacketsKept, Numbers
<1>11. /\ Numbers' = Numbers
       /\ \A m \in Numbers : /\ KeyOf(m)' = KeyOf(m) /\ FramesOf(m)' = FramesOf(m)
                             /\ \A j : FrameOf(m, j)' = FrameOf(m, j)
                             /\ (Arrived(m)' <=> Arrived(m))
  BY <1>1, <1>10, PacketsSame, ArrivedStays DEF Numbers
<1>12. /\ Len(queue) \in Nat /\ Len(queue') = Len(queue) + 1 /\ queue'[Len(queue) + 1] = FrameOf(n, i)
       /\ \A q \in 1 .. Len(queue) : queue'[q] = queue[q]
  <2>1. queue \in Seq(FrameRecord)
    BY <1>1 DEF TypeOK, FrameRecord
  <2>2. FrameOf(n, i) \in FrameRecord
    BY <1>1, <1>4, FrameType
  <2>3. QED
    BY <1>1, <1>4, <2>1, <2>2, AppendIs
<1>13. \A m \in Numbers : \A j : Processed(m, j)' <=> Processed(m, j)
  BY <1>1, <1>11 DEF Processed, Holds
<1>14. ASSUME NEW m \in Numbers, NEW j \in FramesOf(m)
       PROVE  InQueue(m, j)' <=> InQueue(m, j) \/ (m = n /\ j = i)
  <2>1. ASSUME InQueue(m, j) PROVE InQueue(m, j)'
    BY <1>11, <1>12, <2>1 DEF InQueue
  <2>2. ASSUME m = n, j = i PROVE InQueue(m, j)'
    <3>1. Len(queue) + 1 \in 1 .. Len(queue')
      BY <1>12
    <3>2. QED
      BY <1>11, <1>12, <2>2, <3>1 DEF InQueue
  <2>3. ASSUME InQueue(m, j)' PROVE InQueue(m, j) \/ (m = n /\ j = i)
    <3>1. PICK q \in 1 .. Len(queue') : queue'[q] = FrameOf(m, j)
      BY <1>11, <2>3 DEF InQueue
    <3>2. CASE q \in 1 .. Len(queue)
      BY <1>12, <3>1, <3>2 DEF InQueue
    <3>3. CASE q = Len(queue) + 1
      BY <1>1, <1>12, <3>1, <3>3, FramesDiffer
    <3>4. QED
      BY <1>12, <3>2, <3>3
  <2>4. QED
    BY <2>1, <2>2, <2>3
<1>15. SentFrames(n) = i - 1 /\ SentFrames(n)' = i
  <2>1. SentFrames(n) = i - 1
    BY <1>2, <1>3, <1>4 DEF SentFrames
  <2>2. CASE i = F
    <3>1. tx'[s].nr # n /\ packets'[n] = packets[n]
      BY <1>1, <1>7, <1>9, <2>2
    <3>2. SentFrames(n)' = F
      BY <1>4, <1>5, <3>1 DEF SentFrames
    <3>3. QED
      BY <2>1, <2>2, <3>2
  <2>3. CASE i < F
    <3>1. NextFrame(s)' = i + 1
      BY <1>6, <1>9, <2>3 DEF NextFrame
    <3>2. SentFrames(n)' = NextFrame(s)' - 1
      BY <1>1, <1>4, <1>9, <2>3 DEF SentFrames, NextFrame
    <3>3. QED
      BY <1>7, <2>1, <3>1, <3>2
  <2>4. QED
    BY <1>7, <2>1, <2>2, <2>3
<1>16. ASSUME NEW m \in Numbers, m # n
       PROVE  SentFrames(m)' = SentFrames(m)
  <2>1. packets[m].by \in Senders /\ m # 0
    BY <1>1, PacketIs
  <2>2. CASE packets[m].by = s
    <3>1. tx[s].nr # m /\ tx'[s].nr # m
      BY <1>2, <1>7, <1>9, <1>16, <2>1
    <3>2. QED
      BY <1>1, <2>2, <3>1 DEF SentFrames
  <2>3. CASE packets[m].by # s
    <3>1. tx'[packets[m].by] = tx[packets[m].by]
      BY <1>9, <2>1, <2>3
    <3>2. QED
      BY <1>1, <3>1 DEF SentFrames, NextFrame
  <2>4. QED
    BY <2>2, <2>3
<1>17. Accounted'
  <2>1. ASSUME NEW m \in Numbers, NEW j \in FramesOf(m)
        PROVE  /\ (InQueue(m, j)' \/ Processed(m, j)') <=> j <= SentFrames(m)'
               /\ ~(InQueue(m, j)' /\ Processed(m, j)')
    <3>1. /\ (InQueue(m, j) \/ Processed(m, j)) <=> j <= SentFrames(m)
          /\ ~(InQueue(m, j) /\ Processed(m, j))
      BY DEF Accounted
    <3>2. CASE m # n
      BY <1>13, <1>14, <1>16, <3>1, <3>2
    <3>3. CASE m = n
      <4>1. j \in Nat
        BY <1>1, WholeBegins
      <4>2. CASE j = i
        BY <1>7, <1>13, <1>14, <1>15, <3>1, <3>3, <4>2
      <4>3. CASE j # i
        <5>1. j <= SentFrames(n)' <=> j <= SentFrames(n)
          BY <1>7, <1>15, <4>1, <4>3
        <5>2. QED
          BY <1>13, <1>14, <3>1, <3>3, <4>3, <5>1
      <4>4. QED
        BY <4>2, <4>3
    <3>4. QED
      BY <3>2, <3>3
  <2>2. QED
    BY <1>11, <2>1 DEF Accounted
<1>18. \A m \in Numbers : KeyOf(m) = KeyOf(n) => m <= n
  BY <1>1, <1>2, <1>4 DEF KeysInTurn
<1>19. ASSUME NEW p \in 1 .. Len(queue'), NEW q \in 1 .. Len(queue'), p < q,
              queue'[p].key = queue'[q].key
       PROVE  Earlier(p, NrAt(q), queue[q].part[2])'
  <2>1. p \in 1 .. Len(queue) /\ queue'[p] = queue[p]
    BY <1>12, <1>19
  <2>2. CASE q \in 1 .. Len(queue)
    <3>1. Earlier(p, NrAt(q), queue[q].part[2])
      BY <1>12, <1>19, <2>1, <2>2 DEF KeysInTurn
    <3>2. QED
      BY <1>12, <2>1, <2>2, <3>1 DEF Earlier, NrAt
  <2>3. CASE q = Len(queue) + 1
    <3>1. queue'[q].key = KeyOf(n) /\ queue'[q].part = <<n, Offset(i)>>
      BY <1>12, <2>3 DEF FrameOf
    <3>2. PICK m \in Numbers : m = NrAt(p)
      BY <1>1, <2>1, QueueIs
    <3>3. PICK j \in FramesOf(m) : queue[p] = FrameOf(m, j)
      BY <1>1, <2>1, <3>2, QueueIs
    <3>4. KeyOf(m) = KeyOf(n)
      BY <1>19, <2>1, <3>1, <3>3 DEF FrameOf
    <3>5. m <= n /\ m \in Nat
      BY <1>1, <1>18, <3>4, PacketIs
    <3>6. CASE m = n
      <4>1. SenderAt(p) = s
        BY <1>4, <3>2, <3>6 DEF SenderAt
      <4>2. Earlier(p, n, Offset(i))
        BY <1>1, <1>2, <1>4, <2>1, <4>1 DEF InSequence
      <4>3. QED
        BY <2>1, <3>1, <4>2 DEF Earlier, NrAt
    <3>7. CASE m # n
      <4>1. m < n
        BY <1>7, <3>5, <3>7
      <4>2. NrAt(p)' = m /\ NrAt(q)' = n
        BY <2>1, <3>1, <3>2 DEF NrAt
      <4>3. QED
        BY <4>1, <4>2 DEF Earlier
    <3>8. QED
      BY <3>6, <3>7
  <2>4. QED
    BY <1>12, <2>2, <2>3
<1>20. ASSUME NEW t \in Senders, Busy(t)', NEW m \in Numbers, KeyOf(m) = Key(t)'
       PROVE  m <= tx'[t].nr
  <2>1. CASE t = s
    <3>1. tx'[s].nr = n /\ tx'[s].ident = tx[s].ident
      BY <1>7, <1>9, <1>20, <2>1 DEF Busy
    <3>2. Key(s)' = KeyOf(n)
      BY <1>4, <3>1 DEF Key
    <3>3. QED
      BY <1>18, <1>20, <2>1, <3>1, <3>2
  <2>2. CASE t # s
    BY <1>9, <1>20, <2>2 DEF KeysInTurn, Busy, Key
  <2>3. QED
    BY <2>1, <2>2
<1>21. ASSUME NEW e \in 1 .. Elements, pbuf[e].used
       PROVE  /\ Pure(pbuf[e].parts) /\ ~(Arrived(pbuf[e].parts[1][1])')
              /\ \A q \in 1 .. Len(queue') :
                   queue'[q].key = pbuf[e].key => pbuf[e].parts[1][1] <= NrAt(q)'
  <2>1. PICK m \in Numbers : m = pbuf[e].parts[1][1] /\ pbuf[e].key = KeyOf(m) /\ ~Arrived(m)
    BY <1>1, <1>21, HolderIs
  <2>2. ~(Arrived(m)')
    BY <1>11, <2>1
  <2>3. ASSUME NEW q \in 1 .. Len(queue'), queue'[q].key = pbuf[e].key
        PROVE  m <= NrAt(q)'
    <3>1. CASE q \in 1 .. Len(queue)
      BY <1>12, <1>21, <2>1, <2>3, <3>1 DEF KeysInTurn, NrAt
    <3>2. CASE q = Len(queue) + 1
      BY <1>12, <1>18, <2>1, <2>3, <3>2 DEF NrAt, FrameOf
    <3>3. QED
      BY <1>12, <3>1, <3>2
  <2>4. QED
    BY <1>1, <1>21, <2>1, <2>2, <2>3 DEF KeysInTurn, Arrived, Whole
<1>22. KeysInTurn'
  <2>1. \A t \in Senders : Busy(t)' => \A m \in Numbers' : KeyOf(m)' = Key(t)' => m <= tx'[t].nr
    BY <1>11, <1>20
  <2>2. \A e \in 1 .. Elements : pbuf'[e].used =>
          /\ Pure(pbuf[e].parts)' /\ ~(Arrived(pbuf[e].parts[1][1])')
          /\ \A q \in 1 .. Len(queue') : queue'[q].key = pbuf'[e].key => pbuf'[e].parts[1][1] <= NrAt(q)'
    BY <1>1, <1>21 DEF Pure
  <2>3. \A d, e \in 1 .. Elements :
          pbuf'[d].used /\ pbuf'[e].used /\ pbuf'[d].key = pbuf'[e].key => d = e
    BY <1>1 DEF KeysInTurn
  <2>4. QED
    BY <1>19, <2>1, <2>2, <2>3 DEF KeysInTurn
<1>23. QED
  BY <1>17, <1>22

LEMMA ReceiveArrive ==
  ASSUME WholeInv, Accounted, KeysInTurn, ProcessFrame, ~lossy'
  PROVE  Accounted' /\ KeysInTurn'
<1>1. /\ CanTypes /\ TypeOK /\ queue # <<>> /\ queue' = Tail(queue)
      /\ packets' = packets /\ tx' = tx
  BY DEF WholeInv, CanTypes, ProcessFrame
<1>2. PICK n \in Numbers : \E i \in FramesOf(n) :
        Head(queue) = FrameOf(n, i) /\ \E e \in 1 .. Elements : \E b : Joins(e, n, i, b)
  BY TakenInTurn
<1>3. PICK i \in FramesOf(n) :
        Head(queue) = FrameOf(n, i) /\ \E e \in 1 .. Elements : \E b : Joins(e, n, i, b)
  BY <1>2
<1>4. PICK e \in 1 .. Elements : \E b : Joins(e, n, i, b)
  BY <1>3
<1>5. PICK b : Joins(e, n, i, b)
  BY <1>4
<1>6. PICK F : F = Frames(packets[n].length)
  OBVIOUS
<1>7. i \in Nat /\ i >= 1 /\ i <= F /\ F \in Nat /\ n \in Nat /\ F \in FramesOf(n)
  BY <1>1, <1>6, WholeBegins, PacketIs
<1>8. /\ b \in ElementRecord /\ BuiltOK(b) /\ Pure(b.parts) /\ b.parts[1][1] = n
      /\ Len(b.parts) = i /\ b.key = KeyOf(n) /\ Keep(e, b)
      /\ pbuf[e].used => Holds(e, n)
      /\ \A d \in Bound(KeyOf(n)) : d = e
  BY <1>5 DEF Joins
<1>9. /\ ~Arrived(n)
      /\ \A j \in FramesOf(n) : Processed(n, j) <=> j < i
      /\ \A q \in 1 .. Len(queue) : q > 1 => queue[q] # FrameOf(n, i)
  BY <1>1, <1>3, HeadIsNext
<1>10. /\ Len(queue) \in Nat \ {0} /\ queue[1] = FrameOf(n, i) /\ Len(queue') = Len(queue) - 1
       /\ \A q \in 1 .. Len(queue) - 1 : queue'[q] = queue[q + 1]
  <2>1. queue \in Seq(FrameRecord)
    BY <1>1 DEF TypeOK, FrameRecord
  <2>2. QED
    BY <1>1, <1>3, <2>1, TailIs
<1>11. PacketsKept
  BY <1>1 DEF PacketsKept, Numbers
<1>12. /\ Numbers' = Numbers
       /\ \A m \in Numbers : /\ KeyOf(m)' = KeyOf(m) /\ FramesOf(m)' = FramesOf(m)
                             /\ Whole(m)' = Whole(m) /\ SentFrames(m)' = SentFrames(m)
                             /\ \A j : FrameOf(m, j)' = FrameOf(m, j)
  BY <1>1, <1>11, PacketsSame DEF Numbers, SentFrames, NextFrame
<1>13. \A q \in 1 .. Len(queue') :
         q + 1 \in 1 .. Len(queue) /\ queue'[q] = queue[q + 1] /\ NrAt(q)' = NrAt(q + 1) /\ 1 < q + 1
  BY <1>10 DEF NrAt
<1>14. ASSUME NEW m \in Numbers, NEW j \in FramesOf(m)
       PROVE  InQueue(m, j)' <=> InQueue(m, j) /\ ~(m = n /\ j = i)
  <2>1. ASSUME InQueue(m, j)' PROVE InQueue(m, j) /\ ~(m = n /\ j = i)
    <3>1. PICK q \in 1 .. Len(queue') : queue'[q] = FrameOf(m, j)
      BY <1>12, <2>1 DEF InQueue
    <3>2. q + 1 \in 1 .. Len(queue) /\ queue[q + 1] = FrameOf(m, j) /\ q + 1 > 1
      BY <1>13, <3>1
    <3>3. QED
      BY <1>9, <3>2 DEF InQueue
  <2>2. ASSUME InQueue(m, j), ~(m = n /\ j = i) PROVE InQueue(m, j)'
    <3>1. PICK q \in 1 .. Len(queue) : queue[q] = FrameOf(m, j)
      BY <2>2 DEF InQueue
    <3>2. q # 1
      BY <1>1, <1>10, <2>2, <3>1, FramesDiffer
    <3>3. PICK p \in 1 .. Len(queue') : q = p + 1
      <4>1. q - 1 \in 1 .. Len(queue') /\ q = (q - 1) + 1
        BY <1>10, <3>2
      <4>2. QED
        BY <4>1
    <3>4. queue'[p] = FrameOf(m, j)
      BY <1>13, <3>1, <3>3
    <3>5. QED
      BY <1>12, <3>4 DEF InQueue
  <2>3. QED
    BY <2>1, <2>2
(* The other elements.                                                       *)
<1>15. pbuf \in [1 .. Elements -> ElementRecord]
  BY <1>1 DEF TypeOK, ElementRecord
<1>16. \A d \in 1 .. Elements : d # e => pbuf'[d] = pbuf[d]
  BY <1>8, <1>15 DEF Keep
<1>17. \A d \in 1 .. Elements : d # e /\ pbuf[d].used => pbuf[d].key # KeyOf(n) /\ pbuf[d].parts[1][1] # n
  <2>1. ASSUME NEW d \in 1 .. Elements, d # e, pbuf[d].used
        PROVE  pbuf[d].key # KeyOf(n) /\ pbuf[d].parts[1][1] # n
    <3>1. pbuf[d].key # KeyOf(n)
      BY <1>8, <2>1 DEF Bound
    <3>2. pbuf[d].key = KeyOf(pbuf[d].parts[1][1])
      BY <2>1, HolderIs
    <3>3. QED
      BY <3>1, <3>2
  <2>2. QED
    BY <2>1
<1>18. \A m \in Numbers : m # n => ~Holds(e, m)
  BY <1>8 DEF Holds
<1>19. \A m : \A d \in 1 .. Elements : d # e => (Holds(d, m)' <=> Holds(d, m))
  BY <1>16 DEF Holds
<1>20. /\ i = F => pbuf' = [pbuf EXCEPT ![e] = FreeElement] /\ routed' = Append(routed, Whole(n))
       /\ i # F => pbuf' = [pbuf EXCEPT ![e] = b] /\ routed' = routed
  <2>1. b.rx_count = IF i < F THEN 8 * i - 6 ELSE b.length
    BY <1>6, <1>8 DEF BuiltOK
  <2>2. b.length = packets[n].length
    BY <1>8 DEF BuiltOK
  <2>3. CASE i = F
    <3>1. b.rx_count = b.length
      BY <1>7, <2>1, <2>3
    <3>2. [length |-> b.length, parts |-> b.parts] = Whole(n)
      BY <1>1, <1>8, <3>1, FullIsWhole
    <3>3. QED
      BY <1>8, <2>3, <3>1, <3>2 DEF Keep
  <2>4. CASE i # F
    <3>1. i < F
      BY <1>7, <2>4
    <3>2. packets[n].length \in 0 .. 256 /\ i \in 1 .. Frames(packets[n].length)
      BY <1>1, PacketIs DEF FramesOf
    <3>3. 8 * i - 6 < packets[n].length
      BY <1>6, <3>1, <3>2, FrameSpan
    <3>4. b.rx_count # b.length
      BY <1>7, <2>1, <2>2, <3>1, <3>2, <3>3
    <3>5. QED
      BY <1>8, <2>4, <3>4 DEF Keep
  <2>5. QED
    BY <2>3, <2>4
<1>21. /\ Len(routed) \in Nat
       /\ \A m \in Numbers : Arrived(m)' <=> Arrived(m) \/ (m = n /\ i = F)
  <2>1. routed \in Seq(RoutedRecord) /\ Len(routed) \in Nat
    BY <1>1, LenProperties DEF TypeOK, RoutedRecord
  <2>2. CASE i # F
    BY <1>11, <1>20, <2>1, <2>2, ArrivedStays
  <2>3. CASE i = F
    <3>1. /\ Len(routed') = Len(routed) + 1 /\ routed'[Len(routed) + 1] = Whole(n)
          /\ \A k \in 1 .. Len(routed) : routed'[k] = routed[k]
      BY <1>20, <2>1, <2>3, AppendProperties
    <3>2. Len(routed) + 1 \in 1 .. Len(routed') /\ 1 .. Len(routed) \subseteq 1 .. Len(routed')
          /\ \A k \in 1 .. Len(routed') : k \in 1 .. Len(routed) \/ k = Len(routed) + 1
      BY <2>1, <3>1
    <3>3. ASSUME NEW m \in Numbers
          PROVE  Arrived(m)' <=> Arrived(m) \/ m = n
      <4>1. Arrived(m)' <=> \E k \in 1 .. Len(routed') : routed'[k] = Whole(m)
        BY <1>12 DEF Arrived
      <4>2. Whole(n) = Whole(m) => m = n
        BY <1>1, WholeBegins
      <4>3. QED
        BY <3>1, <3>2, <4>1, <4>2 DEF Arrived
    <3>4. QED
      BY <2>1, <2>3, <3>3
  <2>4. QED
    BY <2>2, <2>3
<1>22. ASSUME NEW m \in Numbers, NEW j \in FramesOf(m)
       PROVE  Processed(m, j)' <=> Processed(m, j) \/ (m = n /\ j = i)
  <2>1. CASE m # n
    <3>1. \A d \in 1 .. Elements : d # e => (Holds(d, m)' <=> Holds(d, m)) /\ pbuf'[d] = pbuf[d]
      BY <1>16, <1>19
    <3>2. ~Holds(e, m) /\ ~(Holds(e, m)')
      <4>1. ~(Holds(e, m)')
        <5>1. pbuf'[e] = FreeElement \/ pbuf'[e] = b
          BY <1>15, <1>20
        <5>2. QED
          BY <1>8, <2>1, <5>1 DEF Holds, FreeElement
      <4>2. QED
        BY <1>18, <2>1, <4>1
    <3>3. QED
      BY <1>21, <2>1, <3>1, <3>2 DEF Processed
  <2>2. CASE m = n
    <3>1. j \in Nat /\ j >= 1 /\ j <= F
      BY <1>1, <1>6, <2>2, WholeBegins
    <3>2. (Processed(n, j) \/ j = i) <=> j <= i
      BY <1>7, <1>9, <2>2, <3>1
    <3>3. CASE i = F
      <4>1. Arrived(n)'
        BY <1>21, <3>3
      <4>2. QED
        BY <2>2, <3>1, <3>2, <3>3, <4>1 DEF Processed
    <3>4. CASE i # F
      <4>1. pbuf'[e] = b /\ ~(Arrived(n)')
        BY <1>9, <1>15, <1>20, <1>21, <3>4
      <4>2. Holds(e, n)' /\ Len(pbuf'[e].parts) = i
        BY <1>8, <4>1 DEF Holds, BuiltOK
      <4>3. \A d \in 1 .. Elements : d # e => ~(Holds(d, n)')
        BY <1>16, <1>17 DEF Holds
      <4>4. Processed(n, j)' <=> j <= i
        BY <4>1, <4>2, <4>3 DEF Processed
      <4>5. QED
        BY <2>2, <3>2, <4>4
    <3>5. QED
      BY <3>3, <3>4
  <2>3. QED
    BY <2>1, <2>2
<1>23. Accounted'
  <2>1. ASSUME NEW m \in Numbers, NEW j \in FramesOf(m)
        PROVE  /\ (InQueue(m, j)' \/ Processed(m, j)') <=> j <= SentFrames(m)'
               /\ ~(InQueue(m, j)' /\ Processed(m, j)')
    <3>1. /\ (InQueue(m, j) \/ Processed(m, j)) <=> j <= SentFrames(m)
          /\ ~(InQueue(m, j) /\ Processed(m, j))
      BY DEF Accounted
    <3>2. InQueue(n, i)
      <4>1. 1 \in 1 .. Len(queue)
        BY <1>10
      <4>2. QED
        BY <1>10, <4>1 DEF InQueue
    <3>3. QED
      BY <1>12, <1>14, <1>22, <3>1, <3>2
  <2>2. QED
    BY <1>12, <2>1 DEF Accounted
<1>24. ASSUME NEW p \in 1 .. Len(queue'), NEW q \in 1 .. Len(queue'), p < q,
              queue'[p].key = queue'[q].key
       PROVE  Earlier(p, NrAt(q), queue[q].part[2])'
  <2>1. Earlier(p + 1, NrAt(q + 1), queue[q + 1].part[2])
    BY <1>13, <1>24 DEF KeysInTurn
  <2>2. QED
    BY <1>13, <2>1 DEF Earlier
<1>25. ASSUME NEW d \in 1 .. Elements, pbuf'[d].used
       PROVE  /\ Pure(pbuf'[d].parts) /\ ~(Arrived(pbuf[d].parts[1][1])')
              /\ \A q \in 1 .. Len(queue') :
                   queue'[q].key = pbuf'[d].key => pbuf'[d].parts[1][1] <= NrAt(q)'
  <2>1. CASE d # e
    <3>1. pbuf'[d] = pbuf[d] /\ pbuf[d].used
      BY <1>16, <1>25, <2>1
    <3>2. PICK m \in Numbers : m = pbuf[d].parts[1][1] /\ ~Arrived(m)
      BY <3>1, HolderIs
    <3>3. ~(Arrived(m)')
      BY <1>17, <1>21, <2>1, <3>1, <3>2
    <3>4. \A q \in 1 .. Len(queue') : queue'[q].key = pbuf[d].key => m <= NrAt(q)'
      BY <1>13, <3>1, <3>2 DEF KeysInTurn
    <3>5. ~(Arrived(pbuf[d].parts[1][1])')
      BY <3>1, <3>2, <3>3 DEF Arrived, Whole
    <3>6. QED
      BY <3>1, <3>2, <3>4, <3>5 DEF KeysInTurn
  <2>2. CASE d = e
    <3>1. pbuf'[e] = b /\ i # F
      <4>1. CASE i = F
        <5>1. pbuf'[e] = FreeElement
          BY <1>15, <1>20, <4>1
        <5>2. ~pbuf'[e].used
          BY <5>1 DEF FreeElement
        <5>3. QED
          BY <1>25, <2>2, <5>2
      <4>2. CASE i # F
        BY <1>15, <1>20, <4>2
      <4>3. QED
        BY <4>1, <4>2
    <3>2. ~(Arrived(n)')
      BY <1>9, <1>21, <3>1
    <3>3. ~(Arrived(pbuf[d].parts[1][1])')
      BY <1>8, <2>2, <3>1, <3>2 DEF Arrived, Whole
    <3>4. ASSUME NEW q \in 1 .. Len(queue'), queue'[q].key = KeyOf(n)
          PROVE  n <= NrAt(q)'
      <4>1. q + 1 \in 1 .. Len(queue) /\ queue[q + 1].key = KeyOf(n) /\ 1 < q + 1
        BY <1>13, <3>4
      <4>2. queue[1].key = KeyOf(n) /\ NrAt(1) = n /\ 1 \in 1 .. Len(queue)
        BY <1>10 DEF NrAt, FrameOf
      <4>3. Earlier(1, NrAt(q + 1), queue[q + 1].part[2])
        BY <4>1, <4>2 DEF KeysInTurn
      <4>4. n < NrAt(q + 1) \/ n = NrAt(q + 1)
        BY <4>2, <4>3 DEF Earlier
      <4>5. NrAt(q + 1) \in Nat
        BY <1>1, <4>1, QueueIs, PacketIs
      <4>6. QED
        BY <1>7, <1>13, <4>4, <4>5
    <3>5. QED
      BY <1>8, <2>2, <3>1, <3>3, <3>4
  <2>3. QED
    BY <2>1, <2>2
<1>26. ASSUME NEW c \in 1 .. Elements, NEW d \in 1 .. Elements, pbuf'[c].used, pbuf'[d].used,
              pbuf'[c].key = pbuf'[d].key
       PROVE  c = d
  <2>1. pbuf'[e].used => pbuf'[e].key = KeyOf(n)
    <3>1. CASE i = F
      <4>1. pbuf'[e] = FreeElement
        BY <1>15, <1>20, <3>1
      <4>2. QED
        BY <4>1 DEF FreeElement
    <3>2. CASE i # F
      <4>1. pbuf'[e] = b
        BY <1>15, <1>20, <3>2
      <4>2. QED
        BY <1>8, <4>1
    <3>3. QED
      BY <3>1, <3>2
  <2>2. CASE c # e /\ d # e
    BY <1>16, <1>26, <2>2 DEF KeysInTurn
  <2>3. CASE c = e /\ d # e
    BY <1>16, <1>17, <1>26, <2>1, <2>3
  <2>4. CASE c # e /\ d = e
    BY <1>16, <1>17, <1>26, <2>1, <2>4
  <2>5. QED
    BY <2>2, <2>3, <2>4
<1>27. KeysInTurn'
  <2>1. \A t \in Senders : Busy(t)' => \A m \in Numbers' : KeyOf(m)' = Key(t)' => m <= tx'[t].nr
    BY <1>1, <1>12 DEF KeysInTurn, Busy, Key
  <2>2. \A d \in 1 .. Elements : pbuf'[d].used =>
          /\ Pure(pbuf[d].parts)' /\ ~(Arrived(pbuf[d].parts[1][1])')
          /\ \A q \in 1 .. Len(queue') : queue'[q].key = pbuf'[d].key => pbuf'[d].parts[1][1] <= NrAt(q)'
    BY <1>25 DEF Pure
  <2>3. QED
    BY <1>24, <1>26, <2>1, <2>2 DEF KeysInTurn
<1>28. QED
  BY <1>23, <1>27

LEMMA InitArrives == Init => Accounted /\ KeysInTurn
<1> SUFFICES ASSUME Init PROVE Accounted /\ KeysInTurn
  OBVIOUS
<1>1. Len(packets) = 0 /\ Len(queue) = 0 /\ tx = [s \in Senders |-> NoTx]
  BY DEF Init
<1>2. \A e \in 1 .. Elements : ~pbuf[e].used
  BY DEF Init, FreeElement
<1>3. \A s \in Senders : ~Busy(s)
  BY <1>1 DEF Busy, NoTx
<1>4. Accounted
  BY <1>1 DEF Accounted, Numbers
<1>5. KeysInTurn
  BY <1>1, <1>2, <1>3 DEF KeysInTurn
<1>6. QED
  BY <1>4, <1>5

(* What has been lost stays lost, and a step that loses nothing puts every frame  *)
(* where it belongs.                                                         *)
LEMMA NextArrives ==
  ASSUME WholeInv, ~lossy => Accounted /\ KeysInTurn, [Next]_vars
  PROVE  ~lossy' => Accounted' /\ KeysInTurn'
<1> SUFFICES ASSUME ~lossy' PROVE Accounted' /\ KeysInTurn'
  OBVIOUS
<1>1. CASE UNCHANGED vars
  <2>1. Accounted /\ KeysInTurn /\ UNCHANGED <<tx, queue, pbuf, routed, packets>>
    BY <1>1 DEF vars
  <2>2. Accounted'
    <3>1. /\ Numbers' = Numbers
          /\ \A n \in Numbers : FramesOf(n)' = FramesOf(n) /\ SentFrames(n)' = SentFrames(n)
      BY <2>1 DEF Numbers, FramesOf, SentFrames, NextFrame
    <3>2. \A n \in Numbers : \A i \in FramesOf(n) : InQueue(n, i)' <=> InQueue(n, i)
      BY <2>1 DEF InQueue, FrameOf, KeyOf
    <3>3. \A n \in Numbers : \A i \in FramesOf(n) : Processed(n, i)' <=> Processed(n, i)
      BY <2>1 DEF Processed, Holds, Arrived, Whole
    <3>4. QED
      BY <2>1, <3>1, <3>2, <3>3 DEF Accounted
  <2>3. KeysInTurn'
    BY SMTT(30), <2>1 DEF KeysInTurn, Busy, Numbers, KeyOf, Key, NrAt, Earlier, Pure, Arrived, Whole
  <2>4. QED
    BY <2>2, <2>3
<1>2. CASE Next
  <2>1. CASE \E s \in Senders : GetIdent(s)
    <3>1. PICK s \in Senders : GetIdent(s)
      BY <2>1
    <3>2. ~lossy
      BY <3>1 DEF GetIdent
    <3>3. QED
      BY <3>1, <3>2, IdentArrive
  <2>2. CASE \E s \in Senders : SendFrame(s)
    <3>1. PICK s \in Senders : SendFrame(s)
      BY <2>2
    <3>2. ~lossy
      BY <3>1 DEF SendFrame
    <3>3. QED
      BY <3>1, <3>2, SendArrive
  <2>3. CASE ProcessFrame
    <3>1. ~lossy
      BY <2>3 DEF ProcessFrame, Begin, NoElement, NoBuffer, Unbound, More
    <3>2. QED
      BY <2>3, <3>1, ReceiveArrive
  <2>4. CASE Cleanup
    BY <2>4 DEF Cleanup
  <2>5. QED
    BY <1>2, <2>1, <2>2, <2>3, <2>4 DEF Next
<1>3. QED
  BY <1>1, <1>2

LEMMA ArriveInvariant == Spec => []ArriveInv
<1>1. Init => (~lossy => Accounted /\ KeysInTurn)
  BY InitArrives
<1>2. WholeInv /\ (~lossy => Accounted /\ KeysInTurn) /\ [Next]_vars
        => (~lossy => Accounted /\ KeysInTurn)'
  BY NextArrives
<1>3. WholeInv /\ (~lossy => Accounted /\ KeysInTurn) => ArriveInv
  BY DEF ArriveInv
<1>4. QED
  BY <1>1, <1>2, <1>3, WholeInvariant, PTL DEF Spec

(* In every reachable state where the bus is quiet and nothing has been lost,      *)
(* timed out or refused, and no identifier has gone round on a packet that was    *)
(* still being sent, all packets sent have reached the router whole.            *)
THEOREM AllAlwaysArrive == Spec => []AllArrive
<1>1. ArriveInv => AllArrive
  <2> SUFFICES ASSUME ArriveInv, Quiet, ~lossy, NEW n \in Numbers PROVE Arrived(n)
    BY DEF AllArrive, Arrived, Numbers
  <2>1. WholeInv /\ CanTypes /\ Accounted /\ KeysInTurn
    BY DEF ArriveInv, WholeInv
  <2>2. PICK F : F = Frames(packets[n].length)
    OBVIOUS
  <2>3. F \in FramesOf(n) /\ F \in Nat /\ packets[n].by \in Senders /\ n \in Nat \ {0}
    <3>1. TypeOK
      BY <2>1 DEF CanTypes
    <3>2. QED
      BY <2>1, <2>2, <3>1, WholeBegins, PacketIs
  <2>4. SentFrames(n) = F
    <3>1. ~(tx[packets[n].by].nr > 0)
      BY <2>3 DEF Quiet, Busy
    <3>2. tx[packets[n].by].nr # n
      BY <2>3, <3>1
    <3>3. QED
      BY <2>2, <3>2 DEF SentFrames
  <2>5. ~InQueue(n, F)
    BY DEF Quiet, InQueue
  <2>6. Processed(n, F)
    <3>1. F <= F
      BY <2>3
    <3>2. QED
      BY <2>1, <2>3, <2>4, <2>5, <3>1 DEF Accounted
  <2>7. SUFFICES ASSUME NEW e \in 1 .. Elements, Holds(e, n), F <= Len(pbuf[e].parts) PROVE FALSE
    BY <2>6 DEF Processed
  <2>8. /\ pbuf[e].parts[1][1] = n /\ Len(pbuf[e].parts) \in Nat
        /\ Len(pbuf[e].parts) < Frames(packets[pbuf[e].parts[1][1]].length)
    BY <2>1, <2>7, HolderIs DEF Holds
  <2>9. Len(pbuf[e].parts) < F
    BY <2>2, <2>8
  <2>10. QED
    BY <2>3, <2>7, <2>8, <2>9
<1>2. QED
  BY <1>1, ArriveInvariant, PTL
=============================================================================
