------------------------------- MODULE RdpProofs -------------------------------
(***************************************************************************)
(* What TLAPS proves of Rdp.                                                *)
(*                                                                         *)
(* The argument, in the order of the module:                                *)
(*   - the types, with what each packet and each kept copy may be (TypeInv); *)
(*   - who sent what: every packet on its way, and every copy kept, carries   *)
(*     a message its sender accepted, and its number is the initial number of *)
(*     the connection plus the number of the message (NumberInv);            *)
(*   - the receiver has passed the messages 1 .. Passed(e) of the connection   *)
(*     it is in and no other, and those it has read or queued are increasing   *)
(*     (ReceiveInv).  The step that needs NumberInv is InWindow: a data        *)
(*     packet whose number is k after rcv_cur, k within the window, carries     *)
(*     message Passed(e) + k of this connection and not one that a late packet  *)
(*     of another brought;                                                   *)
(*   - OrderInv, their conjunction, is inductive and gives OrderedOnce;        *)
(*   - every step moves each direction as OrderedChannel allows (AllMove);     *)
(*   - while the ends are in the same connection, or one step short of it       *)
(*     (Near), each acknowledgement on its way is of messages the peer has, so    *)
(*     that snd_una is not ahead of it and a copy that is freed is one that has   *)
(*     arrived (KeptInv, on top of OrderInv).  The steps that need it are         *)
(*     AcceptedUna and AcceptedFrees, for a packet that is accepted, and          *)
(*     DropHeld, for the copies that csp_rdp_check_timeouts frees.                *)
(*                                                                         *)
(* The last three need the numbers an end has drawn so far to be Apart, the      *)
(* last also that it has sent Few messages.  The code draws the numbers with      *)
(* rand() and ensures neither, so both are conditions of the properties and not   *)
(* assumptions: Apart and Few, once false, stay false (ApartBefore, FewBefore),   *)
(* so that Apart => OrderInv and Apart /\ Few => KeptInv are inductive.           *)
(***************************************************************************)
EXTENDS Rdp, FiniteSetTheorems, SequenceTheorems, WellFoundedInduction, TLAPS

Kinds == {"syn", "synack", "ack", "eack", "rst", "rstack", "data"}

(* A packet with data has a message.                                         *)
Sendable == {p \in Packets : p.kind = "data" => p.msg \in Messages}

DataPackets == {p \in Sendable : p.kind = "data"}

(* One slot of the table.                                                    *)
ConnOK(c) ==
  /\ c \in Conns
  /\ Len(c.rx) <= RxLen
  /\ c.up <=> c.st # "closed"
  /\ c.tx \subseteq Sendable
  /\ c.ooo \subseteq DataPackets /\ IsFiniteSet(c.ooo)

ConnsOK == conn \in [Ends -> Conns] /\ \A e \in Ends : ConnOK(conn[e])

NetOK == net \in [Ends -> SUBSET Sendable]

RestOK ==
  /\ call \in {"none", "connect", "failed", "done"}
  /\ sem \in BOOLEAN
  /\ opens \in [Ends -> Nat] /\ \A e \in Ends : opens[e] <= Len(Iss[e])
  /\ sent \in [Ends -> SUBSET Messages] /\ \A e \in Ends : IsFiniteSet(sent[e])
  /\ got \in [Ends -> Seq(Messages)]

TypeInv == ConnsOK /\ NetOK /\ RestOK

LEMMA TypeInvImplies == TypeInv => TypeOK
<1> SUFFICES ASSUME TypeInv PROVE TypeOK
  OBVIOUS
<1>1. Sendable \subseteq Packets
  BY DEF Sendable
<1>2. net \in [Ends -> SUBSET Packets]
  BY <1>1 DEF TypeInv, NetOK
<1>3. QED
  BY <1>2 DEF TypeInv, TypeOK, ConnsOK, ConnOK, RestOK

-----------------------------------------------------------------------------
(* Arithmetic modulo M.                                                      *)

LEMMA SeqsAre == M \in Nat \ {0} /\ Seqs \subseteq Nat /\ 0 \in Seqs
BY RdpAssumption DEF Seqs

LEMMA ModIn == ASSUME NEW a \in Int PROVE a % M \in 0 .. M - 1
BY SeqsAre

LEMMA ModSmall == ASSUME NEW a \in Int, 0 <= a, a < M PROVE a % M = a
BY SeqsAre

LEMMA ModOver == ASSUME NEW a \in Int, M <= a, a < 2 * M PROVE a % M = a - M
BY SeqsAre

LEMMA ModUnder == ASSUME NEW a \in Int, -M <= a, a < 0 PROVE a % M = a + M
BY SeqsAre

LEMMA PlusIn == ASSUME NEW a \in Int, NEW b \in Int PROVE Plus(a, b) \in Seqs
BY ModIn DEF Plus, Seqs

LEMMA NextSeq == ASSUME NEW a \in Seqs PROVE Plus(a, 1) \in Seqs
<1>1. a \in Int
  BY DEF Seqs
<1>2. QED
  BY <1>1, PlusIn

-----------------------------------------------------------------------------
(* What is sent is well formed.                                             *)

LEMMA PacketIs ==
  ASSUME NEW kind \in Kinds \ {"data"}, NEW seq \in Seqs, NEW ack \in Seqs
  PROVE  Packet(kind, seq, ack) \in Sendable
BY DEF Packet, Sendable, Packets, Kinds

LEMMA ControlIs ==
  ASSUME NEW c, ConnOK(c), NEW kind \in Kinds \ {"data"}
  PROVE  Control(kind, c) \in Sendable
<1>1. c.nxt \in Seqs /\ c.cur \in Seqs
  BY DEF ConnOK, Conns
<1>2. QED
  BY <1>1, PacketIs DEF Control

LEMMA SynsAre ==
  ASSUME NEW c, ConnOK(c)
  PROVE  SynPacket(c) \in Sendable /\ SynAckPacket(c) \in Sendable
<1>1. c.iss \in Seqs /\ c.irs \in Seqs /\ 0 \in Seqs
  BY SeqsAre DEF ConnOK, Conns
<1>2. QED
  BY <1>1, PacketIs DEF SynPacket, SynAckPacket, Kinds

LEMMA EackIs == ASSUME NEW c, ConnOK(c) PROVE Eack(c) \in Sendable
<1>1. Control("eack", c) \in Sendable /\ Control("eack", c).kind = "eack"
  BY ControlIs DEF Kinds, Control, Packet
<1>2. {p.seq : p \in c.ooo} \subseteq Seqs
  BY DEF ConnOK, DataPackets, Sendable, Packets
<1>3. Control("eack", c) \in Packets
  BY <1>1 DEF Sendable
<1>4. Eack(c) \in Packets
  BY <1>2, <1>3 DEF Eack, Packets
<1>5. Eack(c).kind = "eack"
  BY <1>1, <1>3 DEF Eack, Packets
<1>6. QED
  BY <1>4, <1>5 DEF Sendable

LEMMA AckIfRoomIs == ASSUME NEW c, ConnOK(c) PROVE AckIfRoom(c) \subseteq Sendable
BY ControlIs DEF AckIfRoom, Kinds

LEMMA ResetsAre ==
  ASSUME NEW c, ConnOK(c)
  PROVE  ResetOnClose(c) \subseteq Sendable /\ ResetOnDiscard(c) \subseteq Sendable
BY ControlIs DEF ResetOnClose, ResetOnDiscard, Kinds

-----------------------------------------------------------------------------
(* What is done to a slot leaves it well formed.                             *)

LEMMA ClosedIs == ASSUME NEW c, ConnOK(c) PROVE ConnOK(Closed(c))
<1>1. IsFiniteSet({})
  BY FS_EmptySet
<1>2. <<>> \in Seq(Messages) /\ Len(<<>>) = 0
  OBVIOUS
<1>3. 0 <= RxLen
  BY RdpAssumption
<1>4. Closed(c) \in Conns
  BY <1>2 DEF ConnOK, Conns, Closed
<1>5. Closed(c).rx = <<>> /\ Closed(c).tx = {} /\ Closed(c).ooo = {}
      /\ Closed(c).st = "closed" /\ Closed(c).up = FALSE
  BY DEF ConnOK, Conns, Closed
<1>6. QED
  BY <1>1, <1>2, <1>3, <1>4, <1>5 DEF ConnOK

LEMMA AfterCloseIs ==
  ASSUME NEW c, ConnOK(c), c.up
  PROVE  ConnOK(AfterClose(c)) /\ ConnOK(AfterDiscard(c))
<1>1. ConnOK([c EXCEPT !.st = "close_wait"])
  BY DEF ConnOK, Conns
<1>2. QED
  BY <1>1, ClosedIs DEF AfterClose, AfterDiscard

LEMMA AckedIs ==
  ASSUME NEW c, ConnOK(c), c.up, NEW p \in Sendable
  PROVE  ConnOK(Acked(c, p)) /\ Acked(c, p).up
         /\ ConnOK([c EXCEPT !.una = Plus(p.ack, 1)])
<1>1. p.ack \in Seqs
  BY DEF Sendable, Packets
<1>2. p.ack \in Int
  BY <1>1 DEF Seqs
<1>3. Plus(p.ack, 1) \in Seqs
  BY <1>2, PlusIn
<1>4. QED
  BY <1>3 DEF Acked, ConnOK, Conns

LEMMA StartConnectIs ==
  ASSUME NEW c, ConnOK(c), NEW iss \in Seqs
  PROVE  ConnOK(StartConnect(c, iss))
<1> DEFINE d == StartConnect(c, iss)
<1>1. Plus(iss, 1) \in Seqs
  BY SeqsAre, PlusIn
<1>2. Packet("syn", iss, 0) \in Sendable
  BY SeqsAre, PacketIs DEF Kinds
<1>3. Packet("syn", iss, 0) \in Packets
  BY <1>2 DEF Sendable
<1>4. d \in Conns
  BY <1>1, <1>3 DEF StartConnect, ConnOK, Conns
<1>5. d.rx = c.rx /\ d.up = TRUE /\ d.st = "syn_sent" /\ d.ooo = {}
      /\ d.tx = {Packet("syn", iss, 0)}
  BY DEF StartConnect, ConnOK, Conns
<1> HIDE DEF d
<1>6. Len(d.rx) <= RxLen /\ d.tx \subseteq Sendable /\ IsFiniteSet(d.ooo)
  BY <1>2, <1>5, FS_EmptySet DEF ConnOK
<1>7. ConnOK(d)
  BY <1>4, <1>5, <1>6 DEF ConnOK
<1>8. QED
  BY <1>7 DEF d

-----------------------------------------------------------------------------
(* The packets of rx_queue that follow.                                      *)

LEMMA LeastNat ==
  ASSUME NEW S, S \subseteq Nat, S # {}
  PROVE  \E x \in S : \A y \in S : x <= y
<1> DEFINE R == OpToRel(<, Nat)
<1>1. IsWellFoundedOn(R, Nat)
  BY NatLessThanWellFounded
<1>2. \A a, b \in Nat : a < b => <<a, b>> \in R
  BY DEF OpToRel
<1> HIDE DEF R
<1>3. PICK x \in S : \A y \in S : ~(<<y, x>> \in R)
  BY <1>1, WFMin
<1>4. ASSUME NEW y \in S PROVE x <= y
  <2>1. x \in Nat /\ y \in Nat
    OBVIOUS
  <2>2. ~(y < x)
    BY <1>2, <1>3, <2>1
  <2>3. QED
    BY <2>1, <2>2
<1>5. QED
  BY <1>4

LEMMA BeginningIs ==
  ASSUME NEW N \in Nat, NEW S \in SUBSET (1 .. N),
         \A m \in S : \A k \in 1 .. m : k \in S
  PROVE  Cardinality(S) \in Nat /\ S = 1 .. Cardinality(S)
<1>1. CASE S = {}
  <2>1. Cardinality(S) = 0
    BY <1>1, FS_EmptySet
  <2>2. QED
    BY <1>1, <2>1
<1>2. CASE S # {}
  <2> DEFINE T == {N - m : m \in S}
  <2>1. T \subseteq Nat /\ T # {}
    BY <1>2
  <2>2. PICK x \in T : \A y \in T : x <= y
    BY <2>1, LeastNat
  <2>3. PICK m \in S : x = N - m
    OBVIOUS
  <2>4. ASSUME NEW k \in S PROVE k <= m
    <3>1. x <= N - k
      BY <2>2
    <3>2. QED
      BY <2>3, <3>1
  <2>5. S = 1 .. m
    <3>1. \A k \in S : k \in Nat /\ k >= 1
      OBVIOUS
    <3>2. S \subseteq 1 .. m
      BY <2>4, <3>1
    <3>3. 1 .. m \subseteq S
      OBVIOUS
    <3>4. QED
      BY <3>2, <3>3
  <2>6. Cardinality(1 .. m) = m /\ m \in Nat
    BY FS_Interval
  <2>7. QED
    BY <2>5, <2>6
<1>3. QED
  BY <1>1, <1>2

(* There is a packet of rx_queue k places after rcv_cur.                      *)
Queued(c, k) == \E q \in c.ooo : q.seq = Plus(c.cur, k)

LEMMA FollowingIs ==
  ASSUME NEW c, ConnOK(c)
  PROVE  /\ Len(Following(c)) \in Nat
         /\ Following(c) \in Seq(DataPackets)
         /\ \A k \in 1 .. Len(Following(c)) :
              /\ Queued(c, k)
              /\ Following(c)[k] \in c.ooo
              /\ Following(c)[k].seq = Plus(c.cur, k)
<1> DEFINE Nth(k) == CHOOSE q \in c.ooo : q.seq = Plus(c.cur, k)
           S == {m \in 1 .. Cardinality(c.ooo) :
                   \A k \in 1 .. m : \E q \in c.ooo : q.seq = Plus(c.cur, k)}
           n == Cardinality(S)
<1>1. Following(c) = [k \in 1 .. n |-> Nth(k)]
  BY DEF Following
<1>2. Cardinality(c.ooo) \in Nat
  BY FS_CardinalityType DEF ConnOK
<1>3. \A m \in S : \A k \in 1 .. m : k \in S
  BY <1>2
<1>4. n \in Nat /\ S = 1 .. n
  BY <1>2, <1>3, BeginningIs
<1>5. ASSUME NEW k \in 1 .. n
      PROVE  Queued(c, k) /\ Nth(k) \in c.ooo /\ Nth(k).seq = Plus(c.cur, k)
  <2>1. k \in S /\ k \in 1 .. k
    BY <1>4
  <2>2. \E q \in c.ooo : q.seq = Plus(c.cur, k)
    BY <2>1
  <2>3. QED
    BY <2>2 DEF Queued
<1> HIDE DEF n, Nth
<1>6. c.ooo \subseteq DataPackets
  BY DEF ConnOK
<1>7. \A k \in 1 .. n : Nth(k) \in DataPackets
  BY <1>5, <1>6
<1>8. Following(c) \in Seq(DataPackets) /\ Len(Following(c)) = n
  BY <1>1, <1>4, <1>7, SeqDef, LenProperties
<1>9. QED
  BY <1>1, <1>4, <1>5, <1>8

LEMMA FittingIs ==
  ASSUME NEW c, ConnOK(c)
  PROVE  /\ Len(Fitting(c)) = Smaller(Len(Following(c)), Free(c))
         /\ Len(Fitting(c)) \in Nat /\ Free(c) \in Nat /\ Free(c) = RxLen - Len(c.rx)
         /\ Fitting(c) \in Seq(Messages)
         /\ \A k \in 1 .. Len(Fitting(c)) :
              k \in 1 .. Len(Following(c)) /\ Fitting(c)[k] = Following(c)[k].msg
<1> DEFINE n == Smaller(Len(Following(c)), Free(c))
<1>1. RxLen \in Nat /\ Len(c.rx) \in Nat /\ Len(c.rx) <= RxLen
  BY RdpAssumption, LenProperties DEF ConnOK, Conns
<1>2. Free(c) \in Nat /\ Free(c) = RxLen - Len(c.rx)
  BY <1>1 DEF Free
<1>3. Len(Following(c)) \in Nat /\ Following(c) \in Seq(DataPackets)
  BY FollowingIs
<1>4. n \in Nat /\ n <= Len(Following(c))
  BY <1>2, <1>3 DEF Smaller
<1>5. Fitting(c) = [k \in 1 .. n |-> Following(c)[k].msg]
  BY DEF Fitting
<1>6. \A k \in 1 .. n : k \in 1 .. Len(Following(c))
  BY <1>3, <1>4
<1>7. \A k \in 1 .. Len(Following(c)) : Following(c)[k] \in DataPackets
  BY <1>3, ElementOfSeq
<1>8. \A k \in 1 .. n : Following(c)[k].msg \in Messages
  BY <1>6, <1>7 DEF DataPackets, Sendable
<1> HIDE DEF n
<1>9. Fitting(c) \in Seq(Messages) /\ Len(Fitting(c)) = n
  BY <1>4, <1>5, <1>8, SeqDef, LenProperties
<1>10. QED
  BY <1>2, <1>4, <1>5, <1>6, <1>9 DEF n

LEMMA AfterFlushIs ==
  ASSUME NEW c, ConnOK(c)
  PROVE  ConnOK(AfterFlush(c))
<1> DEFINE d == AfterFlush(c)
           out == {Following(c)[k] : k \in 1 .. Len(Following(c))}
<1>1. c.cur \in Int /\ Len(Following(c)) \in Nat /\ c.rx \in Seq(Messages)
  <2>1. c.cur \in Seqs /\ c.rx \in Seq(Messages)
    BY DEF ConnOK, Conns
  <2>2. c.cur \in Int
    BY <2>1 DEF Seqs
  <2>3. QED
    BY <2>1, <2>2, FollowingIs
<1>2. Plus(c.cur, Len(Following(c))) \in Seqs
  BY <1>1, PlusIn
<1>3. /\ c.rx \o Fitting(c) \in Seq(Messages)
      /\ Len(c.rx \o Fitting(c)) = Len(c.rx) + Len(Fitting(c))
  BY <1>1, FittingIs, ConcatProperties
<1>4. Len(Fitting(c)) <= RxLen - Len(c.rx) /\ Len(c.rx) \in Nat /\ RxLen \in Nat
  <2>1. Len(Following(c)) \in Nat
    BY <1>1
  <2>2. Smaller(Len(Following(c)), Free(c)) <= Free(c)
    BY <2>1, FittingIs DEF Smaller
  <2>3. QED
    BY <1>1, <2>2, FittingIs, LenProperties, RdpAssumption
<1>5. IsFiniteSet(c.ooo \ out)
  BY FS_Subset DEF ConnOK
<1>6. d = [c EXCEPT !.cur = Plus(c.cur, Len(Following(c))), !.ooo = c.ooo \ out,
                    !.rx = c.rx \o Fitting(c)]
  BY DEF AfterFlush
<1> HIDE DEF out
<1>7. d \in Conns /\ d.rx = c.rx \o Fitting(c) /\ d.ooo = c.ooo \ out
      /\ d.st = c.st /\ d.up = c.up /\ d.tx = c.tx
  <2> HIDE DEF d
  <2>1. QED
    BY <1>2, <1>3, <1>6 DEF ConnOK, Conns
<1> HIDE DEF d
<1>8. Len(d.rx) <= RxLen
  <2>1. Len(Fitting(c)) \in Nat
    BY FittingIs
  <2>2. QED
    BY <1>3, <1>4, <1>7, <2>1
<1>9. ConnOK(d)
  BY <1>5, <1>7, <1>8 DEF ConnOK
<1>10. QED
  BY <1>9 DEF d

-----------------------------------------------------------------------------
(* The network, and a slot that changes.                                     *)

LEMMA PeerIs == \A e \in Ends : Peer(e) \in Ends /\ Peer(e) # e /\ Peer(Peer(e)) = e
BY DEF Peer, Ends

(* What a step does to the network: e's packets may go, outs may come.        *)
LEMMA ExchangeIs ==
  ASSUME net = [x \in Ends |-> net[x]], NEW e \in Ends, NEW p, NEW outs, Exchange(e, p, outs)
  PROVE  /\ net' = [x \in Ends |-> net'[x]]
         /\ net'[e] \subseteq net[e] /\ net'[Peer(e)] \subseteq net[Peer(e)] \cup outs
<1>1. PICK rest \in {net[e], net[e] \ {p}}, other \in Put(Peer(e), outs) :
        net' = [net EXCEPT ![e] = rest, ![Peer(e)] = other]
  BY DEF Exchange
<1>2. other \subseteq net[Peer(e)] \cup outs
  BY DEF Put
<1>3. Peer(e) \in Ends /\ Peer(e) # e
  BY PeerIs
<1>4. net'[e] = rest /\ net'[Peer(e)] = other
  BY <1>1, <1>3
<1>5. QED
  BY <1>1, <1>2, <1>4

LEMMA TransmitIs ==
  ASSUME net = [x \in Ends |-> net[x]], NEW e \in Ends, NEW outs, Transmit(e, outs)
  PROVE  /\ net' = [x \in Ends |-> net'[x]]
         /\ net'[e] \subseteq net[e] /\ net'[Peer(e)] \subseteq net[Peer(e)] \cup outs
<1>1. PICK other \in Put(Peer(e), outs) : net' = [net EXCEPT ![Peer(e)] = other]
  BY DEF Transmit
<1>2. other \subseteq net[Peer(e)] \cup outs
  BY DEF Put
<1>3. Peer(e) \in Ends /\ Peer(e) # e
  BY PeerIs
<1>4. net'[e] = net[e] /\ net'[Peer(e)] = other
  BY <1>1, <1>3
<1>5. QED
  BY <1>1, <1>2, <1>4

(* e's packets may go, and some of outs come.                                 *)
Passing(e, outs) ==
  /\ net' = [x \in Ends |-> net'[x]]
  /\ net'[e] \subseteq net[e] /\ net'[Peer(e)] \subseteq net[Peer(e)] \cup outs

LEMMA NetStays ==
  ASSUME NetOK, NEW e \in Ends, NEW outs \in SUBSET Sendable, Passing(e, outs)
  PROVE  NetOK'
<1>1. \A x \in Ends : x = e \/ x = Peer(e)
  BY DEF Ends, Peer
<1>2. \A x \in Ends : net'[x] \subseteq Sendable
  BY <1>1, PeerIs DEF NetOK, Passing
<1>3. QED
  BY <1>2 DEF NetOK, Passing

LEMMA NetExchanged ==
  ASSUME NetOK, NEW e \in Ends, NEW p, NEW outs, Exchange(e, p, outs)
  PROVE  Passing(e, outs)
<1>1. net = [x \in Ends |-> net[x]]
  BY DEF NetOK
<1>2. QED
  BY <1>1, ExchangeIs DEF Passing

LEMMA NetTransmitted ==
  ASSUME NetOK, NEW e \in Ends, NEW outs, Transmit(e, outs)
  PROVE  Passing(e, outs)
<1>1. net = [x \in Ends |-> net[x]]
  BY DEF NetOK
<1>2. QED
  BY <1>1, TransmitIs DEF Passing

LEMMA SlotChanges ==
  ASSUME ConnsOK, NEW e \in Ends, NEW c, ConnOK(c), conn' = [conn EXCEPT ![e] = c]
  PROVE  ConnsOK'
<1>1. c \in Conns
  BY DEF ConnOK
<1>2. conn' \in [Ends -> Conns]
  BY <1>1 DEF ConnsOK
<1>3. \A x \in Ends : conn'[x] = IF x = e THEN c ELSE conn[x]
  BY DEF ConnsOK
<1>4. \A x \in Ends : ConnOK(conn'[x])
  BY <1>3 DEF ConnsOK
<1>5. QED
  BY <1>2, <1>4 DEF ConnsOK

(* One slot changes, and its end sends at most what is well formed.           *)
LEMMA SlotAndNet ==
  ASSUME ConnsOK, NetOK, NEW e \in Ends, NEW c, ConnOK(c), NEW outs \in SUBSET Sendable,
         conn' = [conn EXCEPT ![e] = c], Passing(e, outs)
  PROVE  ConnsOK' /\ NetOK'
BY SlotChanges, NetStays

LEMMA TakeIs ==
  ASSUME ConnsOK, NetOK, NEW e \in Ends, NEW p, NEW c, ConnOK(c),
         NEW outs \in SUBSET Sendable, Take(e, p, c, outs)
  PROVE  ConnsOK' /\ NetOK'
<1>1. Passing(e, outs) /\ conn' = [conn EXCEPT ![e] = c]
  BY NetExchanged DEF Take
<1>2. QED
  BY <1>1, SlotAndNet

LEMMA RestStays ==
  ASSUME RestOK, UNCHANGED <<call, sem, opens, sent, got>>
  PROVE  RestOK'
BY DEF RestOK

-----------------------------------------------------------------------------
(* The types are kept: the initial states and the applications' steps.        *)

LEMMA NoConnIs == ConnOK(NoConn)
<1>1. 0 <= RxLen /\ 0 \in Seqs /\ <<>> \in Seq(Messages) /\ Len(<<>>) = 0
  BY SeqsAre, RdpAssumption
<1>2. QED
  BY <1>1, FS_EmptySet DEF NoConn, ConnOK, Conns

LEMMA IssIn ==
  ASSUME NEW e \in Ends, NEW k \in Nat, 1 <= k, k <= Len(Iss[e])
  PROVE  Iss[e][k] \in Seqs
<1>1. Iss[e] \in Seq(Seqs)
  BY RdpAssumption
<1>2. Len(Iss[e]) \in Nat
  BY <1>1, LenProperties
<1>3. QED
  BY <1>1, <1>2, ElementOfSeq

LEMMA FirstIn == ASSUME NEW e \in Ends PROVE 1 <= Len(Iss[e]) /\ Iss[e][1] \in Seqs
<1>1. Iss[e] \in Seq(Seqs) /\ Iss[e] # <<>>
  BY RdpAssumption
<1>2. Len(Iss[e]) \in Nat /\ Len(Iss[e]) # 0
  BY <1>1, EmptySeq, LenProperties
<1>3. QED
  BY <1>2, IssIn

LEMMA StaleConnIs == ConnOK(StaleConn)
<1> DEFINE i == Iss["server"][1]
           j == Iss["client"][1]
<1>1. i \in Seqs /\ j \in Seqs
  BY FirstIn DEF Ends
<1>2. M - 1 \in Int /\ i \in Int /\ j \in Int
  BY <1>1, SeqsAre DEF Seqs
<1>3. Plus(i, 1) \in Seqs /\ Plus(j, M - 1) \in Seqs
  BY <1>2, PlusIn
<1>4. StaleConn = [NoConn EXCEPT !.st = "open", !.up = TRUE, !.iss = i, !.nxt = Plus(i, 1),
                     !.una = Plus(i, 1), !.irs = Plus(j, M - 1), !.cur = Plus(j, M - 1)]
  BY DEF StaleConn
<1> HIDE DEF i, j
<1>5. QED
  BY <1>1, <1>3, <1>4, NoConnIs DEF ConnOK, Conns, NoConn

LEMMA TypeInit == Init => TypeInv
<1> SUFFICES ASSUME Init PROVE TypeInv
  OBVIOUS
<1>1. PICK c \in {NoConn, StaleConn} :
        /\ conn = [e \in Ends |-> IF e = "server" THEN c ELSE NoConn]
        /\ opens = [e \in Ends |-> IF e = "server" /\ c.up THEN 1 ELSE 0]
  BY DEF Init
<1>2. ConnOK(c) /\ ConnOK(NoConn)
  BY StaleConnIs, NoConnIs
<1>3. ConnsOK
  BY <1>1, <1>2 DEF ConnsOK, ConnOK
<1>4. NetOK
  BY DEF Init, NetOK
<1>5. \A e \in Ends : opens[e] \in Nat /\ opens[e] <= Len(Iss[e])
  <2> TAKE e \in Ends
  <2>1. opens[e] = 0 \/ opens[e] = 1
    BY <1>1
  <2>2. 1 <= Len(Iss[e]) /\ Len(Iss[e]) \in Nat
    BY FirstIn, LenProperties, RdpAssumption
  <2>3. QED
    BY <2>1, <2>2
<1>6. opens \in [Ends -> Nat]
  BY <1>1, <1>5
<1>7. \A e \in Ends : sent[e] = {} /\ got[e] = <<>>
  BY DEF Init
<1>8. sent \in [Ends -> SUBSET Messages] /\ got \in [Ends -> Seq(Messages)]
  BY DEF Init
<1>9. RestOK
  BY <1>5, <1>6, <1>7, <1>8, FS_EmptySet DEF Init, RestOK
<1>10. QED
  BY <1>3, <1>4, <1>9 DEF TypeInv

LEMMA TryConnectIs ==
  ASSUME TypeInv, TryConnect, UNCHANGED <<sent, got>>,
         call' \in {"none", "connect", "failed", "done"}
  PROVE  TypeInv'
<1> DEFINE iss == Iss["client"][opens["client"] + 1]
           c == StartConnect(conn["client"], iss)
<1>1. /\ opens \in [Ends -> Nat] /\ opens["client"] \in Nat
      /\ opens["client"] < Len(Iss["client"])
      /\ opens' = [opens EXCEPT !["client"] = @ + 1]
      /\ "client" \in Ends
  BY DEF TypeInv, RestOK, TryConnect, Ends
<1>2. opens' \in [Ends -> Nat] /\ opens'["client"] = opens["client"] + 1
      /\ \A e \in Ends : e # "client" => opens'[e] = opens[e]
  BY <1>1
<1>3. Len(Iss["client"]) \in Nat
  BY <1>1, LenProperties, RdpAssumption
<1>4. iss \in Seqs
  BY <1>1, <1>3, IssIn
<1>5. \A e \in Ends : opens'[e] <= Len(Iss[e])
  BY <1>1, <1>2, <1>3 DEF TypeInv, RestOK
<1>6. RestOK'
  BY <1>2, <1>5 DEF TypeInv, RestOK, TryConnect
<1>7. ConnOK(c)
  BY <1>1, <1>4, StartConnectIs DEF TypeInv, ConnsOK
<1>8. conn' = [conn EXCEPT !["client"] = c]
  BY <1>1, <1>2 DEF TryConnect
<1> HIDE DEF c
<1>9. conn'["client"] = c
  BY <1>1, <1>8 DEF TypeInv, ConnsOK
<1>10. Transmit("client", {SynPacket(c)})
  BY <1>9 DEF TryConnect
<1>11. {SynPacket(c)} \in SUBSET Sendable
  BY <1>7, SynsAre
<1>12. Passing("client", {SynPacket(c)})
  BY <1>1, <1>10, NetTransmitted DEF TypeInv
<1>13. ConnsOK' /\ NetOK'
  BY <1>1, <1>7, <1>8, <1>11, <1>12, SlotAndNet DEF TypeInv
<1>14. QED
  BY <1>6, <1>13 DEF TypeInv

LEMMA ConnectsAre ==
  ASSUME TypeInv, Connect \/ ConnectRetry \/ ConnectDone \/ ConnectGiveUp \/ ConnectFail
  PROVE  TypeInv'
<1>1. CASE Connect
  BY <1>1, TryConnectIs DEF Connect
<1>2. CASE ConnectRetry
  <2>1. call' \in {"none", "connect", "failed", "done"}
    BY <1>2 DEF ConnectRetry, TypeInv, RestOK
  <2>2. QED
    BY <1>2, <2>1, TryConnectIs DEF ConnectRetry
<1>3. CASE ConnectDone
  BY <1>3 DEF ConnectDone, TypeInv, ConnsOK, NetOK, RestOK
<1>4. CASE ConnectGiveUp
  BY <1>4 DEF ConnectGiveUp, TypeInv, ConnsOK, NetOK, RestOK
<1>5. CASE ConnectFail
  <2>1. "client" \in Ends /\ ConnOK(Closed(conn["client"]))
    BY ClosedIs DEF Ends, TypeInv, ConnsOK
  <2>2. conn' = [conn EXCEPT !["client"] = Closed(conn["client"])]
    BY <1>5 DEF ConnectFail
  <2>3. ConnsOK'
    BY <2>1, <2>2, SlotChanges DEF TypeInv
  <2>4. NetOK' /\ RestOK'
    BY <1>5 DEF ConnectFail, TypeInv, NetOK, RestOK
  <2>5. QED
    BY <2>3, <2>4 DEF TypeInv
<1>6. QED
  BY <1>1, <1>2, <1>3, <1>4, <1>5

LEMMA SentInIs ==
  ASSUME RestOK, NEW e \in Ends, NEW iss
  PROVE  SentIn(e, iss) \in Nat /\ SentIn(e, iss) <= Cardinality(sent[e])
         /\ Cardinality(sent[e]) \in Nat
<1>1. IsFiniteSet(sent[e])
  BY DEF RestOK
<1>2. {m \in sent[e] : m.from = iss} \in SUBSET sent[e]
  OBVIOUS
<1>3. QED
  BY <1>1, <1>2, FS_Subset, FS_CardinalityType DEF SentIn

(* The packet csp_rdp_send makes.                                            *)
NewData(e) == [Packet("data", conn[e].nxt, conn[e].cur) EXCEPT !.msg = Message(e, Sent(e) + 1)]

AfterSend(e) == [conn[e] EXCEPT !.tx = @ \cup {NewData(e)}, !.nxt = Plus(@, 1)]

LEMMA NewDataIs ==
  ASSUME TypeInv, NEW e \in Ends
  PROVE  /\ Message(e, Sent(e) + 1) \in Messages
         /\ NewData(e) \in DataPackets
         /\ NewData(e).msg = Message(e, Sent(e) + 1) /\ NewData(e).seq = conn[e].nxt
         /\ NewData(e).kind = "data"
<1>1. conn[e].nxt \in Seqs /\ conn[e].cur \in Seqs /\ conn[e].iss \in Seqs
  BY DEF TypeInv, ConnsOK, Conns
<1>2. Sent(e) + 1 \in Nat
  BY SentInIs DEF TypeInv, Sent
<1>3. Message(e, Sent(e) + 1) \in Messages
  BY <1>1, <1>2 DEF Message, Messages
<1> DEFINE m == Message(e, Sent(e) + 1)
<1> HIDE DEF m
<1>4. [Packet("data", conn[e].nxt, conn[e].cur) EXCEPT !.msg = m]
        = [kind |-> "data", seq |-> conn[e].nxt, ack |-> conn[e].cur, msg |-> m, eacks |-> {}]
  BY DEF Packet
<1>5. NewData(e) = [kind |-> "data", seq |-> conn[e].nxt, ack |-> conn[e].cur, msg |-> m,
                    eacks |-> {}]
  BY <1>4 DEF NewData, m
<1>6. m \in Messages
  BY <1>3 DEF m
<1>7. QED
  BY <1>1, <1>5, <1>6 DEF DataPackets, Sendable, Packets, m

LEMMA SendSteps ==
  ASSUME NEW e \in Ends, Send(e), conn \in [Ends -> Conns]
  PROVE  /\ conn[e].up /\ conn[e].st = "open" /\ Cardinality(sent[e]) < MaxSend[e]
         /\ conn' = [conn EXCEPT ![e] = AfterSend(e)]
         /\ Transmit(e, {NewData(e)})
         /\ sent' = [sent EXCEPT ![e] = @ \cup {Message(e, Sent(e) + 1)}]
         /\ UNCHANGED <<call, sem, opens, got>>
<1> DEFINE p == NewData(e)
<1>1. conn' = [conn EXCEPT ![e].tx = @ \cup {p}, ![e].nxt = Plus(@, 1)] /\ Transmit(e, {p})
  BY DEF Send, NewData
<1>2. conn' = [conn EXCEPT ![e] = AfterSend(e)]
  <2> HIDE DEF p
  <2>1. conn' = [conn EXCEPT ![e] = [conn[e] EXCEPT !.tx = @ \cup {p}, !.nxt = Plus(@, 1)]]
    BY <1>1 DEF Conns
  <2>2. QED
    BY <2>1 DEF AfterSend, p
<1>3. QED
  BY <1>1, <1>2 DEF Send, Holds

LEMMA AfterSendIs ==
  ASSUME TypeInv, NEW e \in Ends, conn[e].up
  PROVE  ConnOK(AfterSend(e))
<1>1. NewData(e) \in Sendable /\ NewData(e) \in Packets
  BY NewDataIs DEF DataPackets, Sendable
<1>2. conn[e].nxt \in Int
  <2>1. conn[e].nxt \in Seqs
    BY DEF TypeInv, ConnsOK, Conns
  <2>2. QED
    BY <2>1 DEF Seqs
<1>3. Plus(conn[e].nxt, 1) \in Seqs
  BY <1>2, PlusIn
<1>4. ConnOK(conn[e])
  BY DEF TypeInv, ConnsOK
<1>5. QED
  BY <1>1, <1>3, <1>4 DEF AfterSend, ConnOK, Conns

LEMMA SendIs ==
  ASSUME TypeInv, NEW e \in Ends, Send(e)
  PROVE  TypeInv'
<1>1. ConnOK(AfterSend(e)) /\ {NewData(e)} \in SUBSET Sendable /\ Passing(e, {NewData(e)})
  BY SendSteps, AfterSendIs, NewDataIs, NetTransmitted DEF TypeInv, ConnsOK, DataPackets
<1>2. ConnsOK' /\ NetOK'
  BY <1>1, SendSteps, SlotAndNet DEF TypeInv, ConnsOK
<1>3. \A x \in Ends : sent'[x] \in SUBSET Messages /\ IsFiniteSet(sent'[x])
  <2>1. sent' = [sent EXCEPT ![e] = @ \cup {Message(e, Sent(e) + 1)}]
    BY SendSteps DEF TypeInv, ConnsOK
  <2>2. Message(e, Sent(e) + 1) \in Messages
    BY NewDataIs
  <2>3. IsFiniteSet(sent[e] \cup {Message(e, Sent(e) + 1)})
    BY FS_AddElement DEF TypeInv, RestOK
  <2>4. QED
    BY <2>1, <2>2, <2>3 DEF TypeInv, RestOK
<1>4. RestOK'
  <2>1. UNCHANGED <<call, sem, opens, got>> /\ sent' = [x \in Ends |-> sent'[x]]
    BY SendSteps DEF TypeInv, ConnsOK, RestOK
  <2>2. QED
    BY <1>3, <2>1 DEF TypeInv, RestOK
<1>5. QED
  BY <1>2, <1>4 DEF TypeInv

AfterRead(e) == [conn[e] EXCEPT !.rx = Tail(@)]

LEMMA ReadSteps ==
  ASSUME NEW e \in Ends, Read(e), conn \in [Ends -> Conns], got \in [Ends -> Seq(Messages)]
  PROVE  /\ conn[e].up /\ conn[e].rx # <<>>
         /\ conn' = [conn EXCEPT ![e] = AfterRead(e)]
         /\ got' = [got EXCEPT ![e] = Append(@, Head(conn[e].rx))]
         /\ Transmit(e, AckIfRoom(AfterRead(e)))
         /\ UNCHANGED <<call, sem, opens, sent>>
<1>1. conn' = [conn EXCEPT ![e].rx = Tail(@)] /\ Transmit(e, AckIfRoom(conn'[e]))
  BY DEF Read
<1>2. conn' = [conn EXCEPT ![e] = AfterRead(e)]
  BY <1>1 DEF AfterRead
<1>3. conn'[e] = AfterRead(e)
  BY <1>2
<1>4. QED
  BY <1>1, <1>2, <1>3 DEF Read, Holds

LEMMA AfterReadIs ==
  ASSUME NEW e \in Ends, ConnOK(conn[e]), conn[e].rx # <<>>
  PROVE  ConnOK(AfterRead(e)) /\ Head(conn[e].rx) \in Messages
<1>1. conn[e].rx \in Seq(Messages) /\ Len(conn[e].rx) \in Nat /\ Len(conn[e].rx) <= RxLen
  BY LenProperties DEF ConnOK, Conns
<1>2. Tail(conn[e].rx) \in Seq(Messages) /\ Len(Tail(conn[e].rx)) = Len(conn[e].rx) - 1
      /\ Head(conn[e].rx) \in Messages
  BY <1>1, HeadTailProperties
<1>3. Len(Tail(conn[e].rx)) <= RxLen
  BY <1>1, <1>2, RdpAssumption
<1>4. QED
  BY <1>2, <1>3 DEF AfterRead, ConnOK, Conns

LEMMA ReadIs ==
  ASSUME TypeInv, NEW e \in Ends, Read(e)
  PROVE  TypeInv'
<1>1. conn \in [Ends -> Conns] /\ got \in [Ends -> Seq(Messages)] /\ ConnOK(conn[e])
  BY DEF TypeInv, ConnsOK, RestOK
<1>2. ConnOK(AfterRead(e)) /\ Head(conn[e].rx) \in Messages
  BY <1>1, ReadSteps, AfterReadIs
<1>3. AckIfRoom(AfterRead(e)) \in SUBSET Sendable
  BY <1>2, AckIfRoomIs
<1>4. Passing(e, AckIfRoom(AfterRead(e)))
  BY <1>1, ReadSteps, NetTransmitted DEF TypeInv
<1>5. ConnsOK' /\ NetOK'
  BY <1>1, <1>2, <1>3, <1>4, ReadSteps, SlotAndNet DEF TypeInv
<1>6. got' \in [Ends -> Seq(Messages)]
  <2>1. Append(got[e], Head(conn[e].rx)) \in Seq(Messages)
    BY <1>1, <1>2, AppendProperties
  <2>2. QED
    BY <1>1, <2>1, ReadSteps
<1>7. RestOK'
  BY <1>1, <1>6, ReadSteps DEF TypeInv, RestOK
<1>8. QED
  BY <1>5, <1>7 DEF TypeInv

LEMMA ClosesAre ==
  ASSUME TypeInv, NEW e \in Ends, Close(e) \/ ConnTimeout(e)
  PROVE  TypeInv'
<1>1. /\ conn[e].up /\ conn' = [conn EXCEPT ![e] = AfterClose(conn[e])]
      /\ Transmit(e, ResetOnClose(conn[e])) /\ UNCHANGED <<call, sem, opens, sent, got>>
  BY DEF Close, Holds, ConnTimeout
<1>2. ConnOK(conn[e])
  BY DEF TypeInv, ConnsOK
<1>3. ConnOK(AfterClose(conn[e])) /\ ResetOnClose(conn[e]) \in SUBSET Sendable
  BY <1>1, <1>2, AfterCloseIs, ResetsAre
<1>4. Passing(e, ResetOnClose(conn[e]))
  BY <1>1, NetTransmitted DEF TypeInv
<1>5. ConnsOK' /\ NetOK'
  BY <1>1, <1>3, <1>4, SlotAndNet DEF TypeInv
<1>6. QED
  BY <1>1, <1>5, RestStays DEF TypeInv

(* What csp_rdp_check_timeouts may send.                                     *)
Resent(e) ==
  AckIfRoom(conn[e]) \cup
    {IF HasAck(p) THEN [p EXCEPT !.ack = conn[e].cur] ELSE p : p \in Unacked(conn[e])}

LEMMA TimeoutSteps ==
  ASSUME NEW e \in Ends, CheckTimeouts(e), conn \in [Ends -> Conns]
  PROVE  /\ conn[e].up /\ conn' = [conn EXCEPT ![e] = [conn[e] EXCEPT !.tx = Unacked(conn[e])]]
         /\ Transmit(e, Resent(e)) /\ UNCHANGED <<call, sem, opens, sent, got>>
<1>1. conn' = [conn EXCEPT ![e].tx = Unacked(conn[e])]
  BY DEF CheckTimeouts
<1>2. conn'[e].tx = Unacked(conn[e])
  BY <1>1 DEF Conns
<1>3. Transmit(e, AckIfRoom(conn[e]) \cup
                 {IF HasAck(p) THEN [p EXCEPT !.ack = conn[e].cur] ELSE p : p \in conn'[e].tx})
  BY DEF CheckTimeouts
<1>4. Transmit(e, Resent(e))
  BY <1>2, <1>3 DEF Resent
<1>5. conn' = [conn EXCEPT ![e] = [conn[e] EXCEPT !.tx = Unacked(conn[e])]]
  BY <1>1
<1>6. QED
  BY <1>4, <1>5 DEF CheckTimeouts

LEMMA TimeoutIs ==
  ASSUME TypeInv, NEW e \in Ends, CheckTimeouts(e)
  PROVE  TypeInv'
<1>1. conn \in [Ends -> Conns] /\ ConnOK(conn[e])
  BY DEF TypeInv, ConnsOK
<1> DEFINE c == [conn[e] EXCEPT !.tx = Unacked(conn[e])]
<1>2. Unacked(conn[e]) \subseteq conn[e].tx
  BY DEF Unacked
<1>3. ConnOK(c)
  BY <1>1, <1>2 DEF ConnOK, Conns
<1>4. Resent(e) \in SUBSET Sendable
  <2>1. conn[e].cur \in Seqs /\ conn[e].tx \subseteq Sendable
    BY <1>1 DEF ConnOK, Conns
  <2>2. ASSUME NEW p \in Sendable PROVE [p EXCEPT !.ack = conn[e].cur] \in Sendable
    BY <2>1 DEF Sendable, Packets
  <2>3. {IF HasAck(p) THEN [p EXCEPT !.ack = conn[e].cur] ELSE p : p \in Unacked(conn[e])}
          \subseteq Sendable
    BY <1>2, <2>1, <2>2
  <2>4. QED
    BY <1>1, <2>3, AckIfRoomIs DEF Resent
<1> HIDE DEF c
<1>5. conn' = [conn EXCEPT ![e] = c] /\ Passing(e, Resent(e))
  BY <1>1, TimeoutSteps, NetTransmitted DEF TypeInv, c
<1>6. ConnsOK' /\ NetOK'
  BY <1>3, <1>4, <1>5, SlotAndNet DEF TypeInv
<1>7. QED
  BY <1>1, <1>6, TimeoutSteps, RestStays DEF TypeInv

-----------------------------------------------------------------------------
(* The types are kept: the packets that are received.                         *)

(* A way through csp_rdp_new_packet that leaves the slot as c.                 *)
LEMMA TakenIs ==
  ASSUME TypeInv, NEW e \in Ends, NEW p, NEW c, ConnOK(c), NEW outs \in SUBSET Sendable,
         Take(e, p, c, outs), RestOK'
  PROVE  TypeInv'
BY TakeIs DEF TypeInv

LEMMA TakenQuietly ==
  ASSUME TypeInv, NEW e \in Ends, NEW p, NEW c, ConnOK(c), NEW outs \in SUBSET Sendable,
         Take(e, p, c, outs), UNCHANGED <<call, sem, opens, sent, got>>
  PROVE  TypeInv'
BY RestStays, TakenIs DEF TypeInv

LEMMA RefusalsAre ==
  ASSUME TypeInv, NEW e \in Ends, NEW p \in net[e], DropClosed(e, p) \/ RefuseInClosed(e, p)
  PROVE  TypeInv'
<1> DEFINE outs == {Control("rst", conn[e])}
<1>1. ConnOK(conn[e])
  BY DEF TypeInv, ConnsOK
<1>2. outs \in SUBSET Sendable /\ {} \in SUBSET Sendable
  BY <1>1, ControlIs DEF Kinds
<1>3. Passing(e, {}) \/ Passing(e, outs)
  BY NetExchanged DEF DropClosed, RefuseInClosed, TypeInv
<1>4. NetOK'
  BY <1>2, <1>3, NetStays DEF TypeInv
<1>5. ConnsOK' /\ RestOK'
  BY RestStays DEF DropClosed, RefuseInClosed, TypeInv, ConnsOK
<1>6. QED
  BY <1>4, <1>5 DEF TypeInv

(* The slot csp_conn_new makes for a SYN.                                     *)
NewSlot(iss, p) ==
  [NoConn EXCEPT !.st = "syn_rcvd", !.up = TRUE, !.sock = TRUE, !.iss = iss,
                 !.nxt = Plus(iss, 1), !.una = iss, !.irs = p.seq, !.cur = p.seq]

NewSlotSent(iss, p) == [NewSlot(iss, p) EXCEPT !.tx = {SynAckPacket(NewSlot(iss, p))}]

LEMMA NewSlotIs ==
  ASSUME NEW iss \in Seqs, NEW p \in Sendable
  PROVE  /\ ConnOK(NewSlotSent(iss, p))
         /\ SynAckPacket(NewSlot(iss, p)) \in Sendable
<1>1. p.seq \in Seqs /\ iss \in Int
  BY SeqsAre DEF Sendable, Packets, Seqs
<1>2. Plus(iss, 1) \in Seqs
  BY <1>1, PlusIn
<1>3. ConnOK(NewSlot(iss, p))
  BY <1>1, <1>2, NoConnIs DEF NewSlot, NoConn, ConnOK, Conns
<1>4. SynAckPacket(NewSlot(iss, p)) \in Sendable
  BY <1>3, SynsAre
<1> DEFINE q == SynAckPacket(NewSlot(iss, p))
           c == NewSlot(iss, p)
<1> HIDE DEF q, c
<1>5. q \in Sendable /\ q \in Packets
  BY <1>4 DEF q, Sendable
<1>6. ConnOK([c EXCEPT !.tx = {q}])
  BY <1>3, <1>5 DEF c, ConnOK, Conns
<1>7. QED
  BY <1>4, <1>6 DEF NewSlotSent, q, c

LEMMA SynSteps ==
  ASSUME NEW e \in Ends, NEW p \in net[e], SynInClosed(e, p), opens \in [Ends -> Nat]
  PROVE  LET iss == Iss[e][opens[e] + 1] IN
           /\ e = "server" /\ ~conn[e].up /\ HasSyn(p)
           /\ opens[e] < Len(Iss[e]) /\ opens' = [opens EXCEPT ![e] = opens[e] + 1]
           /\ Take(e, p, NewSlotSent(iss, p), {SynAckPacket(NewSlot(iss, p))})
           /\ got' = [got EXCEPT ![e] = <<>>]
           /\ UNCHANGED <<call, sem, sent>>
<1>1. opens' = [opens EXCEPT ![e] = opens[e] + 1] /\ opens'[e] = opens[e] + 1
  BY DEF SynInClosed
<1>2. LET iss == Iss[e][opens'[e]] IN
        Take(e, p, NewSlotSent(iss, p), {SynAckPacket(NewSlot(iss, p))})
  BY DEF SynInClosed, NewSlotSent, NewSlot
<1>3. QED
  BY <1>1, <1>2 DEF SynInClosed

LEMMA SynIs ==
  ASSUME TypeInv, NEW e \in Ends, NEW p \in net[e], SynInClosed(e, p)
  PROVE  TypeInv'
<1> DEFINE iss == Iss[e][opens[e] + 1]
<1>1. opens \in [Ends -> Nat] /\ p \in Sendable
  BY DEF TypeInv, RestOK, NetOK
<1>2. opens[e] < Len(Iss[e]) /\ Len(Iss[e]) \in Nat /\ opens[e] \in Nat
  BY <1>1, SynSteps, LenProperties, RdpAssumption
<1>3. iss \in Seqs
  BY <1>2, IssIn
<1> HIDE DEF iss
<1>4. /\ Take(e, p, NewSlotSent(iss, p), {SynAckPacket(NewSlot(iss, p))})
      /\ opens' = [opens EXCEPT ![e] = opens[e] + 1]
      /\ got' = [got EXCEPT ![e] = <<>>] /\ UNCHANGED <<call, sem, sent>>
  BY <1>1, SynSteps DEF iss
<1>5. RestOK'
  <2>1. opens' \in [Ends -> Nat] /\ \A x \in Ends : opens'[x] <= Len(Iss[x])
    BY <1>1, <1>2, <1>4 DEF TypeInv, RestOK
  <2>2. got' \in [Ends -> Seq(Messages)]
    BY <1>4 DEF TypeInv, RestOK
  <2>3. QED
    BY <1>4, <2>1, <2>2 DEF TypeInv, RestOK
<1>6. ConnOK(NewSlotSent(iss, p)) /\ {SynAckPacket(NewSlot(iss, p))} \in SUBSET Sendable
  BY <1>1, <1>3, NewSlotIs
<1>7. QED
  BY <1>4, <1>5, <1>6, TakenIs

(* A slot with a new snd_una and skewed or not.                               *)
LEMMA UnaIs ==
  ASSUME NEW c, ConnOK(c), NEW a \in Seqs, NEW b \in BOOLEAN
  PROVE  /\ ConnOK([c EXCEPT !.una = a])
         /\ ConnOK([c EXCEPT !.skewed = b])
         /\ c.up => ConnOK([c EXCEPT !.st = "close_wait"])
         /\ ConnOK([c EXCEPT !.sock = b])
BY DEF ConnOK, Conns

LEMMA ResetIs ==
  ASSUME TypeInv, NEW e \in Ends, NEW p \in net[e], NewReset(e, p)
  PROVE  TypeInv'
<1> DEFINE c == [conn[e] EXCEPT !.una = IF HasAck(p) THEN Plus(p.ack, 1) ELSE @]
           waiting == [c EXCEPT !.st = "close_wait"]
<1>1. ConnOK(conn[e]) /\ p \in Sendable /\ conn[e].up
  BY DEF TypeInv, ConnsOK, NetOK, NewReset
<1>2. p.ack \in Seqs
  BY <1>1 DEF Sendable, Packets
<1>3. Plus(p.ack, 1) \in Seqs
  BY <1>2, NextSeq
<1>4. ConnOK(c) /\ c.up
  BY <1>1, <1>3 DEF ConnOK, Conns
<1>5. UNCHANGED <<call, sem, opens, sent, got>>
  BY DEF NewReset
<1>6. \/ Take(e, p, Closed(c), {})
      \/ Take(e, p, AfterDiscard(waiting), {Control("rstack", c)})
      \/ Take(e, p, [c EXCEPT !.skewed = @ \/ HasAck(p)], {})
  BY DEF NewReset
<1> HIDE DEF c
<1>7. ConnOK(Closed(c)) /\ Control("rstack", c) \in Sendable
  BY <1>4, ClosedIs, ControlIs DEF Kinds
<1>8. ConnOK(waiting) /\ waiting.up
  BY <1>4 DEF ConnOK, Conns
<1> HIDE DEF waiting
<1>9. ConnOK(AfterDiscard(waiting))
  BY <1>8, AfterCloseIs
<1>10. ConnOK([c EXCEPT !.skewed = @ \/ HasAck(p)])
  <2>1. (c.skewed \/ HasAck(p)) \in BOOLEAN
    BY <1>4 DEF ConnOK, Conns, HasAck
  <2>2. QED
    BY <1>4, <2>1 DEF ConnOK, Conns
<1>11. CASE Take(e, p, Closed(c), {})
  BY <1>5, <1>7, <1>11, TakenQuietly
<1>12. CASE Take(e, p, AfterDiscard(waiting), {Control("rstack", c)})
  BY <1>5, <1>7, <1>9, <1>12, TakenQuietly
<1>13. CASE Take(e, p, [c EXCEPT !.skewed = @ \/ HasAck(p)], {})
  BY <1>5, <1>10, <1>13, TakenQuietly
<1>14. QED
  BY <1>6, <1>11, <1>12, <1>13

LEMMA AnswersAre ==
  ASSUME TypeInv, NEW e \in Ends, NEW p \in net[e], SynAckInSynSent(e, p) \/ HalfOpen(e, p)
  PROVE  TypeInv'
<1> DEFINE d == [conn[e] EXCEPT !.st = "open", !.cur = p.seq, !.irs = p.seq,
                                !.una = Plus(p.ack, 1)]
<1>1. ConnOK(conn[e]) /\ p \in Sendable /\ conn[e].up
  BY DEF TypeInv, ConnsOK, NetOK, SynAckInSynSent, HalfOpen
<1>2. p.ack \in Seqs /\ p.seq \in Seqs
  BY <1>1 DEF Sendable, Packets
<1>3. Plus(p.ack, 1) \in Seqs
  BY <1>2, NextSeq
<1>4. ConnOK(d)
  BY <1>1, <1>2, <1>3 DEF ConnOK, Conns
<1>5. RestOK'
  BY DEF SynAckInSynSent, HalfOpen, TypeInv, RestOK
<1>6. {Control("rst", conn[e])} \in SUBSET Sendable
  BY <1>1, ControlIs DEF Kinds
<1>7. Take(e, p, d, {}) \/ Take(e, p, conn[e], {Control("rst", conn[e])})
  BY DEF SynAckInSynSent, HalfOpen
<1> HIDE DEF d
<1>8. QED
  BY <1>1, <1>4, <1>5, <1>6, <1>7, TakenIs

LEMMA SynInOpenIs ==
  ASSUME TypeInv, NEW e \in Ends, NEW p \in net[e], SynInOpen(e, p) \/ WrongSynAck(e, p)
  PROVE  TypeInv'
<1>1. ConnOK(conn[e]) /\ conn[e].up
  BY DEF TypeInv, ConnsOK, SynInOpen, WrongSynAck, Regular, InConversation
<1>2. UNCHANGED <<call, sem, opens, sent, got>>
  BY DEF SynInOpen, WrongSynAck
<1>3. \/ Take(e, p, conn[e], {})
      \/ Take(e, p, AfterDiscard(conn[e]), ResetOnDiscard(conn[e]))
  BY DEF SynInOpen, WrongSynAck
<1>4. ConnOK(AfterDiscard(conn[e])) /\ ResetOnDiscard(conn[e]) \in SUBSET Sendable
  BY <1>1, AfterCloseIs, ResetsAre
<1>5. QED
  BY <1>1, <1>2, <1>3, <1>4, TakenQuietly

LEMMA OutOfWindowIs ==
  ASSUME TypeInv, NEW e \in Ends, NEW p \in net[e], OutOfWindow(e, p) \/ BadAck(e, p)
  PROVE  TypeInv'
<1>1. ConnOK(conn[e])
  BY DEF TypeInv, ConnsOK
<1>2. UNCHANGED <<call, sem, opens, sent, got>>
  BY DEF OutOfWindow, BadAck
<1> DEFINE outs == {IF conn[e].st = "open" THEN Eack(conn[e]) ELSE SynAckPacket(conn[e])}
<1>3. Take(e, p, conn[e], outs) \/ Take(e, p, conn[e], {})
  BY DEF OutOfWindow, BadAck
<1>4. outs \in SUBSET Sendable
  BY <1>1, EackIs, SynsAre
<1>5. QED
  BY <1>1, <1>2, <1>3, <1>4, TakenQuietly

LEMMA NewInCloseWaitIs ==
  ASSUME TypeInv, NEW e \in Ends, NEW p \in net[e], NewInCloseWait(e, p)
  PROVE  TypeInv'
<1> DEFINE d == [conn[e] EXCEPT !.una = Plus(p.ack, 1)]
<1>1. ConnOK(conn[e]) /\ p \in Sendable /\ conn[e].up
  BY DEF TypeInv, ConnsOK, NetOK, NewInCloseWait
<1>2. ConnOK(d) /\ {Control("rstack", conn[e])} \in SUBSET Sendable
  BY <1>1, AckedIs, ControlIs DEF Kinds
<1>3. UNCHANGED <<call, sem, opens, sent, got>>
  BY DEF NewInCloseWait
<1>4. \/ Take(e, p, d, {Control("rstack", conn[e])}) \/ Take(e, p, conn[e], {})
  BY DEF NewInCloseWait
<1> HIDE DEF d
<1>5. QED
  BY <1>1, <1>2, <1>3, <1>4, TakenQuietly

LEMMA AcceptedIs ==
  ASSUME TypeInv, NEW e \in Ends, NEW p \in net[e], Accepted(e, p)
  PROVE  /\ ConnOK(Acked(conn[e], p)) /\ p \in Sendable
         /\ Acked(conn[e], p) = [conn[e] EXCEPT !.st = "open", !.una = Plus(p.ack, 1)]
         /\ Acked(conn[e], p).up
BY AckedIs DEF TypeInv, ConnsOK, NetOK, Accepted, Regular, InConversation, Acked

LEMMA NewAckIs ==
  ASSUME TypeInv, NEW e \in Ends, NEW p \in net[e], NewAck(e, p)
  PROVE  TypeInv'
<1> DEFINE c == Acked(conn[e], p)
           d == [c EXCEPT !.tx = {q \in @ : q.seq \notin p.eacks}]
<1>1. ConnOK(c)
  BY AcceptedIs DEF NewAck
<1>2. Take(e, p, d, {}) /\ UNCHANGED <<call, sem, opens, sent, got>>
  BY DEF NewAck
<1> HIDE DEF c
<1>3. ConnOK(d)
  BY <1>1 DEF ConnOK, Conns
<1> HIDE DEF d
<1>4. QED
  BY <1>2, <1>3, TakenQuietly

LEMMA OutOfOrderIs ==
  ASSUME TypeInv, NEW e \in Ends, NEW p \in net[e], NewOutOfOrder(e, p)
  PROVE  TypeInv'
<1> DEFINE c == Acked(conn[e], p)
           kept == [c EXCEPT !.ooo = @ \cup {p}]
<1>1. ConnOK(c) /\ p \in Sendable /\ p.kind = "data"
  BY AcceptedIs DEF NewOutOfOrder
<1>2. Take(e, p, c, {}) \/ Take(e, p, kept, {Eack(kept)})
  BY DEF NewOutOfOrder
<1>3. UNCHANGED <<call, sem, opens, sent, got>>
  BY DEF NewOutOfOrder
<1> HIDE DEF c
<1>4. p \in Packets /\ IsFiniteSet(c.ooo \cup {p})
  BY <1>1, FS_AddElement DEF ConnOK, Sendable
<1>5. ConnOK(kept)
  BY <1>1, <1>4 DEF ConnOK, Conns, DataPackets
<1> HIDE DEF kept
<1>6. {Eack(kept)} \in SUBSET Sendable
  BY <1>5, EackIs
<1>7. QED
  BY <1>1, <1>2, <1>3, <1>5, <1>6, TakenQuietly

(* The slot when p has been put in the application's queue.                   *)
Received(e, p) ==
  [Acked(conn[e], p) EXCEPT !.sock = FALSE, !.cur = p.seq, !.rx = Append(@, p.msg)]

LEMMA InOrderSteps ==
  ASSUME NEW e \in Ends, NEW p \in net[e], NewInOrder(e, p)
  PROVE  /\ Accepted(e, p) /\ p.kind = "data" /\ p.seq = Plus(conn[e].cur, 1)
         /\ \/ Take(e, p, Acked(conn[e], p), {})
            \/ /\ Free(Acked(conn[e], p)) > 0
               /\ Take(e, p, AfterFlush(Received(e, p)), AckIfRoom(Received(e, p)))
         /\ UNCHANGED <<call, sem, opens, sent, got>>
BY DEF NewInOrder, Received

LEMMA ReceivedIs ==
  ASSUME TypeInv, NEW e \in Ends, NEW p \in net[e], Accepted(e, p), p.kind = "data",
         Free(Acked(conn[e], p)) > 0
  PROVE  ConnOK(Received(e, p))
<1> DEFINE c == Acked(conn[e], p)
<1>1. ConnOK(c) /\ p \in Sendable /\ Free(c) > 0
  BY AcceptedIs
<1> HIDE DEF c
<1>2. p.msg \in Messages /\ p.seq \in Seqs
  BY <1>1 DEF Sendable, Packets
<1>3. c.rx \in Seq(Messages) /\ Len(c.rx) \in Nat
  BY <1>1, LenProperties DEF ConnOK, Conns
<1>4. Append(c.rx, p.msg) \in Seq(Messages) /\ Len(Append(c.rx, p.msg)) = Len(c.rx) + 1
  BY <1>2, <1>3, AppendProperties
<1>5. Len(c.rx) + 1 <= RxLen
  BY <1>1, <1>3, RdpAssumption DEF Free
<1>6. ConnOK([c EXCEPT !.sock = FALSE, !.cur = p.seq, !.rx = Append(@, p.msg)])
  BY <1>1, <1>2, <1>4, <1>5 DEF ConnOK, Conns
<1>7. QED
  BY <1>6 DEF Received, c

LEMMA InOrderIs ==
  ASSUME TypeInv, NEW e \in Ends, NEW p \in net[e], NewInOrder(e, p)
  PROVE  TypeInv'
<1>1. ConnOK(Acked(conn[e], p))
  BY InOrderSteps, AcceptedIs
<1>2. CASE Take(e, p, Acked(conn[e], p), {})
  BY <1>1, <1>2, InOrderSteps, TakenQuietly
<1>3. CASE /\ Free(Acked(conn[e], p)) > 0
           /\ Take(e, p, AfterFlush(Received(e, p)), AckIfRoom(Received(e, p)))
  <2>1. ConnOK(Received(e, p))
    BY <1>3, InOrderSteps, ReceivedIs
  <2>2. ConnOK(AfterFlush(Received(e, p))) /\ AckIfRoom(Received(e, p)) \in SUBSET Sendable
    BY <2>1, AfterFlushIs, AckIfRoomIs
  <2>3. QED
    BY <1>3, <2>2, InOrderSteps, TakenQuietly
<1>4. QED
  BY <1>2, <1>3, InOrderSteps

LEMMA TypeStep == TypeInv /\ [Next]_vars => TypeInv'
<1> SUFFICES ASSUME TypeInv, [Next]_vars PROVE TypeInv'
  OBVIOUS
<1>1. CASE Connect \/ ConnectRetry \/ ConnectDone \/ ConnectGiveUp \/ ConnectFail
  BY <1>1, ConnectsAre
<1>2. CASE \E e \in Ends : Send(e) \/ Read(e) \/ Close(e) \/ ConnTimeout(e) \/ CheckTimeouts(e)
  BY <1>2, SendIs, ReadIs, ClosesAre, TimeoutIs
<1>3. ASSUME NEW e \in Ends, NewPacket(e) PROVE TypeInv'
  <2>1. PICK p \in net[e] :
          \/ DropClosed(e, p) \/ RefuseInClosed(e, p) \/ SynInClosed(e, p)
          \/ NewReset(e, p)
          \/ SynAckInSynSent(e, p) \/ HalfOpen(e, p)
          \/ SynInOpen(e, p) \/ OutOfWindow(e, p) \/ BadAck(e, p) \/ WrongSynAck(e, p)
          \/ NewAck(e, p) \/ NewOutOfOrder(e, p) \/ NewInOrder(e, p)
          \/ NewInCloseWait(e, p)
    BY <1>3 DEF NewPacket
  <2>2. QED
    BY <2>1, RefusalsAre, SynIs, ResetIs, AnswersAre, SynInOpenIs, OutOfWindowIs, NewAckIs,
       OutOfOrderIs, InOrderIs, NewInCloseWaitIs
<1>4. CASE UNCHANGED vars
  BY <1>4 DEF vars, TypeInv, ConnsOK, NetOK, RestOK
<1>5. QED
  BY <1>1, <1>2, <1>3, <1>4 DEF Next

(* For any initial numbers, window, queue length and any packets lost,         *)
(* repeated or overtaken: the fields of both ends keep their types, the           *)
(* application's queue is never longer than it can be, and a slot is in use       *)
(* exactly while its protocol is not CLOSED (csp_rdp.c).                         *)
THEOREM TypeCorrect == Spec => []TypeOK
<1>1. Spec => []TypeInv
  BY TypeInit, TypeStep, PTL DEF Spec
<1>2. QED
  BY <1>1, TypeInvImplies, PTL

-----------------------------------------------------------------------------
(***************************************************************************)
(* Numbers.  A data packet names its message by its sequence number, as long    *)
(* as no other initial number of the sender's is within what is sent in a         *)
(* connection and the receiver's window.                                       *)
(***************************************************************************)

(* A packet of an end that has accepted the messages msgs and used the numbers   *)
(* used.                                                                     *)
SentBy(p, msgs, used) ==
  /\ p.kind = "data" => p.msg \in msgs /\ p.seq = Plus(p.msg.from, p.msg.nr)
  /\ HasSyn(p) => p.seq \in used

(* What e has sent.                                                          *)
PacketOK(e, p) == SentBy(p, sent[e], Used(e))

PacketsInv ==
  \A e \in Ends :
    /\ \A p \in net[Peer(e)] : PacketOK(e, p)
    /\ \A p \in conn[e].tx : PacketOK(e, p)
    /\ \A p \in conn[e].ooo : PacketOK(Peer(e), p)

(* The number of the next message is that of the connection plus those sent.    *)
SendInv ==
  \A e \in Ends :
    /\ conn[e].up => /\ opens[e] > 0 /\ conn[e].iss = Iss[e][opens[e]]
                     /\ conn[e].nxt = Plus(conn[e].iss, Sent(e) + 1)
    /\ \A m \in sent[e] : m.from \in Used(e) /\ m.nr \in 1 .. SentIn(e, m.from)
    /\ Cardinality(sent[e]) <= MaxSend[e]

(* Until the server has had a SYN, the client cannot have sent anything.        *)
Known == conn["server"].irs \in Used("client")

Unknown ==
  /\ sent["client"] = {}
  /\ conn["client"].st # "open"
  /\ conn["server"].st # "syn_rcvd"
  /\ \A p \in net["client"] \cup conn["server"].tx : p.kind # "synack"

(* How the connections begin.                                                *)
BeginInv ==
  /\ Known \/ Unknown
  /\ conn["client"].st # "syn_rcvd" /\ conn["server"].st # "syn_sent"
  /\ conn["client"].st = "open" => conn["client"].irs \in Used("server")
  /\ opens["client"] = 0 \/ conn["client"].st = "syn_sent" =>
       got["client"] = <<>> /\ conn["client"].rx = <<>> /\ conn["client"].ooo = {}

NumberInv == TypeInv /\ PacketsInv /\ SendInv /\ BeginInv

(* What has been delivered of the connection with number x when n messages of    *)
(* it have been passed.                                                      *)
InOrderUpTo(all, x, n) ==
  /\ \A k \in 1 .. Len(all) : all[k].from = x /\ all[k].nr \in 1 .. n
  /\ \A j, k \in 1 .. Len(all) : j < k => all[j].nr < all[k].nr

ReceivedOK(e) ==
  /\ Passed(e) <= SentIn(Peer(e), conn[e].irs)
  /\ \A p \in conn[e].ooo : p.msg.from = conn[e].irs
  /\ InOrderUpTo(Delivered(e), conn[e].irs, Passed(e))

ReceiveInv == \A e \in Ends : ReceivedOK(e)

-----------------------------------------------------------------------------
(* Most steps touch neither the numbers of the receiver nor what is delivered:   *)
(* at most they close the slot.                                              *)

Minor(c, d) ==
  /\ d.iss = c.iss /\ d.nxt = c.nxt /\ d.irs = c.irs /\ d.cur = c.cur
  /\ d.up => c.up
  /\ d.tx \subseteq c.tx /\ d.ooo \subseteq c.ooo
  /\ d.rx = c.rx \/ d.rx = <<>>
  /\ d.st \in {c.st, "closed", "close_wait"} \/ (c.st = "syn_rcvd" /\ d.st = "open")

(* Nothing new is said: no message, no SYN but what is kept in tx_queue.        *)
Repeats(c, q) ==
  \/ q.kind \notin {"data", "syn", "synack"}
  \/ \E r \in c.tx : q.kind = r.kind /\ q.seq = r.seq /\ q.msg = r.msg
  \/ c.up /\ c.st = "syn_rcvd" /\ q = SynAckPacket(c)

MinorStep(e, outs) ==
  /\ conn' = [conn EXCEPT ![e] = conn'[e]]
  /\ Minor(conn[e], conn'[e])
  /\ Passing(e, outs)
  /\ \A q \in outs : Repeats(conn[e], q)
  /\ UNCHANGED <<opens, sent, got>>

LEMMA MinorSelf == ASSUME NEW c PROVE Minor(c, c)
BY DEF Minor

LEMMA MinorTrans ==
  ASSUME NEW b, NEW c, NEW d, Minor(b, c), Minor(c, d)
  PROVE  Minor(b, d)
BY DEF Minor

LEMMA MinorClosed == ASSUME NEW c \in Conns PROVE Minor(c, Closed(c))
BY DEF Minor, Closed, Conns

LEMMA MinorAfterClose ==
  ASSUME NEW c \in Conns
  PROVE  Minor(c, AfterClose(c)) /\ Minor(c, AfterDiscard(c))
         /\ Minor(c, [c EXCEPT !.st = "close_wait"])
<1>1. Minor(c, [c EXCEPT !.st = "close_wait"])
  BY DEF Minor, Conns
<1>2. QED
  BY <1>1, MinorClosed, MinorSelf DEF AfterClose, AfterDiscard

LEMMA MinorUna ==
  ASSUME NEW c \in Conns, NEW a
  PROVE  /\ Minor(c, [c EXCEPT !.una = a])
         /\ Minor(c, [c EXCEPT !.skewed = a])
BY DEF Minor, Conns

LEMMA MinorAcked ==
  ASSUME NEW c \in Conns, NEW p, c.st \in {"syn_rcvd", "open"}
  PROVE  Minor(c, Acked(c, p))
BY DEF Minor, Conns, Acked

LEMMA MinorTx ==
  ASSUME NEW c \in Conns, NEW T \in SUBSET c.tx
  PROVE  Minor(c, [c EXCEPT !.tx = T])
BY DEF Minor, Conns

LEMMA RepeatsControl ==
  ASSUME NEW b, NEW c, NEW kind \in Kinds \ {"data", "syn", "synack"}
  PROVE  Repeats(b, Control(kind, c))
BY DEF Repeats, Control, Packet

LEMMA RepeatsEack == ASSUME NEW b, NEW c PROVE Repeats(b, Eack(c))
BY DEF Repeats, Eack, Control, Packet

LEMMA RepeatsResets ==
  ASSUME NEW b, NEW c
  PROVE  /\ \A q \in ResetOnClose(c) : Repeats(b, q)
         /\ \A q \in ResetOnDiscard(c) : Repeats(b, q)
         /\ \A q \in AckIfRoom(c) : Repeats(b, q)
BY RepeatsControl DEF ResetOnClose, ResetOnDiscard, AckIfRoom, Kinds

LEMMA MinorTaken ==
  ASSUME TypeInv, NEW e \in Ends, NEW p, NEW d, NEW outs, Take(e, p, d, outs),
         Minor(conn[e], d), \A q \in outs : Repeats(conn[e], q), UNCHANGED <<opens, sent, got>>
  PROVE  \E o : MinorStep(e, o)
<1>1. conn' = [conn EXCEPT ![e] = d] /\ conn'[e] = d
  BY DEF Take, TypeInv, ConnsOK
<1>2. Passing(e, outs)
  BY NetExchanged DEF Take, TypeInv
<1>3. MinorStep(e, outs)
  BY <1>1, <1>2 DEF MinorStep
<1>4. QED
  BY <1>3

LEMMA MinorTransmitted ==
  ASSUME TypeInv, NEW e \in Ends, NEW d, NEW outs, conn' = [conn EXCEPT ![e] = d],
         Transmit(e, outs), Minor(conn[e], d), \A q \in outs : Repeats(conn[e], q),
         UNCHANGED <<opens, sent, got>>
  PROVE  \E o : MinorStep(e, o)
<1>1. conn'[e] = d
  BY DEF TypeInv, ConnsOK
<1>2. Passing(e, outs)
  BY NetTransmitted DEF TypeInv
<1>3. MinorStep(e, outs)
  BY <1>1, <1>2 DEF MinorStep
<1>4. QED
  BY <1>3

LEMMA ConnectsMinor ==
  ASSUME TypeInv, ConnectDone \/ ConnectGiveUp \/ ConnectFail
  PROVE  \E o : MinorStep("client", o)
<1>1. "client" \in Ends /\ conn \in [Ends -> Conns] /\ conn["client"] \in Conns
  BY DEF Ends, TypeInv, ConnsOK
<1>2. Passing("client", {})
  BY <1>1 DEF ConnectDone, ConnectGiveUp, ConnectFail, Passing, TypeInv, NetOK
<1>3. conn'["client"] \in {conn["client"], Closed(conn["client"])}
  BY <1>1 DEF ConnectDone, ConnectGiveUp, ConnectFail
<1>4. Minor(conn["client"], conn'["client"])
  BY <1>1, <1>3, MinorSelf, MinorClosed
<1>5. conn' = [conn EXCEPT !["client"] = conn'["client"]]
  BY <1>1 DEF ConnectDone, ConnectGiveUp, ConnectFail
<1>6. MinorStep("client", {})
  BY <1>2, <1>4, <1>5 DEF MinorStep, ConnectDone, ConnectGiveUp, ConnectFail
<1>7. QED
  BY <1>6

LEMMA ClosesMinor ==
  ASSUME TypeInv, NEW e \in Ends, Close(e) \/ ConnTimeout(e)
  PROVE  \E o : MinorStep(e, o)
<1>1. conn' = [conn EXCEPT ![e] = AfterClose(conn[e])] /\ Transmit(e, ResetOnClose(conn[e]))
      /\ UNCHANGED <<opens, sent, got>>
  BY DEF Close, ConnTimeout
<1>2. Minor(conn[e], AfterClose(conn[e]))
  BY MinorAfterClose DEF TypeInv, ConnsOK
<1>3. QED
  BY <1>1, <1>2, RepeatsResets, MinorTransmitted

LEMMA TimeoutMinor ==
  ASSUME TypeInv, NEW e \in Ends, CheckTimeouts(e)
  PROVE  \E o : MinorStep(e, o)
<1>1. conn \in [Ends -> Conns] /\ conn[e] \in Conns /\ conn[e].tx \subseteq Sendable
  BY DEF TypeInv, ConnsOK, ConnOK
<1>2. Unacked(conn[e]) \subseteq conn[e].tx
  BY DEF Unacked
<1>3. Minor(conn[e], [conn[e] EXCEPT !.tx = Unacked(conn[e])])
  BY <1>1, <1>2, MinorTx
<1>4. ASSUME NEW q \in Resent(e) PROVE Repeats(conn[e], q)
  <2>1. CASE q \in AckIfRoom(conn[e])
    BY <2>1, RepeatsResets
  <2>2. CASE q \notin AckIfRoom(conn[e])
    <3>1. PICK p \in Unacked(conn[e]) :
            q = IF HasAck(p) THEN [p EXCEPT !.ack = conn[e].cur] ELSE p
      BY <2>2 DEF Resent
    <3>2. p \in conn[e].tx /\ p \in Packets
      BY <1>1, <1>2, <3>1 DEF Sendable
    <3>3. q.kind = p.kind /\ q.seq = p.seq /\ q.msg = p.msg
      BY <3>1, <3>2 DEF Packets
    <3>4. QED
      BY <3>2, <3>3 DEF Repeats
  <2>3. QED
    BY <2>1, <2>2
<1>5. QED
  BY <1>1, <1>3, <1>4, TimeoutSteps, MinorTransmitted

LEMMA RefusalsMinor ==
  ASSUME TypeInv, NEW e \in Ends, NEW p \in net[e], DropClosed(e, p) \/ RefuseInClosed(e, p)
  PROVE  \E o : MinorStep(e, o)
<1>1. conn' = conn /\ UNCHANGED <<opens, sent, got>>
  BY DEF DropClosed, RefuseInClosed
<1>2. Exchange(e, p, {}) \/ Exchange(e, p, {Control("rst", conn[e])})
  BY DEF DropClosed, RefuseInClosed
<1>3. Take(e, p, conn[e], {}) \/ Take(e, p, conn[e], {Control("rst", conn[e])})
  BY <1>1, <1>2 DEF Take, TypeInv, ConnsOK
<1>4. QED
  BY <1>1, <1>3, MinorSelf, MinorTaken, RepeatsControl DEF Kinds

LEMMA ResetMinor ==
  ASSUME TypeInv, NEW e \in Ends, NEW p \in net[e], NewReset(e, p)
  PROVE  \E o : MinorStep(e, o)
<1> DEFINE c == [conn[e] EXCEPT !.una = IF HasAck(p) THEN Plus(p.ack, 1) ELSE @]
           waiting == [c EXCEPT !.st = "close_wait"]
<1>1. ConnOK(conn[e]) /\ p \in Sendable /\ conn[e].up
  BY DEF TypeInv, ConnsOK, NetOK, NewReset
<1>2. p.ack \in Seqs
  BY <1>1 DEF Sendable, Packets
<1>3. Plus(p.ack, 1) \in Seqs
  BY <1>2, NextSeq
<1>4. c \in Conns /\ Minor(conn[e], c)
  BY <1>1, <1>3 DEF ConnOK, Conns, Minor
<1>5. UNCHANGED <<opens, sent, got>>
  BY DEF NewReset
<1>6. \/ Take(e, p, Closed(c), {})
      \/ Take(e, p, AfterDiscard(waiting), {Control("rstack", c)})
      \/ Take(e, p, [c EXCEPT !.skewed = @ \/ HasAck(p)], {})
  BY DEF NewReset
<1> HIDE DEF c
<1>7. waiting \in Conns /\ Minor(c, waiting)
  BY <1>4, MinorAfterClose DEF Conns
<1> HIDE DEF waiting
<1>8. Minor(conn[e], Closed(c)) /\ Minor(conn[e], AfterDiscard(waiting))
      /\ Minor(conn[e], [c EXCEPT !.skewed = @ \/ HasAck(p)])
  BY <1>4, <1>7, MinorTrans, MinorClosed, MinorAfterClose, MinorUna
<1>9. QED
  BY <1>5, <1>6, <1>8, MinorTaken, RepeatsControl DEF Kinds

LEMMA AnswersMinor ==
  ASSUME TypeInv, NEW e \in Ends, NEW p \in net[e],
         \/ HalfOpen(e, p) \/ SynInOpen(e, p) \/ WrongSynAck(e, p)
         \/ BadAck(e, p) \/ NewInCloseWait(e, p)
  PROVE  \E o : MinorStep(e, o)
<1> DEFINE d == [conn[e] EXCEPT !.una = Plus(p.ack, 1)]
<1>1. conn[e] \in Conns
  BY DEF TypeInv, ConnsOK
<1>2. UNCHANGED <<opens, sent, got>>
  BY DEF HalfOpen, SynInOpen, WrongSynAck, BadAck, NewInCloseWait
<1>3. \/ Take(e, p, conn[e], {Control("rst", conn[e])})
      \/ Take(e, p, conn[e], {})
      \/ Take(e, p, AfterDiscard(conn[e]), ResetOnDiscard(conn[e]))
      \/ Take(e, p, d, {Control("rstack", conn[e])})
  BY DEF HalfOpen, SynInOpen, WrongSynAck, BadAck, NewInCloseWait
<1>4. Minor(conn[e], conn[e]) /\ Minor(conn[e], AfterDiscard(conn[e])) /\ Minor(conn[e], d)
  BY <1>1, MinorSelf, MinorAfterClose, MinorUna
<1> HIDE DEF d
<1>5. QED
  BY <1>2, <1>3, <1>4, MinorTaken, RepeatsControl, RepeatsResets DEF Kinds

LEMMA OutOfWindowMinor ==
  ASSUME TypeInv, NEW e \in Ends, NEW p \in net[e], OutOfWindow(e, p)
  PROVE  \E o : MinorStep(e, o)
<1> DEFINE out == IF conn[e].st = "open" THEN Eack(conn[e]) ELSE SynAckPacket(conn[e])
<1>1. Take(e, p, conn[e], {out}) /\ UNCHANGED <<opens, sent, got>>
  BY DEF OutOfWindow
<1>2. conn[e].up /\ conn[e].st \in {"syn_rcvd", "open"}
  BY DEF OutOfWindow, Regular, InConversation
<1>3. Repeats(conn[e], out)
  <2>1. CASE conn[e].st = "open"
    BY <2>1, RepeatsEack
  <2>2. CASE conn[e].st = "syn_rcvd"
    BY <1>2, <2>2 DEF Repeats
  <2>3. QED
    BY <1>2, <2>1, <2>2
<1> HIDE DEF out
<1>4. QED
  BY <1>1, <1>3, MinorSelf, MinorTaken

LEMMA AckMinor ==
  ASSUME TypeInv, NEW e \in Ends, NEW p \in net[e], Accepted(e, p)
  PROVE  Minor(conn[e], Acked(conn[e], p)) /\ Acked(conn[e], p) \in Conns
<1>1. conn[e] \in Conns /\ conn[e].st \in {"syn_rcvd", "open"}
  BY DEF TypeInv, ConnsOK, Accepted, Regular, InConversation
<1>2. Minor(conn[e], Acked(conn[e], p))
  BY <1>1, MinorAcked
<1>3. Acked(conn[e], p) \in Conns
  BY AcceptedIs DEF ConnOK
<1>4. QED
  BY <1>2, <1>3

LEMMA NewAckMinor ==
  ASSUME TypeInv, NEW e \in Ends, NEW p \in net[e], NewAck(e, p)
  PROVE  \E o : MinorStep(e, o)
<1> DEFINE c == Acked(conn[e], p)
           d == [c EXCEPT !.tx = {q \in @ : q.seq \notin p.eacks}]
<1>1. Minor(conn[e], c) /\ c \in Conns
  BY AckMinor DEF NewAck
<1>2. Take(e, p, d, {}) /\ UNCHANGED <<opens, sent, got>>
  BY DEF NewAck
<1> HIDE DEF c
<1>3. Minor(c, d)
  BY <1>1, MinorTx
<1> HIDE DEF d
<1>4. QED
  BY <1>1, <1>2, <1>3, MinorTrans, MinorTaken

(* p is kept in rx_queue.                                                    *)
Kept(e, p) == [Acked(conn[e], p) EXCEPT !.ooo = @ \cup {p}]

LEMMA OutOfOrderMinor ==
  ASSUME TypeInv, NEW e \in Ends, NEW p \in net[e], NewOutOfOrder(e, p)
  PROVE  \/ \E o : MinorStep(e, o)
         \/ Take(e, p, Kept(e, p), {Eack(Kept(e, p))})
<1>1. Accepted(e, p) /\ UNCHANGED <<opens, sent, got>>
  BY DEF NewOutOfOrder
<1>2. Take(e, p, Acked(conn[e], p), {}) \/ Take(e, p, Kept(e, p), {Eack(Kept(e, p))})
  BY DEF NewOutOfOrder, Kept
<1>3. QED
  BY <1>1, <1>2, AckMinor, MinorTaken

LEMMA InOrderMinor ==
  ASSUME TypeInv, NEW e \in Ends, NEW p \in net[e], NewInOrder(e, p)
  PROVE  \/ \E o : MinorStep(e, o)
         \/ /\ Free(Acked(conn[e], p)) > 0
            /\ Take(e, p, AfterFlush(Received(e, p)), AckIfRoom(Received(e, p)))
<1>1. Accepted(e, p) /\ UNCHANGED <<opens, sent, got>>
  BY InOrderSteps
<1>2. QED
  BY <1>1, InOrderSteps, AckMinor, MinorTaken

-----------------------------------------------------------------------------
(* Minor steps keep what is known of the numbers.                             *)

LEMMA UsedGrows ==
  ASSUME TypeInv, NEW e \in Ends, opens'[e] \in Nat, opens[e] <= opens'[e]
  PROVE  Used(e) \subseteq Used(e)'
<1>1. opens[e] \in Nat
  BY DEF TypeInv, RestOK
<1>2. 1 .. opens[e] \subseteq 1 .. opens'[e]
  BY <1>1
<1>3. QED
  BY <1>2 DEF Used

LEMMA UsedAreSeqs == ASSUME TypeInv, NEW e \in Ends PROVE Used(e) \subseteq Seqs
<1>1. opens[e] \in Nat /\ opens[e] <= Len(Iss[e])
  BY DEF TypeInv, RestOK
<1>2. Iss[e] \in Seq(Seqs) /\ Len(Iss[e]) \in Nat
  BY LenProperties, RdpAssumption
<1>3. 1 .. opens[e] \subseteq 1 .. Len(Iss[e])
  BY <1>1, <1>2
<1>4. QED
  BY <1>2, <1>3, ElementOfSeq DEF Used

LEMMA CurrentUsed ==
  ASSUME TypeInv, SendInv, NEW e \in Ends, conn[e].up
  PROVE  conn[e].iss \in Used(e)
<1>1. opens[e] \in Nat /\ opens[e] > 0 /\ conn[e].iss = Iss[e][opens[e]]
  BY DEF TypeInv, RestOK, SendInv
<1>2. opens[e] \in 1 .. opens[e]
  BY <1>1
<1>3. QED
  BY <1>1, <1>2 DEF Used

LEMMA RepeatedOK ==
  ASSUME TypeInv, SendInv, PacketsInv, NEW e \in Ends, NEW q, Repeats(conn[e], q)
  PROVE  PacketOK(e, q)
<1>1. CASE q.kind \notin {"data", "syn", "synack"}
  BY <1>1 DEF PacketOK, SentBy, HasSyn
<1>2. CASE \E r \in conn[e].tx : q.kind = r.kind /\ q.seq = r.seq /\ q.msg = r.msg
  BY <1>2 DEF PacketOK, SentBy, HasSyn, PacketsInv
<1>3. CASE conn[e].up /\ q = SynAckPacket(conn[e])
  <2>1. q.kind = "synack" /\ q.seq = conn[e].iss
    BY <1>3 DEF SynAckPacket, Packet
  <2>2. QED
    BY <1>3, <2>1, CurrentUsed DEF PacketOK, SentBy
<1>4. QED
  BY <1>1, <1>2, <1>3 DEF Repeats

HistoryGrows ==
  \A x \in Ends : sent[x] \subseteq sent'[x] /\ opens'[x] \in Nat /\ opens[x] <= opens'[x]

(* After the step, e has sent all of P.                                       *)
AllSent(P, e) == \A p \in P : SentBy(p, sent'[e], Used(e)')

(* What was sent stays so.                                                   *)
LEMMA PacketStaysOK ==
  ASSUME TypeInv, NEW e \in Ends, NEW p, PacketOK(e, p),
         sent[e] \subseteq sent'[e], opens'[e] \in Nat, opens[e] <= opens'[e]
  PROVE  SentBy(p, sent'[e], Used(e)')
BY UsedGrows DEF PacketOK, SentBy

(* One slot becomes d and sends some of outs.                                *)
LEMMA PacketsStay ==
  ASSUME TypeInv, PacketsInv, NEW e \in Ends, NEW d, NEW outs,
         conn' = [conn EXCEPT ![e] = d], Passing(e, outs),
         HistoryGrows,
         AllSent(outs, e),
         AllSent(d.tx \ conn[e].tx, e),
         d.ooo \subseteq conn[e].ooo \cup net[e]
  PROVE  PacketsInv'
<1>1. \A x \in Ends : x = e \/ x = Peer(e)
  BY DEF Ends, Peer
<1>2. Peer(e) \in Ends /\ Peer(e) # e /\ Peer(Peer(e)) = e
  BY PeerIs
<1>3. conn'[e] = d /\ conn'[Peer(e)] = conn[Peer(e)]
  BY <1>2 DEF TypeInv, ConnsOK
<1>4. \A x \in Ends : \A p : PacketOK(x, p) => SentBy(p, sent'[x], Used(x)')
  BY PacketStaysOK DEF HistoryGrows
<1>5. \A p \in net'[Peer(e)] : SentBy(p, sent'[e], Used(e)')
  BY <1>4 DEF Passing, PacketsInv, AllSent
<1>6. \A p \in net'[e] : SentBy(p, sent'[Peer(e)], Used(Peer(e))')
  BY <1>2, <1>4 DEF Passing, PacketsInv
<1>7. \A p \in d.tx : SentBy(p, sent'[e], Used(e)')
  BY <1>4 DEF PacketsInv, AllSent
<1>8. \A p \in conn[Peer(e)].tx : SentBy(p, sent'[Peer(e)], Used(Peer(e))')
  BY <1>2, <1>4 DEF PacketsInv
<1>9. \A p \in d.ooo : SentBy(p, sent'[Peer(e)], Used(Peer(e))')
  BY <1>2, <1>4 DEF PacketsInv
<1>10. \A p \in conn[Peer(e)].ooo : SentBy(p, sent'[e], Used(e)')
  BY <1>2, <1>4 DEF PacketsInv
<1>11. /\ \A p \in net'[Peer(e)] : SentBy(p, sent'[e], Used(e)')
       /\ \A p \in conn'[e].tx : SentBy(p, sent'[e], Used(e)')
       /\ \A p \in conn'[e].ooo : SentBy(p, sent'[Peer(e)], Used(Peer(e))')
  BY <1>3, <1>5, <1>7, <1>9
<1>12. /\ \A p \in net'[Peer(Peer(e))] : SentBy(p, sent'[Peer(e)], Used(Peer(e))')
       /\ \A p \in conn'[Peer(e)].tx : SentBy(p, sent'[Peer(e)], Used(Peer(e))')
       /\ \A p \in conn'[Peer(e)].ooo : SentBy(p, sent'[Peer(Peer(e))], Used(Peer(Peer(e)))')
  BY <1>2, <1>3, <1>6, <1>8, <1>10
<1>13. \A x \in Ends :
         /\ \A p \in net'[Peer(x)] : SentBy(p, sent'[x], Used(x)')
         /\ \A p \in conn'[x].tx : SentBy(p, sent'[x], Used(x)')
         /\ \A p \in conn'[x].ooo : SentBy(p, sent'[Peer(x)], Used(Peer(x))')
  BY <1>1, <1>11, <1>12
<1>14. QED
  BY <1>13 DEF PacketsInv, PacketOK

LEMMA SlotIs ==
  ASSUME TypeInv, NEW e \in Ends, NEW d, conn' = [conn EXCEPT ![e] = d]
  PROVE  conn'[e] = d /\ \A x \in Ends : x # e => conn'[x] = conn[x]
BY DEF TypeInv, ConnsOK

(* The sender's numbers and the state but for closing.                        *)
Numbering(c, d) ==
  /\ d.iss = c.iss /\ d.nxt = c.nxt /\ d.irs = c.irs
  /\ d.up => c.up
  /\ d.tx \subseteq c.tx
  /\ d.st \in {c.st, "closed", "close_wait"} \/ (c.st = "syn_rcvd" /\ d.st = "open")

LEMMA NumbersStay ==
  ASSUME NumberInv, TypeInv', NEW e \in Ends, NEW outs,
         conn' = [conn EXCEPT ![e] = conn'[e]], Numbering(conn[e], conn'[e]),
         conn'[e].ooo \subseteq conn[e].ooo \cup net[e],
         Passing(e, outs), \A q \in outs : Repeats(conn[e], q), UNCHANGED <<opens, sent>>,
         opens["client"] = 0 \/ conn'["client"].st = "syn_sent" =>
           got'["client"] = <<>> /\ conn'["client"].rx = <<>> /\ conn'["client"].ooo = {}
  PROVE  NumberInv'
<1>1. /\ conn' = [conn EXCEPT ![e] = conn'[e]] /\ Numbering(conn[e], conn'[e])
      /\ Passing(e, outs) /\ \A q \in outs : Repeats(conn[e], q)
      /\ UNCHANGED <<opens, sent>>
  OBVIOUS
<1>2. TypeInv /\ PacketsInv /\ SendInv /\ BeginInv
  BY DEF NumberInv
<1>3. \A x \in Ends : x # e => conn'[x] = conn[x]
  BY <1>1, <1>2, SlotIs
<1>4. \A x \in Ends : opens[x] \in Nat
  BY <1>2 DEF TypeInv, RestOK
<1>5. PacketsInv'
  <2>1. HistoryGrows
    BY <1>1, <1>4 DEF HistoryGrows
  <2>2. AllSent(outs, e)
    BY <1>1, <1>2, <2>1, RepeatedOK, PacketStaysOK DEF AllSent, HistoryGrows
  <2>3. conn'[e].tx \subseteq conn[e].tx /\ conn'[e].ooo \subseteq conn[e].ooo \cup net[e]
    BY <1>1 DEF Numbering
  <2> DEFINE d == conn'[e]
  <2>4. conn' = [conn EXCEPT ![e] = d] /\ AllSent(d.tx \ conn[e].tx, e)
        /\ d.ooo \subseteq conn[e].ooo \cup net[e]
    BY <1>1, <2>3 DEF AllSent
  <2> HIDE DEF d
  <2>5. QED
    BY <1>1, <1>2, <2>1, <2>2, <2>4, PacketsStay
<1>6. SendInv'
  <2>1. \A x \in Ends : conn'[x].iss = conn[x].iss
    BY <1>1, <1>3 DEF Numbering
  <2>2. \A x \in Ends : Sent(x)' = Sent(x)
    BY <1>1, <2>1 DEF Sent, SentIn
  <2>3. \A x \in Ends : Used(x)' = Used(x) /\ \A i : SentIn(x, i)' = SentIn(x, i)
    BY <1>1 DEF Used, SentIn
  <2>4. \A x \in Ends : /\ conn'[x].up => conn[x].up
                        /\ conn'[x].iss = conn[x].iss /\ conn'[x].nxt = conn[x].nxt
    BY <1>1, <1>3 DEF Numbering
  <2>5. QED
    BY <1>1, <1>2, <2>2, <2>3, <2>4 DEF SendInv
<1>7. BeginInv'
  <2>0. "client" \in Ends /\ "server" \in Ends /\ Peer("server") = "client"
        /\ Peer("client") = "server"
    BY DEF Ends, Peer
  <2>1. \A x \in Ends :
          /\ conn'[x].irs = conn[x].irs
          /\ conn'[x].st \in {conn[x].st, "closed", "close_wait"}
               \/ (conn[x].st = "syn_rcvd" /\ conn'[x].st = "open")
          /\ conn'[x].tx \subseteq conn[x].tx
    BY <1>1, <1>3 DEF Numbering
  <2>2. Known' = Known /\ Used("server")' = Used("server")
    BY <1>1, <2>0, <2>1 DEF Known, Used
  <2>3. Unknown => Unknown'
    <3> SUFFICES ASSUME Unknown PROVE Unknown'
      OBVIOUS
    <3>1. conn'["client"].st # "open" /\ conn'["server"].st # "syn_rcvd"
      BY <1>2, <2>0, <2>1 DEF Unknown, BeginInv
    <3>2. sent'["client"] = {}
      BY <1>1 DEF Unknown
    <3>3. \A p \in conn'["server"].tx : p.kind # "synack"
      BY <2>0, <2>1 DEF Unknown
    <3>4. \A p \in net'["client"] : p.kind # "synack"
      <4>1. CASE e = "client"
        BY <1>1, <4>1 DEF Passing, Unknown
      <4>2. CASE e = "server"
        <5>1. \A q \in outs : q.kind # "synack"
          BY <1>1, <4>2 DEF Repeats, Unknown
        <5>2. net'["client"] \subseteq net["client"] \cup outs
          BY <1>1, <2>0, <4>2 DEF Passing
        <5>3. QED
          BY <5>1, <5>2 DEF Unknown
      <4>3. QED
        BY <4>1, <4>2 DEF Ends
    <3>5. QED
      BY <3>1, <3>2, <3>3, <3>4 DEF Unknown
  <2>4. QED
    BY <1>1, <1>2, <2>0, <2>1, <2>2, <2>3 DEF BeginInv
<1>8. QED
  BY <1>5, <1>6, <1>7 DEF NumberInv

LEMMA MinorNumbers ==
  ASSUME NumberInv, TypeInv', NEW e \in Ends, NEW outs, MinorStep(e, outs)
  PROVE  NumberInv'
<1>1. Numbering(conn[e], conn'[e]) /\ conn'[e].ooo \subseteq conn[e].ooo \cup net[e]
  BY DEF MinorStep, Minor, Numbering
<1>2. opens["client"] = 0 \/ conn'["client"].st = "syn_sent" =>
        got'["client"] = <<>> /\ conn'["client"].rx = <<>> /\ conn'["client"].ooo = {}
  <2>1. conn'["client"] = conn["client"] \/ Minor(conn["client"], conn'["client"])
    BY SlotIs DEF MinorStep, NumberInv, Ends
  <2>2. conn'["client"].st = "syn_sent" => conn["client"].st = "syn_sent"
    BY <2>1 DEF Minor
  <2>3. /\ conn'["client"].rx = conn["client"].rx \/ conn'["client"].rx = <<>>
        /\ conn'["client"].ooo \subseteq conn["client"].ooo
    BY <2>1 DEF Minor
  <2>4. got' = got
    BY DEF MinorStep
  <2>5. QED
    BY <2>2, <2>3, <2>4 DEF NumberInv, BeginInv
<1>3. QED
  BY <1>1, <1>2, NumbersStay DEF MinorStep

(* The types the receiver's numbers need.                                    *)
LEMMA PassedIn == ASSUME TypeInv, NEW e \in Ends PROVE Passed(e) \in 0 .. M - 1
<1>1. conn[e].cur \in Seqs /\ conn[e].irs \in Seqs
  BY DEF TypeInv, ConnsOK, Conns
<1>2. conn[e].cur - conn[e].irs \in Int
  BY <1>1 DEF Seqs
<1>3. QED
  BY <1>2, ModIn DEF Passed

LEMMA Shorter ==
  ASSUME NEW a \in Seq(Messages), NEW b \in Seq(Messages), NEW x, NEW n,
         InOrderUpTo(a \o b, x, n)
  PROVE  InOrderUpTo(a \o <<>>, x, n)
<1>1. a \o <<>> = a
  BY ConcatEmptySeq
<1>2. Len(a \o b) = Len(a) + Len(b) /\ Len(a) \in Nat /\ Len(b) \in Nat
      /\ \A k \in 1 .. Len(a) : (a \o b)[k] = a[k]
  BY ConcatProperties, LenProperties
<1>3. \A k \in 1 .. Len(a) : k \in 1 .. Len(a \o b)
  BY <1>2
<1>4. QED
  BY <1>1, <1>2, <1>3 DEF InOrderUpTo

(* What an end has received stays as it is when only its slot is closed, or        *)
(* the other end sends.                                                      *)
LEMMA ReceivedStays ==
  ASSUME TypeInv, TypeInv', ReceiveInv, NEW x \in Ends,
         conn'[x].irs = conn[x].irs, conn'[x].cur = conn[x].cur,
         conn'[x].ooo \subseteq conn[x].ooo,
         got'[x] = got[x], conn'[x].rx = conn[x].rx \/ conn'[x].rx = <<>>,
         SentIn(Peer(x), conn[x].irs) <= SentIn(Peer(x), conn[x].irs)'
  PROVE  ReceivedOK(x)'
<1>1. Passed(x)' = Passed(x)
  BY DEF Passed
<1>2. Passed(x) \in Int /\ SentIn(Peer(x), conn[x].irs) \in Int /\ SentIn(Peer(x), conn[x].irs)' \in Int
  <2>1. Peer(x) \in Ends
    BY PeerIs
  <2>2. RestOK /\ RestOK'
    BY DEF TypeInv
  <2>3. SentIn(Peer(x), conn[x].irs) \in Nat
    BY <2>1, <2>2, SentInIs
  <2>4. SentIn(Peer(x), conn[x].irs)' \in Nat
    <3>1. IsFiniteSet(sent'[Peer(x)])
      BY <2>1, <2>2 DEF RestOK
    <3>2. {m \in sent'[Peer(x)] : m.from = conn'[x].irs} \in SUBSET sent'[Peer(x)]
      OBVIOUS
    <3>3. QED
      BY <3>1, <3>2, FS_Subset, FS_CardinalityType DEF SentIn
  <2>5. QED
    BY <2>3, <2>4, PassedIn
<1>3. Passed(x) <= SentIn(Peer(x), conn[x].irs)
  BY DEF ReceiveInv, ReceivedOK
<1>4. Passed(x)' <= SentIn(Peer(x), conn[x].irs)'
  BY <1>1, <1>2, <1>3
<1>5. \A p \in conn'[x].ooo : p.msg.from = conn'[x].irs
  BY DEF ReceiveInv, ReceivedOK
<1>6. got[x] \in Seq(Messages) /\ conn[x].rx \in Seq(Messages)
  BY DEF TypeInv, RestOK, ConnsOK, Conns
<1>7. InOrderUpTo(got[x] \o conn[x].rx, conn[x].irs, Passed(x))
  BY DEF ReceiveInv, ReceivedOK, Delivered
<1>8. InOrderUpTo(got[x] \o conn'[x].rx, conn[x].irs, Passed(x))
  BY <1>6, <1>7, Shorter
<1>9. InOrderUpTo(Delivered(x), conn[x].irs, Passed(x))'
  BY <1>1, <1>8 DEF Delivered, InOrderUpTo
<1>10. QED
  BY <1>4, <1>5, <1>9 DEF ReceivedOK

-----------------------------------------------------------------------------
(* The other steps keep them as well.                                         *)

LEMMA NumberInit == Init => NumberInv
<1> SUFFICES ASSUME Init PROVE NumberInv
  OBVIOUS
<1>1. PICK c \in {NoConn, StaleConn} :
        /\ conn = [e \in Ends |-> IF e = "server" THEN c ELSE NoConn]
        /\ opens = [e \in Ends |-> IF e = "server" /\ c.up THEN 1 ELSE 0]
  BY DEF Init
<1>2. "client" \in Ends /\ "server" \in Ends /\ \A e \in Ends : e = "client" \/ e = "server"
  BY DEF Ends
<1>3. /\ conn["server"] = c /\ conn["client"] = NoConn /\ opens["client"] = 0
      /\ opens["server"] = IF c.up THEN 1 ELSE 0
  BY <1>1, <1>2
<1>4. \A e \in Ends : net[e] = {} /\ sent[e] = {} /\ got[e] = <<>>
  BY DEF Init
<1>5. c.tx = {} /\ c.ooo = {} /\ c.st \in {"closed", "open"} /\ NoConn.tx = {} /\ NoConn.ooo = {}
      /\ NoConn.st = "closed" /\ NoConn.up = FALSE /\ NoConn.rx = <<>>
  <2>1. NoConn.tx = {} /\ NoConn.ooo = {} /\ NoConn.st = "closed" /\ NoConn.up = FALSE
        /\ NoConn.rx = <<>>
    BY DEF NoConn
  <2>2. StaleConn.tx = {} /\ StaleConn.ooo = {} /\ StaleConn.st = "open"
    BY DEF NoConn, StaleConn
  <2>3. QED
    BY <2>1, <2>2
<1>6. TypeInv
  BY TypeInit
<1>7. PacketsInv
  BY <1>2, <1>3, <1>4, <1>5, PeerIs DEF PacketsInv
<1>8. SendInv
  <2>1. Cardinality({}) = 0
    BY FS_EmptySet
  <2>2. \A e \in Ends : Cardinality(sent[e]) <= MaxSend[e]
    <3> TAKE e \in Ends
    <3>1. MaxSend[e] \in Nat
      BY RdpAssumption
    <3>2. Cardinality(sent[e]) = 0
      BY <1>4, <2>1
    <3>3. QED
      BY <3>1, <3>2
  <2>3. \A e \in Ends : Sent(e) = 0
    <3>1. \A e \in Ends : {m \in sent[e] : m.from = conn[e].iss} = {}
      BY <1>4
    <3>2. QED
      BY <2>1, <3>1 DEF Sent, SentIn
  <2>4. ASSUME NEW e \in Ends, conn[e].up
        PROVE  /\ opens[e] > 0 /\ conn[e].iss = Iss[e][opens[e]]
               /\ conn[e].nxt = Plus(conn[e].iss, Sent(e) + 1)
    <3>1. e = "server" /\ conn[e] = StaleConn /\ opens[e] = 1
      BY <1>2, <1>3, <1>5, <2>4
    <3>2. conn[e].iss = Iss[e][1] /\ conn[e].nxt = Plus(Iss[e][1], 1)
      BY <3>1 DEF StaleConn, NoConn
    <3>3. Sent(e) + 1 = 1
      BY <2>3
    <3>4. QED
      BY <3>1, <3>2, <3>3
  <2>5. QED
    BY <1>4, <2>2, <2>4 DEF SendInv
<1>9. Unknown
  BY <1>2, <1>3, <1>4, <1>5 DEF Unknown
<1>10. BeginInv
  BY <1>2, <1>3, <1>4, <1>5, <1>9 DEF BeginInv
<1>11. QED
  BY <1>6, <1>7, <1>8, <1>10 DEF NumberInv

(* What Apart says of an end.                                                *)
LEMMA FirstApartIs ==
  ASSUME NEW e \in Ends, NEW n \in Nat, n <= Len(Iss[e]), FirstApart[e][n]
  PROVE  /\ MaxSend[e] \in Nat /\ 2 * W \in Nat /\ 2 <= 2 * W /\ MaxSend[e] + 2 * W < M
         /\ \A j, k \in 1 .. n : j # k => (Iss[e][j] - Iss[e][k]) % M >= MaxSend[e] + 2 * W
<1>1. n \in 0 .. Len(Iss[e])
  BY LenProperties, RdpAssumption
<1>2. QED
  BY <1>1, RdpAssumption DEF FirstApart

LEMMA ApartIs ==
  ASSUME TypeInv, Apart, NEW e \in Ends
  PROVE  /\ MaxSend[e] \in Nat /\ 2 * W \in Nat /\ 2 <= 2 * W /\ MaxSend[e] + 2 * W < M
         /\ \A x, y \in Used(e) : x # y => (x - y) % M >= MaxSend[e] + 2 * W
<1>1. opens[e] \in Nat /\ opens[e] <= Len(Iss[e]) /\ FirstApart[e][opens[e]]
  BY DEF TypeInv, RestOK, Apart
<1>2. QED
  BY <1>1, FirstApartIs DEF Used

(* A new number has not been used, and is apart from those that have.           *)
LEMMA NewIsUnused ==
  ASSUME TypeInv, TypeInv', Apart', NEW e \in Ends, opens'[e] = opens[e] + 1
  PROVE  LET i == Iss[e][opens[e] + 1] IN
           /\ i \in Seqs /\ i \in Used(e)' /\ i \notin Used(e)
           /\ \A x \in Used(e) : /\ (x - i) % M >= MaxSend[e] + 2 * W
                                /\ (i - x) % M >= MaxSend[e] + 2 * W
<1> DEFINE n == opens[e] + 1
<1>1. opens[e] \in Nat /\ n \in Nat /\ n <= Len(Iss[e]) /\ FirstApart[e][n]
  BY DEF TypeInv, RestOK, Apart
<1>2. /\ MaxSend[e] \in Nat /\ 2 * W \in Nat /\ 2 <= 2 * W
      /\ \A j, k \in 1 .. n : j # k => (Iss[e][j] - Iss[e][k]) % M >= MaxSend[e] + 2 * W
  BY <1>1, FirstApartIs
<1>3. Iss[e] \in Seq(Seqs) /\ Len(Iss[e]) \in Nat /\ n \in 1 .. Len(Iss[e]) /\ n \in 1 .. n
  BY <1>1, LenProperties, RdpAssumption
<1>4. Iss[e][n] \in Seqs
  BY <1>3, ElementOfSeq
<1>5. Iss[e][n] \in Used(e)'
  BY <1>3 DEF Used
<1>6. \A k \in 1 .. opens[e] : k \in 1 .. n /\ k # n
  BY <1>1
<1>7. \A x \in Used(e) : /\ (x - Iss[e][n]) % M >= MaxSend[e] + 2 * W
                        /\ (Iss[e][n] - x) % M >= MaxSend[e] + 2 * W
  BY <1>2, <1>3, <1>6 DEF Used
<1>8. Iss[e][n] \notin Used(e)
  <2> DEFINE i == Iss[e][n]
             r == MaxSend[e] + 2 * W
  <2>1. (i - i) % M = 0
    BY <1>4, SeqsAre, ModSmall DEF Seqs
  <2>2. ~(0 >= r)
    BY <1>2
  <2> HIDE DEF i, r
  <2>3. i \notin Used(e)
    BY <1>7, <2>1, <2>2 DEF i, r
  <2>4. QED
    BY <2>3 DEF i
<1>9. QED
  BY <1>4, <1>5, <1>7, <1>8

LEMMA NewNumber ==
  ASSUME TypeInv, TypeInv', Apart', SendInv, NEW e \in Ends, opens'[e] = opens[e] + 1
  PROVE  SentIn(e, Iss[e][opens[e] + 1]) = 0
<1>1. Iss[e][opens[e] + 1] \notin Used(e)
  BY NewIsUnused
<1>2. \A m \in sent[e] : m.from # Iss[e][opens[e] + 1]
  BY <1>1 DEF SendInv
<1>3. {m \in sent[e] : m.from = Iss[e][opens[e] + 1]} = {}
  BY <1>2
<1>4. QED
  BY <1>3, FS_EmptySet DEF SentIn

(* e has begun a connection as d, with its next number.                       *)
LEMMA BegunSends ==
  ASSUME TypeInv, TypeInv', Apart', SendInv, NEW e \in Ends, NEW d, opens[e] < Len(Iss[e]),
         conn' = [conn EXCEPT ![e] = d], opens' = [opens EXCEPT ![e] = opens[e] + 1], sent' = sent,
         d.iss = Iss[e][opens[e] + 1], d.nxt = Plus(d.iss, 1)
  PROVE  /\ SendInv'
         /\ d.iss \in Used(e)'
         /\ HistoryGrows
<1>1. opens \in [Ends -> Nat]
  BY DEF TypeInv, RestOK
<1>2. opens'[e] = opens[e] + 1 /\ opens[e] \in Nat /\ \A x \in Ends : x # e => opens'[x] = opens[x]
  BY <1>1
<1>3. HistoryGrows
  BY <1>1, <1>2 DEF HistoryGrows
<1>4. conn'[e] = d /\ \A x \in Ends : x # e => conn'[x] = conn[x]
  BY SlotIs
<1>5. d.iss \in Used(e)'
  <2>1. opens'[e] \in 1 .. opens'[e] /\ d.iss = Iss[e][opens'[e]]
    BY <1>2
  <2>2. QED
    BY <2>1 DEF Used
<1>6. \A x \in Ends : \A i : SentIn(x, i)' = SentIn(x, i)
  BY DEF SentIn
<1>7. \A x \in Ends : \A m \in sent'[x] : m.from \in Used(x)' /\ m.nr \in 1 .. SentIn(x, m.from)'
  <2>1. \A x \in Ends : Used(x) \subseteq Used(x)'
    BY <1>3, UsedGrows DEF HistoryGrows
  <2>2. QED
    BY <1>6, <2>1 DEF SendInv
<1>8. /\ opens'[e] > 0 /\ conn'[e].iss = Iss[e][opens'[e]]
      /\ conn'[e].nxt = Plus(conn'[e].iss, Sent(e)' + 1)
  <2>1. SentIn(e, d.iss) = 0
    BY <1>2, NewNumber
  <2>2. Sent(e)' = 0
    BY <1>4, <1>6, <2>1 DEF Sent
  <2>3. Sent(e)' + 1 = 1
    BY <2>2
  <2>4. QED
    BY <1>2, <1>4, <2>3
<1>9. ASSUME NEW x \in Ends, x # e, conn'[x].up
      PROVE  /\ opens'[x] > 0 /\ conn'[x].iss = Iss[x][opens'[x]]
             /\ conn'[x].nxt = Plus(conn'[x].iss, Sent(x)' + 1)
  <2>1. Sent(x)' = Sent(x)
    BY <1>4, <1>6, <1>9 DEF Sent
  <2>2. QED
    BY <1>2, <1>4, <1>9, <2>1 DEF SendInv
<1>10. \A x \in Ends : Cardinality(sent'[x]) <= MaxSend[x]
  BY DEF SendInv
<1>11. SendInv'
  BY <1>7, <1>8, <1>9, <1>10 DEF SendInv
<1>12. QED
  BY <1>3, <1>5, <1>11

LEMMA TryConnectNumbers ==
  ASSUME Apart', NumberInv, TypeInv', Connect \/ ConnectRetry
  PROVE  NumberInv'
<1> DEFINE iss == Iss["client"][opens["client"] + 1]
           c == StartConnect(conn["client"], iss)
<1>1. TypeInv /\ PacketsInv /\ SendInv /\ BeginInv /\ TryConnect /\ UNCHANGED <<sent, got>>
      /\ "client" \in Ends /\ "server" \in Ends /\ opens \in [Ends -> Nat]
  BY DEF NumberInv, Connect, ConnectRetry, Ends, TypeInv, RestOK
<1>2. opens' = [opens EXCEPT !["client"] = opens["client"] + 1]
      /\ opens'["client"] = opens["client"] + 1 /\ opens["client"] < Len(Iss["client"])
  BY <1>1 DEF TryConnect
<1>3. conn' = [conn EXCEPT !["client"] = c]
  BY <1>1, <1>2 DEF TryConnect
<1>4. conn["client"] \in Conns
  BY <1>1 DEF TypeInv, ConnsOK
<1>5. /\ c.iss = iss /\ c.nxt = Plus(iss, 1) /\ c.ooo = {} /\ c.tx = {Packet("syn", iss, 0)}
      /\ c.rx = conn["client"].rx /\ c.st = "syn_sent" /\ c.irs = conn["client"].irs
  BY <1>4 DEF StartConnect, Conns
<1> HIDE DEF c
<1>6. conn'["client"] = c /\ conn'["server"] = conn["server"]
  BY <1>1, <1>3, SlotIs
<1>7. Passing("client", {SynPacket(c)})
  BY <1>1, <1>6, NetTransmitted DEF TryConnect, TypeInv
<1>8. /\ SendInv' /\ iss \in Used("client")'
      /\ HistoryGrows
  <2>1. c.iss = Iss["client"][opens["client"] + 1] /\ c.nxt = Plus(c.iss, 1) /\ sent' = sent
    BY <1>1, <1>5
  <2>2. QED
    BY <1>1, <1>2, <1>3, <1>5, <2>1, BegunSends
<1>9. SentBy(Packet("syn", iss, 0), sent'["client"], Used("client")')
  BY <1>8 DEF PacketOK, SentBy, Packet
<1>10. SynPacket(c) = Packet("syn", iss, 0)
  BY <1>5 DEF SynPacket
<1>11. PacketsInv'
  <2>1. AllSent({SynPacket(c)}, "client")
    BY <1>9, <1>10 DEF AllSent
  <2>2. AllSent(c.tx \ conn["client"].tx, "client")
    BY <1>5, <1>9 DEF AllSent
  <2>3. c.ooo \subseteq conn["client"].ooo \cup net["client"]
    BY <1>5
  <2>4. QED
    BY <1>1, <1>3, <1>7, <1>8, <2>1, <2>2, <2>3, PacketsStay
<1>12. (Known => Known') /\ Used("server")' = Used("server")
  <2>1. Used("client") \subseteq Used("client")'
    BY <1>1, <1>8, UsedGrows DEF HistoryGrows
  <2>2. opens'["server"] = opens["server"]
    BY <1>1, <1>2
  <2>3. QED
    BY <1>6, <2>1, <2>2 DEF Known, Used
<1>13. Unknown => Unknown'
  <2>1. net'["client"] \subseteq net["client"]
    BY <1>7 DEF Passing
  <2>2. QED
    BY <1>1, <1>5, <1>6, <2>1 DEF Unknown
<1>14. got["client"] = <<>> /\ conn["client"].rx = <<>>
  BY <1>1 DEF BeginInv, Connect, ConnectRetry
<1>15. BeginInv'
  BY <1>1, <1>5, <1>6, <1>12, <1>13, <1>14 DEF BeginInv
<1>16. QED
  BY <1>8, <1>11, <1>15 DEF NumberInv

LEMMA SynNumbers ==
  ASSUME Apart', NumberInv, TypeInv', NEW e \in Ends, NEW p \in net[e], SynInClosed(e, p)
  PROVE  NumberInv'
<1> DEFINE iss == Iss[e][opens[e] + 1]
           c == NewSlotSent(iss, p)
           q == SynAckPacket(NewSlot(iss, p))
<1>1. TypeInv /\ PacketsInv /\ SendInv /\ BeginInv /\ opens \in [Ends -> Nat]
      /\ p \in Sendable
  BY DEF NumberInv, TypeInv, RestOK, NetOK
<1>2. /\ e = "server" /\ HasSyn(p) /\ opens[e] < Len(Iss[e])
      /\ opens' = [opens EXCEPT ![e] = opens[e] + 1]
      /\ Take(e, p, c, {q}) /\ got' = [got EXCEPT ![e] = <<>>] /\ UNCHANGED <<call, sem, sent>>
  BY <1>1, SynSteps
<1>3. Len(Iss[e]) \in Nat /\ opens[e] \in Nat
  BY <1>1, LenProperties, RdpAssumption
<1>4. iss \in Seqs
  BY <1>2, <1>3, IssIn
<1> HIDE DEF iss
<1>5. /\ c.iss = iss /\ c.nxt = Plus(iss, 1) /\ c.ooo = {} /\ c.tx = {q} /\ c.rx = <<>>
      /\ c.st = "syn_rcvd" /\ c.irs = p.seq /\ q.kind = "synack" /\ q.seq = iss
  BY DEF NewSlotSent, NewSlot, NoConn, SynAckPacket, Packet
<1> HIDE DEF c, q
<1>6. conn' = [conn EXCEPT ![e] = c] /\ conn'[e] = c /\ Passing(e, {q})
      /\ \A x \in Ends : x # e => conn'[x] = conn[x]
  BY <1>1, <1>2, SlotIs, NetExchanged DEF Take, TypeInv
<1>7. /\ SendInv' /\ iss \in Used(e)'
      /\ HistoryGrows
  <2>1. c.iss = Iss[e][opens[e] + 1] /\ c.nxt = Plus(c.iss, 1) /\ sent' = sent
    BY <1>2, <1>5 DEF iss
  <2>2. SendInv' /\ c.iss \in Used(e)' /\ HistoryGrows
    BY <1>1, <1>2, <1>6, <2>1, BegunSends
  <2>3. QED
    BY <1>5, <2>2
<1>8. SentBy(q, sent'[e], Used(e)')
  BY <1>5, <1>7 DEF PacketOK, SentBy
<1>9. PacketsInv'
  <2>1. AllSent({q}, e)
    BY <1>8 DEF AllSent
  <2>2. AllSent(c.tx \ conn[e].tx, e)
    BY <1>5, <1>8 DEF AllSent
  <2>3. c.ooo \subseteq conn[e].ooo \cup net[e]
    BY <1>5
  <2>4. QED
    BY <1>1, <1>6, <1>7, <2>1, <2>2, <2>3, PacketsStay
<1>10. p.seq \in Used("client")
  <2>1. Peer(e) \in Ends /\ Peer(Peer(e)) = e
    BY PeerIs
  <2>2. PacketOK(Peer(e), p)
    BY <1>1, <2>1 DEF PacketsInv
  <2>3. QED
    BY <1>2, <2>2 DEF PacketOK, SentBy, Peer
<1>11. Known'
  <2>1. "client" \in Ends /\ Used("client") \subseteq Used("client")'
    BY <1>1, <1>7, UsedGrows DEF HistoryGrows, Ends
  <2>2. QED
    BY <1>2, <1>5, <1>6, <1>10, <2>1 DEF Known
<1>12. conn'["client"] = conn["client"] /\ opens'["client"] = opens["client"]
       /\ got'["client"] = got["client"]
  BY <1>1, <1>2, <1>6 DEF Ends, TypeInv, RestOK
<1>13. BeginInv'
  <2>1. "server" \in Ends /\ Used("server") \subseteq Used("server")'
    BY <1>1, <1>7, UsedGrows DEF HistoryGrows, Ends
  <2>2. QED
    BY <1>1, <1>2, <1>5, <1>6, <1>11, <1>12, <2>1 DEF BeginInv
<1>14. QED
  BY <1>7, <1>9, <1>13 DEF NumberInv

LEMMA SynAckNumbers ==
  ASSUME NumberInv, TypeInv', NEW e \in Ends, NEW p \in net[e], SynAckInSynSent(e, p)
  PROVE  NumberInv' /\ e = "client"
<1> DEFINE d == [conn[e] EXCEPT !.st = "open", !.cur = p.seq, !.irs = p.seq,
                                !.una = Plus(p.ack, 1)]
<1>1. TypeInv /\ PacketsInv /\ SendInv /\ BeginInv /\ conn[e] \in Conns
  BY DEF NumberInv, TypeInv, ConnsOK
<1>2. conn[e].up /\ conn[e].st = "syn_sent" /\ p.kind = "synack" /\ Take(e, p, d, {})
      /\ UNCHANGED <<opens, sent, got>>
  BY DEF SynAckInSynSent
<1>3. e = "client" /\ Peer(e) = "server"
  BY <1>1, <1>2 DEF BeginInv, Ends, Peer
<1>4. /\ d.iss = conn[e].iss /\ d.nxt = conn[e].nxt /\ d.up = conn[e].up /\ d.tx = conn[e].tx
      /\ d.ooo = conn[e].ooo /\ d.rx = conn[e].rx /\ d.st = "open" /\ d.irs = p.seq
  BY <1>1 DEF Conns
<1> HIDE DEF d
<1>5. conn' = [conn EXCEPT ![e] = d] /\ conn'[e] = d /\ Passing(e, {})
      /\ \A x \in Ends : x # e => conn'[x] = conn[x]
  BY <1>1, <1>2, SlotIs, NetExchanged DEF Take, TypeInv
<1>6. HistoryGrows
  BY <1>1, <1>2 DEF TypeInv, RestOK, HistoryGrows
<1>7. PacketsInv'
  <2>1. AllSent(d.tx \ conn[e].tx, e)
        /\ d.ooo \subseteq conn[e].ooo \cup net[e]
    BY <1>4 DEF AllSent
  <2>2. AllSent({}, e)
    BY DEF AllSent
  <2>3. QED
    BY <1>1, <1>5, <1>6, <2>1, <2>2, PacketsStay
<1>8. SendInv'
  <2>1. \A x \in Ends : conn'[x].iss = conn[x].iss /\ conn'[x].nxt = conn[x].nxt
                        /\ conn'[x].up = conn[x].up
    BY <1>4, <1>5
  <2>2. \A x \in Ends : Used(x)' = Used(x) /\ \A i : SentIn(x, i)' = SentIn(x, i)
    BY <1>2 DEF Used, SentIn
  <2>3. \A x \in Ends : Sent(x)' = Sent(x)
    BY <2>1, <2>2 DEF Sent
  <2>4. QED
    BY <1>1, <1>2, <2>1, <2>2, <2>3 DEF SendInv
<1>9. p.seq \in Used("server")
  <2>1. PacketOK("server", p)
    BY <1>1, <1>3 DEF PacketsInv, Ends, Peer
  <2>2. QED
    BY <1>2, <2>1 DEF PacketOK, SentBy, HasSyn
<1>10. Known'
  <2>1. ~Unknown
    BY <1>2, <1>3 DEF Unknown
  <2>2. conn'["server"] = conn["server"]
    BY <1>3, <1>5 DEF Ends
  <2>3. QED
    BY <1>1, <1>2, <2>1, <2>2 DEF BeginInv, Known, Used
<1>11. opens'["client"] # 0
  BY <1>1, <1>2, <1>3 DEF SendInv
<1>12. Used("server")' = Used("server")
  BY <1>2 DEF Used
<1>13. BeginInv'
  <2>1. conn'["server"] = conn["server"] /\ conn'["client"] = d
    BY <1>3, <1>5 DEF Ends
  <2>2. QED
    BY <1>1, <1>4, <1>9, <1>10, <1>11, <1>12, <2>1 DEF BeginInv
<1>14. QED
  BY <1>3, <1>7, <1>8, <1>13 DEF NumberInv

-----------------------------------------------------------------------------
(* Arithmetic of the sequence numbers.                                        *)

LEMMA PlusIs ==
  ASSUME NEW a \in Seqs, NEW n \in Nat, n < M
  PROVE  Plus(a, n) = IF a + n < M THEN a + n ELSE a + n - M
<1>1. M \in Nat \ {0} /\ a \in Nat /\ a < M
  BY SeqsAre DEF Seqs
<1>2. CASE a + n < M
  <2>1. (a + n) % M = a + n
    BY <1>1, <1>2, ModSmall
  <2>2. QED
    BY <1>2, <2>1 DEF Plus
<1>3. CASE ~(a + n < M)
  <2> DEFINE b == a + n
  <2>1. b \in Int /\ M <= b /\ b < 2 * M
    BY <1>1, <1>3
  <2> HIDE DEF b
  <2>2. b % M = b - M
    BY <2>1, ModOver
  <2>3. Plus(a, n) = b - M
    BY <2>2 DEF Plus, b
  <2>4. QED
    BY <1>1, <1>3, <2>3 DEF b
<1>4. QED
  BY <1>2, <1>3

LEMMA DiffIs ==
  ASSUME NEW a \in Seqs, NEW b \in Seqs
  PROVE  (a - b) % M = IF a >= b THEN a - b ELSE a - b + M
<1>1. M \in Nat \ {0} /\ a \in Nat /\ a < M /\ b \in Nat /\ b < M
  BY SeqsAre DEF Seqs
<1>2. CASE a >= b
  <2>1. a - b \in Int /\ 0 <= a - b /\ a - b < M
    BY <1>1, <1>2
  <2>2. (a - b) % M = a - b
    BY <2>1, ModSmall
  <2>3. QED
    BY <1>2, <2>2
<1>3. CASE ~(a >= b)
  <2>1. a - b \in Int /\ -M <= a - b /\ a - b < 0
    BY <1>1, <1>3
  <2>2. (a - b) % M = a - b + M
    BY <2>1, ModUnder
  <2>3. QED
    BY <1>3, <2>2
<1>4. QED
  BY <1>2, <1>3

LEMMA PlusPlus ==
  ASSUME NEW a \in Seqs, NEW j \in Nat, NEW k \in Nat, j + k < M
  PROVE  Plus(Plus(a, j), k) = Plus(a, j + k)
<1>1. M \in Nat \ {0} /\ a \in Nat /\ a < M
  BY SeqsAre DEF Seqs
<1>2. j < M /\ k < M /\ j + k \in Nat /\ a \in Int
  BY <1>1
<1> DEFINE b == Plus(a, j)
<1>3. b \in Seqs /\ b = IF a + j < M THEN a + j ELSE a + j - M
  BY <1>2, PlusIs, PlusIn
<1> HIDE DEF b
<1>4. Plus(b, k) = IF b + k < M THEN b + k ELSE b + k - M
  BY <1>2, <1>3, PlusIs
<1>5. Plus(a, j + k) = IF a + (j + k) < M THEN a + (j + k) ELSE a + (j + k) - M
  BY <1>2, PlusIs
<1>6. Plus(b, k) = Plus(a, j + k)
  BY <1>1, <1>2, <1>3, <1>4, <1>5
<1>7. QED
  BY <1>6 DEF b

(* How far a number is from an earlier one.                                   *)
LEMMA PlusDiff ==
  ASSUME NEW a \in Seqs, NEW b \in Seqs
  PROVE  (b - a) % M \in Nat /\ (b - a) % M < M /\ Plus(a, (b - a) % M) = b
<1>1. M \in Nat \ {0} /\ a \in Nat /\ a < M /\ b \in Nat /\ b < M
  BY SeqsAre DEF Seqs
<1> DEFINE n == (b - a) % M
<1>2. n = IF b >= a THEN b - a ELSE b - a + M
  BY DiffIs
<1> HIDE DEF n
<1>3. n \in Nat /\ n < M
  BY <1>1, <1>2
<1>4. Plus(a, n) = IF a + n < M THEN a + n ELSE a + n - M
  BY <1>3, PlusIs
<1>5. Plus(a, n) = b
  BY <1>1, <1>2, <1>3, <1>4
<1>6. QED
  BY <1>3, <1>5 DEF n

LEMMA DiffPlus ==
  ASSUME NEW a \in Seqs, NEW n \in Nat, n < M
  PROVE  (Plus(a, n) - a) % M = n
<1>1. M \in Nat \ {0} /\ a \in Nat /\ a < M
  BY SeqsAre DEF Seqs
<1> DEFINE b == Plus(a, n)
<1>2. b = IF a + n < M THEN a + n ELSE a + n - M
  BY PlusIs
<1>3. b \in Seqs
  BY <1>1, PlusIn
<1> HIDE DEF b
<1>4. (b - a) % M = IF b >= a THEN b - a ELSE b - a + M
  BY <1>3, DiffIs
<1>5. (b - a) % M = n
  <2> DEFINE d == (b - a) % M
  <2>1. d = IF b >= a THEN b - a ELSE b - a + M
    BY <1>4
  <2> HIDE DEF d
  <2>2. d = n
    BY <1>1, <1>2, <2>1
  <2>3. QED
    BY <2>2 DEF d
<1>6. QED
  BY <1>5 DEF b

(* csp_rdp_seq_between on the receiver's window.                               *)
LEMMA WindowIs ==
  ASSUME NEW a \in Seqs, NEW s \in Seqs, Between(s, Plus(a, 1), Plus(a, 2 * W))
  PROVE  \E k \in 1 .. 2 * W : s = Plus(a, k)
<1>1. M \in Nat \ {0} /\ a \in Nat /\ a < M /\ s \in Nat /\ s < M /\ W \in Nat \ {0}
      /\ 4 * W + 2 <= M
  BY SeqsAre, RdpAssumption DEF Seqs
<1>2. 1 \in Nat /\ 1 < M /\ 2 * W \in Nat /\ 2 * W < M /\ a \in Int
  BY <1>1
<1> DEFINE x == Plus(a, 1)
           y == Plus(a, 2 * W)
<1>3. x \in Seqs /\ y \in Seqs /\ x = (IF a + 1 < M THEN a + 1 ELSE a + 1 - M)
      /\ y = IF a + 2 * W < M THEN a + 2 * W ELSE a + 2 * W - M
  BY <1>2, PlusIs, PlusIn
<1>4. (y - x) % M >= (s - x) % M
  BY DEF Between
<1> HIDE DEF x, y
<1> DEFINE u == (y - x) % M
           v == (s - x) % M
<1>5. u = (IF y >= x THEN y - x ELSE y - x + M) /\ v = (IF s >= x THEN s - x ELSE s - x + M)
      /\ u >= v
  BY <1>3, <1>4, DiffIs
<1> HIDE DEF u, v
<1>6. x \in Nat /\ y \in Nat /\ x < M /\ y < M
  BY <1>1, <1>3
<1>7. u = 2 * W - 1
  BY <1>1, <1>3, <1>5, <1>6
<1>8. v + 1 \in 1 .. 2 * W /\ v + 1 < M
  BY <1>1, <1>5, <1>6, <1>7
<1>9. Plus(a, v + 1) = IF a + (v + 1) < M THEN a + (v + 1) ELSE a + (v + 1) - M
  BY <1>1, <1>8, PlusIs
<1>10. s = Plus(a, v + 1)
  BY <1>1, <1>3, <1>5, <1>6, <1>8, <1>9
<1>11. QED
  BY <1>8, <1>10

FarApart(f, i, T) == (f - i) % M >= T /\ (i - f) % M >= T

(* Two initial numbers that are T apart do not meet within T.                   *)
LEMMA NumbersMeet ==
  ASSUME NEW f \in Seqs, NEW i \in Seqs, NEW T \in Nat, NEW r \in Nat, NEW j \in Nat,
         T < M, 1 <= r, r <= T, 1 <= j, j <= T,
         f # i => FarApart(f, i, T),
         Plus(f, r) = Plus(i, j)
  PROVE  f = i /\ r = j
<1>1. M \in Nat \ {0} /\ f \in Nat /\ f < M /\ i \in Nat /\ i < M
  BY SeqsAre DEF Seqs
<1>2. r < M /\ j < M
  BY <1>1
<1>3. Plus(f, r) = IF f + r < M THEN f + r ELSE f + r - M
  BY <1>2, PlusIs
<1>4. Plus(i, j) = IF i + j < M THEN i + j ELSE i + j - M
  BY <1>2, PlusIs
<1>5. f + r = i + j \/ f + r = i + j - M \/ f + r - M = i + j
  <2> DEFINE u == Plus(f, r)
             v == Plus(i, j)
  <2>1. u = v
    OBVIOUS
  <2>2. u = (IF f + r < M THEN f + r ELSE f + r - M) /\ v = IF i + j < M THEN i + j ELSE i + j - M
    BY <1>3, <1>4
  <2> HIDE DEF u, v
  <2>3. f + r = u \/ f + r - M = u
    BY <2>2
  <2>4. i + j = v \/ i + j - M = v
    BY <2>2
  <2>5. QED
    BY <1>1, <2>1, <2>3, <2>4
<1>6. f = i
  <2> SUFFICES ASSUME f # i PROVE FALSE
    OBVIOUS
  <2> DEFINE u == (f - i) % M
             v == (i - f) % M
  <2>1. u = (IF f >= i THEN f - i ELSE f - i + M) /\ v = (IF i >= f THEN i - f ELSE i - f + M)
        /\ u >= T /\ v >= T
    BY DiffIs DEF FarApart
  <2> HIDE DEF u, v
  <2>2. QED
    BY <1>1, <1>5, <2>1
<1>7. r = j
  BY <1>1, <1>2, <1>5, <1>6
<1>8. QED
  BY <1>6, <1>7

-----------------------------------------------------------------------------
(* The steps in which an end sends a message, reads one, or receives one.       *)

LEMMA ActiveNumbers ==
  ASSUME NumberInv, TypeInv', NEW e \in Ends, NEW d, NEW outs,
         conn' = [conn EXCEPT ![e] = d], Numbering(conn[e], d), conn[e].up,
         d.ooo \subseteq conn[e].ooo \cup net[e], e = "client" => d.st # "syn_sent",
         Passing(e, outs), \A q \in outs : Repeats(conn[e], q),
         UNCHANGED <<opens, sent>>, \A x \in Ends : x # e => got'[x] = got[x]
  PROVE  NumberInv'
<1>1. TypeInv /\ SendInv /\ BeginInv
  BY DEF NumberInv
<1>2. conn'[e] = d /\ \A x \in Ends : x # e => conn'[x] = conn[x]
  BY <1>1, SlotIs
<1>3. opens["client"] = 0 \/ conn'["client"].st = "syn_sent" =>
        got'["client"] = <<>> /\ conn'["client"].rx = <<>> /\ conn'["client"].ooo = {}
  <2>1. CASE e = "client"
    <3>1. opens["client"] # 0
      BY <1>1, <2>1 DEF SendInv
    <3>2. QED
      BY <1>2, <2>1, <3>1
  <2>2. CASE e # "client"
    BY <1>1, <1>2, <2>2 DEF BeginInv, Ends
  <2>3. QED
    BY <2>1, <2>2
<1>4. /\ conn' = [conn EXCEPT ![e] = conn'[e]] /\ Numbering(conn[e], conn'[e])
      /\ conn'[e].ooo \subseteq conn[e].ooo \cup net[e]
      /\ Passing(e, outs) /\ (\A q \in outs : Repeats(conn[e], q)) /\ UNCHANGED <<opens, sent>>
  BY <1>2
<1>5. QED
  BY ZenonT(30), <1>3, <1>4, NumbersStay

LEMMA SentOneMore ==
  ASSUME TypeInv, SendInv, NEW e \in Ends,
         sent' = [sent EXCEPT ![e] = @ \cup {Message(e, Sent(e) + 1)}]
  PROVE  /\ Sent(e) \in Nat
         /\ \A i : SentIn(e, i)' = IF i = conn[e].iss THEN Sent(e) + 1 ELSE SentIn(e, i)
         /\ Cardinality(sent'[e]) = Cardinality(sent[e]) + 1
         /\ \A x \in Ends : x # e => sent'[x] = sent[x]
         /\ sent'[e] = sent[e] \cup {Message(e, Sent(e) + 1)}
         /\ sent[e] \subseteq sent'[e]
<1> DEFINE iss == conn[e].iss
           m == Message(e, Sent(e) + 1)
           A == {x \in sent[e] : x.from = iss}
           B == {x \in sent'[e] : x.from = iss}
<1>1. sent \in [Ends -> SUBSET Messages] /\ IsFiniteSet(sent[e]) /\ sent'[e] = sent[e] \cup {m}
      /\ \A x \in Ends : x # e => sent'[x] = sent[x]
  BY DEF TypeInv, RestOK
<1>2. m.from = iss /\ m.nr = Sent(e) + 1
  BY DEF Message
<1>3. Sent(e) \in Nat /\ Sent(e) = SentIn(e, iss) /\ Cardinality(A) = Sent(e)
  BY SentInIs DEF TypeInv, Sent, SentIn
<1> HIDE DEF iss, m
<1>4. m \notin sent[e]
  <2> SUFFICES ASSUME m \in sent[e] PROVE FALSE
    OBVIOUS
  <2>1. m.nr \in 1 .. SentIn(e, m.from)
    BY DEF SendInv
  <2>2. Sent(e) + 1 \in 1 .. Sent(e)
    BY <1>2, <1>3, <2>1
  <2>3. QED
    BY <1>3, <2>2
<1>5. B = A \cup {m}
  BY <1>1, <1>2
<1>6. IsFiniteSet(A) /\ m \notin A
  BY <1>1, <1>4, FS_Subset
<1>7. Cardinality(B) = Cardinality(A) + 1 /\ Cardinality(sent'[e]) = Cardinality(sent[e]) + 1
  <2> HIDE DEF A, B
  <2>1. Cardinality(B) = Cardinality(A) + 1
    BY <1>5, <1>6, FS_AddElement
  <2>2. Cardinality(sent[e] \cup {m}) = Cardinality(sent[e]) + 1
    BY <1>1, <1>4, FS_AddElement
  <2>3. QED
    BY <1>1, <2>1, <2>2
<1>8. ASSUME NEW i PROVE SentIn(e, i)' = IF i = iss THEN Sent(e) + 1 ELSE SentIn(e, i)
  <2>1. CASE i = iss
    <3>1. SentIn(e, i)' = Cardinality(B)
      BY <2>1 DEF SentIn
    <3>2. QED
      BY <1>3, <1>7, <2>1, <3>1
  <2>2. CASE i # iss
    <3>1. {x \in sent'[e] : x.from = i} = {x \in sent[e] : x.from = i}
      BY <1>1, <1>2, <2>2
    <3>2. QED
      BY <2>2, <3>1 DEF SentIn
  <2>3. QED
    BY <2>1, <2>2
<1>9. QED
  BY <1>1, <1>3, <1>7, <1>8 DEF iss, m

LEMMA SendNumbers ==
  ASSUME Apart, NumberInv, TypeInv', NEW e \in Ends, Send(e)
  PROVE  NumberInv'
<1> DEFINE d == AfterSend(e)
           q == NewData(e)
<1>1. TypeInv /\ PacketsInv /\ SendInv /\ BeginInv /\ conn \in [Ends -> Conns] /\ conn[e] \in Conns
  BY DEF NumberInv, TypeInv, ConnsOK
<1>2. /\ conn[e].up /\ conn[e].st = "open" /\ Cardinality(sent[e]) < MaxSend[e]
      /\ conn' = [conn EXCEPT ![e] = d] /\ Transmit(e, {q})
      /\ sent' = [sent EXCEPT ![e] = @ \cup {Message(e, Sent(e) + 1)}]
      /\ UNCHANGED <<call, sem, opens, got>>
  BY <1>1, SendSteps
<1>3. /\ d.iss = conn[e].iss /\ d.nxt = Plus(conn[e].nxt, 1) /\ d.tx = conn[e].tx \cup {q}
      /\ d.ooo = conn[e].ooo /\ d.rx = conn[e].rx /\ d.st = conn[e].st /\ d.irs = conn[e].irs
      /\ d.up = conn[e].up
  BY <1>1 DEF AfterSend, Conns
<1>4. q.kind = "data" /\ q.seq = conn[e].nxt /\ q.msg = Message(e, Sent(e) + 1)
      /\ q.msg.from = conn[e].iss /\ q.msg.nr = Sent(e) + 1
  BY <1>1, NewDataIs DEF Message
<1> HIDE DEF d, q
<1>5. conn'[e] = d /\ Passing(e, {q}) /\ \A x \in Ends : x # e => conn'[x] = conn[x]
  BY <1>1, <1>2, SlotIs, NetTransmitted DEF TypeInv
<1>6. /\ Sent(e) \in Nat
      /\ \A i : SentIn(e, i)' = IF i = conn[e].iss THEN Sent(e) + 1 ELSE SentIn(e, i)
      /\ Cardinality(sent'[e]) = Cardinality(sent[e]) + 1
      /\ \A x \in Ends : x # e => sent'[x] = sent[x]
      /\ sent'[e] = sent[e] \cup {q.msg}
  BY <1>1, <1>2, <1>4, SentOneMore
<1>7. \A x \in Ends : opens'[x] = opens[x] /\ opens[x] \in Nat /\ Used(x)' = Used(x)
  BY <1>1, <1>2 DEF TypeInv, RestOK, Used
<1>8. Sent(e) < MaxSend[e] /\ MaxSend[e] \in Nat /\ Cardinality(sent[e]) \in Nat
  <2>1. MaxSend[e] \in Nat /\ RestOK
    BY <1>1, RdpAssumption DEF TypeInv
  <2>2. Sent(e) <= Cardinality(sent[e]) /\ Cardinality(sent[e]) \in Nat
    BY <2>1, SentInIs DEF Sent
  <2>3. QED
    BY <1>2, <1>6, <2>1, <2>2
<1>9. conn[e].nxt = Plus(conn[e].iss, Sent(e) + 1) /\ opens[e] > 0
      /\ conn[e].iss = Iss[e][opens[e]]
  BY <1>1, <1>2 DEF SendInv
<1>10. PacketsInv'
  <2>1. HistoryGrows
    BY <1>6, <1>7 DEF HistoryGrows
  <2>2. SentBy(q, sent'[e], Used(e)')
    BY <1>4, <1>6, <1>9 DEF SentBy, HasSyn
  <2>3. AllSent({q}, e) /\ AllSent(d.tx \ conn[e].tx, e)
    BY <1>3, <2>2 DEF AllSent
  <2>4. d.ooo \subseteq conn[e].ooo \cup net[e]
    BY <1>3
  <2>5. QED
    BY <1>1, <1>2, <1>5, <2>1, <2>3, <2>4, PacketsStay
<1>11. SendInv'
  <2>1. d.nxt = Plus(d.iss, Sent(e) + 2)
    <3>1. conn[e].iss \in Seqs /\ Sent(e) + 1 \in Nat /\ 1 \in Nat
      BY <1>1, <1>6 DEF Conns
    <3>2. MaxSend[e] + 2 * W < M
      BY <1>1, ApartIs
    <3>3. M \in Nat /\ W \in Nat \ {0}
      BY RdpAssumption
    <3>4. (Sent(e) + 1) + 1 < M /\ (Sent(e) + 1) + 1 = Sent(e) + 2
      BY <1>6, <1>8, <3>2, <3>3
    <3>5. Plus(Plus(conn[e].iss, Sent(e) + 1), 1) = Plus(conn[e].iss, (Sent(e) + 1) + 1)
      BY <3>1, <3>4, PlusPlus
    <3>6. QED
      BY <1>3, <1>9, <3>4, <3>5
  <2>2. Sent(e)' = Sent(e) + 1 /\ \A x \in Ends : x # e => Sent(x)' = Sent(x)
    BY ZenonT(30), <1>3, <1>5, <1>6 DEF Sent, SentIn
  <2>3. Sent(e)' + 1 = Sent(e) + 2
    BY <1>6, <2>2
  <2>4. \A x \in Ends : conn'[x].up =>
          /\ opens'[x] > 0 /\ conn'[x].iss = Iss[x][opens'[x]]
          /\ conn'[x].nxt = Plus(conn'[x].iss, Sent(x)' + 1)
    <3> TAKE x \in Ends
    <3>1. CASE x = e
      BY <1>3, <1>5, <1>7, <1>9, <2>1, <2>3, <3>1
    <3>2. CASE x # e
      BY <1>1, <1>5, <1>7, <2>2, <3>2 DEF SendInv
    <3>3. QED
      BY <3>1, <3>2
  <2>5. ASSUME NEW x \in Ends, NEW m \in sent'[x]
        PROVE  m.from \in Used(x)' /\ m.nr \in 1 .. SentIn(x, m.from)'
    <3>1. CASE x # e
      <4>1. sent'[x] = sent[x]
        BY <1>6, <3>1
      <4>2. SentIn(x, m.from)' = SentIn(x, m.from)
        BY <4>1 DEF SentIn
      <4>3. QED
        BY <1>1, <1>7, <4>1, <4>2 DEF SendInv
    <3>2. CASE x = e /\ m \in sent[e]
      <4>1. m.from \in Used(e) /\ m.nr \in 1 .. SentIn(e, m.from)
        BY <1>1, <3>2 DEF SendInv
      <4>2. SentIn(e, m.from) = Sent(e) \/ m.from # conn[e].iss
        BY DEF Sent
      <4>3. \A i \in 1 .. Sent(e) : i \in 1 .. Sent(e) + 1
        BY <1>6
      <4>4. QED
        BY <1>6, <1>7, <3>2, <4>1, <4>2, <4>3
    <3>3. CASE x = e /\ m \notin sent[e]
      <4>1. m.from = conn[e].iss /\ m.nr = Sent(e) + 1
        BY <1>4, <1>6, <3>3
      <4>2. SentIn(e, m.from)' = Sent(e) + 1
        BY <1>6, <4>1
      <4>3. Sent(e) + 1 \in 1 .. Sent(e) + 1
        BY <1>6
      <4>4. m.from \in Used(e)'
        BY <1>1, <1>2, <1>7, <4>1, CurrentUsed
      <4>5. QED
        BY <3>3, <4>1, <4>2, <4>3, <4>4
    <3>4. QED
      BY <3>1, <3>2, <3>3
  <2>6. \A x \in Ends : Cardinality(sent'[x]) <= MaxSend[x]
    <3> TAKE x \in Ends
    <3>1. CASE x = e
      BY <1>2, <1>6, <1>8, <3>1
    <3>2. CASE x # e
      BY <1>1, <1>6, <3>2 DEF SendInv
    <3>3. QED
      BY <3>1, <3>2
  <2>7. QED
    BY <2>4, <2>5, <2>6 DEF SendInv
<1>12. BeginInv'
  <2>0. "client" \in Ends /\ "server" \in Ends /\ Peer("server") = "client"
        /\ Peer("client") = "server" /\ (e = "client" \/ e = "server")
    BY DEF Ends, Peer
  <2>1. \A x \in Ends : conn'[x].irs = conn[x].irs /\ conn'[x].st = conn[x].st
                        /\ conn'[x].rx = conn[x].rx /\ conn'[x].ooo = conn[x].ooo
    BY <1>3, <1>5
  <2>2. Known' = Known /\ Used("server")' = Used("server")
    BY <1>1, <1>7, <2>0, <2>1 DEF Known
  <2>3. Unknown => Unknown'
    <3> SUFFICES ASSUME Unknown PROVE Unknown'
      OBVIOUS
    <3>1. e = "server"
      BY <1>2, <2>0 DEF Unknown
    <3>2. sent'["client"] = {}
      BY <1>6, <2>0, <3>1 DEF Unknown
    <3>3. net'["client"] \subseteq net["client"] \cup {q} /\ conn'["server"].tx = conn["server"].tx \cup {q}
      BY <1>3, <1>5, <2>0, <3>1 DEF Passing
    <3>4. QED
      BY <1>4, <2>0, <2>1, <3>2, <3>3 DEF Unknown
  <2>4. QED
    BY <1>1, <1>2, <2>0, <2>1, <2>2, <2>3 DEF BeginInv
<1>13. QED
  BY <1>10, <1>11, <1>12 DEF NumberInv

LEMMA ReadNumbers ==
  ASSUME NumberInv, TypeInv', NEW e \in Ends, Read(e)
  PROVE  NumberInv'
<1> DEFINE d == AfterRead(e)
           outs == AckIfRoom(AfterRead(e))
<1>1. TypeInv /\ BeginInv /\ conn \in [Ends -> Conns] /\ conn[e] \in Conns
      /\ got \in [Ends -> Seq(Messages)]
  BY DEF NumberInv, TypeInv, ConnsOK, RestOK
<1>2. /\ conn[e].up /\ conn[e].rx # <<>> /\ conn' = [conn EXCEPT ![e] = d]
      /\ Transmit(e, outs) /\ UNCHANGED <<opens, sent>>
      /\ \A x \in Ends : x # e => got'[x] = got[x]
  BY <1>1, ReadSteps
<1>3. Numbering(conn[e], d) /\ d.ooo = conn[e].ooo /\ d.st = conn[e].st
  BY <1>1 DEF AfterRead, Numbering, Conns
<1>4. \A q \in outs : Repeats(conn[e], q)
  BY RepeatsResets
<1> HIDE DEF d, outs
<1>5. Passing(e, outs)
  BY <1>1, <1>2, NetTransmitted DEF TypeInv
<1>6. e = "client" => d.st # "syn_sent"
  BY <1>1, <1>2, <1>3 DEF BeginInv
<1>7. d.ooo \subseteq conn[e].ooo \cup net[e]
  BY <1>3
<1>8. QED
  BY <1>2, <1>3, <1>4, <1>5, <1>6, <1>7, ActiveNumbers

LEMMA KeptNumbers ==
  ASSUME NumberInv, TypeInv', NEW e \in Ends, NEW p \in net[e], NewOutOfOrder(e, p),
         Take(e, p, Kept(e, p), {Eack(Kept(e, p))})
  PROVE  NumberInv'
<1> DEFINE c == Acked(conn[e], p)
           d == Kept(e, p)
           outs == {Eack(d)}
<1>1. TypeInv /\ conn[e] \in Conns /\ UNCHANGED <<opens, sent, got>> /\ Accepted(e, p)
  BY DEF NumberInv, TypeInv, ConnsOK, NewOutOfOrder
<1>2. conn[e].up /\ conn[e].st \in {"syn_rcvd", "open"}
  BY <1>1 DEF Accepted, Regular, InConversation
<1>3. /\ c.iss = conn[e].iss /\ c.nxt = conn[e].nxt /\ c.irs = conn[e].irs /\ c.up = conn[e].up
      /\ c.tx = conn[e].tx /\ c.ooo = conn[e].ooo /\ c.st = "open" /\ c \in Conns
  <2>1. c \in Conns
    BY <1>1, AckMinor
  <2>2. QED
    BY <1>1, <2>1 DEF Acked, Conns
<1> HIDE DEF c
<1>4. Numbering(conn[e], d) /\ d.ooo = conn[e].ooo \cup {p} /\ d.st = "open"
  <2>1. d = [c EXCEPT !.ooo = @ \cup {p}]
    BY DEF Kept, c
  <2> HIDE DEF d
  <2>2. /\ d.iss = c.iss /\ d.nxt = c.nxt /\ d.irs = c.irs /\ d.up = c.up /\ d.tx = c.tx
        /\ d.st = c.st /\ d.ooo = c.ooo \cup {p}
    BY <1>3, <2>1 DEF Conns
  <2>3. QED
    BY <1>2, <1>3, <2>2 DEF Numbering
<1>5. \A q \in outs : Repeats(conn[e], q)
  BY RepeatsEack
<1>6. Passing(e, outs) /\ conn' = [conn EXCEPT ![e] = d]
  BY <1>1, NetExchanged DEF Take, TypeInv
<1> HIDE DEF d, outs
<1>7. d.ooo \subseteq conn[e].ooo \cup net[e] /\ d.st # "syn_sent"
      /\ \A x \in Ends : x # e => got'[x] = got[x]
  BY <1>1, <1>4
<1>8. QED
  BY <1>1, <1>2, <1>4, <1>5, <1>6, <1>7, ActiveNumbers

(* What csp_rdp_rx_queue_flush leaves after p has been received.               *)
Flushed(e, p) == AfterFlush(Received(e, p))

LEMMA FlushedIs ==
  ASSUME TypeInv, NEW e \in Ends, NEW p \in net[e], Accepted(e, p), p.kind = "data",
         Free(Acked(conn[e], p)) > 0
  PROVE  LET b == Received(e, p)
             d == Flushed(e, p) IN
           /\ ConnOK(b) /\ b.irs = conn[e].irs /\ b.cur = p.seq
           /\ b.rx = Append(conn[e].rx, p.msg) /\ b.ooo = conn[e].ooo
           /\ Numbering(conn[e], d) /\ d.st = "open" /\ d.ooo \subseteq conn[e].ooo
           /\ d.irs = conn[e].irs /\ d.cur = Plus(p.seq, Len(Following(b)))
           /\ d.rx = b.rx \o Fitting(b)
<1> DEFINE c == Acked(conn[e], p)
           b == Received(e, p)
           d == Flushed(e, p)
<1>1. conn[e] \in Conns /\ conn[e].st \in {"syn_rcvd", "open"} /\ ConnOK(b)
  BY ReceivedIs DEF TypeInv, ConnsOK, Accepted, Regular, InConversation
<1>2. /\ c.iss = conn[e].iss /\ c.nxt = conn[e].nxt /\ c.irs = conn[e].irs /\ c.up = conn[e].up
      /\ c.tx = conn[e].tx /\ c.ooo = conn[e].ooo /\ c.st = "open" /\ c.rx = conn[e].rx
      /\ c \in Conns
  <2>1. c \in Conns
    BY AckMinor
  <2>2. QED
    BY <1>1, <2>1 DEF Acked, Conns
<1>3. b = [c EXCEPT !.sock = FALSE, !.cur = p.seq, !.rx = Append(@, p.msg)]
  BY DEF Received
<1>4. d = [b EXCEPT !.cur = Plus(@, Len(Following(b))),
                    !.ooo = @ \ {Following(b)[k] : k \in 1 .. Len(Following(b))},
                    !.rx = @ \o Fitting(b)]
  BY DEF Flushed, AfterFlush
<1> HIDE DEF b, c, d
<1>5. /\ b.iss = c.iss /\ b.nxt = c.nxt /\ b.irs = c.irs /\ b.up = c.up /\ b.tx = c.tx
      /\ b.ooo = c.ooo /\ b.st = c.st /\ b.cur = p.seq /\ b.rx = Append(c.rx, p.msg)
  BY <1>2, <1>3 DEF Conns
<1>6. b \in Conns
  BY <1>1 DEF ConnOK
<1>7. /\ d.iss = b.iss /\ d.nxt = b.nxt /\ d.irs = b.irs /\ d.up = b.up /\ d.tx = b.tx
      /\ d.ooo \subseteq b.ooo /\ d.st = b.st /\ d.cur = Plus(b.cur, Len(Following(b)))
      /\ d.rx = b.rx \o Fitting(b)
  BY <1>4, <1>6 DEF Conns
<1>8. Numbering(conn[e], d)
  BY <1>1, <1>2, <1>5, <1>7 DEF Numbering
<1>9. /\ ConnOK(b) /\ b.irs = conn[e].irs /\ b.cur = p.seq
      /\ b.rx = Append(conn[e].rx, p.msg) /\ b.ooo = conn[e].ooo
      /\ Numbering(conn[e], d) /\ d.st = "open" /\ d.ooo \subseteq conn[e].ooo
      /\ d.irs = conn[e].irs /\ d.cur = Plus(p.seq, Len(Following(b)))
      /\ d.rx = b.rx \o Fitting(b)
  BY <1>1, <1>2, <1>5, <1>7, <1>8
<1>10. QED
  BY <1>9 DEF b, d

LEMMA FlushedNumbers ==
  ASSUME NumberInv, TypeInv', NEW e \in Ends, NEW p \in net[e], NewInOrder(e, p),
         Free(Acked(conn[e], p)) > 0,
         Take(e, p, AfterFlush(Received(e, p)), AckIfRoom(Received(e, p)))
  PROVE  NumberInv'
<1> DEFINE d == Flushed(e, p)
           outs == AckIfRoom(Received(e, p))
<1>1. TypeInv /\ UNCHANGED <<opens, sent, got>> /\ Accepted(e, p) /\ p.kind = "data"
  BY InOrderSteps DEF NumberInv
<1>2. conn[e].up
  BY <1>1 DEF Accepted, Regular, InConversation
<1>3. Numbering(conn[e], d) /\ d.st = "open" /\ d.ooo \subseteq conn[e].ooo
  BY <1>1, FlushedIs
<1>4. \A q \in outs : Repeats(conn[e], q)
  BY RepeatsResets
<1>5. Passing(e, outs) /\ conn' = [conn EXCEPT ![e] = d]
  BY <1>1, NetExchanged DEF Take, TypeInv, Flushed
<1> HIDE DEF d, outs
<1>6. d.ooo \subseteq conn[e].ooo \cup net[e] /\ d.st # "syn_sent"
      /\ \A x \in Ends : x # e => got'[x] = got[x]
  BY <1>1, <1>3
<1>7. QED
  BY <1>1, <1>2, <1>3, <1>4, <1>5, <1>6, ActiveNumbers

-----------------------------------------------------------------------------
(* What is received is next in its connection.                                *)

LEMMA PlusInjective ==
  ASSUME NEW a \in Seqs, NEW j \in Nat, NEW k \in Nat, j < M, k < M, Plus(a, j) = Plus(a, k)
  PROVE  j = k
<1>1. (Plus(a, j) - a) % M = j
  BY DiffPlus
<1>2. (Plus(a, k) - a) % M = k
  BY DiffPlus
<1>3. QED
  BY <1>1, <1>2

(* A data packet that e may get.                                              *)
LEMMA DataIs ==
  ASSUME TypeInv, SendInv, NEW e \in Ends, NEW p, p.kind = "data", PacketOK(Peer(e), p)
  PROVE  /\ sent[Peer(e)] # {} /\ p.msg.from \in Used(Peer(e)) /\ p.msg.from \in Seqs
         /\ p.msg.nr \in Nat /\ 1 <= p.msg.nr /\ p.msg.nr <= SentIn(Peer(e), p.msg.from)
         /\ p.msg.nr <= MaxSend[Peer(e)]
         /\ p.seq = Plus(p.msg.from, p.msg.nr)
<1> DEFINE s == Peer(e)
           m == p.msg
<1>1. s \in Ends
  BY PeerIs
<1> HIDE DEF s
<1>2. m \in sent[s] /\ p.seq = Plus(m.from, m.nr)
  BY DEF PacketOK, SentBy, s
<1>3. m.from \in Used(s) /\ m.nr \in 1 .. SentIn(s, m.from) /\ Cardinality(sent[s]) <= MaxSend[s]
  BY <1>1, <1>2 DEF SendInv
<1>4. m.from \in Used(s) /\ m.from \in Seqs
  BY <1>1, <1>3, UsedAreSeqs
<1>5. SentIn(s, m.from) \in Nat /\ SentIn(s, m.from) <= Cardinality(sent[s])
      /\ Cardinality(sent[s]) \in Nat /\ MaxSend[s] \in Nat
  BY <1>1, SentInIs, RdpAssumption DEF TypeInv
<1> HIDE DEF m
<1>6. m.nr \in Nat /\ 1 <= m.nr /\ m.nr <= SentIn(s, m.from) /\ m.nr <= MaxSend[s]
  <2> DEFINE n == SentIn(s, m.from)
  <2>1. n \in Nat /\ m.nr \in 1 .. n /\ n <= Cardinality(sent[s])
    BY <1>3, <1>5
  <2> HIDE DEF n
  <2>2. m.nr \in Nat /\ 1 <= m.nr /\ m.nr <= n /\ m.nr <= MaxSend[s]
    BY <1>3, <1>5, <2>1
  <2>3. QED
    BY <2>2 DEF n
<1>7. sent[s] # {}
  BY <1>2
<1>8. QED
  BY <1>2, <1>4, <1>6, <1>7 DEF s, m

(* Where the receiver is in the connection.                                   *)
LEMMA PassedIs ==
  ASSUME TypeInv, SendInv, ReceiveInv, NEW e \in Ends
  PROVE  /\ conn[e].irs \in Seqs /\ conn[e].cur \in Seqs
         /\ Passed(e) \in Nat /\ SentIn(Peer(e), conn[e].irs) \in Nat
         /\ Passed(e) <= SentIn(Peer(e), conn[e].irs)
         /\ SentIn(Peer(e), conn[e].irs) <= MaxSend[Peer(e)]
         /\ conn[e].cur = Plus(conn[e].irs, Passed(e))
<1>1. conn[e].irs \in Seqs /\ conn[e].cur \in Seqs
  BY DEF TypeInv, ConnsOK, Conns
<1>2. Passed(e) \in Nat /\ conn[e].cur = Plus(conn[e].irs, Passed(e))
  BY <1>1, PlusDiff DEF Passed
<1>3. Passed(e) <= SentIn(Peer(e), conn[e].irs)
  BY DEF ReceiveInv, ReceivedOK
<1>4. Peer(e) \in Ends
  BY PeerIs
<1>5. SentIn(Peer(e), conn[e].irs) \in Nat
      /\ SentIn(Peer(e), conn[e].irs) <= Cardinality(sent[Peer(e)])
      /\ Cardinality(sent[Peer(e)]) \in Nat /\ MaxSend[Peer(e)] \in Nat
  BY <1>4, SentInIs, RdpAssumption DEF TypeInv
<1>6. Cardinality(sent[Peer(e)]) <= MaxSend[Peer(e)]
  BY <1>4 DEF SendInv
<1>7. SentIn(Peer(e), conn[e].irs) <= MaxSend[Peer(e)]
  BY <1>5, <1>6
<1>8. QED
  BY <1>1, <1>2, <1>3, <1>5, <1>7

(* A data packet in the receiver's window is of its connection, and its message  *)
(* is as many after the last one passed as its number is after rcv_cur.           *)
LEMMA InWindow ==
  ASSUME Apart, NumberInv, ReceiveInv, NEW e \in Ends, NEW p \in net[e],
         p.kind = "data", Regular(e, p), SeqValid(conn[e], p)
  PROVE  \E k \in 1 .. 2 * W :
           /\ p.seq = Plus(conn[e].cur, k) /\ p.msg.from = conn[e].irs
           /\ p.msg.nr = Passed(e) + k /\ p.msg.nr <= SentIn(Peer(e), conn[e].irs)
<1> DEFINE f == p.msg.from
           i == conn[e].irs
           n == Passed(e)
           r == p.msg.nr
           S == MaxSend[Peer(e)]
           w == 2 * W
<1>1. TypeInv /\ PacketsInv /\ SendInv /\ BeginInv /\ Peer(e) \in Ends /\ Peer(Peer(e)) = e
      /\ p \in Sendable
  BY PeerIs DEF NumberInv, TypeInv, NetOK
<1>2. PacketOK(Peer(e), p)
  BY <1>1 DEF PacketsInv
<1>3. /\ sent[Peer(e)] # {} /\ f \in Used(Peer(e)) /\ f \in Seqs
      /\ r \in Nat /\ 1 <= r /\ r <= SentIn(Peer(e), f) /\ r <= S /\ p.seq = Plus(f, r)
  BY <1>1, <1>2, DataIs
<1>4. i \in Used(Peer(e))
  <2>1. CASE e = "server"
    BY <1>1, <1>3, <2>1 DEF BeginInv, Known, Unknown, Peer
  <2>2. CASE e = "client"
    <3>1. conn[e].st = "open"
      BY <1>1, <2>2 DEF BeginInv, Regular, InConversation
    <3>2. QED
      BY <1>1, <2>2, <3>1 DEF BeginInv, Peer
  <2>3. QED
    BY <2>1, <2>2 DEF Ends
<1>5. /\ i \in Seqs /\ conn[e].cur \in Seqs /\ n \in Nat /\ conn[e].cur = Plus(i, n)
      /\ n <= SentIn(Peer(e), i) /\ SentIn(Peer(e), i) <= S /\ SentIn(Peer(e), i) \in Nat
  BY <1>1, PassedIs
<1>6. PICK k \in 1 .. 2 * W : p.seq = Plus(conn[e].cur, k)
  <2>1. p.seq \in Seqs
    BY <1>1 DEF Sendable, Packets
  <2>2. QED
    BY <1>5, <2>1, WindowIs DEF SeqValid
<1>7. /\ S \in Nat /\ w \in Nat /\ S + w < M
      /\ (f # i => FarApart(f, i, S + w))
  <2>1. S \in Nat /\ w \in Nat /\ S + w < M
    BY <1>1, ApartIs
  <2>2. f # i => (f - i) % M >= S + w
    BY <1>1, <1>3, <1>4, ApartIs
  <2>3. i # f => (i - f) % M >= S + w
    BY <1>1, <1>3, <1>4, ApartIs
  <2>4. QED
    BY <2>1, <2>2, <2>3 DEF FarApart
<1>8. n + k \in Nat /\ 1 <= n + k /\ n + k <= S + w /\ r <= S + w /\ S + w \in Nat /\ n + k < M
  BY <1>3, <1>5, <1>7, SeqsAre
<1>9. Plus(f, r) = Plus(i, n + k)
  <2>1. k \in Nat
    OBVIOUS
  <2>2. Plus(Plus(i, n), k) = Plus(i, n + k)
    BY <1>5, <1>8, <2>1, PlusPlus
  <2>3. QED
    BY <1>3, <1>5, <1>6, <2>2
<1> DEFINE j == n + k
           T == S + w
<1> HIDE DEF f, i, n, r, S, w, j, T
<1>10. j \in Nat /\ 1 <= j /\ j <= T /\ r <= T /\ T \in Nat /\ T < M /\ Plus(f, r) = Plus(i, j)
       /\ (f # i => FarApart(f, i, T))
  BY <1>7, <1>8, <1>9 DEF j, T
<1>11. f = i /\ r = n + k
  <2>1. f = i /\ r = j
    BY <1>3, <1>5, <1>10, NumbersMeet
  <2>2. QED
    BY <2>1 DEF j
<1>12. r <= SentIn(Peer(e), i)
  BY <1>3, <1>11
<1>13. QED
  BY <1>6, <1>11, <1>12 DEF f, i, n, r

(* The packets that are taken from rx_queue after p carry the messages that       *)
(* follow its own.                                                           *)
LEMMA FollowingNumbers ==
  ASSUME Apart, NumberInv, ReceiveInv, NEW e \in Ends, NEW p \in net[e],
         Accepted(e, p), p.kind = "data", p.seq = Plus(conn[e].cur, 1),
         NEW b, ConnOK(b), b.cur = p.seq, b.ooo = conn[e].ooo
  PROVE  /\ p.msg.from = conn[e].irs /\ p.msg.nr = Passed(e) + 1
         /\ p.seq = Plus(conn[e].irs, Passed(e) + 1)
         /\ Passed(e) + 1 + Len(Following(b)) <= SentIn(Peer(e), conn[e].irs)
         /\ \A k \in 1 .. Len(Following(b)) :
              /\ Following(b)[k].msg.from = conn[e].irs
              /\ Following(b)[k].msg.nr = Passed(e) + 1 + k
<1> DEFINE i == conn[e].irs
           n == Passed(e)
           S == SentIn(Peer(e), i)
           F == Following(b)
<1>1. TypeInv /\ PacketsInv /\ SendInv /\ Peer(e) \in Ends
  BY PeerIs DEF NumberInv
<1>2. /\ i \in Seqs /\ conn[e].cur \in Seqs /\ n \in Nat /\ S \in Nat /\ n <= S
      /\ S <= MaxSend[Peer(e)] /\ conn[e].cur = Plus(i, n)
  BY <1>1, PassedIs
<1>3. M \in Nat /\ MaxSend[Peer(e)] \in Nat /\ 2 * W \in Nat /\ 2 <= 2 * W
      /\ MaxSend[Peer(e)] + 2 * W < M
  BY <1>1, ApartIs, SeqsAre
<1>4. S + 1 < M /\ S + 1 \in Nat
  BY <1>2, <1>3
<1>5. p.msg.from = i /\ p.msg.nr = n + 1 /\ n + 1 <= S
  <2>1. Regular(e, p) /\ SeqValid(conn[e], p)
    BY DEF Accepted
  <2>2. PICK k \in 1 .. 2 * W :
          /\ p.seq = Plus(conn[e].cur, k) /\ p.msg.from = i
          /\ p.msg.nr = n + k /\ p.msg.nr <= S
    BY <2>1, InWindow
  <2> HIDE DEF i, n, S
  <2>3. k \in Nat /\ k < M /\ 1 \in Nat /\ 1 < M
    BY <1>3
  <2>4. k = 1
    BY <1>2, <2>2, <2>3, PlusInjective
  <2>5. QED
    BY <2>2, <2>4
<1>6. p.seq = Plus(i, n + 1)
  <2> HIDE DEF i, n, S
  <2>1. 1 \in Nat /\ n + 1 < M
    BY <1>2, <1>3, <1>4
  <2>2. Plus(Plus(i, n), 1) = Plus(i, n + 1)
    BY <1>2, <2>1, PlusPlus
  <2>3. QED
    BY <1>2, <2>2
<1>7. Len(F) \in Nat /\ \A k \in 1 .. Len(F) : F[k] \in conn[e].ooo /\ F[k].seq = Plus(p.seq, k)
  BY FollowingIs
<1>8. ASSUME NEW k \in 1 .. Len(F)
      PROVE  /\ F[k].msg.from = i /\ F[k].msg.nr \in Nat /\ F[k].msg.nr <= S
             /\ F[k].seq = Plus(i, F[k].msg.nr) /\ F[k].seq = Plus(p.seq, k)
  <2> DEFINE q == F[k]
  <2>1. q \in conn[e].ooo /\ q.seq = Plus(p.seq, k)
    BY <1>7
  <2> HIDE DEF q
  <2>2. q.kind = "data"
    BY <1>1, <2>1 DEF TypeInv, ConnsOK, ConnOK, DataPackets
  <2>3. PacketOK(Peer(e), q)
    BY <1>1, <2>1 DEF PacketsInv
  <2>4. q.msg.from = i
    BY <2>1 DEF ReceiveInv, ReceivedOK
  <2>5. q.msg.nr \in Nat /\ q.msg.nr <= SentIn(Peer(e), q.msg.from)
        /\ q.seq = Plus(q.msg.from, q.msg.nr)
    BY <1>1, <2>2, <2>3, DataIs
  <2>6. QED
    BY <2>1, <2>4, <2>5 DEF q
<1> HIDE DEF i, n, S, F
<1>9. ASSUME NEW k \in 1 .. Len(F), n + 1 + k <= S + 1
      PROVE  F[k].msg.nr = n + 1 + k
  <2>1. k \in Nat /\ n + 1 \in Nat /\ (n + 1) + k < M /\ (n + 1) + k \in Nat
    BY <1>2, <1>3, <1>4, <1>7, <1>9
  <2>2. F[k].seq = Plus(i, (n + 1) + k)
    BY <1>2, <1>6, <1>8, <2>1, PlusPlus
  <2> DEFINE r == F[k].msg.nr
             j == (n + 1) + k
  <2>3. r \in Nat /\ r <= S /\ Plus(i, r) = Plus(i, j) /\ j \in Nat /\ j < M
    BY <1>8, <2>1, <2>2
  <2> HIDE DEF r, j
  <2>4. r < M
    BY <1>2, <1>3, <2>3
  <2>5. r = j
    BY <1>2, <2>3, <2>4, PlusInjective
  <2>6. QED
    BY <2>5 DEF r, j
<1>10. n + 1 + Len(F) <= S
  <2> SUFFICES ASSUME ~(n + 1 + Len(F) <= S) PROVE FALSE
    OBVIOUS
  <2>1. S - n \in 1 .. Len(F) /\ n + 1 + (S - n) = S + 1
    BY <1>2, <1>5, <1>7
  <2>2. F[S - n].msg.nr = S + 1 /\ F[S - n].msg.nr <= S
    BY <1>2, <1>8, <1>9, <2>1
  <2>3. QED
    BY <1>2, <2>2
<1>11. \A k \in 1 .. Len(F) : F[k].msg.from = i /\ F[k].msg.nr = n + 1 + k
  <2> TAKE k \in 1 .. Len(F)
  <2>1. n + 1 + k <= S + 1
    BY <1>2, <1>7, <1>10
  <2>2. QED
    BY <1>8, <1>9, <2>1
<1>12. QED
  BY <1>5, <1>6, <1>10, <1>11 DEF i, n, S, F

LEMMA Extends ==
  ASSUME NEW a \in Seq(Messages), NEW b \in Seq(Messages), NEW x, NEW n \in Nat, NEW m \in Nat,
         n + Len(b) <= m, InOrderUpTo(a, x, n),
         \A k \in 1 .. Len(b) : b[k].from = x /\ b[k].nr = n + k
  PROVE  InOrderUpTo(a \o b, x, m)
<1> DEFINE c == a \o b
           la == Len(a)
           lb == Len(b)
<1>1. /\ la \in Nat /\ lb \in Nat /\ Len(c) = la + lb
      /\ \A k \in 1 .. la + lb : c[k] = IF k <= la THEN a[k] ELSE b[k - la]
  BY ConcatProperties, LenProperties
<1>2. /\ \A k \in 1 .. la : a[k].from = x /\ a[k].nr \in 1 .. n
      /\ \A j, k \in 1 .. la : j < k => a[j].nr < a[k].nr
      /\ \A k \in 1 .. lb : b[k].from = x /\ b[k].nr = n + k
      /\ n + lb <= m
  BY DEF InOrderUpTo
<1> HIDE DEF c, la, lb
<1>3. ASSUME NEW k \in 1 .. la + lb
      PROVE  \/ k \in 1 .. la /\ c[k] = a[k]
             \/ k - la \in 1 .. lb /\ c[k] = b[k - la] /\ ~(k <= la)
  BY <1>1, <1>3
<1>4. ASSUME NEW k \in 1 .. la + lb
      PROVE  c[k].from = x /\ c[k].nr \in 1 .. m
  <2>1. CASE k \in 1 .. la /\ c[k] = a[k]
    BY <1>1, <1>2, <2>1
  <2>2. CASE k - la \in 1 .. lb /\ c[k] = b[k - la]
    BY <1>1, <1>2, <2>2
  <2>3. QED
    BY <1>3, <2>1, <2>2
<1>5. ASSUME NEW j \in 1 .. la + lb, NEW k \in 1 .. la + lb, j < k
      PROVE  c[j].nr < c[k].nr
  <2>1. CASE k \in 1 .. la /\ c[k] = a[k]
    <3>1. j \in 1 .. la /\ c[j] = a[j]
      BY <1>1, <1>3, <1>5, <2>1
    <3>2. QED
      BY <1>2, <1>5, <2>1, <3>1
  <2>2. CASE k - la \in 1 .. lb /\ c[k] = b[k - la]
    <3>1. c[k].nr = n + (k - la)
      BY <1>2, <2>2
    <3>2. CASE j \in 1 .. la /\ c[j] = a[j]
      <4>1. c[j].nr \in 1 .. n
        BY <1>2, <3>2
      <4>2. QED
        BY <1>1, <2>2, <3>1, <4>1
    <3>3. CASE j - la \in 1 .. lb /\ c[j] = b[j - la]
      <4>1. c[j].nr = n + (j - la)
        BY <1>2, <3>3
      <4>2. QED
        BY <1>1, <1>5, <3>1, <4>1
    <3>4. QED
      BY <1>3, <3>2, <3>3
  <2>3. QED
    BY <1>3, <2>1, <2>2
<1>6. InOrderUpTo(c, x, m)
  BY <1>1, <1>4, <1>5 DEF InOrderUpTo
<1>7. QED
  BY <1>6 DEF c

-----------------------------------------------------------------------------
(* What has been delivered is in order, each message once.                     *)

NothingYet(e) ==
  conn[e].cur = conn[e].irs /\ conn[e].ooo = {} /\ got[e] = <<>> /\ conn[e].rx = <<>>

NoneIsOK == \A e \in Ends : NothingYet(e) => ReceivedOK(e)

LEMMA NoneDelivered == TypeInv => NoneIsOK
<1> SUFFICES ASSUME TypeInv, NEW e \in Ends, NothingYet(e) PROVE ReceivedOK(e)
  BY DEF NoneIsOK
<1> USE DEF NothingYet
<1>1. conn[e].irs \in Seqs /\ Peer(e) \in Ends /\ RestOK
  BY PeerIs DEF TypeInv, ConnsOK, Conns
<1>2. Passed(e) = 0
  <2>1. conn[e].cur - conn[e].irs = 0
    BY <1>1 DEF Seqs
  <2>2. 0 % M = 0
    BY ModSmall, SeqsAre
  <2>3. QED
    BY <2>1, <2>2 DEF Passed
<1>3. SentIn(Peer(e), conn[e].irs) \in Nat
  BY <1>1, SentInIs
<1>4. Delivered(e) = <<>>
  <2>1. got[e] \in Seq(Messages)
    BY <1>1 DEF RestOK
  <2>2. QED
    BY <2>1, ConcatEmptySeq DEF Delivered
<1>5. Len(Delivered(e)) = 0
  BY <1>4
<1>6. InOrderUpTo(Delivered(e), conn[e].irs, Passed(e))
  BY <1>5 DEF InOrderUpTo
<1>7. QED
  BY <1>2, <1>3, <1>6 DEF ReceivedOK

LEMMA ReceiveInit == Init => ReceiveInv
<1> SUFFICES ASSUME Init, NEW e \in Ends PROVE ReceivedOK(e)
  BY DEF ReceiveInv
<1>1. TypeInv
  BY TypeInit
<1>2. conn[e] \in {NoConn, StaleConn} /\ got[e] = <<>>
  BY DEF Init
<1>3. NoConn.cur = NoConn.irs /\ NoConn.ooo = {} /\ NoConn.rx = <<>>
  BY DEF NoConn
<1>4. StaleConn.cur = StaleConn.irs /\ StaleConn.ooo = {} /\ StaleConn.rx = <<>>
  BY DEF NoConn, StaleConn
<1>5. conn[e].cur = conn[e].irs /\ conn[e].ooo = {} /\ conn[e].rx = <<>>
  BY <1>2, <1>3, <1>4
<1>6. QED
  BY <1>1, <1>2, <1>5, NoneDelivered DEF NoneIsOK, NothingYet

(* Nothing is received where the slot's numbers and queue stay.                *)
LEMMA QuietEnd ==
  ASSUME TypeInv, TypeInv', ReceiveInv, NEW x \in Ends, conn'[x] = conn[x], got'[x] = got[x],
         sent'[Peer(x)] = sent[Peer(x)]
  PROVE  ReceivedOK(x)'
<1>1. Peer(x) \in Ends /\ RestOK
  BY PeerIs DEF TypeInv
<1>2. SentIn(Peer(x), conn[x].irs)' = SentIn(Peer(x), conn[x].irs)
  BY DEF SentIn
<1>3. SentIn(Peer(x), conn[x].irs) \in Nat
  BY <1>1, SentInIs
<1>4. SentIn(Peer(x), conn[x].irs) <= SentIn(Peer(x), conn[x].irs)'
  BY <1>2, <1>3
<1>5. QED
  BY <1>4, ReceivedStays

(* Only e's slot is another.                                                 *)
LEMMA ReceiveAt ==
  ASSUME TypeInv, TypeInv', ReceiveInv, NEW e \in Ends, NEW d, conn' = [conn EXCEPT ![e] = d],
         \A x \in Ends : x # e => got'[x] = got[x], sent' = sent, ReceivedOK(e)'
  PROVE  ReceiveInv'
<1>1. ASSUME NEW x \in Ends, x # e PROVE ReceivedOK(x)'
  <2>1. conn'[x] = conn[x]
    BY <1>1, SlotIs
  <2>2. QED
    BY <1>1, <2>1, QuietEnd
<1>2. \A x \in Ends : ReceivedOK(x)'
  BY <1>1
<1>3. QED
  BY <1>2 DEF ReceiveInv

LEMMA ReceiveQuietly ==
  ASSUME TypeInv, TypeInv', ReceiveInv, NEW e \in Ends, NEW d, conn' = [conn EXCEPT ![e] = d],
         d.irs = conn[e].irs, d.cur = conn[e].cur, d.ooo \subseteq conn[e].ooo,
         d.rx = conn[e].rx \/ d.rx = <<>>, got' = got, sent' = sent
  PROVE  ReceiveInv'
<1>1. conn'[e] = d /\ Peer(e) \in Ends /\ RestOK
  BY SlotIs, PeerIs DEF TypeInv
<1>2. SentIn(Peer(e), conn[e].irs)' = SentIn(Peer(e), conn[e].irs)
  BY <1>1 DEF SentIn
<1>3. SentIn(Peer(e), conn[e].irs) \in Nat
  BY <1>1, SentInIs
<1>4. SentIn(Peer(e), conn[e].irs) <= SentIn(Peer(e), conn[e].irs)'
  BY <1>2, <1>3
<1>5. ReceivedOK(e)'
  BY <1>1, <1>4, ReceivedStays
<1>6. QED
  BY <1>5, ReceiveAt

LEMMA MinorReceives ==
  ASSUME TypeInv, TypeInv', ReceiveInv, NEW e \in Ends, NEW outs, MinorStep(e, outs)
  PROVE  ReceiveInv'
<1> DEFINE d == conn'[e]
<1>1. conn' = [conn EXCEPT ![e] = d] /\ d.irs = conn[e].irs /\ d.cur = conn[e].cur
      /\ d.ooo \subseteq conn[e].ooo /\ (d.rx = conn[e].rx \/ d.rx = <<>>)
      /\ got' = got /\ sent' = sent
  BY DEF MinorStep, Minor
<1> HIDE DEF d
<1>2. QED
  BY <1>1, ReceiveQuietly

LEMMA TryConnectReceives ==
  ASSUME TypeInv, TypeInv', ReceiveInv, Connect \/ ConnectRetry
  PROVE  ReceiveInv'
<1> DEFINE d == StartConnect(conn["client"], Iss["client"][opens["client"] + 1])
<1>1. TryConnect /\ UNCHANGED <<sent, got>> /\ "client" \in Ends /\ opens \in [Ends -> Nat]
      /\ conn["client"] \in Conns
  BY DEF Connect, ConnectRetry, Ends, TypeInv, RestOK, ConnsOK
<1>2. opens'["client"] = opens["client"] + 1
  BY <1>1 DEF TryConnect
<1>3. conn' = [conn EXCEPT !["client"] = d]
  BY <1>1, <1>2 DEF TryConnect
<1>4. d.irs = conn["client"].irs /\ d.cur = conn["client"].cur /\ d.ooo = {}
      /\ d.rx = conn["client"].rx
  BY <1>1 DEF StartConnect, Conns
<1> HIDE DEF d
<1>5. d.ooo \subseteq conn["client"].ooo
  BY <1>4
<1>6. QED
  BY <1>1, <1>3, <1>4, <1>5, ReceiveQuietly

LEMMA SendReceives ==
  ASSUME TypeInv, TypeInv', SendInv, ReceiveInv, NEW e \in Ends, Send(e)
  PROVE  ReceiveInv'
<1>1. conn \in [Ends -> Conns] /\ conn[e] \in Conns
  BY DEF TypeInv, ConnsOK
<1>2. /\ conn' = [conn EXCEPT ![e] = AfterSend(e)] /\ got' = got
      /\ sent' = [sent EXCEPT ![e] = @ \cup {Message(e, Sent(e) + 1)}]
  BY <1>1, SendSteps
<1>3. \A i : SentIn(e, i)' = IF i = conn[e].iss THEN Sent(e) + 1 ELSE SentIn(e, i)
  BY <1>2, SentOneMore
<1>4. \A x \in Ends : x # e => sent'[x] = sent[x]
  BY <1>2, SentOneMore
<1>5. ASSUME NEW s \in Ends, NEW i PROVE SentIn(s, i) <= SentIn(s, i)'
  <2>1. SentIn(s, i) \in Nat
    BY SentInIs DEF TypeInv
  <2>2. CASE s # e
    <3>1. SentIn(s, i)' = SentIn(s, i)
      BY <1>4, <2>2 DEF SentIn
    <3>2. QED
      BY <2>1, <3>1
  <2>3. CASE s = e /\ i = conn[e].iss
    <3>1. SentIn(s, i)' = SentIn(s, i) + 1
      BY <1>3, <2>3 DEF Sent
    <3>2. QED
      BY <2>1, <3>1
  <2>4. CASE s = e /\ i # conn[e].iss
    <3>1. SentIn(s, i)' = SentIn(s, i)
      BY <1>3, <2>4
    <3>2. QED
      BY <2>1, <3>1
  <2>5. QED
    BY <2>2, <2>3, <2>4
<1>6. \A x \in Ends : conn'[x].irs = conn[x].irs /\ conn'[x].cur = conn[x].cur
                      /\ conn'[x].ooo = conn[x].ooo /\ conn'[x].rx = conn[x].rx
  <2>1. conn'[e] = AfterSend(e) /\ \A x \in Ends : x # e => conn'[x] = conn[x]
    BY <1>2, SlotIs
  <2>2. /\ AfterSend(e).irs = conn[e].irs /\ AfterSend(e).cur = conn[e].cur
        /\ AfterSend(e).ooo = conn[e].ooo /\ AfterSend(e).rx = conn[e].rx
    BY <1>1 DEF AfterSend, Conns
  <2>3. QED
    BY <2>1, <2>2
<1>7. ASSUME NEW x \in Ends PROVE ReceivedOK(x)'
  <2>1. Peer(x) \in Ends
    BY PeerIs
  <2>2. SentIn(Peer(x), conn[x].irs)' = Cardinality({m \in sent'[Peer(x)] : m.from = conn[x].irs})
    BY <1>6 DEF SentIn
  <2>3. SentIn(Peer(x), conn[x].irs)
          <= Cardinality({m \in sent'[Peer(x)] : m.from = conn[x].irs})
    BY <1>5, <2>1 DEF SentIn
  <2>4. SentIn(Peer(x), conn[x].irs) <= SentIn(Peer(x), conn[x].irs)'
    BY <2>2, <2>3
  <2>5. conn'[x].irs = conn[x].irs /\ conn'[x].cur = conn[x].cur /\ conn'[x].ooo \subseteq conn[x].ooo
        /\ conn'[x].rx = conn[x].rx /\ got'[x] = got[x]
    BY <1>2, <1>6
  <2>6. QED
    BY <2>4, <2>5, ReceivedStays
<1>8. QED
  BY <1>7 DEF ReceiveInv

LEMMA ThreeParts ==
  ASSUME NEW a \in Seq(Messages), NEW b \in Seq(Messages), NEW c \in Seq(Messages)
  PROVE  (a \o b) \o c = a \o (b \o c)
BY ConcatAssociative

LEMMA HeadFirst ==
  ASSUME NEW a \in Seq(Messages), NEW q \in Seq(Messages), q # <<>>
  PROVE  Append(a, Head(q)) \o Tail(q) = a \o q
<1>1. Head(q) \in Messages /\ Tail(q) \in Seq(Messages) /\ Len(Tail(q)) = Len(q) - 1
      /\ (\A k \in 1 .. Len(Tail(q)) : Tail(q)[k] = q[k + 1]) /\ Len(q) \in Nat
  BY HeadTailProperties, LenProperties
<1>2. <<Head(q)>> \in Seq(Messages) /\ Len(<<Head(q)>>) = 1 /\ <<Head(q)>>[1] = q[1]
  BY <1>1
<1>3. <<Head(q)>> \o Tail(q) = q
  <2> DEFINE h == <<Head(q)>>
             t == Tail(q)
             s == h \o t
  <2>1. s \in Seq(Messages) /\ Len(s) = Len(h) + Len(t)
        /\ \A k \in 1 .. Len(h) + Len(t) : s[k] = IF k <= Len(h) THEN h[k] ELSE t[k - Len(h)]
    BY <1>1, <1>2, ConcatProperties
  <2> HIDE DEF h, t, s
  <2>2. Len(h) = 1 /\ h[1] = q[1] /\ Len(t) = Len(q) - 1 /\ Len(q) \in Nat
        /\ \A k \in 1 .. Len(t) : t[k] = q[k + 1]
    BY <1>1, <1>2 DEF h, t
  <2>3. Len(s) = Len(q)
    BY <2>1, <2>2
  <2>4. ASSUME NEW k \in 1 .. Len(s) PROVE s[k] = q[k]
    <3>1. CASE k = 1
      BY <2>1, <2>2, <2>3, <3>1
    <3>2. CASE k # 1
      <4>1. k - 1 \in 1 .. Len(t) /\ (k - 1) + 1 = k /\ ~(k <= Len(h)) /\ k \in 1 .. Len(h) + Len(t)
            /\ k - Len(h) = k - 1
        BY <2>1, <2>2, <2>3, <3>2
      <4>2. s[k] = t[k - 1]
        BY <2>1, <4>1
      <4>3. QED
        BY <2>2, <4>1, <4>2
    <3>3. QED
      BY <3>1, <3>2
  <2>5. s = q
    BY <2>1, <2>3, <2>4, SeqEqual
  <2>6. QED
    BY <2>5 DEF s, h, t
<1>4. Append(a, Head(q)) = a \o <<Head(q)>>
  BY <1>1, AppendIsConcat
<1>5. (a \o <<Head(q)>>) \o Tail(q) = a \o (<<Head(q)>> \o Tail(q))
  BY <1>1, <1>2, ConcatAssociative
<1>6. QED
  BY <1>3, <1>4, <1>5

LEMMA ReadReceives ==
  ASSUME TypeInv, TypeInv', ReceiveInv, NEW e \in Ends, Read(e)
  PROVE  ReceiveInv'
<1> DEFINE d == AfterRead(e)
<1>1. conn \in [Ends -> Conns] /\ conn[e] \in Conns /\ got \in [Ends -> Seq(Messages)]
      /\ conn[e].rx \in Seq(Messages) /\ got[e] \in Seq(Messages)
  BY DEF TypeInv, ConnsOK, RestOK, Conns
<1>2. /\ conn[e].rx # <<>> /\ conn' = [conn EXCEPT ![e] = d]
      /\ got' = [got EXCEPT ![e] = Append(@, Head(conn[e].rx))] /\ sent' = sent
  BY <1>1, ReadSteps
<1>3. d.irs = conn[e].irs /\ d.cur = conn[e].cur /\ d.ooo = conn[e].ooo /\ d.rx = Tail(conn[e].rx)
  BY <1>1 DEF AfterRead, Conns
<1> HIDE DEF d
<1>4. conn'[e] = d /\ got'[e] = Append(got[e], Head(conn[e].rx))
      /\ \A x \in Ends : x # e => got'[x] = got[x]
  BY <1>1, <1>2, SlotIs
<1>5. Delivered(e)' = Delivered(e)
  BY <1>1, <1>2, <1>3, <1>4, HeadFirst DEF Delivered
<1>6. conn'[e].irs = conn[e].irs /\ conn'[e].cur = conn[e].cur /\ conn'[e].ooo = conn[e].ooo
  BY <1>3, <1>4
<1>7. Passed(e)' = Passed(e) /\ SentIn(Peer(e), conn[e].irs)' = SentIn(Peer(e), conn[e].irs)
  BY <1>2, <1>6 DEF Passed, SentIn
<1>8. ReceivedOK(e)
  BY DEF ReceiveInv
<1>9. ReceivedOK(e)'
  BY <1>5, <1>6, <1>7, <1>8 DEF ReceivedOK
<1>10. QED
  BY <1>2, <1>4, <1>9, ReceiveAt

LEMMA BeginReceives ==
  ASSUME TypeInv, TypeInv', ReceiveInv, NEW e \in Ends, NEW d, conn' = [conn EXCEPT ![e] = d],
         \A x \in Ends : x # e => got'[x] = got[x], sent' = sent,
         d.cur = d.irs, d.ooo = {}, got'[e] = <<>>, d.rx = <<>>
  PROVE  ReceiveInv'
<1>1. conn'[e] = d
  BY SlotIs
<1>2. NothingYet(e)'
  BY <1>1 DEF NothingYet
<1>3. TypeInv' => NoneIsOK'
  BY NoneDelivered, PTL
<1>4. ReceivedOK(e)'
  BY <1>2, <1>3 DEF NoneIsOK
<1>5. QED
  BY <1>4, ReceiveAt

LEMMA SynReceives ==
  ASSUME NumberInv, TypeInv', ReceiveInv, NEW e \in Ends, NEW p \in net[e], SynInClosed(e, p)
  PROVE  ReceiveInv'
<1> DEFINE d == NewSlotSent(Iss[e][opens[e] + 1], p)
<1>1. TypeInv /\ p \in Sendable /\ got \in [Ends -> Seq(Messages)] /\ opens \in [Ends -> Nat]
  BY DEF NumberInv, TypeInv, NetOK, RestOK
<1>2. conn' = [conn EXCEPT ![e] = d] /\ got' = [got EXCEPT ![e] = <<>>] /\ sent' = sent
  BY <1>1, SynSteps DEF Take
<1>3. d.cur = d.irs /\ d.ooo = {} /\ d.rx = <<>>
  BY DEF NewSlotSent, NewSlot, NoConn
<1> HIDE DEF d
<1>4. got'[e] = <<>> /\ \A x \in Ends : x # e => got'[x] = got[x]
  BY <1>1, <1>2
<1>5. QED
  BY <1>1, <1>2, <1>3, <1>4, BeginReceives

LEMMA SynAckReceives ==
  ASSUME NumberInv, TypeInv', ReceiveInv, NEW e \in Ends, NEW p \in net[e], SynAckInSynSent(e, p)
  PROVE  ReceiveInv'
<1> DEFINE d == [conn[e] EXCEPT !.st = "open", !.cur = p.seq, !.irs = p.seq,
                                !.una = Plus(p.ack, 1)]
<1>1. TypeInv /\ BeginInv /\ conn[e] \in Conns
  BY DEF NumberInv, TypeInv, ConnsOK
<1>2. conn[e].st = "syn_sent" /\ conn' = [conn EXCEPT ![e] = d] /\ UNCHANGED <<sent, got>>
  BY DEF SynAckInSynSent, Take
<1>3. e = "client"
  BY <1>1, <1>2 DEF BeginInv, Ends
<1>4. d.cur = d.irs /\ d.ooo = conn[e].ooo /\ d.rx = conn[e].rx
  BY <1>1 DEF Conns
<1> HIDE DEF d
<1>5. got[e] = <<>> /\ conn[e].rx = <<>> /\ conn[e].ooo = {}
  BY <1>1, <1>2, <1>3 DEF BeginInv
<1>6. got'[e] = <<>> /\ (\A x \in Ends : x # e => got'[x] = got[x]) /\ sent' = sent
      /\ d.ooo = {} /\ d.rx = <<>>
  BY <1>2, <1>4, <1>5
<1>7. QED
  BY <1>1, <1>2, <1>4, <1>6, BeginReceives

LEMMA KeptReceives ==
  ASSUME Apart, NumberInv, TypeInv', ReceiveInv, NEW e \in Ends, NEW p \in net[e],
         NewOutOfOrder(e, p), Take(e, p, Kept(e, p), {Eack(Kept(e, p))})
  PROVE  ReceiveInv'
<1> DEFINE c == Acked(conn[e], p)
           d == Kept(e, p)
<1>1. TypeInv /\ conn[e] \in Conns /\ UNCHANGED <<opens, sent, got>> /\ Accepted(e, p)
      /\ p.kind = "data"
  BY DEF NumberInv, TypeInv, ConnsOK, NewOutOfOrder
<1>2. c.irs = conn[e].irs /\ c.cur = conn[e].cur /\ c.ooo = conn[e].ooo /\ c.rx = conn[e].rx
      /\ c \in Conns
  <2>1. c \in Conns
    BY <1>1, AckMinor
  <2>2. QED
    BY <1>1, <2>1 DEF Acked, Conns
<1> HIDE DEF c
<1>3. d.irs = conn[e].irs /\ d.cur = conn[e].cur /\ d.ooo = conn[e].ooo \cup {p}
      /\ d.rx = conn[e].rx
  <2>1. d = [c EXCEPT !.ooo = @ \cup {p}]
    BY DEF Kept, c
  <2> HIDE DEF d
  <2>2. QED
    BY <1>2, <2>1 DEF Conns
<1>4. conn' = [conn EXCEPT ![e] = d]
  BY DEF Take
<1> HIDE DEF d
<1>5. conn'[e] = d
  BY <1>1, <1>4, SlotIs
<1>6. p.msg.from = conn[e].irs
  BY <1>1, InWindow DEF Accepted
<1>7. ReceivedOK(e)
  BY DEF ReceiveInv
<1>8. conn'[e].irs = conn[e].irs /\ conn'[e].cur = conn[e].cur /\ conn'[e].rx = conn[e].rx
      /\ conn'[e].ooo = conn[e].ooo \cup {p}
  BY <1>3, <1>5
<1>9. /\ Passed(e)' = Passed(e) /\ SentIn(Peer(e), conn[e].irs)' = SentIn(Peer(e), conn[e].irs)
      /\ Delivered(e)' = Delivered(e)
  BY <1>1, <1>8 DEF Passed, SentIn, Delivered
<1>10. \A q \in conn'[e].ooo : q.msg.from = conn'[e].irs
  BY <1>6, <1>7, <1>8 DEF ReceivedOK
<1>11. ReceivedOK(e)'
  BY <1>7, <1>8, <1>9, <1>10 DEF ReceivedOK
<1>12. QED
  BY <1>1, <1>4, <1>11, ReceiveAt

(* What receiving p and flushing rx_queue after it do.                         *)
LEMMA FlushedPasses ==
  ASSUME Apart, NumberInv, TypeInv', ReceiveInv, NEW e \in Ends, NEW p \in net[e],
         NewInOrder(e, p), Free(Acked(conn[e], p)) > 0,
         Take(e, p, AfterFlush(Received(e, p)), AckIfRoom(Received(e, p)))
  PROVE  LET b == Received(e, p)
             F == Following(b)
             n == Passed(e)
             w == Fitting(b) IN
           /\ ConnOK(b) /\ b.rx = Append(conn[e].rx, p.msg)
           /\ conn'[e].irs = conn[e].irs /\ conn'[e].rx = b.rx \o w
           /\ conn'[e].ooo \subseteq conn[e].ooo
           /\ p.msg \in Messages /\ p.msg.from = conn[e].irs /\ p.msg.nr = n + 1
           /\ n \in Nat /\ Len(F) \in Nat /\ Passed(e)' = (n + 1) + Len(F)
           /\ (n + 1) + Len(F) <= SentIn(Peer(e), conn[e].irs)
           /\ w \in Seq(Messages) /\ Len(w) \in Nat /\ Len(w) <= Len(F)
           /\ \A k \in 1 .. Len(w) : w[k].from = conn[e].irs /\ w[k].nr = (n + 1) + k
<1> DEFINE b == Received(e, p)
           d == Flushed(e, p)
           i == conn[e].irs
           n == Passed(e)
           F == Following(b)
           S == SentIn(Peer(e), i)
           w == Fitting(b)
<1>1. TypeInv /\ SendInv /\ Peer(e) \in Ends /\ Accepted(e, p)
      /\ p.kind = "data" /\ p.seq = Plus(conn[e].cur, 1) /\ p \in Sendable
  BY InOrderSteps, PeerIs DEF NumberInv, TypeInv, NetOK
<1>2. /\ ConnOK(b) /\ b.cur = p.seq /\ b.rx = Append(conn[e].rx, p.msg) /\ b.ooo = conn[e].ooo
      /\ d.irs = i /\ d.cur = Plus(p.seq, Len(F)) /\ d.rx = b.rx \o Fitting(b)
      /\ d.ooo \subseteq conn[e].ooo
  BY <1>1, FlushedIs
<1>3. conn' = [conn EXCEPT ![e] = d]
  BY DEF Take, Flushed
<1> HIDE DEF b, d
<1>4. /\ p.msg.from = i /\ p.msg.nr = n + 1 /\ p.seq = Plus(i, n + 1) /\ n + 1 + Len(F) <= S
      /\ \A k \in 1 .. Len(F) : F[k].msg.from = i /\ F[k].msg.nr = n + 1 + k
  BY <1>1, <1>2, FollowingNumbers
<1>5. /\ Len(F) \in Nat /\ Len(w) \in Nat /\ w \in Seq(Messages)
      /\ \A k \in 1 .. Len(w) : k \in 1 .. Len(F) /\ w[k] = F[k].msg
  BY <1>2, FollowingIs, FittingIs
<1>6. i \in Seqs /\ n \in Nat /\ S \in Nat /\ n <= S /\ S <= MaxSend[Peer(e)]
  BY <1>1, PassedIs
<1>7. M \in Nat /\ MaxSend[Peer(e)] \in Nat /\ 2 * W \in Nat /\ 2 <= 2 * W
      /\ MaxSend[Peer(e)] + 2 * W < M
  BY <1>1, ApartIs, SeqsAre
<1>8. conn'[e] = d /\ p.msg \in Messages
  BY <1>1, <1>3, SlotIs DEF Sendable
<1> HIDE DEF i, n, F, S, w
<1>9. n + 1 \in Nat /\ (n + 1) + Len(F) \in Nat /\ (n + 1) + Len(F) < M /\ (n + 1) + Len(F) <= S
  BY <1>4, <1>5, <1>6, <1>7
<1>10. d.cur = Plus(i, (n + 1) + Len(F))
  <2>1. Plus(Plus(i, n + 1), Len(F)) = Plus(i, (n + 1) + Len(F))
    BY <1>5, <1>6, <1>9, PlusPlus
  <2>2. QED
    BY <1>2, <1>4, <2>1
<1>11. (d.cur - d.irs) % M = (n + 1) + Len(F)
  BY <1>2, <1>6, <1>9, <1>10, DiffPlus
<1>12. Passed(e)' = (n + 1) + Len(F)
  BY <1>8, <1>11 DEF Passed
<1>13. Len(w) <= Len(F)
  <2>1. CASE Len(w) = 0
    BY <1>5, <2>1
  <2>2. CASE Len(w) # 0
    <3>1. Len(w) \in 1 .. Len(w)
      BY <1>5, <2>2
    <3>2. Len(w) \in 1 .. Len(F)
      BY <1>5, <3>1
    <3>3. QED
      BY <1>5, <3>2
  <2>3. QED
    BY <2>1, <2>2
<1>14. \A k \in 1 .. Len(w) : w[k].from = i /\ w[k].nr = (n + 1) + k
  BY <1>4, <1>5
<1>15. conn'[e].irs = i /\ conn'[e].rx = b.rx \o w /\ conn'[e].ooo \subseteq conn[e].ooo
  BY <1>2, <1>8 DEF w
<1>16. QED
  BY <1>2, <1>4, <1>5, <1>6, <1>8, <1>9, <1>12, <1>13, <1>14, <1>15 DEF b, F, n, w, i, S

LEMMA FlushedReceives ==
  ASSUME Apart, NumberInv, TypeInv', ReceiveInv, NEW e \in Ends, NEW p \in net[e],
         NewInOrder(e, p), Free(Acked(conn[e], p)) > 0,
         Take(e, p, AfterFlush(Received(e, p)), AckIfRoom(Received(e, p)))
  PROVE  ReceiveInv'
<1> DEFINE b == Received(e, p)
           i == conn[e].irs
           n == Passed(e)
           F == Following(b)
           S == SentIn(Peer(e), i)
           a == got[e] \o conn[e].rx
           m == <<p.msg>>
           w == Fitting(b)
<1>1. TypeInv /\ UNCHANGED <<opens, sent, got>> /\ conn' = [conn EXCEPT ![e] = Flushed(e, p)]
  BY InOrderSteps DEF NumberInv, Take, Flushed
<1>2. /\ b.rx = Append(conn[e].rx, p.msg)
      /\ conn'[e].irs = i /\ conn'[e].rx = b.rx \o w
      /\ conn'[e].ooo \subseteq conn[e].ooo
      /\ p.msg \in Messages /\ p.msg.from = i /\ p.msg.nr = n + 1
      /\ n \in Nat /\ Len(F) \in Nat /\ Passed(e)' = (n + 1) + Len(F)
      /\ (n + 1) + Len(F) <= S
      /\ w \in Seq(Messages) /\ Len(w) \in Nat /\ Len(w) <= Len(F)
      /\ \A k \in 1 .. Len(w) : w[k].from = i /\ w[k].nr = (n + 1) + k
  BY FlushedPasses
<1>3. got[e] \in Seq(Messages) /\ conn[e].rx \in Seq(Messages)
  BY <1>1 DEF TypeInv, ConnsOK, RestOK, Conns
<1>4. InOrderUpTo(a, i, n)
  BY DEF ReceiveInv, ReceivedOK, Delivered
<1> HIDE DEF b, i, n, F, S, w
<1>5. a \in Seq(Messages) /\ m \in Seq(Messages) /\ Len(m) = 1 /\ m[1] = p.msg
  BY <1>2, <1>3, ConcatProperties
<1>6. a \o m \in Seq(Messages) /\ n + 1 \in Nat /\ (n + 1) + Len(F) \in Nat
      /\ (n + 1) + Len(w) <= (n + 1) + Len(F)
  BY <1>2, <1>5, ConcatProperties
<1>7. InOrderUpTo(a \o m, i, n + 1)
  <2>1. \A k \in 1 .. Len(m) : m[k].from = i /\ m[k].nr = n + k
    <3> TAKE k \in 1 .. Len(m)
    <3>1. k = 1
      BY <1>5
    <3>2. QED
      BY <1>2, <1>5, <3>1
  <2>2. n + Len(m) <= n + 1
    BY <1>2, <1>5
  <2> HIDE DEF a, m
  <2>3. QED
    BY <1>2, <1>4, <1>5, <1>6, <2>1, <2>2, Extends
<1> HIDE DEF a, m
<1>8. InOrderUpTo((a \o m) \o w, i, (n + 1) + Len(F))
  <2> DEFINE c == a \o m
             j == n + 1
             t == (n + 1) + Len(F)
  <2>1. c \in Seq(Messages) /\ j \in Nat /\ t \in Nat /\ j + Len(w) <= t /\ InOrderUpTo(c, i, j)
        /\ \A k \in 1 .. Len(w) : w[k].from = i /\ w[k].nr = j + k
    BY <1>2, <1>6, <1>7
  <2> HIDE DEF c, j, t
  <2>2. InOrderUpTo(c \o w, i, t)
    BY <1>2, <2>1, Extends
  <2>3. QED
    BY <2>2 DEF c, t
<1>9. Delivered(e)' = (a \o m) \o w
  <2>1. conn'[e].rx = Append(conn[e].rx, p.msg) \o w
    BY <1>2
  <2>2. Append(conn[e].rx, p.msg) = conn[e].rx \o m
    BY <1>2, <1>3, AppendIsConcat DEF m
  <2>3. conn[e].rx \o m \in Seq(Messages)
    BY <1>3, <1>5, ConcatProperties
  <2>4. (got[e] \o (conn[e].rx \o m)) \o w = got[e] \o ((conn[e].rx \o m) \o w)
    BY <1>2, <1>3, <2>3, ThreeParts
  <2>5. (got[e] \o conn[e].rx) \o m = got[e] \o (conn[e].rx \o m)
    BY <1>3, <1>5, ThreeParts
  <2>6. got'[e] = got[e]
    BY <1>1
  <2>7. QED
    BY <2>1, <2>2, <2>4, <2>5, <2>6 DEF Delivered, a
<1>10. SentIn(Peer(e), conn[e].irs)' = S
  BY <1>1, <1>2 DEF SentIn, S
<1>11. Passed(e)' <= SentIn(Peer(e), conn[e].irs)'
  BY <1>2, <1>10
<1>12. \A q \in conn'[e].ooo : q.msg.from = conn'[e].irs
  BY <1>2 DEF ReceiveInv, ReceivedOK, i
<1>13. InOrderUpTo(Delivered(e)', conn'[e].irs, Passed(e)')
  BY <1>2, <1>8, <1>9
<1>14. ReceivedOK(e)'
  <2>1. InOrderUpTo(Delivered(e), conn[e].irs, Passed(e))'
    BY <1>13 DEF InOrderUpTo
  <2>2. QED
    BY <1>11, <1>12, <2>1 DEF ReceivedOK
<1>15. QED
  BY <1>1, <1>14, ReceiveAt

-----------------------------------------------------------------------------
(* Each step, and the theorem.                                                *)

OrderInv == NumberInv /\ ReceiveInv

LEMMA MinorKeeps ==
  ASSUME OrderInv, TypeInv', NEW e \in Ends, \E o : MinorStep(e, o)
  PROVE  OrderInv'
BY MinorNumbers, MinorReceives DEF OrderInv, NumberInv

LEMMA ApplicationKeeps ==
  ASSUME Apart, OrderInv, TypeInv', NEW e \in Ends,
         Send(e) \/ Read(e) \/ Close(e) \/ ConnTimeout(e) \/ CheckTimeouts(e)
  PROVE  OrderInv'
<1>1. NumberInv /\ ReceiveInv /\ TypeInv /\ SendInv
  BY DEF OrderInv, NumberInv
<1>2. CASE Send(e)
  BY <1>1, <1>2, SendNumbers, SendReceives DEF OrderInv
<1>3. CASE Read(e)
  BY <1>1, <1>3, ReadNumbers, ReadReceives DEF OrderInv
<1>4. CASE Close(e) \/ ConnTimeout(e)
  BY <1>1, <1>4, ClosesMinor, MinorKeeps
<1>5. CASE CheckTimeouts(e)
  BY <1>1, <1>5, TimeoutMinor, MinorKeeps
<1>6. QED
  BY <1>2, <1>3, <1>4, <1>5

LEMMA ConnectKeeps ==
  ASSUME Apart', OrderInv, TypeInv',
         Connect \/ ConnectRetry \/ ConnectDone \/ ConnectGiveUp \/ ConnectFail
  PROVE  OrderInv'
<1>1. NumberInv /\ ReceiveInv /\ TypeInv /\ "client" \in Ends
  BY DEF OrderInv, NumberInv, Ends
<1>2. CASE Connect \/ ConnectRetry
  BY <1>1, <1>2, TryConnectNumbers, TryConnectReceives DEF OrderInv
<1>3. CASE ConnectDone \/ ConnectGiveUp \/ ConnectFail
  BY <1>1, <1>3, ConnectsMinor, MinorKeeps
<1>4. QED
  BY <1>2, <1>3

LEMMA RouterKeeps ==
  ASSUME Apart, Apart', OrderInv, TypeInv', NEW e \in Ends, NewPacket(e)
  PROVE  OrderInv'
<1>1. NumberInv /\ ReceiveInv /\ TypeInv
  BY DEF OrderInv, NumberInv
<1>2. PICK p \in net[e] :
        \/ DropClosed(e, p) \/ RefuseInClosed(e, p) \/ SynInClosed(e, p)
        \/ NewReset(e, p)
        \/ SynAckInSynSent(e, p) \/ HalfOpen(e, p)
        \/ SynInOpen(e, p) \/ OutOfWindow(e, p) \/ BadAck(e, p) \/ WrongSynAck(e, p)
        \/ NewAck(e, p) \/ NewOutOfOrder(e, p) \/ NewInOrder(e, p)
        \/ NewInCloseWait(e, p)
  BY DEF NewPacket
<1>3. CASE DropClosed(e, p) \/ RefuseInClosed(e, p)
  BY <1>1, <1>3, RefusalsMinor, MinorKeeps
<1>4. CASE SynInClosed(e, p)
  BY <1>1, <1>4, SynNumbers, SynReceives DEF OrderInv
<1>5. CASE NewReset(e, p)
  BY <1>1, <1>5, ResetMinor, MinorKeeps
<1>6. CASE SynAckInSynSent(e, p)
  BY <1>1, <1>6, SynAckNumbers, SynAckReceives DEF OrderInv
<1>7. CASE \/ HalfOpen(e, p) \/ SynInOpen(e, p) \/ WrongSynAck(e, p)
           \/ BadAck(e, p) \/ NewInCloseWait(e, p)
  BY <1>1, <1>7, AnswersMinor, MinorKeeps
<1>8. CASE OutOfWindow(e, p)
  BY <1>1, <1>8, OutOfWindowMinor, MinorKeeps
<1>9. CASE NewAck(e, p)
  BY <1>1, <1>9, NewAckMinor, MinorKeeps
<1>10. CASE NewOutOfOrder(e, p)
  <2>1. CASE \E o : MinorStep(e, o)
    BY <2>1, MinorKeeps
  <2>2. CASE Take(e, p, Kept(e, p), {Eack(Kept(e, p))})
    BY <1>1, <1>10, <2>2, KeptNumbers, KeptReceives DEF OrderInv
  <2>3. QED
    BY <1>1, <1>10, <2>1, <2>2, OutOfOrderMinor
<1>11. CASE NewInOrder(e, p)
  <2>1. CASE \E o : MinorStep(e, o)
    BY <2>1, MinorKeeps
  <2>2. CASE /\ Free(Acked(conn[e], p)) > 0
             /\ Take(e, p, AfterFlush(Received(e, p)), AckIfRoom(Received(e, p)))
    BY <1>1, <1>11, <2>2, FlushedNumbers, FlushedReceives DEF OrderInv
  <2>3. QED
    BY <1>1, <1>11, <2>1, <2>2, InOrderMinor
<1>12. QED
  BY <1>2, <1>3, <1>4, <1>5, <1>6, <1>7, <1>8, <1>9, <1>10, <1>11

LEMMA UnchangedKeeps ==
  ASSUME OrderInv, UNCHANGED vars
  PROVE  OrderInv'
<1> DEFINE d == conn["client"]
<1>1. NumberInv /\ ReceiveInv /\ TypeInv /\ "client" \in Ends
  BY DEF OrderInv, NumberInv, Ends
<1>2. TypeInv'
  BY <1>1, TypeStep
<1>3. conn' = conn /\ net' = net /\ UNCHANGED <<opens, sent, got>>
  BY DEF vars
<1>4. MinorStep("client", {})
  BY <1>1, <1>3, MinorSelf DEF MinorStep, Passing, TypeInv, ConnsOK, NetOK
<1>5. QED
  BY <1>1, <1>2, <1>4, MinorKeeps

LEMMA OrderInit == Init => OrderInv
BY NumberInit, ReceiveInit DEF OrderInv

(* What has been drawn and sent stays so.                                     *)
LEMMA HistoryStep ==
  ASSUME TypeInv, [Next]_vars
  PROVE  HistoryGrows
<1>1. /\ opens \in [Ends -> Nat] /\ sent \in [Ends -> SUBSET Messages]
      /\ "client" \in Ends /\ "server" \in Ends
  BY DEF TypeInv, RestOK, Ends
<1>2. ASSUME UNCHANGED <<opens, sent>> PROVE HistoryGrows
  BY <1>1, <1>2 DEF HistoryGrows
<1>3. ASSUME NEW e \in Ends, opens' = [opens EXCEPT ![e] = @ + 1], sent' = sent
      PROVE  HistoryGrows
  BY <1>1, <1>3 DEF HistoryGrows
<1>4. CASE Connect \/ ConnectRetry
  BY <1>1, <1>3, <1>4 DEF Connect, ConnectRetry, TryConnect
<1>5. CASE ConnectDone \/ ConnectGiveUp \/ ConnectFail
  BY <1>2, <1>5 DEF ConnectDone, ConnectGiveUp, ConnectFail
<1>6. ASSUME NEW e \in Ends, Send(e) PROVE HistoryGrows
  BY <1>1, <1>6 DEF Send, HistoryGrows
<1>7. ASSUME NEW e \in Ends, Read(e) \/ Close(e) \/ ConnTimeout(e) \/ CheckTimeouts(e)
      PROVE  HistoryGrows
  BY <1>2, <1>7 DEF Read, Close, ConnTimeout, CheckTimeouts
<1>8. ASSUME NEW e \in Ends, NEW p \in net[e], SynInClosed(e, p) PROVE HistoryGrows
  BY <1>1, <1>3, <1>8, SynSteps
<1>9. ASSUME NEW e \in Ends, NEW p \in net[e],
             \/ DropClosed(e, p) \/ RefuseInClosed(e, p) \/ NewReset(e, p)
             \/ SynAckInSynSent(e, p) \/ HalfOpen(e, p)
             \/ SynInOpen(e, p) \/ OutOfWindow(e, p) \/ BadAck(e, p) \/ WrongSynAck(e, p)
             \/ NewAck(e, p) \/ NewOutOfOrder(e, p) \/ NewInOrder(e, p)
             \/ NewInCloseWait(e, p)
      PROVE  HistoryGrows
  BY <1>2, <1>9 DEF DropClosed, RefuseInClosed, NewReset, SynAckInSynSent, HalfOpen, SynInOpen,
                    OutOfWindow, BadAck, WrongSynAck, NewAck, NewOutOfOrder, NewInOrder,
                    NewInCloseWait
<1>10. ASSUME NEW e \in Ends, NewPacket(e) PROVE HistoryGrows
  BY <1>8, <1>9, <1>10 DEF NewPacket
<1>11. CASE UNCHANGED vars
  BY <1>2, <1>11 DEF vars
<1>12. QED
  BY <1>4, <1>5, <1>6, <1>7, <1>10, <1>11 DEF Next

(* Numbers that are apart were so before the last was drawn.                    *)
LEMMA ApartBefore ==
  ASSUME TypeInv, TypeInv', [Next]_vars, Apart'
  PROVE  Apart
<1> SUFFICES ASSUME NEW e \in Ends PROVE FirstApart[e][opens[e]]
  BY DEF Apart
<1>1. /\ opens[e] \in Nat /\ opens'[e] \in Nat /\ opens[e] <= opens'[e]
      /\ opens'[e] <= Len(Iss[e]) /\ Len(Iss[e]) \in Nat /\ FirstApart[e][opens'[e]]
  BY HistoryStep, LenProperties, RdpAssumption DEF TypeInv, RestOK, Apart, HistoryGrows
<1>2. /\ MaxSend[e] + 2 * W < M
      /\ \A j, k \in 1 .. opens'[e] : j # k => (Iss[e][j] - Iss[e][k]) % M >= MaxSend[e] + 2 * W
  BY <1>1, FirstApartIs
<1>3. 1 .. opens[e] \subseteq 1 .. opens'[e] /\ opens[e] \in 0 .. Len(Iss[e])
  BY <1>1
<1>4. QED
  BY <1>2, <1>3 DEF FirstApart

LEMMA OrderStep ==
  ASSUME Apart, Apart', OrderInv, [Next]_vars
  PROVE  OrderInv'
<1>1. TypeInv'
  BY TypeStep DEF OrderInv, NumberInv
<1>2. CASE Connect \/ ConnectRetry \/ ConnectDone \/ ConnectGiveUp \/ ConnectFail
  BY <1>1, <1>2, ConnectKeeps
<1>3. CASE \E e \in Ends : Send(e) \/ Read(e) \/ Close(e) \/ ConnTimeout(e) \/ CheckTimeouts(e)
  BY <1>1, <1>3, ApplicationKeeps
<1>4. CASE \E e \in Ends : NewPacket(e)
  BY <1>1, <1>4, RouterKeeps
<1>5. CASE UNCHANGED vars
  BY <1>5, UnchangedKeeps
<1>6. QED
  BY <1>2, <1>3, <1>4, <1>5 DEF Next

(* OrderInv as long as the numbers are apart.                                  *)
OrderedSoFar == TypeInv /\ (Apart => OrderInv)

LEMMA OrderedSoFarStep == OrderedSoFar /\ [Next]_vars => OrderedSoFar'
<1> SUFFICES ASSUME OrderedSoFar, [Next]_vars PROVE OrderedSoFar'
  OBVIOUS
<1>1. TypeInv /\ TypeInv'
  BY TypeStep DEF OrderedSoFar
<1>2. ASSUME Apart' PROVE OrderInv'
  <2>1. Apart
    BY <1>1, <1>2, ApartBefore
  <2>2. QED
    BY <1>2, <2>1, OrderStep DEF OrderedSoFar
<1>3. QED
  BY <1>1, <1>2 DEF OrderedSoFar

LEMMA OrderedSoFarAlways == Spec => []OrderedSoFar
<1>1. Init => OrderedSoFar
  BY TypeInit, OrderInit DEF OrderedSoFar
<1>2. QED
  BY <1>1, OrderedSoFarStep, PTL DEF Spec

LEMMA OrderHolds == OrderedSoFar => OrderedOnce
BY DEF OrderedSoFar, OrderInv, ReceiveInv, ReceivedOK, InOrderUpTo, OrderedOnce

(* csp_rdp.c, for any initial numbers, window, queue and number of messages,       *)
(* whatever is lost, repeated, overtaken, reset or closed: until an end draws a     *)
(* number too close to one it has had, what an application gets in a connection     *)
(* was sent in that connection, in the order it was sent, and each message once.    *)
THEOREM InOrderDelivery == Spec => []OrderedOnce
BY OrderedSoFarAlways, OrderHolds, PTL

-----------------------------------------------------------------------------
(***************************************************************************)
(* The direction towards x is an ordered channel: how each step moves it.        *)
(***************************************************************************)

SentTo(x) == SentIn(Peer(x), conn[x].irs)

Queue(x) == Numbers(conn[x].rx)

ReadBy(x) == Numbers(got[x])

Stays(x) ==
  /\ SentTo(x)' = SentTo(x) /\ Passed(x)' = Passed(x) /\ ReadBy(x)' = ReadBy(x)
  /\ Queue(x)' \in {Queue(x), <<>>}

Accepts(x) ==
  /\ SentTo(x)' = SentTo(x) + 1
  /\ Passed(x)' = Passed(x) /\ ReadBy(x)' = ReadBy(x) /\ Queue(x)' = Queue(x)

Passes(x) ==
  \E n \in 1 .. SentTo(x) - Passed(x) : \E k \in 1 .. n :
    /\ Passed(x) + n <= SentTo(x)
    /\ k < n => Len(Queue(x)) + k = RxLen
    /\ Len(Queue(x)) + k <= RxLen
    /\ Passed(x)' = Passed(x) + n
    /\ Queue(x)' = Queue(x) \o [i \in 1 .. k |-> Passed(x) + i]
    /\ SentTo(x)' = SentTo(x) /\ ReadBy(x)' = ReadBy(x)

Reads(x) ==
  /\ Queue(x) # <<>>
  /\ ReadBy(x)' = Append(ReadBy(x), Head(Queue(x)))
  /\ Queue(x)' = Tail(Queue(x))
  /\ SentTo(x)' = SentTo(x) /\ Passed(x)' = Passed(x)

Begins(x) == SentTo(x)' \in Nat /\ Passed(x)' = 0 /\ Queue(x)' = <<>> /\ ReadBy(x)' = <<>>

Moves(x) == Stays(x) \/ Accepts(x) \/ Passes(x) \/ Reads(x) \/ Begins(x)

LEMMA NumbersAre ==
  ASSUME NEW s \in Seq(Messages)
  PROVE  /\ Numbers(s) \in Seq(Nat) /\ Len(Numbers(s)) = Len(s) /\ Len(s) \in Nat
         /\ \A k \in 1 .. Len(s) : Numbers(s)[k] = s[k].nr
<1>1. Len(s) \in Nat /\ \A k \in 1 .. Len(s) : s[k] \in Messages
  BY LenProperties, ElementOfSeq
<1>2. \A k \in 1 .. Len(s) : s[k].nr \in Nat
  BY <1>1 DEF Messages
<1>3. Numbers(s) \in [1 .. Len(s) -> Nat]
  BY <1>2 DEF Numbers
<1>4. Numbers(s) \in Seq(Nat) /\ Len(Numbers(s)) = Len(s)
  BY <1>1, <1>3, SeqDef, LenProperties
<1>5. QED
  BY <1>1, <1>4 DEF Numbers

LEMMA NumbersOfNone == Numbers(<<>>) = <<>>
<1>1. <<>> \in Seq(Messages) /\ Len(<<>>) = 0
  OBVIOUS
<1>2. Numbers(<<>>) \in Seq(Nat) /\ Len(Numbers(<<>>)) = 0
  BY <1>1, NumbersAre
<1>3. QED
  BY <1>2, EmptySeq

LEMMA NumbersOfConcat ==
  ASSUME NEW s \in Seq(Messages), NEW t \in Seq(Messages)
  PROVE  Numbers(s \o t) = Numbers(s) \o Numbers(t)
<1> DEFINE a == Numbers(s)
           b == Numbers(t)
           c == Numbers(s \o t)
<1>1. /\ s \o t \in Seq(Messages) /\ Len(s \o t) = Len(s) + Len(t)
      /\ \A k \in 1 .. Len(s) + Len(t) :
           (s \o t)[k] = IF k <= Len(s) THEN s[k] ELSE t[k - Len(s)]
  BY ConcatProperties
<1>2. /\ a \in Seq(Nat) /\ Len(a) = Len(s) /\ Len(s) \in Nat
      /\ \A k \in 1 .. Len(s) : a[k] = s[k].nr
  BY NumbersAre
<1>3. /\ b \in Seq(Nat) /\ Len(b) = Len(t) /\ Len(t) \in Nat
      /\ \A k \in 1 .. Len(t) : b[k] = t[k].nr
  BY NumbersAre
<1>4. /\ c \in Seq(Nat) /\ Len(c) = Len(s) + Len(t)
      /\ \A k \in 1 .. Len(s) + Len(t) : c[k] = (s \o t)[k].nr
  BY <1>1, NumbersAre
<1> HIDE DEF a, b, c
<1>5. /\ a \o b \in Seq(Nat) /\ Len(a \o b) = Len(s) + Len(t)
      /\ \A k \in 1 .. Len(s) + Len(t) :
           (a \o b)[k] = IF k <= Len(s) THEN a[k] ELSE b[k - Len(s)]
  BY <1>2, <1>3, ConcatProperties
<1>6. ASSUME NEW k \in 1 .. Len(c) PROVE c[k] = (a \o b)[k]
  <2>1. k \in 1 .. Len(s) + Len(t) /\ k \in Int
    BY <1>2, <1>3, <1>4
  <2>2. CASE k <= Len(s)
    <3>1. k \in 1 .. Len(s)
      BY <1>2, <2>1, <2>2
    <3>2. QED
      BY <1>1, <1>2, <1>4, <1>5, <2>1, <2>2, <3>1
  <2>3. CASE ~(k <= Len(s))
    <3>1. k - Len(s) \in 1 .. Len(t)
      BY <1>2, <1>3, <2>1, <2>3
    <3>2. QED
      BY <1>1, <1>3, <1>4, <1>5, <2>1, <2>3, <3>1
  <2>4. QED
    BY <2>2, <2>3
<1>7. c = a \o b
  BY <1>4, <1>5, <1>6, SeqEqual
<1>8. QED
  BY <1>7 DEF a, b, c

LEMMA NumbersOfOne ==
  ASSUME NEW m \in Messages
  PROVE  <<m>> \in Seq(Messages) /\ Numbers(<<m>>) = <<m.nr>>
<1>1. m.nr \in Nat
  BY DEF Messages
<1>2. <<m>> \in Seq(Messages) /\ Len(<<m>>) = 1 /\ <<m>>[1] = m
  OBVIOUS
<1>3. Numbers(<<m>>) \in Seq(Nat) /\ Len(Numbers(<<m>>)) = 1 /\ Numbers(<<m>>)[1] = m.nr
  <2> DEFINE s == <<m>>
  <2>1. s \in Seq(Messages) /\ Len(s) = 1 /\ s[1] = m
    BY <1>2
  <2> HIDE DEF s
  <2>2. /\ Numbers(s) \in Seq(Nat) /\ Len(Numbers(s)) = 1
        /\ \A k \in 1 .. Len(s) : Numbers(s)[k] = s[k].nr
    BY <2>1, NumbersAre
  <2>3. 1 \in 1 .. Len(s)
    BY <2>1
  <2>4. Numbers(s)[1] = m.nr
    BY <2>1, <2>2, <2>3
  <2>5. QED
    BY <2>2, <2>4 DEF s
<1>4. <<m.nr>> \in Seq(Nat) /\ Len(<<m.nr>>) = 1 /\ <<m.nr>>[1] = m.nr
  BY <1>1
<1>5. \A k \in 1 .. 1 : Numbers(<<m>>)[k] = <<m.nr>>[k]
  <2> TAKE k \in 1 .. 1
  <2>1. k = 1
    OBVIOUS
  <2>2. QED
    BY <1>3, <1>4, <2>1
<1> DEFINE a == Numbers(<<m>>)
           b == <<m.nr>>
<1> HIDE DEF a, b
<1>6. a = b
  BY <1>3, <1>4, <1>5, SeqEqual DEF a, b
<1>7. QED
  BY <1>2, <1>6 DEF a, b

LEMMA NumbersOfAppend ==
  ASSUME NEW s \in Seq(Messages), NEW m \in Messages
  PROVE  Numbers(Append(s, m)) = Append(Numbers(s), m.nr)
<1>1. <<m>> \in Seq(Messages) /\ Numbers(<<m>>) = <<m.nr>> /\ m.nr \in Nat /\ Numbers(s) \in Seq(Nat)
  BY NumbersOfOne, NumbersAre DEF Messages
<1>2. Append(s, m) = s \o <<m>>
  BY AppendIsConcat
<1>3. Append(Numbers(s), m.nr) = Numbers(s) \o <<m.nr>>
  BY <1>1, AppendIsConcat
<1>4. Numbers(s \o <<m>>) = Numbers(s) \o Numbers(<<m>>)
  BY <1>1, NumbersOfConcat
<1>5. QED
  BY <1>1, <1>2, <1>3, <1>4

LEMMA NumbersOfTail ==
  ASSUME NEW s \in Seq(Messages), s # <<>>
  PROVE  /\ Numbers(s) # <<>> /\ Head(Numbers(s)) = Head(s).nr /\ Head(s) \in Messages
         /\ Numbers(Tail(s)) = Tail(Numbers(s))
<1> DEFINE a == Numbers(s)
           b == Numbers(Tail(s))
<1>1. /\ Head(s) \in Messages /\ Tail(s) \in Seq(Messages) /\ Len(Tail(s)) = Len(s) - 1
      /\ \A k \in 1 .. Len(Tail(s)) : Tail(s)[k] = s[k + 1]
  BY HeadTailProperties
<1>2. /\ a \in Seq(Nat) /\ Len(a) = Len(s) /\ Len(s) \in Nat
      /\ \A k \in 1 .. Len(s) : a[k] = s[k].nr
  BY NumbersAre
<1>3. /\ b \in Seq(Nat) /\ Len(b) = Len(Tail(s))
      /\ \A k \in 1 .. Len(Tail(s)) : b[k] = Tail(s)[k].nr
  BY <1>1, NumbersAre
<1>4. Len(s) # 0 /\ Head(s) = s[1]
  BY EmptySeq
<1> HIDE DEF a, b
<1>5. a # <<>> /\ Head(a) = a[1]
  BY <1>2, <1>4
<1>6. Head(a) = Head(s).nr
  BY <1>2, <1>4, <1>5
<1>7. /\ Tail(a) \in Seq(Nat) /\ Len(Tail(a)) = Len(a) - 1
      /\ \A k \in 1 .. Len(Tail(a)) : Tail(a)[k] = a[k + 1]
  BY <1>2, <1>5, HeadTailProperties
<1>8. ASSUME NEW k \in 1 .. Len(b) PROVE b[k] = Tail(a)[k]
  <2>1. k \in 1 .. Len(Tail(s)) /\ k \in 1 .. Len(Tail(a)) /\ k + 1 \in 1 .. Len(s)
    BY <1>1, <1>2, <1>3, <1>7
  <2>2. QED
    BY <1>1, <1>2, <1>3, <1>7, <2>1
<1>9. b = Tail(a)
  <2>1. Len(b) = Len(Tail(a))
    BY <1>1, <1>2, <1>3, <1>7
  <2>2. QED
    BY <1>3, <1>7, <1>8, <2>1, SeqEqual
<1>10. QED
  BY <1>1, <1>5, <1>6, <1>9 DEF a, b

-----------------------------------------------------------------------------
(* Each step moves the channels.                                              *)

AllMove == \A x \in Ends : Moves(x)

LEMMA QuietStays ==
  ASSUME NEW x \in Ends, conn'[x].irs = conn[x].irs, conn'[x].cur = conn[x].cur,
         conn'[x].rx = conn[x].rx \/ conn'[x].rx = <<>>, got'[x] = got[x],
         sent'[Peer(x)] = sent[Peer(x)]
  PROVE  Moves(x)
<1>1. SentTo(x)' = SentTo(x)
  BY DEF SentTo, SentIn
<1>2. Passed(x)' = Passed(x)
  BY DEF Passed
<1>3. ReadBy(x)' = ReadBy(x)
  BY DEF ReadBy, Numbers
<1>4. Queue(x)' \in {Queue(x), <<>>}
  <2>1. CASE conn'[x].rx = conn[x].rx
    BY <2>1 DEF Queue, Numbers
  <2>2. CASE conn'[x].rx = <<>>
    <3>1. Queue(x)' = Numbers(<<>>)
      BY <2>2 DEF Queue, Numbers
    <3>2. QED
      BY <3>1, NumbersOfNone
  <2>3. QED
    BY <2>1, <2>2
<1>5. QED
  BY <1>1, <1>2, <1>3, <1>4 DEF Moves, Stays

LEMMA MovesAt ==
  ASSUME TypeInv, NEW e \in Ends, NEW d, conn' = [conn EXCEPT ![e] = d],
         \A x \in Ends : x # e => got'[x] = got[x], sent' = sent, Moves(e)
  PROVE  AllMove
<1>1. ASSUME NEW x \in Ends, x # e PROVE Moves(x)
  <2>1. conn'[x] = conn[x]
    BY <1>1, SlotIs
  <2>2. QED
    BY <1>1, <2>1, QuietStays
<1>2. QED
  BY <1>1 DEF AllMove

LEMMA MovesQuietly ==
  ASSUME TypeInv, NEW e \in Ends, NEW d, conn' = [conn EXCEPT ![e] = d],
         d.irs = conn[e].irs, d.cur = conn[e].cur,
         d.rx = conn[e].rx \/ d.rx = <<>>, got' = got, sent' = sent
  PROVE  AllMove
<1>1. conn'[e] = d
  BY SlotIs
<1>2. Moves(e)
  BY <1>1, QuietStays
<1>3. QED
  BY <1>2, MovesAt

LEMMA MinorMoves ==
  ASSUME TypeInv, NEW e \in Ends, \E o : MinorStep(e, o)
  PROVE  AllMove
<1> DEFINE d == conn'[e]
<1>1. conn' = [conn EXCEPT ![e] = d] /\ d.irs = conn[e].irs /\ d.cur = conn[e].cur
      /\ (d.rx = conn[e].rx \/ d.rx = <<>>) /\ got' = got /\ sent' = sent
  BY DEF MinorStep, Minor
<1> HIDE DEF d
<1>2. QED
  BY <1>1, MovesQuietly

LEMMA TryConnectMoves ==
  ASSUME TypeInv, Connect \/ ConnectRetry
  PROVE  AllMove
<1> DEFINE d == StartConnect(conn["client"], Iss["client"][opens["client"] + 1])
<1>1. TryConnect /\ UNCHANGED <<sent, got>> /\ "client" \in Ends /\ opens \in [Ends -> Nat]
      /\ conn["client"] \in Conns
  BY DEF Connect, ConnectRetry, Ends, TypeInv, RestOK, ConnsOK
<1>2. opens'["client"] = opens["client"] + 1
  BY <1>1 DEF TryConnect
<1>3. conn' = [conn EXCEPT !["client"] = d]
  BY <1>1, <1>2 DEF TryConnect
<1>4. d.irs = conn["client"].irs /\ d.cur = conn["client"].cur /\ d.rx = conn["client"].rx
  BY <1>1 DEF StartConnect, Conns
<1> HIDE DEF d
<1>5. QED
  BY <1>1, <1>3, <1>4, MovesQuietly

LEMMA SendMoves ==
  ASSUME TypeInv, SendInv, NEW e \in Ends, Send(e)
  PROVE  AllMove
<1>1. conn \in [Ends -> Conns] /\ conn[e] \in Conns
  BY DEF TypeInv, ConnsOK
<1>2. /\ conn' = [conn EXCEPT ![e] = AfterSend(e)] /\ got' = got
      /\ sent' = [sent EXCEPT ![e] = @ \cup {Message(e, Sent(e) + 1)}]
  BY <1>1, SendSteps
<1>3. \A i : SentIn(e, i)' = IF i = conn[e].iss THEN Sent(e) + 1 ELSE SentIn(e, i)
  BY <1>2, SentOneMore
<1>4. \A x \in Ends : x # e => sent'[x] = sent[x]
  BY <1>2, SentOneMore
<1>5. \A x \in Ends : conn'[x].irs = conn[x].irs /\ conn'[x].cur = conn[x].cur
                      /\ conn'[x].rx = conn[x].rx
  <2>1. conn'[e] = AfterSend(e) /\ \A x \in Ends : x # e => conn'[x] = conn[x]
    BY <1>2, SlotIs
  <2>2. /\ AfterSend(e).irs = conn[e].irs /\ AfterSend(e).cur = conn[e].cur
        /\ AfterSend(e).rx = conn[e].rx
    BY <1>1 DEF AfterSend, Conns
  <2>3. QED
    BY <2>1, <2>2
<1>6. ASSUME NEW x \in Ends, Peer(x) # e PROVE Moves(x)
  <2>1. sent'[Peer(x)] = sent[Peer(x)]
    BY <1>4, <1>6, PeerIs
  <2>2. QED
    BY <1>2, <1>5, <2>1, QuietStays
<1>7. ASSUME NEW x \in Ends, Peer(x) = e PROVE Moves(x)
  <2>1. SentTo(x)' = Cardinality({m \in sent'[e] : m.from = conn[x].irs})
    BY <1>5, <1>7 DEF SentTo, SentIn
  <2>2. Cardinality({m \in sent'[e] : m.from = conn[x].irs})
          = IF conn[x].irs = conn[e].iss THEN Sent(e) + 1 ELSE SentIn(e, conn[x].irs)
    BY <1>3 DEF SentIn
  <2>3. SentTo(x) = SentIn(e, conn[x].irs)
    BY <1>7 DEF SentTo
  <2>4. SentTo(x)' = SentTo(x) + 1 \/ SentTo(x)' = SentTo(x)
    BY <2>1, <2>2, <2>3 DEF Sent
  <2>5. Passed(x)' = Passed(x)
    BY <1>5 DEF Passed
  <2>6. ReadBy(x)' = ReadBy(x)
    BY <1>2 DEF ReadBy, Numbers
  <2>7. Queue(x)' = Queue(x)
    BY <1>5 DEF Queue, Numbers
  <2>8. QED
    BY <2>4, <2>5, <2>6, <2>7 DEF Moves, Accepts, Stays
<1>8. QED
  BY <1>6, <1>7 DEF AllMove

LEMMA ReadMoves ==
  ASSUME TypeInv, NEW e \in Ends, Read(e)
  PROVE  AllMove
<1> DEFINE d == AfterRead(e)
<1>1. conn \in [Ends -> Conns] /\ conn[e] \in Conns /\ got \in [Ends -> Seq(Messages)]
      /\ conn[e].rx \in Seq(Messages) /\ got[e] \in Seq(Messages)
  BY DEF TypeInv, ConnsOK, RestOK, Conns
<1>2. /\ conn[e].rx # <<>> /\ conn' = [conn EXCEPT ![e] = d]
      /\ got' = [got EXCEPT ![e] = Append(@, Head(conn[e].rx))] /\ sent' = sent
  BY <1>1, ReadSteps
<1>3. d.irs = conn[e].irs /\ d.cur = conn[e].cur /\ d.rx = Tail(conn[e].rx)
  BY <1>1 DEF AfterRead, Conns
<1> HIDE DEF d
<1>4. conn'[e] = d /\ got'[e] = Append(got[e], Head(conn[e].rx))
      /\ \A x \in Ends : x # e => got'[x] = got[x]
  BY <1>1, <1>2, SlotIs
<1>5. conn'[e].irs = conn[e].irs /\ conn'[e].cur = conn[e].cur /\ conn'[e].rx = Tail(conn[e].rx)
  BY <1>3, <1>4
<1>6. SentTo(e)' = SentTo(e)
  BY <1>2, <1>5 DEF SentTo, SentIn
<1>7. Passed(e)' = Passed(e)
  BY <1>5 DEF Passed
<1>8. /\ Queue(e) # <<>> /\ Head(Queue(e)) = Head(conn[e].rx).nr /\ Head(conn[e].rx) \in Messages
      /\ Numbers(Tail(conn[e].rx)) = Tail(Queue(e))
  BY <1>1, <1>2, NumbersOfTail DEF Queue
<1>9. Queue(e)' = Tail(Queue(e))
  <2>1. Queue(e)' = Numbers(Tail(conn[e].rx))
    BY <1>5 DEF Queue, Numbers
  <2>2. QED
    BY <1>8, <2>1
<1>10. ReadBy(e)' = Append(ReadBy(e), Head(Queue(e)))
  <2>1. ReadBy(e)' = Numbers(Append(got[e], Head(conn[e].rx)))
    BY <1>4 DEF ReadBy, Numbers
  <2>2. Numbers(Append(got[e], Head(conn[e].rx))) = Append(Numbers(got[e]), Head(conn[e].rx).nr)
    BY <1>1, <1>8, NumbersOfAppend
  <2>3. QED
    BY <1>8, <2>1, <2>2 DEF ReadBy
<1>11. Moves(e)
  BY <1>6, <1>7, <1>8, <1>9, <1>10 DEF Moves, Reads
<1>12. QED
  BY <1>2, <1>4, <1>11, MovesAt

LEMMA BeginMoves ==
  ASSUME TypeInv, TypeInv', NEW e \in Ends, NEW d, conn' = [conn EXCEPT ![e] = d],
         \A x \in Ends : x # e => got'[x] = got[x], sent' = sent,
         d.cur = d.irs, got'[e] = <<>>, d.rx = <<>>
  PROVE  AllMove
<1>1. conn'[e] = d
  BY SlotIs
<1>2. d.irs \in Seqs
  BY <1>1 DEF TypeInv, ConnsOK, Conns
<1>3. Passed(e)' = 0
  <2>1. d.cur - d.irs = 0
    BY <1>2 DEF Seqs
  <2>2. 0 % M = 0
    BY ModSmall, SeqsAre
  <2>3. QED
    BY <1>1, <2>1, <2>2 DEF Passed
<1>4. Queue(e)' = <<>> /\ ReadBy(e)' = <<>>
  <2>1. Queue(e)' = Numbers(<<>>) /\ ReadBy(e)' = Numbers(<<>>)
    BY <1>1 DEF Queue, ReadBy, Numbers
  <2>2. QED
    BY <2>1, NumbersOfNone
<1>5. SentTo(e)' \in Nat
  <2>1. Peer(e) \in Ends /\ RestOK
    BY PeerIs DEF TypeInv
  <2>2. SentIn(Peer(e), d.irs) \in Nat
    BY <2>1, SentInIs
  <2>3. SentTo(e)' = SentIn(Peer(e), d.irs)
    BY <1>1 DEF SentTo, SentIn
  <2>4. QED
    BY <2>2, <2>3
<1>6. Moves(e)
  BY <1>3, <1>4, <1>5 DEF Moves, Begins
<1>7. QED
  BY <1>6, MovesAt

LEMMA SynMoves ==
  ASSUME TypeInv, TypeInv', NEW e \in Ends, NEW p \in net[e], SynInClosed(e, p)
  PROVE  AllMove
<1> DEFINE d == NewSlotSent(Iss[e][opens[e] + 1], p)
<1>1. p \in Sendable /\ got \in [Ends -> Seq(Messages)] /\ opens \in [Ends -> Nat]
  BY DEF TypeInv, NetOK, RestOK
<1>2. conn' = [conn EXCEPT ![e] = d] /\ got' = [got EXCEPT ![e] = <<>>] /\ sent' = sent
  BY <1>1, SynSteps DEF Take
<1>3. d.cur = d.irs /\ d.rx = <<>>
  BY DEF NewSlotSent, NewSlot, NoConn
<1> HIDE DEF d
<1>4. got'[e] = <<>> /\ \A x \in Ends : x # e => got'[x] = got[x]
  BY <1>1, <1>2
<1>5. QED
  BY <1>2, <1>3, <1>4, BeginMoves

LEMMA SynAckMoves ==
  ASSUME TypeInv, TypeInv', BeginInv, NEW e \in Ends, NEW p \in net[e], SynAckInSynSent(e, p)
  PROVE  AllMove
<1> DEFINE d == [conn[e] EXCEPT !.st = "open", !.cur = p.seq, !.irs = p.seq,
                                !.una = Plus(p.ack, 1)]
<1>1. conn[e] \in Conns
  BY DEF TypeInv, ConnsOK
<1>2. conn[e].st = "syn_sent" /\ conn' = [conn EXCEPT ![e] = d] /\ UNCHANGED <<sent, got>>
  BY DEF SynAckInSynSent, Take
<1>3. e = "client"
  BY <1>2 DEF BeginInv, Ends
<1>4. d.cur = d.irs /\ d.rx = conn[e].rx
  BY <1>1 DEF Conns
<1> HIDE DEF d
<1>5. got[e] = <<>> /\ conn[e].rx = <<>>
  BY <1>2, <1>3 DEF BeginInv
<1>6. got'[e] = <<>> /\ (\A x \in Ends : x # e => got'[x] = got[x]) /\ sent' = sent
      /\ d.rx = <<>>
  BY <1>2, <1>4, <1>5
<1>7. QED
  BY <1>2, <1>4, <1>6, BeginMoves

LEMMA KeptMoves ==
  ASSUME TypeInv, NEW e \in Ends, NEW p \in net[e], NewOutOfOrder(e, p),
         Take(e, p, Kept(e, p), {Eack(Kept(e, p))})
  PROVE  AllMove
<1> DEFINE c == Acked(conn[e], p)
           d == Kept(e, p)
<1>1. conn[e] \in Conns /\ UNCHANGED <<opens, sent, got>> /\ Accepted(e, p)
  BY DEF TypeInv, ConnsOK, NewOutOfOrder
<1>2. c.irs = conn[e].irs /\ c.cur = conn[e].cur /\ c.rx = conn[e].rx /\ c \in Conns
  <2>1. c \in Conns
    BY <1>1, AckMinor
  <2>2. QED
    BY <1>1, <2>1 DEF Acked, Conns
<1> HIDE DEF c
<1>3. d.irs = conn[e].irs /\ d.cur = conn[e].cur /\ d.rx = conn[e].rx
  <2>1. d = [c EXCEPT !.ooo = @ \cup {p}]
    BY DEF Kept, c
  <2> HIDE DEF d
  <2>2. QED
    BY <1>2, <2>1 DEF Conns
<1>4. conn' = [conn EXCEPT ![e] = d]
  BY DEF Take
<1> HIDE DEF d
<1>5. QED
  BY <1>1, <1>3, <1>4, MovesQuietly

LEMMA OneBefore ==
  ASSUME NEW h \in Seq(Messages), NEW w \in Seq(Messages), Len(h) = 1
  PROVE  /\ h \o w \in Seq(Messages) /\ Len(h \o w) = 1 + Len(w)
         /\ \A k \in 1 .. 1 + Len(w) : (h \o w)[k] = IF k <= 1 THEN h[k] ELSE w[k - 1]
<1>1. /\ h \o w \in Seq(Messages) /\ Len(h \o w) = Len(h) + Len(w)
      /\ \A k \in 1 .. Len(h) + Len(w) :
           (h \o w)[k] = IF k <= Len(h) THEN h[k] ELSE w[k - Len(h)]
  BY ConcatProperties
<1>2. QED
  BY <1>1

(* The messages that are passed together go to the queue in order.              *)
LEMMA QueueAfter ==
  ASSUME NEW s \in Seq(Messages), NEW m \in Messages, NEW w \in Seq(Messages), NEW n \in Nat,
         m.nr = n + 1, \A k \in 1 .. Len(w) : w[k].nr = (n + 1) + k
  PROVE  Numbers(Append(s, m) \o w) = Numbers(s) \o [i \in 1 .. 1 + Len(w) |-> n + i]
<1> DEFINE t == <<m>> \o w
           r == [i \in 1 .. 1 + Len(w) |-> n + i]
<1>1. <<m>> \in Seq(Messages) /\ Len(<<m>>) = 1 /\ <<m>>[1] = m /\ Len(w) \in Nat
  BY LenProperties
<1>2. /\ t \in Seq(Messages) /\ Len(t) = 1 + Len(w)
      /\ \A k \in 1 .. 1 + Len(w) : t[k] = IF k <= 1 THEN m ELSE w[k - 1]
  <2> DEFINE h == <<m>>
  <2>1. h \in Seq(Messages) /\ Len(h) = 1 /\ h[1] = m
    BY <1>1
  <2> HIDE DEF h
  <2>2. /\ h \o w \in Seq(Messages) /\ Len(h \o w) = 1 + Len(w)
        /\ \A k \in 1 .. 1 + Len(w) : (h \o w)[k] = IF k <= 1 THEN h[k] ELSE w[k - 1]
    BY <2>1, OneBefore
  <2>3. \A k \in 1 .. 1 + Len(w) : k <= 1 => k = 1
    BY <1>1
  <2>4. \A k \in 1 .. 1 + Len(w) : (h \o w)[k] = IF k <= 1 THEN m ELSE w[k - 1]
    BY <2>1, <2>2, <2>3
  <2>5. QED
    BY <2>2, <2>4 DEF h
<1>3. Append(s, m) \o w = s \o t
  <2>1. Append(s, m) = s \o <<m>>
    BY AppendIsConcat
  <2>2. (s \o <<m>>) \o w = s \o (<<m>> \o w)
    BY <1>1, ThreeParts
  <2>3. QED
    BY <2>1, <2>2
<1> HIDE DEF t
<1>4. Numbers(s \o t) = Numbers(s) \o Numbers(t)
  BY <1>2, NumbersOfConcat
<1>5. Numbers(t) = r
  <2>1. \A k \in 1 .. 1 + Len(w) : t[k].nr = n + k
    <3> TAKE k \in 1 .. 1 + Len(w)
    <3>1. CASE k = 1
      BY <1>1, <1>2, <3>1
    <3>2. CASE k # 1
      <4> DEFINE l == Len(w)
      <4>5. l \in Nat /\ k \in 1 .. 1 + l
        BY <1>1
      <4> HIDE DEF l
      <4>6. k - 1 \in 1 .. l /\ ~(k <= 1)
        BY <3>2, <4>5
      <4>7. (n + 1) + (k - 1) = n + k
        BY <4>5
      <4>1. k - 1 \in 1 .. Len(w) /\ ~(k <= 1) /\ (n + 1) + (k - 1) = n + k
        BY <4>6, <4>7 DEF l
      <4>2. w[k - 1].nr = (n + 1) + (k - 1)
        BY <4>1
      <4>3. t[k] = w[k - 1]
        BY <1>2, <4>1
      <4>4. QED
        BY <4>1, <4>2, <4>3
    <3>3. QED
      BY <3>1, <3>2
  <2>2. Numbers(t) = [k \in 1 .. 1 + Len(w) |-> t[k].nr]
    BY <1>2 DEF Numbers
  <2>3. QED
    BY <2>1, <2>2
<1>6. QED
  BY <1>3, <1>4, <1>5

LEMMA FlushedMoves ==
  ASSUME Apart, NumberInv, TypeInv', ReceiveInv, NEW e \in Ends, NEW p \in net[e],
         NewInOrder(e, p), Free(Acked(conn[e], p)) > 0,
         Take(e, p, AfterFlush(Received(e, p)), AckIfRoom(Received(e, p)))
  PROVE  AllMove
<1> DEFINE b == Received(e, p)
           n == Passed(e)
           F == Following(b)
           S == SentIn(Peer(e), conn[e].irs)
           w == Fitting(b)
           s == conn[e].rx
<1>1. TypeInv /\ UNCHANGED <<opens, sent, got>> /\ conn' = [conn EXCEPT ![e] = Flushed(e, p)]
      /\ s \in Seq(Messages) /\ Peer(e) \in Ends
  BY InOrderSteps, PeerIs DEF NumberInv, Take, Flushed, TypeInv, ConnsOK, Conns
<1>2. /\ ConnOK(b) /\ b.rx = Append(s, p.msg)
      /\ conn'[e].irs = conn[e].irs /\ conn'[e].rx = b.rx \o w
      /\ p.msg \in Messages /\ p.msg.nr = n + 1
      /\ n \in Nat /\ Len(F) \in Nat /\ Passed(e)' = (n + 1) + Len(F)
      /\ (n + 1) + Len(F) <= S
      /\ w \in Seq(Messages) /\ Len(w) \in Nat /\ Len(w) <= Len(F)
      /\ \A k \in 1 .. Len(w) : w[k].nr = (n + 1) + k
  BY FlushedPasses
<1>3. S \in Nat /\ SentTo(e) = S
  BY <1>1, SentInIs DEF SentTo, TypeInv
<1>4. SentTo(e)' = SentTo(e)
  BY <1>1, <1>2 DEF SentTo, SentIn
<1>5. ReadBy(e)' = ReadBy(e)
  BY <1>1 DEF ReadBy, Numbers
<1>6. /\ Len(w) = Smaller(Len(F), Free(b)) /\ Free(b) = RxLen - Len(b.rx) /\ Free(b) \in Nat
      /\ Len(b.rx) = Len(s) + 1 /\ Len(s) \in Nat /\ RxLen \in Nat /\ Len(Queue(e)) = Len(s)
  <2>1. Len(w) = Smaller(Len(F), Free(b)) /\ Free(b) = RxLen - Len(b.rx) /\ Free(b) \in Nat
    BY <1>2, FittingIs
  <2>2. Len(b.rx) = Len(s) + 1
    BY <1>1, <1>2, AppendProperties
  <2>3. Len(s) \in Nat /\ Len(Queue(e)) = Len(s) /\ RxLen \in Nat
    BY <1>1, NumbersAre, RdpAssumption DEF Queue
  <2>4. QED
    BY <2>1, <2>2, <2>3
<1>7. Queue(e)' = Queue(e) \o [i \in 1 .. 1 + Len(w) |-> n + i]
  <2>1. Queue(e)' = Numbers(Append(s, p.msg) \o w)
    BY <1>2 DEF Queue, Numbers
  <2> HIDE DEF b, n, F, S, w, s
  <2>2. Numbers(Append(s, p.msg) \o w) = Numbers(s) \o [i \in 1 .. 1 + Len(w) |-> n + i]
    BY <1>1, <1>2, QueueAfter
  <2>3. Queue(e) = Numbers(s)
    BY DEF Queue, s
  <2>4. QED
    BY <2>1, <2>2, <2>3
<1> HIDE DEF b, n, F, S, w, s
<1>8. 1 + Len(F) \in 1 .. SentTo(e) - n /\ 1 + Len(w) \in 1 .. 1 + Len(F)
      /\ n + (1 + Len(F)) <= SentTo(e) /\ (n + 1) + Len(F) = n + (1 + Len(F))
  BY <1>2, <1>3
<1>9. Len(s) + (1 + Len(w)) <= RxLen /\ (1 + Len(w) < 1 + Len(F) => Len(s) + (1 + Len(w)) = RxLen)
  BY <1>2, <1>6 DEF Smaller
<1>10. Passes(e)
  <2>1. n = Passed(e)
    BY DEF n
  <2> DEFINE j == 1 + Len(F)
             k == 1 + Len(w)
  <2>2. j \in 1 .. SentTo(e) - Passed(e) /\ k \in 1 .. j
    BY <1>8, <2>1
  <2>3. /\ Passed(e) + j <= SentTo(e)
        /\ k < j => Len(Queue(e)) + k = RxLen
        /\ Len(Queue(e)) + k <= RxLen
        /\ Passed(e)' = Passed(e) + j
        /\ Queue(e)' = Queue(e) \o [i \in 1 .. k |-> Passed(e) + i]
        /\ SentTo(e)' = SentTo(e) /\ ReadBy(e)' = ReadBy(e)
    BY <1>2, <1>4, <1>5, <1>6, <1>7, <1>8, <1>9, <2>1
  <2> HIDE DEF j, k
  <2>4. QED
    BY <2>2, <2>3 DEF Passes
<1>11. Moves(e)
  BY <1>10 DEF Moves
<1>12. QED
  BY <1>1, <1>11, MovesAt

LEMMA RouterMoves ==
  ASSUME Apart, OrderInv, TypeInv', NEW e \in Ends, NewPacket(e)
  PROVE  AllMove
<1>1. NumberInv /\ ReceiveInv /\ TypeInv /\ BeginInv
  BY DEF OrderInv, NumberInv
<1>2. PICK p \in net[e] :
        \/ DropClosed(e, p) \/ RefuseInClosed(e, p) \/ SynInClosed(e, p)
        \/ NewReset(e, p)
        \/ SynAckInSynSent(e, p) \/ HalfOpen(e, p)
        \/ SynInOpen(e, p) \/ OutOfWindow(e, p) \/ BadAck(e, p) \/ WrongSynAck(e, p)
        \/ NewAck(e, p) \/ NewOutOfOrder(e, p) \/ NewInOrder(e, p)
        \/ NewInCloseWait(e, p)
  BY DEF NewPacket
<1>3. CASE DropClosed(e, p) \/ RefuseInClosed(e, p)
  BY <1>1, <1>3, RefusalsMinor, MinorMoves
<1>4. CASE SynInClosed(e, p)
  BY <1>1, <1>4, SynMoves
<1>5. CASE NewReset(e, p)
  BY <1>1, <1>5, ResetMinor, MinorMoves
<1>6. CASE SynAckInSynSent(e, p)
  BY <1>1, <1>6, SynAckMoves
<1>7. CASE \/ HalfOpen(e, p) \/ SynInOpen(e, p) \/ WrongSynAck(e, p)
           \/ BadAck(e, p) \/ NewInCloseWait(e, p)
  BY <1>1, <1>7, AnswersMinor, MinorMoves
<1>8. CASE OutOfWindow(e, p)
  BY <1>1, <1>8, OutOfWindowMinor, MinorMoves
<1>9. CASE NewAck(e, p)
  BY <1>1, <1>9, NewAckMinor, MinorMoves
<1>10. CASE NewOutOfOrder(e, p)
  BY <1>1, <1>10, OutOfOrderMinor, MinorMoves, KeptMoves
<1>11. CASE NewInOrder(e, p)
  BY <1>1, <1>11, InOrderMinor, MinorMoves, FlushedMoves
<1>12. QED
  BY <1>2, <1>3, <1>4, <1>5, <1>6, <1>7, <1>8, <1>9, <1>10, <1>11

LEMMA StepMoves ==
  ASSUME Apart, OrderInv, TypeInv', [Next]_vars
  PROVE  AllMove
<1>1. NumberInv /\ ReceiveInv /\ TypeInv /\ SendInv /\ "client" \in Ends
  BY DEF OrderInv, NumberInv, Ends
<1>2. CASE Connect \/ ConnectRetry
  BY <1>1, <1>2, TryConnectMoves
<1>3. CASE ConnectDone \/ ConnectGiveUp \/ ConnectFail
  BY <1>1, <1>3, ConnectsMinor, MinorMoves
<1>4. ASSUME NEW e \in Ends,
             Send(e) \/ Read(e) \/ Close(e) \/ ConnTimeout(e) \/ CheckTimeouts(e)
      PROVE  AllMove
  BY <1>1, <1>4, SendMoves, ReadMoves, ClosesMinor, TimeoutMinor, MinorMoves
<1>5. ASSUME NEW e \in Ends, NewPacket(e) PROVE AllMove
  BY <1>5, RouterMoves
<1>6. CASE UNCHANGED vars
  <2>1. conn' = conn /\ got' = got /\ sent' = sent
    BY <1>6 DEF vars
  <2>2. \A x \in Ends : Moves(x)
    BY <2>1, QuietStays
  <2>3. QED
    BY <2>2 DEF AllMove
<1>7. QED
  BY <1>2, <1>3, <1>4, <1>5, <1>6 DEF Next

-----------------------------------------------------------------------------
(* Each direction begins and moves as an ordered channel does.                 *)

LEMMA InitChannels == Init => ToServer!Init /\ ToClient!Init
<1> SUFFICES ASSUME Init PROVE ToServer!Init /\ ToClient!Init
  OBVIOUS
<1>1. TypeInv /\ "client" \in Ends /\ "server" \in Ends
  BY TypeInit DEF Ends
<1>2. ASSUME NEW e \in Ends
      PROVE  /\ SentIn(Peer(e), conn[e].irs) = 0 /\ Passed(e) = 0
             /\ Numbers(conn[e].rx) = <<>> /\ Numbers(got[e]) = <<>>
  <2>1. /\ conn[e] \in {NoConn, StaleConn} /\ conn[e] \in Conns
        /\ got[e] = <<>> /\ Peer(e) \in Ends /\ \A x \in Ends : sent[x] = {}
    BY <1>1, PeerIs DEF Init, TypeInv, ConnsOK
  <2>2. conn[e].cur = conn[e].irs /\ conn[e].rx = <<>>
    <3>1. NoConn.cur = NoConn.irs /\ NoConn.rx = <<>>
      BY DEF NoConn
    <3>2. StaleConn.cur = StaleConn.irs /\ StaleConn.rx = <<>>
      BY DEF NoConn, StaleConn
    <3>3. QED
      BY <2>1, <3>1, <3>2
  <2>3. SentIn(Peer(e), conn[e].irs) = 0
    <3>1. {m \in sent[Peer(e)] : m.from = conn[e].irs} = {}
      BY <2>1
    <3>2. QED
      BY <3>1, FS_EmptySet DEF SentIn
  <2>4. Passed(e) = 0
    <3>1. conn[e].irs \in Seqs /\ conn[e].cur - conn[e].irs = 0
      BY <2>1, <2>2 DEF Conns, Seqs
    <3>2. 0 % M = 0
      BY ModSmall, SeqsAre
    <3>3. QED
      BY <3>1, <3>2 DEF Passed
  <2>5. QED
    BY <2>1, <2>2, <2>3, <2>4, NumbersOfNone
<1>3. Peer("client") = "server" /\ Peer("server") = "client"
  BY DEF Peer
<1>4. ToServer!Init
  BY <1>1, <1>2, <1>3 DEF ToServer!Init, Apart
<1>5. ToClient!Init
  BY <1>1, <1>2, <1>3 DEF ToClient!Init, Apart
<1>6. QED
  BY <1>4, <1>5

LEMMA MovesToServer ==
  ASSUME Moves("server"), Apart, Apart'
  PROVE  [ToServer!Next]_(ToServer!chanVars)
<1>1. Peer("server") = "client"
  BY DEF Peer
<1>2. /\ SentTo("server") = SentIn("client", conn["server"].irs)
      /\ SentTo("server")' = SentIn("client", conn["server"].irs)'
  BY <1>1 DEF SentTo, SentIn
<1>3. /\ Queue("server") = Numbers(conn["server"].rx)
      /\ Queue("server")' = Numbers(conn["server"].rx)'
      /\ ReadBy("server") = Numbers(got["server"])
      /\ ReadBy("server")' = Numbers(got["server"])'
  BY DEF Queue, ReadBy, Numbers
<1>4. CASE Stays("server")
  BY <1>2, <1>3, <1>4 DEF Stays, ToServer!Next, ToServer!Promised, ToServer!Stop, ToServer!chanVars
<1>5. CASE Accepts("server")
  BY <1>2, <1>3, <1>5 DEF Accepts, ToServer!Next, ToServer!Promised, ToServer!Accept
<1>6. CASE Passes("server")
  BY <1>2, <1>3, <1>6 DEF Passes, ToServer!Next, ToServer!Promised, ToServer!Pass, ToServer!PassTogether
<1>7. CASE Reads("server")
  BY <1>2, <1>3, <1>7 DEF Reads, ToServer!Next, ToServer!Promised, ToServer!Read
<1>8. CASE Begins("server")
  BY <1>2, <1>3, <1>8 DEF Begins, ToServer!Next, ToServer!Promised, ToServer!NewConnection
<1>9. QED
  BY <1>4, <1>5, <1>6, <1>7, <1>8 DEF Moves

LEMMA MovesToClient ==
  ASSUME Moves("client"), Apart, Apart'
  PROVE  [ToClient!Next]_(ToClient!chanVars)
<1>1. Peer("client") = "server"
  BY DEF Peer
<1>2. /\ SentTo("client") = SentIn("server", conn["client"].irs)
      /\ SentTo("client")' = SentIn("server", conn["client"].irs)'
  BY <1>1 DEF SentTo, SentIn
<1>3. /\ Queue("client") = Numbers(conn["client"].rx)
      /\ Queue("client")' = Numbers(conn["client"].rx)'
      /\ ReadBy("client") = Numbers(got["client"])
      /\ ReadBy("client")' = Numbers(got["client"])'
  BY DEF Queue, ReadBy, Numbers
<1>4. CASE Stays("client")
  BY <1>2, <1>3, <1>4 DEF Stays, ToClient!Next, ToClient!Promised, ToClient!Stop, ToClient!chanVars
<1>5. CASE Accepts("client")
  BY <1>2, <1>3, <1>5 DEF Accepts, ToClient!Next, ToClient!Promised, ToClient!Accept
<1>6. CASE Passes("client")
  BY <1>2, <1>3, <1>6 DEF Passes, ToClient!Next, ToClient!Promised, ToClient!Pass, ToClient!PassTogether
<1>7. CASE Reads("client")
  BY <1>2, <1>3, <1>7 DEF Reads, ToClient!Next, ToClient!Promised, ToClient!Read
<1>8. CASE Begins("client")
  BY <1>2, <1>3, <1>8 DEF Begins, ToClient!Next, ToClient!Promised, ToClient!NewConnection
<1>9. QED
  BY <1>4, <1>5, <1>6, <1>7, <1>8 DEF Moves

LEMMA ChannelSteps ==
  ASSUME OrderedSoFar, TypeInv', [Next]_vars
  PROVE  [ToServer!Next]_(ToServer!chanVars) /\ [ToClient!Next]_(ToClient!chanVars)
<1>1. CASE ~Apart'
  BY <1>1 DEF ToServer!Next, ToClient!Next
<1>2. CASE Apart'
  <2>1. Apart
    BY <1>2, ApartBefore DEF OrderedSoFar
  <2>2. AllMove
    BY <2>1, StepMoves DEF OrderedSoFar
  <2>3. Moves("server") /\ Moves("client")
    BY <2>2 DEF AllMove, Ends
  <2>4. QED
    BY <1>2, <2>1, <2>3, MovesToServer, MovesToClient
<1>3. QED
  BY <1>1, <1>2

(* Each direction of a connection is an ordered channel, for any initial numbers,  *)
(* and in whatever way the links lose, repeat and reorder: what                     *)
(* csp_rdp_receive_data and the flush of csp_rdp_rx_queue_flush pass to the receive  *)
(* queue, and what csp_read takes from it, are the messages that csp_rdp_send        *)
(* accepted, in order and each once, and a message is lost only at a queue that is   *)
(* full; until an end draws a number too close to one it has had.                 *)
THEOREM ChannelsInOrder == Spec => ImplementsChannels
<1>1. Init => ToServer!Init /\ ToClient!Init
  BY InitChannels
<1>2. OrderedSoFar => TypeInv
  BY DEF OrderedSoFar
<1>3. OrderedSoFar' => TypeInv'
  BY <1>2, PTL
<1>4. OrderedSoFar /\ OrderedSoFar' /\ [Next]_vars =>
        [ToServer!Next]_(ToServer!chanVars) /\ [ToClient!Next]_(ToClient!chanVars)
  BY <1>3, ChannelSteps
<1>5. QED
  BY <1>1, <1>4, OrderedSoFarAlways, PTL
  DEF Spec, ImplementsChannels, ToServer!Spec, ToClient!Spec

-----------------------------------------------------------------------------
(***************************************************************************)
(* Nothing accepted is lost while both ends are in the connection.          *)
(***************************************************************************)

(* How far the numbers of a connection reach.                                 *)
Reach(e) == MaxSend[e] + 2 * W

(* The server is in the connection of the client's present number, and the      *)
(* client in that of the server's, or about to be.                             *)
Near ==
  /\ conn["server"].st \in {"syn_rcvd", "open"} /\ conn["server"].irs = conn["client"].iss
  /\ \/ conn["client"].st = "syn_sent"
     \/ conn["client"].st = "open" /\ conn["client"].irs = conn["server"].iss

(* Whether p may be a packet of the connection in which e has the number i.      *)
Bears(e, i, p) ==
  IF HasSyn(p) THEN p.seq = i ELSE \E m \in 1 .. Reach(e) : p.seq = Plus(i, m)

(* e's peer has the message of e with number y.                                *)
Got(e, y) ==
  \E n \in 1 .. Sent(e) :
    /\ y = Plus(conn[e].iss, n)
    /\ n <= Passed(Peer(e)) \/ \E r \in conn[Peer(e)].ooo : r.msg = Message(e, n)

(* What p acknowledges of e's messages its peer has.                            *)
Told(e, p) ==
  /\ \E k \in 0 .. Passed(Peer(e)) : p.ack = Plus(conn[e].iss, k)
  /\ \A y \in p.eacks : Got(e, y)

(* An acknowledgement the client's timer sends in SYN_SENT: of nothing.          *)
Early(p) == p.seq = Plus(conn["client"].iss, 1) /\ p.ack = 0 /\ p.eacks = {}

Acks(e) ==
  \A p \in net[e] :
    HasAck(p) /\ Bears(Peer(e), conn[Peer(e)].iss, p) => Told(e, p) \/ (e = "server" /\ Early(p))

(* Where snd_una is: after what the peer has passed, or, when the server has     *)
(* taken such an acknowledgement, at 1.                                        *)
UnaOK(e) ==
  conn[e].st = "open" /\ ~conn[e].skewed =>
    \/ \E k \in 0 .. Passed(Peer(e)) : conn[e].una = Plus(conn[e].iss, k + 1)
    \/ e = "server" /\ conn[e].una = 1 /\ conn[e].iss <= 2 * W

HeldOne(e, n) ==
  \/ \E p \in conn[e].tx \cup conn[Peer(e)].ooo : p.msg = Message(e, n)
  \/ n <= Passed(Peer(e))

Held(e) == ~conn[e].skewed => \A n \in 1 .. Sent(e) : HeldOne(e, n)

(* The server sends nothing before it has the first message.                    *)
FirstOK ==
  /\ conn["server"].sock => Sent("server") = 0
  /\ ~conn["server"].sock => Passed("server") > 0

NearInv == Near => FirstOK /\ \A e \in Ends : Acks(e) /\ UnaOK(e) /\ Held(e)

RcvdInv == conn["server"].st = "syn_rcvd" => Sent("server") = 0

ControlKinds == {"ack", "eack", "rstack"}

(* A control message has a number its sender has used, and what is kept for      *)
(* retransmission names nothing.                                               *)
SaidOK(e, p) ==
  p.kind \in ControlKinds =>
    \E x \in Used(e) : \E m \in 1 .. MaxSend[e] + 1 : p.seq = Plus(x, m)

CopyOK(p) ==
  p.kind \in {"data", "syn", "synack"} /\ p.eacks = {} /\ (p.msg \in Messages => p.kind = "data")

SaidInv ==
  \A e \in Ends :
    /\ \A p \in net[Peer(e)] : SaidOK(e, p)
    /\ \A p \in conn[e].tx : CopyOK(p)

(* Before the client is in a connection.                                      *)
EarlyInv ==
  /\ opens["client"] = 0 \/ conn["client"].st = "syn_sent" =>
       sent["client"] = {} /\ conn["client"].irs = 0 /\ conn["client"].cur = 0
  /\ conn["client"].st = "syn_sent" =>
       /\ \A p \in conn["client"].tx : ~HasAck(p)
       /\ \A p \in net["server"] :
            HasAck(p) /\ Bears("client", conn["client"].iss, p) => Early(p)

(* Whose number an end in a connection has: one its peer has used, or, in a      *)
(* connection left over, the one before the first.                             *)
HeardInv ==
  /\ conn["client"].st = "open" => conn["client"].irs \in Used("server")
  /\ conn["server"].st \in {"syn_rcvd", "open"} =>
       conn["server"].irs \in Used("client") \cup {Plus(Iss["client"][1], M - 1)}

KeptInv == NearInv /\ RcvdInv /\ SaidInv /\ EarlyInv /\ HeardInv

-----------------------------------------------------------------------------
(* The steps that neither begin a connection, send a message nor accept a        *)
(* packet: what they say, and what they leave of the slot.                       *)

Says(c, q) ==
  /\ q.kind \in ControlKinds => c.up /\ q.seq = c.nxt
  /\ HasAck(q) => q.ack \in {c.cur, c.irs} /\ \A y \in q.eacks : \E r \in c.ooo : r.seq = y
  /\ c.st = "syn_sent" /\ HasAck(q) =>
       q.kind \in ControlKinds /\ q.ack = c.cur /\ q.eacks = {}

SameSlot(c, d) ==
  /\ d.st = c.st /\ d.iss = c.iss /\ d.irs = c.irs /\ d.cur = c.cur
  /\ d.ooo = c.ooo /\ d.sock = c.sock

Quiet(c, d) == SameSlot(c, d) /\ d.tx = c.tx /\ d.una = c.una /\ d.skewed = c.skewed

Skews(c, d) == SameSlot(c, d) /\ d.tx = c.tx /\ d.skewed = TRUE

Drops(c, d) == SameSlot(c, d) /\ d.tx = Unacked(c) /\ d.una = c.una /\ d.skewed = c.skewed

Ended(c, d) ==
  /\ d.st \in {"closed", "close_wait"}
  /\ d.iss = c.iss /\ d.irs = c.irs /\ d.cur = c.cur /\ d.tx \subseteq c.tx

Plain(c, d) == Quiet(c, d) \/ Skews(c, d) \/ Drops(c, d) \/ Ended(c, d)

PlainStep(e, outs) ==
  /\ conn' = [conn EXCEPT ![e] = conn'[e]]
  /\ Plain(conn[e], conn'[e])
  /\ Passing(e, outs)
  /\ \A q \in outs : Says(conn[e], q)
  /\ UNCHANGED <<opens, sent>>

LEMMA PlainTaken ==
  ASSUME TypeInv, NEW e \in Ends, NEW p, NEW d, NEW outs, Take(e, p, d, outs),
         Plain(conn[e], d), \A q \in outs : Says(conn[e], q), UNCHANGED <<opens, sent>>
  PROVE  \E o : PlainStep(e, o)
<1>1. conn' = [conn EXCEPT ![e] = d] /\ conn'[e] = d
  BY DEF Take, TypeInv, ConnsOK
<1>2. Passing(e, outs)
  BY NetExchanged DEF Take, TypeInv
<1>3. PlainStep(e, outs)
  BY <1>1, <1>2 DEF PlainStep
<1>4. QED
  BY <1>3

LEMMA PlainTransmitted ==
  ASSUME TypeInv, NEW e \in Ends, NEW d, NEW outs, conn' = [conn EXCEPT ![e] = d],
         Transmit(e, outs), Plain(conn[e], d), \A q \in outs : Says(conn[e], q),
         UNCHANGED <<opens, sent>>
  PROVE  \E o : PlainStep(e, o)
<1>1. conn'[e] = d
  BY DEF TypeInv, ConnsOK
<1>2. Passing(e, outs)
  BY NetTransmitted DEF TypeInv
<1>3. PlainStep(e, outs)
  BY <1>1, <1>2 DEF PlainStep
<1>4. QED
  BY <1>3

LEMMA PlainSelf == ASSUME NEW c PROVE Plain(c, c)
BY DEF Plain, Quiet, SameSlot

(* A control message is made of c, or of a slot like it.                        *)
LEMMA SaysControl ==
  ASSUME NEW c, NEW b, c.up, b.nxt = c.nxt, b.cur = c.cur, NEW kind \in ControlKinds
  PROVE  Says(c, Control(kind, b))
BY DEF Says, Control, Packet, ControlKinds

LEMMA SaysReset == ASSUME NEW c, NEW b PROVE Says(c, Control("rst", b))
BY DEF Says, Control, Packet, HasAck, ControlKinds

LEMMA SaysEack ==
  ASSUME NEW c, c.up, c.st # "syn_sent"
  PROVE  Says(c, Eack(c))
<1>1. Eack(c).kind = "eack" /\ Eack(c).seq = c.nxt /\ Eack(c).ack = c.cur
      /\ Eack(c).eacks = {p.seq : p \in c.ooo}
  BY DEF Eack, Control, Packet
<1>2. QED
  BY <1>1 DEF Says

LEMMA SaysSynAck ==
  ASSUME NEW c, c.st # "syn_sent"
  PROVE  Says(c, SynAckPacket(c))
BY DEF Says, SynAckPacket, Packet, ControlKinds

LEMMA SaysResets ==
  ASSUME NEW c, c.up
  PROVE  /\ \A q \in ResetOnClose(c) : Says(c, q)
         /\ \A q \in ResetOnDiscard(c) : Says(c, q)
<1>1. Says(c, Control("rstack", c))
  BY SaysControl DEF ControlKinds
<1>2. QED
  BY <1>1 DEF ResetOnClose, ResetOnDiscard

LEMMA SaysAckIfRoom ==
  ASSUME NEW c, NEW b, c.up, b.nxt = c.nxt, b.cur = c.cur
  PROVE  \A q \in AckIfRoom(b) : Says(c, q)
<1>1. Says(c, Control("ack", b))
  BY SaysControl DEF ControlKinds
<1>2. QED
  BY <1>1 DEF AckIfRoom

LEMMA ClosedEnds ==
  ASSUME NEW c \in Conns
  PROVE  /\ Plain(c, Closed(c)) /\ Plain(c, AfterClose(c)) /\ Plain(c, AfterDiscard(c))
<1>1. Ended(c, Closed(c)) /\ Ended(c, [c EXCEPT !.st = "close_wait"])
  BY DEF Ended, Closed, Conns
<1>2. QED
  BY <1>1, PlainSelf DEF Plain, AfterClose, AfterDiscard

LEMMA ConnectsPlain ==
  ASSUME TypeInv, ConnectDone \/ ConnectGiveUp \/ ConnectFail
  PROVE  \E o : PlainStep("client", o)
<1>1. "client" \in Ends /\ conn \in [Ends -> Conns] /\ conn["client"] \in Conns
  BY DEF Ends, TypeInv, ConnsOK
<1>2. Passing("client", {})
  BY <1>1 DEF ConnectDone, ConnectGiveUp, ConnectFail, Passing, TypeInv, NetOK
<1>3. conn'["client"] \in {conn["client"], Closed(conn["client"])}
  BY <1>1 DEF ConnectDone, ConnectGiveUp, ConnectFail
<1>4. Plain(conn["client"], conn'["client"])
  BY <1>1, <1>3, PlainSelf, ClosedEnds
<1>5. conn' = [conn EXCEPT !["client"] = conn'["client"]]
  BY <1>1 DEF ConnectDone, ConnectGiveUp, ConnectFail
<1>6. PlainStep("client", {})
  BY <1>2, <1>4, <1>5 DEF PlainStep, ConnectDone, ConnectGiveUp, ConnectFail
<1>7. QED
  BY <1>6

LEMMA ClosesPlain ==
  ASSUME TypeInv, NEW e \in Ends, Close(e) \/ ConnTimeout(e)
  PROVE  \E o : PlainStep(e, o)
<1>1. conn' = [conn EXCEPT ![e] = AfterClose(conn[e])] /\ Transmit(e, ResetOnClose(conn[e]))
      /\ UNCHANGED <<opens, sent>> /\ conn[e].up
  BY DEF Close, ConnTimeout, Holds
<1>2. Plain(conn[e], AfterClose(conn[e]))
  BY ClosedEnds DEF TypeInv, ConnsOK
<1>3. QED
  BY <1>1, <1>2, SaysResets, PlainTransmitted

LEMMA ReadPlain ==
  ASSUME TypeInv, NEW e \in Ends, Read(e)
  PROVE  \E o : PlainStep(e, o)
<1>1. conn[e] \in Conns /\ conn \in [Ends -> Conns] /\ got \in [Ends -> Seq(Messages)]
  BY DEF TypeInv, ConnsOK, RestOK
<1>2. conn' = [conn EXCEPT ![e] = AfterRead(e)] /\ Transmit(e, AckIfRoom(AfterRead(e)))
      /\ UNCHANGED <<opens, sent>> /\ conn[e].up
  BY <1>1, ReadSteps
<1>3. Quiet(conn[e], AfterRead(e)) /\ AfterRead(e).nxt = conn[e].nxt
      /\ AfterRead(e).cur = conn[e].cur
  BY <1>1 DEF AfterRead, Quiet, SameSlot, Conns
<1>4. \A q \in AckIfRoom(AfterRead(e)) : Says(conn[e], q)
  BY <1>2, <1>3, SaysAckIfRoom
<1>5. Plain(conn[e], AfterRead(e))
  BY <1>3 DEF Plain
<1>6. QED
  BY <1>2, <1>4, <1>5, PlainTransmitted

LEMMA ResentSays ==
  ASSUME TypeInv, BeginInv, SaidInv, EarlyInv, NEW e \in Ends, conn[e].up, NEW q \in Resent(e)
  PROVE  Says(conn[e], q)
<1>1. CASE q \in AckIfRoom(conn[e])
  BY <1>1, SaysAckIfRoom
<1>2. CASE q \notin AckIfRoom(conn[e])
  <2>1. PICK p \in Unacked(conn[e]) :
          q = IF HasAck(p) THEN [p EXCEPT !.ack = conn[e].cur] ELSE p
    BY <1>2 DEF Resent
  <2>2. p \in conn[e].tx /\ p \in Packets
    BY <2>1 DEF Unacked, TypeInv, ConnsOK, ConnOK, Sendable
  <2>3. CopyOK(p)
    BY <2>2 DEF SaidInv
  <2>4. q.kind = p.kind /\ q.eacks = {} /\ (HasAck(p) => q.ack = conn[e].cur)
    BY <2>1, <2>2, <2>3 DEF Packets, CopyOK
  <2>5. q.kind \notin ControlKinds
    BY <2>3, <2>4 DEF CopyOK, ControlKinds
  <2>6. HasAck(q) <=> HasAck(p)
    BY <2>4 DEF HasAck
  <2>7. conn[e].st = "syn_sent" => ~HasAck(p)
    BY <2>2 DEF EarlyInv, BeginInv, Ends
  <2>8. QED
    BY <2>4, <2>5, <2>6, <2>7 DEF Says
<1>3. QED
  BY <1>1, <1>2

LEMMA TimeoutPlain ==
  ASSUME TypeInv, BeginInv, SaidInv, EarlyInv, NEW e \in Ends, CheckTimeouts(e)
  PROVE  \E o : PlainStep(e, o)
<1>1. conn \in [Ends -> Conns] /\ conn[e] \in Conns
  BY DEF TypeInv, ConnsOK
<1> DEFINE d == [conn[e] EXCEPT !.tx = Unacked(conn[e])]
<1>2. conn[e].up /\ conn' = [conn EXCEPT ![e] = d] /\ Transmit(e, Resent(e))
      /\ UNCHANGED <<opens, sent>>
  BY <1>1, TimeoutSteps
<1>3. Drops(conn[e], d)
  BY <1>1 DEF Drops, SameSlot, Conns
<1>4. Plain(conn[e], d)
  BY <1>3 DEF Plain
<1>5. \A q \in Resent(e) : Says(conn[e], q)
  BY <1>2, ResentSays
<1> HIDE DEF d
<1>6. QED
  BY <1>2, <1>4, <1>5, PlainTransmitted

LEMMA RefusalsPlain ==
  ASSUME TypeInv, NEW e \in Ends, NEW p \in net[e], DropClosed(e, p) \/ RefuseInClosed(e, p)
  PROVE  \E o : PlainStep(e, o)
<1>1. conn' = conn /\ UNCHANGED <<opens, sent>>
  BY DEF DropClosed, RefuseInClosed
<1>2. Exchange(e, p, {}) \/ Exchange(e, p, {Control("rst", conn[e])})
  BY DEF DropClosed, RefuseInClosed
<1>3. Take(e, p, conn[e], {}) \/ Take(e, p, conn[e], {Control("rst", conn[e])})
  BY <1>1, <1>2 DEF Take, TypeInv, ConnsOK
<1>4. QED
  BY <1>1, <1>3, PlainSelf, PlainTaken, SaysReset

LEMMA ResetPlain ==
  ASSUME TypeInv, NEW e \in Ends, NEW p \in net[e], NewReset(e, p)
  PROVE  \E o : PlainStep(e, o)
<1> DEFINE a == conn[e]
           c == [a EXCEPT !.una = IF HasAck(p) THEN Plus(p.ack, 1) ELSE @]
           waiting == [c EXCEPT !.st = "close_wait"]
           skewed == [c EXCEPT !.skewed = @ \/ HasAck(p)]
<1>1. a \in Conns /\ a.up /\ UNCHANGED <<opens, sent>>
  BY DEF TypeInv, ConnsOK, NewReset
<1>2. \/ a.st = "close_wait" /\ Take(e, p, Closed(c), {})
      \/ Take(e, p, AfterDiscard(waiting), {Control("rstack", c)})
      \/ Take(e, p, skewed, {})
  BY <1>1 DEF NewReset, Conns
<1>3. c.nxt = a.nxt /\ c.cur = a.cur
  BY <1>1 DEF Conns
<1>4. Says(a, Control("rstack", c))
  BY <1>1, <1>3, SaysControl DEF ControlKinds
<1>5. Plain(a, Closed(c))
  <2>1. Ended(a, Closed(c))
    BY <1>1 DEF Ended, Closed, Conns
  <2>2. QED
    BY <2>1 DEF Plain
<1>6. Plain(a, AfterDiscard(waiting))
  <2>1. Ended(a, waiting) /\ Ended(a, Closed(waiting))
    BY <1>1 DEF Ended, Closed, Conns
  <2>2. waiting.st = "close_wait"
    BY <1>1 DEF Conns
  <2> HIDE DEF waiting
  <2>3. Ended(a, AfterDiscard(waiting))
    BY <2>1, <2>2 DEF AfterDiscard, AfterClose
  <2>4. QED
    BY <2>3 DEF Plain
<1>7. Plain(a, skewed)
  <2>1. CASE HasAck(p)
    <3>1. SameSlot(a, skewed) /\ skewed.tx = a.tx
      BY <1>1 DEF SameSlot, Conns
    <3>2. skewed.skewed = TRUE
      BY <1>1, <2>1 DEF Conns
    <3>3. QED
      BY <3>1, <3>2 DEF Plain, Skews
  <2>2. CASE ~HasAck(p)
    <3>1. SameSlot(a, skewed) /\ skewed.tx = a.tx
      BY <1>1 DEF SameSlot, Conns
    <3>2. skewed.una = a.una /\ skewed.skewed = a.skewed
      BY <1>1, <2>2 DEF Conns
    <3>3. QED
      BY <3>1, <3>2 DEF Plain, Quiet
  <2>3. QED
    BY <2>1, <2>2
<1> HIDE DEF c, waiting, skewed
<1>8. QED
  BY <1>1, <1>2, <1>4, <1>5, <1>6, <1>7, PlainTaken

LEMMA AnswersPlain ==
  ASSUME TypeInv, NEW e \in Ends, NEW p \in net[e],
         \/ HalfOpen(e, p) \/ SynInOpen(e, p) \/ WrongSynAck(e, p)
         \/ BadAck(e, p) \/ NewInCloseWait(e, p)
  PROVE  \E o : PlainStep(e, o)
<1> DEFINE d == [conn[e] EXCEPT !.una = Plus(p.ack, 1)]
<1>1. conn[e] \in Conns
  BY DEF TypeInv, ConnsOK
<1>2. UNCHANGED <<opens, sent>> /\ conn[e].up
  BY DEF HalfOpen, SynInOpen, WrongSynAck, BadAck, NewInCloseWait, Regular, InConversation
<1>3. \/ Take(e, p, conn[e], {Control("rst", conn[e])})
      \/ Take(e, p, conn[e], {})
      \/ Take(e, p, AfterDiscard(conn[e]), ResetOnDiscard(conn[e]))
      \/ conn[e].st = "close_wait" /\ Take(e, p, d, {Control("rstack", conn[e])})
  BY DEF HalfOpen, SynInOpen, WrongSynAck, BadAck, NewInCloseWait
<1>4. Plain(conn[e], conn[e]) /\ Plain(conn[e], AfterDiscard(conn[e]))
  BY <1>1, PlainSelf, ClosedEnds
<1>5. conn[e].st = "close_wait" => Ended(conn[e], d)
  BY <1>1 DEF Ended, Conns
<1>6. Says(conn[e], Control("rstack", conn[e]))
  BY <1>2, SaysControl DEF ControlKinds
<1>7. conn[e].st = "close_wait" => Plain(conn[e], d)
  BY <1>5 DEF Plain
<1> HIDE DEF d
<1>8. QED
  BY <1>2, <1>3, <1>4, <1>6, <1>7, PlainTaken, SaysReset, SaysResets

LEMMA OutOfWindowPlain ==
  ASSUME TypeInv, NEW e \in Ends, NEW p \in net[e], OutOfWindow(e, p)
  PROVE  \E o : PlainStep(e, o)
<1> DEFINE out == IF conn[e].st = "open" THEN Eack(conn[e]) ELSE SynAckPacket(conn[e])
<1>1. Take(e, p, conn[e], {out}) /\ UNCHANGED <<opens, sent>>
  BY DEF OutOfWindow
<1>2. conn[e].up /\ conn[e].st # "syn_sent"
  BY DEF OutOfWindow, Regular, InConversation
<1>3. Says(conn[e], out)
  BY <1>2, SaysEack, SaysSynAck
<1> HIDE DEF out
<1>4. QED
  BY <1>1, <1>3, PlainSelf, PlainTaken

-----------------------------------------------------------------------------
(* The parts of KeptInv that do not need the ends to be in the same connection.   *)

LEMMA SentStays ==
  ASSUME NEW x \in Ends, conn'[x].iss = conn[x].iss, sent'[x] = sent[x]
  PROVE  Sent(x)' = Sent(x)
BY DEF Sent, SentIn

LEMMA SaidStays ==
  ASSUME TypeInv, SaidInv, NEW e \in Ends, NEW outs, Passing(e, outs),
         conn' = [conn EXCEPT ![e] = conn'[e]],
         \A x \in Ends : opens'[x] \in Nat /\ opens[x] <= opens'[x],
         \A q \in outs : SaidOK(e, q), \A p \in conn'[e].tx : CopyOK(p)
  PROVE  SaidInv'
<1>1. SUFFICES ASSUME NEW x \in Ends
               PROVE  /\ \A p \in net'[Peer(x)] : SaidOK(x, p)'
                      /\ \A p \in conn'[x].tx : CopyOK(p)
  BY DEF SaidInv, CopyOK
<1>2. Used(x) \subseteq Used(x)'
  BY UsedGrows
<1>3. ASSUME NEW p, SaidOK(x, p) PROVE SaidOK(x, p)'
  BY <1>2, <1>3 DEF SaidOK
<1>4. CASE x = e
  <2>1. net'[Peer(x)] \subseteq net[Peer(x)] \cup outs
    BY <1>4 DEF Passing
  <2>2. \A p \in net[Peer(x)] \cup outs : SaidOK(x, p)
    BY <1>4 DEF SaidInv
  <2>3. QED
    BY <1>3, <1>4, <2>1, <2>2
<1>5. CASE x # e
  <2>1. Peer(x) = e /\ net'[Peer(x)] \subseteq net[Peer(x)]
    BY <1>5 DEF Passing, Peer, Ends
  <2>2. conn'[x] = conn[x]
    BY <1>5, SlotIs
  <2>3. QED
    BY <1>3, <2>1, <2>2 DEF SaidInv
<1>6. QED
  BY <1>4, <1>5

LEMMA NextSaid ==
  ASSUME TypeInv, SendInv, NEW e \in Ends, conn[e].up, NEW q, q.seq = conn[e].nxt
  PROVE  SaidOK(e, q)
<1>1. q.seq = Plus(conn[e].iss, Sent(e) + 1) /\ Cardinality(sent[e]) <= MaxSend[e]
  BY DEF SendInv
<1>2. conn[e].iss \in Used(e)
  BY CurrentUsed
<1>3. Sent(e) \in Nat /\ Sent(e) <= Cardinality(sent[e]) /\ Cardinality(sent[e]) \in Nat
      /\ MaxSend[e] \in Nat
  BY SentInIs, RdpAssumption DEF TypeInv, Sent
<1>4. Sent(e) + 1 \in 1 .. MaxSend[e] + 1
  BY <1>1, <1>3
<1>5. QED
  BY <1>1, <1>2, <1>4 DEF SaidOK

LEMMA SaysSaid ==
  ASSUME TypeInv, SendInv, NEW e \in Ends, NEW q, Says(conn[e], q)
  PROVE  SaidOK(e, q)
<1>1. CASE q.kind \in ControlKinds
  BY <1>1, NextSaid DEF Says
<1>2. CASE q.kind \notin ControlKinds
  BY <1>2 DEF SaidOK
<1>3. QED
  BY <1>1, <1>2

LEMMA RcvdStays ==
  ASSUME RcvdInv, sent'["server"] = sent["server"],
         conn'["server"].st = "syn_rcvd" =>
           conn["server"].st = "syn_rcvd" /\ conn'["server"].iss = conn["server"].iss
  PROVE  RcvdInv'
BY SentStays DEF RcvdInv, Ends

LEMMA EarlyStays ==
  ASSUME EarlyInv, opens'["client"] = 0 => opens["client"] = 0,
         conn'["client"].st = "syn_sent" => conn["client"].st = "syn_sent",
         opens'["client"] = 0 \/ conn'["client"].st = "syn_sent" =>
           /\ sent'["client"] = sent["client"]
           /\ conn'["client"].irs = conn["client"].irs /\ conn'["client"].cur = conn["client"].cur,
         conn'["client"].st = "syn_sent" =>
           /\ conn'["client"].iss = conn["client"].iss
           /\ conn'["client"].tx \subseteq conn["client"].tx
           /\ \A p \in net'["server"] : p \in net["server"] \/ (HasAck(p) => Early(p))
  PROVE  EarlyInv'
<1>1. opens'["client"] = 0 \/ conn'["client"].st = "syn_sent" =>
        sent'["client"] = {} /\ conn'["client"].irs = 0 /\ conn'["client"].cur = 0
  BY DEF EarlyInv
<1>2. ASSUME conn'["client"].st = "syn_sent"
      PROVE  /\ \A p \in conn'["client"].tx : ~HasAck(p)
             /\ \A p \in net'["server"] :
                  HasAck(p) /\ Bears("client", conn'["client"].iss, p) => Early(p)'
  <2>1. conn'["client"].iss = conn["client"].iss
    BY <1>2
  <2>2. \A p : Early(p)' <=> Early(p)
    BY <2>1 DEF Early
  <2>3. \A p \in net["server"] :
          HasAck(p) /\ Bears("client", conn["client"].iss, p) => Early(p)
    BY <1>2 DEF EarlyInv
  <2>4. \A p \in conn'["client"].tx : ~HasAck(p)
    BY <1>2 DEF EarlyInv
  <2>5. QED
    BY <1>2, <2>1, <2>2, <2>3, <2>4
<1>3. \A p : (HasAck(p)' <=> HasAck(p))
  BY DEF HasAck
<1>4. \A p : Bears("client", conn["client"].iss, p)' <=> Bears("client", conn'["client"].iss, p)
  BY DEF Bears, HasSyn, Reach, Plus
<1>5. QED
  BY <1>1, <1>2 DEF EarlyInv, HasAck, Bears, HasSyn, Reach, Plus

LEMMA HeardStays ==
  ASSUME TypeInv, HeardInv, \A x \in Ends : opens'[x] \in Nat /\ opens[x] <= opens'[x],
         conn'["client"].st = "open" =>
           conn'["client"].irs \in Used("server") \cup Used("server")'
           \/ (conn["client"].st = "open" /\ conn'["client"].irs = conn["client"].irs),
         conn'["server"].st \in {"syn_rcvd", "open"} =>
           conn'["server"].irs \in Used("client") \cup Used("client")'
           \/ (conn["server"].st \in {"syn_rcvd", "open"}
               /\ conn'["server"].irs = conn["server"].irs)
  PROVE  HeardInv'
<1>1. Used("client") \subseteq Used("client")' /\ Used("server") \subseteq Used("server")'
  BY UsedGrows DEF Ends
<1>2. conn'["client"].st = "open" => conn'["client"].irs \in Used("server")'
  BY <1>1 DEF HeardInv
<1>3. conn'["server"].st \in {"syn_rcvd", "open"} =>
        conn'["server"].irs \in Used("client")' \cup {Plus(Iss["client"][1], M - 1)}
  BY <1>1 DEF HeardInv
<1>4. QED
  BY <1>2, <1>3 DEF HeardInv, Plus

LEMMA PlainSlot ==
  ASSUME NEW c, NEW d, Plain(c, d)
  PROVE  /\ d.iss = c.iss /\ d.irs = c.irs /\ d.cur = c.cur /\ d.tx \subseteq c.tx
         /\ d.st \in {c.st, "closed", "close_wait"}
         /\ d.st \in {"closed", "close_wait"} \/ SameSlot(c, d)
<1>1. Unacked(c) \subseteq c.tx
  BY DEF Unacked
<1>2. QED
  BY <1>1 DEF Plain, Quiet, Skews, Drops, Ended, SameSlot

LEMMA PlainKeeps ==
  ASSUME OrderInv, SaidInv, RcvdInv, EarlyInv, HeardInv, NEW e \in Ends, NEW outs,
         PlainStep(e, outs)
  PROVE  SaidInv' /\ RcvdInv' /\ EarlyInv' /\ HeardInv'
<1>1. TypeInv /\ SendInv /\ BeginInv
  BY DEF OrderInv, NumberInv
<1> DEFINE c == conn[e]
           d == conn'[e]
<1>2. /\ d.iss = c.iss /\ d.irs = c.irs /\ d.cur = c.cur /\ d.tx \subseteq c.tx
      /\ d.st \in {c.st, "closed", "close_wait"}
  BY PlainSlot DEF PlainStep
<1>3. \A x \in Ends : x # e => conn'[x] = conn[x]
  BY <1>1, SlotIs DEF PlainStep
<1>4. \A x \in Ends : opens'[x] \in Nat /\ opens[x] <= opens'[x]
  BY <1>1 DEF PlainStep, TypeInv, RestOK
<1>5. SaidInv'
  <2>1. \A q \in outs : SaidOK(e, q)
    BY <1>1, SaysSaid DEF PlainStep
  <2>2. \A p \in d.tx : CopyOK(p)
    BY <1>2 DEF SaidInv
  <2>3. QED
    BY <1>1, <1>4, <2>1, <2>2, SaidStays DEF PlainStep
<1>6. /\ conn'["server"].st \in {conn["server"].st, "closed", "close_wait"}
      /\ conn'["server"].iss = conn["server"].iss /\ conn'["server"].irs = conn["server"].irs
      /\ conn'["client"].st \in {conn["client"].st, "closed", "close_wait"}
      /\ conn'["client"].iss = conn["client"].iss /\ conn'["client"].irs = conn["client"].irs
      /\ conn'["client"].cur = conn["client"].cur
      /\ conn'["client"].tx \subseteq conn["client"].tx
  BY <1>2, <1>3 DEF Ends
<1>7. RcvdInv'
  BY <1>6, RcvdStays DEF PlainStep
<1>8. HeardInv'
  BY <1>1, <1>4, <1>6, HeardStays
<1>9. ASSUME conn'["client"].st = "syn_sent", NEW p \in net'["server"]
      PROVE  p \in net["server"] \/ (HasAck(p) => Early(p))
  <2>1. CASE e = "server"
    BY <2>1 DEF PlainStep, Passing
  <2>2. CASE e = "client"
    <3>1. p \in net["server"] \/ p \in outs
      BY <2>2 DEF PlainStep, Passing, Peer
    <3>2. c.st = "syn_sent" /\ c.up
      BY <1>1, <1>6, <1>9, <2>2 DEF TypeInv, ConnsOK, ConnOK
    <3>3. c.cur = 0 /\ sent["client"] = {}
      BY <2>2, <3>2 DEF EarlyInv
    <3>4. Sent("client") = 0
      BY <3>3, FS_EmptySet DEF Sent, SentIn
    <3>5. c.nxt = Plus(c.iss, 1)
      BY <1>1, <2>2, <3>2, <3>4 DEF SendInv
    <3>6. ASSUME p \in outs, HasAck(p) PROVE Early(p)
      <4>1. Says(c, p)
        BY <3>6 DEF PlainStep
      <4>2. p.seq = c.nxt /\ p.ack = c.cur /\ p.eacks = {}
        BY <3>2, <3>6, <4>1 DEF Says
      <4>3. QED
        BY <2>2, <3>3, <3>5, <4>2 DEF Early
    <3>7. QED
      BY <3>1, <3>6
  <2>3. QED
    BY <2>1, <2>2 DEF Ends
<1>10. EarlyInv'
  BY <1>6, <1>9, EarlyStays DEF PlainStep
<1>11. QED
  BY <1>5, <1>7, <1>8, <1>10

-----------------------------------------------------------------------------
(* A new number: nothing on its way bears it.                                  *)

LEMMA ReachIs ==
  ASSUME TypeInv, Apart, NEW e \in Ends
  PROVE  Reach(e) \in Nat /\ Reach(e) < M /\ MaxSend[e] \in Nat /\ MaxSend[e] + 1 <= Reach(e)
<1>1. MaxSend[e] \in Nat /\ 2 * W \in Nat /\ 2 <= 2 * W /\ MaxSend[e] + 2 * W < M
  BY ApartIs
<1> DEFINE w == 2 * W
<1>2. w \in Nat /\ 2 <= w /\ MaxSend[e] + w < M
  BY <1>1
<1> HIDE DEF w
<1>3. MaxSend[e] + w \in Nat /\ MaxSend[e] + 1 <= MaxSend[e] + w
  BY <1>1, <1>2
<1>4. QED
  BY <1>1, <1>2, <1>3 DEF Reach, w

LEMMA NotMet ==
  ASSUME TypeInv, Apart, NEW e \in Ends, NEW x \in Seqs, NEW i \in Seqs, x # i,
         FarApart(x, i, Reach(e)), NEW m \in 1 .. Reach(e), NEW j \in 1 .. Reach(e)
  PROVE  Plus(x, m) # Plus(i, j)
<1> DEFINE T == Reach(e)
<1>1. T \in Nat /\ T < M /\ FarApart(x, i, T)
  BY ReachIs
<1> HIDE DEF T
<1>2. m \in Nat /\ j \in Nat /\ 1 <= m /\ m <= T /\ 1 <= j /\ j <= T
  BY <1>1 DEF T
<1>3. QED
  BY <1>1, <1>2, NumbersMeet

(* A number no connection has had yet, and far from those they had.             *)
NewFor(e, i) == i \in Seqs /\ i \notin Used(e) /\ \A x \in Used(e) : FarApart(x, i, Reach(e))

LEMMA NextIsNew ==
  ASSUME TypeInv, TypeInv', Apart', NEW e \in Ends, opens'[e] = opens[e] + 1
  PROVE  NewFor(e, Iss[e][opens[e] + 1])
BY NewIsUnused DEF NewFor, FarApart, Reach

LEMMA NewNotBorne ==
  ASSUME Apart, NumberInv, SaidInv, NEW e \in Ends, NEW p \in net[Peer(e)], HasAck(p),
         NEW i, NewFor(e, i)
  PROVE  ~Bears(e, i, p)
<1>1. TypeInv /\ PacketsInv /\ SendInv
  BY DEF NumberInv
<1>2. PacketOK(e, p) /\ SaidOK(e, p)
  BY <1>1 DEF PacketsInv, SaidInv
<1>3. p \in Sendable
  BY <1>1, PeerIs DEF TypeInv, NetOK
<1>4. Used(e) \subseteq Seqs /\ i \in Seqs /\ i \notin Used(e)
  BY <1>1, UsedAreSeqs DEF NewFor
<1>5. ASSUME NEW x \in Used(e), NEW m \in 1 .. Reach(e), p.seq = Plus(x, m), ~HasSyn(p)
      PROVE  ~Bears(e, i, p)
  <2>1. x \in Seqs /\ x # i /\ FarApart(x, i, Reach(e))
    BY <1>4 DEF NewFor
  <2>2. \A j \in 1 .. Reach(e) : p.seq # Plus(i, j)
    BY <1>1, <1>4, <1>5, <2>1, NotMet
  <2>3. QED
    BY <1>5, <2>2 DEF Bears
<1>6. Reach(e) \in Nat /\ MaxSend[e] \in Nat /\ MaxSend[e] + 1 <= Reach(e)
  BY <1>1, ReachIs
<1>7. CASE HasSyn(p)
  BY <1>2, <1>4, <1>7 DEF Bears, PacketOK, SentBy
<1>8. CASE p.kind = "data"
  <2>1. p.msg \in sent[e] /\ p.seq = Plus(p.msg.from, p.msg.nr)
    BY <1>2, <1>8 DEF PacketOK, SentBy
  <2>2. p.msg.from \in Used(e)
    BY <1>1, <2>1 DEF SendInv
  <2>3. Peer(e) \in Ends /\ Peer(Peer(e)) = e
    BY PeerIs
  <2>4. p.msg.nr \in Nat /\ 1 <= p.msg.nr /\ p.msg.nr <= MaxSend[e]
    BY <1>1, <1>2, <1>8, <2>3, DataIs
  <2>5. p.msg.nr \in 1 .. Reach(e)
    BY <1>6, <2>4
  <2>6. ~HasSyn(p)
    BY <1>8 DEF HasSyn
  <2>7. QED
    BY <1>5, <2>1, <2>2, <2>5, <2>6
<1>9. CASE p.kind \in ControlKinds
  <2>1. PICK x \in Used(e), m \in 1 .. MaxSend[e] + 1 : p.seq = Plus(x, m)
    BY <1>2, <1>9 DEF SaidOK
  <2>2. m \in 1 .. Reach(e)
    BY <1>6, <2>1
  <2>3. ~HasSyn(p)
    BY <1>9 DEF HasSyn, ControlKinds
  <2>4. QED
    BY <1>5, <2>1, <2>2, <2>3
<1>10. QED
  BY <1>3, <1>7, <1>8, <1>9 DEF Sendable, Packets, HasAck, HasSyn, ControlKinds

(* The number of the client that has gone away is not its next.                *)
LEMMA BeforeFirst ==
  ASSUME TypeInv, TypeInv', Apart', opens'["client"] = opens["client"] + 1
  PROVE  Plus(Iss["client"][1], M - 1) # Iss["client"][opens["client"] + 1]
<1> DEFINE f == Iss["client"][1]
           n == opens["client"] + 1
           b == Plus(f, M - 1)
<1>1. "client" \in Ends /\ f \in Seqs
  BY FirstIn DEF Ends
<1>2. M \in Nat /\ f \in Nat /\ f < M /\ 2 < M
  <2> HIDE DEF f
  <2>1. M \in Nat /\ W \in Nat \ {0} /\ 4 * W + 2 <= M
    BY RdpAssumption
  <2>2. QED
    BY <1>1, <2>1 DEF Seqs
<1>3. M - 1 \in Nat /\ M - 1 < M /\ f \in Int /\ M - 1 \in Int
  BY <1>2
<1>4. b = (IF f + (M - 1) < M THEN f + (M - 1) ELSE f + (M - 1) - M) /\ b \in Seqs
  BY <1>1, <1>3, PlusIs, PlusIn
<1>5. SUFFICES ASSUME b = Iss["client"][n] PROVE FALSE
  OBVIOUS
<1> HIDE DEF b
<1>6. b # f
  <2> HIDE DEF f
  <2>1. QED
    BY <1>2, <1>4
<1>7. n \in Nat /\ n <= Len(Iss["client"]) /\ FirstApart["client"][n] /\ 1 \in 1 .. n /\ n \in 1 .. n
  BY <1>1 DEF TypeInv, RestOK, Apart
<1>8. n # 1
  BY <1>5, <1>6
<1>9. /\ MaxSend["client"] \in Nat /\ 2 * W \in Nat /\ 2 <= 2 * W
      /\ (f - b) % M >= MaxSend["client"] + 2 * W
  <2> HIDE DEF n
  <2>1. QED
    BY <1>1, <1>5, <1>7, <1>8, FirstApartIs
<1> HIDE DEF f, n
<1> DEFINE u == (f - b) % M
<1>10. u = IF f >= b THEN f - b ELSE f - b + M
  BY <1>1, <1>4, DiffIs
<1>11. u >= MaxSend["client"] + 2 * W
  BY <1>9
<1> HIDE DEF u
<1>12. b \in Nat /\ b < M
  BY <1>2, <1>4 DEF Seqs
<1> DEFINE w == 2 * W
           s == MaxSend["client"]
<1>13. w \in Nat /\ 2 <= w /\ s \in Nat /\ u >= s + w
  BY <1>9, <1>11
<1> HIDE DEF w, s
<1>14. QED
  BY <1>2, <1>4, <1>10, <1>12, <1>13

-----------------------------------------------------------------------------
(* How a connection begins: the ends are not near, or nothing has been said.      *)

LEMMA NoMessageIs == NoMessage \notin Messages
<1>1. NoMessage.from = -1
  BY DEF NoMessage
<1>2. -1 \notin Seqs
  BY SeqsAre DEF Seqs
<1>3. \A m \in Messages : m.from \in Seqs
  BY DEF Messages
<1>4. QED
  BY <1>1, <1>2, <1>3

LEMMA CopiesOfSyns ==
  ASSUME NEW a, NEW b, NEW kind \in {"syn", "synack"}
  PROVE  CopyOK(Packet(kind, a, b))
<1>1. Packet(kind, a, b).kind = kind /\ Packet(kind, a, b).msg = NoMessage
      /\ Packet(kind, a, b).eacks = {}
  BY DEF Packet
<1>2. QED
  BY <1>1, NoMessageIs DEF CopyOK

LEMMA TryConnectKept ==
  ASSUME Apart, Apart', OrderInv, KeptInv, TypeInv', Connect \/ ConnectRetry
  PROVE  KeptInv'
<1> DEFINE iss == Iss["client"][opens["client"] + 1]
           c == StartConnect(conn["client"], iss)
<1>1. TypeInv /\ NumberInv /\ TryConnect /\ UNCHANGED <<sent, got>>
      /\ "client" \in Ends /\ "server" \in Ends /\ opens \in [Ends -> Nat]
      /\ SaidInv /\ RcvdInv /\ EarlyInv /\ HeardInv
  BY DEF OrderInv, NumberInv, Connect, ConnectRetry, Ends, TypeInv, RestOK, KeptInv
<1>2. opens' = [opens EXCEPT !["client"] = opens["client"] + 1]
      /\ opens'["client"] = opens["client"] + 1 /\ opens["client"] < Len(Iss["client"])
  BY <1>1 DEF TryConnect
<1>3. conn' = [conn EXCEPT !["client"] = c]
  BY <1>1, <1>2 DEF TryConnect
<1>4. conn["client"] \in Conns
  BY <1>1 DEF TypeInv, ConnsOK
<1>5. /\ c.iss = iss /\ c.tx = {Packet("syn", iss, 0)} /\ c.st = "syn_sent"
      /\ c.irs = conn["client"].irs /\ c.cur = conn["client"].cur
  BY <1>4 DEF StartConnect, Conns
<1> HIDE DEF c
<1>6. conn'["client"] = c /\ conn'["server"] = conn["server"]
  BY <1>1, <1>3, SlotIs
<1>7. Passing("client", {SynPacket(c)})
  BY <1>1, <1>6, NetTransmitted DEF TryConnect, TypeInv
<1>8. NewFor("client", iss) /\ iss \notin Used("client")
  BY <1>1, <1>2, NextIsNew DEF NewFor
<1>9. \A x \in Ends : opens'[x] \in Nat /\ opens[x] <= opens'[x]
  BY <1>1, <1>2
<1> HIDE DEF iss
<1>10. SaidInv'
  <2>1. \A q \in {SynPacket(c)} : SaidOK("client", q)
    BY DEF SaidOK, SynPacket, Packet, ControlKinds
  <2>2. \A p \in conn'["client"].tx : CopyOK(p)
    BY <1>5, <1>6, CopiesOfSyns
  <2>3. conn' = [conn EXCEPT !["client"] = conn'["client"]]
    BY <1>3, <1>6
  <2>4. QED
    BY <1>1, <1>7, <1>9, <2>1, <2>2, <2>3, SaidStays
<1>11. RcvdInv'
  BY <1>1, <1>6, RcvdStays
<1>12. HeardInv'
  BY <1>1, <1>5, <1>6, <1>9, HeardStays
<1>13. EarlyInv'
  <2>1. sent'["client"] = {} /\ c.irs = 0 /\ c.cur = 0
    BY <1>1, <1>5 DEF EarlyInv, Connect, ConnectRetry
  <2>2. \A p \in c.tx : ~HasAck(p)
    BY <1>5 DEF HasAck, Packet
  <2>3. ASSUME NEW p \in net'["server"], HasAck(p) PROVE ~Bears("client", iss, p)
    <3>1. p # SynPacket(c)
      BY <2>3 DEF HasAck, SynPacket, Packet
    <3>2. p \in net["server"] /\ Peer("client") = "server"
      BY <1>7, <3>1 DEF Passing, Peer
    <3>3. QED
      BY <1>1, <1>8, <2>3, <3>2, NewNotBorne
  <2>4. \A p \in net'["server"] :
          HasAck(p) /\ Bears("client", conn'["client"].iss, p) => Early(p)'
    BY <1>5, <1>6, <2>3
  <2>5. QED
    BY <1>5, <1>6, <2>1, <2>2, <2>4 DEF EarlyInv, HasAck, Bears, HasSyn, Reach, Plus
<1>14. ~Near'
  <2>1. conn["server"].st \in {"syn_rcvd", "open"} => conn["server"].irs # iss
    BY <1>1, <1>2, <1>8, BeforeFirst DEF HeardInv, iss
  <2>2. QED
    BY <1>5, <1>6, <2>1 DEF Near
<1>15. QED
  BY <1>10, <1>11, <1>12, <1>13, <1>14 DEF KeptInv, NearInv

LEMMA NothingSent ==
  ASSUME NEW x \in Ends, sent[x] = {}
  PROVE  Sent(x) = 0
<1>1. {m \in sent[x] : m.from = conn[x].iss} = {}
  OBVIOUS
<1>2. QED
  BY <1>1, FS_EmptySet DEF Sent, SentIn

AllPassed == \A x \in Ends : Passed(x) \in Nat

LEMMA PassedAreNats == TypeInv => AllPassed
<1>1. M - 1 \in Int
  BY SeqsAre
<1>2. QED
  BY <1>1, PassedIn DEF AllPassed

LEMMA SynKept ==
  ASSUME Apart, Apart', OrderInv, KeptInv, OrderInv', NEW e \in Ends, NEW p \in net[e],
         SynInClosed(e, p)
  PROVE  KeptInv'
<1> DEFINE iss == Iss["server"][opens["server"] + 1]
           b == NewSlot(iss, p)
           d == NewSlotSent(iss, p)
<1>1. TypeInv /\ NumberInv /\ SendInv /\ PacketsInv /\ opens \in [Ends -> Nat] /\ TypeInv'
      /\ SaidInv /\ RcvdInv /\ EarlyInv /\ HeardInv
  BY DEF OrderInv, NumberInv, TypeInv, RestOK, KeptInv
<1>2. /\ e = "server" /\ HasSyn(p)
      /\ opens["server"] < Len(Iss["server"])
      /\ opens' = [opens EXCEPT !["server"] = opens["server"] + 1]
      /\ Take("server", p, d, {SynAckPacket(b)})
      /\ UNCHANGED <<call, sem, sent>>
  BY <1>1, SynSteps
<1>3. conn' = [conn EXCEPT !["server"] = d] /\ Passing("server", {SynAckPacket(b)})
  BY <1>1, <1>2, NetExchanged DEF Take, TypeInv
<1>4. /\ d.st = "syn_rcvd" /\ d.iss = iss /\ d.irs = p.seq /\ d.tx = {SynAckPacket(b)}
      /\ d.sock = TRUE
      /\ b.iss = iss /\ b.irs = p.seq
  BY DEF NewSlotSent, NewSlot, NoConn
<1>5. SynAckPacket(b) = Packet("synack", iss, p.seq)
  BY <1>4 DEF SynAckPacket
<1>6. NewFor("server", iss) /\ SentIn("server", iss) = 0
  <2>1. "server" \in Ends /\ opens'["server"] = opens["server"] + 1
    BY <1>1, <1>2
  <2>2. QED
    BY <1>1, <2>1, NextIsNew, NewNumber
<1> HIDE DEF iss, b, d
<1>7. conn'["server"] = d /\ conn'["client"] = conn["client"]
      /\ "client" \in Ends /\ "server" \in Ends
  BY <1>1, <1>2, <1>3, SlotIs DEF Ends
<1>8. \A x \in Ends : opens'[x] \in Nat /\ opens[x] <= opens'[x]
  BY <1>1, <1>2
<1>9. SaidInv'
  <2>1. \A q \in {SynAckPacket(b)} : SaidOK("server", q)
    BY <1>5 DEF SaidOK, Packet, ControlKinds
  <2>2. \A q \in conn'["server"].tx : CopyOK(q)
    BY <1>4, <1>5, <1>7, CopiesOfSyns
  <2>3. conn' = [conn EXCEPT !["server"] = conn'["server"]]
    BY <1>3, <1>7
  <2>4. Passing("server", {SynAckPacket(b)}) /\ "server" \in Ends
    BY <1>3, <1>7
  <2>5. QED
    BY <1>1, <1>8, <2>1, <2>2, <2>3, <2>4, SaidStays
<1>10. Sent("server")' = 0
  BY <1>2, <1>4, <1>6, <1>7 DEF Sent, SentIn
<1>11. RcvdInv'
  BY <1>10 DEF RcvdInv
<1>12. HeardInv'
  <2>1. p.seq \in Used("client")
    BY <1>1, <1>2 DEF PacketsInv, PacketOK, SentBy, Ends, Peer
  <2>2. QED
    BY <1>1, <1>4, <1>7, <1>8, <2>1, HeardStays
<1>13. net'["server"] \subseteq net["server"]
       /\ net'["client"] \subseteq net["client"] \cup {SynAckPacket(b)}
  BY <1>3 DEF Passing, Peer
<1>14. EarlyInv'
  BY <1>1, <1>2, <1>7, <1>13, EarlyStays
<1>15. NearInv'
  <2> SUFFICES ASSUME Near' PROVE (FirstOK /\ \A x \in Ends : Acks(x) /\ UnaOK(x) /\ Held(x))'
    BY DEF NearInv
  <2>1. conn["client"].st = "syn_sent" /\ p.seq = conn["client"].iss
    <3>1. conn["client"].st = "open" => conn["client"].irs # iss
      BY <1>1, <1>6 DEF HeardInv, NewFor
    <3>2. QED
      BY <1>4, <1>7, <3>1 DEF Near
  <2>2. FirstOK'
    BY <1>4, <1>7, <1>10 DEF FirstOK
  <2>3. Acks("server")'
    <3>1. \A q \in net'["server"] :
            HasAck(q) /\ Bears("client", conn["client"].iss, q) => Early(q)
      BY <1>13, <2>1 DEF EarlyInv, KeptInv
    <3>2. \A q : Early(q)' <=> Early(q)
      BY <1>7 DEF Early
    <3>3. \A q : Bears("client", conn["client"].iss, q)'
                   <=> Bears("client", conn["client"].iss, q)
      BY <1>7 DEF Bears, HasSyn, Reach, Plus
    <3>4. \A q : HasAck(q)' <=> HasAck(q)
      BY DEF HasAck
    <3>5. QED
      BY <3>1, <3>2, <3>3, <3>4 DEF Acks, Peer
  <2>4. Acks("client")'
    <3>1. ASSUME NEW q \in net'["client"], HasAck(q), Bears("server", iss, q)
          PROVE  Told("client", q)'
      <4>1. q = SynAckPacket(b)
        <5>1. q \notin net["client"]
          BY <1>1, <1>6, <3>1, <1>7, NewNotBorne DEF Peer
        <5>2. QED
          BY <1>13, <5>1
      <4>2. q.ack = p.seq /\ q.eacks = {}
        BY <1>5, <4>1 DEF Packet
      <4>3. conn["client"].iss \in Seqs
        BY <1>1, <1>7 DEF TypeInv, ConnsOK, Conns
      <4>4. q.ack = Plus(conn'["client"].iss, 0)
        <5>1. 0 \in Nat /\ 0 < M
          BY SeqsAre
        <5>2. Plus(conn["client"].iss, 0) = conn["client"].iss
          BY <4>3, <5>1, PlusIs, SeqsAre DEF Seqs
        <5>3. QED
          BY <1>7, <2>1, <4>2, <5>2
      <4>5. Passed("server")' \in Nat
        <5>1. AllPassed'
          BY <1>1, PassedAreNats, PTL
        <5>2. QED
          BY <1>7, <5>1 DEF AllPassed
      <4>6. 0 \in 0 .. Passed("server")'
        BY <4>5
      <4>7. QED
        BY <4>2, <4>4, <4>6 DEF Told, Peer, Plus
    <3>2. conn'["server"].iss = iss
      BY <1>4, <1>7
    <3>3. QED
      BY <3>1, <3>2 DEF Acks, Peer, HasAck, Bears, HasSyn, Reach, Plus
  <2>5. UnaOK("server")' /\ UnaOK("client")'
    BY <1>4, <1>7, <2>1 DEF UnaOK
  <2>6. Held("server")' /\ Held("client")'
    <3>1. Sent("client")' = 0
      <4>1. sent["client"] = {}
        BY <1>1, <2>1 DEF EarlyInv
      <4>2. Sent("client") = 0
        BY <1>7, <4>1, NothingSent
      <4>3. QED
        BY <1>2, <1>7, <4>2, SentStays
    <3>2. QED
      BY <1>10, <3>1 DEF Held
  <2>7. QED
    BY <2>2, <2>3, <2>4, <2>5, <2>6 DEF Ends
<1>16. QED
  BY <1>9, <1>11, <1>12, <1>14, <1>15 DEF KeptInv

LEMMA KeptInit == Init => KeptInv
<1> SUFFICES ASSUME Init PROVE KeptInv
  OBVIOUS
<1>1. PICK c \in {NoConn, StaleConn} :
        /\ conn = [x \in Ends |-> IF x = "server" THEN c ELSE NoConn]
        /\ opens = [x \in Ends |-> IF x = "server" /\ c.up THEN 1 ELSE 0]
  BY DEF Init
<1>2. conn["client"] = NoConn /\ conn["server"] = c
  BY <1>1 DEF Ends
<1>3. NoConn.st = "closed" /\ NoConn.irs = 0 /\ NoConn.cur = 0 /\ NoConn.tx = {}
  BY DEF NoConn
<1>4. StaleConn.st = "open" /\ StaleConn.tx = {}
      /\ StaleConn.irs = Plus(Iss["client"][1], M - 1)
  BY DEF StaleConn, NoConn
<1>5. NearInv
  BY <1>2, <1>3 DEF NearInv, Near
<1>6. RcvdInv
  BY <1>2, <1>3, <1>4 DEF RcvdInv
<1>7. \A x \in Ends : net[x] = {} /\ sent[x] = {} /\ conn[x].tx = {}
  BY <1>2, <1>3, <1>4 DEF Init, Ends
<1>8. SaidInv
  BY <1>7, PeerIs DEF SaidInv
<1>9. EarlyInv
  BY <1>2, <1>3, <1>7 DEF EarlyInv, Ends
<1>10. HeardInv
  BY <1>2, <1>3, <1>4 DEF HeardInv
<1>11. QED
  BY <1>5, <1>6, <1>8, <1>9, <1>10 DEF KeptInv

-----------------------------------------------------------------------------
(* A step of e while the ends are near: what was true of what the ends have       *)
(* acknowledged and kept stays true, as e passes more and forgets nothing.        *)

(* e has passed at least what it had, and has what it kept out of order.          *)
Onward(e) ==
  /\ Passed(e) <= Passed(e)'
  /\ \A r \in conn[e].ooo : r \in conn'[e].ooo \/ r.msg.nr <= Passed(e)'

LEMMA StillOnward ==
  ASSUME AllPassed, NEW y \in Ends, conn'[y] = conn[y]
  PROVE  Onward(y)
<1>1. Passed(y)' = Passed(y) /\ Passed(y) \in Nat
  BY DEF Passed, AllPassed
<1>2. QED
  BY <1>1 DEF Onward

LEMMA MessageIs == \A x : \A n : Message(x, n).nr = n /\ Message(x, n).from = conn[x].iss
BY DEF Message

LEMMA GotGrows ==
  ASSUME AllPassed, AllPassed', NEW x \in Ends, conn'[x].iss = conn[x].iss,
         Sent(x) \in Nat, Sent(x)' \in Nat, Sent(x) <= Sent(x)', Onward(Peer(x)),
         NEW y, Got(x, y)
  PROVE  Got(x, y)'
<1> DEFINE z == Peer(x)
           s == Sent(x)
           t == Sent(x)'
           a == Passed(z)
           b == Passed(z)'
<1>1. z \in Ends
  BY PeerIs
<1>2. PICK n \in 1 .. s :
        /\ y = Plus(conn[x].iss, n)
        /\ n <= a \/ \E r \in conn[z].ooo : r.msg = Message(x, n)
  BY DEF Got
<1>3. a \in Nat /\ b \in Nat /\ a <= b
      /\ \A r \in conn[z].ooo : r \in conn'[z].ooo \/ r.msg.nr <= b
  BY <1>1 DEF Onward, AllPassed
<1>4. Message(x, n)' = Message(x, n)
  BY DEF Message
<1>5. y = Plus(conn'[x].iss, n)
  BY <1>2
<1> HIDE DEF s, t, a, b, z
<1>6. n \in 1 .. t
  BY DEF s, t
<1>7. n <= b \/ \E r \in conn'[z].ooo : r.msg = Message(x, n)
  <2>1. CASE n <= a
    BY <1>3, <2>1
  <2>2. CASE \E r \in conn[z].ooo : r.msg = Message(x, n)
    BY <1>3, <2>2, MessageIs
  <2>3. QED
    BY <1>2, <2>1, <2>2
<1>8. n <= Passed(Peer(x))' \/ \E r \in conn'[Peer(x)].ooo : r.msg = Message(x, n)'
  BY <1>4, <1>7 DEF b, z
<1>9. n \in 1 .. Sent(x)'
  BY <1>6 DEF t
<1>10. QED
  BY <1>5, <1>8, <1>9 DEF Got, Plus

LEMMA ToldGrows ==
  ASSUME AllPassed, AllPassed', NEW x \in Ends, conn'[x].iss = conn[x].iss,
         Sent(x) \in Nat, Sent(x)' \in Nat, Sent(x) <= Sent(x)', Onward(Peer(x)),
         NEW p, Told(x, p)
  PROVE  Told(x, p)'
<1>1. \A y \in p.eacks : Got(x, y)'
  BY GotGrows DEF Told
<1>2. \E k \in 0 .. Passed(Peer(x))' : p.ack = Plus(conn'[x].iss, k)
  <2> DEFINE a == Passed(Peer(x))
             b == Passed(Peer(x))'
  <2>1. PICK k \in 0 .. a : p.ack = Plus(conn[x].iss, k)
    BY DEF Told
  <2>2. a \in Nat /\ b \in Nat /\ a <= b
    BY PeerIs DEF Onward, AllPassed
  <2> HIDE DEF a, b
  <2>3. k \in 0 .. b
    BY <2>2
  <2>4. QED
    BY <2>1, <2>3 DEF b
<1>3. QED
  BY <1>1, <1>2 DEF Told, Plus

LEMMA SentIsNat == ASSUME RestOK, NEW x \in Ends PROVE Sent(x) \in Nat
BY SentInIs DEF Sent

AllSentNat == \A x \in Ends : Sent(x) \in Nat

LEMMA SentAreNats == TypeInv => AllSentNat
BY SentIsNat DEF TypeInv, AllSentNat

LEMMA UnaGrows ==
  ASSUME AllPassed, AllPassed', NEW x \in Ends, conn'[x] = conn[x], Onward(Peer(x)), UnaOK(x)
  PROVE  UnaOK(x)'
<1>1. CASE \E k \in 0 .. Passed(Peer(x)) : conn[x].una = Plus(conn[x].iss, k + 1)
  <2> DEFINE a == Passed(Peer(x))
             b == Passed(Peer(x))'
  <2>1. PICK k \in 0 .. a : conn[x].una = Plus(conn[x].iss, k + 1)
    BY <1>1
  <2>2. a \in Nat /\ b \in Nat /\ a <= b
    BY PeerIs DEF Onward, AllPassed
  <2> HIDE DEF a, b
  <2>3. k \in 0 .. b
    BY <2>2
  <2>4. \E j \in 0 .. Passed(Peer(x))' : conn'[x].una = Plus(conn'[x].iss, j + 1)
    BY <2>1, <2>3 DEF b
  <2>5. QED
    BY <2>4 DEF UnaOK, Plus
<1>2. CASE ~\E k \in 0 .. Passed(Peer(x)) : conn[x].una = Plus(conn[x].iss, k + 1)
  BY <1>2 DEF UnaOK
<1>3. QED
  BY <1>1, <1>2

LEMMA HeldGrows ==
  ASSUME AllPassed, AllPassed', AllSentNat, NEW x \in Ends, conn'[x] = conn[x],
         sent'[x] = sent[x], Onward(Peer(x)), Held(x)
  PROVE  Held(x)'
<1> SUFFICES ASSUME ~conn[x].skewed, NEW n \in 1 .. Sent(x) PROVE HeldOne(x, n)'
  BY SentStays DEF Held
<1> DEFINE z == Peer(x)
           a == Passed(z)
           b == Passed(z)'
<1>1. a \in Nat /\ b \in Nat /\ a <= b
      /\ \A r \in conn[z].ooo : r \in conn'[z].ooo \/ r.msg.nr <= b
  BY PeerIs DEF Onward, AllPassed
<1>2. n \in Nat
  BY DEF AllSentNat
<1>3. (\E p \in conn[x].tx \cup conn[z].ooo : p.msg = Message(x, n)) \/ n <= a
  BY DEF Held, HeldOne
<1>4. Message(x, n)' = Message(x, n)
  BY DEF Message
<1> HIDE DEF a, b, z
<1>5. (\E p \in conn[x].tx \cup conn'[z].ooo : p.msg = Message(x, n)) \/ n <= b
  <2>1. CASE n <= a
    BY <1>1, <1>2, <2>1
  <2>2. CASE \E p \in conn[x].tx : p.msg = Message(x, n)
    BY <2>2
  <2>3. CASE \E p \in conn[z].ooo : p.msg = Message(x, n)
    BY <1>1, <2>3, MessageIs
  <2>4. QED
    BY <1>3, <2>1, <2>2, <2>3
<1>6. QED
  BY <1>4, <1>5 DEF HeldOne, b, z

(* Whether the packets of the other end still tell the truth.                   *)
OutsTell(e, outs) ==
  \A q \in outs : HasAck(q) => Told(Peer(e), q)' \/ (Peer(e) = "server" /\ Early(q))

LEMMA NearGoes ==
  ASSUME TypeInv, TypeInv', NearInv, Near, NEW e \in Ends, NEW outs, Passing(e, outs),
         conn' = [conn EXCEPT ![e] = conn'[e]], conn'[e].iss = conn[e].iss,
         sent'[Peer(e)] = sent[Peer(e)], Sent(e) <= Sent(e)', Onward(e), OutsTell(e, outs),
         UnaOK(e)', Held(e)', FirstOK'
  PROVE  NearInv'
<1> DEFINE x == Peer(e)
<1>1. x \in Ends /\ x # e /\ Peer(x) = e /\ conn'[x] = conn[x]
  BY SlotIs, PeerIs
<1>2. AllPassed /\ AllPassed' /\ AllSentNat /\ AllSentNat'
  BY PassedAreNats, SentAreNats, PTL
<1>3. Onward(x)
  BY <1>1, <1>2, StillOnward
<1>4. FirstOK /\ \A y \in Ends : Acks(y) /\ UnaOK(y) /\ Held(y)
  BY DEF NearInv
<1>5. \A y \in Ends : conn'[y].iss = conn[y].iss
  BY <1>1 DEF Ends, Peer
<1>6. \A p : Early(p)' <=> Early(p)
  BY <1>5 DEF Early, Ends
<1>7. \A y \in Ends : \A p : Bears(y, conn[y].iss, p)' <=> Bears(y, conn[y].iss, p)
  BY <1>5 DEF Bears, HasSyn, Reach, Plus
<1>8. Acks(x)'
  <2>1. ASSUME NEW p \in net'[x], HasAck(p), Bears(e, conn[e].iss, p)
        PROVE  Told(x, p)' \/ (x = "server" /\ Early(p))
    <3>1. CASE p \in outs
      BY <2>1, <3>1 DEF OutsTell
    <3>2. CASE p \in net[x]
      <4>1. Told(x, p) \/ (x = "server" /\ Early(p))
        BY <1>1, <1>4, <2>1, <3>2 DEF Acks
      <4>2. Sent(x)' = Sent(x) /\ Sent(x) \in Nat
        BY <1>1, <1>2, SentStays DEF AllSentNat
      <4>3. Sent(x)' \in Nat /\ Sent(x) <= Sent(x)' /\ Onward(Peer(x))
        BY <1>1, <4>2
      <4>4. Told(x, p) => Told(x, p)'
        BY <1>1, <1>2, <4>2, <4>3, ToldGrows
      <4>5. QED
        BY <4>1, <4>4
    <3>3. QED
      BY <2>1, <3>1, <3>2 DEF Passing
  <2>2. QED
    BY <1>1, <1>6, <1>7, <2>1 DEF Acks, HasAck
<1>9. Acks(e)'
  <2>1. ASSUME NEW p \in net'[e], HasAck(p), Bears(x, conn[x].iss, p)
        PROVE  Told(e, p)' \/ (e = "server" /\ Early(p))
    <3>1. p \in net[e]
      BY DEF Passing
    <3>2. Told(e, p) \/ (e = "server" /\ Early(p))
      BY <1>4, <2>1, <3>1 DEF Acks
    <3>3. Sent(e) \in Nat /\ Sent(e)' \in Nat
      BY <1>2 DEF AllSentNat
    <3>4. Told(e, p) => Told(e, p)'
      BY <1>2, <1>3, <3>3, ToldGrows
    <3>5. QED
      BY <3>2, <3>4
  <2>2. QED
    BY <1>1, <1>6, <1>7, <2>1 DEF Acks, HasAck
<1>10. UnaOK(x)'
  BY <1>1, <1>2, <1>4, UnaGrows
<1>11. Held(x)'
  BY <1>1, <1>2, <1>4, HeldGrows
<1>12. \A y \in Ends : y = e \/ y = x
  BY DEF Ends, Peer
<1>13. QED
  BY <1>8, <1>9, <1>10, <1>11, <1>12 DEF NearInv

-----------------------------------------------------------------------------
(* Comparisons within half of the numbers.                                    *)

LEMMA HalfIs == M \div 2 \in Nat /\ 2 * (M \div 2) = M
<1>1. M \in Nat /\ M % 2 = 0
  BY RdpAssumption
<1>2. QED
  BY <1>1

LEMMA NotBefore ==
  ASSUME NEW a \in Seqs, NEW j \in Nat, NEW k \in Nat, k <= j, 2 * j < M
  PROVE  ~Before(Plus(a, j), Plus(a, k))
<1>1. M \in Nat \ {0} /\ a \in Nat /\ a \in Int
  BY SeqsAre DEF Seqs
<1> DEFINE b == Plus(a, k)
           i == j - k
<1>2. b \in Seqs
  BY <1>1, PlusIn
<1>3. i \in Nat /\ i < M /\ k + i = j /\ k + i < M /\ 2 * i < M
  BY <1>1
<1> HIDE DEF i
<1>4. Plus(b, i) = Plus(a, k + i)
  BY <1>3, PlusPlus
<1> HIDE DEF b
<1>5. (Plus(b, i) - b) % M = i
  BY <1>2, <1>3, DiffPlus
<1> DEFINE h == M \div 2
<1>6. h \in Nat /\ 2 * h = M
  BY HalfIs
<1> HIDE DEF h
<1>7. ~(i >= h)
  BY <1>3, <1>6
<1>8. ~Before(Plus(b, i), b)
  BY <1>5, <1>7 DEF Before, h
<1>9. QED
  BY <1>3, <1>4, <1>8 DEF b

LEMMA NotBeforeSmall ==
  ASSUME NEW a \in Seqs, NEW j \in Nat, NEW u \in {0, 1}, u <= j, a <= 2 * W, 2 * (j + 2 * W) < M
  PROVE  ~Before(Plus(a, j), u)
<1> DEFINE w == 2 * W
           h == M \div 2
           b == Plus(a, j)
<1>1. M \in Nat \ {0} /\ a \in Nat /\ w \in Nat /\ a <= w /\ 2 * (j + w) < M
  BY SeqsAre, RdpAssumption DEF Seqs
<1>2. h \in Nat /\ 2 * h = M
  BY HalfIs
<1> HIDE DEF w, h
<1>3. j < M /\ a + j < M
  BY <1>1
<1>4. b = a + j
  BY <1>3, PlusIs
<1> HIDE DEF b
<1>5. b \in Seqs /\ u \in Seqs
  BY <1>1, <1>3, <1>4 DEF Seqs
<1> DEFINE d == (b - u) % M
<1>6. d = IF b >= u THEN b - u ELSE b - u + M
  BY <1>5, DiffIs
<1> HIDE DEF d
<1>7. b >= u /\ b \in Nat /\ b <= j + w
  BY <1>1, <1>4
<1>8. ~(d >= h)
  BY <1>1, <1>2, <1>6, <1>7
<1>9. QED
  BY <1>8 DEF Before, b, d, h

LEMMA OneBack ==
  ASSUME NEW a \in Seqs, NEW k \in Nat, k + 1 < M
  PROVE  Plus(Plus(a, k + 1), -1) = Plus(a, k)
<1> DEFINE b == Plus(a, k)
<1>1. M \in Nat \ {0} /\ a \in Nat /\ a \in Int /\ k < M
  BY SeqsAre DEF Seqs
<1>2. b \in Seqs /\ 1 \in Nat
  BY <1>1, PlusIn
<1>3. Plus(b, 1) = Plus(a, k + 1)
  BY <1>2, PlusPlus
<1> HIDE DEF b
<1>4. b \in Nat /\ b < M
  BY <1>1, <1>2 DEF Seqs
<1>5. 1 < M
  BY <1>1
<1>6. Plus(b, 1) = IF b + 1 < M THEN b + 1 ELSE b + 1 - M
  BY <1>2, <1>5, PlusIs
<1> DEFINE c == Plus(b, 1)
<1>7. c + (-1) = b \/ (c + (-1) = -1 /\ b = M - 1)
  BY <1>1, <1>4, <1>6
<1> HIDE DEF c
<1>8. (c + (-1)) % M = b
  <2>1. CASE c + (-1) = b
    <3>1. b % M = b
      BY <1>1, <1>4, ModSmall
    <3>2. QED
      BY <2>1, <3>1
  <2>2. CASE c + (-1) = -1 /\ b = M - 1
    <3>1. -1 \in Int /\ -M <= -1 /\ -1 < 0
      BY <1>1
    <3>2. (-1) % M = -1 + M
      BY <3>1, ModUnder
    <3>3. (c + (-1)) % M = -1 + M
      BY <2>2, <3>2
    <3>4. -1 + M = b
      BY <1>1, <2>2
    <3>5. QED
      BY <3>3, <3>4
  <2>3. QED
    BY <1>7, <2>1, <2>2
<1>9. Plus(c, -1) = b
  BY <1>8 DEF Plus
<1>10. QED
  BY <1>3, <1>9 DEF b, c

-----------------------------------------------------------------------------
(* What an end says in a connection is true.                                   *)

SaysNow(e, q) ==
  /\ \E k \in 0 .. Passed(e) : q.ack = Plus(conn[e].irs, k)
  /\ \A y \in q.eacks : \E r \in conn[e].ooo : r.seq = y

TellsTruth ==
  \A e \in Ends : conn[e].irs = conn[Peer(e)].iss =>
    \A q : SaysNow(e, q) => Told(Peer(e), q)

(* A data packet kept out of order.                                           *)
LEMMA OooIs ==
  ASSUME OrderInv, NEW e \in Ends, conn[e].irs = conn[Peer(e)].iss, NEW r \in conn[e].ooo
  PROVE  /\ r.msg.nr \in 1 .. Sent(Peer(e)) /\ r.seq = Plus(conn[Peer(e)].iss, r.msg.nr)
         /\ r.msg = Message(Peer(e), r.msg.nr)
<1>1. TypeInv /\ SendInv /\ PacketsInv /\ ReceiveInv
  BY DEF OrderInv, NumberInv
<1>2. r.kind = "data" /\ r.msg \in Messages
  BY <1>1 DEF TypeInv, ConnsOK, ConnOK, DataPackets, Sendable
<1>3. PacketOK(Peer(e), r)
  BY <1>1 DEF PacketsInv
<1>4. r.msg.from = conn[Peer(e)].iss
  BY <1>1 DEF ReceiveInv, ReceivedOK
<1>5. /\ r.msg.nr \in Nat /\ 1 <= r.msg.nr /\ r.msg.nr <= SentIn(Peer(e), r.msg.from)
      /\ r.seq = Plus(r.msg.from, r.msg.nr)
  BY <1>1, <1>2, <1>3, DataIs
<1>6. Sent(Peer(e)) \in Nat /\ SentIn(Peer(e), r.msg.from) = Sent(Peer(e))
  BY <1>1, <1>4, PeerIs, SentIsNat DEF Sent, TypeInv
<1>7. r.msg = [from |-> r.msg.from, nr |-> r.msg.nr]
  BY <1>2 DEF Messages
<1>8. r.msg = Message(Peer(e), r.msg.nr)
  BY <1>4, <1>7 DEF Message
<1>9. r.msg.nr \in 1 .. Sent(Peer(e))
  BY <1>5, <1>6
<1>10. QED
  BY <1>4, <1>5, <1>8, <1>9

LEMMA TruthTold == OrderInv => TellsTruth
<1> SUFFICES ASSUME OrderInv, NEW e \in Ends, conn[e].irs = conn[Peer(e)].iss,
                    NEW q, SaysNow(e, q)
             PROVE  Told(Peer(e), q)
  BY DEF TellsTruth
<1>1. Peer(Peer(e)) = e /\ Peer(e) \in Ends
  BY PeerIs
<1>2. ASSUME NEW y \in q.eacks PROVE Got(Peer(e), y)
  <2>1. PICK r \in conn[e].ooo : r.seq = y
    BY DEF SaysNow
  <2>2. /\ r.msg.nr \in 1 .. Sent(Peer(e)) /\ y = Plus(conn[Peer(e)].iss, r.msg.nr)
        /\ r.msg = Message(Peer(e), r.msg.nr)
    BY <2>1, OooIs
  <2>3. QED
    BY <1>1, <2>1, <2>2 DEF Got
<1>3. QED
  BY <1>1, <1>2 DEF Told, SaysNow

LEMMA CurIs ==
  ASSUME OrderInv, NEW e \in Ends, NEW a \in {conn[e].cur, conn[e].irs}
  PROVE  \E k \in 0 .. Passed(e) : a = Plus(conn[e].irs, k)
<1>1. conn[e].irs \in Seqs /\ Passed(e) \in Nat /\ conn[e].cur = Plus(conn[e].irs, Passed(e))
  BY PassedIs DEF OrderInv, NumberInv
<1>2. 0 \in Nat /\ 0 < M /\ conn[e].irs + 0 = conn[e].irs /\ conn[e].irs < M
  BY <1>1, SeqsAre DEF Seqs
<1>3. Plus(conn[e].irs, 0) = conn[e].irs
  BY <1>1, <1>2, PlusIs
<1>4. 0 \in 0 .. Passed(e) /\ Passed(e) \in 0 .. Passed(e)
  BY <1>1
<1>5. QED
  BY <1>1, <1>3, <1>4

(* The bounds, and a copy of a message.                                       *)
LEMMA HowMany ==
  ASSUME Few, OrderInv, NEW e \in Ends
  PROVE  /\ conn[e].iss \in Seqs /\ Passed(Peer(e)) \in Nat /\ Sent(e) \in Nat
         /\ Passed(Peer(e)) <= Cardinality(sent[e]) /\ Sent(e) <= Cardinality(sent[e])
         /\ Cardinality(sent[e]) \in Nat
         /\ 2 * W \in Nat /\ 2 <= 2 * W /\ 2 * (Cardinality(sent[e]) + 2 * W) < M
<1> DEFINE x == Peer(e)
           n == SentIn(e, conn[x].irs)
           s == Cardinality(sent[e])
           w == 2 * W
<1>1. TypeInv /\ SendInv /\ ReceiveInv /\ x \in Ends /\ Peer(x) = e
  BY PeerIs DEF OrderInv, NumberInv
<1>2. Passed(x) \in Nat /\ Passed(x) <= n
  BY <1>1, PassedIs
<1>3. w \in Nat /\ 2 <= w /\ 2 * (s + w) < M
  BY RdpAssumption DEF Few
<1>4. conn[e].iss \in Seqs
  BY <1>1 DEF TypeInv, ConnsOK, Conns
<1>5. s \in Nat /\ n \in Nat /\ n <= s /\ Sent(e) \in Nat /\ Sent(e) <= s
  BY <1>1, SentInIs DEF Sent, TypeInv
<1> HIDE DEF n, s
<1>6. Passed(x) <= s
  BY <1>2, <1>5
<1>7. QED
  BY <1>2, <1>3, <1>4, <1>5, <1>6 DEF s

LEMMA HowFar ==
  ASSUME Few, OrderInv, NEW e \in Ends, conn[Peer(e)].irs = conn[e].iss
  PROVE  /\ conn[e].iss \in Seqs /\ Passed(Peer(e)) \in Nat /\ Sent(e) \in Nat
         /\ Passed(Peer(e)) <= Sent(e) /\ Sent(e) <= Cardinality(sent[e])
         /\ Cardinality(sent[e]) \in Nat
         /\ 2 * W \in Nat /\ 2 <= 2 * W /\ 2 * (Cardinality(sent[e]) + 2 * W) < M
<1>1. TypeInv /\ SendInv /\ ReceiveInv /\ Peer(e) \in Ends /\ Peer(Peer(e)) = e
  BY PeerIs DEF OrderInv, NumberInv
<1>2. Passed(Peer(e)) <= SentIn(e, conn[e].iss)
  BY <1>1, PassedIs
<1>3. QED
  BY <1>2, HowMany DEF Sent

LEMMA CopyIs ==
  ASSUME OrderInv, SaidInv, NEW e \in Ends, NEW n \in 1 .. Sent(e), NEW p \in conn[e].tx,
         p.msg = Message(e, n)
  PROVE  p.seq = Plus(conn[e].iss, n)
<1>1. TypeInv /\ PacketsInv
  BY DEF OrderInv, NumberInv
<1>2. conn[e].iss \in Seqs /\ n \in Nat
  BY <1>1, SentIsNat DEF TypeInv, ConnsOK, Conns
<1>3. Message(e, n) \in Messages
  BY <1>2 DEF Message, Messages
<1>4. p.kind = "data"
  BY <1>3 DEF SaidInv, CopyOK
<1>5. p.seq = Plus(p.msg.from, p.msg.nr)
  BY <1>1, <1>4 DEF PacketsInv, PacketOK, SentBy
<1>6. QED
  BY <1>5, MessageIs

-----------------------------------------------------------------------------
(* The plain steps.                                                          *)

LEMMA NearIs ==
  ASSUME Near, BeginInv, NEW e \in Ends
  PROVE  /\ conn[e].st \in {"syn_sent", "syn_rcvd", "open"}
         /\ conn[e].st # "syn_sent" => conn[e].irs = conn[Peer(e)].iss
         /\ conn[e].st = "syn_sent" => e = "client"
         /\ conn[e].st = "syn_rcvd" => e = "server"
BY DEF Near, BeginInv, Ends, Peer

(* No message counts as acknowledged that the peer has not passed.              *)
LEMMA DropHeld ==
  ASSUME Few, OrderInv, SaidInv, NEW e \in Ends, conn[Peer(e)].irs = conn[e].iss,
         \/ \E k \in 0 .. Passed(Peer(e)) : conn[e].una = Plus(conn[e].iss, k + 1)
         \/ conn[e].una = 1 /\ conn[e].iss <= 2 * W,
         NEW n \in 1 .. Sent(e), HeldOne(e, n)
  PROVE  \/ \E p \in Unacked(conn[e]) \cup conn[Peer(e)].ooo : p.msg = Message(e, n)
         \/ n <= Passed(Peer(e))
<1> DEFINE a == conn[e].iss
           u == conn[e].una
           t == Passed(Peer(e))
           s == Cardinality(sent[e])
           w == 2 * W
<1>1. /\ a \in Seqs /\ t \in Nat /\ Sent(e) \in Nat /\ Sent(e) <= s /\ s \in Nat
      /\ w \in Nat /\ 2 * (s + w) < M
  BY HowFar
<1>2. n \in Nat /\ 1 <= n /\ n <= s
  BY <1>1
<1>3. ASSUME NEW p \in conn[e].tx, p.msg = Message(e, n), ~(n <= t) PROVE p \in Unacked(conn[e])
  <2>1. p.seq = Plus(a, n)
    BY <1>3, CopyIs
  <2>2. ~Before(Plus(a, n), u)
    <3>1. CASE \E k \in 0 .. t : u = Plus(a, k + 1)
      <4>1. PICK k \in 0 .. t : u = Plus(a, k + 1)
        BY <3>1
      <4> HIDE DEF a, u, t, s, w
      <4>2. k + 1 \in Nat /\ k + 1 <= n /\ 2 * n < M
        BY <1>1, <1>2, <1>3, SeqsAre
      <4>3. ~Before(Plus(a, n), Plus(a, k + 1))
        BY <1>1, <1>2, <4>2, NotBefore
      <4>4. QED
        BY <4>1, <4>3
    <3>2. CASE u = 1 /\ a <= w
      <4>1. u \in {0, 1} /\ u <= n
        BY <1>2, <3>2
      <4> HIDE DEF u, s, t
      <4>2. 2 * (n + w) < M
        <5> HIDE DEF w
        <5>1. QED
          BY <1>1, <1>2, SeqsAre
      <4>3. a <= 2 * W /\ 2 * (n + 2 * W) < M
        BY <3>2, <4>2
      <4>4. QED
        BY <1>1, <1>2, <4>1, <4>3, NotBeforeSmall
    <3>3. QED
      BY <3>1, <3>2
  <2>3. QED
    BY <2>1, <2>2 DEF Unacked
<1>4. QED
  BY <1>3 DEF HeldOne

LEMMA PlainNear ==
  ASSUME Few, OrderInv, KeptInv, OrderInv', EarlyInv', NEW e \in Ends, NEW outs,
         PlainStep(e, outs)
  PROVE  NearInv'
<1> DEFINE c == conn[e]
           d == conn'[e]
           x == Peer(e)
<1> SUFFICES ASSUME Near' PROVE NearInv'
  BY DEF NearInv
<1>1. /\ TypeInv /\ SendInv /\ BeginInv /\ TypeInv' /\ BeginInv'
      /\ NearInv /\ SaidInv /\ RcvdInv /\ EarlyInv
  BY DEF OrderInv, NumberInv, KeptInv
<1>2. x \in Ends /\ x # e /\ Peer(x) = e /\ conn'[x] = conn[x]
      /\ \A y \in Ends : y = e \/ y = x
  BY <1>1, SlotIs, PeerIs DEF PlainStep, Ends
<1>3. SameSlot(c, d) /\ ~Ended(c, d)
  <2>1. d.st \notin {"closed", "close_wait"}
    BY DEF Near, Ends
  <2>2. QED
    BY <2>1, PlainSlot DEF PlainStep, Ended
<1>4. d.st = c.st /\ d.iss = c.iss /\ d.irs = c.irs /\ d.cur = c.cur /\ d.ooo = c.ooo
      /\ d.sock = c.sock
  BY <1>3 DEF SameSlot
<1>5. Near
  BY <1>2, <1>4 DEF Near, Ends
<1>6. /\ \A y \in Ends : Passed(y)' = Passed(y) /\ Sent(y)' = Sent(y)
      /\ \A y \in Ends : Passed(y) \in Nat /\ Sent(y) \in Nat
  <2>1. \A y \in Ends : conn'[y].iss = conn[y].iss /\ sent'[y] = sent[y]
                        /\ conn'[y].cur = conn[y].cur /\ conn'[y].irs = conn[y].irs
    BY <1>2, <1>4 DEF PlainStep
  <2>2. AllPassed /\ AllSentNat
    BY <1>1, PassedAreNats, SentAreNats
  <2>3. QED
    BY <2>1, <2>2, SentStays DEF Passed, AllPassed, AllSentNat
<1>7. FirstOK /\ Acks(e) /\ UnaOK(e) /\ Held(e)
  BY <1>1, <1>5 DEF NearInv
<1>8. Onward(e)
  BY <1>4, <1>6 DEF Onward
<1>9. FirstOK'
  BY <1>2, <1>4, <1>6, <1>7 DEF FirstOK, Ends
<1>10. OutsTell(e, outs)
  <2> SUFFICES ASSUME NEW q \in outs, HasAck(q)
               PROVE  Told(x, q)' \/ (x = "server" /\ Early(q))
    BY DEF OutsTell
  <2>1. Says(c, q)
    BY DEF PlainStep
  <2>2. CASE c.st = "syn_sent"
    <3>1. e = "client" /\ c.up
      BY <1>1, <1>5, <2>2, NearIs DEF TypeInv, ConnsOK, ConnOK
    <3>2. c.cur = 0 /\ sent["client"] = {}
      BY <1>1, <2>2, <3>1 DEF EarlyInv
    <3>3. Sent("client") = 0
      BY <3>1, <3>2, NothingSent
    <3>4. c.nxt = Plus(c.iss, 1)
      BY <1>1, <3>1, <3>3 DEF SendInv
    <3>5. q.seq = c.nxt /\ q.ack = c.cur /\ q.eacks = {}
      BY <2>1, <2>2, <3>1 DEF Says
    <3>6. QED
      BY <3>1, <3>2, <3>4, <3>5 DEF Early, Peer
  <2>3. CASE c.st # "syn_sent"
    <3>1. q.ack \in {c.cur, c.irs} /\ \A y \in q.eacks : \E r \in c.ooo : r.seq = y
      BY <2>1 DEF Says
    <3>2. \E k \in 0 .. Passed(e) : q.ack = Plus(conn[e].irs, k)
      BY <3>1, CurIs
    <3>3. \E k \in 0 .. Passed(e)' : q.ack = Plus(conn'[e].irs, k)
      BY <1>4, <1>6, <3>2
    <3>4. SaysNow(e, q)'
      BY <1>4, <3>1, <3>3 DEF SaysNow, Plus
    <3>5. conn'[e].irs = conn'[x].iss
      BY <1>1, <1>2, <1>4, <1>5, <2>3, NearIs
    <3>6. TellsTruth'
      BY TruthTold, PTL
    <3>7. QED
      BY <3>4, <3>5, <3>6 DEF TellsTruth
  <2>4. QED
    BY <2>2, <2>3
<1>11. UnaOK(e)'
  <2>1. CASE d.skewed = TRUE
    BY <2>1 DEF UnaOK
  <2>2. CASE d.una = c.una /\ d.skewed = c.skewed
    BY <1>2, <1>4, <1>6, <1>7, <2>2 DEF UnaOK, Plus
  <2>3. QED
    BY <1>3, <2>1, <2>2 DEF PlainStep, Plain, Quiet, Skews, Drops
<1>12. Held(e)'
  <2>1. CASE d.skewed = TRUE
    BY <2>1 DEF Held
  <2>2. CASE d.tx = c.tx /\ d.skewed = c.skewed
    BY <1>2, <1>4, <1>6, <1>7, <2>2 DEF Held, HeldOne, Message
  <2>3. CASE d.tx = Unacked(c) /\ d.una = c.una /\ d.skewed = c.skewed
    <3> SUFFICES ASSUME ~c.skewed, NEW n \in 1 .. Sent(e) PROVE HeldOne(e, n)'
      BY <1>6, <2>3 DEF Held
    <3>1. c.st = "open"
      <4>1. c.st = "syn_sent" => Sent(e) = 0
        BY <1>1, <1>5, NearIs, NothingSent DEF EarlyInv
      <4>2. c.st = "syn_rcvd" => Sent(e) = 0
        BY <1>1, <1>5, NearIs DEF RcvdInv
      <4>3. Sent(e) # 0
        BY <1>6
      <4>4. QED
        BY <1>1, <1>5, <4>1, <4>2, <4>3, NearIs
    <3>2. \/ \E k \in 0 .. Passed(x) : c.una = Plus(c.iss, k + 1)
          \/ c.una = 1 /\ c.iss <= 2 * W
      BY <1>7, <3>1 DEF UnaOK
    <3>3. conn[x].irs = c.iss
      <4>1. CASE e = "client"
        BY <1>5, <4>1 DEF Near, Peer
      <4>2. CASE e = "server"
        <5>1. conn["client"].st # "syn_sent"
          <6>1. conn["client"].st = "syn_sent" => SentIn("client", conn["client"].iss) = 0
            BY <1>1, NothingSent DEF EarlyInv, Ends, Sent
          <6>2. conn["server"].irs = conn["client"].iss
            BY <1>5 DEF Near
          <6>3. Passed("server") <= SentIn("client", conn["server"].irs)
            BY <1>1, PassedIs DEF OrderInv, Ends, Peer
          <6>4. conn["client"].st = "syn_sent" => Passed("server") <= 0
            BY <6>1, <6>2, <6>3
          <6>5. Passed("server") \in Nat /\ Sent("server") # 0
            BY <1>6, <4>2
          <6>6. conn["client"].st = "syn_sent" => ~(Passed("server") > 0)
            BY <6>4, <6>5
          <6>7. QED
            BY <1>7, <6>5, <6>6 DEF FirstOK
        <5>2. QED
          BY <1>5, <4>2, <5>1 DEF Near, Peer
      <4>3. QED
        BY <4>1, <4>2 DEF Ends
    <3>4. HeldOne(e, n)
      BY <1>7 DEF Held
    <3>5. \/ \E p \in Unacked(c) \cup conn[x].ooo : p.msg = Message(e, n)
          \/ n <= Passed(x)
      BY <1>1, <3>2, <3>3, <3>4, DropHeld
    <3>6. QED
      BY <1>2, <1>4, <1>6, <2>3, <3>5 DEF HeldOne, Message
  <2>4. QED
    BY <1>3, <2>1, <2>2, <2>3 DEF PlainStep, Plain, Quiet, Skews, Drops
<1>13. QED
  <2>1. Sent(e) <= Sent(e)' /\ sent'[x] = sent[x] /\ Passing(e, outs)
        /\ conn' = [conn EXCEPT ![e] = conn'[e]] /\ conn'[e].iss = conn[e].iss
    BY <1>4, <1>6 DEF PlainStep
  <2>2. QED
    BY <1>1, <1>5, <1>8, <1>9, <1>10, <1>11, <1>12, <2>1, NearGoes

-----------------------------------------------------------------------------
(* The client opens, and an end sends a message.                               *)

LEMMA UnaFromAck ==
  ASSUME Few, OrderInv, NEW e \in Ends, NEW k \in 0 .. Passed(Peer(e)), NEW a,
         a = Plus(conn[e].iss, k)
  PROVE  Plus(a, 1) = Plus(conn[e].iss, k + 1)
<1> DEFINE i == conn[e].iss
           t == Passed(Peer(e))
           s == Cardinality(sent[e])
           w == 2 * W
<1>1. /\ i \in Seqs /\ t \in Nat /\ t <= s /\ s \in Nat
      /\ w \in Nat /\ 2 <= w /\ 2 * (s + w) < M
  BY HowMany
<1>2. k \in 0 .. t
  OBVIOUS
<1> HIDE DEF i, t, s, w
<1>3. k \in Nat /\ 1 \in Nat /\ k + 1 < M
  BY <1>1, <1>2, SeqsAre
<1>4. Plus(Plus(i, k), 1) = Plus(i, k + 1)
  BY <1>1, <1>3, PlusPlus
<1>5. QED
  BY <1>4 DEF i

LEMMA SynAckKept ==
  ASSUME Few, OrderInv, KeptInv, OrderInv', NEW e \in Ends, NEW p \in net[e],
         SynAckInSynSent(e, p)
  PROVE  KeptInv'
<1> DEFINE d == [conn[e] EXCEPT !.st = "open", !.cur = p.seq, !.irs = p.seq,
                                !.una = Plus(p.ack, 1)]
<1>1. /\ TypeInv /\ SendInv /\ PacketsInv /\ BeginInv /\ ReceiveInv /\ TypeInv'
      /\ NearInv /\ SaidInv /\ RcvdInv /\ EarlyInv /\ HeardInv
  BY DEF OrderInv, NumberInv, KeptInv
<1>2. conn[e].up /\ conn[e].st = "syn_sent" /\ p.kind = "synack" /\ Take(e, p, d, {})
      /\ UNCHANGED <<opens, sent>>
  BY DEF SynAckInSynSent
<1>3. e = "client" /\ Peer(e) = "server" /\ Peer("server") = e /\ "server" \in Ends
  BY <1>1, <1>2 DEF BeginInv, Ends, Peer
<1>4. conn' = [conn EXCEPT ![e] = d] /\ Passing(e, {})
  BY <1>1, <1>2, NetExchanged DEF Take, TypeInv
<1>5. conn[e] \in Conns
  BY <1>1 DEF TypeInv, ConnsOK
<1>6. /\ d.st = "open" /\ d.iss = conn[e].iss /\ d.irs = p.seq /\ d.tx = conn[e].tx
      /\ d.ooo = conn[e].ooo /\ d.una = Plus(p.ack, 1) /\ d.cur = p.seq
  BY <1>5 DEF Conns
<1> HIDE DEF d
<1>7. conn'[e] = d /\ conn'["server"] = conn["server"] /\ conn' = [conn EXCEPT ![e] = conn'[e]]
  BY <1>1, <1>3, <1>4, SlotIs
<1>8. \A x \in Ends : opens'[x] \in Nat /\ opens[x] <= opens'[x]
  BY <1>1, <1>2 DEF TypeInv, RestOK
<1>9. SaidInv'
  <2>1. \A q \in conn'[e].tx : CopyOK(q)
    BY <1>1, <1>6, <1>7 DEF SaidInv
  <2> DEFINE outs == {}
  <2>2. (\A q \in outs : SaidOK(e, q)) /\ Passing(e, outs)
    BY <1>4
  <2> HIDE DEF outs
  <2>3. conn' = [conn EXCEPT ![e] = conn'[e]]
    BY <1>7
  <2>4. TypeInv /\ SaidInv
    BY <1>1
  <2>5. QED
    BY <1>8, <2>1, <2>2, <2>3, <2>4, SaidStays
<1>10. RcvdInv'
  BY <1>1, <1>2, <1>7, RcvdStays
<1>11. opens["client"] # 0
  BY <1>1, <1>2, <1>3, <1>8 DEF SendInv
<1>12. EarlyInv'
  BY <1>2, <1>3, <1>6, <1>7, <1>11 DEF EarlyInv
<1>13. p.seq \in Used("server") /\ HasSyn(p) /\ HasAck(p)
  BY <1>1, <1>2, <1>3 DEF PacketsInv, PacketOK, SentBy, HasSyn, HasAck
<1>14. HeardInv'
  BY <1>1, <1>3, <1>6, <1>7, <1>8, <1>13, HeardStays
<1>15. NearInv'
  <2> SUFFICES ASSUME Near' PROVE NearInv'
    BY DEF NearInv
  <2>1. /\ conn["server"].st \in {"syn_rcvd", "open"}
        /\ conn["server"].irs = conn[e].iss /\ p.seq = conn["server"].iss
    BY <1>3, <1>6, <1>7 DEF Near
  <2>2. Near
    BY <1>2, <1>3, <2>1 DEF Near
  <2>3. FirstOK /\ Acks(e)
    BY <1>1, <2>2 DEF NearInv
  <2>4. Told(e, p)
    <3>1. Bears(Peer(e), conn[Peer(e)].iss, p)
      BY <1>3, <1>13, <2>1 DEF Bears
    <3>2. QED
      BY <1>3, <1>13, <2>3, <3>1 DEF Acks
  <2>5. sent[e] = {} /\ conn[e].irs = 0 /\ conn[e].cur = 0 /\ conn[e].ooo = {}
    BY <1>1, <1>2, <1>3 DEF EarlyInv, BeginInv
  <2>6. Sent(e) = 0 /\ Sent(e)' = 0
    BY <1>2, <1>6, <1>7, <2>5, NothingSent, SentStays
  <2>7. Onward(e)
    <3>1. Passed(e) = 0
      <4>1. 0 \in Seqs
        BY SeqsAre
      <4>2. (0 - 0) % M = 0
        BY <4>1, DiffIs
      <4>3. QED
        BY <2>5, <4>2 DEF Passed
    <3>2. Passed(e)' \in Nat
      <4>1. AllPassed'
        BY <1>1, PassedAreNats, PTL
      <4>2. QED
        BY <4>1 DEF AllPassed
    <3>3. QED
      BY <2>5, <3>1, <3>2 DEF Onward
  <2>8. OutsTell(e, {})
    BY DEF OutsTell
  <2>9. FirstOK'
    <3>1. Sent("server")' = Sent("server") /\ Passed("server")' = Passed("server")
      BY <1>2, <1>3, <1>7, SentStays DEF Passed
    <3>2. QED
      BY <1>7, <2>3, <3>1 DEF FirstOK
  <2>10. Held(e)'
    BY <2>6 DEF Held
  <2>11. UnaOK(e)'
    <3>1. PICK k \in 0 .. Passed(Peer(e)) : p.ack = Plus(conn[e].iss, k)
      BY <2>4 DEF Told
    <3>2. Plus(p.ack, 1) = Plus(conn[e].iss, k + 1)
      BY <3>1, UnaFromAck
    <3>3. Passed(Peer(e))' = Passed(Peer(e))
      BY <1>3, <1>7 DEF Passed
    <3>4. conn'[e].una = Plus(conn'[e].iss, k + 1)
      BY <1>6, <1>7, <3>2
    <3>5. QED
      BY <3>1, <3>3, <3>4 DEF UnaOK, Plus
  <2>12. sent'[Peer(e)] = sent[Peer(e)] /\ Sent(e) <= Sent(e)' /\ conn'[e].iss = conn[e].iss
    BY <1>2, <1>6, <1>7, <2>6
  <2>13. QED
    BY <1>1, <1>4, <1>7, <2>2, <2>7, <2>8, <2>9, <2>10, <2>11, <2>12, NearGoes
<1>16. QED
  BY <1>9, <1>10, <1>12, <1>14, <1>15 DEF KeptInv

LEMMA SendKept ==
  ASSUME Few, OrderInv, KeptInv, OrderInv', NEW e \in Ends, Send(e)
  PROVE  KeptInv'
<1> DEFINE x == Peer(e)
           c == conn[e]
           d == AfterSend(e)
           q == NewData(e)
<1>1. /\ TypeInv /\ SendInv /\ PacketsInv /\ BeginInv /\ ReceiveInv /\ TypeInv'
      /\ NearInv /\ SaidInv /\ RcvdInv /\ EarlyInv /\ HeardInv
  BY DEF OrderInv, NumberInv, KeptInv
<1>2. /\ c.up /\ c.st = "open"
      /\ conn' = [conn EXCEPT ![e] = d] /\ Transmit(e, {q})
      /\ sent' = [sent EXCEPT ![e] = @ \cup {Message(e, Sent(e) + 1)}]
      /\ opens' = opens
  BY <1>1, SendSteps DEF TypeInv, ConnsOK
<1>3. ~c.sock
  BY DEF Send, Holds
<1>4. Passing(e, {q})
  BY <1>1, <1>2, NetTransmitted DEF TypeInv
<1>5. c \in Conns
  BY <1>1 DEF TypeInv, ConnsOK
<1>6. /\ d.st = c.st /\ d.iss = c.iss /\ d.irs = c.irs /\ d.cur = c.cur /\ d.ooo = c.ooo
      /\ d.una = c.una /\ d.sock = c.sock /\ d.skewed = c.skewed /\ d.tx = c.tx \cup {q}
  BY <1>5 DEF Conns, AfterSend
<1>7. /\ q.kind = "data" /\ q.msg = Message(e, Sent(e) + 1) /\ q.ack = c.cur /\ q.eacks = {}
  BY DEF NewData, Packet
<1> HIDE DEF d, q
<1>8. /\ conn'[e] = d /\ conn' = [conn EXCEPT ![e] = conn'[e]] /\ x \in Ends /\ x # e
      /\ Peer(x) = e /\ conn'[x] = conn[x] /\ \A y \in Ends : y = e \/ y = x
  BY <1>1, <1>2, SlotIs, PeerIs DEF Ends
<1>9. /\ Sent(e) \in Nat /\ Sent(e)' = Sent(e) + 1 /\ sent'[x] = sent[x]
  <2>1. /\ Sent(e) \in Nat
        /\ \A i : SentIn(e, i)' = IF i = conn[e].iss THEN Sent(e) + 1 ELSE SentIn(e, i)
        /\ \A y \in Ends : y # e => sent'[y] = sent[y]
    BY <1>1, <1>2, SentOneMore
  <2>2. Sent(e)' = Sent(e) + 1
    BY <1>6, <1>8, <2>1 DEF Sent, SentIn
  <2>3. QED
    BY <1>8, <2>1, <2>2
<1>10. Sent(e)' = Sent(e) + 1 /\ Sent(e) <= Sent(e)' /\ Sent(x)' = Sent(x)
  BY <1>8, <1>9, SentStays
<1>11. \A y \in Ends : opens'[y] \in Nat /\ opens[y] <= opens'[y]
  BY <1>1, <1>2 DEF TypeInv, RestOK
<1>12. SaidInv'
  <2>1. \A r \in {q} : SaidOK(e, r)
    BY <1>7 DEF SaidOK, ControlKinds
  <2>2. \A r \in conn'[e].tx : CopyOK(r)
    BY <1>1, <1>6, <1>7, <1>8 DEF SaidInv, CopyOK
  <2>3. QED
    BY <1>1, <1>4, <1>8, <1>11, <2>1, <2>2, SaidStays
<1>13. RcvdInv'
  <2>1. CASE e = "server"
    BY <1>2, <1>6, <1>8, <2>1 DEF RcvdInv
  <2>2. CASE e = "client"
    BY <1>1, <1>8, <1>9, <2>2, RcvdStays DEF Peer
  <2>3. QED
    BY <2>1, <2>2 DEF Ends
<1>14. EarlyInv'
  <2>1. CASE e = "server"
    BY <1>1, <1>2, <1>4, <1>8, <1>9, <2>1, EarlyStays DEF Peer, Passing
  <2>2. CASE e = "client"
    <3>1. opens["client"] # 0
      BY <1>1, <1>2, <1>11, <2>2 DEF SendInv
    <3>2. QED
      BY <1>2, <1>6, <1>8, <2>2, <3>1 DEF EarlyInv
  <2>3. QED
    BY <2>1, <2>2 DEF Ends
<1>15. HeardInv'
  BY <1>1, <1>6, <1>8, <1>11, HeardStays DEF Ends
<1>16. NearInv'
  <2> SUFFICES ASSUME Near' PROVE NearInv'
    BY DEF NearInv
  <2>1. Near
    BY <1>6, <1>8 DEF Near, Ends
  <2>2. FirstOK /\ Acks(e) /\ UnaOK(e) /\ Held(e)
    BY <1>1, <2>1 DEF NearInv
  <2>3. \A y \in Ends : Passed(y)' = Passed(y) /\ Passed(y) \in Nat
    <3>1. \A y \in Ends : conn'[y].cur = conn[y].cur /\ conn'[y].irs = conn[y].irs
      BY <1>6, <1>8
    <3>2. AllPassed
      BY <1>1, PassedAreNats
    <3>3. QED
      BY <3>1, <3>2 DEF Passed, AllPassed
  <2>4. Onward(e)
    BY <1>6, <1>8, <2>3 DEF Onward
  <2>5. OutsTell(e, {q})
    <3> SUFFICES ASSUME NEW r \in {q} PROVE Told(x, r)'
      BY DEF OutsTell
    <3>0. r.ack = c.cur /\ r.eacks = {}
      BY <1>7
    <3>1. \E k \in 0 .. Passed(e) : r.ack = Plus(c.irs, k)
      BY <3>0, CurIs
    <3>2. SaysNow(e, r)'
      BY <1>6, <1>8, <2>3, <3>0, <3>1 DEF SaysNow, Plus
    <3>3. conn'[e].irs = conn'[x].iss
      BY <1>1, <1>2, <1>6, <1>8, <2>1, NearIs
    <3>4. TellsTruth'
      BY TruthTold, PTL
    <3>5. QED
      BY <3>2, <3>3, <3>4 DEF TellsTruth
  <2>6. FirstOK'
    <3>1. CASE e = "server"
      BY <1>3, <1>6, <1>8, <2>2, <2>3, <3>1 DEF FirstOK
    <3>2. CASE e = "client"
      BY <1>8, <1>10, <2>2, <2>3, <3>2 DEF FirstOK, Peer
    <3>3. QED
      BY <3>1, <3>2 DEF Ends
  <2>7. UnaOK(e)'
    BY <1>6, <1>8, <2>2, <2>3 DEF UnaOK, Plus
  <2>8. Held(e)'
    <3> SUFFICES ASSUME ~c.skewed, NEW n \in 1 .. Sent(e) + 1 PROVE HeldOne(e, n)'
      BY <1>6, <1>8, <1>10 DEF Held
    <3>1. Message(e, n)' = Message(e, n)
      BY <1>6, <1>8 DEF Message
    <3>2. CASE n = Sent(e) + 1
      BY <1>6, <1>7, <1>8, <3>1, <3>2 DEF HeldOne
    <3>3. CASE n # Sent(e) + 1
      <4>1. n \in 1 .. Sent(e)
        BY <1>9, <3>3
      <4>2. HeldOne(e, n)
        BY <2>2, <4>1 DEF Held
      <4>3. QED
        BY <1>6, <1>8, <2>3, <3>1, <4>2 DEF HeldOne
    <3>4. QED
      BY <3>2, <3>3
  <2>9. conn'[e].iss = conn[e].iss
    BY <1>6, <1>8
  <2>10. QED
    BY <1>1, <1>4, <1>8, <1>9, <1>10, <2>1, <2>4, <2>5, <2>6, <2>7, <2>8, <2>9, NearGoes
<1>17. QED
  BY <1>12, <1>13, <1>14, <1>15, <1>16 DEF KeptInv

-----------------------------------------------------------------------------
(* A packet is accepted: near, it acknowledges no more than its sender has.       *)

LEMMA AckTold ==
  ASSUME Apart, OrderInv, KeptInv, Near, NEW e \in Ends, NEW p \in net[e], Accepted(e, p)
  PROVE  /\ Told(e, p) \/ (e = "server" /\ Early(p))
         /\ \E k \in 1 .. 2 * W : p.seq = Plus(conn[Peer(e)].iss, Passed(e) + k)
                                  /\ Passed(e) + k <= Reach(Peer(e))
         /\ conn[e].irs = conn[Peer(e)].iss
<1> DEFINE x == Peer(e)
           i == conn[x].iss
           n == Passed(e)
           s == MaxSend[x]
           w == 2 * W
<1>1. TypeInv /\ SendInv /\ BeginInv /\ ReceiveInv /\ NearInv /\ x \in Ends
  BY PeerIs DEF OrderInv, NumberInv, KeptInv
<1>2. /\ conn[e].st \in {"syn_rcvd", "open"} /\ ~HasSyn(p) /\ ~HasRst(p)
      /\ SeqValid(conn[e], p)
  BY DEF Accepted, Regular, InConversation
<1>3. HasAck(p)
  BY <1>2 DEF HasAck, HasSyn, HasRst
<1>4. conn[e].irs = i
  BY <1>1, <1>2, NearIs
<1>5. /\ i \in Seqs /\ conn[e].cur \in Seqs /\ n \in Nat /\ conn[e].cur = Plus(i, n)
      /\ n <= SentIn(x, i) /\ SentIn(x, i) <= s /\ SentIn(x, i) \in Nat
  BY <1>1, <1>4, PassedIs
<1>6. PICK k \in 1 .. w : p.seq = Plus(conn[e].cur, k)
  <2>1. p.seq \in Seqs
    BY <1>1 DEF TypeInv, NetOK, Sendable, Packets
  <2>2. QED
    BY <1>2, <1>5, <2>1, WindowIs DEF SeqValid
<1>7. s \in Nat /\ w \in Nat /\ s + w < M
  BY <1>1, ApartIs
<1> DEFINE t == SentIn(x, i)
<1>8. n <= t /\ t <= s /\ t \in Nat
  BY <1>5
<1> HIDE DEF i, n, s, w, t
<1>9. k \in Nat /\ 1 <= k /\ k <= w /\ n + k < M /\ n + k \in 1 .. s + w
  BY <1>5, <1>6, <1>7, <1>8, SeqsAre
<1>10. p.seq = Plus(i, n + k)
  BY <1>5, <1>6, <1>9, PlusPlus
<1>11. Bears(x, i, p)
  BY <1>2, <1>9, <1>10 DEF Bears, Reach, s, w
<1>12. Told(e, p) \/ (e = "server" /\ Early(p))
  BY <1>1, <1>3, <1>11 DEF NearInv, Acks, i
<1>13. n + k <= s + w
  BY <1>9
<1>14. QED
  BY <1>4, <1>6, <1>10, <1>12, <1>13 DEF Reach, i, n, s, w

(* The acknowledgement of nothing, in a server that has sent nothing.            *)
LEMMA ZeroValid ==
  ASSUME NEW i \in Seqs, Between(0, Plus(Plus(i, 1), -1 - 2 * W), Plus(Plus(i, 1), -1))
  PROVE  i <= 2 * W
<1> DEFINE w == 2 * W
           b == Plus(i, 1)
           v == Plus(b, -1 - w)
<1>1. M \in Nat \ {0} /\ i \in Nat /\ i < M /\ w \in Nat /\ 2 * w + 2 <= M
  <2>1. M \in Nat \ {0} /\ W \in Nat /\ 4 * W + 2 <= M
    BY RdpAssumption
  <2>2. i \in Nat /\ i < M
    BY <2>1 DEF Seqs
  <2>3. QED
    BY <2>1, <2>2
<1>2. SUFFICES ASSUME i > w PROVE FALSE
  BY <1>1
<1>3. 1 \in Nat /\ 1 < M /\ 0 \in Nat /\ 0 < M /\ 0 + 1 < M /\ 0 + 1 = 1 /\ 0 \in Seqs
  BY <1>1 DEF Seqs
<1>4. Plus(Plus(i, 1), -1) = i
  <2>1. Plus(Plus(i, 0 + 1), -1) = Plus(i, 0)
    BY <1>3, OneBack
  <2>2. Plus(i, 0) = IF i + 0 < M THEN i + 0 ELSE i + 0 - M
    BY <1>3, PlusIs
  <2>3. Plus(i, 0) = i
    BY <1>1, <2>2
  <2>4. QED
    BY <1>3, <2>1, <2>3
<1>5. b = IF i + 1 < M THEN i + 1 ELSE i + 1 - M
  BY <1>3, PlusIs
<1>6. Between(0, v, i)
  BY <1>4
<1> HIDE DEF w, b
<1>7. v = i - w
  <2> DEFINE d == b + (-1 - w)
  <2>1. d = i - w \/ d = i - w - M
    BY <1>1, <1>5
  <2>2. d \in Int
    BY <1>1, <1>5
  <2> HIDE DEF d
  <2>3. CASE d = i - w
    <3>1. 0 <= d /\ d < M
      BY <1>1, <1>2, <2>2, <2>3
    <3>2. d % M = d
      BY <2>2, <3>1, ModSmall
    <3>3. QED
      BY <2>3, <3>2 DEF Plus, d
  <2>4. CASE d = i - w - M
    <3>1. -M <= d /\ d < 0
      BY <1>1, <1>2, <2>2, <2>4
    <3>2. d % M = d + M
      BY <2>2, <3>1, ModUnder
    <3>3. d + M = i - w
      BY <1>1, <2>4
    <3>4. QED
      BY <3>2, <3>3 DEF Plus, d
  <2>5. QED
    BY <2>1, <2>3, <2>4
<1> HIDE DEF v
<1>8. v \in Seqs
  BY <1>1, <1>2, <1>7 DEF Seqs
<1> DEFINE y == (i - v) % M
           z == (0 - v) % M
<1>9. y >= z
  BY <1>6 DEF Between
<1>10. y = IF i >= v THEN i - v ELSE i - v + M
  BY <1>8, DiffIs
<1>11. z = IF 0 >= v THEN 0 - v ELSE 0 - v + M
  BY <1>3, <1>8, DiffIs
<1> HIDE DEF y, z
<1>12. QED
  BY <1>1, <1>2, <1>7, <1>9, <1>10, <1>11

(* The server's message count and the client's, before the first message.        *)
LEMMA EarlyUna ==
  ASSUME Apart, Few, OrderInv, KeptInv, Near, NEW p \in net["server"], Accepted("server", p),
         Early(p), ~conn["server"].skewed
  PROVE  Plus(p.ack, 1) = 1 /\ conn["server"].iss <= 2 * W
<1> DEFINE c == conn["server"]
           i == c.iss
           n == Passed("server")
<1>1. /\ TypeInv /\ SendInv /\ BeginInv /\ ReceiveInv /\ NearInv /\ EarlyInv
      /\ "server" \in Ends /\ "client" \in Ends
      /\ Peer("server") = "client" /\ Peer("client") = "server"
  BY DEF OrderInv, NumberInv, KeptInv, Ends, Peer
<1>2. p.ack = 0 /\ p.seq = Plus(conn["client"].iss, 1)
  BY DEF Early
<1>3. M \in Nat \ {0} /\ 1 < M /\ 1 \in Nat /\ 0 \in Seqs /\ W \in Nat
  BY SeqsAre, RdpAssumption
<1>4. Plus(p.ack, 1) = 1
  <2>1. Plus(0, 1) = IF 0 + 1 < M THEN 0 + 1 ELSE 0 + 1 - M
    BY <1>3, PlusIs
  <2>2. Plus(0, 1) = 1
    BY <1>3, <2>1
  <2>3. QED
    BY <1>2, <2>2
<1>5. n = 0
  <2>1. PICK k \in 1 .. 2 * W : p.seq = Plus(conn["client"].iss, n + k)
                                /\ n + k <= Reach("client")
    BY <1>1, AckTold
  <2>2. n \in Nat /\ conn["client"].iss \in Seqs
    BY <1>1, PassedIs DEF TypeInv, ConnsOK, Conns
  <2>3. Reach("client") \in Nat /\ Reach("client") < M /\ 2 * W \in Nat
    BY <1>1, ReachIs, ApartIs
  <2> DEFINE r == Reach("client")
             w == 2 * W
  <2>4. k \in 1 .. w /\ n + k <= r /\ r \in Nat /\ r < M /\ w \in Nat
    BY <2>1, <2>3
  <2> HIDE DEF n, r, w
  <2>5. n + k \in Nat /\ n + k < M /\ k \in Nat /\ 1 <= k
    BY <1>3, <2>2, <2>4
  <2>6. n + k = 1
    BY <1>2, <1>3, <2>1, <2>2, <2>5, PlusInjective
  <2>7. QED
    BY <2>2, <2>5, <2>6
<1>6. Sent("server") = 0
  <2>1. ~(n > 0)
    BY <1>5
  <2>2. FirstOK
    BY <1>1 DEF NearInv
  <2>3. QED
    BY <2>1, <2>2 DEF FirstOK
<1>7. c.up /\ c.st \in {"syn_rcvd", "open"} /\ AckValid(c, p) /\ (c.st = "syn_rcvd" => p.ack = i)
  BY DEF Accepted, Regular, InConversation
<1>8. i \in Seqs
  BY <1>1 DEF TypeInv, ConnsOK, Conns
<1>9. CASE c.st = "syn_rcvd"
  <2>1. i = 0
    BY <1>2, <1>7, <1>9
  <2>2. i <= 2 * W
    BY <1>3, <2>1
  <2>3. QED
    BY <1>4, <2>2
<1>10. CASE c.st = "open"
  <2>1. \/ \E k \in 0 .. Passed("client") : c.una = Plus(i, k + 1)
        \/ c.una = 1 /\ i <= 2 * W
    BY <1>1, <1>10 DEF NearInv, UnaOK
  <2>2. CASE c.una = 1 /\ i <= 2 * W
    BY <1>4, <2>2
  <2>3. CASE \E k \in 0 .. Passed("client") : c.una = Plus(i, k + 1)
    <3>1. Passed("client") = 0
      <4>1. CASE conn["client"].st = "syn_sent"
        <5>1. conn["client"].irs = 0 /\ conn["client"].cur = 0
          BY <1>1, <4>1 DEF EarlyInv
        <5>2. (0 - 0) % M = 0
          BY <1>3, DiffIs
        <5>3. QED
          BY <5>1, <5>2 DEF Passed
      <4>2. CASE conn["client"].st # "syn_sent"
        <5>1. conn["client"].irs = i
          BY <1>1, <4>2, NearIs
        <5>2. Passed("client") \in Nat /\ Passed("client") <= SentIn("server", i)
          BY <1>1, <5>1, PassedIs
        <5>3. SentIn("server", i) = 0
          BY <1>6 DEF Sent
        <5>4. QED
          BY <5>2, <5>3
      <4>3. QED
        BY <4>1, <4>2
    <3>2. PICK k \in 0 .. 0 : c.una = Plus(i, k + 1)
      BY <2>3, <3>1
    <3>3. k + 1 = 1
      BY <3>2
    <3>4. c.una = Plus(i, 1)
      BY <3>2, <3>3
    <3>5. c.nxt = Plus(i, 1)
      <4>1. c.nxt = Plus(i, Sent("server") + 1)
        BY <1>1, <1>7 DEF SendInv
      <4>2. Sent("server") + 1 = 1
        BY <1>6
      <4>3. QED
        BY <4>1, <4>2
    <3>6. Between(0, Plus(Plus(i, 1), -1 - 2 * W), Plus(Plus(i, 1), -1))
      BY <1>2, <1>7, <3>4, <3>5 DEF AckValid
    <3>7. i <= 2 * W
      BY <1>8, <3>6, ZeroValid
    <3>8. QED
      BY <1>4, <3>7
  <2>4. QED
    BY <2>1, <2>2, <2>3
<1>11. QED
  BY <1>7, <1>9, <1>10

LEMMA AcceptedUna ==
  ASSUME Apart, Few, OrderInv, KeptInv, Near, NEW e \in Ends, NEW p \in net[e], Accepted(e, p),
         ~conn[e].skewed
  PROVE  \/ \E k \in 0 .. Passed(Peer(e)) : Plus(p.ack, 1) = Plus(conn[e].iss, k + 1)
         \/ e = "server" /\ Plus(p.ack, 1) = 1 /\ conn[e].iss <= 2 * W
<1>1. Told(e, p) \/ (e = "server" /\ Early(p))
  BY AckTold
<1>2. CASE Told(e, p)
  <2>1. PICK k \in 0 .. Passed(Peer(e)) : p.ack = Plus(conn[e].iss, k)
    BY <1>2 DEF Told
  <2>2. Plus(p.ack, 1) = Plus(conn[e].iss, k + 1)
    BY <2>1, UnaFromAck
  <2>3. QED
    BY <2>2
<1>3. CASE e = "server" /\ Early(p)
  BY <1>3, EarlyUna
<1>4. QED
  BY <1>1, <1>2, <1>3

(* A copy is freed because the peer has the message.                            *)
LEMMA AcceptedFrees ==
  ASSUME Apart, Few, OrderInv, KeptInv, Near, NEW e \in Ends, NEW p \in net[e], Accepted(e, p),
         NEW n \in 1 .. Sent(e), NEW q \in conn[e].tx, q.msg = Message(e, n), q.seq \in p.eacks
  PROVE  n <= Passed(Peer(e)) \/ \E r \in conn[Peer(e)].ooo : r.msg = Message(e, n)
<1>1. Told(e, p) \/ p.eacks = {}
  BY AckTold DEF Early
<1>2. PICK j \in 1 .. Sent(e) :
        /\ q.seq = Plus(conn[e].iss, j)
        /\ j <= Passed(Peer(e)) \/ \E r \in conn[Peer(e)].ooo : r.msg = Message(e, j)
  BY <1>1 DEF Told, Got
<1>3. q.seq = Plus(conn[e].iss, n)
  BY CopyIs DEF KeptInv
<1>4. conn[e].iss \in Seqs /\ Sent(e) \in Nat /\ j \in Nat /\ n \in Nat /\ j < M /\ n < M
  <2> DEFINE s == Cardinality(sent[e])
             w == 2 * W
             t == Sent(e)
  <2>1. conn[e].iss \in Seqs /\ t \in Nat /\ t <= s /\ s \in Nat /\ w \in Nat /\ 2 * (s + w) < M
    BY HowMany
  <2>2. j \in 1 .. t /\ n \in 1 .. t
    BY <1>2
  <2> HIDE DEF s, w, t
  <2>3. j \in Nat /\ n \in Nat /\ j < M /\ n < M
    BY <2>1, <2>2, SeqsAre
  <2>4. QED
    BY <2>1, <2>3 DEF t
<1>5. j = n
  BY <1>2, <1>3, <1>4, PlusInjective
<1>6. QED
  BY <1>2, <1>5

LEMMA AcceptedKeeps ==
  ASSUME Apart, Few, OrderInv, KeptInv, OrderInv', NEW e \in Ends, NEW p \in net[e], Accepted(e, p),
         NEW d, NEW outs, Take(e, p, d, outs), UNCHANGED <<opens, sent>>,
         d.st = "open", d.iss = conn[e].iss, d.irs = conn[e].irs, d.skewed = conn[e].skewed,
         d.una = Plus(p.ack, 1), d.tx \subseteq conn[e].tx,
         \A q \in conn[e].tx : q \in d.tx \/ q.seq \in p.eacks,
         Onward(e), \A q \in outs : SaidOK(e, q), \A q \in outs : SaysNow(e, q)',
         \/ d.sock = conn[e].sock /\ Passed(e)' = Passed(e)
         \/ d.sock = FALSE /\ Passed(e)' > 0
  PROVE  KeptInv'
<1> DEFINE c == conn[e]
           x == Peer(e)
<1>1. /\ TypeInv /\ SendInv /\ BeginInv /\ ReceiveInv /\ TypeInv'
      /\ NearInv /\ SaidInv /\ RcvdInv /\ EarlyInv /\ HeardInv
  BY DEF OrderInv, NumberInv, KeptInv
<1>2. conn' = [conn EXCEPT ![e] = d] /\ Passing(e, outs)
  BY <1>1, NetExchanged DEF Take, TypeInv
<1>3. /\ conn'[e] = d /\ conn' = [conn EXCEPT ![e] = conn'[e]] /\ x \in Ends /\ x # e
      /\ Peer(x) = e /\ conn'[x] = conn[x] /\ \A y \in Ends : y = e \/ y = x
  BY <1>1, <1>2, SlotIs, PeerIs DEF Ends
<1>4. c.up /\ c.st \in {"syn_rcvd", "open"} /\ (e = "client" => c.st = "open")
  BY <1>1 DEF Accepted, Regular, InConversation, BeginInv
<1>5. \A y \in Ends : opens'[y] \in Nat /\ opens[y] <= opens'[y]
  BY <1>1 DEF TypeInv, RestOK
<1>6. \A y \in Ends : conn'[y].iss = conn[y].iss /\ Sent(y)' = Sent(y)
  BY <1>3, SentStays
<1>7. SaidInv'
  <2>1. \A q \in conn'[e].tx : CopyOK(q)
    BY <1>1, <1>3 DEF SaidInv
  <2>2. QED
    BY <1>1, <1>2, <1>3, <1>5, <2>1, SaidStays
<1>8. RcvdInv'
  <2>1. CASE e = "server"
    BY <1>3, <2>1 DEF RcvdInv
  <2>2. CASE e = "client"
    BY <1>1, <1>3, <2>2, RcvdStays DEF Peer
  <2>3. QED
    BY <2>1, <2>2 DEF Ends
<1>9. EarlyInv'
  <2>1. CASE e = "server"
    BY <1>1, <1>2, <1>3, <2>1, EarlyStays DEF Peer, Passing
  <2>2. CASE e = "client"
    <3>1. opens["client"] # 0
      BY <1>1, <1>4, <1>5, <2>2 DEF SendInv
    <3>2. QED
      BY <1>3, <2>2, <3>1 DEF EarlyInv
  <2>3. QED
    BY <2>1, <2>2 DEF Ends
<1>10. HeardInv'
  BY <1>1, <1>3, <1>4, <1>5, HeardStays DEF Ends
<1>11. NearInv'
  <2> SUFFICES ASSUME Near' PROVE NearInv'
    BY DEF NearInv
  <2>1. Near
    BY <1>3, <1>4 DEF Near, Ends
  <2>2. FirstOK /\ Acks(e) /\ UnaOK(e) /\ Held(e)
    BY <1>1, <2>1 DEF NearInv
  <2>3. Passed(x)' = Passed(x) /\ Passed(x) \in Nat
    <3>1. AllPassed
      BY <1>1, PassedAreNats
    <3>2. QED
      BY <1>3, <3>1 DEF Passed, AllPassed
  <2>4. OutsTell(e, outs)
    <3>1. conn'[e].irs = conn'[x].iss
      BY <1>1, <1>3, <1>4, <2>1, NearIs
    <3>2. TellsTruth'
      BY TruthTold, PTL
    <3>3. QED
      BY <3>1, <3>2 DEF TellsTruth, OutsTell
  <2>5. FirstOK'
    <3>1. CASE e = "server"
      BY <1>3, <1>6, <2>2, <3>1 DEF FirstOK
    <3>2. CASE e = "client"
      BY <1>3, <1>6, <2>2, <2>3, <3>2 DEF FirstOK, Peer
    <3>3. QED
      BY <3>1, <3>2 DEF Ends
  <2>6. UnaOK(e)'
    <3> SUFFICES ASSUME ~c.skewed PROVE UnaOK(e)'
      BY <1>3 DEF UnaOK
    <3>1. \/ \E k \in 0 .. Passed(x) : d.una = Plus(d.iss, k + 1)
          \/ e = "server" /\ d.una = 1 /\ d.iss <= 2 * W
      BY <2>1, AcceptedUna
    <3>2. QED
      BY <1>3, <2>3, <3>1 DEF UnaOK, Plus
  <2>7. Held(e)'
    <3> SUFFICES ASSUME ~c.skewed, NEW n \in 1 .. Sent(e) PROVE HeldOne(e, n)'
      BY <1>3, <1>6 DEF Held
    <3>1. Message(e, n)' = Message(e, n)
      BY <1>3 DEF Message
    <3>2. HeldOne(e, n)
      BY <2>2 DEF Held
    <3>3. CASE n <= Passed(x) \/ \E r \in conn[x].ooo : r.msg = Message(e, n)
      BY <1>3, <2>3, <3>1, <3>3 DEF HeldOne
    <3>4. CASE \E q \in c.tx : q.msg = Message(e, n)
      <4>1. PICK q \in c.tx : q.msg = Message(e, n)
        BY <3>4
      <4>2. CASE q \in d.tx
        BY <1>3, <3>1, <4>1, <4>2 DEF HeldOne
      <4>3. CASE q.seq \in p.eacks
        BY <2>1, <3>3, <4>1, <4>3, AcceptedFrees
      <4>4. QED
        BY <4>1, <4>2, <4>3
    <3>5. QED
      BY <3>2, <3>3, <3>4 DEF HeldOne
  <2>8. sent'[x] = sent[x] /\ Sent(e) <= Sent(e)' /\ conn'[e].iss = conn[e].iss
    <3>1. AllSentNat
      BY <1>1, SentAreNats
    <3>2. QED
      BY <1>3, <1>6, <3>1 DEF AllSentNat
  <2>9. QED
    BY <1>1, <1>2, <1>3, <2>1, <2>4, <2>5, <2>6, <2>7, <2>8, NearGoes
<1>12. QED
  BY <1>7, <1>8, <1>9, <1>10, <1>11 DEF KeptInv

(* The slot after an acknowledgement that nothing else comes of, but that copies    *)
(* it names are freed.                                                       *)
LEMMA AckKept ==
  ASSUME Apart, Few, OrderInv, KeptInv, OrderInv', NEW e \in Ends, NEW p \in net[e], Accepted(e, p),
         NEW d, Take(e, p, d, {}), UNCHANGED <<opens, sent>>,
         d.st = "open", d.iss = conn[e].iss, d.irs = conn[e].irs, d.skewed = conn[e].skewed,
         d.una = Plus(p.ack, 1), d.tx \subseteq conn[e].tx,
         \A q \in conn[e].tx : q \in d.tx \/ q.seq \in p.eacks,
         d.sock = conn[e].sock, d.cur = conn[e].cur, d.ooo = conn[e].ooo
  PROVE  KeptInv'
<1> DEFINE outs == {}
<1>1. TypeInv
  BY DEF OrderInv, NumberInv
<1>2. conn'[e] = d
  BY <1>1, SlotIs DEF Take
<1>3. Passed(e)' = Passed(e) /\ Passed(e) \in Nat
  <2>1. AllPassed
    BY <1>1, PassedAreNats
  <2>2. QED
    BY <1>2, <2>1 DEF Passed, AllPassed
<1>4. Onward(e)
  BY <1>2, <1>3 DEF Onward
<1>5. Take(e, p, d, outs) /\ (\A q \in outs : SaidOK(e, q)) /\ (\A q \in outs : SaysNow(e, q)')
  OBVIOUS
<1> HIDE DEF outs
<1>6. d.sock = conn[e].sock /\ Passed(e)' = Passed(e)
  BY <1>3
<1>7. QED
  BY <1>4, <1>5, <1>6, AcceptedKeeps

LEMMA AckedFacts ==
  ASSUME TypeInv, NEW e \in Ends, NEW p \in net[e], Accepted(e, p)
  PROVE  LET c == Acked(conn[e], p) IN
           /\ c \in Conns
           /\ c.st = "open" /\ c.iss = conn[e].iss /\ c.irs = conn[e].irs /\ c.cur = conn[e].cur
           /\ c.una = Plus(p.ack, 1) /\ c.tx = conn[e].tx /\ c.ooo = conn[e].ooo
           /\ c.sock = conn[e].sock /\ c.skewed = conn[e].skewed /\ c.nxt = conn[e].nxt
           /\ c.rx = conn[e].rx
<1>1. conn[e] \in Conns /\ Acked(conn[e], p) \in Conns
  BY AckMinor DEF TypeInv, ConnsOK
<1>2. QED
  BY <1>1 DEF Acked, Conns

LEMMA AloneKept ==
  ASSUME Apart, Few, OrderInv, KeptInv, OrderInv', NEW e \in Ends, NEW p \in net[e], Accepted(e, p),
         Take(e, p, Acked(conn[e], p), {}), UNCHANGED <<opens, sent>>
  PROVE  KeptInv'
<1> DEFINE d == Acked(conn[e], p)
<1>1. TypeInv
  BY DEF OrderInv, NumberInv
<1>2. /\ d.st = "open" /\ d.iss = conn[e].iss /\ d.irs = conn[e].irs /\ d.skewed = conn[e].skewed
      /\ d.una = Plus(p.ack, 1) /\ d.tx = conn[e].tx
      /\ d.sock = conn[e].sock /\ d.cur = conn[e].cur /\ d.ooo = conn[e].ooo
  BY <1>1, AckedFacts
<1>3. Take(e, p, d, {})
  OBVIOUS
<1> HIDE DEF d
<1>4. d.tx \subseteq conn[e].tx /\ \A q \in conn[e].tx : q \in d.tx \/ q.seq \in p.eacks
  BY <1>2
<1>5. QED
  BY <1>2, <1>3, <1>4, AckKept

LEMMA NewAckKept ==
  ASSUME Apart, Few, OrderInv, KeptInv, OrderInv', NEW e \in Ends, NEW p \in net[e], NewAck(e, p)
  PROVE  KeptInv'
<1> DEFINE c == Acked(conn[e], p)
           d == [c EXCEPT !.tx = {q \in @ : q.seq \notin p.eacks}]
<1>1. TypeInv /\ Accepted(e, p) /\ Take(e, p, d, {}) /\ UNCHANGED <<opens, sent>>
  BY DEF OrderInv, NumberInv, NewAck
<1>2. /\ c \in Conns
      /\ c.st = "open" /\ c.iss = conn[e].iss /\ c.irs = conn[e].irs /\ c.skewed = conn[e].skewed
      /\ c.una = Plus(p.ack, 1) /\ c.tx = conn[e].tx
      /\ c.sock = conn[e].sock /\ c.cur = conn[e].cur /\ c.ooo = conn[e].ooo
  BY <1>1, AckedFacts
<1> HIDE DEF c
<1>3. /\ d.st = c.st /\ d.iss = c.iss /\ d.irs = c.irs /\ d.skewed = c.skewed
      /\ d.una = c.una /\ d.tx = {q \in c.tx : q.seq \notin p.eacks}
      /\ d.sock = c.sock /\ d.cur = c.cur /\ d.ooo = c.ooo
  BY <1>2 DEF Conns
<1> HIDE DEF d
<1>4. d.tx \subseteq conn[e].tx /\ \A q \in conn[e].tx : q \in d.tx \/ q.seq \in p.eacks
  BY <1>2, <1>3
<1>5. /\ d.st = "open" /\ d.iss = conn[e].iss /\ d.irs = conn[e].irs /\ d.skewed = conn[e].skewed
      /\ d.una = Plus(p.ack, 1)
      /\ d.sock = conn[e].sock /\ d.cur = conn[e].cur /\ d.ooo = conn[e].ooo
  BY <1>2, <1>3
<1>6. QED
  BY <1>1, <1>4, <1>5, AckKept

LEMMA EackFacts ==
  \A c : /\ Eack(c).seq = c.nxt /\ Eack(c).ack = c.cur
         /\ Eack(c).eacks = {r.seq : r \in c.ooo}
BY DEF Eack, Control, Packet

LEMMA OutOfOrderKept ==
  ASSUME Apart, Few, OrderInv, KeptInv, OrderInv', NEW e \in Ends, NEW p \in net[e],
         NewOutOfOrder(e, p), Take(e, p, Kept(e, p), {Eack(Kept(e, p))})
  PROVE  KeptInv'
<1> DEFINE c == Acked(conn[e], p)
           d == Kept(e, p)
           outs == {Eack(d)}
<1>1. TypeInv /\ SendInv /\ Accepted(e, p) /\ UNCHANGED <<opens, sent>>
  BY DEF OrderInv, NumberInv, NewOutOfOrder
<1>2. /\ c \in Conns
      /\ c.st = "open" /\ c.iss = conn[e].iss /\ c.irs = conn[e].irs /\ c.skewed = conn[e].skewed
      /\ c.una = Plus(p.ack, 1) /\ c.tx = conn[e].tx /\ c.nxt = conn[e].nxt
      /\ c.sock = conn[e].sock /\ c.cur = conn[e].cur /\ c.ooo = conn[e].ooo
  BY <1>1, AckedFacts
<1>3. d = [c EXCEPT !.ooo = @ \cup {p}]
  BY DEF Kept
<1>4. Take(e, p, d, outs)
  OBVIOUS
<1>5. \A q \in outs : q.seq = d.nxt /\ q.ack = d.cur /\ q.eacks = {r.seq : r \in d.ooo}
  BY EackFacts
<1> HIDE DEF c, d, outs
<1>6. /\ d.st = "open" /\ d.iss = conn[e].iss /\ d.irs = conn[e].irs /\ d.skewed = conn[e].skewed
      /\ d.una = Plus(p.ack, 1) /\ d.tx = conn[e].tx /\ d.nxt = conn[e].nxt
      /\ d.sock = conn[e].sock /\ d.cur = conn[e].cur /\ d.ooo = conn[e].ooo \cup {p}
  <2>1. /\ d.st = c.st /\ d.iss = c.iss /\ d.irs = c.irs /\ d.skewed = c.skewed
        /\ d.una = c.una /\ d.tx = c.tx /\ d.nxt = c.nxt
        /\ d.sock = c.sock /\ d.cur = c.cur /\ d.ooo = c.ooo \cup {p}
    BY <1>2, <1>3 DEF Conns
  <2>2. QED
    BY <1>2, <2>1
<1>7. conn'[e] = d
  BY <1>1, <1>4, SlotIs DEF Take
<1>8. Passed(e)' = Passed(e) /\ Passed(e) \in Nat
  <2>1. AllPassed
    BY <1>1, PassedAreNats
  <2>2. QED
    BY <1>6, <1>7, <2>1 DEF Passed, AllPassed
<1>9. Onward(e)
  BY <1>6, <1>7, <1>8 DEF Onward
<1>10. conn[e].up
  BY <1>1 DEF Accepted, Regular, InConversation
<1>11. \A q \in outs : SaidOK(e, q)
  BY <1>1, <1>5, <1>6, <1>10, NextSaid
<1>12. \A q \in outs : SaysNow(e, q)'
  <2> SUFFICES ASSUME NEW q \in outs PROVE SaysNow(e, q)'
    OBVIOUS
  <2>1. \E k \in 0 .. Passed(e) : conn[e].cur = Plus(conn[e].irs, k)
    BY CurIs
  <2>2. \E k \in 0 .. Passed(e)' : q.ack = Plus(conn'[e].irs, k)
    BY <1>5, <1>6, <1>7, <1>8, <2>1
  <2>3. \A y \in q.eacks : \E r \in conn'[e].ooo : r.seq = y
    BY <1>5, <1>7
  <2>4. QED
    BY <2>2, <2>3 DEF SaysNow, Plus
<1>13. d.tx \subseteq conn[e].tx /\ \A q \in conn[e].tx : q \in d.tx \/ q.seq \in p.eacks
  BY <1>6
<1>14. d.sock = conn[e].sock /\ Passed(e)' = Passed(e)
  BY <1>6, <1>8
<1>15. QED
  BY <1>1, <1>4, <1>6, <1>9, <1>11, <1>12, <1>13, <1>14, AcceptedKeeps

LEMMA FlushedFacts ==
  ASSUME TypeInv, NEW e \in Ends, NEW p \in net[e], Accepted(e, p), p.kind = "data",
         Free(Acked(conn[e], p)) > 0
  PROVE  LET b == Received(e, p)
             d == Flushed(e, p) IN
           /\ b.nxt = conn[e].nxt
           /\ d.st = "open" /\ d.iss = conn[e].iss /\ d.irs = conn[e].irs
           /\ d.skewed = conn[e].skewed /\ d.una = Plus(p.ack, 1) /\ d.tx = conn[e].tx
           /\ d.sock = FALSE
           /\ d.ooo = conn[e].ooo \ {Following(b)[k] : k \in 1 .. Len(Following(b))}
<1> DEFINE c == Acked(conn[e], p)
           b == Received(e, p)
           d == Flushed(e, p)
<1>1. /\ c \in Conns
      /\ c.st = "open" /\ c.iss = conn[e].iss /\ c.irs = conn[e].irs /\ c.skewed = conn[e].skewed
      /\ c.una = Plus(p.ack, 1) /\ c.tx = conn[e].tx /\ c.nxt = conn[e].nxt
      /\ c.ooo = conn[e].ooo
  BY AckedFacts
<1>2. b \in Conns
  BY ReceivedIs DEF ConnOK
<1>3. b = [c EXCEPT !.sock = FALSE, !.cur = p.seq, !.rx = Append(@, p.msg)]
  BY DEF Received
<1>4. d = [b EXCEPT !.cur = Plus(@, Len(Following(b))),
                    !.ooo = @ \ {Following(b)[k] : k \in 1 .. Len(Following(b))},
                    !.rx = @ \o Fitting(b)]
  BY DEF Flushed, AfterFlush
<1> HIDE DEF b, c, d
<1>5. /\ b.st = c.st /\ b.iss = c.iss /\ b.irs = c.irs /\ b.skewed = c.skewed /\ b.una = c.una
      /\ b.tx = c.tx /\ b.nxt = c.nxt /\ b.ooo = c.ooo /\ b.sock = FALSE
  BY <1>1, <1>3 DEF Conns
<1>6. /\ d.st = b.st /\ d.iss = b.iss /\ d.irs = b.irs /\ d.skewed = b.skewed /\ d.una = b.una
      /\ d.tx = b.tx /\ d.sock = b.sock
      /\ d.ooo = b.ooo \ {Following(b)[k] : k \in 1 .. Len(Following(b))}
  BY <1>2, <1>4 DEF Conns
<1>7. /\ b.nxt = conn[e].nxt
      /\ d.st = "open" /\ d.iss = conn[e].iss /\ d.irs = conn[e].irs
      /\ d.skewed = conn[e].skewed /\ d.una = Plus(p.ack, 1) /\ d.tx = conn[e].tx
      /\ d.sock = FALSE
      /\ d.ooo = conn[e].ooo \ {Following(b)[k] : k \in 1 .. Len(Following(b))}
  BY <1>1, <1>5, <1>6
<1>8. QED
  BY <1>7 DEF b, d

LEMMA AckFacts ==
  ASSUME NEW b, NEW q \in AckIfRoom(b)
  PROVE  q.seq = b.nxt /\ q.ack = b.cur /\ q.eacks = {}
BY DEF AckIfRoom, Control, Packet

LEMMA FlushedKept ==
  ASSUME Apart, Few, OrderInv, KeptInv, OrderInv', NEW e \in Ends, NEW p \in net[e],
         NewInOrder(e, p), Free(Acked(conn[e], p)) > 0,
         Take(e, p, AfterFlush(Received(e, p)), AckIfRoom(Received(e, p)))
  PROVE  KeptInv'
<1> DEFINE b == Received(e, p)
           d == Flushed(e, p)
           outs == AckIfRoom(b)
           n == Passed(e)
           F == Following(b)
           t == Passed(e)'
<1>1. /\ TypeInv /\ NumberInv /\ SendInv /\ ReceiveInv /\ TypeInv' /\ Accepted(e, p)
      /\ p.kind = "data" /\ p.seq = Plus(conn[e].cur, 1) /\ UNCHANGED <<opens, sent>>
  BY InOrderSteps DEF OrderInv, NumberInv
<1>2. n \in Nat /\ Len(F) \in Nat /\ t = (n + 1) + Len(F)
  BY <1>1, FlushedPasses
<1>3. ConnOK(b) /\ b.cur = p.seq /\ b.ooo = conn[e].ooo
  BY <1>1, FlushedIs
<1>4. /\ b.nxt = conn[e].nxt
      /\ d.st = "open" /\ d.iss = conn[e].iss /\ d.irs = conn[e].irs
      /\ d.skewed = conn[e].skewed /\ d.una = Plus(p.ack, 1) /\ d.tx = conn[e].tx
      /\ d.sock = FALSE
      /\ d.ooo = conn[e].ooo \ {F[k] : k \in 1 .. Len(F)}
  BY <1>1, FlushedFacts
<1>5. Take(e, p, d, outs)
  BY DEF Flushed
<1>6. \A q \in outs : q.seq = b.nxt /\ q.ack = b.cur /\ q.eacks = {}
  BY AckFacts
<1> HIDE DEF b, d, outs
<1>7. /\ p.seq = Plus(conn[e].irs, n + 1)
      /\ \A k \in 1 .. Len(F) : F[k].msg.nr = n + 1 + k
  BY <1>1, <1>3, FollowingNumbers
<1>8. conn'[e] = d
  BY <1>1, <1>5, SlotIs DEF Take
<1>9. conn[e].up
  BY <1>1 DEF Accepted, Regular, InConversation
<1>10. \A q \in outs : SaidOK(e, q)
  BY <1>1, <1>4, <1>6, <1>9, NextSaid
<1> HIDE DEF F, n, t
<1>11. n + 1 \in 0 .. t /\ n <= t /\ t > 0
  BY <1>2
<1>12. \A q \in outs : SaysNow(e, q)'
  <2> SUFFICES ASSUME NEW q \in outs PROVE SaysNow(e, q)'
    OBVIOUS
  <2>1. q.ack = Plus(conn'[e].irs, n + 1) /\ q.eacks = {}
    BY <1>3, <1>4, <1>6, <1>7, <1>8
  <2>2. \E k \in 0 .. Passed(e)' : q.ack = Plus(conn'[e].irs, k)
    BY <1>11, <2>1 DEF t
  <2>3. QED
    BY <2>1, <2>2 DEF SaysNow, Plus
<1>13. \A k \in 1 .. Len(F) : F[k].msg.nr <= t
  BY <1>2, <1>7
<1>14. \A r \in conn[e].ooo : r \in conn'[e].ooo \/ r.msg.nr <= t
  BY <1>4, <1>8, <1>13
<1>15. Onward(e)
  BY <1>11, <1>14 DEF Onward, n, t
<1>16. d.tx \subseteq conn[e].tx /\ \A q \in conn[e].tx : q \in d.tx \/ q.seq \in p.eacks
  BY <1>4
<1>17. d.sock = FALSE /\ Passed(e)' > 0
  BY <1>4, <1>11 DEF t
<1>18. QED
  BY <1>1, <1>4, <1>5, <1>10, <1>12, <1>15, <1>16, <1>17, AcceptedKeeps

-----------------------------------------------------------------------------
(* Every step keeps KeptInv.                                                  *)

LEMMA PlainKept ==
  ASSUME Few, OrderInv, KeptInv, OrderInv', NEW e \in Ends, \E o : PlainStep(e, o)
  PROVE  KeptInv'
<1>1. SaidInv /\ RcvdInv /\ EarlyInv /\ HeardInv
  BY DEF KeptInv
<1>2. PICK o : PlainStep(e, o)
  OBVIOUS
<1>3. SaidInv' /\ RcvdInv' /\ EarlyInv' /\ HeardInv'
  BY <1>1, <1>2, PlainKeeps
<1>4. NearInv'
  BY <1>2, <1>3, PlainNear
<1>5. QED
  BY <1>3, <1>4 DEF KeptInv

LEMMA ConnectKept ==
  ASSUME Apart, Apart', Few, OrderInv, KeptInv, OrderInv',
         Connect \/ ConnectRetry \/ ConnectDone \/ ConnectGiveUp \/ ConnectFail
  PROVE  KeptInv'
<1>1. TypeInv /\ TypeInv' /\ "client" \in Ends
  BY DEF OrderInv, NumberInv, Ends
<1>2. CASE Connect \/ ConnectRetry
  BY <1>1, <1>2, TryConnectKept
<1>3. CASE ConnectDone \/ ConnectGiveUp \/ ConnectFail
  BY <1>1, <1>3, ConnectsPlain, PlainKept
<1>4. QED
  BY <1>2, <1>3

LEMMA ApplicationKept ==
  ASSUME Few, OrderInv, KeptInv, OrderInv', NEW e \in Ends,
         Send(e) \/ Read(e) \/ Close(e) \/ ConnTimeout(e) \/ CheckTimeouts(e)
  PROVE  KeptInv'
<1>1. TypeInv /\ BeginInv /\ SaidInv /\ EarlyInv
  BY DEF OrderInv, NumberInv, KeptInv
<1>2. CASE Send(e)
  BY <1>2, SendKept
<1>3. CASE Read(e)
  BY <1>1, <1>3, ReadPlain, PlainKept
<1>4. CASE Close(e) \/ ConnTimeout(e)
  BY <1>1, <1>4, ClosesPlain, PlainKept
<1>5. CASE CheckTimeouts(e)
  BY <1>1, <1>5, TimeoutPlain, PlainKept
<1>6. QED
  BY <1>2, <1>3, <1>4, <1>5

LEMMA RouterKept ==
  ASSUME Apart, Apart', Few, OrderInv, KeptInv, OrderInv', NEW e \in Ends, NewPacket(e)
  PROVE  KeptInv'
<1>1. TypeInv
  BY DEF OrderInv, NumberInv
<1>2. PICK p \in net[e] :
        \/ DropClosed(e, p) \/ RefuseInClosed(e, p) \/ SynInClosed(e, p)
        \/ NewReset(e, p)
        \/ SynAckInSynSent(e, p) \/ HalfOpen(e, p)
        \/ SynInOpen(e, p) \/ OutOfWindow(e, p) \/ BadAck(e, p) \/ WrongSynAck(e, p)
        \/ NewAck(e, p) \/ NewOutOfOrder(e, p) \/ NewInOrder(e, p)
        \/ NewInCloseWait(e, p)
  BY DEF NewPacket
<1>3. CASE DropClosed(e, p) \/ RefuseInClosed(e, p)
  BY <1>1, <1>3, RefusalsPlain, PlainKept
<1>4. CASE SynInClosed(e, p)
  BY <1>4, SynKept
<1>5. CASE NewReset(e, p)
  BY <1>1, <1>5, ResetPlain, PlainKept
<1>6. CASE SynAckInSynSent(e, p)
  BY <1>6, SynAckKept
<1>7. CASE \/ HalfOpen(e, p) \/ SynInOpen(e, p) \/ WrongSynAck(e, p)
           \/ BadAck(e, p) \/ NewInCloseWait(e, p)
  BY <1>1, <1>7, AnswersPlain, PlainKept
<1>8. CASE OutOfWindow(e, p)
  BY <1>1, <1>8, OutOfWindowPlain, PlainKept
<1>9. CASE NewAck(e, p)
  BY <1>9, NewAckKept
<1>10. CASE NewOutOfOrder(e, p)
  <2>1. Accepted(e, p) /\ UNCHANGED <<opens, sent>>
    BY <1>10 DEF NewOutOfOrder
  <2>2. CASE Take(e, p, Acked(conn[e], p), {})
    BY <2>1, <2>2, AloneKept
  <2>3. CASE Take(e, p, Kept(e, p), {Eack(Kept(e, p))})
    BY <1>10, <2>3, OutOfOrderKept
  <2>4. QED
    BY <1>10, <2>2, <2>3 DEF NewOutOfOrder, Kept
<1>11. CASE NewInOrder(e, p)
  <2>1. Accepted(e, p) /\ UNCHANGED <<opens, sent>>
    BY <1>11, InOrderSteps
  <2>2. CASE Take(e, p, Acked(conn[e], p), {})
    BY <2>1, <2>2, AloneKept
  <2>3. CASE /\ Free(Acked(conn[e], p)) > 0
             /\ Take(e, p, AfterFlush(Received(e, p)), AckIfRoom(Received(e, p)))
    BY <1>11, <2>3, FlushedKept
  <2>4. QED
    BY <1>11, <2>2, <2>3, InOrderSteps
<1>12. QED
  BY <1>2, <1>3, <1>4, <1>5, <1>6, <1>7, <1>8, <1>9, <1>10, <1>11

LEMMA UnchangedKept ==
  ASSUME Few, OrderInv, KeptInv, OrderInv', UNCHANGED vars
  PROVE  KeptInv'
<1>1. TypeInv /\ "client" \in Ends
  BY DEF OrderInv, NumberInv, Ends
<1>2. conn' = conn /\ net' = net /\ UNCHANGED <<opens, sent>>
  BY DEF vars
<1>3. PlainStep("client", {})
  BY <1>1, <1>2, PlainSelf DEF PlainStep, Passing, TypeInv, ConnsOK, NetOK
<1>4. QED
  BY <1>1, <1>3, PlainKept

LEMMA KeptStep ==
  ASSUME Apart, Apart', Few, OrderInv, KeptInv, [Next]_vars
  PROVE  KeptInv'
<1>1. OrderInv'
  BY OrderStep
<1>2. CASE Connect \/ ConnectRetry \/ ConnectDone \/ ConnectGiveUp \/ ConnectFail
  BY <1>1, <1>2, ConnectKept
<1>3. CASE \E e \in Ends : Send(e) \/ Read(e) \/ Close(e) \/ ConnTimeout(e) \/ CheckTimeouts(e)
  BY <1>1, <1>3, ApplicationKept
<1>4. CASE \E e \in Ends : NewPacket(e)
  BY <1>1, <1>4, RouterKept
<1>5. CASE UNCHANGED vars
  BY <1>1, <1>5, UnchangedKept
<1>6. QED
  BY <1>2, <1>3, <1>4, <1>5 DEF Next

(* The two ends of a connection have each other's number.                       *)
LEMMA JoinedIsNear ==
  ASSUME BeginInv, NEW e \in Ends, Joined(e)
  PROVE  Near /\ conn[e].st = "open" /\ conn[Peer(e)].irs = conn[e].iss
<1>1. CASE e = "client"
  BY <1>1 DEF Joined, Near, Peer
<1>2. CASE e = "server"
  BY <1>2 DEF Joined, Near, Peer, BeginInv
<1>3. QED
  BY <1>1, <1>2 DEF Ends, Joined

LEMMA UnaNotAhead ==
  ASSUME Few, OrderInv, NEW e \in Ends, conn[Peer(e)].irs = conn[e].iss,
         \/ \E k \in 0 .. Passed(Peer(e)) : conn[e].una = Plus(conn[e].iss, k + 1)
         \/ conn[e].una = 1 /\ conn[e].iss <= 2 * W
  PROVE  ~Before(conn[Peer(e)].cur, Plus(conn[e].una, -1))
<1> DEFINE a == conn[e].iss
           u == conn[e].una
           t == Passed(Peer(e))
           s == Cardinality(sent[e])
           w == 2 * W
           r == conn[Peer(e)].cur
<1>1. /\ a \in Seqs /\ t \in Nat /\ Sent(e) \in Nat /\ t <= Sent(e) /\ Sent(e) <= s /\ s \in Nat
      /\ w \in Nat /\ 2 <= w /\ 2 * (s + w) < M
  BY HowFar
<1>2. t <= s
  <2> DEFINE v == Sent(e)
  <2>1. t \in Nat /\ v \in Nat /\ s \in Nat /\ t <= v /\ v <= s
    BY <1>1
  <2> HIDE DEF t, s, v
  <2>2. QED
    BY <2>1
<1>3. r = Plus(a, t)
  <2>1. TypeInv /\ SendInv /\ ReceiveInv /\ Peer(e) \in Ends
    BY PeerIs DEF OrderInv, NumberInv
  <2>2. QED
    BY <2>1, PassedIs
<1> HIDE DEF r
<1>4. CASE \E k \in 0 .. t : u = Plus(a, k + 1)
  <2>1. PICK k \in 0 .. t : u = Plus(a, k + 1)
    BY <1>4
  <2> HIDE DEF a, u, t, s, w
  <2>2. k \in Nat /\ k + 1 < M /\ k <= t /\ 2 * t < M
    BY <1>1, <1>2, SeqsAre
  <2>3. Plus(u, -1) = Plus(a, k)
    BY <1>1, <2>1, <2>2, OneBack
  <2>4. ~Before(Plus(a, t), Plus(a, k))
    BY <1>1, <2>2, NotBefore
  <2>5. ~Before(r, Plus(u, -1))
    BY <1>3, <2>3, <2>4
  <2>6. QED
    BY <2>5 DEF r, u
<1>5. CASE u = 1 /\ a <= w
  <2> DEFINE z == Plus(1, -1)
  <2>1. z = 0
    <3>1. 1 + (-1) = 0
      OBVIOUS
    <3>2. 0 % M = 0
      BY SeqsAre, ModSmall
    <3>3. QED
      BY <3>1, <3>2 DEF Plus
  <2> HIDE DEF z
  <2>2. 0 \in {0, 1} /\ 0 <= t
    BY <1>1
  <2>3. 2 * (t + w) < M
    <3> HIDE DEF t, s, w
    <3>1. QED
      BY <1>1, <1>2, SeqsAre
  <2>4. ~Before(Plus(a, t), 0)
    BY <1>1, <1>5, <2>2, <2>3, NotBeforeSmall
  <2>5. Plus(u, -1) = 0
    BY <1>5, <2>1 DEF z
  <2>6. ~Before(r, Plus(u, -1))
    BY <1>3, <2>4, <2>5
  <2>7. QED
    BY <2>6 DEF r, u
<1>6. QED
  BY <1>4, <1>5

(* Where an end has sent few messages, it had before the step.                   *)
LEMMA FewBefore ==
  ASSUME TypeInv, TypeInv', [Next]_vars, Few'
  PROVE  Few
<1> SUFFICES ASSUME NEW e \in Ends PROVE 2 * (Cardinality(sent[e]) + 2 * W) < M
  BY DEF Few
<1> DEFINE s == Cardinality(sent[e])
           t == Cardinality(sent'[e])
           w == 2 * W
<1>1. sent[e] \subseteq sent'[e] /\ IsFiniteSet(sent'[e])
  BY HistoryStep DEF TypeInv, RestOK, HistoryGrows
<1>2. s \in Nat /\ t \in Nat /\ s <= t
  BY <1>1, FS_Subset, FS_CardinalityType
<1>3. w \in Nat /\ M \in Nat /\ 2 * (t + w) < M
  BY RdpAssumption, SeqsAre DEF Few
<1> HIDE DEF s, t, w
<1>4. 2 * (s + w) < M
  BY <1>2, <1>3
<1>5. QED
  BY <1>4 DEF s, w

LEMMA KeptHolds ==
  ASSUME Few, OrderInv, KeptInv, NEW e \in Ends, Joined(e), ~conn[e].skewed
  PROVE  /\ ~Before(conn[Peer(e)].cur, Plus(conn[e].una, -1))
         /\ \A n \in 1 .. Sent(e) :
              \/ \E p \in conn[e].tx \cup conn[Peer(e)].ooo : p.msg = Message(e, n)
              \/ n <= Passed(Peer(e))
<1>1. Near /\ conn[e].st = "open" /\ conn[Peer(e)].irs = conn[e].iss
  BY JoinedIsNear DEF OrderInv, NumberInv
<1>2. UnaOK(e) /\ Held(e)
  BY <1>1 DEF KeptInv, NearInv
<1>3. ~Before(conn[Peer(e)].cur, Plus(conn[e].una, -1))
  BY <1>1, <1>2, UnaNotAhead DEF UnaOK
<1>4. QED
  BY <1>2, <1>3 DEF Held, HeldOne

(* KeptInv as long as the numbers are apart and the messages few.                *)
KeptSoFar == OrderedSoFar /\ (Apart /\ Few => KeptInv)

LEMMA KeptSoFarStep == KeptSoFar /\ [Next]_vars => KeptSoFar'
<1> SUFFICES ASSUME KeptSoFar, [Next]_vars PROVE KeptSoFar'
  OBVIOUS
<1>1. OrderedSoFar'
  BY OrderedSoFarStep DEF KeptSoFar
<1>2. TypeInv /\ TypeInv'
  BY TypeStep DEF KeptSoFar, OrderedSoFar
<1>3. ASSUME Apart', Few' PROVE KeptInv'
  <2>1. Apart /\ Few
    BY <1>2, <1>3, ApartBefore, FewBefore
  <2>2. OrderInv /\ KeptInv
    BY <2>1 DEF KeptSoFar, OrderedSoFar
  <2>3. QED
    BY <1>3, <2>1, <2>2, KeptStep
<1>4. QED
  BY <1>1, <1>3 DEF KeptSoFar

(* csp_rdp_send, csp_rdp_check_timeouts and csp_rdp_flush_eack: as long as both      *)
(* ends are in the connection, a message csp_rdp_send accepted is in the sender's     *)
(* tx_queue until the other end has it, and snd_una is never ahead of what the other  *)
(* end has passed, for any initial numbers, window, queue and number of messages,     *)
(* whatever is lost, repeated or overtaken: until an end draws a number too close      *)
(* to one it has had (Apart), or has sent half as many messages as there are           *)
(* numbers (Few).  From then on, acknowledgements that have been overtaken can move    *)
(* snd_una back by half the numbers, and csp_rdp_seq_before takes for acknowledged     *)
(* a message that is not.                                                       *)
THEOREM KeptAlways == Spec => []KeptUntilReceived
<1>1. Init => KeptSoFar
  BY TypeInit, OrderInit, KeptInit DEF KeptSoFar, OrderedSoFar
<1>2. KeptSoFar => KeptUntilReceived
  BY KeptHolds DEF KeptSoFar, OrderedSoFar, KeptUntilReceived
<1>3. QED
  BY <1>1, <1>2, KeptSoFarStep, PTL DEF Spec
=============================================================================
