--------------------------- MODULE TaskServerProofs ----------------------------
(***************************************************************************)
(* What TLAPS proves of TaskServer, for any number of slots, buffers, flows*)
(* and frames, any queue lengths and any interleaving: the types (TypeCorrect),*)
(* one owner for every buffer (BuffersHaveOneOwner), no open connection that*)
(* nobody serves (NoConnForgotten), and every packet on the one named       *)
(* connection of its flow (FlowsStayApart).                                *)
(***************************************************************************)
EXTENDS TaskServer, TLAPS

------------------------------------------------------------------------------
(* A thread between two steps holds a packet and a slot when its place in   *)
(* the code says so.                                                        *)
ControlOK ==
  /\ rt.pc \in {"new", "fill", "deliver"} => rt.buf \in Buffers
  /\ rt.pc \in {"fill", "deliver", "announce"} => rt.slot \in Slots
  /\ ts.pc # "accept" => ts.conn \in Slots
  /\ ts.pc \in {"dispatch", "fill"} => ts.buf \in Buffers
  /\ ts.pc = "fill" => ts.reply \in Slots

TypeInv == TypeOK /\ ControlOK

-----------------------------------------------------------------------------
(* Facts about queues.                                                      *)

LEMMA AppendFacts ==
  ASSUME NEW S, NEW s \in Seq(S), NEW e \in S
  PROVE  /\ Append(s, e) \in Seq(S)
         /\ Len(Append(s, e)) = Len(s) + 1
         /\ Range(Append(s, e)) = Range(s) \cup {e}
<1>1. /\ Append(s, e) \in Seq(S) /\ Len(Append(s, e)) = Len(s) + 1 /\ Len(s) \in Nat
      /\ Append(s, e)[Len(s) + 1] = e
      /\ \A i \in 1 .. Len(s) : Append(s, e)[i] = s[i]
  OBVIOUS
<1>2. DOMAIN s = 1 .. Len(s) /\ DOMAIN Append(s, e) = 1 .. (Len(s) + 1)
  BY <1>1
<1>3. \A x \in Range(s) \cup {e} : x \in Range(Append(s, e))
  BY <1>1, <1>2 DEF Range
<1>4. \A x \in Range(Append(s, e)) : x \in Range(s) \cup {e}
  BY <1>1, <1>2 DEF Range
<1>5. QED
  BY <1>1, <1>3, <1>4

LEMMA TailFacts ==
  ASSUME NEW S, NEW s \in Seq(S), s # <<>>
  PROVE  /\ Head(s) \in S
         /\ Tail(s) \in Seq(S)
         /\ Len(Tail(s)) <= Len(s)
         /\ Head(s) \in Range(s)
         /\ Range(Tail(s)) \subseteq Range(s)
         /\ Range(s) = {Head(s)} \cup Range(Tail(s))
<1>1. Head(s) \in S /\ Tail(s) \in Seq(S) /\ Len(Tail(s)) = Len(s) - 1 /\ Head(s) = s[1]
  OBVIOUS
<1>2. \A i \in 1 .. Len(s) - 1 : Tail(s)[i] = s[i + 1]
  OBVIOUS
<1>3. DOMAIN s = 1 .. Len(s) /\ DOMAIN Tail(s) = 1 .. Len(s) - 1 /\ Len(s) \in Nat /\ Len(s) > 0
  BY <1>1
<1>4. Range(Tail(s)) \subseteq Range(s)
  BY <1>2, <1>3 DEF Range
<1>5. ASSUME NEW x \in Range(s) PROVE x \in {Head(s)} \cup Range(Tail(s))
  <2>1. PICK i \in 1 .. Len(s) : x = s[i]
    BY <1>3, <1>5 DEF Range
  <2>2. CASE i = 1
    BY <2>1, <2>2, <1>1
  <2>3. CASE i # 1
    <3>1. i - 1 \in DOMAIN Tail(s) /\ Tail(s)[i - 1] = s[i]
      BY <2>1, <2>3, <1>2, <1>3
    <3>2. QED
      BY <3>1, <2>1 DEF Range
  <2>4. QED
    BY <2>2, <2>3
<1>6. Head(s) \in Range(s)
  BY <1>1, <1>3 DEF Range
<1>7. QED
  BY <1>1, <1>3, <1>4, <1>5, <1>6

LEMMA RangeOfSeq ==
  ASSUME NEW S, NEW s \in Seq(S)
  PROVE  Range(s) \subseteq S
BY DEF Range

LEMMA InjectiveAppend ==
  ASSUME NEW S, NEW s \in Seq(S), NEW e \in S, IsInjective(s), e \notin Range(s)
  PROVE  IsInjective(Append(s, e))
  BY DEF Range, IsInjective

LEMMA InjectiveTail ==
  ASSUME NEW S, NEW s \in Seq(S), s # <<>>, IsInjective(s)
  PROVE  IsInjective(Tail(s)) /\ Head(s) \notin Range(Tail(s))
<1>1. Len(s) \in Nat /\ Len(s) > 0 /\ Head(s) = s[1]
  OBVIOUS
<1>2. DOMAIN s = 1 .. Len(s) /\ DOMAIN Tail(s) = 1 .. Len(s) - 1
  BY <1>1
<1>3. \A i \in 1 .. Len(s) - 1 : Tail(s)[i] = s[i + 1]
  OBVIOUS
<1>4. \A i \in 1 .. Len(s) - 1 : i + 1 \in DOMAIN s /\ i + 1 # 1
  BY <1>1, <1>2
<1>5. IsInjective(Tail(s))
  BY <1>1, <1>2, <1>3, <1>4 DEF IsInjective
<1>6. Head(s) \notin Range(Tail(s))
  BY <1>1, <1>2, <1>3, <1>4 DEF IsInjective, Range
<1>7. QED
  BY <1>5, <1>6

-----------------------------------------------------------------------------
(* Type correctness.                                                        *)

LEMMA SlotFacts ==
  /\ ServerSlot \in Slots
  /\ NoSlot \notin Slots
  /\ ClientSlots \subseteq Slots
BY TableAssumption DEF Slots, ServerSlot, NoSlot, ClientSlots

(* The queues of a state of the right type, and the queues a step makes.    *)
LEMMA QueueTypes ==
  ASSUME TypeOK
  PROVE  /\ fifo \in Seq(Buffers) /\ Len(fifo) <= FifoLen
         /\ backlog \in Seq(Slots) /\ Len(backlog) <= Backlog
         /\ \A c \in Slots : rx[c] \in Seq(Buffers) /\ Len(rx[c]) <= RxLen
         /\ DOMAIN rx = Slots
BY DEF TypeOK

LEMMA FlushIsOfBuffers ==
  ASSUME TypeOK, NEW c \in Slots
  PROVE  /\ Range(rx[c]) \subseteq Buffers
         /\ AfterFlush(free, rx, c) \subseteq Buffers
<1>1. rx[c] \in Seq(Buffers)
  BY QueueTypes
<1>2. Range(rx[c]) \subseteq Buffers
  BY <1>1, RangeOfSeq
<1>3. QED
  BY <1>2 DEF TypeOK, AfterFlush

LEMMA FifoTail ==
  ASSUME TypeOK, fifo # <<>>
  PROVE  Head(fifo) \in Buffers /\ Tail(fifo) \in Seq(Buffers) /\ Len(Tail(fifo)) <= FifoLen
<1>1. fifo \in Seq(Buffers) /\ Len(fifo) <= FifoLen
  BY QueueTypes
<1>2. QED
  BY <1>1, ServerAssumption

LEMMA BacklogTail ==
  ASSUME TypeOK, backlog # <<>>
  PROVE  Head(backlog) \in Slots /\ Tail(backlog) \in Seq(Slots) /\ Len(Tail(backlog)) <= Backlog
<1>1. backlog \in Seq(Slots) /\ Len(backlog) <= Backlog
  BY QueueTypes
<1>2. QED
  BY <1>1, ServerAssumption

(* A new value for the queue of one slot.                                   *)
LEMMA RxUpdate ==
  ASSUME TypeOK, NEW c \in Slots, NEW q \in Seq(Buffers), Len(q) <= RxLen,
         rx' = [rx EXCEPT ![c] = q]
  PROVE  /\ rx' \in [Slots -> Seq(Buffers)]
         /\ \A d \in Slots : Len(rx'[d]) <= RxLen
BY QueueTypes DEF TypeOK

LEMMA RxTail ==
  ASSUME TypeOK, NEW c \in Slots, rx[c] # <<>>
  PROVE  Head(rx[c]) \in Buffers /\ Tail(rx[c]) \in Seq(Buffers) /\ Len(Tail(rx[c])) <= RxLen
<1>1. rx[c] \in Seq(Buffers) /\ Len(rx[c]) <= RxLen
  BY QueueTypes
<1>2. QED
  BY <1>1, ServerAssumption

LEMMA EmptyQueue == <<>> \in Seq(Buffers) /\ Len(<<>>) <= RxLen
BY ServerAssumption

LEMMA TypeInvInit == Init => TypeInv
BY TableAssumption, ServerAssumption, SlotFacts
DEF Init, TypeInv, TypeOK, ControlOK, RtIdle, TsIdle, AllFlows

LEMMA CloseType ==
  ASSUME TypeOK, NEW c \in Slots, Close(c)
  PROVE  /\ state' \in [Slots -> {"open", "closed"}]
         /\ free' \subseteq Buffers
         /\ rx' \in [Slots -> Seq(Buffers)] /\ \A d \in Slots : Len(rx'[d]) <= RxLen
         /\ orphan' \subseteq Slots
<1>1. CASE state[c] = "closed"
  BY <1>1 DEF Close, TypeOK
<1>2. CASE state[c] # "closed"
  <2>1. rx' = [rx EXCEPT ![c] = <<>>]
    BY <1>2 DEF Close
  <2>2. rx' \in [Slots -> Seq(Buffers)] /\ \A d \in Slots : Len(rx'[d]) <= RxLen
    BY <2>1, EmptyQueue, RxUpdate
  <2>3. free' \subseteq Buffers
    BY <1>2, FlushIsOfBuffers DEF Close
  <2>4. QED
    BY <1>2, <2>2, <2>3 DEF Close, TypeOK
<1>3. QED
  BY <1>1, <1>2

LEMMA TypeInvReceive ==
  ASSUME TypeInv, NEW f \in AllFlows, ReceiveFrame(f)
  PROVE  TypeInv'
<1>1. PICK b \in free :
        /\ pkt' = [pkt EXCEPT ![b] = f]
        /\ IF Len(fifo) < FifoLen
             THEN fifo' = Append(fifo, b) /\ free' = free \ {b}
             ELSE UNCHANGED <<fifo, free>>
  BY DEF ReceiveFrame
<1>2. fifo \in Seq(Buffers) /\ Len(fifo) <= FifoLen /\ free \subseteq Buffers
  BY DEF TypeInv, TypeOK
<1>3. fifo' \in Seq(Buffers) /\ Len(fifo') <= FifoLen /\ free' \subseteq Buffers
  <2>1. b \in Buffers /\ Len(fifo) \in Nat /\ FifoLen \in Nat
    BY <1>2, ServerAssumption
  <2>2. Append(fifo, b) \in Seq(Buffers) /\ Len(Append(fifo, b)) = Len(fifo) + 1
    BY <1>2, <2>1, AppendFacts
  <2>3. CASE Len(fifo) < FifoLen
    BY <1>1, <1>2, <2>1, <2>2, <2>3
  <2>4. CASE ~(Len(fifo) < FifoLen)
    BY <1>1, <1>2, <2>4
  <2>5. QED
    BY <2>3, <2>4
<1>4. pkt' \in [Buffers -> AllFlows \cup {NoFlow}]
  BY <1>1, <1>2 DEF TypeInv, TypeOK
<1>5. frames' \in Nat
  <2>1. frames \in Nat
    BY DEF TypeInv, TypeOK
  <2>2. frames' = frames + 1
    BY DEF ReceiveFrame
  <2>3. QED
    BY <2>1, <2>2
<1>6. QED
  BY <1>3, <1>4, <1>5, ZenonT(60) DEF ReceiveFrame, TypeInv, TypeOK, ControlOK, tableVars, threadVars

LEMMA TypeInvRouter ==
  ASSUME TypeInv, Router
  PROVE  TypeInv'
<1> USE DEF TypeInv, tableVars, threadVars, poolVars
<1>1. CASE RouteDiscard
  BY <1>1, FifoTail DEF RouteDiscard, TypeOK, ControlOK
<1>2. CASE RouteFind
  <2>1. Head(fifo) \in Buffers /\ fifo' \in Seq(Buffers) /\ Len(fifo') <= FifoLen
    BY <1>2, FifoTail DEF RouteFind
  <2>2. \/ \E c \in Slots : rt' = [pc |-> "deliver", buf |-> Head(fifo), slot |-> c]
        \/ rt' = [pc |-> "new", buf |-> Head(fifo), slot |-> NoSlot]
    BY <1>2 DEF RouteFind
  <2>3. UNCHANGED <<free, pkt, lost, state, idin, sock, rx, last, orphan, ts, ftp, sport,
                    backlog, frames>>
    BY <1>2 DEF RouteFind
  <2>4. /\ rt'.pc \in {"deliver", "new"} /\ rt'.buf = Head(fifo)
        /\ rt'.pc = "deliver" => rt'.slot \in Slots
        /\ rt' \in [pc : {"idle", "new", "fill", "deliver", "announce"},
                   buf : Buffers \cup {NoBuf}, slot : Slots \cup {NoSlot}]
    BY <2>1, <2>2
  <2>5. QED
    BY <2>1, <2>3, <2>4 DEF TypeOK, ControlOK
<1>3. CASE RouteAllocate
  <2>1. CASE \E c \in Slots : Allocate(c) /\ rt' = [rt EXCEPT !.pc = "fill", !.slot = c] /\ UNCHANGED free
    <3>1. PICK c \in Slots : Allocate(c) /\ rt' = [rt EXCEPT !.pc = "fill", !.slot = c]
      BY <2>1
    <3>2. /\ state' = [state EXCEPT ![c] = "open"] /\ sock' = [sock EXCEPT ![c] = FALSE]
          /\ last' \in Slots
      BY <3>1 DEF Allocate
    <3>3. /\ rt.buf \in Buffers
          /\ rt' \in [pc : {"fill"}, buf : Buffers, slot : Slots]
      BY <1>3, <3>1 DEF RouteAllocate, TypeOK, ControlOK
    <3>4. /\ state' \in [Slots -> {"open", "closed"}] /\ sock' \in [Slots -> BOOLEAN]
      BY <3>2 DEF TypeOK
    <3>5. UNCHANGED <<free, pkt, lost, fifo, idin, rx, orphan, ts, ftp, sport, backlog, frames>>
      BY <1>3, <2>1 DEF RouteAllocate
    <3>6. QED
      BY <3>2, <3>3, <3>4, <3>5 DEF TypeOK, ControlOK
  <2>2. CASE free' = free \cup {rt.buf} /\ rt' = RtIdle /\ UNCHANGED <<state, sock, last>>
    BY <1>3, <2>2, SlotFacts DEF RouteAllocate, RtIdle, TypeOK, ControlOK
  <2>3. QED
    BY <1>3, <2>1, <2>2 DEF RouteAllocate
<1>4. CASE RouteFill
  <2>1. rt.slot \in Slots /\ rt.buf \in Buffers
    BY <1>4 DEF RouteFill, ControlOK
  <2>2. rx' = [rx EXCEPT ![rt.slot] = <<>>]
    BY <1>4 DEF RouteFill, Fill
  <2>3. rx' \in [Slots -> Seq(Buffers)] /\ \A d \in Slots : Len(rx'[d]) <= RxLen
    BY <2>1, <2>2, EmptyQueue, RxUpdate
  <2>4. free' \subseteq Buffers
    BY <1>4, <2>1, FlushIsOfBuffers DEF RouteFill
  <2>5. QED
    BY <1>4, <2>1, <2>3, <2>4 DEF RouteFill, Fill, TypeOK, ControlOK
<1>5. CASE RouteDeliver
  <2>1. rt.slot \in Slots /\ rt.buf \in Buffers
    BY <1>5 DEF RouteDeliver, ControlOK
  <2>2. CASE Len(rx[rt.slot]) < RxLen
    <3>1. rx[rt.slot] \in Seq(Buffers)
      BY <2>1, QueueTypes
    <3>2. Append(rx[rt.slot], rt.buf) \in Seq(Buffers) /\ Len(Append(rx[rt.slot], rt.buf)) <= RxLen
      BY <2>1, <2>2, <3>1, ServerAssumption
    <3>3. rx' = [rx EXCEPT ![rt.slot] = Append(rx[rt.slot], rt.buf)]
      BY <1>5, <2>2 DEF RouteDeliver
    <3>4. rx' \in [Slots -> Seq(Buffers)] /\ \A d \in Slots : Len(rx'[d]) <= RxLen
      BY <2>1, <3>2, <3>3, RxUpdate
    <3>5. QED
      BY <1>5, <2>1, <2>2, <3>4, ZenonT(60) DEF RouteDeliver, TypeOK, ControlOK
  <2>3. CASE ~(Len(rx[rt.slot]) < RxLen)
    <3>1. /\ free' = free \cup {rt.buf}
          /\ rt' = [pc |-> "idle", buf |-> NoBuf, slot |-> NoSlot]
          /\ rx' = rx
      BY <1>5, <2>3 DEF RouteDeliver, RtIdle
    <3>2. UNCHANGED <<pkt, lost, fifo, state, idin, sock, last, orphan, ts, ftp, sport,
                      backlog, frames>>
      BY <1>5 DEF RouteDeliver
    <3>3. QED
      BY <2>1, <3>1, <3>2 DEF TypeOK, ControlOK
  <2>4. QED
    BY <2>2, <2>3
<1>6. CASE RouteAnnounce
  <2>1. rt.slot \in Slots
    BY <1>6 DEF RouteAnnounce, ControlOK
  <2>2. CASE Len(backlog) < Backlog /\ sock[rt.slot]
    <3>1. backlog \in Seq(Slots) /\ Len(backlog) \in Nat /\ Backlog \in Nat
      BY QueueTypes, ServerAssumption
    <3>2. ~(Len(backlog) >= Backlog)
      BY <2>2, <3>1
    <3>3. /\ backlog' = Append(backlog, rt.slot)
          /\ sock' = [sock EXCEPT ![rt.slot] = FALSE]
          /\ UNCHANGED <<state, rx, free, orphan>>
      BY <1>6, <2>2, <3>2 DEF RouteAnnounce
    <3>4. backlog' \in Seq(Slots) /\ Len(backlog') <= Backlog
      BY <2>1, <2>2, <3>1, <3>3
    <3>5. /\ rt' = [pc |-> "idle", buf |-> NoBuf, slot |-> NoSlot]
          /\ UNCHANGED <<pkt, lost, fifo, idin, last, ts, ftp, sport, frames>>
      BY <1>6 DEF RouteAnnounce, RtIdle
    <3>6. QED
      BY <3>3, <3>4, <3>5 DEF TypeOK, ControlOK
  <2>3. CASE Close(rt.slot) /\ UNCHANGED <<backlog, sock>>
    <3>1. /\ state' \in [Slots -> {"open", "closed"}]
          /\ free' \subseteq Buffers
          /\ rx' \in [Slots -> Seq(Buffers)] /\ \A d \in Slots : Len(rx'[d]) <= RxLen
          /\ orphan' \subseteq Slots
      BY <2>1, <2>3, CloseType
    <3>2. QED
      BY <1>6, <2>3, <3>1, SlotFacts DEF RouteAnnounce, RtIdle, TypeOK, ControlOK
  <2>4. CASE ~sock[rt.slot]
    BY <1>6, <2>4, SlotFacts DEF RouteAnnounce, RtIdle, TypeOK, ControlOK
  <2>5. QED
    BY <1>6, <2>2, <2>3, <2>4 DEF RouteAnnounce
<1>7. QED
  BY <1>1, <1>2, <1>3, <1>4, <1>5, <1>6 DEF Router

LEMMA TypeInvServer ==
  ASSUME TypeInv, Server
  PROVE  TypeInv'
<1> USE DEF TypeInv, tableVars, threadVars, poolVars
<1>1. CASE ServerAccept
  <2>1. Head(backlog) \in Slots /\ backlog' \in Seq(Slots) /\ Len(backlog') <= Backlog
    BY <1>1, BacklogTail DEF ServerAccept
  <2>2. UNCHANGED <<free, pkt, lost, fifo, state, idin, sock, rx, last, orphan, rt, sport,
                    frames>>
    BY <1>1 DEF ServerAccept
  <2>3. CASE ServiceOf(Head(backlog)) = "ftp"
    <3>1. ts' = ts /\ ftp' = [ftp EXCEPT ![Head(backlog)] = ftp[Head(backlog)] + 1]
      BY <1>1, <2>3 DEF ServerAccept
    <3>2. ftp \in [Slots -> Nat]
      BY DEF TypeOK
    <3>3. ftp' \in [Slots -> Nat]
      <4>1. ftp[Head(backlog)] \in Nat
        BY <2>1, <3>2
      <4>2. ftp[Head(backlog)] + 1 \in Nat
        BY <4>1
      <4>3. QED
        BY <3>1, <3>2, <4>2
    <3>4. QED
      BY <2>1, <2>2, <3>1, <3>3, ZenonT(60) DEF TypeOK, ControlOK
  <2>4. CASE ServiceOf(Head(backlog)) # "ftp"
    <3>1. ftp' = ftp /\ ts' = [ts EXCEPT !.pc = "read", !.conn = Head(backlog)]
      BY <1>1, <2>4 DEF ServerAccept
    <3>2. QED
      BY <2>1, <2>2, <3>1 DEF TypeOK, ControlOK
  <2>5. QED
    BY <2>3, <2>4
<1>2. CASE ServerReadCheck
  BY <1>2 DEF ServerReadCheck, TypeOK, ControlOK
<1>3. CASE ServerReadWait
  <2>1. ts.conn \in Slots
    BY <1>3 DEF ServerReadWait, ControlOK
  <2>4. UNCHANGED <<free, pkt, lost, fifo, state, idin, sock, last, orphan, rt, ftp, sport,
                    backlog, frames>>
    BY <1>3 DEF ServerReadWait
  <2>5. ts.pc = "wait"
    BY <1>3 DEF ServerReadWait
  <2>2. CASE rx[ts.conn] # <<>>
    <3>1. rx' = [rx EXCEPT ![ts.conn] = Tail(rx[ts.conn])]
      BY <1>3, <2>2 DEF ServerReadWait
    <3>2. rx' \in [Slots -> Seq(Buffers)] /\ \A d \in Slots : Len(rx'[d]) <= RxLen
      BY <2>1, <2>2, <3>1, RxTail, RxUpdate
    <3>3. Head(rx[ts.conn]) \in Buffers
      BY <2>1, <2>2, RxTail
    <3>4. ts' = [ts EXCEPT !.pc = "dispatch", !.buf = Head(rx[ts.conn])]
      BY <1>3, <2>2 DEF ServerReadWait
    <3>5. QED
      BY <2>1, <2>4, <3>2, <3>3, <3>4 DEF TypeOK, ControlOK
  <2>3. CASE rx[ts.conn] = <<>>
    <3>1. ts' = [ts EXCEPT !.pc = "last close"] /\ UNCHANGED rx
      BY <1>3, <2>3 DEF ServerReadWait
    <3>2. QED
      BY <2>1, <2>4, <2>5, <3>1 DEF TypeOK, ControlOK
  <2>6. QED
    BY <2>2, <2>3
<1>4. CASE ServeTelemetry
  <2>1. ts.buf \in Buffers
    BY <1>4 DEF ServeTelemetry, ControlOK
  <2>2. /\ ts' = [ts EXCEPT !.pc = "close", !.buf = NoBuf] /\ ts.conn \in Slots
        /\ lost' = lost \cup {ts.buf}
        /\ UNCHANGED <<free, pkt, fifo, tableVars, rt, ftp, sport, backlog, frames>>
    BY <1>4 DEF ServeTelemetry, ControlOK
  <2>3. /\ ts' \in [pc : {"close"}, buf : {NoBuf}, conn : Slots, reply : Slots \cup {NoSlot}]
        /\ lost' \subseteq Buffers
    BY <2>1, <2>2 DEF TypeOK
  <2>4. TypeOK'
    BY <2>2, <2>3 DEF TypeOK, tableVars
  <2>5. ControlOK'
    BY <2>2, <2>3 DEF ControlOK
  <2>6. QED
    BY <2>4, <2>5
<1>5. CASE ServePing
  BY <1>5 DEF ServePing, TypeOK, ControlOK
<1>6. CASE ServeService
  BY <1>6 DEF ServeService, TypeOK, ControlOK
<1>7. CASE ReplyConnect
  BY <1>7, ZenonT(60) DEF ReplyConnect, Allocate, IsNextFree, Closed, TypeOK, ControlOK
<1>8. CASE ReplySend
  <2>1. ts.reply \in Slots /\ ts.buf \in Buffers /\ ts.conn \in Slots
    BY <1>8 DEF ReplySend, ControlOK
  <2>2. rx' = [rx EXCEPT ![ts.reply] = <<>>]
    BY <1>8 DEF ReplySend, Fill
  <2>3. rx' \in [Slots -> Seq(Buffers)] /\ \A d \in Slots : Len(rx'[d]) <= RxLen
    BY <2>1, <2>2, EmptyQueue, RxUpdate
  <2>4. free' \subseteq Buffers
    BY <1>8, <2>1, FlushIsOfBuffers DEF ReplySend
  <2>5. sport \in AllFlows
    BY DEF TypeOK, AllFlows
  <2>6. QED
    BY <1>8, <2>1, <2>3, <2>4, <2>5 DEF ReplySend, Fill, TypeOK, ControlOK
<1>9. CASE ServerClose
  <2>1. /\ state' \in [Slots -> {"open", "closed"}]
        /\ free' \subseteq Buffers
        /\ rx' \in [Slots -> Seq(Buffers)] /\ \A d \in Slots : Len(rx'[d]) <= RxLen
        /\ orphan' \subseteq Slots
    BY <1>9, CloseType DEF ServerClose, ControlOK
  <2>2. QED
    BY <1>9, <2>1 DEF ServerClose, TypeOK, ControlOK
<1>10. CASE ServerLastClose
  <2>1. /\ state' \in [Slots -> {"open", "closed"}]
        /\ free' \subseteq Buffers
        /\ rx' \in [Slots -> Seq(Buffers)] /\ \A d \in Slots : Len(rx'[d]) <= RxLen
        /\ orphan' \subseteq Slots
    BY <1>10, CloseType DEF ServerLastClose, ControlOK
  <2>2. QED
    BY <1>10, <2>1 DEF ServerLastClose, TsIdle, TypeOK, ControlOK
<1>11. QED
  BY <1>1, <1>2, <1>3, <1>4, <1>5, <1>6, <1>7, <1>8, <1>9, <1>10 DEF Server

LEMMA TypeInvFtp ==
  ASSUME TypeInv, NEW c \in Slots, FtpThread(c)
  PROVE  TypeInv'
<1> USE DEF TypeInv
<1>1. CASE FtpRead(c)
  <2>1. rx' = [rx EXCEPT ![c] = Tail(rx[c])] /\ rx[c] # <<>>
    BY <1>1 DEF FtpRead
  <2>2. rx' \in [Slots -> Seq(Buffers)] /\ \A d \in Slots : Len(rx'[d]) <= RxLen
    BY <2>1, RxTail, RxUpdate
  <2>3. Head(rx[c]) \in Buffers
    BY <2>1, RxTail
  <2>4. QED
    BY <1>1, <2>2, <2>3, ZenonT(60) DEF FtpRead, TypeOK, ControlOK
<1>2. CASE FtpClose(c)
  <2>1. /\ state' \in [Slots -> {"open", "closed"}]
        /\ free' \subseteq Buffers
        /\ rx' \in [Slots -> Seq(Buffers)] /\ \A d \in Slots : Len(rx'[d]) <= RxLen
        /\ orphan' \subseteq Slots
    BY <1>2, CloseType DEF FtpClose
  <2>2. ftp' \in [Slots -> Nat]
    <3>1. ftp \in [Slots -> Nat] /\ ftp[c] \in Nat /\ ftp[c] > 0
      BY <1>2 DEF FtpClose, TypeOK
    <3>2. ftp[c] - 1 \in Nat /\ ftp' = [ftp EXCEPT ![c] = ftp[c] - 1]
      BY <1>2, <3>1 DEF FtpClose
    <3>3. QED
      BY <3>1, <3>2
  <2>3. QED
    BY <1>2, <2>1, <2>2, ZenonT(60) DEF FtpClose, TypeOK, ControlOK
<1>3. QED
  BY <1>1, <1>2 DEF FtpThread

LEMMA TypeInvNext == TypeInv /\ [Next]_vars => TypeInv'
<1> SUFFICES ASSUME TypeInv, [Next]_vars PROVE TypeInv'
  OBVIOUS
<1>1. CASE UNCHANGED vars
  BY <1>1, ZenonT(60) DEF TypeInv, TypeOK, ControlOK, vars
<1>2. CASE Next
  BY <1>2, TypeInvReceive, TypeInvRouter, TypeInvServer, TypeInvFtp DEF Next
<1>3. QED
  BY <1>1, <1>2

LEMMA TypeInvCorrect == Spec => []TypeInv
BY TypeInvInit, TypeInvNext, PTL DEF Spec

(* Every behaviour keeps the types and the lengths of the queues.           *)
THEOREM TypeCorrect == Spec => []TypeOK
BY TypeInvCorrect, PTL DEF TypeInv

------------------------------------------------------------------------------
(***************************************************************************)
(* The proof that TaskServer keeps OneOwner: every buffer of the pool is in *)
(* exactly one place, whatever the threads do.                             *)
(*                                                                         *)
(* The proof looks at the places as sets: fr the free buffers, lo the       *)
(* dropped ones, fi those of the router's FIFO, r and t the buffers in the  *)
(* hands of the router task and of task_server, q[c] those queued on slot   *)
(* c.  Every step moves buffers from one of these places to another; the    *)
(* queues hold each buffer once because what is queued came from elsewhere. *)
(***************************************************************************)

Partition(fr, lo, fi, r, t, q) ==
  /\ fr \subseteq Buffers /\ lo \subseteq Buffers /\ fi \subseteq Buffers
  /\ r \in Buffers \cup {NoBuf} /\ t \in Buffers \cup {NoBuf}
  /\ \A c \in Slots : q[c] \subseteq Buffers
  /\ \A b \in Buffers : \/ b \in fr \/ b \in lo \/ b \in fi \/ b = r \/ b = t
                        \/ \E c \in Slots : b \in q[c]
  /\ \A b \in fr : b \notin lo /\ b \notin fi /\ b # r /\ b # t
  /\ \A b \in lo : b \notin fi /\ b # r /\ b # t
  /\ \A b \in fi : b # r /\ b # t
  /\ r = t => r = NoBuf
  /\ \A c \in Slots : \A b \in q[c] :
       /\ b \notin fr /\ b \notin lo /\ b \notin fi /\ b # r /\ b # t
       /\ \A d \in Slots : d # c => b \notin q[d]

(* A thread that is at a place in the code where it has no packet has none. *)
EmptyHands ==
  /\ rt.pc \in {"idle", "announce"} => rt.buf = NoBuf
  /\ ts.pc \notin {"dispatch", "fill"} => ts.buf = NoBuf

RxSets == [c \in Slots |-> Range(rx[c])]

Places == Partition(free, lost, Range(fifo), rt.buf, ts.buf, RxSets)

OnceEach == IsInjective(fifo) /\ \A c \in Slots : IsInjective(rx[c])

OwnerInv == TypeInv /\ EmptyHands /\ Places /\ OnceEach

-----------------------------------------------------------------------------
(* The moves between places.                                                *)

LEMMA FreeToFifo ==
  ASSUME NEW fr, NEW lo, NEW fi, NEW r, NEW t, NEW q, Partition(fr, lo, fi, r, t, q),
         NEW b \in fr
  PROVE  Partition(fr \ {b}, lo, fi \cup {b}, r, t, q)
BY TableAssumption DEF Partition

LEMMA FifoToFree ==
  ASSUME NEW fr, NEW lo, NEW fi, NEW r, NEW t, NEW q, Partition(fr, lo, fi, r, t, q),
         NEW b \in fi
  PROVE  Partition(fr \cup {b}, lo, fi \ {b}, r, t, q)
BY TableAssumption DEF Partition

LEMMA FifoToRouter ==
  ASSUME NEW fr, NEW lo, NEW fi, NEW t, NEW q, Partition(fr, lo, fi, NoBuf, t, q),
         NEW b \in fi
  PROVE  Partition(fr, lo, fi \ {b}, b, t, q)
BY TableAssumption DEF Partition

LEMMA RouterToFree ==
  ASSUME NEW fr, NEW lo, NEW fi, NEW r \in Buffers, NEW t, NEW q,
         Partition(fr, lo, fi, r, t, q)
  PROVE  Partition(fr \cup {r}, lo, fi, NoBuf, t, q)
BY TableAssumption DEF Partition

LEMMA ServerToFree ==
  ASSUME NEW fr, NEW lo, NEW fi, NEW r, NEW t \in Buffers, NEW q,
         Partition(fr, lo, fi, r, t, q)
  PROVE  Partition(fr \cup {t}, lo, fi, r, NoBuf, q)
BY TableAssumption DEF Partition

LEMMA ServerToLost ==
  ASSUME NEW fr, NEW lo, NEW fi, NEW r, NEW t \in Buffers, NEW q,
         Partition(fr, lo, fi, r, t, q)
  PROVE  Partition(fr, lo \cup {t}, fi, r, NoBuf, q)
BY TableAssumption DEF Partition

LEMMA RouterToSlot ==
  ASSUME NEW fr, NEW lo, NEW fi, NEW r \in Buffers, NEW t, NEW q, NEW q2,
         Partition(fr, lo, fi, r, t, q),
         NEW c \in Slots, q2[c] = q[c] \cup {r},
         \A d \in Slots : d # c => q2[d] = q[d]
  PROVE  Partition(fr, lo, fi, NoBuf, t, q2)
BY TableAssumption DEF Partition

LEMMA SlotToServer ==
  ASSUME NEW fr, NEW lo, NEW fi, NEW r, NEW q, NEW q2,
         Partition(fr, lo, fi, r, NoBuf, q),
         NEW c \in Slots, NEW b \in q[c], q2[c] = q[c] \ {b},
         \A d \in Slots : d # c => q2[d] = q[d]
  PROVE  Partition(fr, lo, fi, r, b, q2)
BY TableAssumption DEF Partition

LEMMA SlotToFree ==
  ASSUME NEW fr, NEW lo, NEW fi, NEW r, NEW t, NEW q, NEW q2,
         Partition(fr, lo, fi, r, t, q),
         NEW c \in Slots, NEW out, out \subseteq q[c], q2[c] = q[c] \ out,
         \A d \in Slots : d # c => q2[d] = q[d]
  PROVE  Partition(fr \cup out, lo, fi, r, t, q2)
BY TableAssumption DEF Partition

(* The shape of RxSets after a step that changes one slot's queue.          *)
LEMMA RxSetsUpdate ==
  ASSUME TypeOK, NEW c \in Slots, NEW s, rx' = [rx EXCEPT ![c] = s]
  PROVE  /\ RxSets'[c] = Range(s) /\ RxSets[c] = Range(rx[c])
         /\ \A d \in Slots : d # c => RxSets'[d] = RxSets[d]
         /\ rx'[c] = s
         /\ \A d \in Slots : d # c => rx'[d] = rx[d]
BY QueueTypes DEF RxSets

(* The step empties the queue of a slot into the pool.                      *)
LEMMA FlushMove ==
  ASSUME OwnerInv, NEW c \in Slots, rx' = [rx EXCEPT ![c] = <<>>]
  PROVE  /\ Partition(AfterFlush(free, rx, c), lost, Range(fifo), rt.buf, ts.buf, RxSets')
         /\ \A d \in Slots : IsInjective(rx'[d])
<1>1. /\ RxSets'[c] = Range(<<>>) /\ RxSets[c] = Range(rx[c])
      /\ \A d \in Slots : d # c => RxSets'[d] = RxSets[d]
      /\ rx'[c] = <<>>
      /\ \A d \in Slots : d # c => rx'[d] = rx[d]
  BY RxSetsUpdate DEF OwnerInv, TypeInv
<1>2. Range(<<>>) = {} /\ IsInjective(<<>>)
  BY DEF Range, IsInjective
<1>3. RxSets'[c] = RxSets[c] \ Range(rx[c])
  BY <1>1, <1>2
<1>4. Partition(free \cup Range(rx[c]), lost, Range(fifo), rt.buf, ts.buf, RxSets')
  <2>1. Partition(free, lost, Range(fifo), rt.buf, ts.buf, RxSets)
    BY DEF OwnerInv, Places
  <2>2. Range(rx[c]) \subseteq RxSets[c]
    BY <1>1
  <2>3. QED
    BY <1>1, <1>3, <2>1, <2>2, SlotToFree
<1>5. QED
  BY <1>1, <1>2, <1>4 DEF AfterFlush, OwnerInv, OnceEach

(* The step takes the packet at the head of a slot's queue.                 *)
LEMMA HeadMove ==
  ASSUME OwnerInv, NEW c \in Slots, rx[c] # <<>>, rx' = [rx EXCEPT ![c] = Tail(rx[c])]
  PROVE  /\ Head(rx[c]) \in RxSets[c]
         /\ RxSets'[c] = RxSets[c] \ {Head(rx[c])}
         /\ \A d \in Slots : d # c => RxSets'[d] = RxSets[d]
         /\ \A d \in Slots : IsInjective(rx'[d])
<1>1. /\ RxSets'[c] = Range(Tail(rx[c])) /\ RxSets[c] = Range(rx[c])
      /\ \A d \in Slots : d # c => RxSets'[d] = RxSets[d]
      /\ rx'[c] = Tail(rx[c])
      /\ \A d \in Slots : d # c => rx'[d] = rx[d]
  BY RxSetsUpdate DEF OwnerInv, TypeInv
<1>2. rx[c] \in Seq(Buffers) /\ IsInjective(rx[c])
  BY QueueTypes DEF OwnerInv, TypeInv, OnceEach
<1>3. /\ Head(rx[c]) \in Range(rx[c])
      /\ Range(rx[c]) = {Head(rx[c])} \cup Range(Tail(rx[c]))
  BY <1>2, TailFacts
<1>4. IsInjective(Tail(rx[c])) /\ Head(rx[c]) \notin Range(Tail(rx[c]))
  BY <1>2, InjectiveTail
<1>5. QED
  BY <1>1, <1>3, <1>4 DEF OwnerInv, OnceEach

(* The step takes the packet at the head of the router's FIFO.              *)
LEMMA FifoMove ==
  ASSUME OwnerInv, fifo # <<>>, fifo' = Tail(fifo)
  PROVE  /\ Head(fifo) \in Range(fifo)
         /\ Range(fifo') = Range(fifo) \ {Head(fifo)}
         /\ IsInjective(fifo')
<1>1. fifo \in Seq(Buffers) /\ IsInjective(fifo)
  BY QueueTypes DEF OwnerInv, TypeInv, OnceEach
<1>2. /\ Head(fifo) \in Range(fifo)
      /\ Range(fifo) = {Head(fifo)} \cup Range(Tail(fifo))
  BY <1>1, TailFacts
<1>3. IsInjective(Tail(fifo)) /\ Head(fifo) \notin Range(Tail(fifo))
  BY <1>1, InjectiveTail
<1>4. QED
  BY <1>2, <1>3

-----------------------------------------------------------------------------
(* The steps.                                                               *)

LEMMA OwnerInit == Init => OwnerInv
<1> SUFFICES ASSUME Init PROVE OwnerInv
  OBVIOUS
<1>1. Range(<<>>) = {} /\ IsInjective(<<>>)
  BY DEF Range, IsInjective
<1>2. \A c \in Slots : rx[c] = <<>> /\ RxSets[c] = {}
  BY <1>1 DEF Init, RxSets
<1>3. fifo = <<>> /\ free = Buffers /\ lost = {}
  BY DEF Init
<1>4. rt.buf = NoBuf /\ ts.buf = NoBuf /\ rt.pc = "idle" /\ ts.pc = "accept"
  BY DEF Init, RtIdle, TsIdle
<1>5. Places
  BY <1>1, <1>2, <1>3, <1>4, TableAssumption DEF Places, Partition
<1>6. OnceEach /\ EmptyHands
  BY <1>1, <1>2, <1>3, <1>4 DEF OnceEach, EmptyHands
<1>7. QED
  BY <1>5, <1>6, TypeInvInit DEF OwnerInv

(* A step that leaves the packets where they are.                           *)
LEMMA NoMove ==
  ASSUME OwnerInv, TypeInv', UNCHANGED <<free, lost, fifo, rx, rt, ts>>
  PROVE  OwnerInv'
BY DEF OwnerInv, EmptyHands, Places, RxSets, OnceEach

LEMMA OwnerReceive ==
  ASSUME OwnerInv, TypeInv', NEW f \in AllFlows, ReceiveFrame(f)
  PROVE  OwnerInv'
<1>1. UNCHANGED <<lost, rx, rt, ts>>
  BY DEF ReceiveFrame, tableVars, threadVars
<1>2. PICK b \in free :
        IF Len(fifo) < FifoLen
          THEN fifo' = Append(fifo, b) /\ free' = free \ {b}
          ELSE UNCHANGED <<fifo, free>>
  BY DEF ReceiveFrame
<1>3. CASE Len(fifo) < FifoLen
  <2>1. fifo \in Seq(Buffers) /\ b \in Buffers /\ b \notin Range(fifo) /\ IsInjective(fifo)
    BY QueueTypes DEF OwnerInv, TypeInv, Places, Partition, OnceEach
  <2>2. Range(fifo') = Range(fifo) \cup {b} /\ IsInjective(fifo')
    <3>1. Range(Append(fifo, b)) = Range(fifo) \cup {b}
      BY <2>1, AppendFacts
    <3>2. IsInjective(Append(fifo, b))
      BY <2>1, InjectiveAppend
    <3>3. QED
      BY <1>2, <1>3, <3>1, <3>2
  <2>3. Partition(free \ {b}, lost, Range(fifo) \cup {b}, rt.buf, ts.buf, RxSets)
    BY FreeToFifo DEF OwnerInv, Places
  <2>4. RxSets' = RxSets
    BY <1>1 DEF RxSets
  <2>5. Places'
    BY <1>1, <1>2, <1>3, <2>2, <2>3, <2>4 DEF Places
  <2>6. QED
    BY <1>1, <2>2, <2>5 DEF OwnerInv, EmptyHands, OnceEach
<1>4. CASE ~(Len(fifo) < FifoLen)
  BY <1>1, <1>2, <1>4, NoMove
<1>5. QED
  BY <1>3, <1>4

(* csp_close frees what the slot still holds.                               *)
LEMMA CloseMove ==
  ASSUME OwnerInv, NEW c \in Slots, Close(c)
  PROVE  /\ Partition(free', lost, Range(fifo), rt.buf, ts.buf, RxSets')
         /\ \A d \in Slots : IsInjective(rx'[d])
<1>1. CASE state[c] = "closed"
  BY <1>1 DEF Close, OwnerInv, Places, OnceEach, RxSets
<1>2. CASE state[c] # "closed"
  <2>1. rx' = [rx EXCEPT ![c] = <<>>] /\ free' = AfterFlush(free, rx, c)
    BY <1>2 DEF Close
  <2>2. /\ Partition(AfterFlush(free, rx, c), lost, Range(fifo), rt.buf, ts.buf, RxSets')
        /\ \A d \in Slots : IsInjective(rx'[d])
    BY <2>1, FlushMove
  <2>3. QED
    BY <2>1, <2>2
<1>3. QED
  BY <1>1, <1>2

(* Likewise for a step that is nothing but such a move.                     *)
LEMMA OwnerClose ==
  ASSUME OwnerInv, TypeInv', NEW c \in Slots, Close(c),
         UNCHANGED <<lost, fifo>>, rt'.buf = rt.buf, ts'.buf = ts.buf, EmptyHands'
  PROVE  OwnerInv'
<1>1. Places'
  BY CloseMove DEF Places
<1>2. OnceEach'
  BY CloseMove DEF OnceEach, OwnerInv
<1>3. QED
  BY <1>1, <1>2 DEF OwnerInv

LEMMA OwnerRouter ==
  ASSUME OwnerInv, TypeInv', Router
  PROVE  OwnerInv'
<1>1. CASE RouteDiscard
  <2>1. /\ fifo # <<>> /\ fifo' = Tail(fifo) /\ free' = free \cup {Head(fifo)}
        /\ UNCHANGED <<lost, rx, rt, ts>>
    BY <1>1 DEF RouteDiscard, tableVars, threadVars
  <2>2. /\ Head(fifo) \in Range(fifo)
        /\ Range(fifo') = Range(fifo) \ {Head(fifo)}
        /\ IsInjective(fifo')
    BY <2>1, FifoMove
  <2>3. Partition(free \cup {Head(fifo)}, lost, Range(fifo) \ {Head(fifo)}, rt.buf, ts.buf, RxSets)
    BY <2>2, FifoToFree DEF OwnerInv, Places
  <2>4. Places'
    BY <2>1, <2>2, <2>3 DEF Places, RxSets
  <2>5. QED
    BY <2>1, <2>2, <2>4 DEF OwnerInv, EmptyHands, OnceEach
<1>2. CASE RouteFind
  <2>1. /\ rt.pc = "idle" /\ fifo # <<>> /\ fifo' = Tail(fifo)
        /\ UNCHANGED <<free, lost, rx, ts>>
    BY <1>2 DEF RouteFind, poolVars, tableVars
  <2>2. rt'.buf = Head(fifo) /\ rt'.pc \in {"deliver", "new"}
    BY <1>2 DEF RouteFind
  <2>3. /\ Head(fifo) \in Range(fifo)
        /\ Range(fifo') = Range(fifo) \ {Head(fifo)}
        /\ IsInjective(fifo')
    BY <2>1, FifoMove
  <2>4. Partition(free, lost, Range(fifo), NoBuf, ts.buf, RxSets)
    BY <2>1 DEF OwnerInv, Places, EmptyHands
  <2>5. Partition(free, lost, Range(fifo) \ {Head(fifo)}, Head(fifo), ts.buf, RxSets)
    BY <2>3, <2>4, FifoToRouter
  <2>6. Places'
    BY <2>1, <2>2, <2>3, <2>5 DEF Places, RxSets
  <2>7. QED
    BY <2>1, <2>2, <2>3, <2>6 DEF OwnerInv, EmptyHands, OnceEach
<1>3. CASE RouteAllocate
  <2>1. rt.pc = "new" /\ rt.buf \in Buffers /\ UNCHANGED <<lost, fifo, rx, ts>>
    BY <1>3 DEF RouteAllocate, OwnerInv, TypeInv, ControlOK
  <2>2. CASE rt' = [rt EXCEPT !.pc = "fill", !.slot = rt'.slot] /\ free' = free
    <3>1. rt'.buf = rt.buf /\ rt'.pc = "fill"
      BY <2>2 DEF OwnerInv, TypeInv, TypeOK
    <3>2. QED
      BY <2>1, <2>2, <3>1 DEF OwnerInv, EmptyHands, Places, RxSets, OnceEach
  <2>3. CASE free' = free \cup {rt.buf} /\ rt' = RtIdle
    <3>1. Partition(free \cup {rt.buf}, lost, Range(fifo), NoBuf, ts.buf, RxSets)
      BY <2>1, RouterToFree DEF OwnerInv, Places
    <3>2. rt'.buf = NoBuf
      BY <2>3 DEF RtIdle
    <3>3. QED
      BY <2>1, <2>3, <3>1, <3>2 DEF OwnerInv, EmptyHands, Places, RxSets, OnceEach
  <2>4. QED
    BY <1>3, <2>2, <2>3 DEF RouteAllocate, OwnerInv, TypeInv, TypeOK
<1>4. CASE RouteFill
  <2>1. rt.slot \in Slots
    BY <1>4 DEF RouteFill, OwnerInv, TypeInv, ControlOK
  <2>2. /\ rx' = [rx EXCEPT ![rt.slot] = <<>>] /\ free' = AfterFlush(free, rx, rt.slot)
        /\ UNCHANGED <<lost, fifo, ts>>
    BY <1>4 DEF RouteFill, Fill
  <2>3. rt'.buf = rt.buf /\ rt'.pc = "deliver"
    BY <1>4 DEF RouteFill, OwnerInv, TypeInv, TypeOK
  <2>4. /\ Partition(AfterFlush(free, rx, rt.slot), lost, Range(fifo), rt.buf, ts.buf, RxSets')
        /\ \A d \in Slots : IsInjective(rx'[d])
    BY <2>1, <2>2, FlushMove
  <2>5. QED
    BY <2>2, <2>3, <2>4 DEF OwnerInv, EmptyHands, Places, OnceEach
<1>5. CASE RouteDeliver
  <2>1. rt.slot \in Slots /\ rt.buf \in Buffers /\ UNCHANGED <<lost, fifo, ts>>
    BY <1>5 DEF RouteDeliver, OwnerInv, TypeInv, ControlOK
  <2>2. CASE Len(rx[rt.slot]) < RxLen
    <3>1. /\ rx' = [rx EXCEPT ![rt.slot] = Append(rx[rt.slot], rt.buf)]
          /\ rt' = [rt EXCEPT !.pc = "announce", !.buf = NoBuf]
          /\ free' = free
      BY <1>5, <2>2 DEF RouteDeliver
    <3>2. rx[rt.slot] \in Seq(Buffers) /\ IsInjective(rx[rt.slot]) /\ rt.buf \notin Range(rx[rt.slot])
      BY <2>1, QueueTypes DEF OwnerInv, TypeInv, OnceEach, Places, Partition, RxSets
    <3>3. PICK queue : queue = Append(rx[rt.slot], rt.buf)
      OBVIOUS
    <3>4. Range(queue) = Range(rx[rt.slot]) \cup {rt.buf}
      BY <2>1, <3>2, <3>3, AppendFacts
    <3>5. IsInjective(queue)
      BY <2>1, <3>2, <3>3, InjectiveAppend
    <3>6. rx' = [rx EXCEPT ![rt.slot] = queue]
      BY <3>1, <3>3
    <3>7. /\ RxSets'[rt.slot] = Range(queue)
          /\ RxSets[rt.slot] = Range(rx[rt.slot])
          /\ \A d \in Slots : d # rt.slot => RxSets'[d] = RxSets[d]
          /\ rx'[rt.slot] = queue
          /\ \A d \in Slots : d # rt.slot => rx'[d] = rx[d]
      BY <2>1, <3>6, RxSetsUpdate DEF OwnerInv, TypeInv
    <3>8. Partition(free, lost, Range(fifo), rt.buf, ts.buf, RxSets)
      BY DEF OwnerInv, Places
    <3>9. RxSets'[rt.slot] = RxSets[rt.slot] \cup {rt.buf}
      BY <3>4, <3>7
    <3>10. Partition(free, lost, Range(fifo), NoBuf, ts.buf, RxSets')
      BY <2>1, <3>7, <3>8, <3>9, RouterToSlot
    <3>11. rt'.buf = NoBuf /\ rt'.pc = "announce"
      BY <3>1 DEF OwnerInv, TypeInv, TypeOK
    <3>12. QED
      BY <2>1, <3>1, <3>5, <3>7, <3>10, <3>11 DEF OwnerInv, EmptyHands, Places, OnceEach
  <2>3. CASE ~(Len(rx[rt.slot]) < RxLen)
    <3>1. free' = free \cup {rt.buf} /\ rt'.buf = NoBuf /\ rx' = rx
      BY <1>5, <2>3 DEF RouteDeliver, RtIdle
    <3>2. Partition(free \cup {rt.buf}, lost, Range(fifo), NoBuf, ts.buf, RxSets)
      BY <2>1, RouterToFree DEF OwnerInv, Places
    <3>3. QED
      BY <2>1, <3>1, <3>2 DEF OwnerInv, EmptyHands, Places, RxSets, OnceEach
  <2>4. QED
    BY <2>2, <2>3
<1>6. CASE RouteAnnounce
  <2>1. rt.slot \in Slots /\ rt.buf = NoBuf /\ UNCHANGED <<lost, fifo, ts>>
    BY <1>6 DEF RouteAnnounce, OwnerInv, TypeInv, ControlOK, EmptyHands
  <2>2. rt'.buf = NoBuf
    BY <1>6 DEF RouteAnnounce, RtIdle
  <2>3. EmptyHands'
    BY <2>1, <2>2 DEF EmptyHands, OwnerInv
  <2>4. CASE Close(rt.slot)
    BY <2>1, <2>2, <2>3, <2>4, OwnerClose
  <2>5. CASE UNCHANGED <<rx, free>>
    BY <2>1, <2>2, <2>3, <2>5 DEF OwnerInv, Places, RxSets, OnceEach
  <2>6. QED
    BY <1>6, <2>4, <2>5 DEF RouteAnnounce
<1>7. QED
  BY <1>1, <1>2, <1>3, <1>4, <1>5, <1>6 DEF Router

LEMMA OwnerServer ==
  ASSUME OwnerInv, TypeInv', Server
  PROVE  OwnerInv'
<1> USE DEF tableVars, threadVars, poolVars
<1>1. CASE ServerAccept
  <2>1. UNCHANGED <<free, lost, fifo, rx, rt>> /\ ts.pc = "accept"
    BY <1>1 DEF ServerAccept
  <2>2. ts' = ts \/ (ts'.buf = ts.buf /\ ts'.pc = "read")
    BY <1>1 DEF ServerAccept, OwnerInv, TypeInv, TypeOK
  <2>3. QED
    BY <2>1, <2>2 DEF OwnerInv, EmptyHands, Places, RxSets, OnceEach
<1>2. CASE ServerReadCheck
  <2>1. UNCHANGED <<free, lost, fifo, rx, rt>> /\ ts.pc = "read" /\ ts'.buf = ts.buf
        /\ ts'.pc \in {"wait", "last close"}
    BY <1>2 DEF ServerReadCheck, OwnerInv, TypeInv, TypeOK
  <2>2. QED
    BY <2>1 DEF OwnerInv, EmptyHands, Places, RxSets, OnceEach
<1>3. CASE ServerReadWait
  <2>1. /\ ts.conn \in Slots /\ ts.pc = "wait" /\ ts.buf = NoBuf
        /\ UNCHANGED <<free, lost, fifo, rt>>
    BY <1>3 DEF ServerReadWait, OwnerInv, TypeInv, ControlOK, EmptyHands
  <2>2. CASE rx[ts.conn] # <<>>
    <3>1. /\ rx' = [rx EXCEPT ![ts.conn] = Tail(rx[ts.conn])]
          /\ ts'.buf = Head(rx[ts.conn]) /\ ts'.pc = "dispatch"
      BY <1>3, <2>2 DEF ServerReadWait, OwnerInv, TypeInv, TypeOK
    <3>2. /\ Head(rx[ts.conn]) \in RxSets[ts.conn]
          /\ RxSets'[ts.conn] = RxSets[ts.conn] \ {Head(rx[ts.conn])}
          /\ \A d \in Slots : d # ts.conn => RxSets'[d] = RxSets[d]
          /\ \A d \in Slots : IsInjective(rx'[d])
      BY <2>1, <2>2, <3>1, HeadMove
    <3>3. Partition(free, lost, Range(fifo), rt.buf, NoBuf, RxSets)
      BY <2>1 DEF OwnerInv, Places
    <3>4. Partition(free, lost, Range(fifo), rt.buf, Head(rx[ts.conn]), RxSets')
      BY <2>1, <3>2, <3>3, SlotToServer
    <3>5. QED
      BY <2>1, <3>1, <3>2, <3>4 DEF OwnerInv, EmptyHands, Places, OnceEach
  <2>3. CASE rx[ts.conn] = <<>>
    <3>1. rx' = rx /\ ts'.buf = ts.buf /\ ts'.pc = "last close"
      BY <1>3, <2>3 DEF ServerReadWait, OwnerInv, TypeInv, TypeOK
    <3>2. QED
      BY <2>1, <3>1 DEF OwnerInv, EmptyHands, Places, RxSets, OnceEach
  <2>4. QED
    BY <2>2, <2>3
<1>4. CASE ServeTelemetry \/ ServePing
  <2>1. /\ ts.buf \in Buffers /\ lost' = lost \cup {ts.buf}
        /\ ts'.buf = NoBuf /\ UNCHANGED <<free, fifo, rx, rt>>
    BY <1>4 DEF ServeTelemetry, ServePing, OwnerInv, TypeInv, TypeOK, ControlOK
  <2>2. Partition(free, lost \cup {ts.buf}, Range(fifo), rt.buf, NoBuf, RxSets)
    BY <2>1, ServerToLost DEF OwnerInv, Places
  <2>3. QED
    BY <2>1, <2>2 DEF OwnerInv, EmptyHands, Places, RxSets, OnceEach
<1>5. CASE ServeService
  <2>1. /\ ts.buf \in Buffers /\ free' = free \cup {ts.buf}
        /\ ts'.buf = NoBuf /\ UNCHANGED <<lost, fifo, rx, rt>>
    BY <1>5 DEF ServeService, OwnerInv, TypeInv, TypeOK, ControlOK
  <2>2. Partition(free \cup {ts.buf}, lost, Range(fifo), rt.buf, NoBuf, RxSets)
    BY <2>1, ServerToFree DEF OwnerInv, Places
  <2>3. QED
    BY <2>1, <2>2 DEF OwnerInv, EmptyHands, Places, RxSets, OnceEach
<1>6. CASE ReplyConnect
  <2>1. ts.buf \in Buffers /\ UNCHANGED <<lost, fifo, rx, rt>>
    BY <1>6 DEF ReplyConnect, OwnerInv, TypeInv, ControlOK
  <2>2. CASE \E c \in Slots : ts' = [ts EXCEPT !.pc = "fill", !.reply = c] /\ free' = free
    <3>1. ts'.buf = ts.buf /\ ts'.pc = "fill"
      BY <2>2 DEF OwnerInv, TypeInv, TypeOK
    <3>2. QED
      BY <2>1, <2>2, <3>1 DEF OwnerInv, EmptyHands, Places, RxSets, OnceEach
  <2>3. CASE free' = free \cup {ts.buf} /\ ts' = [ts EXCEPT !.pc = "close", !.buf = NoBuf]
    <3>1. ts'.buf = NoBuf
      BY <2>3 DEF OwnerInv, TypeInv, TypeOK
    <3>2. Partition(free \cup {ts.buf}, lost, Range(fifo), rt.buf, NoBuf, RxSets)
      BY <2>1, ServerToFree DEF OwnerInv, Places
    <3>3. QED
      BY <2>1, <2>3, <3>1, <3>2 DEF OwnerInv, EmptyHands, Places, RxSets, OnceEach
  <2>4. QED
    BY <1>6, <2>2, <2>3 DEF ReplyConnect
<1>7. CASE ReplySend
  <2>1. ts.reply \in Slots /\ ts.buf \in Buffers /\ UNCHANGED <<lost, fifo, rt>>
    BY <1>7 DEF ReplySend, OwnerInv, TypeInv, ControlOK
  <2>2. /\ rx' = [rx EXCEPT ![ts.reply] = <<>>]
        /\ free' = AfterFlush(free, rx, ts.reply) \cup {ts.buf}
        /\ ts'.buf = NoBuf
    BY <1>7 DEF ReplySend, Fill, OwnerInv, TypeInv, TypeOK
  <2>3. /\ Partition(AfterFlush(free, rx, ts.reply), lost, Range(fifo), rt.buf, ts.buf, RxSets')
        /\ \A d \in Slots : IsInjective(rx'[d])
    BY <2>1, <2>2, FlushMove
  <2>4. Partition(AfterFlush(free, rx, ts.reply) \cup {ts.buf}, lost, Range(fifo), rt.buf,
                  NoBuf, RxSets')
    BY <2>1, <2>3, ServerToFree
  <2>5. QED
    BY <2>1, <2>2, <2>3, <2>4 DEF OwnerInv, EmptyHands, Places, OnceEach
<1>8. CASE ServerClose \/ ServerLastClose
  <2>1. /\ ts.conn \in Slots /\ Close(ts.conn) /\ ts.buf = NoBuf
        /\ UNCHANGED <<lost, fifo, rt>>
    BY <1>8 DEF ServerClose, ServerLastClose, OwnerInv, TypeInv, ControlOK, EmptyHands
  <2>2. ts'.buf = NoBuf
    <3>1. CASE ServerClose
      BY <2>1, <3>1 DEF ServerClose, OwnerInv, TypeInv, TypeOK
    <3>2. CASE ServerLastClose
      BY <3>2 DEF ServerLastClose, TsIdle
    <3>3. QED
      BY <1>8, <3>1, <3>2
  <2>3. EmptyHands'
    BY <2>1, <2>2 DEF EmptyHands, OwnerInv
  <2>4. QED
    BY <2>1, <2>2, <2>3, OwnerClose
<1>9. QED
  BY <1>1, <1>2, <1>3, <1>4, <1>5, <1>6, <1>7, <1>8 DEF Server

LEMMA OwnerFtp ==
  ASSUME OwnerInv, TypeInv', NEW c \in Slots, FtpThread(c)
  PROVE  OwnerInv'
<1>1. CASE FtpRead(c)
  <2>1. /\ rx[c] # <<>> /\ rx' = [rx EXCEPT ![c] = Tail(rx[c])]
        /\ free' = free \cup {Head(rx[c])}
        /\ UNCHANGED <<lost, fifo, rt, ts>>
    BY <1>1 DEF FtpRead
  <2>2. /\ Head(rx[c]) \in RxSets[c]
        /\ RxSets'[c] = RxSets[c] \ {Head(rx[c])}
        /\ \A d \in Slots : d # c => RxSets'[d] = RxSets[d]
        /\ \A d \in Slots : IsInjective(rx'[d])
    BY <2>1, HeadMove
  <2>3. Partition(free, lost, Range(fifo), rt.buf, ts.buf, RxSets)
    BY DEF OwnerInv, Places
  <2>4. {Head(rx[c])} \subseteq RxSets[c]
    BY <2>2
  <2>5. Partition(free \cup {Head(rx[c])}, lost, Range(fifo), rt.buf, ts.buf, RxSets')
    BY <2>2, <2>3, <2>4, SlotToFree
  <2>6. QED
    BY <2>1, <2>2, <2>5 DEF OwnerInv, EmptyHands, Places, OnceEach
<1>2. CASE FtpClose(c)
  <2>1. Close(c) /\ UNCHANGED <<lost, fifo, rt, ts>>
    BY <1>2 DEF FtpClose
  <2>2. EmptyHands'
    BY <2>1 DEF OwnerInv, EmptyHands
  <2>3. QED
    BY <2>1, <2>2, OwnerClose
<1>3. QED
  BY <1>1, <1>2 DEF FtpThread

LEMMA OwnerNext == OwnerInv /\ [Next]_vars => OwnerInv'
<1> SUFFICES ASSUME OwnerInv, [Next]_vars PROVE OwnerInv'
  OBVIOUS
<1>1. TypeInv'
  BY TypeInvNext DEF OwnerInv
<1>2. CASE UNCHANGED vars
  BY <1>1, <1>2, NoMove DEF vars
<1>3. CASE Next
  BY <1>1, <1>3, OwnerReceive, OwnerRouter, OwnerServer, OwnerFtp DEF Next
<1>4. QED
  BY <1>2, <1>3

LEMMA PlacesGiveOneOwner == OwnerInv => OneOwner
<1> SUFFICES ASSUME OwnerInv PROVE OneOwner
  OBVIOUS
<1>1. Partition(free, lost, Range(fifo), rt.buf, ts.buf, RxSets)
  BY DEF OwnerInv, Places
<1>2. \A c \in Slots : RxSets[c] = Range(rx[c])
  BY DEF RxSets
<1>3. \A b : b \in Queued <=> \E c \in Slots : b \in RxSets[c]
  BY <1>2 DEF Queued
<1>4. \A b : b \in InHand <=> b # NoBuf /\ (b = rt.buf \/ b = ts.buf)
  BY DEF InHand
<1>5. Buffers = free \cup lost \cup Range(fifo) \cup InHand \cup Queued
  BY <1>1, <1>3, <1>4, TableAssumption DEF Partition
<1>6. /\ free \cap lost = {}
      /\ InHand \cap (free \cup lost) = {}
      /\ rt.buf = ts.buf => rt.buf = NoBuf
      /\ Range(fifo) \cap (free \cup lost \cup InHand) = {}
  BY <1>1, <1>4 DEF Partition
<1>7. Queued \cap (free \cup lost \cup InHand \cup Range(fifo)) = {}
  BY <1>1, <1>3, <1>4 DEF Partition
<1>8. \A c, d \in Slots : c # d => Range(rx[c]) \cap Range(rx[d]) = {}
  BY <1>1, <1>2 DEF Partition
<1>9. QED
  BY <1>5, <1>6, <1>7, <1>8 DEF OneOwner, OwnerInv, OnceEach

(* No packet buffer of the pool is freed twice, lost from sight or used by  *)
(* two threads at once, in any interleaving of the interface threads, the   *)
(* router task, task_server and the FTP threads.                            *)
THEOREM BuffersHaveOneOwner == Spec => []OneOwner
<1>1. Init => OwnerInv
  BY OwnerInit
<1>2. OwnerInv /\ [Next]_vars => OwnerInv'
  BY OwnerNext
<1>3. OwnerInv => OneOwner
  BY PlacesGiveOneOwner
<1>4. QED
  BY <1>1, <1>2, <1>3, PTL DEF Spec

------------------------------------------------------------------------------
(***************************************************************************)
(* The proofs that TaskServer keeps NoForgottenConn and FlowsApart: what     *)
(* the connection table promises although only csp_conn_allocate and        *)
(* csp_close lock it.                                                      *)
(***************************************************************************)

(* Somebody besides the router task answers for the slot.                   *)
Cared(c) == ServerRefers(c) \/ c \in orphan

(* A connection the router has just made has no packet yet, so that its     *)
(* first packet finds room and the connection comes to be announced.        *)
FreshIsEmpty == rt.pc = "deliver" /\ sock[rt.slot] => rx[rt.slot] = <<>>

(* An open slot not yet announced is the one the router is working on.      *)
UnannouncedHeld ==
  \A c \in Slots :
    state[c] = "open" /\ sock[c] => rt.pc \in {"deliver", "announce"} /\ rt.slot = c

(* A slot the router found, or made and lost to another, is somebody's.     *)
FoundIsCared ==
  rt.pc \in {"deliver", "announce"} /\ ~sock[rt.slot] /\ state[rt.slot] = "open"
    => Cared(rt.slot)

NewHasNone == rt.pc = "new" => rt.slot = NoSlot

ConnInv ==
  TypeInv /\ NoForgottenConn /\ FreshIsEmpty /\ UnannouncedHeld /\ FoundIsCared /\ NewHasNone

LEMMA ConnInit == Init => ConnInv
BY TypeInvInit DEF Init, ConnInv, NoForgottenConn, FreshIsEmpty, UnannouncedHeld,
  FoundIsCared, NewHasNone, RtIdle, ClientSlots

-----------------------------------------------------------------------------
(* What csp_close leaves of a slot: closed, or as it was.                   *)
LEMMA CloseFacts ==
  ASSUME TypeInv, NEW c \in Slots, Close(c)
  PROVE  /\ state'[c] = "closed"
         /\ \A d \in Slots : d # c => state'[d] = state[d] /\ (d \in orphan => d \in orphan')
         /\ \A d \in Slots : rx[d] = <<>> => rx'[d] = <<>>
BY QueueTypes DEF Close, TypeInv, TypeOK

LEMMA AllocateFacts ==
  ASSUME TypeInv, NEW c \in Slots, Allocate(c)
  PROVE  /\ state[c] = "closed" /\ state'[c] = "open" /\ sock'[c] = FALSE
         /\ \A d \in Slots : d # c => state'[d] = state[d] /\ sock'[d] = sock[d]
BY DEF Allocate, IsNextFree, Closed, TypeInv, TypeOK

(* A thread other than the router task keeps what the invariant says of the *)
(* slots: it opens none but those of reply_data, announces none, delivers   *)
(* nothing, and lets go of none it does not close.                          *)
KeepsSlots ==
  /\ rt' = rt
  /\ \A c \in Slots :
       /\ sock'[c] # sock[c] => ~sock'[c] /\ c \in orphan'
       /\ rx[c] = <<>> => rx'[c] = <<>>
       /\ state'[c] = "open" /\ state[c] # "open" => c \in orphan' /\ ~sock'[c]
       /\ state'[c] = "open" /\ state[c] = "open" /\ Cared(c) => Cared(c)'

LEMMA QuietKeeps ==
  ASSUME TypeInv, UNCHANGED <<rt, sock, state, orphan, backlog, ftp>>,
         \A c \in Slots : rx[c] = <<>> => rx'[c] = <<>>,
         ts.pc # "accept" => ts'.pc # "accept" /\ ts'.conn = ts.conn
  PROVE  KeepsSlots
BY DEF KeepsSlots, Cared, ServerRefers

LEMMA ReceiveKeeps ==
  ASSUME TypeInv, NEW f \in AllFlows, ReceiveFrame(f)
  PROVE  KeepsSlots
<1>1. UNCHANGED <<rt, ts, sock, state, orphan, backlog, ftp, rx>>
  BY DEF ReceiveFrame, tableVars, threadVars
<1>2. QED
  BY <1>1, QuietKeeps

LEMMA ServerKeeps ==
  ASSUME TypeInv, Server
  PROVE  KeepsSlots
<1> USE DEF tableVars, threadVars, poolVars
<1>1. CASE ServerAccept
  <2>1. UNCHANGED <<rt, sock, state, orphan, rx>> /\ ts.pc = "accept"
        /\ backlog # <<>> /\ backlog' = Tail(backlog)
    BY <1>1 DEF ServerAccept
  <2>2. /\ Head(backlog) \in Slots
        /\ Range(backlog) = {Head(backlog)} \cup Range(Tail(backlog))
    <3>1. backlog \in Seq(Slots)
      BY QueueTypes DEF TypeInv
    <3>2. QED
      BY <2>1, <3>1, TailFacts
  <2>3. \/ ts'.pc = "read" /\ ts'.conn = Head(backlog) /\ ftp' = ftp
        \/ ftp'[Head(backlog)] > 0 /\ ts' = ts
           /\ \A d \in Slots : ftp[d] > 0 => ftp'[d] > 0
    <3>1. ftp \in [Slots -> Nat] /\ ftp[Head(backlog)] \in Nat
      BY <2>2 DEF TypeInv, TypeOK
    <3>2. CASE ServiceOf(Head(backlog)) = "ftp"
      <4>1. ts' = ts /\ ftp' = [ftp EXCEPT ![Head(backlog)] = ftp[Head(backlog)] + 1]
        BY <1>1, <3>2 DEF ServerAccept
      <4>2. QED
        BY <2>2, <3>1, <4>1
    <3>3. CASE ServiceOf(Head(backlog)) # "ftp"
      BY <1>1, <3>3 DEF ServerAccept, TypeInv, TypeOK
    <3>4. QED
      BY <3>2, <3>3
  <2>4. ASSUME NEW c \in Slots, Cared(c) PROVE Cared(c)'
    BY <2>1, <2>2, <2>3, <2>4 DEF Cared, ServerRefers
  <2>5. QED
    BY <2>1, <2>4 DEF KeepsSlots
<1>2. CASE ServerReadCheck
  <2>1. UNCHANGED <<rt, sock, state, orphan, backlog, ftp, rx>>
        /\ ts'.pc # "accept" /\ ts'.conn = ts.conn
    BY <1>2 DEF ServerReadCheck, TypeInv, TypeOK
  <2>2. QED
    BY <2>1, QuietKeeps
<1>3. CASE ServerReadWait
  <2>1. UNCHANGED <<rt, sock, state, orphan, backlog, ftp>> /\ ts.conn \in Slots
        /\ ts'.pc # "accept" /\ ts'.conn = ts.conn
    BY <1>3 DEF ServerReadWait, TypeInv, TypeOK, ControlOK
  <2>2. \A c \in Slots : rx[c] = <<>> => rx'[c] = <<>>
    BY <1>3, <2>1, QueueTypes DEF ServerReadWait, TypeInv
  <2>3. QED
    BY <2>1, <2>2, QuietKeeps
<1>4. CASE ServeTelemetry \/ ServePing \/ ServeService
  <2>1. UNCHANGED <<rt, sock, state, orphan, backlog, ftp, rx>>
        /\ ts'.pc # "accept" /\ ts'.conn = ts.conn
    BY <1>4 DEF ServeTelemetry, ServePing, ServeService, TypeInv, TypeOK
  <2>2. QED
    BY <2>1, QuietKeeps
<1>5. CASE ReplyConnect
  <2>1. UNCHANGED <<rt, rx, backlog, ftp>> /\ ts'.pc # "accept" /\ ts'.conn = ts.conn
    BY <1>5 DEF ReplyConnect, TypeInv, TypeOK
  <2>2. CASE \E c \in Slots : Allocate(c) /\ orphan' = orphan \cup {c}
    <3>1. PICK c \in Slots : Allocate(c) /\ orphan' = orphan \cup {c}
      BY <2>2
    <3>2. /\ state[c] = "closed" /\ sock'[c] = FALSE
          /\ \A d \in Slots : d # c => state'[d] = state[d] /\ sock'[d] = sock[d]
      BY <3>1, AllocateFacts
    <3>3. QED
      BY <2>1, <3>1, <3>2, <1>5 DEF KeepsSlots, Cared, ServerRefers, ReplyConnect
  <2>3. CASE UNCHANGED <<state, sock, orphan>>
    BY <2>1, <2>3, QuietKeeps
  <2>4. QED
    BY <1>5, <2>2, <2>3 DEF ReplyConnect
<1>6. CASE ReplySend
  <2>1. UNCHANGED <<rt, sock, state, orphan, backlog, ftp>> /\ ts.reply \in Slots
        /\ ts'.pc # "accept" /\ ts'.conn = ts.conn /\ rx' = [rx EXCEPT ![ts.reply] = <<>>]
    BY <1>6 DEF ReplySend, Fill, TypeInv, TypeOK, ControlOK
  <2>2. \A c \in Slots : rx[c] = <<>> => rx'[c] = <<>>
    BY <2>1, QueueTypes DEF TypeInv
  <2>3. QED
    BY <2>1, <2>2, QuietKeeps
<1>7. CASE ServerClose \/ ServerLastClose
  <2>1. UNCHANGED <<rt, sock, backlog, ftp>> /\ ts.conn \in Slots /\ Close(ts.conn)
        /\ ts.pc # "accept"
    BY <1>7 DEF ServerClose, ServerLastClose, TypeInv, ControlOK
  <2>2. /\ state'[ts.conn] = "closed"
        /\ \A d \in Slots : d # ts.conn =>
             state'[d] = state[d] /\ (d \in orphan => d \in orphan')
        /\ \A d \in Slots : rx[d] = <<>> => rx'[d] = <<>>
    BY <2>1, CloseFacts
  <2>3. QED
    BY <2>1, <2>2 DEF KeepsSlots, Cared, ServerRefers
<1>8. QED
  BY <1>1, <1>2, <1>3, <1>4, <1>5, <1>6, <1>7 DEF Server

LEMMA FtpKeeps ==
  ASSUME TypeInv, NEW c \in Slots, FtpThread(c)
  PROVE  KeepsSlots
<1>1. CASE FtpRead(c)
  <2>1. UNCHANGED <<rt, ts, sock, state, orphan, backlog, ftp>>
    BY <1>1 DEF FtpRead
  <2>2. \A d \in Slots : rx[d] = <<>> => rx'[d] = <<>>
    BY <1>1, QueueTypes DEF FtpRead, TypeInv
  <2>3. QED
    BY <2>1, <2>2, QuietKeeps
<1>2. CASE FtpClose(c)
  <2>1. UNCHANGED <<rt, ts, sock, backlog>> /\ Close(c)
    BY <1>2 DEF FtpClose
  <2>2. /\ state'[c] = "closed"
        /\ \A d \in Slots : d # c => state'[d] = state[d] /\ (d \in orphan => d \in orphan')
        /\ \A d \in Slots : rx[d] = <<>> => rx'[d] = <<>>
    BY <2>1, CloseFacts
  <2>3. \A d \in Slots : d # c => ftp'[d] = ftp[d]
    BY <1>2 DEF FtpClose, TypeInv, TypeOK
  <2>4. QED
    BY <2>1, <2>2, <2>3 DEF KeepsSlots, Cared, ServerRefers
<1>3. QED
  BY <1>1, <1>2 DEF FtpThread

LEMMA KeepsSlotsKeepsInv ==
  ASSUME ConnInv, TypeInv', KeepsSlots
  PROVE  ConnInv'
<1> USE DEF ConnInv, KeepsSlots
<1>1. NoForgottenConn'
  <2> SUFFICES ASSUME NEW c \in ClientSlots, state'[c] = "open"
               PROVE  Cared(c)' \/ (rt'.pc # "idle" /\ rt'.slot = c)
    BY DEF NoForgottenConn, Cared, ServerRefers
  <2>1. c \in Slots
    BY SlotFacts
  <2>2. CASE state[c] = "open"
    BY <2>1, <2>2 DEF NoForgottenConn, Cared, ServerRefers
  <2>3. CASE state[c] # "open"
    BY <2>1, <2>3 DEF Cared, ServerRefers
  <2>4. QED
    BY <2>2, <2>3
<1>2. /\ rt.pc \in {"deliver", "announce"} => rt.slot \in Slots
      /\ sock \in [Slots -> BOOLEAN] /\ sock' \in [Slots -> BOOLEAN]
  BY DEF TypeInv, TypeOK, ControlOK
<1>3. FreshIsEmpty'
  BY <1>2 DEF FreshIsEmpty
<1>4. UnannouncedHeld'
  BY <1>2 DEF UnannouncedHeld
<1>5. FoundIsCared'
  <2> SUFFICES ASSUME rt.pc \in {"deliver", "announce"}, ~sock'[rt.slot],
                      state'[rt.slot] = "open"
               PROVE  Cared(rt.slot)'
    BY DEF FoundIsCared, Cared, ServerRefers
  <2>1. CASE sock[rt.slot] \/ state[rt.slot] # "open"
    BY <1>2, <2>1 DEF Cared
  <2>2. CASE ~sock[rt.slot] /\ state[rt.slot] = "open"
    BY <1>2, <2>2 DEF FoundIsCared
  <2>3. QED
    BY <2>1, <2>2
<1>6. NewHasNone'
  BY DEF NewHasNone
<1>7. QED
  BY <1>1, <1>3, <1>4, <1>5, <1>6

(* The steps of the router task.                                            *)
LEMMA ConnRouter ==
  ASSUME ConnInv, TypeInv', Router
  PROVE  ConnInv'
<1> USE DEF ConnInv
<1>0. sock \in [Slots -> BOOLEAN] /\ state \in [Slots -> {"open", "closed"}]
  BY DEF TypeInv, TypeOK
<1>1. CASE RouteDiscard
  BY <1>1 DEF RouteDiscard, NoForgottenConn, FreshIsEmpty, UnannouncedHeld, FoundIsCared,
       NewHasNone, Cared, ServerRefers, tableVars, threadVars
<1>2. CASE RouteFind
  <2>1. /\ rt.pc = "idle"
        /\ UNCHANGED <<state, sock, rx, orphan, ts, ftp, backlog>>
    BY <1>2 DEF RouteFind, poolVars, tableVars
  <2>2. \/ /\ rt'.pc = "deliver" /\ rt'.slot \in ClientSlots
           /\ state[rt'.slot] = "open"
        \/ rt'.pc = "new" /\ rt'.slot = NoSlot
    BY <1>2 DEF RouteFind, IsFound, Matches
  <2>3. \A c \in Slots : ~(state[c] = "open" /\ sock[c])
    BY <2>1 DEF UnannouncedHeld
  <2>4. \A c \in ClientSlots : state[c] = "open" => Cared(c)
    BY <2>1 DEF NoForgottenConn, Cared
  <2>5. \A c : Cared(c)' <=> Cared(c)
    BY <2>1 DEF Cared, ServerRefers
  <2>6. NoForgottenConn'
    BY <2>1, <2>4 DEF NoForgottenConn, Cared, ServerRefers
  <2>7. FreshIsEmpty' /\ UnannouncedHeld' /\ NewHasNone'
    BY <2>1, <2>2, <2>3, SlotFacts DEF FreshIsEmpty, UnannouncedHeld, NewHasNone
  <2>8. FoundIsCared'
    BY <2>1, <2>2, <2>4 DEF FoundIsCared, Cared, ServerRefers
  <2>9. QED
    BY <2>6, <2>7, <2>8
<1>3. CASE RouteAllocate
  <2>1. rt.pc = "new" /\ rt.slot = NoSlot /\ UNCHANGED <<rx, orphan, ts, ftp, backlog>>
    BY <1>3 DEF RouteAllocate, NewHasNone
  <2>2. \A c \in Slots : ~(state[c] = "open" /\ sock[c])
    BY <2>1 DEF UnannouncedHeld
  <2>3. \A c \in ClientSlots : state[c] = "open" => Cared(c)
    BY <2>1, SlotFacts DEF NoForgottenConn, Cared
  <2>4. CASE \E c \in Slots : Allocate(c) /\ rt' = [rt EXCEPT !.pc = "fill", !.slot = c]
    <3>1. PICK c \in Slots : Allocate(c) /\ rt' = [rt EXCEPT !.pc = "fill", !.slot = c]
      BY <2>4
    <3>2. /\ state'[c] = "open" /\ sock'[c] = FALSE
          /\ \A d \in Slots : d # c => state'[d] = state[d] /\ sock'[d] = sock[d]
      BY <3>1, AllocateFacts
    <3>3. rt'.pc = "fill" /\ rt'.slot = c
      BY <3>1 DEF TypeInv, TypeOK
    <3>4. NoForgottenConn'
      BY <2>1, <2>3, <3>2, <3>3, SlotFacts DEF NoForgottenConn, Cared, ServerRefers
    <3>5. QED
      BY <2>2, <3>2, <3>3, <3>4 DEF FreshIsEmpty, UnannouncedHeld, FoundIsCared, NewHasNone
  <2>5. CASE rt' = RtIdle /\ UNCHANGED <<state, sock>>
    <3>1. rt'.pc = "idle"
      BY <2>5 DEF RtIdle
    <3>2. NoForgottenConn'
      BY <2>1, <2>3, <2>5 DEF NoForgottenConn, Cared, ServerRefers
    <3>3. QED
      BY <2>2, <2>5, <3>1, <3>2 DEF FreshIsEmpty, UnannouncedHeld, FoundIsCared, NewHasNone
  <2>6. QED
    BY <1>3, <2>4, <2>5 DEF RouteAllocate
<1>4. CASE RouteFill
  <2>1. rt.pc = "fill" /\ rt.slot \in Slots /\ UNCHANGED <<state, orphan, ts, ftp, backlog>>
    BY <1>4 DEF RouteFill, TypeInv, ControlOK
  <2>2. rt'.pc = "deliver" /\ rt'.slot = rt.slot
    BY <1>4 DEF RouteFill, TypeInv, TypeOK
  <2>3. /\ rx'[rt.slot] = <<>> /\ sock'[rt.slot] = TRUE
        /\ \A d \in Slots : d # rt.slot => sock'[d] = sock[d]
    BY <1>4, <2>1, QueueTypes DEF RouteFill, Fill, TypeInv, TypeOK
  <2>4. NoForgottenConn'
    BY <2>1, <2>2 DEF NoForgottenConn, ServerRefers
  <2>5. UnannouncedHeld'
    BY <2>1, <2>2, <2>3 DEF UnannouncedHeld
  <2>6. QED
    BY <2>2, <2>3, <2>4, <2>5 DEF FreshIsEmpty, FoundIsCared, NewHasNone
<1>5. CASE RouteDeliver
  <2>1. /\ rt.pc = "deliver" /\ rt.slot \in Slots
        /\ UNCHANGED <<state, sock, orphan, ts, ftp, backlog>>
    BY <1>5 DEF RouteDeliver, TypeInv, ControlOK
  <2>2. CASE Len(rx[rt.slot]) < RxLen
    <3>1. rt'.pc = "announce" /\ rt'.slot = rt.slot
      BY <1>5, <2>2 DEF RouteDeliver, TypeInv, TypeOK
    <3>2. NoForgottenConn'
      BY <2>1, <3>1 DEF NoForgottenConn, ServerRefers
    <3>3. FoundIsCared'
      BY <2>1, <3>1 DEF FoundIsCared, Cared, ServerRefers
    <3>4. QED
      BY <2>1, <3>1, <3>2, <3>3 DEF FreshIsEmpty, UnannouncedHeld, NewHasNone
  <2>3. CASE ~(Len(rx[rt.slot]) < RxLen)
    <3>1. rt'.pc = "idle"
      BY <1>5, <2>3 DEF RouteDeliver, RtIdle
    <3>2. ~sock[rt.slot]
      <4>1. rx[rt.slot] # <<>>
        BY <2>3, ServerAssumption
      <4>2. QED
        BY <2>1, <4>1 DEF FreshIsEmpty
    <3>3. NoForgottenConn'
      BY <2>1, <3>1, <3>2 DEF NoForgottenConn, FoundIsCared, Cared, ServerRefers
    <3>4. UnannouncedHeld'
      BY <2>1, <3>2 DEF UnannouncedHeld
    <3>5. QED
      BY <3>1, <3>3, <3>4 DEF FreshIsEmpty, FoundIsCared, NewHasNone
  <2>4. QED
    BY <2>2, <2>3
<1>6. CASE RouteAnnounce
  <2>1. /\ rt.pc = "announce" /\ rt.slot \in Slots /\ rt'.pc = "idle"
        /\ UNCHANGED <<ts, ftp>>
    BY <1>6 DEF RouteAnnounce, RtIdle, TypeInv, ControlOK
  <2>2. CASE /\ sock[rt.slot] /\ backlog' = Append(backlog, rt.slot)
             /\ sock' = [sock EXCEPT ![rt.slot] = FALSE]
             /\ UNCHANGED <<state, rx, orphan>>
    <3>1. Range(backlog') = Range(backlog) \cup {rt.slot}
      <4>1. backlog \in Seq(Slots)
        BY QueueTypes DEF TypeInv
      <4>2. QED
        BY <2>1, <2>2, <4>1, AppendFacts
    <3>2. NoForgottenConn'
      BY <2>1, <2>2, <3>1 DEF NoForgottenConn, ServerRefers
    <3>3. UnannouncedHeld'
      BY <1>0, <2>1, <2>2 DEF UnannouncedHeld
    <3>4. QED
      BY <2>1, <3>2, <3>3 DEF FreshIsEmpty, FoundIsCared, NewHasNone
  <2>3. CASE Close(rt.slot) /\ UNCHANGED <<backlog, sock>>
    <3>1. /\ state'[rt.slot] = "closed"
          /\ \A d \in Slots : d # rt.slot =>
               state'[d] = state[d] /\ (d \in orphan => d \in orphan')
      BY <2>1, <2>3, CloseFacts
    <3>2. NoForgottenConn'
      BY <2>1, <2>3, <3>1, SlotFacts DEF NoForgottenConn, ServerRefers
    <3>3. UnannouncedHeld'
      BY <2>1, <2>3, <3>1 DEF UnannouncedHeld
    <3>4. QED
      BY <2>1, <3>2, <3>3 DEF FreshIsEmpty, FoundIsCared, NewHasNone
  <2>4. CASE ~sock[rt.slot] /\ UNCHANGED <<backlog, sock, state, orphan>>
    <3>1. NoForgottenConn'
      BY <2>1, <2>4 DEF NoForgottenConn, FoundIsCared, Cared, ServerRefers
    <3>2. UnannouncedHeld'
      BY <2>1, <2>4 DEF UnannouncedHeld
    <3>3. QED
      BY <2>1, <3>1, <3>2 DEF FreshIsEmpty, FoundIsCared, NewHasNone
  <2>5. QED
    BY <1>6, <2>2, <2>3, <2>4 DEF RouteAnnounce
<1>7. QED
  BY <1>1, <1>2, <1>3, <1>4, <1>5, <1>6 DEF Router

LEMMA ConnNext == ConnInv /\ [Next]_vars => ConnInv'
<1> SUFFICES ASSUME ConnInv, [Next]_vars PROVE ConnInv'
  OBVIOUS
<1>1. TypeInv /\ TypeInv'
  BY TypeInvNext DEF ConnInv
<1>2. CASE UNCHANGED vars
  BY <1>1, <1>2, QuietKeeps, KeepsSlotsKeepsInv DEF vars
<1>3. CASE Next
  BY <1>1, <1>3, ReceiveKeeps, ServerKeeps, FtpKeeps, KeepsSlotsKeepsInv, ConnRouter DEF Next
<1>4. QED
  BY <1>2, <1>3

(* Whatever slots are closed twice, reused or refused by a full backlog,     *)
(* every open connection is one that some thread will come to and close, or *)
(* one that reply_data opened.                                              *)
THEOREM NoConnForgotten == Spec => []NoForgottenConn
<1>1. Init => ConnInv
  BY ConnInit
<1>2. ConnInv /\ [Next]_vars => ConnInv'
  BY ConnNext
<1>3. ConnInv => NoForgottenConn
  BY DEF ConnInv
<1>4. QED
  BY <1>1, <1>2, <1>3, PTL DEF Spec

-----------------------------------------------------------------------------
(* One connection for one flow.                                             *)

(* The slot is open and idin is the identifier of its connection.           *)
Named(c) == state[c] = "open" /\ ~Filling(c)

Unnamed(f) == \A c \in ClientSlots : Named(c) => idin[c] # f

(* From csp_conn_find, which found nothing, to the end of csp_conn_new no    *)
(* other slot comes to have the identifier: the router alone names slots    *)
(* after flows of other nodes, and task_server after ephemeral ports.       *)
RouterNames == rt.pc \in {"new", "fill"} => pkt[rt.buf] \in Flows /\ Unnamed(pkt[rt.buf])
ServerNames == ts.pc = "fill" => Unnamed(sport)

NameInv == OwnerInv /\ OneConnPerFlow /\ RouterNames /\ ServerNames

LEMMA NameInit == Init => NameInv
<1> SUFFICES ASSUME Init PROVE NameInv
  OBVIOUS
<1>1. rt.pc = "idle" /\ ts.pc = "accept"
  BY DEF Init, RtIdle, TsIdle
<1>2. \A c \in ClientSlots : state[c] # "open"
  BY DEF Init, ClientSlots
<1>3. QED
  BY <1>1, <1>2, OwnerInit DEF NameInv, OneConnPerFlow, RouterNames, ServerNames

NamesStay == \A c \in ClientSlots : Named(c)' => Named(c) /\ idin'[c] = idin[c]

RouterStays ==
  rt'.pc \in {"new", "fill"} =>
    rt.pc \in {"new", "fill"} /\ pkt'[rt'.buf] = pkt[rt.buf]

ServerStays == ts'.pc = "fill" => ts.pc = "fill" /\ sport' = sport

LEMMA NamesStayOne ==
  ASSUME OneConnPerFlow, NamesStay
  PROVE  OneConnPerFlow'
BY DEF OneConnPerFlow, NamesStay, Named, Filling

LEMMA RouterStaysNames ==
  ASSUME RouterNames, NamesStay, RouterStays
  PROVE  RouterNames'
BY DEF RouterNames, NamesStay, RouterStays, Unnamed, Named, Filling

LEMMA ServerStaysNames ==
  ASSUME ServerNames, NamesStay, ServerStays
  PROVE  ServerNames'
BY DEF ServerNames, NamesStay, ServerStays, Unnamed, Named, Filling

(* A step that names no slot and opens none.                                *)
LEMMA QuietNames ==
  ASSUME NameInv, OwnerInv', UNCHANGED idin,
         \A c \in ClientSlots : state'[c] = "open" => state[c] = "open",
         rt'.pc \in {"new", "fill"} \/ rt.pc \in {"new", "fill"} =>
           rt' = rt /\ pkt'[rt.buf] = pkt[rt.buf],
         ts'.pc = "fill" \/ ts.pc = "fill" => ts' = ts /\ sport' = sport
  PROVE  NameInv'
<1>1. NamesStay
  BY DEF NamesStay, Named, Filling
<1>2. RouterStays /\ ServerStays
  BY DEF RouterStays, ServerStays
<1>3. QED
  BY <1>1, <1>2, NamesStayOne, RouterStaysNames, ServerStaysNames DEF NameInv

LEMMA NameReceive ==
  ASSUME NameInv, OwnerInv', NEW f \in AllFlows, ReceiveFrame(f)
  PROVE  NameInv'
<1>1. UNCHANGED <<rt, ts, sport, state, idin>>
  BY DEF ReceiveFrame, tableVars, threadVars
<1>2. rt.pc \in {"new", "fill"} => pkt'[rt.buf] = pkt[rt.buf]
  <2>1. PICK b \in free : pkt' = [pkt EXCEPT ![b] = f]
    BY DEF ReceiveFrame
  <2>2. rt.pc \in {"new", "fill"} => rt.buf \in Buffers /\ rt.buf # b
    BY DEF NameInv, OwnerInv, TypeInv, ControlOK, Places, Partition
  <2>3. QED
    BY <2>1, <2>2 DEF NameInv, OwnerInv, TypeInv, TypeOK
<1>3. QED
  BY <1>1, <1>2, QuietNames

LEMMA NameClose ==
  ASSUME TypeInv, NEW c \in Slots, Close(c)
  PROVE  \A d \in ClientSlots : state'[d] = "open" => state[d] = "open"
BY CloseFacts, SlotFacts

LEMMA NameRouter ==
  ASSUME NameInv, OwnerInv', Router
  PROVE  NameInv'
<1> USE DEF tableVars, threadVars, poolVars
<1>0. TypeInv
  BY DEF NameInv, OwnerInv
<1>1. CASE RouteDiscard
  BY <1>1, QuietNames DEF RouteDiscard
<1>2. CASE RouteFind
  <2>1. rt.pc = "idle" /\ UNCHANGED <<pkt, state, idin, ts, sport>>
    BY <1>2 DEF RouteFind
  <2>2. CASE rt'.pc = "deliver"
    BY <2>1, <2>2, QuietNames
  <2>3. CASE rt'.pc = "new"
    <3>1. Matches(state, idin, pkt[rt'.buf]) = {} /\ pkt[rt'.buf] \in Flows
      BY <1>2, <2>3 DEF RouteFind
    <3>2. NamesStay /\ ServerStays
      BY <2>1, <2>3 DEF NamesStay, ServerStays, Named, Filling
    <3>3. RouterNames'
      BY <2>1, <3>1 DEF RouterNames, Unnamed, Named, Matches
    <3>4. QED
      BY <3>2, <3>3, NamesStayOne, ServerStaysNames DEF NameInv
  <2>4. QED
    BY <1>2, <2>2, <2>3 DEF RouteFind
<1>3. CASE RouteAllocate
  <2>1. rt.pc = "new" /\ UNCHANGED <<pkt, idin, ts, sport>>
    BY <1>3 DEF RouteAllocate
  <2>2. CASE \E c \in Slots : Allocate(c) /\ rt' = [rt EXCEPT !.pc = "fill", !.slot = c]
    <3>1. PICK c \in Slots : Allocate(c) /\ rt' = [rt EXCEPT !.pc = "fill", !.slot = c]
      BY <2>2
    <3>2. rt'.pc = "fill" /\ rt'.slot = c /\ rt'.buf = rt.buf
      BY <1>0, <3>1 DEF TypeInv, TypeOK
    <3>3. \A d \in Slots : d # c => state'[d] = state[d]
      BY <1>0, <3>1, AllocateFacts
    <3>4. NamesStay
      BY <2>1, <3>2, <3>3, SlotFacts DEF NamesStay, Named, Filling
    <3>5. RouterStays /\ ServerStays
      BY <2>1, <3>2 DEF RouterStays, ServerStays
    <3>6. QED
      BY <3>4, <3>5, NamesStayOne, RouterStaysNames, ServerStaysNames DEF NameInv
  <2>3. CASE rt' = RtIdle /\ UNCHANGED state
    <3>1. NamesStay /\ RouterStays /\ ServerStays
      BY <2>1, <2>3 DEF NamesStay, RouterStays, ServerStays, Named, Filling, RtIdle
    <3>2. QED
      BY <3>1, NamesStayOne, RouterStaysNames, ServerStaysNames DEF NameInv
  <2>4. QED
    BY <1>3, <2>2, <2>3 DEF RouteAllocate
<1>4. CASE RouteFill
  <2>1. /\ rt.pc = "fill" /\ rt.slot \in Slots /\ UNCHANGED <<pkt, state, ts, sport>>
        /\ idin' = [idin EXCEPT ![rt.slot] = pkt[rt.buf]]
        /\ rt'.pc = "deliver"
    BY <1>0, <1>4 DEF RouteFill, Fill, TypeInv, TypeOK, ControlOK
  <2>2. /\ idin'[rt.slot] = pkt[rt.buf]
        /\ \A d \in Slots : d # rt.slot => idin'[d] = idin[d]
    BY <1>0, <2>1 DEF TypeInv, TypeOK
  <2>3. \A d \in ClientSlots : d # rt.slot =>
          /\ Named(d)' => Named(d)
          /\ idin'[d] = idin[d]
    BY <2>1, <2>2, SlotFacts DEF Named, Filling
  <2>4. pkt[rt.buf] \in Flows /\ \A d \in ClientSlots : Named(d) => idin[d] # pkt[rt.buf]
    BY <2>1 DEF NameInv, RouterNames, Unnamed
  <2>5. OneConnPerFlow'
    <3>1. \A d \in ClientSlots : Named(d)' /\ d # rt.slot => idin'[d] # pkt[rt.buf]
      BY <2>3, <2>4
    <3>2. \A c, d \in ClientSlots :
            Named(c)' /\ Named(d)' /\ idin'[c] = idin'[d] => c = d
      <4>1. TAKE c, d \in ClientSlots
      <4>2. CASE c # rt.slot /\ d # rt.slot
        BY <2>3, <4>2 DEF NameInv, OneConnPerFlow, Named
      <4>3. CASE c = rt.slot \/ d = rt.slot
        BY <2>2, <3>1, <4>3
      <4>4. QED
        BY <4>2, <4>3
    <3>3. QED
      BY <3>2 DEF OneConnPerFlow, Named, Filling
  <2>6. ServerNames'
    <3> SUFFICES ASSUME ts.pc = "fill", NEW d \in ClientSlots, Named(d)'
                 PROVE  idin'[d] # sport
      BY <2>1 DEF ServerNames, Unnamed, Named, Filling
    <3>1. CASE d = rt.slot
      BY <1>0, <2>2, <2>4, <3>1, TableAssumption DEF TypeInv, TypeOK
    <3>2. CASE d # rt.slot
      BY <2>3, <3>2 DEF NameInv, ServerNames, Unnamed
    <3>3. QED
      BY <3>1, <3>2
  <2>7. RouterNames'
    BY <2>1 DEF RouterNames
  <2>8. QED
    BY <2>5, <2>6, <2>7 DEF NameInv
<1>5. CASE RouteDeliver
  <2>1. rt.pc = "deliver" /\ UNCHANGED <<state, idin, ts, sport>>
    BY <1>5 DEF RouteDeliver
  <2>2. rt'.pc \in {"announce", "idle"}
    <3>1. CASE Len(rx[rt.slot]) < RxLen
      BY <1>0, <1>5, <3>1 DEF RouteDeliver, TypeInv, TypeOK
    <3>2. CASE ~(Len(rx[rt.slot]) < RxLen)
      BY <1>5, <3>2 DEF RouteDeliver, RtIdle
    <3>3. QED
      BY <3>1, <3>2
  <2>3. QED
    BY <2>1, <2>2, QuietNames
<1>6. CASE RouteAnnounce
  <2>1. rt.pc = "announce" /\ rt'.pc = "idle" /\ rt.slot \in Slots
        /\ UNCHANGED <<idin, ts, sport>>
    BY <1>0, <1>6 DEF RouteAnnounce, RtIdle, TypeInv, ControlOK
  <2>2. \A d \in ClientSlots : state'[d] = "open" => state[d] = "open"
    BY <1>0, <1>6, <2>1, NameClose DEF RouteAnnounce
  <2>3. QED
    BY <2>1, <2>2, QuietNames
<1>7. QED
  BY <1>1, <1>2, <1>3, <1>4, <1>5, <1>6 DEF Router

LEMMA NameServer ==
  ASSUME NameInv, OwnerInv', Server
  PROVE  NameInv'
<1> USE DEF tableVars, threadVars, poolVars
<1>0. TypeInv
  BY DEF NameInv, OwnerInv
<1>1. CASE ServerAccept \/ ServerReadCheck \/ ServerReadWait
           \/ ServeTelemetry \/ ServePing \/ ServeService
  <2>1. /\ ts.pc # "fill" /\ ts'.pc # "fill"
        /\ UNCHANGED <<pkt, state, idin, rt>>
    BY <1>0, <1>1 DEF ServerAccept, ServerReadCheck, ServerReadWait, ServeTelemetry,
         ServePing, ServeService, TypeInv, TypeOK
  <2>2. QED
    BY <2>1, QuietNames
<1>2. CASE ReplyConnect
  <2>1. ts.pc = "dispatch" /\ UNCHANGED <<pkt, idin, rt>>
    BY <1>2 DEF ReplyConnect
  <2>2. CASE \E f \in EphFlows, c \in Slots :
               /\ Matches(state, idin, f) = {}
               /\ Allocate(c)
               /\ sport' = f
               /\ ts' = [ts EXCEPT !.pc = "fill", !.reply = c]
    <3>1. PICK f \in EphFlows, c \in Slots :
               /\ Matches(state, idin, f) = {}
               /\ Allocate(c)
               /\ sport' = f
               /\ ts' = [ts EXCEPT !.pc = "fill", !.reply = c]
      BY <2>2
    <3>2. ts'.pc = "fill" /\ ts'.reply = c
      BY <1>0, <3>1 DEF TypeInv, TypeOK
    <3>3. \A d \in Slots : d # c => state'[d] = state[d]
      BY <1>0, <3>1, AllocateFacts
    <3>4. NamesStay
      BY <2>1, <3>2, <3>3, SlotFacts DEF NamesStay, Named, Filling
    <3>5. RouterStays
      BY <2>1 DEF RouterStays
    <3>6. ServerNames'
      <4>1. \A d \in ClientSlots : Named(d) => idin[d] # f
        BY <3>1 DEF Named, Matches
      <4>2. QED
        BY <3>1, <3>4, <4>1 DEF ServerNames, Unnamed, NamesStay, Named, Filling
    <3>7. QED
      BY <3>4, <3>5, <3>6, NamesStayOne, RouterStaysNames DEF NameInv
  <2>3. CASE ts' = [ts EXCEPT !.pc = "close", !.buf = NoBuf] /\ UNCHANGED state
    <3>1. ts'.pc = "close"
      BY <1>0, <2>3 DEF TypeInv, TypeOK
    <3>2. QED
      BY <2>1, <2>3, <3>1, QuietNames
  <2>4. QED
    BY <1>2, <2>2, <2>3 DEF ReplyConnect
<1>3. CASE ReplySend
  <2>1. /\ ts.pc = "fill" /\ ts.reply \in Slots /\ UNCHANGED <<pkt, state, rt, sport>>
        /\ idin' = [idin EXCEPT ![ts.reply] = sport]
        /\ ts'.pc = "close"
    BY <1>0, <1>3 DEF ReplySend, Fill, TypeInv, TypeOK, ControlOK
  <2>2. /\ idin'[ts.reply] = sport /\ sport \in EphFlows
        /\ \A d \in Slots : d # ts.reply => idin'[d] = idin[d]
    BY <1>0, <2>1 DEF TypeInv, TypeOK
  <2>3. \A d \in ClientSlots : d # ts.reply =>
          /\ Named(d)' => Named(d)
          /\ idin'[d] = idin[d]
    BY <2>1, <2>2, SlotFacts DEF Named, Filling
  <2>4. \A d \in ClientSlots : Named(d) => idin[d] # sport
    BY <2>1 DEF NameInv, ServerNames, Unnamed
  <2>5. OneConnPerFlow'
    <3>1. \A d \in ClientSlots : Named(d)' /\ d # ts.reply => idin'[d] # sport
      BY <2>3, <2>4
    <3>2. \A c, d \in ClientSlots :
            Named(c)' /\ Named(d)' /\ idin'[c] = idin'[d] => c = d
      <4>1. TAKE c, d \in ClientSlots
      <4>2. CASE c # ts.reply /\ d # ts.reply
        BY <2>3, <4>2 DEF NameInv, OneConnPerFlow, Named
      <4>3. CASE c = ts.reply \/ d = ts.reply
        BY <2>2, <3>1, <4>3
      <4>4. QED
        BY <4>2, <4>3
    <3>3. QED
      BY <3>2 DEF OneConnPerFlow, Named, Filling
  <2>6. RouterNames'
    <3> SUFFICES ASSUME rt.pc \in {"new", "fill"}
                 PROVE  /\ pkt[rt.buf] \in Flows
                        /\ \A d \in ClientSlots : Named(d)' => idin'[d] # pkt[rt.buf]
      BY <2>1 DEF RouterNames, Unnamed, Named, Filling
    <3>1. pkt[rt.buf] \in Flows /\ \A d \in ClientSlots : Named(d) => idin[d] # pkt[rt.buf]
      BY DEF NameInv, RouterNames, Unnamed
    <3>2. pkt[rt.buf] # sport
      BY <2>2, <3>1, TableAssumption
    <3>3. QED
      BY <2>2, <2>3, <3>1, <3>2
  <2>7. ServerNames'
    BY <2>1 DEF ServerNames
  <2>8. QED
    BY <2>5, <2>6, <2>7 DEF NameInv
<1>4. CASE ServerClose \/ ServerLastClose
  <2>1. /\ ts.pc # "fill" /\ ts'.pc # "fill" /\ ts.conn \in Slots /\ Close(ts.conn)
        /\ UNCHANGED <<pkt, idin, rt>>
    <3>1. CASE ServerClose
      BY <1>0, <3>1 DEF ServerClose, TypeInv, TypeOK, ControlOK
    <3>2. CASE ServerLastClose
      BY <1>0, <3>2 DEF ServerLastClose, TsIdle, TypeInv, ControlOK
    <3>3. QED
      BY <1>4, <3>1, <3>2
  <2>2. \A d \in ClientSlots : state'[d] = "open" => state[d] = "open"
    BY <1>0, <2>1, NameClose
  <2>3. QED
    BY <2>1, <2>2, QuietNames
<1>5. QED
  BY <1>1, <1>2, <1>3, <1>4 DEF Server

LEMMA NameFtp ==
  ASSUME NameInv, OwnerInv', NEW c \in Slots, FtpThread(c)
  PROVE  NameInv'
<1>0. TypeInv
  BY DEF NameInv, OwnerInv
<1>1. UNCHANGED <<pkt, idin, rt, ts, sport>>
  BY DEF FtpThread, FtpRead, FtpClose
<1>2. \A d \in ClientSlots : state'[d] = "open" => state[d] = "open"
  BY <1>0, NameClose DEF FtpThread, FtpRead, FtpClose
<1>3. QED
  BY <1>1, <1>2, QuietNames

LEMMA NameNext == NameInv /\ [Next]_vars => NameInv'
<1> SUFFICES ASSUME NameInv, [Next]_vars PROVE NameInv'
  OBVIOUS
<1>1. OwnerInv'
  BY OwnerNext DEF NameInv
<1>2. CASE UNCHANGED vars
  BY <1>1, <1>2, QuietNames DEF vars
<1>3. CASE Next
  BY <1>1, <1>3, NameReceive, NameRouter, NameServer, NameFtp DEF Next
<1>4. QED
  BY <1>2, <1>3

-----------------------------------------------------------------------------
(* Every packet on the connection of its own flow.                          *)

(* The slot csp_conn_find found, or csp_conn_new named, is still that of the *)
(* packet the router has in hand, unless it was named after an ephemeral     *)
(* port meanwhile.                                                          *)
RouterOwn ==
  rt.pc = "deliver" /\ idin[rt.slot] \in Flows => pkt[rt.buf] = idin[rt.slot]

PacketInv == OwnerInv /\ OwnPackets /\ RouterOwn

LEMMA PacketInit == Init => PacketInv
<1> SUFFICES ASSUME Init PROVE PacketInv
  OBVIOUS
<1>1. rt.pc = "idle"
  BY DEF Init, RtIdle
<1>2. \A c \in ClientSlots : idin[c] \notin Flows
  BY TableAssumption DEF Init, ClientSlots
<1>3. QED
  BY <1>1, <1>2, OwnerInit DEF PacketInv, OwnPackets, RouterOwn

(* A step that names no slot and queues no packet.                          *)
FewerPackets ==
  /\ UNCHANGED <<pkt, idin>>
  /\ \A c \in ClientSlots : Range(rx'[c]) \subseteq Range(rx[c])

LEMMA FewerStayOwn ==
  ASSUME OwnPackets, FewerPackets
  PROVE  OwnPackets'
BY DEF OwnPackets, FewerPackets

LEMMA QuietPackets ==
  ASSUME PacketInv, OwnerInv', FewerPackets, rt' = rt \/ rt'.pc # "deliver"
  PROVE  PacketInv'
<1>1. OwnPackets'
  BY FewerStayOwn DEF PacketInv
<1>2. RouterOwn'
  BY DEF PacketInv, RouterOwn, FewerPackets
<1>3. QED
  BY <1>1, <1>2 DEF PacketInv

LEMMA ClosePackets ==
  ASSUME TypeInv, NEW c \in Slots, Close(c)
  PROVE  \A d \in ClientSlots : Range(rx'[d]) \subseteq Range(rx[d])
<1>1. \A d \in Slots : rx'[d] = rx[d] \/ rx'[d] = <<>>
  BY DEF Close, TypeInv, TypeOK
<1>2. Range(<<>>) = {}
  BY DEF Range
<1>3. QED
  BY <1>1, <1>2, SlotFacts

(* csp_conn_new: the slot is named and its queue flushed.                   *)
LEMMA FillPackets ==
  ASSUME TypeInv, OwnPackets, NEW c \in Slots, NEW id, Fill(c, id), pkt' = pkt
  PROVE  /\ OwnPackets'
         /\ idin'[c] = id
         /\ \A d \in Slots : d # c => idin'[d] = idin[d]
<1>1. /\ idin'[c] = id /\ rx'[c] = <<>>
      /\ \A d \in Slots : d # c => idin'[d] = idin[d] /\ rx'[d] = rx[d]
  BY DEF Fill, TypeInv, TypeOK
<1>2. Range(rx'[c]) = {}
  BY <1>1 DEF Range
<1>3. QED
  BY <1>1, <1>2, SlotFacts DEF OwnPackets

LEMMA PacketReceive ==
  ASSUME PacketInv, OwnerInv', NEW f \in AllFlows, ReceiveFrame(f)
  PROVE  PacketInv'
<1>1. UNCHANGED <<rt, idin, rx>>
  BY DEF ReceiveFrame, tableVars, threadVars
<1>2. PICK b \in free : pkt' = [pkt EXCEPT ![b] = f]
  BY DEF ReceiveFrame
<1>3. \A a \in Buffers : a # b => pkt'[a] = pkt[a]
  BY <1>2 DEF PacketInv, OwnerInv, TypeInv, TypeOK
<1>4. \A c \in ClientSlots : \A a \in Range(rx[c]) : a \in Buffers /\ a # b
  BY SlotFacts DEF PacketInv, OwnerInv, Places, Partition, RxSets
<1>5. OwnPackets'
  BY <1>1, <1>3, <1>4 DEF PacketInv, OwnPackets
<1>6. rt.pc = "deliver" => rt.buf \in Buffers /\ rt.buf # b
  BY DEF PacketInv, OwnerInv, TypeInv, ControlOK, Places, Partition
<1>7. RouterOwn'
  BY <1>1, <1>3, <1>6 DEF PacketInv, RouterOwn
<1>8. QED
  BY <1>5, <1>7 DEF PacketInv

LEMMA PacketRouter ==
  ASSUME PacketInv, OwnerInv', Router
  PROVE  PacketInv'
<1> USE DEF tableVars, threadVars, poolVars
<1>0. TypeInv
  BY DEF PacketInv, OwnerInv
<1>1. CASE RouteDiscard
  <2>1. FewerPackets /\ rt' = rt
    BY <1>1 DEF RouteDiscard, FewerPackets
  <2>2. QED
    BY <2>1, QuietPackets
<1>2. CASE RouteFind
  <2>1. FewerPackets
    BY <1>2 DEF RouteFind, FewerPackets
  <2>2. CASE rt'.pc = "deliver"
    <3>1. PICK c \in Slots : /\ IsFound(state, idin, pkt[Head(fifo)], c)
                             /\ rt' = [pc |-> "deliver", buf |-> Head(fifo), slot |-> c]
      BY <1>2, <2>2 DEF RouteFind
    <3>2. pkt[rt'.buf] = idin[rt'.slot]
      BY <3>1 DEF IsFound, Matches
    <3>3. RouterOwn'
      BY <2>1, <3>2 DEF RouterOwn, FewerPackets
    <3>4. QED
      BY <2>1, <3>3, FewerStayOwn DEF PacketInv
  <2>3. CASE rt'.pc # "deliver"
    BY <2>1, <2>3, QuietPackets
  <2>4. QED
    BY <2>2, <2>3
<1>3. CASE RouteAllocate
  <2>1. FewerPackets
    BY <1>3 DEF RouteAllocate, FewerPackets
  <2>2. rt'.pc # "deliver"
    <3>1. CASE \E c \in Slots : rt' = [rt EXCEPT !.pc = "fill", !.slot = c]
      BY <1>0, <3>1 DEF TypeInv, TypeOK
    <3>2. CASE rt' = RtIdle
      BY <3>2 DEF RtIdle
    <3>3. QED
      BY <1>3, <3>1, <3>2 DEF RouteAllocate
  <2>3. QED
    BY <2>1, <2>2, QuietPackets
<1>4. CASE RouteFill
  <2>1. /\ rt.slot \in Slots /\ Fill(rt.slot, pkt[rt.buf]) /\ pkt' = pkt
        /\ rt'.buf = rt.buf /\ rt'.slot = rt.slot
    BY <1>0, <1>4 DEF RouteFill, TypeInv, TypeOK, ControlOK
  <2>2. OwnPackets' /\ idin'[rt.slot] = pkt[rt.buf]
    BY <1>0, <2>1, FillPackets DEF PacketInv
  <2>3. RouterOwn'
    BY <2>1, <2>2 DEF RouterOwn
  <2>4. QED
    BY <2>2, <2>3 DEF PacketInv
<1>5. CASE RouteDeliver
  <2>1. rt.pc = "deliver" /\ rt.slot \in Slots /\ rt.buf \in Buffers
        /\ UNCHANGED <<pkt, idin>>
    BY <1>0, <1>5 DEF RouteDeliver, TypeInv, ControlOK
  <2>2. CASE Len(rx[rt.slot]) < RxLen
    <3>1. rx' = [rx EXCEPT ![rt.slot] = Append(@, rt.buf)] /\ rt'.pc = "announce"
      BY <1>0, <1>5, <2>2 DEF RouteDeliver, TypeInv, TypeOK
    <3>2. /\ Range(rx'[rt.slot]) = Range(rx[rt.slot]) \cup {rt.buf}
          /\ \A d \in Slots : d # rt.slot => rx'[d] = rx[d]
      BY <1>0, <2>1, <3>1, QueueTypes, AppendFacts DEF TypeInv
    <3>3. OwnPackets'
      BY <2>1, <3>2, SlotFacts DEF PacketInv, OwnPackets, RouterOwn
    <3>4. QED
      BY <3>1, <3>3 DEF PacketInv, RouterOwn
  <2>3. CASE ~(Len(rx[rt.slot]) < RxLen)
    <3>1. FewerPackets /\ rt'.pc # "deliver"
      BY <1>5, <2>1, <2>3 DEF RouteDeliver, RtIdle, FewerPackets
    <3>2. QED
      BY <3>1, QuietPackets
  <2>4. QED
    BY <2>2, <2>3
<1>6. CASE RouteAnnounce
  <2>1. rt'.pc # "deliver" /\ rt.slot \in Slots /\ UNCHANGED <<pkt, idin>>
    BY <1>0, <1>6 DEF RouteAnnounce, RtIdle, TypeInv, ControlOK
  <2>2. FewerPackets
    BY <1>0, <1>6, <2>1, ClosePackets DEF RouteAnnounce, FewerPackets
  <2>3. QED
    BY <2>1, <2>2, QuietPackets
<1>7. QED
  BY <1>1, <1>2, <1>3, <1>4, <1>5, <1>6 DEF Router

LEMMA PacketServer ==
  ASSUME PacketInv, OwnerInv', Server
  PROVE  PacketInv'
<1> USE DEF tableVars, threadVars, poolVars
<1>0. TypeInv
  BY DEF PacketInv, OwnerInv
<1>1. CASE ServerAccept \/ ServerReadCheck \/ ServeTelemetry \/ ServePing \/ ServeService
  <2>1. FewerPackets /\ rt' = rt
    BY <1>1 DEF ServerAccept, ServerReadCheck, ServeTelemetry, ServePing, ServeService,
         FewerPackets
  <2>2. QED
    BY <2>1, QuietPackets
<1>2. CASE ServerReadWait
  <2>1. ts.conn \in Slots /\ UNCHANGED <<pkt, idin, rt>>
    BY <1>0, <1>2 DEF ServerReadWait, TypeInv, ControlOK
  <2>2. \A d \in Slots : Range(rx'[d]) \subseteq Range(rx[d])
    <3>1. CASE rx[ts.conn] # <<>>
      <4>1. rx' = [rx EXCEPT ![ts.conn] = Tail(@)]
        BY <1>2, <3>1 DEF ServerReadWait
      <4>2. /\ rx'[ts.conn] = Tail(rx[ts.conn])
            /\ \A d \in Slots : d # ts.conn => rx'[d] = rx[d]
        BY <1>0, <2>1, <4>1 DEF TypeInv, TypeOK
      <4>3. Range(Tail(rx[ts.conn])) \subseteq Range(rx[ts.conn])
        BY <1>0, <2>1, <3>1, QueueTypes, TailFacts DEF TypeInv
      <4>4. QED
        BY <4>2, <4>3
    <3>2. CASE rx[ts.conn] = <<>>
      BY <1>2, <3>2 DEF ServerReadWait
    <3>3. QED
      BY <3>1, <3>2
  <2>3. FewerPackets
    BY <2>1, <2>2, SlotFacts DEF FewerPackets
  <2>4. QED
    BY <2>1, <2>3, QuietPackets
<1>3. CASE ReplyConnect
  <2>1. FewerPackets /\ rt' = rt
    BY <1>3 DEF ReplyConnect, FewerPackets
  <2>2. QED
    BY <2>1, QuietPackets
<1>4. CASE ReplySend
  <2>1. /\ ts.reply \in Slots /\ Fill(ts.reply, sport) /\ pkt' = pkt /\ rt' = rt
        /\ sport \in EphFlows
    BY <1>0, <1>4 DEF ReplySend, TypeInv, TypeOK, ControlOK
  <2>2. /\ OwnPackets' /\ idin'[ts.reply] = sport
        /\ \A d \in Slots : d # ts.reply => idin'[d] = idin[d]
    BY <1>0, <2>1, FillPackets DEF PacketInv
  <2>3. RouterOwn'
    <3>1. sport \notin Flows
      BY <2>1, TableAssumption
    <3>2. rt.pc = "deliver" => rt.slot \in Slots
      BY <1>0 DEF TypeInv, ControlOK
    <3>3. QED
      BY <2>1, <2>2, <3>1, <3>2 DEF PacketInv, RouterOwn
  <2>4. QED
    BY <2>2, <2>3 DEF PacketInv
<1>5. CASE ServerClose \/ ServerLastClose
  <2>1. /\ ts.conn \in Slots /\ Close(ts.conn) /\ UNCHANGED <<pkt, idin, rt>>
    BY <1>0, <1>5 DEF ServerClose, ServerLastClose, TypeInv, ControlOK
  <2>2. FewerPackets
    BY <1>0, <2>1, ClosePackets DEF FewerPackets
  <2>3. QED
    BY <2>1, <2>2, QuietPackets
<1>6. QED
  BY <1>1, <1>2, <1>3, <1>4, <1>5 DEF Server

LEMMA PacketFtp ==
  ASSUME PacketInv, OwnerInv', NEW c \in Slots, FtpThread(c)
  PROVE  PacketInv'
<1>0. TypeInv
  BY DEF PacketInv, OwnerInv
<1>1. UNCHANGED <<pkt, idin, rt>>
  BY DEF FtpThread, FtpRead, FtpClose
<1>2. CASE FtpRead(c)
  <2>1. rx[c] # <<>> /\ rx'[c] = Tail(rx[c]) /\ \A d \in Slots : d # c => rx'[d] = rx[d]
    BY <1>0, <1>2 DEF FtpRead, TypeInv, TypeOK
  <2>2. Range(Tail(rx[c])) \subseteq Range(rx[c])
    BY <1>0, <2>1, QueueTypes, TailFacts DEF TypeInv
  <2>3. \A d \in Slots : Range(rx'[d]) \subseteq Range(rx[d])
    BY <2>1, <2>2
  <2>4. FewerPackets
    BY <1>1, <2>3, SlotFacts DEF FewerPackets
  <2>5. QED
    BY <1>1, <2>4, QuietPackets
<1>3. CASE FtpClose(c)
  <2>1. FewerPackets
    BY <1>0, <1>1, <1>3, ClosePackets DEF FtpClose, FewerPackets
  <2>2. QED
    BY <1>1, <2>1, QuietPackets
<1>4. QED
  BY <1>2, <1>3 DEF FtpThread

LEMMA PacketNext == PacketInv /\ [Next]_vars => PacketInv'
<1> SUFFICES ASSUME PacketInv, [Next]_vars PROVE PacketInv'
  OBVIOUS
<1>1. OwnerInv'
  BY OwnerNext DEF PacketInv
<1>2. CASE UNCHANGED vars
  <2>1. FewerPackets /\ rt' = rt
    BY <1>2 DEF vars, FewerPackets
  <2>2. QED
    BY <1>1, <2>1, QuietPackets
<1>3. CASE Next
  BY <1>1, <1>3, PacketReceive, PacketRouter, PacketServer, PacketFtp DEF Next
<1>4. QED
  BY <1>2, <1>3

(* The search for a connection and the making of one are not under a common *)
(* lock.  Still no flow ever has two open slots that are named, and no       *)
(* packet lies on the connection of another flow; what the search may return *)
(* besides is reply_data's slot before it is named.                         *)
THEOREM FlowsStayApart == Spec => []FlowsApart
<1>1. Init => NameInv
  BY NameInit
<1>2. NameInv /\ [Next]_vars => NameInv'
  BY NameNext
<1>3. Init => PacketInv
  BY PacketInit
<1>4. PacketInv /\ [Next]_vars => PacketInv'
  BY PacketNext
<1>5. NameInv /\ PacketInv => FlowsApart
  BY DEF NameInv, PacketInv, FlowsApart
<1>6. QED
  BY <1>1, <1>2, <1>3, <1>4, <1>5, PTL DEF Spec
==============================================================================
