--------------------------------- MODULE Rdp ---------------------------------
(***************************************************************************)
(* The reliable datagram protocol of libcsp (csp_rdp.c): a client that       *)
(* connects with csp_connect and a server that accepts, over links that      *)
(* lose, repeat and reorder packets.  Both ends run the same code: the       *)
(* router task handles received packets and timeouts, the application        *)
(* connects, sends, reads and closes.                                        *)
(*                                                                         *)
(* Sequence numbers are modulo M, as uint16_t is modulo 2^16.  Time is left   *)
(* out: what a timeout allows may happen whenever the rest of its condition   *)
(* holds.  A packet that is lost may as well not have been sent, so an         *)
(* acknowledgement that the timer or the count of packets calls for is one     *)
(* that may be sent (rcv_lsa and ack_timestamp only say when).                 *)
(***************************************************************************)
EXTENDS Integers, Sequences, FiniteSets

CONSTANTS
  M,         \* sequence numbers are 0 .. M-1
  W,         \* window_size
  RxLen,     \* CSP_RX_QUEUE_LENGTH
  Iss,       \* [Ends -> Seq(0 .. M-1)]: the initial numbers srand()/rand() give
  MaxSend,   \* [Ends -> Nat], a bound of the model: messages an end sends in all
  MaxSends,  \* a bound of the model: messages both send
  MaxNet     \* a bound of the model: packets on their way

Ends == {"client", "server"}

Seqs == 0 .. M - 1

ASSUME RdpAssumption ==
  /\ M \in Nat \ {0} /\ M % 2 = 0
  /\ W \in Nat \ {0}
  /\ 4 * W + 2 <= M
  /\ RxLen \in Nat \ {0}
  /\ Iss \in [Ends -> Seq(Seqs) \ {<<>>}]
  /\ MaxSend \in [Ends -> Nat] /\ MaxSends \in Nat
  /\ MaxNet \in Nat

Peer(e) == IF e = "client" THEN "server" ELSE "client"

VARIABLES
  conn,     \* each end's slot of the connection table, with its rdp part
  net,      \* the packets on their way to each end
  call,     \* where csp_connect is: "none", "connect", "failed" or "done"
  sem,      \* conn->rdp.tx_wait, which csp_rdp_connect waits for
  opens,    \* how many times each end has opened a connection
  sent,     \* history: messages each end has accepted for sending
  got       \* history: messages read in the present connection

vars == <<conn, net, call, sem, opens, sent, got>>

(* A message, and the connection it is sent in.                              *)
Message(e, n) == [from |-> conn[e].iss, nr |-> n]

(* How many messages e has accepted in the connection of number iss.         *)
SentIn(e, iss) == Cardinality({m \in sent[e] : m.from = iss})

Sent(e) == SentIn(e, conn[e].iss)

NoMessage == [from |-> -1, nr |-> 0]

-----------------------------------------------------------------------------
(* Sequence numbers, and packets.                                            *)

Plus(a, b) == (a + b) % M

(* csp_rdp_seq_before: the sign of the 16-bit difference.                    *)
Before(a, b) == (a - b) % M >= M \div 2

(* csp_rdp_seq_between: both ends included.                                  *)
Between(s, a, b) == (b - a) % M >= (s - a) % M

Packet(kind, seq, ack) == [kind |-> kind, seq |-> seq, ack |-> ack,
                           msg |-> NoMessage, eacks |-> {}]

(* Which header flags a packet has.                                          *)
HasSyn(p) == p.kind \in {"syn", "synack"}
HasAck(p) == p.kind \notin {"syn", "rst"}
HasRst(p) == p.kind \in {"rst", "rstack"}

(* Control messages always carry the next number to send and the last one     *)
(* received (csp_rdp_send_cmp).                                               *)
Control(kind, c) == Packet(kind, c.nxt, c.cur)

SynPacket(c) == Packet("syn", c.iss, 0)
SynAckPacket(c) == Packet("synack", c.iss, c.irs)

(* csp_rdp_send_eack: it names what is in the out-of-order queue.            *)
Eack(c) == [Control("eack", c) EXCEPT !.eacks = {p.seq : p \in c.ooo}]

(* At most one of the packets outs reaches the network.                       *)
Put(e, outs) == {net[e]} \cup {net[e] \cup {p} : p \in
                   IF Cardinality(net["client"]) + Cardinality(net["server"]) < MaxNet
                     THEN outs ELSE {}}

(* End e takes packet p, which may yet come again, and sends at most one of   *)
(* outs.                                                                     *)
Exchange(e, p, outs) ==
  \E rest \in {net[e], net[e] \ {p}}, other \in Put(Peer(e), outs) :
    net' = [net EXCEPT ![e] = rest, ![Peer(e)] = other]

(* End e sends at most one of outs.                                          *)
Transmit(e, outs) ==
  \E other \in Put(Peer(e), outs) : net' = [net EXCEPT ![Peer(e)] = other]

-----------------------------------------------------------------------------
NoConn == [st |-> "closed", up |-> FALSE, sock |-> FALSE, iss |-> 0, nxt |-> 0, una |-> 0,
           irs |-> 0, cur |-> 0, tx |-> {}, ooo |-> {}, rx |-> <<>>, skewed |-> FALSE]

(* A connection the server still has with a client that has gone away.       *)
StaleConn ==
  LET i == Iss["server"][1] IN
    [NoConn EXCEPT !.st = "open", !.up = TRUE, !.iss = i, !.nxt = Plus(i, 1), !.una = Plus(i, 1),
                   !.irs = Plus(Iss["client"][1], M - 1), !.cur = Plus(Iss["client"][1], M - 1)]

Init ==
  /\ \E c \in {NoConn, StaleConn} :
       /\ conn = [e \in Ends |-> IF e = "server" THEN c ELSE NoConn]
       /\ opens = [e \in Ends |-> IF e = "server" /\ c.up THEN 1 ELSE 0]
  /\ net = [e \in Ends |-> {}]
  /\ call = "none"
  /\ sem = FALSE
  /\ sent = [e \in Ends |-> {}]
  /\ got = [e \in Ends |-> <<>>]

(* Mutant: the protocol is closed and the slot of the table is not.           *)
Closed_Held(c) == [c EXCEPT !.st = "closed", !.tx = {}, !.ooo = {}, !.rx = <<>>]

(* csp_rdp_close, and the rest of csp_close: the first call on a connection   *)
(* that is not in CLOSE_WAIT only sends a reset.                              *)
Closed(c) == [c EXCEPT !.st = "closed", !.up = FALSE, !.tx = {}, !.ooo = {}, !.rx = <<>>]

AfterClose(c) == IF c.st = "close_wait" THEN Closed(c) ELSE [c EXCEPT !.st = "close_wait"]

ResetOnClose(c) == IF c.st = "close_wait" THEN {} ELSE {Control("rstack", c)}

(* discard_close: an application that has the connection is woken to close    *)
(* it, which it may do at any time here; the router closes the others.        *)
AfterDiscard(c) == IF c.sock THEN AfterClose(c) ELSE c

ResetOnDiscard(c) == IF c.sock THEN ResetOnClose(c) ELSE {}

-----------------------------------------------------------------------------
(* The client's application.                                                 *)

(* csp_rdp_connect from retry: on: a new number, SYN_SENT, and the SYN.      *)
StartConnect(c, iss) ==
  [c EXCEPT !.st = "syn_sent", !.up = TRUE, !.iss = iss, !.nxt = Plus(iss, 1), !.una = iss,
            !.tx = {Packet("syn", iss, 0)}, !.ooo = {}, !.skewed = FALSE]

TryConnect ==
  /\ opens["client"] < Len(Iss["client"])
  /\ opens' = [opens EXCEPT !["client"] = @ + 1]
  /\ conn' = [conn EXCEPT !["client"] = StartConnect(@, Iss["client"][opens'["client"]])]
  /\ Transmit("client", {SynPacket(conn'["client"])})
  /\ sem' = FALSE

(* csp_connect, once: another call would take another ephemeral port.        *)
Connect ==
  /\ call = "none" /\ opens["client"] = 0
  /\ call' = "connect"
  /\ TryConnect
  /\ UNCHANGED <<sent, got>>

(* The semaphore was posted in SYN_SENT: half-open, and one retry is left.   *)
ConnectRetry ==
  /\ call = "connect" /\ sem
  /\ conn["client"].st = "syn_sent"
  /\ opens["client"] = 1
  /\ TryConnect
  /\ UNCHANGED <<call, sent, got>>

ConnectDone ==
  /\ call = "connect" /\ sem
  /\ conn["client"].st = "open"
  /\ call' = "done"
  /\ sem' = FALSE
  /\ UNCHANGED <<conn, net, opens, sent, got>>

(* The wait times out, or the semaphore was posted in vain: half-open again,  *)
(* or reset meanwhile.                                                       *)
ConnectGiveUp ==
  /\ call = "connect"
  /\ sem => /\ conn["client"].st # "open"
            /\ conn["client"].st = "syn_sent" => opens["client"] > 1
  /\ call' = "failed"
  /\ sem' = FALSE
  /\ UNCHANGED <<conn, net, opens, sent, got>>

(* error: CLOSE_WAIT, whatever the state has become, and csp_close.          *)
ConnectFail ==
  /\ call = "failed"
  /\ call' = "none"
  /\ conn' = [conn EXCEPT !["client"] = Closed(@)]
  /\ UNCHANGED <<net, sem, opens, sent, got>>

-----------------------------------------------------------------------------
(* Either application.  It has the connection once csp_connect has returned,  *)
(* or the first message has put it in the accept queue.                        *)
Holds(e) == conn[e].up /\ ~conn[e].sock /\ (e = "client" => call = "done")

(* csp_rdp_send does not wait: !csp_rdp_seq_after(snd_nxt, snd_una + W).      *)
WindowOpen(c) == ~Before(Plus(c.una, W), c.nxt)

Send(e) ==
  /\ Holds(e) /\ conn[e].st = "open"
  /\ Cardinality(sent[e]) < MaxSend[e]
  /\ Cardinality(sent["client"]) + Cardinality(sent["server"]) < MaxSends
  /\ WindowOpen(conn[e])
  /\ LET p == [Packet("data", conn[e].nxt, conn[e].cur) EXCEPT !.msg = Message(e, Sent(e) + 1)] IN
       /\ conn' = [conn EXCEPT ![e].tx = @ \cup {p}, ![e].nxt = Plus(@, 1)]
       /\ Transmit(e, {p})
  /\ sent' = [sent EXCEPT ![e] = @ \cup {Message(e, Sent(e) + 1)}]
  /\ UNCHANGED <<call, sem, opens, got>>

(* csp_rdp_check_ack: an acknowledgement, if there is room for two windows.  *)
AckIfRoom(c) == IF RxLen - Len(c.rx) > 2 * W THEN {Control("ack", c)} ELSE {}

Read(e) ==
  /\ Holds(e) /\ conn[e].rx # <<>>
  /\ got' = [got EXCEPT ![e] = Append(@, Head(conn[e].rx))]
  /\ conn' = [conn EXCEPT ![e].rx = Tail(@)]
  /\ Transmit(e, AckIfRoom(conn'[e]))
  /\ UNCHANGED <<call, sem, opens, sent>>

Close(e) ==
  /\ Holds(e)
  /\ conn' = [conn EXCEPT ![e] = AfterClose(@)]
  /\ Transmit(e, ResetOnClose(conn[e]))
  /\ UNCHANGED <<call, sem, opens, sent, got>>

-----------------------------------------------------------------------------
(* The router task: csp_rdp_check_timeouts.                                  *)

(* The connection was never announced, or has been in CLOSE_WAIT for long.   *)
ConnTimeout(e) ==
  /\ conn[e].up
  /\ conn[e].sock \/ conn[e].st = "close_wait"
  /\ conn' = [conn EXCEPT ![e] = AfterClose(@)]
  /\ Transmit(e, ResetOnClose(conn[e]))
  /\ UNCHANGED <<call, sem, opens, sent, got>>

(* Mutant: the comparison is the wrong way round.                            *)
Unacked_Swapped(c) == {p \in c.tx : ~Before(c.una, p.seq)}

(* What is left in tx_queue once the acknowledged packets are freed.         *)
Unacked(c) == {p \in c.tx : ~Before(p.seq, c.una)}

(* Acknowledged packets are freed; those whose time is over are sent again     *)
(* with the latest acknowledgement; csp_rdp_check_ack does not look at the     *)
(* state.  Sending several packets is a choice of one, then of another.       *)
CheckTimeouts(e) ==
  /\ conn[e].up /\ conn[e].st # "close_wait"
  /\ conn' = [conn EXCEPT ![e].tx = Unacked(conn[e])]
  /\ Transmit(e, AckIfRoom(conn[e]) \cup
                 {IF HasAck(p) THEN [p EXCEPT !.ack = conn[e].cur] ELSE p : p \in conn'[e].tx})
  /\ UNCHANGED <<call, sem, opens, sent, got>>

-----------------------------------------------------------------------------
(* The router task: csp_rdp_new_packet, one action per way through it.        *)

(* e's router takes p and leaves the slot as c.                               *)
Take(e, p, c, outs) ==
  /\ Exchange(e, p, outs)
  /\ conn' = [conn EXCEPT ![e] = c]

(* No socket listens on the client's port, and a closed slot of the server's    *)
(* that gets a reset is closed again.                                         *)
DropClosed(e, p) ==
  /\ ~conn[e].up
  /\ e = "client" \/ HasRst(p)
  /\ Exchange(e, p, {})
  /\ UNCHANGED <<conn, call, sem, opens, sent, got>>

(* Not a SYN: the connection csp_conn_new made for it is closed again.       *)
RefuseInClosed(e, p) ==
  /\ e = "server" /\ ~conn[e].up
  /\ ~HasSyn(p) /\ ~HasRst(p)
  /\ Exchange(e, p, {Control("rst", conn[e])})
  /\ UNCHANGED <<conn, call, sem, opens, sent, got>>

(* A SYN makes a new connection, in SYN_RCVD.                                *)
SynInClosed(e, p) ==
  /\ e = "server" /\ ~conn[e].up
  /\ HasSyn(p)
  /\ opens[e] < Len(Iss[e])
  /\ opens' = [opens EXCEPT ![e] = @ + 1]
  /\ LET iss == Iss[e][opens'[e]]
         new == [NoConn EXCEPT !.st = "syn_rcvd", !.up = TRUE, !.sock = TRUE, !.iss = iss,
                   !.nxt = Plus(iss, 1), !.una = iss, !.irs = p.seq, !.cur = p.seq] IN
       Take(e, p, [new EXCEPT !.tx = {SynAckPacket(new)}], {SynAckPacket(new)})
  /\ got' = [got EXCEPT ![e] = <<>>]
  /\ UNCHANGED <<call, sem, sent>>

(* A reset takes effect in CLOSE_WAIT, or in sequence; a reset with an         *)
(* acknowledgement moves snd_una in any case.                                 *)
NewReset(e, p) ==
  /\ conn[e].up /\ HasRst(p)
  /\ LET c == [conn[e] EXCEPT !.una = IF HasAck(p) THEN Plus(p.ack, 1) ELSE @]
         waiting == [c EXCEPT !.st = "close_wait"] IN
       \/ /\ c.st = "close_wait"
          /\ Take(e, p, Closed(c), {})
       \/ /\ c.st # "close_wait" /\ p.seq = Plus(c.cur, 1)
          /\ Take(e, p, AfterDiscard(waiting), {Control("rstack", c)})
       \/ /\ c.st # "close_wait" /\ p.seq # Plus(c.cur, 1)
          /\ Take(e, p, [c EXCEPT !.skewed = @ \/ HasAck(p)], {})
  /\ UNCHANGED <<call, sem, opens, sent, got>>

(* SYN_SENT, and the answer: open, whichever SYN it answers.                 *)
SynAckInSynSent(e, p) ==
  /\ conn[e].up /\ conn[e].st = "syn_sent" /\ p.kind = "synack"
  /\ Take(e, p, [conn[e] EXCEPT !.st = "open", !.cur = p.seq, !.irs = p.seq,
                                !.una = Plus(p.ack, 1)], {})
  /\ sem' = TRUE
  /\ UNCHANGED <<call, opens, sent, got>>

(* SYN_SENT, and a packet of an open connection: it is to be reset.          *)
HalfOpen(e, p) ==
  /\ conn[e].up /\ conn[e].st = "syn_sent"
  /\ HasAck(p) /\ ~HasSyn(p) /\ ~HasRst(p)
  /\ Take(e, p, conn[e], {Control("rst", conn[e])})
  /\ sem' = TRUE
  /\ UNCHANGED <<call, opens, sent, got>>

InConversation(e) == conn[e].up /\ conn[e].st \in {"syn_rcvd", "open"}

(* SYN_RCVD or OPEN: a SYN repeats what made the connection, or it ends it.   *)
SynInOpen(e, p) ==
  /\ InConversation(e) /\ HasSyn(p)
  /\ LET c == conn[e] IN
       \/ p.seq = c.irs /\ Take(e, p, c, {})
       \/ p.seq # c.irs /\ Take(e, p, AfterDiscard(c), ResetOnDiscard(c))
  /\ UNCHANGED <<call, sem, opens, sent, got>>

(* A packet of the conversation: neither SYN nor reset, so it acknowledges.  *)
Regular(e, p) == InConversation(e) /\ ~HasSyn(p) /\ ~HasRst(p)

SeqValid(c, p) == Between(p.seq, Plus(c.cur, 1), Plus(c.cur, 2 * W))

AckValid(c, p) == Between(p.ack, Plus(c.una, -1 - 2 * W), Plus(c.nxt, -1))

(* Out of the window, which a repeated packet is: say again what is known.   *)
OutOfWindow(e, p) ==
  /\ Regular(e, p) /\ ~SeqValid(conn[e], p)
  /\ LET c == conn[e] IN
       Take(e, p, c, {IF c.st = "open" THEN Eack(c) ELSE SynAckPacket(c)})
  /\ UNCHANGED <<call, sem, opens, sent, got>>

BadAck(e, p) ==
  /\ Regular(e, p) /\ SeqValid(conn[e], p) /\ ~AckValid(conn[e], p)
  /\ Take(e, p, conn[e], {})
  /\ UNCHANGED <<call, sem, opens, sent, got>>

(* The first acknowledgement in SYN_RCVD must be that of the SYN/ACK.        *)
WrongSynAck(e, p) ==
  /\ Regular(e, p) /\ SeqValid(conn[e], p) /\ AckValid(conn[e], p)
  /\ conn[e].st = "syn_rcvd" /\ p.ack # conn[e].iss
  /\ LET c == conn[e] IN Take(e, p, AfterDiscard(c), ResetOnDiscard(c))
  /\ UNCHANGED <<call, sem, opens, sent, got>>

Accepted(e, p) ==
  /\ Regular(e, p) /\ SeqValid(conn[e], p) /\ AckValid(conn[e], p)
  /\ conn[e].st = "syn_rcvd" => p.ack = conn[e].iss

(* The slot with the packet's acknowledgement: SYN_RCVD becomes OPEN.        *)
Acked(c, p) == [c EXCEPT !.st = "open", !.una = Plus(p.ack, 1)]

(* An acknowledgement, extended or not: csp_rdp_flush_eack.                  *)
NewAck(e, p) ==
  /\ Accepted(e, p) /\ p.kind # "data"
  /\ LET c == Acked(conn[e], p) IN
       Take(e, p, [c EXCEPT !.tx = {q \in @ : q.seq \notin p.eacks}], {})
  /\ UNCHANGED <<call, sem, opens, sent, got>>

(* Out of sequence: kept once in rx_queue, and an extended acknowledgement.  *)
NewOutOfOrder(e, p) ==
  /\ Accepted(e, p) /\ p.kind = "data"
  /\ p.seq # Plus(conn[e].cur, 1)
  /\ LET c == Acked(conn[e], p)
         kept == [c EXCEPT !.ooo = @ \cup {p}] IN
       IF \E q \in c.ooo : q.seq = p.seq
         THEN Take(e, p, c, {})
         ELSE Take(e, p, kept, {Eack(kept)})
  /\ UNCHANGED <<call, sem, opens, sent, got>>

Free(c) == RxLen - Len(c.rx)

Smaller(a, b) == IF a < b THEN a ELSE b

(* The packets of rx_queue that follow rcv_cur without a gap, in order.       *)
Following(c) ==
  LET Nth(k) == CHOOSE q \in c.ooo : q.seq = Plus(c.cur, k)
      n == Cardinality({m \in 1 .. Cardinality(c.ooo) :
                          \A k \in 1 .. m : \E q \in c.ooo : q.seq = Plus(c.cur, k)}) IN
    [k \in 1 .. n |-> Nth(k)]

(* The messages of those that find room in the application's queue.          *)
Fitting(c) == [k \in 1 .. Smaller(Len(Following(c)), Free(c)) |-> Following(c)[k].msg]

(* Mutant: rcv_cur stays where it was.                                        *)
AfterFlush_Behind(c) ==
  [c EXCEPT !.ooo = @ \ {Following(c)[k] : k \in 1 .. Len(Following(c))},
            !.rx = @ \o Fitting(c)]

(* Mutant: rx_queue goes ahead of what has just been received.               *)
AfterFlush_First(c) ==
  [c EXCEPT !.cur = Plus(@, Len(Following(c))),
            !.ooo = @ \ {Following(c)[k] : k \in 1 .. Len(Following(c))},
            !.rx = Fitting(c) \o @]

(* csp_rdp_rx_queue_flush: they are all taken from rx_queue, and rcv_cur       *)
(* passes them, those that find no room as well.                              *)
AfterFlush(c) ==
  [c EXCEPT !.cur = Plus(@, Len(Following(c))),
            !.ooo = @ \ {Following(c)[k] : k \in 1 .. Len(Following(c))},
            !.rx = @ \o Fitting(c)]

(* In sequence: csp_rdp_receive_data puts the connection in the accept queue   *)
(* with its first message, then the message in the application's queue; if     *)
(* either is full the packet is dropped.  The acknowledgement goes out before   *)
(* rx_queue is flushed.                                                      *)
NewInOrder(e, p) ==
  /\ Accepted(e, p) /\ p.kind = "data"
  /\ p.seq = Plus(conn[e].cur, 1)
  /\ LET c == Acked(conn[e], p)
         taken == [c EXCEPT !.sock = FALSE, !.cur = p.seq, !.rx = Append(@, p.msg)] IN
       \/ /\ c.sock \/ Free(c) = 0
          /\ Take(e, p, c, {})
       \/ /\ Free(c) > 0
          /\ Take(e, p, AfterFlush(taken), AckIfRoom(taken))
  /\ UNCHANGED <<call, sem, opens, sent, got>>

(* CLOSE_WAIT: an acknowledgement is answered with a reset.                  *)
NewInCloseWait(e, p) ==
  /\ conn[e].up /\ conn[e].st = "close_wait" /\ ~HasRst(p)
  /\ LET c == conn[e] IN
       IF ~HasSyn(p) /\ AckValid(c, p)
         THEN Take(e, p, [c EXCEPT !.una = Plus(p.ack, 1)], {Control("rstack", c)})
         ELSE Take(e, p, c, {})
  /\ UNCHANGED <<call, sem, opens, sent, got>>

NewPacket(e) ==
  \E p \in net[e] :
    \/ DropClosed(e, p) \/ RefuseInClosed(e, p) \/ SynInClosed(e, p)
    \/ NewReset(e, p)
    \/ SynAckInSynSent(e, p) \/ HalfOpen(e, p)
    \/ SynInOpen(e, p) \/ OutOfWindow(e, p) \/ BadAck(e, p) \/ WrongSynAck(e, p)
    \/ NewAck(e, p) \/ NewOutOfOrder(e, p) \/ NewInOrder(e, p)
    \/ NewInCloseWait(e, p)

-----------------------------------------------------------------------------
Next ==
  \/ Connect \/ ConnectRetry \/ ConnectDone \/ ConnectGiveUp \/ ConnectFail
  \/ \E e \in Ends : Send(e) \/ Read(e) \/ Close(e)
                       \/ ConnTimeout(e) \/ CheckTimeouts(e) \/ NewPacket(e)

Spec == Init /\ [][Next]_vars

-----------------------------------------------------------------------------
Messages == [from : Seqs, nr : Nat]

Packets == [kind : {"syn", "synack", "ack", "eack", "rst", "rstack", "data"},
            seq : Seqs, ack : Seqs, msg : Messages \cup {NoMessage}, eacks : SUBSET Seqs]

Conns == [st : {"closed", "syn_sent", "syn_rcvd", "open", "close_wait"},
          up : BOOLEAN, sock : BOOLEAN, iss : Seqs, nxt : Seqs, una : Seqs,
          irs : Seqs, cur : Seqs, tx : SUBSET Packets, ooo : SUBSET Packets, rx : Seq(Messages),
          skewed : BOOLEAN]

(* The types of the C variables; the application's queue holds what it can,   *)
(* and a slot is in use exactly while its protocol is not CLOSED.             *)
TypeOK ==
  /\ conn \in [Ends -> Conns]
  /\ \A e \in Ends : Len(conn[e].rx) <= RxLen /\ (conn[e].up <=> conn[e].st # "closed")
  /\ net \in [Ends -> SUBSET Packets]
  /\ call \in {"none", "connect", "failed", "done"}
  /\ sem \in BOOLEAN
  /\ opens \in [Ends -> Nat]
  /\ sent \in [Ends -> SUBSET Messages]
  /\ got \in [Ends -> Seq(Messages)]

(* What has been delivered to e's application in this connection.            *)
Delivered(e) == got[e] \o conn[e].rx

(* How many messages e's router has passed in this connection.               *)
Passed(e) == (conn[e].cur - conn[e].irs) % M

(* The two ends are in the same connection, each knowing the other's number. *)
Joined(e) ==
  LET c == conn[e]
      d == conn[Peer(e)] IN
    /\ c.st = "open" /\ d.st \in {"syn_rcvd", "open"}
    /\ c.irs = d.iss /\ d.irs = c.iss

(* The initial numbers e has used so far.                                    *)
Used(e) == {Iss[e][k] : k \in 1 .. opens[e]}

(* Whether the first n of them tell e's connections apart: no two are as close   *)
(* as the messages of a connection and two windows reach.                       *)
FirstApart == [e \in Ends |-> [n \in 0 .. Len(Iss[e]) |->
  /\ MaxSend[e] + 2 * W < M
  /\ \A j, k \in 1 .. n : j # k => (Iss[e][j] - Iss[e][k]) % M >= MaxSend[e] + 2 * W]]

(* All numbers drawn so far do.  rand() does not see to it: a packet of an old    *)
(* connection whose number is in the window is taken for one of the present      *)
(* connection.                                                               *)
Apart == \A e \in Ends : FirstApart[e][opens[e]]

(* No end has sent so much that csp_rdp_seq_before can take a number of its      *)
(* connection that is ahead of snd_una for one that is behind.                  *)
Few == \A e \in Ends : 2 * (Cardinality(sent[e]) + 2 * W) < M

(* As long as the initial numbers drawn so far are Apart, whatever is lost,      *)
(* repeated or overtaken on the way and however often either end goes away and   *)
(* comes back: what an application gets in a connection was sent in that         *)
(* connection, in the order it was sent, and each message once.  Packets of       *)
(* earlier connections are among those that come late.                         *)
OrderedOnce ==
  Apart => \A e \in Ends :
    LET all == Delivered(e) IN
      /\ \A k \in 1 .. Len(all) : all[k].from = conn[e].irs /\ all[k].nr \in 1 .. Passed(e)
      /\ \A j, k \in 1 .. Len(all) : j < k => all[j].nr < all[k].nr

(* As long as both ends are in the connection, a message that csp_rdp_send      *)
(* accepted is kept for retransmission until the other end has it, and          *)
(* snd_una is never ahead of what the other end has passed.  It takes numbers    *)
(* that are Apart, Few messages (snd_una can be pulled back), and an end that    *)
(* is not skewed: has not had a reset out of sequence, whose acknowledgement is   *)
(* used although the reset is not.                                           *)
KeptUntilReceived ==
  Apart /\ Few => \A e \in Ends : Joined(e) /\ ~conn[e].skewed =>
    LET d == conn[Peer(e)] IN
      /\ ~Before(d.cur, Plus(conn[e].una, -1))
      /\ \A n \in 1 .. Sent(e) :
           \/ \E p \in conn[e].tx \cup d.ooo : p.msg = Message(e, n)
           \/ n <= Passed(Peer(e))

(* Each direction is an ordered channel, as long as the numbers are Apart.       *)
Numbers(s) == [k \in 1 .. Len(s) |-> s[k].nr]

ToServer == INSTANCE OrderedChannel WITH
  Room <- RxLen, accepted <- SentIn("client", conn["server"].irs), passed <- Passed("server"),
  queue <- Numbers(conn["server"].rx), read <- Numbers(got["server"]), apart <- Apart

ToClient == INSTANCE OrderedChannel WITH
  Room <- RxLen, accepted <- SentIn("server", conn["client"].irs), passed <- Passed("client"),
  queue <- Numbers(conn["client"].rx), read <- Numbers(got["client"]), apart <- Apart

ImplementsChannels == ToServer!Spec /\ ToClient!Spec

(* "If you wish to also have retransmission and orderly delivery you will     *)
(* have to open an RDP connection" (mtu.rst:19): what has been passed has been  *)
(* delivered, in an open connection.                                          *)
NothingMissing ==
  \A e \in Ends : conn[e].st = "open" => Len(Delivered(e)) = Passed(e)
=============================================================================
