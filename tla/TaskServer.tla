----------------------------- MODULE TaskServer -----------------------------
(***************************************************************************)
(* How a packet reaches the ground station's services: an interface thread  *)
(* puts a received frame into the router's input FIFO, the router task      *)
(* (csp_route_work, csp_udp_new_packet) delivers it to a slot of the        *)
(* connection table and announces new connections in the backlog of the     *)
(* listening socket, and the task_server thread accepts, reads, dispatches  *)
(* on the destination port and closes.  A connection to the FTP port is     *)
(* given to a thread of its own.                                            *)
(*                                                                         *)
(* The threads share the table without a common lock, so one action is one  *)
(* access of a thread to shared state: between two of them the others run.  *)
(***************************************************************************)
EXTENDS CspConn

CONSTANTS
  Backlog,     \* length of the accept queue: csp_listen(sock, 10)
  RxLen,       \* CSP_RX_QUEUE_LENGTH
  FifoLen,     \* CSP_FIFO_INPUT
  PortOf,      \* [Flows -> Services]: which service a flow's dport names
  MaxFrames    \* bound of the model: frames received in one behaviour

Services == {"telemetry", "reply", "ping", "ftp", "service"}

ASSUME ServerAssumption ==
  /\ Backlog \in Nat \ {0}
  /\ RxLen \in Nat \ {0}
  /\ FifoLen \in Nat \ {0}
  /\ PortOf \in [Flows -> Services]
  /\ MaxFrames \in Nat

VARIABLES
  free,      \* csp_buffers: the free buffers of the pool
  pkt,       \* the identifier in the header of the packet each buffer holds
  fifo,      \* the router's input FIFO
  state,     \* arr_conn[i].state
  idin,      \* arr_conn[i].idin
  sock,      \* arr_conn[i].socket # NULL: the slot is not announced yet
  rx,        \* the packets queued on each slot
  last,      \* csp_conn_last_given
  sport,     \* the ephemeral flow csp_connect gave last
  backlog,   \* the accept queue: slots, oldest first
  rt,        \* the router task: where it is, the packet it holds, its slot
  ts,        \* task_server: where it is, its packet, its conn, reply_data's conn
  ftp,       \* how many FTP threads hold each slot
  orphan,    \* history: slots reply_data opened and nobody has closed
  lost,      \* history: buffers a handler dropped without freeing them
  frames     \* frames received so far

vars == <<free, pkt, fifo, state, idin, sock, rx, last, sport, backlog, rt, ts,
          ftp, orphan, lost, frames>>

tableVars  == <<state, idin, sock, rx, last, orphan>>
threadVars == <<rt, ts, ftp>>
poolVars   == <<free, pkt, lost>>

(* The service task_server switches to for a slot: csp_conn_dport(conn).    *)
(* An ephemeral port is none of the named ones: the default branch.         *)
ServiceOf(c) == IF idin[c] \in Flows THEN PortOf[idin[c]] ELSE "service"

RtIdle == [pc |-> "idle", buf |-> NoBuf, slot |-> NoSlot]
TsIdle == [pc |-> "accept", buf |-> NoBuf, conn |-> NoSlot, reply |-> NoSlot]

(* csp_init, csp_buffer_init, and task_server up to its accept loop.        *)
Init ==
  /\ free = Buffers
  /\ pkt = [b \in Buffers |-> NoFlow]
  /\ fifo = <<>>
  /\ state = [c \in Slots |-> IF c = ServerSlot THEN "open" ELSE "closed"]
  /\ idin = [c \in Slots |-> NoFlow]
  /\ sock = [c \in Slots |-> FALSE]
  /\ rx = [c \in Slots |-> <<>>]
  /\ last = ServerSlot
  /\ sport \in EphFlows
  /\ backlog = <<>>
  /\ rt = RtIdle
  /\ ts = TsIdle
  /\ ftp = [c \in Slots |-> 0]
  /\ orphan = {}
  /\ lost = {}
  /\ frames = 0

-----------------------------------------------------------------------------
(* Pieces of the actions that several of them share.                        *)

(* As a mistake would have it: the packets are freed but not dequeued.       *)
CloseKeepingQueue(c) ==
  \/ /\ state[c] = "closed"
     /\ UNCHANGED <<state, rx, free, orphan>>
  \/ /\ state[c] = "open"
     /\ state' = [state EXCEPT ![c] = "closed"]
     /\ free' = AfterFlush(free, rx, c)
     /\ orphan' = orphan \ {c}
     /\ UNCHANGED rx

(* csp_close: nothing for a closed slot, else CLOSED and flushed.           *)
Close(c) ==
  \/ /\ state[c] = "closed"
     /\ UNCHANGED <<state, rx, free, orphan>>
  \/ /\ state[c] = "open"
     /\ state' = [state EXCEPT ![c] = "closed"]
     /\ free' = AfterFlush(free, rx, c)
     /\ rx' = [rx EXCEPT ![c] = <<>>]
     /\ orphan' = orphan \ {c}

(* csp_conn_allocate: mark the slot open; idin still has its old value.     *)
Allocate(c) ==
  /\ IsNextFree(state, last, c)
  /\ state' = [state EXCEPT ![c] = "open"]
  /\ sock' = [sock EXCEPT ![c] = FALSE]
  /\ last' = c

(* As a mistake would have it: a new connection keeps what a packet that came *)
(* after the close left in the queue.                                        *)
FillKeepingQueue(c, id) ==
  /\ idin' = [idin EXCEPT ![c] = id]
  /\ UNCHANGED rx

(* The rest of csp_conn_new: the identifier, then the flush.                *)
Fill(c, id) ==
  /\ idin' = [idin EXCEPT ![c] = id]
  /\ rx' = [rx EXCEPT ![c] = <<>>]

-----------------------------------------------------------------------------
(* The interface threads.                                                   *)

(* A frame arrives: csp_buffer_get, then csp_qfifo_write, which frees the   *)
(* buffer again when the FIFO is full.                                      *)
ReceiveFrame(f) ==
  /\ frames < MaxFrames
  /\ frames' = frames + 1
  /\ \E b \in free :
       /\ pkt' = [pkt EXCEPT ![b] = f]
       /\ IF Len(fifo) < FifoLen
            THEN fifo' = Append(fifo, b) /\ free' = free \ {b}
            ELSE UNCHANGED <<fifo, free>>
  /\ UNCHANGED <<tableVars, threadVars, sport, backlog, lost>>

-----------------------------------------------------------------------------
(* The router task: csp_route_work for a packet addressed to this node.     *)

(* It discards the packet before any lookup when an option or the security  *)
(* check fails, and when no socket listens on the port: ephemeral ports are *)
(* above CSP_ANY.                                                           *)
RouteDiscard ==
  /\ rt.pc = "idle" /\ fifo # <<>>
  /\ free' = free \cup {Head(fifo)}
  /\ fifo' = Tail(fifo)
  /\ UNCHANGED <<pkt, lost, tableVars, threadVars, sport, backlog, frames>>

(* As a mistake would have it: a socket on the port is enough to make a new *)
(* connection.                                                              *)
RouteFindOrNew ==
  /\ rt.pc = "idle" /\ fifo # <<>>
  /\ LET b == Head(fifo) IN
       \/ \E c \in Slots :
            /\ IsFound(state, idin, pkt[b], c)
            /\ rt' = [pc |-> "deliver", buf |-> b, slot |-> c]
       \/ /\ pkt[b] \in Flows
          /\ rt' = [pc |-> "new", buf |-> b, slot |-> NoSlot]
  /\ fifo' = Tail(fifo)
  /\ UNCHANGED <<poolVars, tableVars, ts, ftp, sport, backlog, frames>>

(* csp_qfifo_read and csp_conn_find.                                        *)
RouteFind ==
  /\ rt.pc = "idle" /\ fifo # <<>>
  /\ LET b == Head(fifo) IN
       \/ \E c \in Slots :
            /\ IsFound(state, idin, pkt[b], c)
            /\ rt' = [pc |-> "deliver", buf |-> b, slot |-> c]
       \/ /\ Matches(state, idin, pkt[b]) = {}
          /\ pkt[b] \in Flows
          /\ rt' = [pc |-> "new", buf |-> b, slot |-> NoSlot]
  /\ fifo' = Tail(fifo)
  /\ UNCHANGED <<poolVars, tableVars, ts, ftp, sport, backlog, frames>>

(* csp_conn_new for an unknown flow, first half: csp_conn_allocate.         *)
RouteAllocate ==
  /\ rt.pc = "new"
  /\ \/ \E c \in Slots :
          /\ Allocate(c)
          /\ rt' = [rt EXCEPT !.pc = "fill", !.slot = c]
          /\ UNCHANGED free
     \/ /\ Closed(state) = {}
        /\ free' = free \cup {rt.buf}
        /\ rt' = RtIdle
        /\ UNCHANGED <<state, sock, last>>
  /\ UNCHANGED <<pkt, lost, fifo, idin, rx, orphan, ts, ftp, sport, backlog, frames>>

(* As a mistake would have it: the new connection is not given its socket.  *)
RouteFillNoSocket ==
  /\ rt.pc = "fill"
  /\ Fill(rt.slot, pkt[rt.buf])
  /\ free' = AfterFlush(free, rx, rt.slot)
  /\ rt' = [rt EXCEPT !.pc = "deliver"]
  /\ UNCHANGED <<pkt, lost, fifo, state, sock, last, orphan, ts, ftp, sport, backlog, frames>>

(* csp_conn_new, second half, and the socket it is to be announced to.      *)
RouteFill ==
  /\ rt.pc = "fill"
  /\ Fill(rt.slot, pkt[rt.buf])
  /\ free' = AfterFlush(free, rx, rt.slot)
  /\ sock' = [sock EXCEPT ![rt.slot] = TRUE]
  /\ rt' = [rt EXCEPT !.pc = "deliver"]
  /\ UNCHANGED <<pkt, lost, fifo, state, last, orphan, ts, ftp, sport, backlog, frames>>

(* As a mistake would have it: the queue of a slot has no limit.             *)
RouteDeliverAlways ==
  /\ rt.pc = "deliver"
  /\ rx' = [rx EXCEPT ![rt.slot] = Append(@, rt.buf)]
  /\ rt' = [rt EXCEPT !.pc = "announce", !.buf = NoBuf]
  /\ UNCHANGED <<free, pkt, lost, fifo, state, idin, sock, last, orphan, ts, ftp, sport,
                 backlog, frames>>

(* csp_udp_new_packet: queue the packet; a full queue drops it.             *)
RouteDeliver ==
  /\ rt.pc = "deliver"
  /\ IF Len(rx[rt.slot]) < RxLen
       THEN /\ rx' = [rx EXCEPT ![rt.slot] = Append(@, rt.buf)]
            /\ rt' = [rt EXCEPT !.pc = "announce", !.buf = NoBuf]
            /\ UNCHANGED free
       ELSE /\ free' = free \cup {rt.buf}
            /\ rt' = RtIdle
            /\ UNCHANGED rx
  /\ UNCHANGED <<pkt, lost, fifo, state, idin, sock, last, orphan, ts, ftp, sport,
                 backlog, frames>>

(* As a mistake would have it: a connection the full backlog refuses stays  *)
(* open.                                                                    *)
RouteAnnounceOrNot ==
  /\ rt.pc = "announce"
  /\ rt' = RtIdle
  /\ IF sock[rt.slot] /\ Len(backlog) < Backlog
       THEN /\ backlog' = Append(backlog, rt.slot)
            /\ sock' = [sock EXCEPT ![rt.slot] = FALSE]
       ELSE UNCHANGED <<backlog, sock>>
  /\ UNCHANGED <<state, rx, free, orphan, pkt, lost, fifo, idin, last, ts, ftp, sport,
                 frames>>

(* csp_udp_new_packet: announce the slot once; a full backlog closes it.    *)
RouteAnnounce ==
  /\ rt.pc = "announce"
  /\ rt' = RtIdle
  /\ \/ /\ sock[rt.slot] /\ Len(backlog) < Backlog
        /\ backlog' = Append(backlog, rt.slot)
        /\ sock' = [sock EXCEPT ![rt.slot] = FALSE]
        /\ UNCHANGED <<state, rx, free, orphan>>
     \/ /\ sock[rt.slot] /\ Len(backlog) >= Backlog
        /\ Close(rt.slot)
        /\ UNCHANGED <<backlog, sock>>
     \/ /\ ~sock[rt.slot]
        /\ UNCHANGED <<backlog, sock, state, rx, free, orphan>>
  /\ UNCHANGED <<pkt, lost, fifo, idin, last, ts, ftp, sport, frames>>

-----------------------------------------------------------------------------
(* The task_server thread.                                                  *)

(* csp_accept; a connection to the FTP port gets a thread of its own.       *)
ServerAccept ==
  /\ ts.pc = "accept" /\ backlog # <<>>
  /\ LET c == Head(backlog) IN
       IF ServiceOf(c) = "ftp"
         THEN ftp' = [ftp EXCEPT ![c] = @ + 1] /\ UNCHANGED ts
         ELSE ts' = [ts EXCEPT !.pc = "read", !.conn = c] /\ UNCHANGED ftp
  /\ backlog' = Tail(backlog)
  /\ UNCHANGED <<poolVars, fifo, tableVars, rt, sport, frames>>

(* csp_read returns NULL at once unless the slot is open ...                *)
ServerReadCheck ==
  /\ ts.pc = "read"
  /\ ts' = [ts EXCEPT !.pc = IF state[ts.conn] = "open" THEN "wait" ELSE "last close"]
  /\ UNCHANGED <<poolVars, fifo, tableVars, rt, ftp, sport, backlog, frames>>

(* ... and else waits for a packet, for 1000 ms at most.                    *)
ServerReadWait ==
  /\ ts.pc = "wait"
  /\ LET c == ts.conn IN
       IF rx[c] # <<>>
         THEN /\ ts' = [ts EXCEPT !.pc = "dispatch", !.buf = Head(rx[c])]
              /\ rx' = [rx EXCEPT ![c] = Tail(@)]
         ELSE /\ ts' = [ts EXCEPT !.pc = "last close"]
              /\ UNCHANGED rx
  /\ UNCHANGED <<poolVars, fifo, state, idin, sock, last, orphan, rt, ftp, sport,
                 backlog, frames>>

(* receive_packet: a packet with a good CRC is saved, one without is not;     *)
(* either way it returns without freeing the packet.                        *)
ServeTelemetry ==
  /\ ts.pc = "dispatch" /\ ServiceOf(ts.conn) = "telemetry"
  /\ lost' = lost \cup {ts.buf}
  /\ ts' = [ts EXCEPT !.pc = "close", !.buf = NoBuf]
  /\ UNCHANGED <<free, pkt, fifo, tableVars, rt, ftp, sport, backlog, frames>>

(* Receive_data prints a line and returns.                                  *)
ServePing ==
  /\ ts.pc = "dispatch" /\ ServiceOf(ts.conn) = "ping"
  /\ lost' = lost \cup {ts.buf}
  /\ ts' = [ts EXCEPT !.pc = "close", !.buf = NoBuf]
  /\ UNCHANGED <<free, pkt, fifo, tableVars, rt, ftp, sport, backlog, frames>>

(* csp_service_handler, rparam_service_handler, gscript_service_handler:    *)
(* the packet is freed, or sent, which ends with the interface freeing it.  *)
ServeService ==
  /\ ts.pc = "dispatch" /\ ServiceOf(ts.conn) \in {"service", "ftp"}
  /\ free' = free \cup {ts.buf}
  /\ ts' = [ts EXCEPT !.pc = "close", !.buf = NoBuf]
  /\ UNCHANGED <<pkt, lost, fifo, tableVars, rt, ftp, sport, backlog, frames>>

(* reply_data, first half of its csp_connect: take an ephemeral port no     *)
(* open slot uses (the code tries them in turn, the model any of them), and *)
(* a slot.  Without either the packet is freed.                             *)
ReplyConnect ==
  /\ ts.pc = "dispatch" /\ ServiceOf(ts.conn) = "reply"
  /\ \/ \E f \in EphFlows, c \in Slots :
          /\ Matches(state, idin, f) = {}
          /\ Allocate(c)
          /\ sport' = f
          /\ orphan' = orphan \cup {c}
          /\ ts' = [ts EXCEPT !.pc = "fill", !.reply = c]
          /\ UNCHANGED free
     \/ /\ \/ Closed(state) = {}
           \/ \A f \in EphFlows : Matches(state, idin, f) # {}
        /\ free' = free \cup {ts.buf}
        /\ ts' = [ts EXCEPT !.pc = "close", !.buf = NoBuf]
        /\ UNCHANGED <<state, sock, last, sport, orphan>>
  /\ UNCHANGED <<pkt, lost, fifo, idin, rx, rt, ftp, backlog, frames>>

(* Second half: the slot gets its identifier, csp_send consumes the packet  *)
(* (or fails, and reply_data frees it).  Nobody closes the new slot.        *)
ReplySend ==
  /\ ts.pc = "fill"
  /\ Fill(ts.reply, sport)
  /\ free' = AfterFlush(free, rx, ts.reply) \cup {ts.buf}
  /\ ts' = [ts EXCEPT !.pc = "close", !.buf = NoBuf, !.reply = NoSlot]
  /\ UNCHANGED <<pkt, lost, fifo, state, sock, last, orphan, rt, ftp, sport, backlog,
                 frames>>

(* The csp_close of each case of the switch; the loop reads again.          *)
ServerClose ==
  /\ ts.pc = "close"
  /\ Close(ts.conn)
  /\ ts' = [ts EXCEPT !.pc = "read"]
  /\ UNCHANGED <<pkt, lost, fifo, idin, sock, last, rt, ftp, sport, backlog, frames>>

(* The csp_close after the loop.                                            *)
ServerLastClose ==
  /\ ts.pc = "last close"
  /\ Close(ts.conn)
  /\ ts' = TsIdle
  /\ UNCHANGED <<pkt, lost, fifo, idin, sock, last, rt, ftp, sport, backlog, frames>>

-----------------------------------------------------------------------------
(* An FTP thread (task_ftp, in libftp) reads and frees packets of the slot  *)
(* it was given, and closes it at the end.                                  *)
FtpRead(c) ==
  /\ ftp[c] > 0 /\ state[c] = "open" /\ rx[c] # <<>>
  /\ free' = free \cup {Head(rx[c])}
  /\ rx' = [rx EXCEPT ![c] = Tail(@)]
  /\ UNCHANGED <<pkt, lost, fifo, state, idin, sock, last, orphan, rt, ts, ftp, sport,
                 backlog, frames>>

FtpClose(c) ==
  /\ ftp[c] > 0
  /\ Close(c)
  /\ ftp' = [ftp EXCEPT ![c] = @ - 1]
  /\ UNCHANGED <<pkt, lost, fifo, idin, sock, last, rt, ts, sport, backlog, frames>>

-----------------------------------------------------------------------------
Router == \/ RouteDiscard \/ RouteFind \/ RouteAllocate \/ RouteFill
          \/ RouteDeliver \/ RouteAnnounce

Server == \/ ServerAccept \/ ServerReadCheck \/ ServerReadWait
          \/ ServeTelemetry \/ ServePing \/ ServeService
          \/ ReplyConnect \/ ReplySend \/ ServerClose \/ ServerLastClose

FtpThread(c) == FtpRead(c) \/ FtpClose(c)

Next == \/ \E f \in AllFlows : ReceiveFrame(f)
        \/ Router
        \/ Server
        \/ \E c \in Slots : FtpThread(c)

Spec == Init /\ [][Next]_vars

(* Every thread runs: a task that can take a step is scheduled in the end,  *)
(* and csp_read gives up after its timeout.  Frames need never arrive.      *)
Fairness ==
  /\ WF_vars(Router)
  /\ WF_vars(Server)
  /\ \A c \in Slots : WF_vars(FtpThread(c))

FairSpec == Spec /\ Fairness

(***************************************************************************)
(* Properties.                                                             *)
(***************************************************************************)

(* The values of the variables; no queue is longer than it was created.     *)
TypeOK ==
  /\ free \subseteq Buffers
  /\ pkt \in [Buffers -> AllFlows \cup {NoFlow}]
  /\ fifo \in Seq(Buffers) /\ Len(fifo) <= FifoLen
  /\ state \in [Slots -> {"open", "closed"}]
  /\ idin \in [Slots -> AllFlows \cup {NoFlow}]
  /\ sock \in [Slots -> BOOLEAN]
  /\ rx \in [Slots -> Seq(Buffers)] /\ \A c \in Slots : Len(rx[c]) <= RxLen
  /\ last \in Slots
  /\ sport \in EphFlows
  /\ backlog \in Seq(Slots) /\ Len(backlog) <= Backlog
  /\ rt \in [pc : {"idle", "new", "fill", "deliver", "announce"},
             buf : Buffers \cup {NoBuf}, slot : Slots \cup {NoSlot}]
  /\ ts \in [pc : {"accept", "read", "wait", "dispatch", "fill", "close", "last close"},
             buf : Buffers \cup {NoBuf}, conn : Slots \cup {NoSlot},
             reply : Slots \cup {NoSlot}]
  /\ ftp \in [Slots -> Nat]
  /\ orphan \subseteq Slots
  /\ lost \subseteq Buffers
  /\ frames \in Nat

(* The buffers the router task and the task_server thread have in hand.     *)
InHand == {rt.buf, ts.buf} \ {NoBuf}

Queued == UNION {Range(rx[c]) : c \in Slots}

(* However the threads interleave, every buffer of the pool is in exactly   *)
(* one place: free, in the router's FIFO, queued once on one connection, in *)
(* the hands of one thread, or dropped.  So no packet is freed twice, or    *)
(* used by one thread after another has freed it (csp_buffer_free,          *)
(* csp_close against csp_udp_new_packet and csp_read).                      *)
OneOwner ==
  /\ Buffers = free \cup lost \cup Range(fifo) \cup InHand \cup Queued
  /\ free \cap lost = {}
  /\ InHand \cap (free \cup lost) = {}
  /\ rt.buf = ts.buf => rt.buf = NoBuf
  /\ Range(fifo) \cap (free \cup lost \cup InHand) = {}
  /\ Queued \cap (free \cup lost \cup InHand \cup Range(fifo)) = {}
  /\ \A c, d \in Slots : c # d => Range(rx[c]) \cap Range(rx[d]) = {}
  /\ IsInjective(fifo)
  /\ \A c \in Slots : IsInjective(rx[c])

(* A slot some thread has taken with csp_conn_allocate whose csp_conn_new   *)
(* is not done: idin is still that of the connection it held before.        *)
Filling(c) == \/ rt.pc = "fill" /\ rt.slot = c
              \/ ts.pc = "fill" /\ ts.reply = c

(* An open slot that has been named is the only one with its identifier.     *)
OneConnPerFlow ==
  \A c, d \in ClientSlots :
    ( /\ state[c] = "open" /\ ~Filling(c)
      /\ state[d] = "open" /\ ~Filling(d)
      /\ idin[c] = idin[d] ) => c = d

(* The packets queued on a slot that was named for an incoming connection.  *)
OwnPackets ==
  \A c \in ClientSlots :
    idin[c] \in Flows => \A b \in Range(rx[c]) : pkt[b] = idin[c]

(* A flow has one connection, and no packet of it is ever queued on another  *)
(* flow's, although slots are searched, taken, named, filled and closed       *)
(* without a common lock (csp_conn_find and csp_conn_new in csp_route_work    *)
(* and csp_connect).  The exception is a slot reply_data has taken and not    *)
(* named yet: csp_conn_find may return it, by its old identifier, in place of *)
(* the flow's own.  The packet is then flushed when the slot is named, or     *)
(* stays on reply_data's connection: its flow loses it, no other one gets it.  *)
FlowsApart == OneConnPerFlow /\ OwnPackets

(* The task server may still use the slot: it waits in the backlog, or the  *)
(* thread or an FTP thread has it as its connection.                        *)
ServerRefers(c) == \/ c \in Range(backlog)
                   \/ ts.pc # "accept" /\ ts.conn = c
                   \/ ftp[c] > 0

(* No incoming connection is forgotten: an open slot is one some thread     *)
(* will come to and close, in spite of slots being closed twice and reused  *)
(* in between (task_server, csp_udp_new_packet).  Only the connections      *)
(* reply_data opens and never closes are not.                               *)
NoForgottenConn ==
  \A c \in ClientSlots :
    state[c] = "open" => \/ ServerRefers(c)
                         \/ rt.pc # "idle" /\ rt.slot = c
                         \/ c \in orphan

(* A packet queued on an open incoming connection is read or flushed in the *)
(* end: neither a full backlog nor a slot closed and reused strands it      *)
(* (csp_udp_new_packet, task_server).                                       *)
QueuedLive(b) ==
  \E c \in ClientSlots : state[c] = "open" /\ c \notin orphan /\ b \in Range(rx[c])

QueuedPacketLeaves == \A b \in Buffers : QueuedLive(b) ~> ~QueuedLive(b)

-----------------------------------------------------------------------------
(* What the comments of the code say and the code does not do.              *)

(* csp.h on csp_read: "Returns pointer to csp_packet_t, which you MUST free *)
(* yourself": no handler of task_server drops the packet it was given.      *)
ReadPacketsFreed == lost = {}

=============================================================================
