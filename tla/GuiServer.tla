------------------------------ MODULE GuiServer ------------------------------
(***************************************************************************)
(* The thread of the GUI backend that serves the clients                    *)
(* (gui_backend_thread in gui_backend.c): it waits in select(), broadcasts a *)
(* snapshot when a second has passed, accepts at most one connection,       *)
(* receives once from every client that was ready, and runs the complete    *)
(* lines it finds in that client's buffer.                                  *)
(*                                                                         *)
(* A character is its position in what its client sends; the positions in   *)
(* Ends are newlines.  What a command does is in module GuiEvents; here it   *)
(* is run and answered with up to MaxReplies messages.  A socket is what    *)
(* the program sees of TCP: characters on their way in, and messages the    *)
(* client has not read yet, of which it holds Room before send() blocks.    *)
(***************************************************************************)
EXTENDS Integers, Sequences

CONSTANTS
  Clients,      \* connections ever made
  None,         \* no client
  MaxClients,   \* GUI_BACKEND_MAX_CLIENTS
  BufferSize,   \* GUI_BACKEND_BUFFER_SIZE
  Length,       \* how many characters each client sends, at most
  Ends,         \* the positions that are newlines
  MaxReplies,   \* the most messages one command is answered with
  Room          \* messages a socket holds for a client that does not read

ASSUME ServerAssumption ==
  /\ None \notin Clients
  /\ MaxClients \in Nat \ {0}
  /\ BufferSize \in Nat \ {0}
  /\ Length \in [Clients -> Nat]
  /\ Ends \subseteq Nat
  /\ MaxReplies \in Nat
  /\ Room \in Nat \ {0}

Slots == 1 .. MaxClients

VARIABLES
  peer,      \* the client's side: "away", "up", "closed", or "reset" after it
  pipe,      \* characters sent and not received yet
  sent,      \* how many characters each client has sent
  unread,    \* messages each client has not read yet
  backlog,   \* connections waiting to be accepted
  slot,      \* clients[i].fd
  buf,       \* clients[i].buffer, up to clients[i].size
  gui,       \* the thread: where it is, what select() returned, slot, replies
  due,       \* a second has passed since last_broadcast
  alive,     \* the process: SIGPIPE is not ignored
  run,       \* history: the characters of the lines run for each client
  told       \* history: clients whose input was dropped as too long

vars == <<peer, pipe, sent, unread, backlog, slot, buf, gui, due, alive, run, told>>

clientVars == <<pipe, sent>>

AtSelect == [pc |-> "select", ready |-> {}, at |-> 1, replies |-> 0]

Init ==
  /\ peer = [c \in Clients |-> "away"]
  /\ pipe = [c \in Clients |-> <<>>]
  /\ sent = [c \in Clients |-> 0]
  /\ unread = [c \in Clients |-> 0]
  /\ backlog = <<>>
  /\ slot = [i \in Slots |-> None]
  /\ buf = [i \in Slots |-> <<>>]
  /\ gui = AtSelect
  /\ due = TRUE
  /\ alive = TRUE
  /\ run = [c \in Clients |-> <<>>]
  /\ told = {}

-----------------------------------------------------------------------------
(* The clients and the clock, while the process runs: the model ends with it. *)

Connect(c) ==
  /\ alive /\ peer[c] = "away"
  /\ peer' = [peer EXCEPT ![c] = "up"]
  /\ backlog' = Append(backlog, c)
  /\ UNCHANGED <<clientVars, unread, slot, buf, gui, due, alive, run, told>>

SendChar(c) ==
  /\ alive /\ peer[c] = "up" /\ sent[c] < Length[c]
  /\ sent' = [sent EXCEPT ![c] = @ + 1]
  /\ pipe' = [pipe EXCEPT ![c] = Append(@, sent'[c])]
  /\ UNCHANGED <<peer, unread, backlog, slot, buf, gui, due, alive, run, told>>

ReadMessages(c) ==
  /\ alive /\ peer[c] = "up" /\ unread[c] > 0
  /\ unread' = [unread EXCEPT ![c] = 0]
  /\ UNCHANGED <<peer, clientVars, backlog, slot, buf, gui, due, alive, run, told>>

Disconnect(c) ==
  /\ alive /\ peer[c] = "up"
  /\ peer' = [peer EXCEPT ![c] = "closed"]
  /\ unread' = [unread EXCEPT ![c] = 0]
  /\ UNCHANGED <<clientVars, backlog, slot, buf, gui, due, alive, run, told>>

SecondPasses ==
  /\ alive /\ ~due
  /\ due' = TRUE
  /\ UNCHANGED <<peer, clientVars, unread, backlog, slot, buf, gui, alive, run, told>>

-----------------------------------------------------------------------------
(* gui_backend_send: it blocks while the socket is full.  The first message *)
(* to a client that has closed its socket is answered, at once or later, by  *)
(* a reset; a send after the reset raises SIGPIPE, which ends the process.   *)
Send(c) ==
  \/ /\ peer[c] = "up" /\ unread[c] < Room
     /\ unread' = [unread EXCEPT ![c] = @ + 1]
     /\ UNCHANGED <<peer, alive>>
  \/ /\ peer[c] = "closed"
     /\ \E answer \in {"closed", "reset"} : peer' = [peer EXCEPT ![c] = answer]
     /\ UNCHANGED <<unread, alive>>
  \/ /\ peer[c] = "reset"
     /\ alive' = FALSE
     /\ UNCHANGED <<peer, unread>>

(* Mutant: only input counts, not the end of it.                            *)
Readable_InputOnly(c) == pipe[c] # <<>>

(* What select() finds: input, or the end of it.                            *)
Readable(c) == pipe[c] # <<>> \/ peer[c] \in {"closed", "reset"}

Occupied == {i \in Slots : slot[i] # None}

(* The thread goes on with the first of the slots S from number i on, or    *)
(* with what follows the loop.                                              *)
Loop(S, i, pc, after) ==
  IF \E j \in S : j >= i
    THEN [gui EXCEPT !.pc = pc,
                     !.at = CHOOSE j \in S : j >= i /\ \A k \in S : k >= i => j <= k]
    ELSE after

(* Mutant: select() has no timeout.                                         *)
Wakes_NoTimeout(ready) == ready # {}

(* select() returns when there is something to read or its second is over.  *)
Wakes(ready) == ready # {} \/ due

Select ==
  /\ alive /\ gui.pc = "select"
  /\ LET ready == {c \in Clients : Readable(c) /\ \E i \in Occupied : slot[i] = c}
                    \cup (IF backlog # <<>> THEN {None} ELSE {})
         accepting == [AtSelect EXCEPT !.pc = "accept", !.ready = ready] IN
       /\ Wakes(ready)
       /\ gui' = IF due THEN [Loop(Occupied, 1, "broadcast", accepting) EXCEPT !.ready = ready]
                        ELSE accepting
  /\ due' = FALSE
  /\ UNCHANGED <<peer, clientVars, unread, backlog, slot, buf, alive, run, told>>

(* gui_backend_emit_status_to_all, one client after the other.              *)
Broadcast ==
  /\ alive /\ gui.pc = "broadcast"
  /\ Send(slot[gui.at])
  /\ gui' = Loop(Occupied, gui.at + 1, "broadcast", [gui EXCEPT !.pc = "accept", !.at = 1])
  /\ UNCHANGED <<clientVars, backlog, slot, buf, due, run, told>>

(* The slots whose client was ready: FD_ISSET(clients[i].fd, &readfds).     *)
Ready == {i \in Occupied : slot[i] \in gui.ready}

(* One connection is accepted; it gets the first free slot and a greeting,  *)
(* or it is closed.                                                         *)
Accept ==
  /\ alive /\ gui.pc = "accept"
  /\ gui' = Loop(Ready, 1, "receive", AtSelect)
  /\ IF None \notin gui.ready
       THEN UNCHANGED <<backlog, slot, buf, peer, unread, alive>>
       ELSE LET c == Head(backlog) IN
              /\ backlog' = Tail(backlog)
              /\ \/ \E i \in Slots \ Occupied :
                      /\ \A j \in Slots \ Occupied : i <= j
                      /\ slot' = [slot EXCEPT ![i] = c]
                      /\ buf' = [buf EXCEPT ![i] = <<>>]
                      /\ Send(c)
                 \/ /\ Occupied = Slots
                    /\ peer' = [peer EXCEPT ![c] = "reset"]
                    /\ UNCHANGED <<slot, buf, unread, alive>>
  /\ UNCHANGED <<clientVars, due, run, told>>

(* On to the next client that was ready, or back to select().               *)
NextReady == Loop(Ready, gui.at + 1, "receive", AtSelect)

(* n messages are still to be sent in answer to a line.                     *)
Answering(n) == [gui EXCEPT !.pc = IF n > 0 THEN "reply" ELSE "lines", !.replies = n]

Smaller(a, b) == IF a < b THEN a ELSE b

(* Mutant: a buffer is too long only beyond its size.                       *)
TooLong_OffByOne(size) == size > BufferSize

TooLong(size) == size >= BufferSize

(* recv() into what is left of the buffer: a full buffer is dropped.        *)
Receive ==
  /\ alive /\ gui.pc = "receive"
  /\ LET c == slot[gui.at]
         n == Smaller(Len(pipe[c]), BufferSize - Len(buf[gui.at])) IN
       /\ n > 0
       /\ pipe' = [pipe EXCEPT ![c] = SubSeq(@, n + 1, Len(@))]
       /\ IF TooLong(Len(buf[gui.at]) + n)
            THEN /\ buf' = [buf EXCEPT ![gui.at] = <<>>]
                 /\ told' = told \cup {c}
                 /\ gui' = Answering(1)
            ELSE /\ buf' = [buf EXCEPT ![gui.at] = @ \o SubSeq(pipe[c], 1, n)]
                 /\ gui' = [gui EXCEPT !.pc = "lines"]
                 /\ UNCHANGED told
  /\ UNCHANGED <<peer, sent, unread, backlog, slot, due, alive, run>>

(* recv() fails or finds the end of the input: gui_backend_close_client.    *)
CloseClient ==
  /\ alive /\ gui.pc = "receive"
  /\ \/ pipe[slot[gui.at]] = <<>>
     \/ peer[slot[gui.at]] = "reset"
  /\ slot' = [slot EXCEPT ![gui.at] = None]
  /\ buf' = [buf EXCEPT ![gui.at] = <<>>]
  /\ gui' = NextReady
  /\ UNCHANGED <<peer, clientVars, unread, backlog, due, alive, run, told>>

Newlines(s) == {k \in 1 .. Len(s) : s[k] \in Ends}

(* Mutant: the rest of the buffer is lost with the line.                    *)
Rest_Lost(s, k) == <<>>

(* What memmove() leaves in the buffer after its first k characters.        *)
Rest(s, k) == SubSeq(s, k + 1, Len(s))

(* gui_backend_process_buffer: the first line of the buffer is run.         *)
RunLine ==
  /\ alive /\ gui.pc = "lines"
  /\ \E k \in Newlines(buf[gui.at]) :
       /\ \A j \in Newlines(buf[gui.at]) : k <= j
       /\ run' = [run EXCEPT ![slot[gui.at]] = @ \o SubSeq(buf[gui.at], 1, k)]
       /\ buf' = [buf EXCEPT ![gui.at] = Rest(@, k)]
  /\ \E n \in 0 .. MaxReplies : gui' = Answering(n)
  /\ UNCHANGED <<peer, clientVars, unread, backlog, slot, due, alive, told>>

(* Mutant: lines are left in the buffer until there is more input.          *)
Processed_Anyway(i) == TRUE

Processed(i) == Newlines(buf[i]) = {}

NoMoreLines ==
  /\ alive /\ gui.pc = "lines"
  /\ Processed(gui.at)
  /\ gui' = NextReady
  /\ UNCHANGED <<peer, clientVars, unread, backlog, slot, buf, due, alive, run, told>>

(* The answer to a command, message by message; after an overflow there is  *)
(* nothing in the buffer, and the next slot follows.                        *)
Reply ==
  /\ alive /\ gui.pc = "reply"
  /\ Send(slot[gui.at])
  /\ gui' = Answering(gui.replies - 1)
  /\ UNCHANGED <<clientVars, backlog, slot, buf, due, run, told>>

-----------------------------------------------------------------------------
GuiThread == Select \/ Broadcast \/ Accept \/ Receive \/ CloseClient
               \/ RunLine \/ NoMoreLines \/ Reply

Client(c) == Connect(c) \/ SendChar(c) \/ ReadMessages(c) \/ Disconnect(c)

Next == GuiThread \/ SecondPasses \/ \E c \in Clients : Client(c)

Spec == Init /\ [][Next]_vars

(* The thread has nothing to wait for but select() and a full socket, and a  *)
(* second is always over some time later.  Nothing makes a client read.      *)
Fairness == WF_vars(GuiThread) /\ WF_vars(SecondPasses)

LiveSpec == Spec /\ Fairness

(* The thread waits in send() for a client that does not read.               *)
Stuck == /\ gui.pc \in {"broadcast", "reply"}
         /\ LET c == slot[gui.at] IN peer[c] = "up" /\ unread[c] = Room

(* No client keeps the thread in send() for good: none stops reading without  *)
(* going away.  The code does nothing to ensure it: there is no time limit    *)
(* on send(), and nobody who reads slowly is disconnected.                    *)
ClientsRead == []<>~Stuck

-----------------------------------------------------------------------------
InSlot(c) == \E i \in Slots : slot[i] = c

Waiting(c) == \E k \in 1 .. Len(backlog) : backlog[k] = c

(* What a client has sent and the thread still holds for it.                 *)
Buffered(c) == IF InSlot(c) THEN buf[CHOOSE i \in Slots : slot[i] = c] ELSE <<>>

Ascending(s) == \A j, k \in 1 .. Len(s) : j < k => s[j] < s[k]

(* Every variable has the type of the C variable, or of the history, it is;  *)
(* a buffer that is not being filled has room for one more character, so     *)
(* that recv() is never asked for none, which would read as end of input.     *)
TypeOK ==
  /\ peer \in [Clients -> {"away", "up", "closed", "reset"}]
  /\ pipe \in [Clients -> Seq(Nat)]
  /\ sent \in [Clients -> Nat]
  /\ unread \in [Clients -> 0 .. Room]
  /\ backlog \in Seq(Clients)
  /\ slot \in [Slots -> Clients \cup {None}]
  /\ buf \in [Slots -> Seq(Nat)]
  /\ \A i \in Slots : Len(buf[i]) < BufferSize
  /\ gui \in [pc : {"select", "broadcast", "accept", "receive", "lines", "reply"},
              ready : SUBSET (Clients \cup {None}), at : Slots, replies : 0 .. MaxReplies + 1]
  /\ due \in BOOLEAN /\ alive \in BOOLEAN
  /\ run \in [Clients -> Seq(Nat)]
  /\ told \in SUBSET Clients

(* What has been run for a client, what its slot still buffers and what is   *)
(* on its way are in the order it was sent, without repetition and without    *)
(* another client's input; while the connection is served and has not been    *)
(* told "Input too long", nothing is missing, and the buffer never holds the   *)
(* end of a line when the thread waits.                                        *)
InOrder ==
  \A c \in Clients :
    LET all == run[c] \o Buffered(c) \o pipe[c] IN
      /\ Ascending(all)
      /\ (InSlot(c) \/ Waiting(c)) /\ c \notin told => all = [k \in 1 .. sent[c] |-> k]
      /\ gui.pc = "select" => Newlines(Buffered(c)) = {}

(* The client has sent a complete line that has not been run.                *)
Pending(c) == \E e \in Ends : e <= sent[c] /\ \A k \in 1 .. Len(run[c]) : run[c][k] # e

(* While no client that stays away from its socket holds the thread up, the   *)
(* complete lines of a client that stays connected are run without more        *)
(* input, or it is told that its input was too long                            *)
(* (gui_backend_process_buffer).                                              *)
Answered ==
  ClientsRead =>
    \A c \in {d \in Clients : Length[d] > 0} :
      Pending(c) ~> (~Pending(c) \/ c \in told \/ peer[c] # "up" \/ ~alive)

(* On the same condition, a client that has gone away is forgotten: its        *)
(* connection is accepted or refused if it still waits, and the end of its     *)
(* input wakes the thread and frees its slot (gui_backend_close_client).       *)
Forgotten ==
  ClientsRead =>
    \A c \in Clients : peer[c] \in {"closed", "reset"} ~> \/ ~InSlot(c) /\ ~Waiting(c)
                                                       \/ ~alive

(* On the same condition, a client that keeps its connection is sent the       *)
(* snapshot again and again, also when no client says anything and whatever    *)
(* the others say (gui_backend_emit_status_to_all).                            *)
Telemetry ==
  ClientsRead =>
    \A c \in Clients : <>[](InSlot(c) /\ alive)
                          => []<><<Broadcast /\ slot[gui.at] = c>>_vars

(* The user guide lets a client close its socket and connect again            *)
(* (gui_backend_user_guide.md:72): the ground station is still there for it.   *)
SurvivesDisconnect == alive
=============================================================================
