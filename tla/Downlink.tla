------------------------------- MODULE Downlink -------------------------------
(***************************************************************************)
(* The downlink client (downlink_client.c): task_server's receive_packet saves *)
(* each packet as a file and has it sent over TCP to the host of the mission    *)
(* control client that tcp_server accepted last.  The global client_addr is     *)
(* written by tcp_server and read here without a lock; the socket is kept       *)
(* from file to file, and renewed for the file after a failure.               *)
(***************************************************************************)
EXTENDS Integers, Sequences

CONSTANTS
  Hosts,      \* the hosts mission control clients connect from
  Blocks,     \* into how many blocks of LENGTH bytes a file is read
  MaxFiles,   \* a bound of the model: files to send
  MaxAccepts  \* a bound of the model: clients accepted

VARIABLES
  accepting,    \* tcp_server has cleared client_addr and not yet copied the new one
  client_addr,  \* a host, or "" while there is none
  dpc,          \* "idle", "connect", "open" or "send"
  file,         \* the file downlink_client was last called for
  block,        \* the block that is sent next
  ret,          \* TRUE: a new connection is needed
  peer,         \* the host sock is connected to
  far,          \* the far end of sock: "there", "closed", "gone" or "reset"
  descriptors,  \* sockets and files open
  stray,        \* history: those that nobody will close
  inbox,        \* history: what each host has received, as <<file, block>>
  accepts,      \* clients accepted
  running       \* the process has not been ended

NoHost == ""

DownlinkInit ==
  /\ accepting = NoHost
  /\ client_addr = NoHost
  /\ dpc = "idle"
  /\ file = 0 /\ block = 1
  /\ ret = TRUE
  /\ peer = NoHost /\ far = "there"
  /\ descriptors = 0 /\ stray = 0
  /\ inbox = [h \in Hosts |-> <<>>]
  /\ accepts = 0

(* accept and memset.                                                        *)
Accept ==
  /\ accepting = NoHost /\ accepts < MaxAccepts
  /\ accepting' \in Hosts
  /\ client_addr' = NoHost
  /\ accepts' = accepts + 1
  /\ UNCHANGED <<dpc, file, block, ret, peer, far, descriptors, stray, inbox, running>>

(* strcpy, whose last byte this is.                                            *)
CopyAddress ==
  /\ accepting # NoHost
  /\ client_addr' = accepting
  /\ accepting' = NoHost
  /\ UNCHANGED <<dpc, file, block, ret, peer, far, descriptors, stray, inbox, accepts, running>>

Call ==
  /\ dpc = "idle" /\ file < MaxFiles
  /\ file' = file + 1
  /\ dpc' = IF ret THEN "connect" ELSE "open"
  /\ UNCHANGED <<accepting, client_addr, block, ret, peer, far, descriptors, stray,
                 inbox, accepts, running>>

(* Without a connection the file is given up, and the new socket stays open.  *)
ConnectFails ==
  /\ dpc = "connect"
  /\ dpc' = "idle"
  /\ descriptors' = descriptors + 1 /\ stray' = stray + 1
  /\ UNCHANGED <<accepting, client_addr, file, block, ret, peer, far, inbox, accepts, running>>

(* What a reader may find: while tcp_server clears and copies the address it may   *)
(* be a part of one, which can be the address of any host.                     *)
Readable == IF accepting = NoHost THEN {client_addr} \ {NoHost} ELSE Hosts

ConnectSucceeds ==
  /\ dpc = "connect"
  /\ peer' \in Readable
  /\ dpc' = "open" /\ far' = "there"
  /\ ret' = FALSE
  /\ descriptors' = descriptors + 1
  /\ UNCHANGED <<accepting, client_addr, file, block, stray, inbox, accepts, running>>

(* The file is never closed.                                                 *)
OpenFile ==
  /\ dpc = "open"
  /\ \/ dpc' = "send" /\ block' = 1 /\ descriptors' = descriptors + 1 /\ stray' = stray + 1
     \/ dpc' = "idle" /\ UNCHANGED <<block, descriptors, stray>>
  /\ UNCHANGED <<accepting, client_addr, file, ret, peer, far, inbox, accepts, running>>

(* Mutant: the end of the file is noticed one block late.                    *)
Advance_Late ==
  /\ block' = IF block > Blocks THEN 1 ELSE block + 1
  /\ dpc' = IF block > Blocks THEN "idle" ELSE "send"

(* fread returns 0 after the last block.                                     *)
Advance ==
  /\ block' = IF block = Blocks THEN 1 ELSE block + 1
  /\ dpc' = IF block = Blocks THEN "idle" ELSE "send"

(* The block arrives, or is answered with a reset.                           *)
SendBlock ==
  /\ dpc = "send" /\ far \in {"there", "closed"}
  /\ IF far = "there"
       THEN inbox' = [inbox EXCEPT ![peer] = Append(@, <<file, block>>)] /\ UNCHANGED far
       ELSE far' = "gone" /\ UNCHANGED inbox
  /\ Advance
  /\ UNCHANGED <<accepting, client_addr, file, ret, peer, descriptors, stray, accepts, running>>

(* Mutant: the file is sent again over a new connection.                     *)
SendFails_Retry ==
  /\ dpc = "send" /\ far = "reset"
  /\ ret' = TRUE
  /\ descriptors' = descriptors - 1
  /\ dpc' = "connect"
  /\ UNCHANGED <<accepting, client_addr, file, block, peer, far, stray, inbox, accepts, running>>

(* Mutant: the socket of a failed send stays open.                           *)
SendFails_Open ==
  /\ dpc = "send" /\ far = "reset"
  /\ ret' = TRUE
  /\ dpc' = "idle"
  /\ UNCHANGED <<accepting, client_addr, file, block, peer, far, descriptors, stray,
                 inbox, accepts, running>>

(* The rest of the file is given up; the next one gets a new connection.     *)
SendFails ==
  /\ dpc = "send" /\ far = "reset"
  /\ ret' = TRUE
  /\ descriptors' = descriptors - 1
  /\ dpc' = "idle"
  /\ UNCHANGED <<accepting, client_addr, file, block, peer, far, stray, inbox, accepts, running>>

(* After the reset of a closed connection send raises SIGPIPE.               *)
SendKills ==
  /\ dpc = "send" /\ far = "gone"
  /\ running' = FALSE
  /\ UNCHANGED <<accepting, client_addr, dpc, file, block, ret, peer, far, descriptors,
                 stray, inbox, accepts>>

(* The host closes its end, or resets it.                                    *)
HostLeaves ==
  /\ ~ret /\ far = "there"
  /\ far' \in {"closed", "reset"}
  /\ UNCHANGED <<accepting, client_addr, dpc, file, block, ret, peer, descriptors, stray,
                 inbox, accepts, running>>

Downloading == Call \/ ConnectFails \/ ConnectSucceeds \/ OpenFile
                 \/ SendBlock \/ SendFails \/ SendKills

-----------------------------------------------------------------------------
DownlinkTypeOK ==
  /\ accepting \in Hosts \cup {NoHost} /\ client_addr \in Hosts \cup {NoHost}
  /\ dpc \in {"idle", "connect", "open", "send"}
  /\ file \in 0 .. MaxFiles /\ block \in 1 .. Blocks
  /\ ret \in BOOLEAN
  /\ peer \in Hosts \cup {NoHost} /\ far \in {"there", "closed", "gone", "reset"}
  /\ descriptors \in Nat /\ stray \in Nat
  /\ inbox \in [Hosts -> Seq((1 .. MaxFiles) \X (1 .. Blocks))]
  /\ accepts \in 0 .. MaxAccepts

Earlier(p, q) == p[1] < q[1] \/ (p[1] = q[1] /\ p[2] < q[2])

(* A host gets the blocks in order and each once, and no two hosts get the same *)
(* one, however connections fail and are renewed and addresses change.        *)
DownlinkOnce ==
  /\ \A h \in Hosts : \A j, k \in 1 .. Len(inbox[h]) : j < k => Earlier(inbox[h][j], inbox[h][k])
  /\ \A g, h \in Hosts : g # h =>
       \A j \in 1 .. Len(inbox[g]), k \in 1 .. Len(inbox[h]) : inbox[g][j] # inbox[h][k]

(* A descriptor is open for the connection in use, if there is one, and for      *)
(* each failed connection and each file sent.                                *)
DescriptorsAccounted == descriptors = stray + (IF ret THEN 0 ELSE 1)
=============================================================================
