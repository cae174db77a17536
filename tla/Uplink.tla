-------------------------------- MODULE Uplink --------------------------------
(***************************************************************************)
(* The uplink: tcp_server saves what the mission control system sends as a    *)
(* file and gives it to send_packet (tcp_server.c, process_mcs_file.c,         *)
(* send_packet.c); the console command send_packet sends the latest file       *)
(* again, and the GUI thread calls send_packet_struct.  The three threads      *)
(* share the globals fr_name and data_size, the files and the buffer pool.      *)
(*                                                                         *)
(* An upload is what one recv gets: a packet, a part of one, or more than one,   *)
(* as TCP cuts them.  The length that is sent is the sixth of its bytes, where    *)
(* the MCS header has it, whatever the upload's size.  A file is named after the  *)
(* second it is saved in, so two uploads of one second go to the same file.      *)
(* What is saved under Sent_To_MCS is left out.                                *)
(***************************************************************************)
EXTENDS Integers, Sequences, FiniteSets

CONSTANTS
  Kinds,        \* records [size, length, local, valid]: the bytes of an upload, the
                \* sixth of them, whether the first make a dst above 15, and
                \* whether such a command succeeds
  Buffers,      \* csp_buffer_init's count
  Seconds,      \* the clock runs from 0 to Seconds
  MaxUploads,   \* a bound of the model: uploads received
  MaxCommands   \* a bound of the model: console and GUI commands

Threads == {"tcp", "console", "gui"}

(* The MCS header, which decode_parameters reads.                            *)
HeaderSize == 6

VARIABLES
  upc,        \* where each thread is
  upload,     \* what tcp_server has in msg_buffer
  fr_name,    \* the global name: whole or not, and its second
  files,      \* what is in the file of each second
  clock,
  data_size,  \* the global of process_mcs_file
  packet,     \* the packet each thread makes: the file and its measured size, the
              \* upload its header is of, how much of that upload's data it has,
              \* success and packet_consumed; history: crossed, another thread
              \* has set data_size since this one did
  free,       \* buffers in the pool
  lost,       \* history: buffers that csp_sendto did not take
  air,        \* history: what was sent to the satellite
  uploads,    \* how many uploads have been received
  commands,   \* how many commands have been given
  latest,     \* history: the last upload that was saved
  floor,      \* history: the last upload that was saved when the console asked
  running     \* the process has not been ended

(* Files that are not there and files that have been cut to nothing.         *)
Absent == [nr |-> 0, size |-> -1, length |-> 0, local |-> FALSE, valid |-> FALSE]
Empty == [Absent EXCEPT !.size = 0]

NoPacket == [file |-> 0, size |-> 0, of |-> Empty, own |-> 0, ok |-> TRUE, taken |-> FALSE,
             crossed |-> FALSE]

UplinkInit ==
  /\ upc = [t \in Threads |-> "idle"]
  /\ upload = Empty
  /\ fr_name = [whole |-> FALSE, second |-> 0]
  /\ files = [s \in 0 .. Seconds |-> Absent]
  /\ clock = 0
  /\ data_size = 0
  /\ packet = [t \in Threads |-> NoPacket]
  /\ free = Buffers /\ lost = 0
  /\ air = <<>>
  /\ uploads = 0 /\ commands = 0
  /\ latest = 0 /\ floor = 0
  /\ running = TRUE

Goto(t, label) == upc' = [upc EXCEPT ![t] = label]

Tick ==
  /\ clock < Seconds
  /\ clock' = clock + 1
  /\ UNCHANGED <<upc, upload, fr_name, files, data_size, packet, free, lost, air,
                 uploads, commands, latest, floor, running>>

-----------------------------------------------------------------------------
(* tcp_server: recv, and the name is built from the empty string on.         *)
Receive ==
  /\ upc["tcp"] = "idle" /\ uploads < MaxUploads
  /\ \E k \in Kinds :
       upload' = [nr |-> uploads + 1, size |-> k.size, length |-> k.length,
                  local |-> k.local, valid |-> k.valid]
  /\ uploads' = uploads + 1
  /\ fr_name' = [fr_name EXCEPT !.whole = FALSE]
  /\ Goto("tcp", "name")
  /\ UNCHANGED <<files, clock, data_size, packet, free, lost, air, commands, latest, floor, running>>

Name ==
  /\ upc["tcp"] = "name"
  /\ fr_name' = [whole |-> TRUE, second |-> clock]
  /\ Goto("tcp", "open")
  /\ UNCHANGED <<upload, files, clock, data_size, packet, free, lost, air,
                 uploads, commands, latest, floor, running>>

(* Mutant: what cannot be saved is sent all the same.                        *)
OpenSaved_GoesOn ==
  /\ upc["tcp"] = "open"
  /\ \/ files' = [files EXCEPT ![fr_name.second] = Empty] /\ Goto("tcp", "save")
     \/ UNCHANGED files /\ Goto("tcp", "get")
  /\ UNCHANGED <<upload, fr_name, clock, data_size, packet, free, lost, air,
                 uploads, commands, latest, floor, running>>

(* fopen for writing cuts the file; fclose(NULL) ends the process.            *)
OpenSaved ==
  /\ upc["tcp"] = "open"
  /\ \/ files' = [files EXCEPT ![fr_name.second] = Empty] /\ UNCHANGED running
     \/ running' = FALSE /\ UNCHANGED files
  /\ Goto("tcp", "save")
  /\ UNCHANGED <<upload, fr_name, clock, data_size, packet, free, lost, air,
                 uploads, commands, latest, floor>>

(* fclose writes what fwrite has kept.                                       *)
Save ==
  /\ upc["tcp"] = "save"
  /\ files' = [files EXCEPT ![fr_name.second] = upload]
  /\ latest' = upload.nr
  /\ Goto("tcp", "get")
  /\ UNCHANGED <<upload, fr_name, clock, data_size, packet, free, lost, air,
                 uploads, commands, floor, running>>

-----------------------------------------------------------------------------
(* send_packet and process_mcs_file, called by tcp_server and the console.   *)

Retransmit ==
  /\ upc["console"] = "idle" /\ commands < MaxCommands
  /\ commands' = commands + 1
  /\ floor' = latest
  /\ Goto("console", "get")
  /\ UNCHANGED <<upload, fr_name, files, clock, data_size, packet, free, lost, air,
                 uploads, latest, running>>

(* csp_buffer_get; without one send_packet returns.                          *)
GetBuffer(t) ==
  /\ upc[t] = "get"
  /\ \/ free > 0 /\ free' = free - 1 /\ Goto(t, "file")
     \/ free = 0 /\ free' = free /\ Goto(t, "idle")
  /\ UNCHANGED <<upload, fr_name, files, clock, data_size, packet, lost, air,
                 uploads, commands, latest, floor, running>>

(* Mutant: send_packet returns without freeing the buffer.                   *)
Refuse_Leaking(t) ==
  /\ free' = free
  /\ packet' = [packet EXCEPT ![t] = NoPacket]
  /\ Goto(t, "idle")

(* send_packet frees the buffer and returns.                                 *)
Refuse(t) ==
  /\ free' = free + 1
  /\ packet' = [packet EXCEPT ![t] = NoPacket]
  /\ Goto(t, "idle")

(* Mutant: the first name that was given is kept.                            *)
Named_First == 0

(* The file fr_name names, once it is whole.                                 *)
Named == fr_name.second

NamedFile == files[Named]

(* A name that is being built is that of a directory, which is found too small *)
(* or cannot be read, or of no file, and then the program exits.              *)
OpenFile(t) ==
  /\ upc[t] = "file"
  /\ \/ /\ ~fr_name.whole \/ NamedFile = Absent
        /\ running' = FALSE
        /\ UNCHANGED <<upc, packet, free>>
     \/ /\ ~fr_name.whole \/ NamedFile.size \in 0 .. HeaderSize
        /\ Refuse(t)
        /\ UNCHANGED running
     \/ /\ fr_name.whole /\ NamedFile.size > HeaderSize
        /\ packet' = [packet EXCEPT ![t] = [NoPacket EXCEPT !.file = Named,
                                                           !.size = NamedFile.size]]
        /\ Goto(t, "header")
        /\ UNCHANGED <<free, running>>
  /\ UNCHANGED <<upload, fr_name, files, clock, data_size, lost, air,
                 uploads, commands, latest, floor>>

(* The header, and with it what else is in the file, which stdio keeps.        *)
ReadHeader(t) ==
  /\ upc[t] = "header"
  /\ LET content == files[packet[t].file] IN
       \/ content.size = 0 /\ Refuse(t)
       \/ /\ content.size > 0
          /\ packet' = [packet EXCEPT ![t].of = content]
          /\ Goto(t, "size")
          /\ UNCHANGED free
  /\ UNCHANGED <<upload, fr_name, files, clock, data_size, lost, air,
                 uploads, commands, latest, floor, running>>

(* Mutant: off by one.                                                       *)
DataSize_Short(size) == size - HeaderSize - 1

(* data_size, without the MCS header.                                        *)
DataSize(size) == size - HeaderSize

SetDataSize(t) ==
  /\ upc[t] = "size"
  /\ data_size' = DataSize(packet[t].size)
  /\ packet' = [u \in Threads |->
       IF u # t /\ upc[u] = "data" THEN [packet[u] EXCEPT !.crossed = TRUE] ELSE packet[u]]
  /\ Goto(t, "data")
  /\ UNCHANGED <<upload, fr_name, files, clock, free, lost, air,
                 uploads, commands, latest, floor, running>>

Smaller(a, b) == IF a < b THEN a ELSE b

(* How much of the n bytes that are wanted the first read has brought in.       *)
Kept(t, n) ==
  IF packet[t].of.size > HeaderSize THEN Smaller(n, packet[t].of.size - HeaderSize) ELSE 0

(* The data: as much as data_size says, which the compiler may have kept or      *)
(* reads again.  What has not been brought in comes from the file as it is now.  *)
ReadData(t) ==
  /\ upc[t] = "data"
  /\ \E n \in {DataSize(packet[t].size), data_size} :
       \/ /\ Kept(t, n) = 0 /\ files[packet[t].file].size <= packet[t].of.size
          /\ Refuse(t)
       \/ /\ Kept(t, n) > 0 \/ files[packet[t].file].size > packet[t].of.size
          /\ packet' = [packet EXCEPT ![t].own = Kept(t, n)]
          /\ Goto(t, "execute")
          /\ UNCHANGED free
  /\ UNCHANGED <<upload, fr_name, files, clock, data_size, lost, air,
                 uploads, commands, latest, floor, running>>

(* To a node: whatever csp_sendto returns but -1, which it never does, counts   *)
(* as sent; what an interface takes it frees when it has been sent.           *)
SendTo(t) ==
  /\ upc[t] = "execute" /\ ~packet[t].of.local
  /\ packet' = [packet EXCEPT ![t].taken = TRUE]
  /\ \/ /\ air' = Append(air, [by |-> t, nr |-> packet[t].of.nr, size |-> packet[t].of.size,
                                length |-> packet[t].of.length, own |-> packet[t].own,
                                crossed |-> packet[t].crossed, floor |-> floor])
        /\ free' = free + 1 /\ UNCHANGED lost
     \/ lost' = lost + 1 /\ UNCHANGED <<air, free>>
  /\ Goto(t, "report")
  /\ UNCHANGED <<upload, fr_name, files, clock, data_size, uploads, commands, latest, floor, running>>

(* To the ground station itself.                                             *)
RunCommand(t) ==
  /\ upc[t] = "execute" /\ packet[t].of.local
  /\ packet' = [packet EXCEPT ![t].ok = packet[t].of.valid]
  /\ Goto(t, "report")
  /\ UNCHANGED <<upload, fr_name, files, clock, data_size, free, lost, air,
                 uploads, commands, latest, floor, running>>

(* gui_backend_notify_uplink; a packet that was not taken is freed.          *)
Report(t) ==
  /\ upc[t] = "report"
  /\ free' = IF packet[t].taken THEN free ELSE free + 1
  /\ Goto(t, "idle")
  /\ packet' = [packet EXCEPT ![t] = NoPacket]
  /\ UNCHANGED <<upload, fr_name, files, clock, data_size, lost, air,
                 uploads, commands, latest, floor, running>>

-----------------------------------------------------------------------------
(* send_packet_struct: sizeof(packet->data) is zero, so every payload is too    *)
(* large for the buffer.                                                     *)
GuiSend ==
  /\ upc["gui"] = "idle" /\ commands < MaxCommands
  /\ commands' = commands + 1
  /\ \/ free > 0 /\ free' = free - 1 /\ Goto("gui", "refuse")
     \/ free = 0 /\ UNCHANGED <<free, upc>>
  /\ UNCHANGED <<upload, fr_name, files, clock, data_size, packet, lost, air,
                 uploads, latest, floor, running>>

GuiRefuse ==
  /\ upc["gui"] = "refuse"
  /\ Refuse("gui")
  /\ UNCHANGED <<upload, fr_name, files, clock, data_size, lost, air,
                 uploads, commands, latest, floor, running>>

UplinkStep(t) ==
  \/ t = "tcp" /\ (Receive \/ Name \/ OpenSaved \/ Save)
  \/ t = "console" /\ Retransmit
  \/ t = "gui" /\ (GuiSend \/ GuiRefuse)
  \/ t # "gui" /\ (GetBuffer(t) \/ OpenFile(t) \/ ReadHeader(t) \/ SetDataSize(t)
                     \/ ReadData(t) \/ SendTo(t) \/ RunCommand(t) \/ Report(t))

-----------------------------------------------------------------------------
Contents == [nr : Nat, size : Int, length : 0 .. 255, local : BOOLEAN, valid : BOOLEAN]

UplinkTypeOK ==
  /\ upc \in [Threads -> {"idle", "name", "open", "save", "get", "file", "header",
                          "size", "data", "execute", "report", "refuse"}]
  /\ upload \in Contents
  /\ fr_name \in [whole : BOOLEAN, second : 0 .. Seconds]
  /\ files \in [0 .. Seconds -> Contents]
  /\ clock \in 0 .. Seconds
  /\ data_size \in Nat
  /\ packet \in [Threads -> [file : 0 .. Seconds, size : Nat, of : Contents, own : Nat,
                             ok : BOOLEAN, taken : BOOLEAN, crossed : BOOLEAN]]
  /\ free \in 0 .. Buffers /\ lost \in Nat
  /\ air \in Seq([by : Threads, nr : Nat, size : Nat, length : 0 .. 255, own : Nat,
                  crossed : BOOLEAN, floor : Nat])
  /\ uploads \in 0 .. MaxUploads /\ commands \in 0 .. MaxCommands
  /\ latest \in Nat /\ floor \in Nat
  /\ running \in BOOLEAN

(* What tcp_server sends are the uploads it received, in the order they came and  *)
(* each once, whatever the console does with the name and the files.  The bytes   *)
(* of a packet are the upload's own, provided that it has as many as its header    *)
(* announces (TCP has not cut it short) and that the console has not set           *)
(* data_size in between (crossed), which may cut the upload.                   *)
UploadsInOrder ==
  /\ \A j, k \in 1 .. Len(air) :
       j < k /\ air[j].by = "tcp" /\ air[k].by = "tcp" => air[j].nr < air[k].nr
  /\ \A k \in 1 .. Len(air) :
       air[k].by = "tcp" /\ ~air[k].crossed /\ air[k].length <= air[k].size - HeaderSize =>
         air[k].own >= air[k].length

(* "Retransmission of latest packet saved from MCS" (tcp_server.c:194): what    *)
(* the console sends is never older than the last upload that was saved when   *)
(* the command was given.                                                    *)
RetransmitsLatest == \A k \in 1 .. Len(air) : air[k].by = "console" => air[k].nr >= air[k].floor

Holds(t) ==
  \/ upc[t] \in {"file", "header", "size", "data", "execute", "refuse"}
  \/ upc[t] = "report" /\ ~packet[t].taken

(* On every way through send_packet and send_packet_struct a buffer that was     *)
(* taken is given back, and once; only those csp_sendto fails with are lost.   *)
BuffersAccounted == free + lost + Cardinality({t \in Threads : Holds(t)}) = Buffers
=============================================================================
