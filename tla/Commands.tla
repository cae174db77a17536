------------------------------- MODULE Commands -------------------------------
(***************************************************************************)
(* The threads that carry commands out and telemetry home: tcp_server, the       *)
(* console, the GUI thread and task_server.  Each does one thing at a time:       *)
(* tcp_server accepts a client or handles an upload, the console and the GUI     *)
(* thread send a packet or move the antenna.  All end with the process.        *)
(***************************************************************************)
EXTENDS Integers, Sequences, FiniteSets

CONSTANTS Kinds, Buffers, Seconds, MaxUploads, MaxCommands, Positions, MaxMoves,
  Hosts, Blocks, MaxFiles, MaxAccepts,
  MaxCalls    \* a bound of the model: everything the bounds above count, together

ASSUME CommandsAssumption ==
  /\ Kinds \subseteq [size : Nat \ {0}, length : 0 .. 255, local : BOOLEAN, valid : BOOLEAN]
  /\ Positions \subseteq Int \X Int
  /\ Buffers \in Nat /\ Seconds \in Nat
  /\ Blocks \in Nat \ {0}
  /\ {MaxUploads, MaxCommands, MaxMoves, MaxFiles, MaxAccepts, MaxCalls} \subseteq Nat

VARIABLES upc, upload, fr_name, files, clock, data_size, packet, free, lost, air,
          uploads, commands, latest, floor, running,
          rpc, target, azi_old, ele_old, antenna, unended, ports, moves, last, leaked,
          undisturbed, accepting, client_addr, dpc, file, block, ret, peer, far, descriptors,
          stray, inbox, accepts

Movers == {"console", "gui"}

Up == INSTANCE Uplink
Rot == INSTANCE Rotator
Down == INSTANCE Downlink

senderVars == <<upc, upload, fr_name, files, clock, data_size, packet, free, lost, air,
                uploads, commands, latest, floor>>

rotatorVars == <<rpc, target, azi_old, ele_old, antenna, unended, ports, moves, last, leaked,
                 undisturbed>>

downlinkVars == <<accepting, client_addr, dpc, file, block, ret, peer, far, descriptors,
                  stray, inbox, accepts>>

vars == <<senderVars, rotatorVars, downlinkVars, running>>

Init == Up!UplinkInit /\ Rot!RotatorInit /\ Down!DownlinkInit

Uplink ==
  /\ \E t \in Up!Threads :
       /\ t \in Movers => rpc[t] = "idle"
       /\ t = "tcp" => accepting = Down!NoHost
       /\ Up!UplinkStep(t)
  /\ UNCHANGED <<rotatorVars, downlinkVars>>

Clock == Up!Tick /\ UNCHANGED <<rotatorVars, downlinkVars>>

Rotator ==
  /\ \E t \in Movers : upc[t] = "idle" /\ (Rot!Call(t) \/ Rot!RotatorStep(t))
  /\ UNCHANGED <<senderVars, downlinkVars, running>>

Accept ==
  /\ upc["tcp"] = "idle"
  /\ Down!Accept \/ Down!CopyAddress
  /\ UNCHANGED <<senderVars, rotatorVars>>

Downlink == Down!Downloading /\ UNCHANGED <<senderVars, rotatorVars>>

Host == Down!HostLeaves /\ UNCHANGED <<senderVars, rotatorVars>>

Next ==
  /\ running
  /\ Uplink \/ Clock \/ Rotator \/ Accept \/ Downlink \/ Host
  /\ uploads' + commands' + moves' + file' + accepts' <= MaxCalls

Spec == Init /\ [][Next]_vars

-----------------------------------------------------------------------------
(* The types of the parts.                                                   *)
TypeOK == Up!UplinkTypeOK /\ Rot!RotatorTypeOK /\ Down!DownlinkTypeOK

(* tcp_server sends what it received, in order and once, while the console sends  *)
(* files of the same name; and a whole upload whole, unless the console sets       *)
(* data_size meanwhile.                                                       *)
UploadsInOrder == Up!UploadsInOrder

(* What the console sends again is not older than the last upload that was     *)
(* saved when the command was given.                                         *)
RetransmitsLatest == Up!RetransmitsLatest

(* No way through the three uses of send_packet loses a buffer or frees it       *)
(* twice, but for those csp_sendto fails with.                               *)
BuffersAccounted == Up!BuffersAccounted

(* Unless a call failed, met another or asked for what the command cannot say,    *)
(* serial_set_az_el leaves the antenna within the threshold of where the latest    *)
(* call wanted it.                                                            *)
AntennaFollows == Rot!AntennaFollows

(* Calls that overlap or fail leave no serial port open, but for those whose        *)
(* interface could not be set.                                                *)
PortsClosed == Rot!PortsClosed

(* However connections fail, close and are renewed and tcp_server changes the   *)
(* address, no block of a file arrives twice or out of order.                 *)
DownlinkOnce == Down!DownlinkOnce

(* downlink_client has the descriptors of its connection, and those of the       *)
(* failed connections and files it never closes.                              *)
DescriptorsAccounted == Down!DescriptorsAccounted
=============================================================================
