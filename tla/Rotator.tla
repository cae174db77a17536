------------------------------- MODULE Rotator -------------------------------
(***************************************************************************)
(* The antenna rotator (serial_rotator.c).  serial_set_az_el moves the        *)
(* antenna unless it is within MIN_ANGLE_THRESHOLD of where it was last told   *)
(* to go.  The GUI thread and the console call it without a lock, so the        *)
(* remembered azimuth and elevation, two static variables, are read and        *)
(* written in steps of their own.                                            *)
(***************************************************************************)
EXTENDS Integers, FiniteSets

CONSTANTS
  Movers,      \* the threads that move the antenna
  Positions,   \* pairs of the azimuth and the elevation they ask for
  MaxMoves     \* a bound of the model: how many calls are made

VARIABLES
  rpc,         \* where each thread is in serial_set_az_el
  target,      \* the parameters azi and ele of its call
  azi_old,
  ele_old,
  antenna,     \* what the controller was last told, as <<azi, ele>>
  unended,     \* the controller has been sent a command without its end
  ports,       \* file descriptors that are open
  moves,       \* calls made
  last,        \* history: what the latest call asked for
  leaked,      \* history: ports that were opened and could not be set up
  undisturbed  \* history: no call has failed, overlapped another or asked for
               \* what the command cannot say

(* MIN_ANGLE_THRESHOLD *)
Threshold == 2

(* AZIMMUTH_ANGLE_OFFSET *)
Offset == 80

Abs(n) == IF n < 0 THEN -n ELSE n

RotatorInit ==
  /\ rpc = [t \in Movers |-> "idle"]
  /\ target = [t \in Movers |-> <<0, 0>>]
  /\ azi_old = -1 /\ ele_old = -1
  /\ antenna = <<0, 0>> /\ unended = FALSE
  /\ ports = 0 /\ leaked = 0
  /\ moves = 0
  /\ last = antenna
  /\ undisturbed = TRUE

Goto(t, label) == rpc' = [rpc EXCEPT ![t] = label]

(* The call of t returns, and its parameters are gone.                       *)
Return(t) == Goto(t, "idle") /\ target' = [target EXCEPT ![t] = <<0, 0>>]

Call(t) ==
  /\ rpc[t] = "idle" /\ moves < MaxMoves
  /\ \E p \in Positions : target' = [target EXCEPT ![t] = p]
  /\ last' = target'[t]
  /\ moves' = moves + 1
  /\ Goto(t, "check")
  /\ undisturbed' = (undisturbed /\ \A u \in Movers : rpc[u] = "idle")
  /\ UNCHANGED <<azi_old, ele_old, antenna, unended, ports, leaked>>

(* Nothing is remembered: -1, or a negative angle that was asked for.        *)
Forgotten == azi_old < 0 \/ ele_old < 0

Near(p) == Abs(p[1] - azi_old) < Threshold /\ Abs(p[2] - ele_old) < Threshold

(* Mutant: the position that is not moved to is remembered all the same.     *)
Check_Remembering(t) ==
  /\ rpc[t] = "check"
  /\ \/ ~Forgotten /\ Near(target[t]) /\ Return(t)
     \/ (Forgotten \/ ~Near(target[t])) /\ Goto(t, "azi") /\ UNCHANGED target
  /\ azi_old' = target[t][1] /\ ele_old' = target[t][2]
  /\ UNCHANGED <<antenna, unended, ports, leaked, moves, last, undisturbed>>

Check(t) ==
  /\ rpc[t] = "check"
  /\ \/ ~Forgotten /\ Near(target[t]) /\ Return(t)
     \/ (Forgotten \/ ~Near(target[t])) /\ Goto(t, "azi") /\ UNCHANGED target
  /\ UNCHANGED <<azi_old, ele_old, antenna, unended, ports, leaked, moves, last, undisturbed>>

RememberAzi(t) ==
  /\ rpc[t] = "azi"
  /\ azi_old' = target[t][1]
  /\ Goto(t, "ele")
  /\ UNCHANGED <<target, ele_old, antenna, unended, ports, leaked, moves, last, undisturbed>>

RememberEle(t) ==
  /\ rpc[t] = "ele"
  /\ ele_old' = target[t][2]
  /\ Goto(t, "open")
  /\ UNCHANGED <<target, azi_old, antenna, unended, ports, leaked, moves, last, undisturbed>>

Open(t) ==
  /\ rpc[t] = "open"
  /\ \/ Goto(t, "set") /\ ports' = ports + 1 /\ UNCHANGED <<target, undisturbed>>
     \/ Return(t) /\ undisturbed' = FALSE /\ UNCHANGED ports
  /\ UNCHANGED <<azi_old, ele_old, antenna, unended, leaked, moves, last>>

(* A port that cannot be set up is not closed.                               *)
SetInterface(t) ==
  /\ rpc[t] = "set"
  /\ \/ Goto(t, "write") /\ UNCHANGED <<target, undisturbed, leaked>>
     \/ Return(t) /\ undisturbed' = FALSE /\ leaked' = leaked + 1
  /\ UNCHANGED <<azi_old, ele_old, antenna, unended, ports, moves, last>>

(* "%03d" makes three characters of it, and they are digits.                   *)
Fits(n) == n \in -99 .. 999
Digits(n) == n \in 0 .. 999

(* The command for p.  Nine bytes of it are sent: the controller gets the end     *)
(* only if both numbers fit.  What it makes of a command that is not as it        *)
(* should be, or that follows one without an end, is open.                     *)
Command(p) ==
  LET said == ~unended /\ Digits(p[1] + Offset) /\ Digits(p[2]) IN
    /\ IF said THEN antenna' = p ELSE antenna' \in Positions \cup {antenna}
    /\ unended' = (~Fits(p[1] + Offset) \/ ~Fits(p[2]))
    /\ undisturbed' = (undisturbed /\ said)

WriteFails == undisturbed' = FALSE /\ UNCHANGED <<antenna, unended>>

(* Mutant: the port stays open when the write has failed.                    *)
Write_Open(t) ==
  /\ rpc[t] = "write"
  /\ Return(t)
  /\ \/ Command(target[t]) /\ ports' = ports - 1
     \/ WriteFails /\ UNCHANGED ports
  /\ UNCHANGED <<azi_old, ele_old, leaked, moves, last>>

(* The write, which may fail, and the close.                                 *)
Write(t) ==
  /\ rpc[t] = "write"
  /\ Return(t)
  /\ Command(target[t]) \/ WriteFails
  /\ ports' = ports - 1
  /\ UNCHANGED <<azi_old, ele_old, leaked, moves, last>>

RotatorStep(t) ==
  \/ Check(t) \/ RememberAzi(t) \/ RememberEle(t)
  \/ Open(t) \/ SetInterface(t) \/ Write(t)

-----------------------------------------------------------------------------
RotatorTypeOK ==
  /\ rpc \in [Movers -> {"idle", "check", "azi", "ele", "open", "set", "write"}]
  /\ target \in [Movers -> Int \X Int]
  /\ azi_old \in Int /\ ele_old \in Int
  /\ antenna \in Int \X Int
  /\ unended \in BOOLEAN
  /\ ports \in Nat /\ leaked \in Nat
  /\ moves \in 0 .. MaxMoves
  /\ last \in Int \X Int
  /\ undisturbed \in BOOLEAN

(* Unless a call failed, met another or asked for angles the command cannot say,  *)
(* the antenna ends up within the threshold of where the latest call wanted it:   *)
(* small steps do not add up to a larger error.                                *)
AntennaFollows ==
  undisturbed /\ (\A t \in Movers : rpc[t] = "idle") =>
    /\ Abs(antenna[1] - last[1]) < Threshold
    /\ Abs(antenna[2] - last[2]) < Threshold

(* However calls fail and run into each other, the serial ports that are open are  *)
(* those in use, and one for each set_interface that has failed.               *)
PortsClosed == ports = leaked + Cardinality({t \in Movers : rpc[t] \in {"set", "write"}})
=============================================================================
