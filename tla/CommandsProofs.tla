---------------------------- MODULE CommandsProofs -----------------------------
(***************************************************************************)
(* What TLAPS proves of Commands, part by part: the antenna rotator, the   *)
(* downlink client and the uplink.                                         *)
(***************************************************************************)
EXTENDS Commands, TLAPS, FiniteSetTheorems

------------------------------------------------------------------------------
(***************************************************************************)
(* Proofs about the antenna rotator, for all positions and any number of       *)
(* calls: the antenna is where the latest call wanted it (AntennaFollows),       *)
(* unless a call failed, met another or asked for what cannot be said.  That the  *)
(* ports are accounted for on every path (PortsClosed) is shown at the end.     *)
(*                                                                         *)
(* What makes AntennaFollows true is what is remembered between calls: nothing, *)
(* or what the controller was last told.  An undisturbed call has the statics   *)
(* to itself, and has put its own position there from RememberEle on.          *)
(***************************************************************************)

Steps == {"idle", "check", "azi", "ele", "open", "set", "write"}

(* What is remembered is that nothing is, or where the antenna is.            *)
Remembered ==
  \/ azi_old = -1 /\ ele_old = -1
  \/ azi_old = antenna[1] /\ ele_old = antenna[2]

AtLast ==
  /\ antenna[1] - last[1] < 2 /\ last[1] - antenna[1] < 2
  /\ antenna[2] - last[2] < 2 /\ last[2] - antenna[2] < 2

(* What holds of the call of t that is under way.                            *)
InCall(t) ==
  /\ target[t] = last
  /\ rpc[t] \in {"check", "azi"} => Remembered
  /\ rpc[t] \in {"ele", "open", "set", "write"} => azi_old = last[1]
  /\ rpc[t] \in {"open", "set", "write"} => ele_old = last[2]

Undisturbed ==
  /\ \A t, u \in Movers : rpc[t] # "idle" /\ rpc[u] # "idle" => t = u
  /\ \A t \in Movers : rpc[t] # "idle" => InCall(t)
  /\ (\A t \in Movers : rpc[t] = "idle") => Remembered /\ AtLast

(* The types the steps need.                                                 *)
RotatorTypes ==
  /\ rpc \in [Movers -> Steps]
  /\ target \in [Movers -> Int \X Int]
  /\ azi_old \in Int /\ ele_old \in Int
  /\ antenna \in Int \X Int
  /\ last \in Int \X Int
  /\ undisturbed \in BOOLEAN

RotatorInv == RotatorTypes /\ (undisturbed => Undisturbed)

-----------------------------------------------------------------------------
LEMMA RotatorInvInit == Init => RotatorInv
BY DEF Init, Rot!RotatorInit, RotatorInv, RotatorTypes, Undisturbed, Remembered, AtLast,
       InCall, Steps, Movers

LEMMA RotatorInvUnchanged == RotatorInv /\ UNCHANGED rotatorVars => RotatorInv'
BY DEF rotatorVars, RotatorInv, RotatorTypes, Undisturbed, Remembered, AtLast, InCall

LEMMA RotatorInvCall ==
  ASSUME RotatorInv, NEW t \in Movers, Rot!Call(t)
  PROVE  RotatorInv'
<1>1. PICK p \in Positions : target' = [target EXCEPT ![t] = p]
  BY DEF Rot!Call
<1>2. p \in Int \X Int
  BY <1>1, CommandsAssumption
<1>3. /\ last' = p /\ rpc[t] = "idle" /\ rpc' = [rpc EXCEPT ![t] = "check"]
      /\ undisturbed' = (undisturbed /\ \A u \in Movers : rpc[u] = "idle")
      /\ UNCHANGED <<azi_old, ele_old, antenna>>
  BY <1>1 DEF Rot!Call, Rot!Goto, RotatorInv, RotatorTypes
<1>4. RotatorTypes'
  BY <1>1, <1>2, <1>3 DEF RotatorInv, RotatorTypes, Steps
<1>5. ASSUME undisturbed'
      PROVE  Undisturbed'
  <2>1. Remembered /\ \A u \in Movers : rpc[u] = "idle"
    BY <1>3, <1>5 DEF RotatorInv, Undisturbed
  <2>2. rpc'[t] = "check" /\ \A u \in Movers : u # t => rpc'[u] = "idle"
    BY <1>3, <2>1 DEF RotatorInv, RotatorTypes
  <2>3. target'[t] = last' /\ Remembered'
    BY <1>1, <1>3, <2>1 DEF Remembered, RotatorInv, RotatorTypes
  <2>4. QED
    BY <2>2, <2>3 DEF Undisturbed, InCall
<1>6. QED
  BY <1>4, <1>5 DEF RotatorInv

(* What is the same in every step of a call that goes on.                    *)
LEMMA OneInCall ==
  ASSUME RotatorInv, undisturbed, NEW t \in Movers, rpc[t] # "idle"
  PROVE  InCall(t) /\ \A u \in Movers : u # t => rpc[u] = "idle"
BY DEF RotatorInv, Undisturbed

(* The call of t goes on, at label.                                          *)
LEMMA GoesOn ==
  ASSUME RotatorInv, NEW t \in Movers, NEW label \in Steps \ {"idle"},
         rpc[t] # "idle", rpc' = [rpc EXCEPT ![t] = label], UNCHANGED <<target, last>>,
         RotatorTypes',
         undisturbed' => undisturbed,
         undisturbed' => InCall(t)'
  PROVE  RotatorInv'
<1>1. rpc'[t] = label /\ label # "idle" /\ \A u \in Movers : u # t => rpc'[u] = rpc[u]
  BY DEF RotatorInv, RotatorTypes
<1>2. ASSUME undisturbed' PROVE Undisturbed'
  <2>1. \A u \in Movers : u # t => rpc'[u] = "idle"
    BY <1>1, <1>2, OneInCall
  <2>2. QED
    BY <1>1, <1>2, <2>1 DEF Undisturbed
<1>3. QED
  BY <1>2 DEF RotatorInv

(* The call of t returns.                                                    *)
LEMMA Returns ==
  ASSUME RotatorInv, NEW t \in Movers, rpc[t] # "idle", Rot!Return(t), last' = last,
         RotatorTypes',
         undisturbed' => undisturbed,
         undisturbed' => Remembered' /\ AtLast'
  PROVE  RotatorInv'
<1>1. rpc'[t] = "idle" /\ \A u \in Movers : u # t => rpc'[u] = rpc[u]
  BY DEF Rot!Return, Rot!Goto, RotatorInv, RotatorTypes
<1>2. ASSUME undisturbed' PROVE Undisturbed'
  <2>1. \A u \in Movers : rpc'[u] = "idle"
    BY <1>1, <1>2, OneInCall
  <2>2. QED
    BY <1>2, <2>1 DEF Undisturbed
<1>3. QED
  BY <1>2 DEF RotatorInv

LEMMA ReturnTypes ==
  ASSUME RotatorTypes, NEW t \in Movers, Rot!Return(t)
  PROVE  rpc' \in [Movers -> Steps] /\ target' \in [Movers -> Int \X Int]
BY DEF RotatorTypes, Rot!Return, Rot!Goto, Steps

LEMMA RotatorInvCheck ==
  ASSUME RotatorInv, NEW t \in Movers, Rot!Check(t)
  PROVE  RotatorInv'
<1>1. rpc[t] = "check" /\ UNCHANGED <<azi_old, ele_old, antenna, last, undisturbed>>
  BY DEF Rot!Check
<1>2. CASE ~Rot!Forgotten /\ Rot!Near(target[t]) /\ Rot!Return(t)
  <2>1. RotatorTypes'
    BY <1>1, <1>2, ReturnTypes DEF RotatorInv, RotatorTypes
  <2>2. ASSUME undisturbed PROVE Remembered /\ AtLast
    <3>1. InCall(t)
      BY <1>1, <2>2, OneInCall
    <3>2. Remembered /\ target[t] = last
      BY <1>1, <3>1 DEF InCall
    <3>3. azi_old = antenna[1] /\ ele_old = antenna[2]
      BY <1>2, <3>2 DEF Remembered, Rot!Forgotten
    <3>4. /\ antenna[1] \in Int /\ antenna[2] \in Int
          /\ last[1] \in Int /\ last[2] \in Int
      BY DEF RotatorInv, RotatorTypes
    <3>5. AtLast
      BY <1>2, <3>2, <3>3, <3>4 DEF Rot!Near, Rot!Abs, Rot!Threshold, AtLast
    <3>6. QED
      BY <3>2, <3>5
  <2>3. undisturbed' => Remembered' /\ AtLast'
    BY <1>1, <2>2 DEF Remembered, AtLast
  <2>4. QED
    BY <1>1, <1>2, <2>1, <2>3, Returns
<1>3. CASE Rot!Goto(t, "azi") /\ UNCHANGED target
  <2>1. RotatorTypes'
    BY <1>1, <1>3 DEF RotatorInv, RotatorTypes, Rot!Goto, Steps
  <2>2. undisturbed' => InCall(t)'
    <3>1. rpc'[t] = "azi"
      BY <1>3 DEF RotatorInv, RotatorTypes, Rot!Goto
    <3>2. QED
      BY <1>1, <1>3, <3>1, OneInCall DEF InCall, Remembered
  <2>3. QED
    BY <1>1, <1>3, <2>1, <2>2, GoesOn DEF Rot!Goto, Steps
<1>4. QED
  BY <1>2, <1>3 DEF Rot!Check

LEMMA RotatorInvRememberAzi ==
  ASSUME RotatorInv, NEW t \in Movers, Rot!RememberAzi(t)
  PROVE  RotatorInv'
<1>1. /\ rpc[t] = "azi" /\ azi_old' = target[t][1] /\ rpc' = [rpc EXCEPT ![t] = "ele"]
      /\ UNCHANGED <<target, ele_old, antenna, last, undisturbed>>
  BY DEF Rot!RememberAzi, Rot!Goto
<1>2. RotatorTypes' /\ rpc'[t] = "ele"
  BY <1>1 DEF RotatorInv, RotatorTypes, Steps
<1>3. undisturbed' => InCall(t)'
  BY <1>1, <1>2, OneInCall DEF InCall
<1>4. QED
  BY <1>1, <1>2, <1>3, GoesOn DEF Steps

LEMMA RotatorInvRememberEle ==
  ASSUME RotatorInv, NEW t \in Movers, Rot!RememberEle(t)
  PROVE  RotatorInv'
<1>1. /\ rpc[t] = "ele" /\ ele_old' = target[t][2] /\ rpc' = [rpc EXCEPT ![t] = "open"]
      /\ UNCHANGED <<target, azi_old, antenna, last, undisturbed>>
  BY DEF Rot!RememberEle, Rot!Goto
<1>2. RotatorTypes' /\ rpc'[t] = "open"
  BY <1>1 DEF RotatorInv, RotatorTypes, Steps
<1>3. undisturbed' => InCall(t)'
  BY <1>1, <1>2, OneInCall DEF InCall
<1>4. QED
  BY <1>1, <1>2, <1>3, GoesOn DEF Steps

LEMMA RotatorInvOpen ==
  ASSUME RotatorInv, NEW t \in Movers, Rot!Open(t)
  PROVE  RotatorInv'
<1>1. rpc[t] = "open" /\ UNCHANGED <<azi_old, ele_old, antenna, last>>
  BY DEF Rot!Open
<1>2. CASE Rot!Goto(t, "set") /\ UNCHANGED <<target, undisturbed>>
  <2>1. RotatorTypes' /\ rpc'[t] = "set"
    BY <1>1, <1>2 DEF RotatorInv, RotatorTypes, Rot!Goto, Steps
  <2>2. undisturbed' => InCall(t)'
    BY <1>1, <1>2, <2>1, OneInCall DEF InCall
  <2>3. QED
    BY <1>1, <1>2, <2>1, <2>2, GoesOn DEF Rot!Goto, Steps
<1>3. CASE Rot!Return(t) /\ undisturbed' = FALSE
  <2>1. RotatorTypes'
    BY <1>1, <1>3, ReturnTypes DEF RotatorInv, RotatorTypes
  <2>2. QED
    BY <1>1, <1>3, <2>1, Returns
<1>4. QED
  BY <1>2, <1>3 DEF Rot!Open

LEMMA RotatorInvSetInterface ==
  ASSUME RotatorInv, NEW t \in Movers, Rot!SetInterface(t)
  PROVE  RotatorInv'
<1>1. rpc[t] = "set" /\ UNCHANGED <<azi_old, ele_old, antenna, last>>
  BY DEF Rot!SetInterface
<1>2. CASE Rot!Goto(t, "write") /\ UNCHANGED <<target, undisturbed>>
  <2>1. RotatorTypes' /\ rpc'[t] = "write"
    BY <1>1, <1>2 DEF RotatorInv, RotatorTypes, Rot!Goto, Steps
  <2>2. undisturbed' => InCall(t)'
    BY <1>1, <1>2, <2>1, OneInCall DEF InCall
  <2>3. QED
    BY <1>1, <1>2, <2>1, <2>2, GoesOn DEF Rot!Goto, Steps
<1>3. CASE Rot!Return(t) /\ undisturbed' = FALSE
  <2>1. RotatorTypes'
    BY <1>1, <1>3, ReturnTypes DEF RotatorInv, RotatorTypes
  <2>2. QED
    BY <1>1, <1>3, <2>1, Returns
<1>4. QED
  BY <1>2, <1>3 DEF Rot!SetInterface

LEMMA RotatorInvWrite ==
  ASSUME RotatorInv, NEW t \in Movers, Rot!Write(t)
  PROVE  RotatorInv'
<1>1. rpc[t] = "write" /\ Rot!Return(t) /\ UNCHANGED <<azi_old, ele_old, last>>
  BY DEF Rot!Write
<1>2. rpc' \in [Movers -> Steps] /\ target' \in [Movers -> Int \X Int]
  BY <1>1, ReturnTypes DEF RotatorInv
<1>3. CASE Rot!Command(target[t])
  <2>1. /\ antenna' = target[t] \/ antenna' \in Positions \cup {antenna}
        /\ undisturbed' => undisturbed /\ antenna' = target[t]
        /\ undisturbed' \in BOOLEAN
    BY <1>3 DEF Rot!Command
  <2>2. antenna' \in Int \X Int
    BY <2>1, CommandsAssumption DEF RotatorInv, RotatorTypes
  <2>3. RotatorTypes'
    BY <1>1, <1>2, <2>1, <2>2 DEF RotatorInv, RotatorTypes
  <2>4. ASSUME undisturbed'
        PROVE  antenna' = last /\ azi_old = last[1] /\ ele_old = last[2]
    BY <1>1, <2>1, <2>4, OneInCall DEF InCall
  <2>5. last[1] \in Int /\ last[2] \in Int
    BY DEF RotatorInv, RotatorTypes
  <2>6. undisturbed' => Remembered' /\ AtLast'
    BY <1>1, <2>4, <2>5 DEF Remembered, AtLast
  <2>7. QED
    BY <1>1, <2>1, <2>3, <2>6, Returns
<1>4. CASE Rot!WriteFails
  <2>1. undisturbed' = FALSE /\ UNCHANGED antenna
    BY <1>4 DEF Rot!WriteFails
  <2>2. RotatorTypes'
    BY <1>1, <1>2, <2>1 DEF RotatorInv, RotatorTypes
  <2>3. QED
    BY <1>1, <2>1, <2>2, Returns
<1>5. QED
  BY <1>3, <1>4 DEF Rot!Write

LEMMA RotatorInvNext == RotatorInv /\ [Next]_vars => RotatorInv'
<1> SUFFICES ASSUME RotatorInv, [Next]_vars PROVE RotatorInv'
  OBVIOUS
<1>1. CASE UNCHANGED rotatorVars
  BY <1>1, RotatorInvUnchanged
<1>2. CASE Rotator
  <2>1. PICK t \in Movers : Rot!Call(t) \/ Rot!RotatorStep(t)
    BY <1>2 DEF Rotator
  <2>2. QED
    BY <2>1, RotatorInvCall, RotatorInvCheck, RotatorInvRememberAzi, RotatorInvRememberEle,
       RotatorInvOpen, RotatorInvSetInterface, RotatorInvWrite DEF Rot!RotatorStep
<1>3. Rotator \/ UNCHANGED rotatorVars
  BY DEF Next, vars, Uplink, Clock, Accept, Downlink, Host
<1>4. QED
  BY <1>1, <1>2, <1>3

LEMMA RotatorInvCorrect == Spec => []RotatorInv
BY RotatorInvInit, RotatorInvNext, PTL DEF Spec

(* serial_set_az_el skips a movement below the threshold against what it          *)
(* remembers, not against the last request: however many small movements are      *)
(* skipped, the antenna is within the threshold of the latest request, for any    *)
(* positions.                                                                *)
THEOREM AntennaFollowsAlways == Spec => []AntennaFollows
<1>1. RotatorInv => AntennaFollows
  <2> SUFFICES ASSUME RotatorInv, undisturbed, \A t \in Movers : rpc[t] = "idle"
               PROVE  /\ Rot!Abs(antenna[1] - last[1]) < Rot!Threshold
                      /\ Rot!Abs(antenna[2] - last[2]) < Rot!Threshold
    BY DEF AntennaFollows, Rot!AntennaFollows
  <2>1. AtLast
    BY DEF RotatorInv, Undisturbed
  <2>2. /\ antenna[1] \in Int /\ antenna[2] \in Int
        /\ last[1] \in Int /\ last[2] \in Int
    BY DEF RotatorInv, RotatorTypes
  <2>3. QED
    BY <2>1, <2>2 DEF AtLast, Rot!Abs, Rot!Threshold
<1>2. QED
  BY <1>1, RotatorInvCorrect, PTL

------------------------------------------------------------------------------
(***************************************************************************)
(* Proofs about the downlink client, for all hosts, files of any number of       *)
(* blocks and any number of clients and files: no block arrives twice or out of  *)
(* order (DownlinkOnce), and descriptors are accounted for                     *)
(* (DescriptorsAccounted).                                                    *)
(*                                                                         *)
(* What has arrived anywhere is earlier than the block that is sent next: a      *)
(* file is begun once, and given up for good by the first failure.            *)
(***************************************************************************)

Pairs == Nat \X Nat

(* What has arrived by the time file f and block b are next.                 *)
Before(p, f, b) == p[1] < f \/ (p[1] = f /\ p[2] < b)

Sent(f, b) == \A h \in Hosts : \A k \in 1 .. Len(inbox[h]) : Before(inbox[h][k], f, b)

(* Between files, everything of the last one may have arrived.               *)
Behind ==
  /\ dpc = "idle" => Sent(file + 1, 0)
  /\ dpc \in {"connect", "open"} => Sent(file, 0)
  /\ dpc = "send" => Sent(file, block)

Later(p, q) == p[1] < q[1] \/ (p[1] = q[1] /\ p[2] < q[2])

Once ==
  /\ \A h \in Hosts : \A j, k \in 1 .. Len(inbox[h]) : j < k => Later(inbox[h][j], inbox[h][k])
  /\ \A g, h \in Hosts : g # h =>
       \A j \in 1 .. Len(inbox[g]), k \in 1 .. Len(inbox[h]) : inbox[g][j] # inbox[h][k]

(* Where in the code a connection is there.                                  *)
Connected ==
  /\ dpc = "connect" => ret
  /\ dpc \in {"open", "send"} => ~ret
  /\ ~ret => peer \in Hosts

DownlinkTypes ==
  /\ dpc \in {"idle", "connect", "open", "send"}
  /\ file \in Nat /\ block \in Nat
  /\ ret \in BOOLEAN
  /\ accepting \in Hosts \cup {Down!NoHost} /\ client_addr \in Hosts \cup {Down!NoHost}
  /\ descriptors \in Int /\ stray \in Int
  /\ inbox \in [Hosts -> Seq(Pairs)]

DownlinkInv ==
  /\ DownlinkTypes /\ Connected
  /\ Behind /\ Once
  /\ descriptors = stray + (IF ret THEN 0 ELSE 1)

-----------------------------------------------------------------------------
LEMMA DownlinkInvInit == Init => DownlinkInv
<1> SUFFICES ASSUME Init PROVE DownlinkInv
  OBVIOUS
<1>1. /\ dpc = "idle" /\ file = 0 /\ block = 1 /\ ret = TRUE
      /\ accepting = Down!NoHost /\ client_addr = Down!NoHost
      /\ descriptors = 0 /\ stray = 0
      /\ inbox = [h \in Hosts |-> <<>>]
  BY DEF Init, Down!DownlinkInit
<1>2. \A h \in Hosts : inbox[h] = <<>> /\ Len(inbox[h]) = 0
  BY <1>1
<1>3. DownlinkTypes /\ Connected
  BY <1>1 DEF DownlinkTypes, Connected
<1>4. Behind /\ Once
  BY <1>1, <1>2 DEF Behind, Sent, Once
<1>5. QED
  BY <1>1, <1>3, <1>4 DEF DownlinkInv

LEMMA DownlinkInvUnchanged == DownlinkInv /\ UNCHANGED downlinkVars => DownlinkInv'
<1> SUFFICES ASSUME DownlinkInv, UNCHANGED downlinkVars PROVE DownlinkInv'
  OBVIOUS
<1>1. UNCHANGED <<dpc, file, block, ret, peer, accepting, client_addr, descriptors, stray, inbox>>
  BY DEF downlinkVars
<1>2. DownlinkTypes' /\ Connected'
  BY <1>1 DEF DownlinkInv, DownlinkTypes, Connected
<1>3. Behind' /\ Once'
  BY <1>1 DEF DownlinkInv, Behind, Sent, Once
<1>4. QED
  BY <1>1, <1>2, <1>3 DEF DownlinkInv

(* What was sent before one place was sent before a later one.               *)
LEMMA SentLater ==
  ASSUME DownlinkTypes, NEW f \in Nat, NEW b \in Nat, NEW g \in Nat, NEW c \in Nat,
         Sent(f, b), f < g \/ (f = g /\ b <= c)
  PROVE  Sent(g, c)
<1> SUFFICES ASSUME NEW h \in Hosts, NEW k \in 1 .. Len(inbox[h])
             PROVE  Before(inbox[h][k], g, c)
  BY DEF Sent
<1>1. inbox[h][k] \in Pairs
  BY DEF DownlinkTypes
<1>2. inbox[h][k][1] \in Nat /\ inbox[h][k][2] \in Nat
  BY <1>1 DEF Pairs
<1>3. Before(inbox[h][k], f, b)
  BY DEF Sent
<1>4. QED
  BY <1>2, <1>3 DEF Before

(* A step that delivers nothing.                                             *)
LEMMA NothingArrives ==
  ASSUME DownlinkInv, inbox' = inbox, Behind', DownlinkTypes', Connected',
         descriptors' = stray' + (IF ret' THEN 0 ELSE 1)
  PROVE  DownlinkInv'
<1>1. Once'
  BY DEF DownlinkInv, Once
<1>2. QED
  BY <1>1 DEF DownlinkInv

LEMMA DownlinkInvCall ==
  ASSUME DownlinkInv, Down!Call
  PROVE  DownlinkInv'
<1>1. /\ dpc = "idle" /\ file' = file + 1 /\ dpc' = IF ret THEN "connect" ELSE "open"
      /\ UNCHANGED <<block, ret, peer, accepting, client_addr, descriptors, stray, inbox>>
  BY DEF Down!Call
<1>2. DownlinkTypes' /\ Connected'
  BY <1>1 DEF DownlinkInv, DownlinkTypes, Connected
<1>3. Sent(file + 1, 0)
  BY <1>1 DEF DownlinkInv, Behind
<1>4. Behind'
  BY <1>1, <1>3 DEF Behind, Sent
<1>5. QED
  BY <1>1, <1>2, <1>4, NothingArrives DEF DownlinkInv

(* A step that gives the present file up.                                    *)
LEMMA GivenUp ==
  ASSUME DownlinkInv, dpc # "idle", dpc' = "idle", UNCHANGED <<file, inbox>>
  PROVE  Behind'
<1>1. file \in Nat /\ block \in Nat
  BY DEF DownlinkInv, DownlinkTypes
<1>2. Sent(file, 0) \/ Sent(file, block)
  BY DEF DownlinkInv, Behind, DownlinkTypes
<1>3. Sent(file + 1, 0)
  BY <1>1, <1>2, SentLater DEF DownlinkInv
<1>4. QED
  BY <1>3 DEF Behind, Sent

LEMMA DownlinkInvConnectFails ==
  ASSUME DownlinkInv, Down!ConnectFails
  PROVE  DownlinkInv'
<1>1. /\ dpc = "connect" /\ dpc' = "idle"
      /\ descriptors' = descriptors + 1 /\ stray' = stray + 1
      /\ UNCHANGED <<file, block, ret, peer, accepting, client_addr, inbox>>
  BY DEF Down!ConnectFails
<1>2. DownlinkTypes' /\ Connected'
  BY <1>1 DEF DownlinkInv, DownlinkTypes, Connected
<1>3. descriptors' = stray' + (IF ret' THEN 0 ELSE 1)
  BY <1>1 DEF DownlinkInv, DownlinkTypes
<1>4. QED
  BY <1>1, <1>2, <1>3, GivenUp, NothingArrives

LEMMA DownlinkInvConnectSucceeds ==
  ASSUME DownlinkInv, Down!ConnectSucceeds
  PROVE  DownlinkInv'
<1>1. /\ dpc = "connect" /\ dpc' = "open" /\ ret' = FALSE
      /\ peer' \in Down!Readable
      /\ descriptors' = descriptors + 1
      /\ UNCHANGED <<file, block, stray, accepting, client_addr, inbox>>
  BY DEF Down!ConnectSucceeds
<1>2. DownlinkTypes'
  <2>1. ret' \in BOOLEAN /\ dpc' \in {"idle", "connect", "open", "send"}
    BY <1>1
  <2>2. descriptors' \in Int
    BY <1>1 DEF DownlinkInv, DownlinkTypes
  <2>3. QED
    BY <1>1, <2>1, <2>2 DEF DownlinkInv, DownlinkTypes
<1>3. peer' \in Hosts
  BY <1>1 DEF DownlinkInv, DownlinkTypes, Down!Readable
<1>4. Connected'
  BY <1>1, <1>3 DEF Connected
<1>5. descriptors' = stray' + (IF ret' THEN 0 ELSE 1)
  BY <1>1 DEF DownlinkInv, DownlinkTypes, Connected
<1>6. Behind'
  BY <1>1 DEF DownlinkInv, Behind, Sent
<1>7. QED
  BY <1>1, <1>2, <1>4, <1>5, <1>6, NothingArrives

LEMMA DownlinkInvOpenFile ==
  ASSUME DownlinkInv, Down!OpenFile
  PROVE  DownlinkInv'
<1>1. dpc = "open" /\ UNCHANGED <<file, ret, peer, accepting, client_addr, inbox>>
  BY DEF Down!OpenFile
<1>2. CASE dpc' = "send" /\ block' = 1 /\ descriptors' = descriptors + 1 /\ stray' = stray + 1
  <2>1. DownlinkTypes' /\ Connected'
    BY <1>1, <1>2 DEF DownlinkInv, DownlinkTypes, Connected
  <2>2. descriptors' = stray' + (IF ret' THEN 0 ELSE 1)
    BY <1>1, <1>2 DEF DownlinkInv, DownlinkTypes
  <2>3. Sent(file, 1)
    BY <1>1, SentLater DEF DownlinkInv, DownlinkTypes, Behind
  <2>4. Behind'
    BY <1>1, <1>2, <2>3 DEF Behind, Sent
  <2>5. QED
    BY <1>1, <2>1, <2>2, <2>4, NothingArrives
<1>3. CASE dpc' = "idle" /\ UNCHANGED <<block, descriptors, stray>>
  <2>1. DownlinkTypes' /\ Connected'
    BY <1>1, <1>3 DEF DownlinkInv, DownlinkTypes, Connected
  <2>2. descriptors' = stray' + (IF ret' THEN 0 ELSE 1)
    BY <1>1, <1>3 DEF DownlinkInv
  <2>3. QED
    BY <1>1, <1>3, <2>1, <2>2, GivenUp, NothingArrives
<1>4. QED
  BY <1>2, <1>3 DEF Down!OpenFile

(* The next place after a block.                                             *)
LEMMA AdvanceFacts ==
  ASSUME DownlinkInv, dpc = "send", Down!Advance
  PROVE  /\ block' \in Nat
         /\ \/ dpc' = "idle"
            \/ dpc' = "send" /\ block' = block + 1
BY CommandsAssumption DEF Down!Advance, DownlinkInv, DownlinkTypes

(* A block that is later than all that has arrived arrives at host p.        *)
LEMMA Arrives ==
  ASSUME DownlinkInv, dpc = "send", NEW p \in Hosts,
         inbox' = [inbox EXCEPT ![p] = Append(@, <<file, block>>)]
  PROVE  /\ inbox' \in [Hosts -> Seq(Pairs)]
         /\ Once'
         /\ \A h \in Hosts : \A k \in 1 .. Len(inbox'[h]) : Before(inbox'[h][k], file, block + 1)
<1>1. /\ file \in Nat /\ block \in Nat /\ inbox \in [Hosts -> Seq(Pairs)]
      /\ Sent(file, block) /\ Once
  BY DEF DownlinkInv, DownlinkTypes, Behind
<1>2. <<file, block>> \in Pairs
  BY <1>1 DEF Pairs
<1>3. inbox' \in [Hosts -> Seq(Pairs)]
  BY <1>1, <1>2
<1>4. \A h \in Hosts : h # p => inbox'[h] = inbox[h]
  BY <1>1
<1>5. /\ Len(inbox'[p]) = Len(inbox[p]) + 1
      /\ \A k \in 1 .. Len(inbox[p]) : inbox'[p][k] = inbox[p][k]
      /\ inbox'[p][Len(inbox[p]) + 1] = <<file, block>>
  BY <1>1, <1>2
<1>6. \A h \in Hosts : Len(inbox[h]) \in Nat /\
        \A k \in 1 .. Len(inbox[h]) : /\ inbox[h][k] \in Pairs
                                      /\ inbox[h][k][1] \in Nat /\ inbox[h][k][2] \in Nat
  <2>1. \A h \in Hosts : \A k \in 1 .. Len(inbox[h]) : inbox[h][k] \in Pairs
    BY <1>1
  <2>2. \A h \in Hosts : Len(inbox[h]) \in Nat
    BY <1>1
  <2>3. QED
    BY <2>1, <2>2 DEF Pairs
<1>7. \A h \in Hosts : \A k \in 1 .. Len(inbox'[h]) :
        \/ k \in 1 .. Len(inbox[h]) /\ inbox'[h][k] = inbox[h][k]
        \/ h = p /\ k = Len(inbox[p]) + 1 /\ inbox'[h][k] = <<file, block>>
  BY <1>4, <1>5, <1>6
<1>8. \A h \in Hosts : \A k \in 1 .. Len(inbox'[h]) : Before(inbox'[h][k], file, block + 1)
  BY <1>1, <1>6, <1>7 DEF Sent, Before
<1>9. ASSUME NEW h \in Hosts, NEW j \in 1 .. Len(inbox'[h]), NEW k \in 1 .. Len(inbox'[h]), j < k
      PROVE  Later(inbox'[h][j], inbox'[h][k])
  <2>1. j \in 1 .. Len(inbox[h]) /\ inbox'[h][j] = inbox[h][j]
    BY <1>5, <1>6, <1>7, <1>9
  <2>2. CASE k \in 1 .. Len(inbox[h]) /\ inbox'[h][k] = inbox[h][k]
    BY <1>1, <1>9, <2>1, <2>2 DEF Once
  <2>3. CASE inbox'[h][k] = <<file, block>>
    BY <1>1, <2>1, <2>3 DEF Sent, Before, Later
  <2>4. QED
    BY <1>7, <2>2, <2>3
<1>10. ASSUME NEW h \in Hosts, NEW k \in 1 .. Len(inbox[h])
       PROVE  inbox[h][k] # <<file, block>>
  <2>1. Before(inbox[h][k], file, block)
    BY <1>1 DEF Sent
  <2>2. QED
    BY <1>1, <2>1 DEF Before
<1>11. ASSUME NEW g \in Hosts, NEW h \in Hosts, g # h,
              NEW j \in 1 .. Len(inbox'[g]), NEW k \in 1 .. Len(inbox'[h])
       PROVE  inbox'[g][j] # inbox'[h][k]
  <2>1. CASE g = p
    <3>1. k \in 1 .. Len(inbox[h]) /\ inbox'[h][k] = inbox[h][k]
      BY <1>4, <1>11, <2>1
    <3>2. CASE j \in 1 .. Len(inbox[g]) /\ inbox'[g][j] = inbox[g][j]
      BY <1>1, <1>11, <3>1, <3>2 DEF Once
    <3>3. CASE inbox'[g][j] = <<file, block>>
      BY <1>10, <3>1, <3>3
    <3>4. QED
      BY <1>7, <3>2, <3>3
  <2>2. CASE g # p
    <3>1. j \in 1 .. Len(inbox[g]) /\ inbox'[g][j] = inbox[g][j]
      BY <1>4, <1>11, <2>2
    <3>2. CASE k \in 1 .. Len(inbox[h]) /\ inbox'[h][k] = inbox[h][k]
      BY <1>1, <1>11, <3>1, <3>2 DEF Once
    <3>3. CASE inbox'[h][k] = <<file, block>>
      BY <1>10, <3>1, <3>3
    <3>4. QED
      BY <1>7, <3>2, <3>3
  <2>3. QED
    BY <2>1, <2>2
<1>12. Once'
  BY <1>9, <1>11 DEF Once
<1>13. QED
  BY <1>3, <1>8, <1>12

LEMMA DownlinkInvSendBlock ==
  ASSUME DownlinkInv, Down!SendBlock
  PROVE  DownlinkInv'
<1>1. /\ dpc = "send" /\ Down!Advance
      /\ UNCHANGED <<file, ret, peer, accepting, client_addr, descriptors, stray>>
  BY DEF Down!SendBlock
<1>2. block' \in Nat /\ (dpc' = "idle" \/ (dpc' = "send" /\ block' = block + 1))
  BY <1>1, AdvanceFacts
<1>3. Connected'
  BY <1>1, <1>2 DEF DownlinkInv, Connected
<1>4. file \in Nat /\ block \in Nat
  BY DEF DownlinkInv, DownlinkTypes
<1>5. CASE inbox' = [inbox EXCEPT ![peer] = Append(@, <<file, block>>)]
  <2>1. peer \in Hosts
    BY <1>1 DEF DownlinkInv, Connected
  <2>2. /\ inbox' \in [Hosts -> Seq(Pairs)]
        /\ Once'
        /\ \A h \in Hosts : \A k \in 1 .. Len(inbox'[h]) : Before(inbox'[h][k], file, block + 1)
    BY <1>1, <1>5, <2>1, Arrives
  <2>3. DownlinkTypes'
    BY <1>1, <1>2, <2>2 DEF DownlinkInv, DownlinkTypes
  <2>4. CASE dpc' = "send" /\ block' = block + 1
    <3>1. Behind'
      BY <1>1, <2>2, <2>4 DEF Behind, Sent
    <3>2. QED
      BY <1>1, <1>3, <2>2, <2>3, <3>1 DEF DownlinkInv
  <2>5. CASE dpc' = "idle"
    <3>1. ASSUME NEW h \in Hosts, NEW k \in 1 .. Len(inbox'[h])
          PROVE  Before(inbox'[h][k], file + 1, 0)
      <4>1. inbox'[h][k] \in Pairs
        BY <2>2
      <4>2. inbox'[h][k][1] \in Nat
        BY <4>1 DEF Pairs
      <4>3. Before(inbox'[h][k], file, block + 1)
        BY <2>2
      <4>4. QED
        BY <1>4, <4>2, <4>3 DEF Before
    <3>2. Behind'
      BY <1>1, <2>5, <3>1 DEF Behind, Sent
    <3>3. QED
      BY <1>1, <1>3, <2>2, <2>3, <3>2 DEF DownlinkInv
  <2>6. QED
    BY <1>2, <2>4, <2>5
<1>6. CASE inbox' = inbox
  <2>1. DownlinkTypes'
    BY <1>1, <1>2, <1>6 DEF DownlinkInv, DownlinkTypes
  <2>2. Sent(file, block)
    BY <1>1 DEF DownlinkInv, Behind
  <2>3. Sent(file, block + 1) /\ Sent(file + 1, 0)
    BY <1>4, <2>2, SentLater DEF DownlinkInv
  <2>4. Behind'
    BY <1>1, <1>2, <1>6, <2>3 DEF Behind, Sent
  <2>5. QED
    BY <1>1, <1>3, <1>6, <2>1, <2>4, NothingArrives DEF DownlinkInv
<1>7. QED
  BY <1>5, <1>6 DEF Down!SendBlock

LEMMA DownlinkInvSendFails ==
  ASSUME DownlinkInv, Down!SendFails
  PROVE  DownlinkInv'
<1>1. /\ dpc = "send" /\ dpc' = "idle" /\ ret' = TRUE /\ descriptors' = descriptors - 1
      /\ UNCHANGED <<file, block, peer, accepting, client_addr, stray, inbox>>
  BY DEF Down!SendFails
<1>2. DownlinkTypes' /\ Connected'
  BY <1>1 DEF DownlinkInv, DownlinkTypes, Connected
<1>3. descriptors' = stray' + (IF ret' THEN 0 ELSE 1)
  BY <1>1 DEF DownlinkInv, DownlinkTypes, Connected
<1>4. QED
  BY <1>1, <1>2, <1>3, GivenUp, NothingArrives

(* tcp_server accepts a client: the connection there is does not change.     *)
LEMMA DownlinkInvAccept ==
  ASSUME DownlinkInv, Down!Accept \/ Down!CopyAddress
  PROVE  DownlinkInv'
<1>1. UNCHANGED <<dpc, file, block, ret, peer, descriptors, stray, inbox>>
  BY DEF Down!Accept, Down!CopyAddress
<1>2. accepting' \in Hosts \cup {Down!NoHost} /\ client_addr' \in Hosts \cup {Down!NoHost}
  BY DEF Down!Accept, Down!CopyAddress, DownlinkInv, DownlinkTypes
<1>3. DownlinkTypes' /\ Connected' /\ Behind'
  BY <1>1, <1>2 DEF DownlinkInv, DownlinkTypes, Connected, Behind, Sent
<1>4. QED
  BY <1>1, <1>3, NothingArrives DEF DownlinkInv

(* send raises SIGPIPE, or the host goes.                                    *)
LEMMA DownlinkInvOther ==
  ASSUME DownlinkInv, Down!SendKills \/ Down!HostLeaves
  PROVE  DownlinkInv'
<1>1. UNCHANGED <<dpc, file, block, ret, peer, accepting, client_addr, descriptors, stray, inbox>>
  BY DEF Down!SendKills, Down!HostLeaves
<1>2. DownlinkTypes' /\ Connected' /\ Behind'
  BY <1>1 DEF DownlinkInv, DownlinkTypes, Connected, Behind, Sent
<1>3. QED
  BY <1>1, <1>2, NothingArrives DEF DownlinkInv

LEMMA DownlinkInvNext == DownlinkInv /\ [Next]_vars => DownlinkInv'
<1> SUFFICES ASSUME DownlinkInv, [Next]_vars PROVE DownlinkInv'
  OBVIOUS
<1>1. CASE UNCHANGED downlinkVars
  BY <1>1, DownlinkInvUnchanged
<1>2. CASE Accept
  BY <1>2, DownlinkInvAccept DEF Accept
<1>3. CASE Downlink
  BY <1>3, DownlinkInvCall, DownlinkInvConnectFails, DownlinkInvConnectSucceeds,
     DownlinkInvOpenFile, DownlinkInvSendBlock, DownlinkInvSendFails, DownlinkInvOther
  DEF Downlink, Down!Downloading
<1>4. CASE Host
  BY <1>4, DownlinkInvOther DEF Host
<1>5. Accept \/ Downlink \/ Host \/ UNCHANGED downlinkVars
  BY DEF Next, vars, Uplink, Clock, Rotator
<1>6. QED
  BY <1>1, <1>2, <1>3, <1>4, <1>5

LEMMA DownlinkInvCorrect == Spec => []DownlinkInv
BY DownlinkInvInit, DownlinkInvNext, PTL DEF Spec

(* downlink_client gives a file up when a connection fails and never begins one     *)
(* again, so that no host gets a block twice or out of order, and no two hosts get  *)
(* the same one, for any hosts, files and changes of client_addr.              *)
THEOREM DownlinkOnceAlways == Spec => []DownlinkOnce
<1>1. DownlinkInv => DownlinkOnce
  BY DEF DownlinkInv, Once, Later, DownlinkOnce, Down!DownlinkOnce, Down!Earlier
<1>2. QED
  BY <1>1, DownlinkInvCorrect, PTL

(* downlink_client has one socket while it is connected and none otherwise, but    *)
(* for the sockets of failed connections and the files, which are never closed.  *)
THEOREM DescriptorsAlwaysAccounted == Spec => []DescriptorsAccounted
<1>1. DownlinkInv => DescriptorsAccounted
  BY DEF DownlinkInv, DescriptorsAccounted, Down!DescriptorsAccounted
<1>2. QED
  BY <1>1, DownlinkInvCorrect, PTL

------------------------------------------------------------------------------
(***************************************************************************)
(* Proofs about the uplink, for any uploads, any pool of buffers and any        *)
(* number of uploads, commands and seconds: buffers are accounted for           *)
(* (BuffersAccounted), and the console sends nothing older than the last upload   *)
(* saved when it was asked (RetransmitsLatest).                                *)
(*                                                                         *)
(* RetransmitsLatest rests on two facts about the files, which the clock makes    *)
(* true: no file is of a later second than fr_name's, and what the file of that   *)
(* second has is the last upload saved, unless it is being written.             *)
(***************************************************************************)

Labels == {"idle", "name", "open", "save", "get", "file", "header", "size", "data",
           "execute", "report", "refuse"}

Packets == [file : 0 .. Seconds, size : Int, of : Up!Contents, own : Int,
            ok : BOOLEAN, taken : BOOLEAN, crossed : BOOLEAN]

AirPackets == [by : Up!Threads, nr : Int, size : Int, length : 0 .. 255, own : Int,
               crossed : BOOLEAN, floor : Int]

(* The types the steps need.                                                 *)
UplinkTypes ==
  /\ upc \in [Up!Threads -> Labels]
  /\ upload \in Up!Contents
  /\ fr_name \in [whole : BOOLEAN, second : 0 .. Seconds]
  /\ files \in [0 .. Seconds -> Up!Contents]
  /\ clock \in 0 .. Seconds
  /\ data_size \in Int
  /\ packet \in [Up!Threads -> Packets]
  /\ free \in Int /\ lost \in Int
  /\ air \in Seq(AirPackets)
  /\ uploads \in Nat /\ latest \in Nat /\ floor \in Nat

Holders == {t \in Up!Threads : Up!Holds(t)}

(* A packet is not csp_sendto's before it is sent.                           *)
Own ==
  \A t \in Up!Threads : upc[t] \in {"header", "size", "data", "execute"} => ~packet[t].taken

Balance == free + lost + Cardinality(Holders) = Buffers

(* There is an upload in file s.                                             *)
Full(s) == files[s].size > 0

Newest ==
  /\ fr_name.second <= clock
  /\ \A s \in 0 .. Seconds : Full(s) => s <= fr_name.second
  /\ Full(fr_name.second) => files[fr_name.second].nr >= latest
  /\ floor <= latest /\ latest <= uploads
  /\ upc["tcp"] \in {"name", "open", "save"} => upload.nr = uploads

Again ==
  /\ upc["console"] = "header" /\ Full(packet["console"].file) =>
       files[packet["console"].file].nr >= floor
  /\ upc["console"] \in {"size", "data", "execute"} => packet["console"].of.nr >= floor
  /\ \A k \in 1 .. Len(air) : air[k].by = "console" => air[k].nr >= air[k].floor

UplinkInv == UplinkTypes /\ Own /\ Balance /\ Newest /\ Again

-----------------------------------------------------------------------------
LEMMA EmptyContents == Up!Absent \in Up!Contents /\ Up!Empty \in Up!Contents
<1>1. Up!Absent \in Up!Contents
  BY DEF Up!Absent, Up!Contents
<1>2. Up!Empty \in Up!Contents
  BY <1>1 DEF Up!Empty, Up!Contents
<1>3. QED
  BY <1>1, <1>2

LEMMA EmptySmall == Up!Empty.size = 0
BY DEF Up!Empty, Up!Absent

LEMMA NoPacketTyped == Up!NoPacket \in Packets
<1>1. 0 \in 0 .. Seconds
  BY CommandsAssumption
<1>2. QED
  BY <1>1, EmptyContents DEF Up!NoPacket, Packets

LEMMA UplinkTypesInit == Init => UplinkTypes
<1> SUFFICES ASSUME Init PROVE UplinkTypes
  OBVIOUS
<1>1. Up!UplinkInit
  BY DEF Init
<1>2. 0 \in 0 .. Seconds
  BY CommandsAssumption
<1>3. Up!Absent \in Up!Contents /\ Up!Empty \in Up!Contents
  BY EmptyContents
<1>4. Up!NoPacket \in Packets
  BY NoPacketTyped
<1>5. /\ upc \in [Up!Threads -> Labels] /\ packet \in [Up!Threads -> Packets]
      /\ files \in [0 .. Seconds -> Up!Contents] /\ upload \in Up!Contents
  BY <1>1, <1>3, <1>4 DEF Up!UplinkInit, Labels
<1>6. clock \in 0 .. Seconds /\ data_size \in Int /\ fr_name \in [whole : BOOLEAN, second : 0 .. Seconds]
  BY <1>1, <1>2 DEF Up!UplinkInit
<1>7. /\ free \in Int /\ lost \in Int /\ air \in Seq(AirPackets)
      /\ uploads \in Nat /\ latest \in Nat /\ floor \in Nat
  BY <1>1, CommandsAssumption DEF Up!UplinkInit
<1>8. QED
  BY <1>5, <1>6, <1>7 DEF UplinkTypes

LEMMA UplinkInvInit == Init => UplinkInv
<1> SUFFICES ASSUME Init PROVE UplinkInv
  OBVIOUS
<1>1. Up!UplinkInit
  BY DEF Init
<1>2. UplinkTypes
  BY UplinkTypesInit
<1>3. \A t \in Up!Threads : upc[t] = "idle"
  BY <1>1 DEF Up!UplinkInit
<1>4. Own
  BY <1>3 DEF Own
<1>5. Holders = {}
  BY <1>3 DEF Holders, Up!Holds
<1>6. Balance
  BY <1>1, <1>5, FS_EmptySet, CommandsAssumption DEF Balance, Up!UplinkInit
<1>7. \A s \in 0 .. Seconds : ~Full(s)
  BY <1>1 DEF Up!UplinkInit, Full, Up!Absent
<1>8. Newest
  BY <1>1, <1>2, <1>3, <1>7 DEF Newest, Up!UplinkInit, UplinkTypes, Up!Threads
<1>9. Again
  BY <1>1, <1>3 DEF Again, Up!UplinkInit, Up!Threads
<1>10. QED
  BY <1>2, <1>4, <1>6, <1>8, <1>9 DEF UplinkInv

LEMMA UplinkInvUnchanged == UplinkInv /\ UNCHANGED senderVars => UplinkInv'
<1> SUFFICES ASSUME UplinkInv, UNCHANGED senderVars PROVE UplinkInv'
  OBVIOUS
<1>1. UNCHANGED <<upc, upload, fr_name, files, clock, data_size, packet, free, lost, air,
                  uploads, commands, latest, floor>>
  BY DEF senderVars
<1>2. UplinkTypes' /\ Own'
  BY <1>1 DEF UplinkInv, UplinkTypes, Own
<1>3. Holders' = Holders
  BY <1>1 DEF Holders, Up!Holds
<1>4. Balance'
  BY <1>1, <1>3 DEF UplinkInv, Balance
<1>5. Newest' /\ Again'
  BY <1>1 DEF UplinkInv, Newest, Again, Full
<1>6. QED
  BY <1>2, <1>4, <1>5 DEF UplinkInv

-----------------------------------------------------------------------------
(* Buffers: a thread keeps what it has, takes one, or gives one back.        *)

LEMMA HoldersFinite == IsFiniteSet(Holders) /\ Cardinality(Holders) \in Nat
<1>1. IsFiniteSet(Up!Threads)
  <2>1. IsFiniteSet({"tcp"} \cup {"console"})
    BY FS_Singleton, FS_AddElement
  <2>2. IsFiniteSet(({"tcp"} \cup {"console"}) \cup {"gui"})
    BY <2>1, FS_AddElement
  <2>3. ({"tcp"} \cup {"console"}) \cup {"gui"} = Up!Threads
    BY DEF Up!Threads
  <2>4. QED
    BY <2>2, <2>3
<1>2. Holders \subseteq Up!Threads
  BY DEF Holders
<1>3. QED
  BY <1>1, <1>2, FS_Subset, FS_CardinalityType

LEMMA Keeps ==
  ASSUME Balance, UNCHANGED <<free, lost>>,
         \A t \in Up!Threads : Up!Holds(t)' = Up!Holds(t)
  PROVE  Balance'
<1>1. Holders' = Holders
  BY DEF Holders
<1>2. QED
  BY <1>1 DEF Balance

LEMMA Takes ==
  ASSUME Balance, free \in Int, lost \in Int, NEW t \in Up!Threads, ~Up!Holds(t), Up!Holds(t)',
         \A u \in Up!Threads : u # t => Up!Holds(u)' = Up!Holds(u),
         free' + lost' = free + lost - 1
  PROVE  Balance'
<1>1. Holders' = Holders \cup {t} /\ t \notin Holders
  BY DEF Holders
<1>2. Cardinality(Holders') = Cardinality(Holders) + 1
  BY <1>1, HoldersFinite, FS_AddElement
<1>3. free' + lost' + (Cardinality(Holders) + 1) = Buffers
  BY HoldersFinite DEF Balance
<1>4. QED
  BY <1>2, <1>3 DEF Balance

LEMMA GivesBack ==
  ASSUME Balance, free \in Int, lost \in Int, NEW t \in Up!Threads, Up!Holds(t), ~Up!Holds(t)',
         \A u \in Up!Threads : u # t => Up!Holds(u)' = Up!Holds(u),
         free' + lost' = free + lost + 1
  PROVE  Balance'
<1>1. Holders' = Holders \ {t} /\ t \in Holders
  BY DEF Holders
<1>2. Cardinality(Holders') = Cardinality(Holders) - 1
  BY <1>1, HoldersFinite, FS_RemoveElement
<1>3. free' + lost' + (Cardinality(Holders) - 1) = Buffers
  BY HoldersFinite DEF Balance
<1>4. QED
  BY <1>2, <1>3 DEF Balance

(* The files and the name, where a step leaves them alone.                   *)
LEMMA NewestKept ==
  ASSUME Newest, UNCHANGED <<fr_name, files, clock, uploads, latest, upload, floor>>,
         upc'["tcp"] \in {"name", "open", "save"} => upc["tcp"] \in {"name", "open", "save"}
  PROVE  Newest'
BY DEF Newest, Full

(* The console, where a step is another thread's.                            *)
LEMMA AgainKept ==
  ASSUME Again, UNCHANGED <<files, floor>>,
         upc'["console"] = upc["console"],
         packet'["console"].file = packet["console"].file,
         packet'["console"].of = packet["console"].of,
         \/ UNCHANGED air
         \/ \E p \in AirPackets : air \in Seq(AirPackets) /\ p.by # "console" /\ air' = Append(air, p)
  PROVE  Again'
<1>1. \A k \in 1 .. Len(air') : air'[k].by = "console" => air'[k].nr >= air'[k].floor
  <2>1. CASE UNCHANGED air
    BY <2>1 DEF Again
  <2>2. CASE \E p \in AirPackets : air \in Seq(AirPackets) /\ p.by # "console" /\ air' = Append(air, p)
    BY <2>2 DEF Again
  <2>3. QED
    BY <2>1, <2>2
<1>2. QED
  BY <1>1 DEF Again, Full

-----------------------------------------------------------------------------
(* The steps.                                                                *)

LEMMA TickKeeps == ASSUME UplinkInv, Up!Tick PROVE UplinkInv'
<1> USE DEF Up!Tick
<1>1. UplinkTypes' /\ Own'
  BY CommandsAssumption DEF UplinkInv, UplinkTypes, Own
<1>2. Balance'
  BY Keeps DEF UplinkInv, Up!Holds
<1>3. Newest' /\ Again'
  BY CommandsAssumption DEF UplinkInv, UplinkTypes, Newest, Again, Full
<1>4. QED
  BY <1>1, <1>2, <1>3 DEF UplinkInv

LEMMA ReceiveKeeps == ASSUME UplinkInv, Up!Receive PROVE UplinkInv'
<1> USE DEF Up!Receive, Up!Goto
<1>1. upload' \in Up!Contents /\ upload'.nr = uploads + 1
  <2>1. PICK k \in Kinds : upload' = [nr |-> uploads + 1, size |-> k.size,
                                       length |-> k.length, local |-> k.local,
                                       valid |-> k.valid]
    OBVIOUS
  <2>2. k \in [size : Nat \ {0}, length : 0 .. 255, local : BOOLEAN, valid : BOOLEAN]
    BY CommandsAssumption
  <2>3. k.size \in Int /\ k.length \in 0 .. 255 /\ k.local \in BOOLEAN /\ k.valid \in BOOLEAN
    BY <2>2
  <2>4. uploads + 1 \in Nat
    BY DEF UplinkInv, UplinkTypes
  <2>5. QED
    BY <2>1, <2>3, <2>4, Zenon DEF Up!Contents
<1>2. upc' \in [Up!Threads -> Labels] /\ fr_name' \in [whole : BOOLEAN, second : 0 .. Seconds]
  BY DEF UplinkInv, UplinkTypes, Labels
<1>3. UplinkTypes'
  BY <1>1, <1>2 DEF UplinkInv, UplinkTypes
<1>4. Own'
  BY DEF UplinkInv, UplinkTypes, Own
<1>5. Balance'
  BY Keeps DEF UplinkInv, UplinkTypes, Up!Holds
<1>6. fr_name'.second = fr_name.second
  BY DEF UplinkInv, UplinkTypes
<1>7. Newest'
  BY <1>1, <1>6 DEF UplinkInv, UplinkTypes, Newest, Full
<1>8. Again'
  BY AgainKept DEF UplinkInv, UplinkTypes, Up!Threads
<1>9. QED
  BY <1>3, <1>4, <1>5, <1>7, <1>8 DEF UplinkInv

LEMMA NameKeeps == ASSUME UplinkInv, Up!Name PROVE UplinkInv'
<1> USE DEF Up!Name, Up!Goto
<1>1. upc' \in [Up!Threads -> Labels] /\ fr_name' \in [whole : BOOLEAN, second : 0 .. Seconds]
  BY DEF UplinkInv, UplinkTypes, Labels
<1>2. UplinkTypes'
  BY <1>1 DEF UplinkInv, UplinkTypes
<1>3. Own'
  BY DEF UplinkInv, UplinkTypes, Own
<1>4. Balance'
  BY Keeps DEF UplinkInv, UplinkTypes, Up!Holds
<1>5. Full(clock) => clock = fr_name.second
  BY DEF UplinkInv, UplinkTypes, Newest
<1>6. Newest'
  BY <1>5 DEF UplinkInv, UplinkTypes, Newest, Full
<1>7. Again'
  BY AgainKept DEF UplinkInv, UplinkTypes, Up!Threads
<1>8. QED
  BY <1>2, <1>3, <1>4, <1>6, <1>7 DEF UplinkInv

LEMMA OpenSavedKeeps == ASSUME UplinkInv, Up!OpenSaved PROVE UplinkInv'
<1> USE DEF Up!OpenSaved, Up!Goto
<1>1. upc' \in [Up!Threads -> Labels]
  BY DEF UplinkInv, UplinkTypes, Labels
<1>2. Up!Empty \in Up!Contents
  BY EmptyContents
<1>3. files' \in [0 .. Seconds -> Up!Contents]
  BY <1>2 DEF UplinkInv, UplinkTypes
<1>4. UplinkTypes'
  BY <1>1, <1>3 DEF UplinkInv, UplinkTypes
<1>5. Own'
  BY DEF UplinkInv, UplinkTypes, Own
<1>6. Balance'
  BY Keeps DEF UplinkInv, UplinkTypes, Up!Holds
<1>7. \A s \in 0 .. Seconds : (Full(s))' => Full(s) /\ files'[s] = files[s]
  <2>1. SUFFICES ASSUME NEW s \in 0 .. Seconds, (Full(s))'
                 PROVE  Full(s) /\ files'[s] = files[s]
    OBVIOUS
  <2>2. files'[s] = files[s] \/ files'[s] = Up!Empty
    BY DEF UplinkInv, UplinkTypes
  <2>3. files'[s].size > 0
    BY <2>1, EmptySmall DEF Full
  <2>4. QED
    BY <2>1, <2>2, <2>3, EmptySmall DEF Full
<1>8. Newest'
  BY <1>7 DEF UplinkInv, UplinkTypes, Newest
<1>9. Again'
  <2>1. packet["console"].file \in 0 .. Seconds
    BY DEF UplinkInv, UplinkTypes, Packets, Up!Threads
  <2>2. upc'["console"] = upc["console"]
    BY DEF UplinkInv, UplinkTypes, Up!Threads
  <2>3. QED
    BY <1>7, <2>1, <2>2 DEF UplinkInv, Again
<1>10. QED
  BY <1>4, <1>5, <1>6, <1>8, <1>9 DEF UplinkInv

LEMMA SaveKeeps == ASSUME UplinkInv, Up!Save PROVE UplinkInv'
<1> USE DEF Up!Save, Up!Goto
<1>1. upc' \in [Up!Threads -> Labels]
  BY DEF UplinkInv, UplinkTypes, Labels
<1>2. upload.nr = uploads /\ upload.nr \in Nat
  BY DEF UplinkInv, UplinkTypes, Newest, Up!Contents
<1>3. files' \in [0 .. Seconds -> Up!Contents]
  BY DEF UplinkInv, UplinkTypes
<1>4. UplinkTypes'
  BY <1>1, <1>2, <1>3 DEF UplinkInv, UplinkTypes
<1>5. Own'
  BY DEF UplinkInv, UplinkTypes, Own
<1>6. Balance'
  BY Keeps DEF UplinkInv, UplinkTypes, Up!Holds
<1>7. /\ files'[fr_name.second] = upload
      /\ \A s \in 0 .. Seconds : s # fr_name.second => files'[s] = files[s]
  BY DEF UplinkInv, UplinkTypes
<1>8. Newest'
  BY <1>2, <1>7 DEF UplinkInv, UplinkTypes, Newest, Full
<1>9. Again'
  <2>1. packet["console"].file \in 0 .. Seconds
    BY DEF UplinkInv, UplinkTypes, Packets, Up!Threads
  <2>2. upc'["console"] = upc["console"]
    BY DEF UplinkInv, UplinkTypes, Up!Threads
  <2>3. upload.nr >= floor
    BY <1>2 DEF UplinkInv, UplinkTypes, Newest
  <2>4. QED
    BY <1>7, <2>1, <2>2, <2>3 DEF UplinkInv, Again, Full
<1>10. QED
  BY <1>4, <1>5, <1>6, <1>8, <1>9 DEF UplinkInv

LEMMA RetransmitKeeps == ASSUME UplinkInv, Up!Retransmit PROVE UplinkInv'
<1> USE DEF Up!Retransmit, Up!Goto
<1>1. upc' \in [Up!Threads -> Labels]
  BY DEF UplinkInv, UplinkTypes, Labels
<1>2. UplinkTypes'
  BY <1>1 DEF UplinkInv, UplinkTypes
<1>3. Own'
  BY DEF UplinkInv, UplinkTypes, Own
<1>4. Balance'
  BY Keeps DEF UplinkInv, UplinkTypes, Up!Holds
<1>5. Newest'
  BY DEF UplinkInv, UplinkTypes, Newest, Full, Up!Threads
<1>6. upc'["console"] = "get"
  BY DEF UplinkInv, UplinkTypes, Up!Threads
<1>7. Again'
  BY <1>6 DEF UplinkInv, Again
<1>8. QED
  BY <1>2, <1>3, <1>4, <1>5, <1>7 DEF UplinkInv

LEMMA GetBufferKeeps ==
  ASSUME UplinkInv, NEW t \in Up!Threads, Up!GetBuffer(t) PROVE UplinkInv'
<1> USE DEF Up!GetBuffer, Up!Goto
<1>1. upc' \in [Up!Threads -> Labels] /\ free' \in Int
  BY DEF UplinkInv, UplinkTypes, Labels
<1>2. UplinkTypes'
  BY <1>1 DEF UplinkInv, UplinkTypes
<1>3. Own'
  BY DEF UplinkInv, UplinkTypes, Own
<1>4. Balance'
  <2>1. \A u \in Up!Threads : u # t => Up!Holds(u)' = Up!Holds(u)
    BY DEF UplinkInv, UplinkTypes, Up!Holds
  <2>2. CASE free > 0
    <3>1. ~Up!Holds(t) /\ Up!Holds(t)'
      BY <2>2 DEF UplinkInv, UplinkTypes, Up!Holds
    <3>2. free' + lost' = free + lost - 1
      BY <2>2 DEF UplinkInv, UplinkTypes
    <3>3. QED
      BY <2>1, <3>1, <3>2, Takes DEF UplinkInv, UplinkTypes
  <2>3. CASE free = 0 /\ upc' = [upc EXCEPT ![t] = "idle"]
    BY <2>3, Keeps DEF UplinkInv, UplinkTypes, Up!Holds
  <2>4. QED
    BY <2>2, <2>3 DEF UplinkInv, UplinkTypes
<1>5. Newest' /\ Again'
  BY NewestKept DEF UplinkInv, UplinkTypes, Again, Full, Up!Threads
<1>6. QED
  BY <1>2, <1>3, <1>4, <1>5 DEF UplinkInv

(* A refusal, wherever it is.                                                *)
LEMMA RefuseKeeps ==
  ASSUME UplinkInv, NEW t \in Up!Threads, upc[t] \in {"file", "header", "data", "refuse"}, Up!Refuse(t),
         UNCHANGED <<upload, fr_name, files, clock, data_size, lost, air, uploads, latest, floor>>
  PROVE  UplinkInv'
<1>1. /\ upc' = [upc EXCEPT ![t] = "idle"] /\ free' = free + 1
      /\ packet' = [packet EXCEPT ![t] = Up!NoPacket]
  BY DEF Up!Refuse, Up!Goto
<1>2. upc' \in [Up!Threads -> Labels] /\ free' \in Int
  BY <1>1 DEF UplinkInv, UplinkTypes, Labels
<1>3. packet' \in [Up!Threads -> Packets]
  BY <1>1, NoPacketTyped DEF UplinkInv, UplinkTypes
<1>4. UplinkTypes'
  BY <1>2, <1>3 DEF UplinkInv, UplinkTypes
<1>5. /\ upc'[t] = "idle"
      /\ \A u \in Up!Threads : u # t => packet'[u] = packet[u] /\ upc'[u] = upc[u]
  BY <1>1 DEF UplinkInv, UplinkTypes
<1>6. Own'
  BY <1>5 DEF UplinkInv, Own
<1>7. Balance'
  <2>1. \A u \in Up!Threads : u # t => Up!Holds(u)' = Up!Holds(u)
    BY <1>5 DEF Up!Holds
  <2>2. Up!Holds(t) /\ ~Up!Holds(t)'
    BY <1>5 DEF Up!Holds
  <2>3. free' + lost' = free + lost + 1
    BY <1>1 DEF UplinkInv, UplinkTypes
  <2>4. QED
    BY <2>1, <2>2, <2>3, GivesBack DEF UplinkInv, UplinkTypes
<1>8. Newest'
  BY <1>1, NewestKept DEF UplinkInv, UplinkTypes, Up!Threads
<1>9. Again'
  BY <1>5 DEF UplinkInv, Again, Full, Up!Threads
<1>10. QED
  BY <1>4, <1>6, <1>7, <1>8, <1>9 DEF UplinkInv

LEMMA OpenFileKeeps ==
  ASSUME UplinkInv, NEW t \in Up!Threads, Up!OpenFile(t) PROVE UplinkInv'
<1>1. upc[t] = "file" /\ UNCHANGED <<upload, fr_name, files, clock, data_size, lost, air,
                                     uploads, commands, latest, floor>>
  BY DEF Up!OpenFile
<1>2. CASE UNCHANGED <<upc, packet, free>>
  BY <1>1, <1>2, UplinkInvUnchanged DEF senderVars
<1>3. CASE Up!Refuse(t)
  BY <1>1, <1>3, RefuseKeeps
<1>4. CASE /\ packet' = [packet EXCEPT ![t] = [Up!NoPacket EXCEPT !.file = fr_name.second,
                                                    !.size = files[fr_name.second].size]]
           /\ upc' = [upc EXCEPT ![t] = "header"] /\ UNCHANGED free
  <2>1. upc' \in [Up!Threads -> Labels]
    BY <1>4 DEF UplinkInv, UplinkTypes, Labels
  <2>2. files[fr_name.second].size \in Int /\ fr_name.second \in 0 .. Seconds
    BY DEF UplinkInv, UplinkTypes, Up!Contents
  <2>3. Up!NoPacket \in Packets
    BY NoPacketTyped
  <2>4. [Up!NoPacket EXCEPT !.file = fr_name.second, !.size = files[fr_name.second].size] \in Packets
    BY <2>2, <2>3 DEF Packets
  <2>5. packet' \in [Up!Threads -> Packets]
    BY <1>4, <2>4 DEF UplinkInv, UplinkTypes
  <2>6. UplinkTypes'
    BY <1>1, <1>4, <2>1, <2>5 DEF UplinkInv, UplinkTypes
  <2>7. packet'[t].file = fr_name.second
    BY <1>4, <2>3 DEF UplinkInv, UplinkTypes, Packets
  <2>8. ~packet'[t].taken
    BY <1>4 DEF UplinkInv, UplinkTypes, Up!NoPacket
  <2>9. \A u \in Up!Threads : u # t => packet'[u] = packet[u] /\ upc'[u] = upc[u]
    BY <1>4 DEF UplinkInv, UplinkTypes
  <2>10. Own'
    BY <2>8, <2>9 DEF UplinkInv, Own
  <2>11. Balance'
    <3>1. Up!Holds(t) /\ Up!Holds(t)'
      BY <1>1, <1>4 DEF UplinkInv, UplinkTypes, Up!Holds
    <3>2. \A u \in Up!Threads : Up!Holds(u)' = Up!Holds(u)
      BY <2>9, <3>1 DEF Up!Holds
    <3>3. QED
      BY <1>1, <1>4, <3>2, Keeps DEF UplinkInv
  <2>12. Newest'
    BY <1>1, <1>4, NewestKept DEF UplinkInv, UplinkTypes, Up!Threads
  <2>13. Again'
    <3>1. CASE t = "console"
      <4>1. upc'["console"] = "header" /\ packet'["console"].file = fr_name.second
        BY <1>4, <2>7, <3>1 DEF UplinkInv, UplinkTypes
      <4>2. Full(fr_name.second) => files[fr_name.second].nr >= floor
        <5>1. files[fr_name.second].nr \in Nat /\ latest \in Nat /\ floor \in Nat
          BY <2>2 DEF UplinkInv, UplinkTypes, Up!Contents
        <5>2. QED
          BY <5>1 DEF UplinkInv, Newest
      <4>3. QED
        BY <1>1, <4>1, <4>2 DEF UplinkInv, Again, Full
    <3>2. CASE t # "console"
      BY <1>1, <2>9, <3>2, AgainKept DEF UplinkInv, Up!Threads
    <3>3. QED
      BY <3>1, <3>2
  <2>14. QED
    BY <2>6, <2>10, <2>11, <2>12, <2>13 DEF UplinkInv
<1>5. QED
  BY <1>2, <1>3, <1>4 DEF Up!OpenFile, Up!Goto, Up!NamedFile, Up!Named

LEMMA ReadHeaderKeeps ==
  ASSUME UplinkInv, NEW t \in Up!Threads, Up!ReadHeader(t) PROVE UplinkInv'
<1> DEFINE content == files[packet[t].file]
<1>1. upc[t] = "header" /\ UNCHANGED <<upload, fr_name, files, clock, data_size, lost, air,
                                       uploads, commands, latest, floor>>
  BY DEF Up!ReadHeader
<1>2. CASE Up!Refuse(t)
  BY <1>1, <1>2, RefuseKeeps
<1>3. CASE /\ content.size > 0
           /\ packet' = [packet EXCEPT ![t].of = content]
           /\ upc' = [upc EXCEPT ![t] = "size"] /\ UNCHANGED free
  <2>1. upc' \in [Up!Threads -> Labels]
    BY <1>3 DEF UplinkInv, UplinkTypes, Labels
  <2>2. packet[t] \in Packets /\ packet[t].file \in 0 .. Seconds
    BY DEF UplinkInv, UplinkTypes, Packets
  <2>3. content \in Up!Contents
    BY <2>2 DEF UplinkInv, UplinkTypes
  <2> HIDE DEF content
  <2>4. packet'[t] = [packet[t] EXCEPT !.of = content]
    BY <1>3 DEF UplinkInv, UplinkTypes
  <2>5. packet'[t] \in Packets
    BY <2>2, <2>3, <2>4, Zenon DEF Packets
  <2>6. \A u \in Up!Threads : u # t => packet'[u] = packet[u] /\ upc'[u] = upc[u]
    BY <1>3 DEF UplinkInv, UplinkTypes
  <2>7. packet' \in [Up!Threads -> Packets]
    BY <1>3, <2>5, <2>6 DEF UplinkInv, UplinkTypes
  <2>8. UplinkTypes'
    BY <1>1, <1>3, <2>1, <2>7 DEF UplinkInv, UplinkTypes
  <2>9. packet'[t].taken = packet[t].taken /\ packet'[t].of = content
    BY <2>2, <2>4 DEF Packets
  <2>10. upc'[t] = "size"
    BY <1>3 DEF UplinkInv, UplinkTypes
  <2>11. Own'
    BY <1>1, <2>6, <2>9 DEF UplinkInv, Own
  <2>12. Balance'
    <3>1. Up!Holds(t) /\ Up!Holds(t)'
      BY <1>1, <2>10 DEF Up!Holds
    <3>2. \A u \in Up!Threads : Up!Holds(u)' = Up!Holds(u)
      BY <2>6, <3>1 DEF Up!Holds
    <3>3. QED
      BY <1>1, <1>3, <3>2, Keeps DEF UplinkInv
  <2>13. Newest'
    BY <1>1, <1>3, NewestKept DEF UplinkInv, UplinkTypes, Up!Threads
  <2>14. Again'
    <3>1. CASE t = "console"
      <4>1. content.nr >= floor
        BY <1>1, <1>3, <3>1 DEF UplinkInv, Again, Full, content
      <4>2. QED
        BY <1>1, <2>9, <2>10, <3>1, <4>1 DEF UplinkInv, Again
    <3>2. CASE t # "console"
      BY <1>1, <2>6, <3>2, AgainKept DEF UplinkInv, Up!Threads
    <3>3. QED
      BY <3>1, <3>2
  <2>15. QED
    BY <2>8, <2>11, <2>12, <2>13, <2>14 DEF UplinkInv
<1>4. QED
  BY <1>2, <1>3 DEF Up!ReadHeader, Up!Goto

(* The packets of a step that sets data_size, which marks those it crosses.    *)
LEMMA SetDataSizePackets ==
  ASSUME UplinkTypes, NEW t \in Up!Threads, Up!SetDataSize(t)
  PROVE  /\ packet' \in [Up!Threads -> Packets]
         /\ packet'[t] = packet[t]
         /\ \A u \in Up!Threads :
              /\ packet'[u].file = packet[u].file /\ packet'[u].size = packet[u].size
              /\ packet'[u].of = packet[u].of /\ packet'[u].own = packet[u].own
              /\ packet'[u].taken = packet[u].taken
              /\ packet'[u].crossed = (packet[u].crossed \/ (u # t /\ upc[u] = "data"))
<1>1. packet' = [u \in Up!Threads |->
        IF u # t /\ upc[u] = "data" THEN [packet[u] EXCEPT !.crossed = TRUE] ELSE packet[u]]
  BY DEF Up!SetDataSize
<1>2. ASSUME NEW u \in Up!Threads
      PROVE  /\ packet'[u] \in Packets
             /\ packet'[u].file = packet[u].file /\ packet'[u].size = packet[u].size
             /\ packet'[u].of = packet[u].of /\ packet'[u].own = packet[u].own
             /\ packet'[u].taken = packet[u].taken
             /\ packet'[u].crossed = (packet[u].crossed \/ (u # t /\ upc[u] = "data"))
  <2>1. packet[u] \in Packets
    BY DEF UplinkTypes
  <2>2. CASE u # t /\ upc[u] = "data"
    <3>1. packet'[u] = [packet[u] EXCEPT !.crossed = TRUE]
      BY <1>1, <2>2
    <3>2. packet'[u] \in Packets
      BY <2>1, <3>1, Zenon DEF Packets
    <3>3. QED
      BY <2>1, <2>2, <3>1, <3>2, Zenon DEF Packets
  <2>3. CASE ~(u # t /\ upc[u] = "data")
    <3>1. packet'[u] = packet[u]
      BY <1>1, <2>3
    <3>2. packet[u].crossed \in BOOLEAN
      BY <2>1 DEF Packets
    <3>3. QED
      BY <2>1, <2>3, <3>1, <3>2
  <2>4. QED
    BY <2>2, <2>3
<1>3. packet' \in [Up!Threads -> Packets]
  <2>1. \A u \in Up!Threads : packet'[u] \in Packets
    BY <1>2
  <2>2. packet' = [u \in Up!Threads |-> packet'[u]]
    BY <1>1
  <2>3. QED
    BY <2>1, <2>2
<1>4. packet'[t] = packet[t]
  BY <1>1
<1>5. QED
  BY <1>2, <1>3, <1>4

LEMMA SetDataSizeKeeps ==
  ASSUME UplinkInv, NEW t \in Up!Threads, Up!SetDataSize(t) PROVE UplinkInv'
<1>1. /\ upc[t] = "size" /\ upc' = [upc EXCEPT ![t] = "data"]
      /\ data_size' = Up!DataSize(packet[t].size)
      /\ UNCHANGED <<upload, fr_name, files, clock, free, lost, air,
                     uploads, commands, latest, floor>>
  BY DEF Up!SetDataSize, Up!Goto
<1>2. /\ packet' \in [Up!Threads -> Packets]
      /\ \A u \in Up!Threads :
           /\ packet'[u].file = packet[u].file /\ packet'[u].of = packet[u].of
           /\ packet'[u].taken = packet[u].taken
  BY SetDataSizePackets DEF UplinkInv
<1>3. upc' \in [Up!Threads -> Labels]
  BY <1>1 DEF UplinkInv, UplinkTypes, Labels
<1>4. packet[t] \in Packets
  BY DEF UplinkInv, UplinkTypes
<1>5. packet[t].size \in Int
  BY <1>4 DEF Packets
<1>6. data_size' \in Int
  BY <1>1, <1>5 DEF Up!DataSize, Up!HeaderSize
<1>7. UplinkTypes'
  BY <1>1, <1>2, <1>3, <1>6 DEF UplinkInv, UplinkTypes
<1>8. upc'[t] = "data" /\ \A u \in Up!Threads : u # t => upc'[u] = upc[u]
  BY <1>1 DEF UplinkInv, UplinkTypes
<1>9. Own'
  BY <1>1, <1>2, <1>8 DEF UplinkInv, Own
<1>10. Balance'
  <2>1. Up!Holds(t) /\ Up!Holds(t)'
    BY <1>1, <1>8 DEF Up!Holds
  <2>2. \A u \in Up!Threads : Up!Holds(u)' = Up!Holds(u)
    BY <1>2, <1>8, <2>1 DEF Up!Holds
  <2>3. QED
    BY <1>1, <2>2, Keeps DEF UplinkInv
<1>11. Newest'
  BY <1>1, NewestKept DEF UplinkInv, UplinkTypes, Up!Threads
<1>12. Again'
  <2>1. CASE t = "console"
    BY <1>1, <1>2, <1>8, <2>1 DEF UplinkInv, Again
  <2>2. CASE t # "console"
    BY <1>1, <1>2, <1>8, <2>2, AgainKept DEF UplinkInv, Up!Threads
  <2>3. QED
    BY <2>1, <2>2
<1>13. QED
  BY <1>7, <1>9, <1>10, <1>11, <1>12 DEF UplinkInv

LEMMA KeptTyped ==
  ASSUME UplinkTypes, NEW t \in Up!Threads, NEW n \in Int
  PROVE  Up!Kept(t, n) \in Int
<1>1. packet[t].of.size \in Int
  BY DEF UplinkTypes, Packets, Up!Contents
<1>2. QED
  BY <1>1 DEF Up!Kept, Up!Smaller, Up!HeaderSize

LEMMA ReadDataKeeps ==
  ASSUME UplinkInv, NEW t \in Up!Threads, Up!ReadData(t) PROVE UplinkInv'
<1>1. upc[t] = "data" /\ UNCHANGED <<upload, fr_name, files, clock, data_size, lost, air,
                                     uploads, commands, latest, floor>>
  BY DEF Up!ReadData
<1>2. CASE Up!Refuse(t)
  BY <1>1, <1>2, RefuseKeeps
<1>3. ASSUME NEW n \in {Up!DataSize(packet[t].size), data_size},
             packet' = [packet EXCEPT ![t].own = Up!Kept(t, n)],
             upc' = [upc EXCEPT ![t] = "execute"], UNCHANGED free
      PROVE  UplinkInv'
  <2> DEFINE own == Up!Kept(t, n)
  <2>1. upc' \in [Up!Threads -> Labels]
    BY <1>3 DEF UplinkInv, UplinkTypes, Labels
  <2>2. packet[t] \in Packets
    BY DEF UplinkInv, UplinkTypes
  <2>3. own \in Int
    <3>1. packet[t].size \in Int /\ data_size \in Int
      BY <2>2 DEF UplinkInv, UplinkTypes, Packets
    <3>2. n \in Int
      BY <1>3, <3>1 DEF Up!DataSize, Up!HeaderSize
    <3>3. QED
      BY <3>2, KeptTyped DEF UplinkInv
  <2> HIDE DEF own
  <2>4. packet'[t] = [packet[t] EXCEPT !.own = own]
    BY <1>3 DEF UplinkInv, UplinkTypes, own
  <2>5. packet'[t] \in Packets
    BY <2>2, <2>3, <2>4, Zenon DEF Packets
  <2>6. \A u \in Up!Threads : u # t => packet'[u] = packet[u] /\ upc'[u] = upc[u]
    BY <1>3 DEF UplinkInv, UplinkTypes
  <2>7. packet' \in [Up!Threads -> Packets]
    BY <1>3, <2>5, <2>6 DEF UplinkInv, UplinkTypes
  <2>8. UplinkTypes'
    BY <1>1, <1>3, <2>1, <2>7 DEF UplinkInv, UplinkTypes
  <2>9. packet'[t].taken = packet[t].taken /\ packet'[t].of = packet[t].of
    BY <2>2, <2>4 DEF Packets
  <2>10. upc'[t] = "execute"
    BY <1>3 DEF UplinkInv, UplinkTypes
  <2>11. Own'
    BY <1>1, <2>6, <2>9 DEF UplinkInv, Own
  <2>12. Balance'
    <3>1. Up!Holds(t) /\ Up!Holds(t)'
      BY <1>1, <2>10 DEF Up!Holds
    <3>2. \A u \in Up!Threads : Up!Holds(u)' = Up!Holds(u)
      BY <2>6, <3>1 DEF Up!Holds
    <3>3. QED
      BY <1>1, <1>3, <3>2, Keeps DEF UplinkInv
  <2>13. Newest'
    BY <1>1, <1>3, NewestKept DEF UplinkInv, UplinkTypes, Up!Threads
  <2>14. Again'
    <3>1. CASE t = "console"
      BY <1>1, <2>9, <2>10, <3>1 DEF UplinkInv, Again
    <3>2. CASE t # "console"
      BY <1>1, <2>6, <3>2, AgainKept DEF UplinkInv, Up!Threads
    <3>3. QED
      BY <3>1, <3>2
  <2>15. QED
    BY <2>8, <2>11, <2>12, <2>13, <2>14 DEF UplinkInv
<1>4. QED
  BY <1>2, <1>3 DEF Up!ReadData, Up!Goto

LEMMA SendToKeeps ==
  ASSUME UplinkInv, NEW t \in Up!Threads, Up!SendTo(t) PROVE UplinkInv'
<1> DEFINE p == [by |-> t, nr |-> packet[t].of.nr, size |-> packet[t].of.size,
                 length |-> packet[t].of.length, own |-> packet[t].own,
                 crossed |-> packet[t].crossed, floor |-> floor]
<1>1. /\ upc[t] = "execute" /\ upc' = [upc EXCEPT ![t] = "report"]
      /\ packet' = [packet EXCEPT ![t].taken = TRUE]
      /\ UNCHANGED <<upload, fr_name, files, clock, data_size, uploads, commands, latest, floor>>
      /\ \/ air' = Append(air, p) /\ free' = free + 1 /\ UNCHANGED lost
         \/ lost' = lost + 1 /\ UNCHANGED <<air, free>>
  BY DEF Up!SendTo, Up!Goto
<1>2. upc' \in [Up!Threads -> Labels]
  BY <1>1 DEF UplinkInv, UplinkTypes, Labels
<1>3. packet[t] \in Packets /\ packet[t].of \in Up!Contents /\ packet[t].own \in Int
      /\ packet[t].crossed \in BOOLEAN
  BY DEF UplinkInv, UplinkTypes, Packets
<1>4. p \in AirPackets /\ p.by = t /\ p.nr = packet[t].of.nr /\ p.floor = floor
  <2>1. /\ packet[t].of.nr \in Int /\ packet[t].of.size \in Int
        /\ packet[t].of.length \in 0 .. 255 /\ floor \in Int
    <3>1. floor \in Nat
      BY Zenon DEF UplinkInv, UplinkTypes
    <3>2. packet[t].of.nr \in Nat /\ packet[t].of.size \in Int /\ packet[t].of.length \in 0 .. 255
      BY <1>3 DEF Up!Contents
    <3>3. QED
      BY <3>1, <3>2
  <2>2. QED
    BY <1>3, <2>1 DEF AirPackets
<1> HIDE DEF p
<1>5. packet'[t] = [packet[t] EXCEPT !.taken = TRUE]
  BY <1>1 DEF UplinkInv, UplinkTypes
<1>6. packet'[t] \in Packets
  BY <1>3, <1>5, Zenon DEF Packets
<1>7. \A u \in Up!Threads : u # t => packet'[u] = packet[u] /\ upc'[u] = upc[u]
  BY <1>1 DEF UplinkInv, UplinkTypes
<1>8. packet' \in [Up!Threads -> Packets]
  <2>1. packet' = [packet EXCEPT ![t] = packet'[t]]
    BY <1>1, <1>5, Zenon DEF UplinkInv, UplinkTypes
  <2>2. QED
    BY <1>6, <2>1 DEF UplinkInv, UplinkTypes
<1>9. air' \in Seq(AirPackets) /\ free' \in Int /\ lost' \in Int
  <2>1. air \in Seq(AirPackets) /\ free \in Int /\ lost \in Int
    BY DEF UplinkInv, UplinkTypes
  <2>2. CASE air' = Append(air, p) /\ free' = free + 1 /\ UNCHANGED lost
    BY <1>4, <2>1, <2>2
  <2>3. CASE lost' = lost + 1 /\ UNCHANGED <<air, free>>
    BY <2>1, <2>3
  <2>4. QED
    BY <1>1, <2>2, <2>3
<1>10. UplinkTypes'
  BY <1>1, <1>2, <1>8, <1>9 DEF UplinkInv, UplinkTypes
<1>11. upc'[t] = "report" /\ packet'[t].taken
  BY <1>1, <1>3, <1>5 DEF UplinkInv, UplinkTypes, Packets
<1>12. Own'
  BY <1>7, <1>11 DEF UplinkInv, Own
<1>13. Balance'
  <2>1. Up!Holds(t) /\ ~Up!Holds(t)'
    BY <1>1, <1>11 DEF Up!Holds
  <2>2. \A u \in Up!Threads : u # t => Up!Holds(u)' = Up!Holds(u)
    BY <1>7 DEF Up!Holds
  <2>3. free' + lost' = free + lost + 1
    BY <1>1 DEF UplinkInv, UplinkTypes
  <2>4. QED
    BY <2>1, <2>2, <2>3, GivesBack DEF UplinkInv, UplinkTypes
<1>14. Newest'
  BY <1>1, NewestKept DEF UplinkInv, UplinkTypes, Up!Threads
<1>15. Again'
  <2>1. CASE t = "console"
    <3>1. p.nr >= p.floor
      BY <1>1, <1>4, <2>1 DEF UplinkInv, Again
    <3>2. \A k \in 1 .. Len(air') : air'[k].by = "console" => air'[k].nr >= air'[k].floor
      <4>1. CASE UNCHANGED air
        BY <4>1 DEF UplinkInv, Again
      <4>2. CASE air' = Append(air, p)
        BY <1>4, <3>1, <4>2 DEF UplinkInv, UplinkTypes, Again
      <4>3. QED
        BY <1>1, <4>1, <4>2
    <3>3. QED
      BY <1>11, <2>1, <3>2 DEF Again
  <2>2. CASE t # "console"
    BY <1>1, <1>4, <1>7, <2>2, AgainKept DEF UplinkInv, UplinkTypes, Up!Threads
  <2>3. QED
    BY <2>1, <2>2
<1>16. QED
  BY <1>10, <1>12, <1>13, <1>14, <1>15 DEF UplinkInv

LEMMA RunCommandKeeps ==
  ASSUME UplinkInv, NEW t \in Up!Threads, Up!RunCommand(t) PROVE UplinkInv'
<1>1. /\ upc[t] = "execute" /\ upc' = [upc EXCEPT ![t] = "report"]
      /\ packet' = [packet EXCEPT ![t].ok = packet[t].of.valid]
      /\ UNCHANGED <<upload, fr_name, files, clock, data_size, free, lost, air,
                     uploads, commands, latest, floor>>
  BY DEF Up!RunCommand, Up!Goto
<1>2. upc' \in [Up!Threads -> Labels]
  BY <1>1 DEF UplinkInv, UplinkTypes, Labels
<1>3. packet[t] \in Packets /\ packet[t].of.valid \in BOOLEAN
  BY DEF UplinkInv, UplinkTypes, Packets, Up!Contents
<1>4. packet'[t] = [packet[t] EXCEPT !.ok = packet[t].of.valid]
  BY <1>1 DEF UplinkInv, UplinkTypes
<1>5. packet'[t] \in Packets
  BY <1>3, <1>4, Zenon DEF Packets
<1>6. \A u \in Up!Threads : u # t => packet'[u] = packet[u] /\ upc'[u] = upc[u]
  BY <1>1 DEF UplinkInv, UplinkTypes
<1>7. packet' \in [Up!Threads -> Packets]
  BY <1>1, <1>5, <1>6 DEF UplinkInv, UplinkTypes
<1>8. UplinkTypes'
  BY <1>1, <1>2, <1>7 DEF UplinkInv, UplinkTypes
<1>9. upc'[t] = "report" /\ packet'[t].taken = packet[t].taken
  BY <1>1, <1>3, <1>4 DEF UplinkInv, UplinkTypes, Packets
<1>10. Own'
  BY <1>6, <1>9 DEF UplinkInv, Own
<1>11. Balance'
  <2>1. Up!Holds(t) /\ Up!Holds(t)'
    BY <1>1, <1>9 DEF UplinkInv, Own, Up!Holds
  <2>2. \A u \in Up!Threads : Up!Holds(u)' = Up!Holds(u)
    BY <1>6, <2>1 DEF Up!Holds
  <2>3. QED
    BY <1>1, <2>2, Keeps DEF UplinkInv
<1>12. Newest'
  BY <1>1, NewestKept DEF UplinkInv, UplinkTypes, Up!Threads
<1>13. Again'
  BY <1>1, <1>6, <1>9, AgainKept DEF UplinkInv, Again, Up!Threads
<1>14. QED
  BY <1>8, <1>10, <1>11, <1>12, <1>13 DEF UplinkInv

LEMMA ReportKeeps ==
  ASSUME UplinkInv, NEW t \in Up!Threads, Up!Report(t) PROVE UplinkInv'
<1>1. /\ upc[t] = "report" /\ upc' = [upc EXCEPT ![t] = "idle"]
      /\ free' = IF packet[t].taken THEN free ELSE free + 1
      /\ packet' = [packet EXCEPT ![t] = Up!NoPacket]
      /\ UNCHANGED <<upload, fr_name, files, clock, data_size, lost, air,
                     uploads, commands, latest, floor>>
  BY DEF Up!Report, Up!Goto
<1>2. upc' \in [Up!Threads -> Labels] /\ free' \in Int
  BY <1>1 DEF UplinkInv, UplinkTypes, Labels
<1>3. packet' \in [Up!Threads -> Packets]
  BY <1>1, NoPacketTyped DEF UplinkInv, UplinkTypes
<1>4. UplinkTypes'
  BY <1>1, <1>2, <1>3 DEF UplinkInv, UplinkTypes
<1>5. /\ upc'[t] = "idle"
      /\ \A u \in Up!Threads : u # t => packet'[u] = packet[u] /\ upc'[u] = upc[u]
  BY <1>1 DEF UplinkInv, UplinkTypes
<1>6. Own'
  BY <1>5 DEF UplinkInv, Own
<1>7. Balance'
  <2>1. \A u \in Up!Threads : u # t => Up!Holds(u)' = Up!Holds(u)
    BY <1>5 DEF Up!Holds
  <2>2. ~Up!Holds(t)'
    BY <1>5 DEF Up!Holds
  <2>3. CASE packet[t].taken
    <3>1. \A u \in Up!Threads : Up!Holds(u)' = Up!Holds(u)
      BY <1>1, <2>1, <2>2, <2>3 DEF Up!Holds
    <3>2. QED
      BY <1>1, <2>3, <3>1, Keeps DEF UplinkInv
  <2>4. CASE ~packet[t].taken
    <3>1. Up!Holds(t)
      BY <1>1, <2>4 DEF Up!Holds
    <3>2. free' + lost' = free + lost + 1
      BY <1>1, <2>4 DEF UplinkInv, UplinkTypes
    <3>3. QED
      BY <2>1, <2>2, <3>1, <3>2, GivesBack DEF UplinkInv, UplinkTypes
  <2>5. QED
    BY <2>3, <2>4
<1>8. Newest'
  BY <1>1, NewestKept DEF UplinkInv, UplinkTypes, Up!Threads
<1>9. Again'
  BY <1>1, <1>5, AgainKept DEF UplinkInv, Again, Up!Threads
<1>10. QED
  BY <1>4, <1>6, <1>7, <1>8, <1>9 DEF UplinkInv

LEMMA GuiSendKeeps == ASSUME UplinkInv, Up!GuiSend PROVE UplinkInv'
<1>1. /\ upc["gui"] = "idle"
      /\ UNCHANGED <<upload, fr_name, files, clock, data_size, packet, lost, air,
                     uploads, latest, floor>>
      /\ \/ free' = free - 1 /\ upc' = [upc EXCEPT !["gui"] = "refuse"]
         \/ UNCHANGED <<free, upc>>
  BY DEF Up!GuiSend, Up!Goto
<1>2. "gui" \in Up!Threads
  BY DEF Up!Threads
<1>3. upc' \in [Up!Threads -> Labels] /\ free' \in Int
  BY <1>1 DEF UplinkInv, UplinkTypes, Labels
<1>4. UplinkTypes'
  BY <1>1, <1>3 DEF UplinkInv, UplinkTypes
<1>5. Own'
  BY <1>1 DEF UplinkInv, UplinkTypes, Own
<1>6. Balance'
  <2>1. CASE UNCHANGED <<free, upc>>
    BY <1>1, <2>1, Keeps DEF UplinkInv, Up!Holds
  <2>2. CASE free' = free - 1 /\ upc' = [upc EXCEPT !["gui"] = "refuse"]
    <3>1. \A u \in Up!Threads : u # "gui" => Up!Holds(u)' = Up!Holds(u)
      BY <1>1, <2>2 DEF UplinkInv, UplinkTypes, Up!Holds
    <3>2. ~Up!Holds("gui") /\ Up!Holds("gui")'
      BY <1>1, <1>2, <2>2 DEF UplinkInv, UplinkTypes, Up!Holds
    <3>3. free' + lost' = free + lost - 1
      BY <1>1, <2>2 DEF UplinkInv, UplinkTypes
    <3>4. QED
      BY <1>2, <3>1, <3>2, <3>3, Takes DEF UplinkInv, UplinkTypes
  <2>3. QED
    BY <1>1, <2>1, <2>2
<1>7. upc'["tcp"] = upc["tcp"] /\ upc'["console"] = upc["console"]
  BY <1>1 DEF UplinkInv, UplinkTypes, Up!Threads
<1>8. Newest' /\ Again'
  BY <1>1, <1>7, NewestKept, AgainKept DEF UplinkInv
<1>9. QED
  BY <1>4, <1>5, <1>6, <1>8 DEF UplinkInv

LEMMA GuiRefuseKeeps == ASSUME UplinkInv, Up!GuiRefuse PROVE UplinkInv'
BY RefuseKeeps DEF Up!GuiRefuse, Up!Threads

-----------------------------------------------------------------------------
LEMMA UplinkInvNext == UplinkInv /\ [Next]_vars => UplinkInv'
<1> SUFFICES ASSUME UplinkInv, [Next]_vars PROVE UplinkInv'
  OBVIOUS
<1>1. CASE Uplink
  <2>1. PICK t \in Up!Threads : Up!UplinkStep(t)
    BY <1>1 DEF Uplink
  <2>2. CASE Up!Receive \/ Up!Name \/ Up!OpenSaved \/ Up!Save
    BY <2>2, ReceiveKeeps, NameKeeps, OpenSavedKeeps, SaveKeeps
  <2>3. CASE Up!Retransmit \/ Up!GuiSend \/ Up!GuiRefuse
    BY <2>3, RetransmitKeeps, GuiSendKeeps, GuiRefuseKeeps
  <2>4. CASE \/ Up!GetBuffer(t) \/ Up!OpenFile(t) \/ Up!ReadHeader(t)
             \/ Up!SetDataSize(t) \/ Up!ReadData(t) \/ Up!SendTo(t) \/ Up!RunCommand(t) \/ Up!Report(t)
    BY <2>4, GetBufferKeeps, OpenFileKeeps, ReadHeaderKeeps,
       SetDataSizeKeeps, ReadDataKeeps, SendToKeeps,
       RunCommandKeeps, ReportKeeps
  <2>5. QED
    BY <2>1, <2>2, <2>3, <2>4 DEF Up!UplinkStep
<1>2. CASE Clock
  BY <1>2, TickKeeps DEF Clock
<1>3. CASE Rotator \/ Accept \/ Downlink \/ Host
  BY <1>3, UplinkInvUnchanged DEF Rotator, Accept, Downlink, Host
<1>4. CASE UNCHANGED vars
  BY <1>4, UplinkInvUnchanged DEF vars
<1>5. QED
  BY <1>1, <1>2, <1>3, <1>4 DEF Next

(* Buffers: on every way through send_packet and send_packet_struct a buffer    *)
(* that was taken from the pool is given back, and once, but for those           *)
(* csp_sendto fails with (send_packet.c).                                     *)
THEOREM BuffersAlwaysAccounted == Spec => []BuffersAccounted
<1>1. UplinkInv => BuffersAccounted
  <2>1. UplinkInv => free + lost + Cardinality({t \in Up!Threads : Up!Holds(t)}) = Buffers
    BY Zenon DEF UplinkInv, Balance, Holders
  <2>2. \A S : Up!Cardinality(S) = Cardinality(S)
    BY Zenon DEF Cardinality, Up!Cardinality
  <2>3. QED
    BY <2>1, <2>2, Zenon DEF BuffersAccounted, Up!BuffersAccounted
<1>2. QED
  BY <1>1, UplinkInvInit, UplinkInvNext, PTL DEF Spec

(* The console sends nothing older than the last upload that was saved when it   *)
(* was asked, although tcp_server cuts and renames the file meanwhile.          *)
THEOREM RetransmitsLatestAlways == Spec => []RetransmitsLatest
<1>1. UplinkInv => RetransmitsLatest
  BY DEF UplinkInv, Again, RetransmitsLatest, Up!RetransmitsLatest
<1>2. QED
  BY <1>1, UplinkInvInit, UplinkInvNext, PTL DEF Spec
-----------------------------------------------------------------------------
(* The uploads of tcp_server, for UploadsInOrder.  tcp_server alone names, cuts    *)
(* and writes files, so from Save to SendTo the file that is named has its upload, *)
(* which is later than all it has sent.                                       *)

(* tcp_server has an upload that it has not sent yet.                         *)
Pending == upc["tcp"] \notin {"idle", "report"}

(* Where tcp_server is with it.                                              *)
Underway ==
  /\ Pending => upload.nr = uploads
  /\ upc["tcp"] \in {"get", "file", "header"} => files[fr_name.second] = upload
  /\ upc["tcp"] = "header" => packet["tcp"].file = fr_name.second
  /\ upc["tcp"] \in {"header", "size", "data"} => packet["tcp"].size = upload.size
  /\ upc["tcp"] \in {"header", "size", "data", "execute"} => upload.size > Up!HeaderSize
  /\ upc["tcp"] \in {"size", "data", "execute"} => packet["tcp"].of = upload
  /\ upc["tcp"] = "data" /\ ~packet["tcp"].crossed => data_size = upload.size - Up!HeaderSize
  /\ upc["tcp"] = "execute" /\ ~packet["tcp"].crossed =>
       packet["tcp"].own = upload.size - Up!HeaderSize

(* What is on the air is all of its upload, unless it was crossed, and earlier     *)
(* than what is under way.                                                    *)
OnAir ==
  /\ \A k \in 1 .. Len(air) : air[k].by = "tcp" =>
       /\ ~air[k].crossed => air[k].own = air[k].size - Up!HeaderSize
       /\ air[k].nr <= uploads
       /\ Pending => air[k].nr < uploads
  /\ \A j, k \in 1 .. Len(air) :
       j < k /\ air[j].by = "tcp" /\ air[k].by = "tcp" => air[j].nr < air[k].nr

LEMMA OnAirKept ==
  ASSUME OnAir, UNCHANGED <<air, uploads>>, Pending' => Pending
  PROVE  OnAir'
BY DEF OnAir

(* A step of another thread.                                                 *)
LEMMA OthersStep ==
  ASSUME Underway, OnAir, UNCHANGED <<upload, fr_name, files, uploads>>,
         upc'["tcp"] = upc["tcp"],
         packet'["tcp"].file = packet["tcp"].file, packet'["tcp"].size = packet["tcp"].size,
         packet'["tcp"].of = packet["tcp"].of, packet'["tcp"].own = packet["tcp"].own,
         packet["tcp"].crossed => packet'["tcp"].crossed,
         upc["tcp"] = "data" /\ ~packet'["tcp"].crossed => data_size' = data_size,
         \/ UNCHANGED air
         \/ \E p \in AirPackets : air \in Seq(AirPackets) /\ p.by # "tcp" /\ air' = Append(air, p)
  PROVE  Underway' /\ OnAir'
<1>1. Pending' = Pending
  BY DEF Pending
<1>2. Underway'
  BY <1>1 DEF Underway
<1>3. CASE UNCHANGED air
  BY <1>1, <1>2, <1>3, OnAirKept
<1>4. CASE \E p \in AirPackets : air \in Seq(AirPackets) /\ p.by # "tcp" /\ air' = Append(air, p)
  <2>1. PICK p \in AirPackets : air \in Seq(AirPackets) /\ p.by # "tcp" /\ air' = Append(air, p)
    BY <1>4
  <2>2. /\ Len(air') = Len(air) + 1 /\ Len(air) \in Nat /\ air'[Len(air) + 1] = p
        /\ \A k \in 1 .. Len(air) : air'[k] = air[k]
    BY <2>1
  <2>3. \A k \in 1 .. Len(air') : air'[k].by = "tcp" => k \in 1 .. Len(air) /\ air'[k] = air[k]
    BY <2>1, <2>2
  <2>4. OnAir'
    BY <1>1, <2>3 DEF OnAir
  <2>5. QED
    BY <1>2, <2>4
<1>5. QED
  BY <1>3, <1>4

(* Steps of tcp_server.                                                      *)
LEMMA ReceiveOrdered ==
  ASSUME UplinkInv, Underway, OnAir, Up!Receive PROVE Underway' /\ OnAir'
<1>1. /\ upc["tcp"] = "idle" /\ uploads' = uploads + 1 /\ upload'.nr = uploads + 1 /\ air' = air
      /\ upc' = [upc EXCEPT !["tcp"] = "name"]
  BY DEF Up!Receive, Up!Goto
<1>2. upc'["tcp"] = "name"
  BY <1>1 DEF UplinkInv, UplinkTypes, Up!Threads
<1>3. Underway'
  BY <1>1, <1>2 DEF Underway
<1>4. uploads \in Nat /\ air \in Seq(AirPackets)
  BY DEF UplinkInv, UplinkTypes
<1>5. \A k \in 1 .. Len(air) : air[k].nr \in Int
  <2>1. \A k \in 1 .. Len(air) : air[k] \in AirPackets
    BY <1>4
  <2>2. QED
    BY <2>1 DEF AirPackets
<1>6. \A k \in 1 .. Len(air) : air[k].by = "tcp" => air[k].nr < uploads + 1 /\ air[k].nr <= uploads + 1
  BY <1>4, <1>5 DEF OnAir
<1>7. OnAir'
  BY <1>1, <1>6 DEF OnAir
<1>8. QED
  BY <1>3, <1>7

LEMMA SavingOrdered ==
  ASSUME UplinkInv, Underway, OnAir, Up!Name \/ Up!OpenSaved \/ Up!Save
  PROVE  Underway' /\ OnAir'
<1>1. UNCHANGED <<uploads, upload, air>> /\ upc["tcp"] \in {"name", "open", "save"}
  BY DEF Up!Name, Up!OpenSaved, Up!Save
<1>2. upc'["tcp"] \in {"open", "save", "get"}
  BY DEF Up!Name, Up!OpenSaved, Up!Save, Up!Goto, UplinkInv, UplinkTypes, Up!Threads
<1>3. Pending /\ Pending'
  BY <1>1, <1>2 DEF Pending
<1>4. upc'["tcp"] = "get" => files'[fr_name'.second] = upload'
  BY <1>1, <1>2 DEF Up!Name, Up!OpenSaved, Up!Save, Up!Goto, UplinkInv, UplinkTypes, Up!Threads
<1>5. Underway'
  BY <1>1, <1>2, <1>3, <1>4 DEF Underway
<1>6. OnAir'
  BY <1>1, <1>3, OnAirKept
<1>7. QED
  BY <1>5, <1>6

(* tcp_server gives up.                                                      *)
LEMMA GivenUpOrdered ==
  ASSUME UplinkInv, Underway, OnAir, UNCHANGED <<uploads, air>>, upc'["tcp"] = "idle"
  PROVE  Underway' /\ OnAir'
<1>1. ~Pending'
  BY DEF Pending
<1>2. Underway'
  BY <1>1 DEF Underway
<1>3. QED
  BY <1>1, <1>2, OnAirKept

LEMMA GetBufferOrdered ==
  ASSUME UplinkInv, Underway, OnAir, Up!GetBuffer("tcp") PROVE Underway' /\ OnAir'
<1>1. /\ upc["tcp"] = "get" /\ UNCHANGED <<upload, fr_name, files, air, uploads>>
      /\ upc' = [upc EXCEPT !["tcp"] = "file"] \/ upc' = [upc EXCEPT !["tcp"] = "idle"]
  BY DEF Up!GetBuffer, Up!Goto
<1>2. upc'["tcp"] = "file" \/ upc'["tcp"] = "idle"
  BY <1>1 DEF UplinkInv, UplinkTypes, Up!Threads
<1>3. CASE upc'["tcp"] = "file"
  <2>1. Pending /\ Pending'
    BY <1>1, <1>3 DEF Pending
  <2>2. Underway'
    BY <1>1, <1>3, <2>1 DEF Underway
  <2>3. QED
    BY <1>1, <2>1, <2>2, OnAirKept
<1>4. QED
  BY <1>1, <1>2, <1>3, GivenUpOrdered

LEMMA OpenFileOrdered ==
  ASSUME UplinkInv, Underway, OnAir, Up!OpenFile("tcp") PROVE Underway' /\ OnAir'
<1>1. upc["tcp"] = "file" /\ UNCHANGED <<upload, fr_name, files, data_size, air, uploads>>
  BY DEF Up!OpenFile
<1>2. CASE UNCHANGED <<upc, packet>>
  BY <1>1, <1>2, OthersStep
<1>3. CASE upc' = [upc EXCEPT !["tcp"] = "idle"]
  <2>1. upc'["tcp"] = "idle"
    BY <1>3 DEF UplinkInv, UplinkTypes, Up!Threads
  <2>2. QED
    BY <1>1, <2>1, GivenUpOrdered
<1>4. CASE /\ files[fr_name.second].size > Up!HeaderSize
           /\ packet' = [packet EXCEPT !["tcp"] = [Up!NoPacket EXCEPT !.file = fr_name.second,
                                                      !.size = files[fr_name.second].size]]
           /\ upc' = [upc EXCEPT !["tcp"] = "header"]
  <2>1. upc'["tcp"] = "header"
    BY <1>4 DEF UplinkInv, UplinkTypes, Up!Threads
  <2>2. packet'["tcp"].file = fr_name.second /\ packet'["tcp"].size = files[fr_name.second].size
    <3>1. packet'["tcp"] = [Up!NoPacket EXCEPT !.file = fr_name.second,
                                                !.size = files[fr_name.second].size]
      BY <1>4 DEF UplinkInv, UplinkTypes, Up!Threads
    <3>2. QED
      BY <3>1, NoPacketTyped DEF Packets
  <2>3. Pending /\ Pending'
    BY <1>1, <2>1 DEF Pending
  <2>4. Underway'
    BY <1>1, <1>4, <2>1, <2>2, <2>3 DEF Underway
  <2>5. QED
    BY <1>1, <2>3, <2>4, OnAirKept
<1>5. QED
  BY <1>2, <1>3, <1>4 DEF Up!OpenFile, Up!Refuse, Up!Goto, Up!NamedFile, Up!Named

LEMMA ReadHeaderOrdered ==
  ASSUME UplinkInv, Underway, OnAir, Up!ReadHeader("tcp") PROVE Underway' /\ OnAir'
<1> DEFINE content == files[packet["tcp"].file]
<1>1. upc["tcp"] = "header" /\ UNCHANGED <<upload, fr_name, files, air, uploads>>
  BY DEF Up!ReadHeader
<1>2. content = upload /\ packet["tcp"].size = upload.size /\ upload.size > Up!HeaderSize
  BY <1>1 DEF Underway
<1> HIDE DEF content
<1>3. CASE upc' = [upc EXCEPT !["tcp"] = "idle"]
  <2>1. upc'["tcp"] = "idle"
    BY <1>3 DEF UplinkInv, UplinkTypes, Up!Threads
  <2>2. QED
    BY <1>1, <2>1, GivenUpOrdered
<1>4. CASE /\ packet' = [packet EXCEPT !["tcp"].of = content]
           /\ upc' = [upc EXCEPT !["tcp"] = "size"]
  <2>1. upc'["tcp"] = "size"
    BY <1>4 DEF UplinkInv, UplinkTypes, Up!Threads
  <2>2. packet'["tcp"] = [packet["tcp"] EXCEPT !.of = content]
    BY <1>4 DEF UplinkInv, UplinkTypes, Up!Threads
  <2>3. packet["tcp"] \in Packets
    BY DEF UplinkInv, UplinkTypes, Up!Threads
  <2>4. packet'["tcp"].of = content /\ packet'["tcp"].size = packet["tcp"].size
    BY <2>2, <2>3 DEF Packets
  <2>5. Pending /\ Pending'
    BY <1>1, <2>1 DEF Pending
  <2>6. Underway'
    BY <1>1, <1>2, <2>1, <2>4, <2>5 DEF Underway
  <2>7. QED
    BY <1>1, <2>5, <2>6, OnAirKept
<1>5. QED
  BY <1>3, <1>4 DEF Up!ReadHeader, Up!Refuse, Up!Goto, content

LEMMA SetDataSizeOrdered ==
  ASSUME UplinkInv, Underway, OnAir, Up!SetDataSize("tcp") PROVE Underway' /\ OnAir'
<1>1. /\ upc["tcp"] = "size" /\ upc' = [upc EXCEPT !["tcp"] = "data"]
      /\ data_size' = Up!DataSize(packet["tcp"].size)
      /\ UNCHANGED <<upload, fr_name, files, air, uploads>>
  BY DEF Up!SetDataSize, Up!Goto
<1>2. packet'["tcp"] = packet["tcp"]
  BY SetDataSizePackets DEF UplinkInv, Up!Threads
<1>3. upc'["tcp"] = "data"
  BY <1>1 DEF UplinkInv, UplinkTypes, Up!Threads
<1>4. Pending /\ Pending'
  BY <1>1, <1>3 DEF Pending
<1>5. data_size' = upload.size - Up!HeaderSize
  BY <1>1 DEF Underway, Up!DataSize
<1>6. Underway'
  BY <1>1, <1>2, <1>3, <1>4, <1>5 DEF Underway
<1>7. QED
  BY <1>1, <1>4, <1>6, OnAirKept

LEMMA ReadDataOrdered ==
  ASSUME UplinkInv, Underway, OnAir, Up!ReadData("tcp") PROVE Underway' /\ OnAir'
<1>1. upc["tcp"] = "data" /\ UNCHANGED <<upload, fr_name, files, air, uploads>>
  BY DEF Up!ReadData
<1>2. CASE upc' = [upc EXCEPT !["tcp"] = "idle"]
  <2>1. upc'["tcp"] = "idle"
    BY <1>2 DEF UplinkInv, UplinkTypes, Up!Threads
  <2>2. QED
    BY <1>1, <2>1, GivenUpOrdered
<1>3. ASSUME NEW n \in {Up!DataSize(packet["tcp"].size), data_size},
             packet' = [packet EXCEPT !["tcp"].own = Up!Kept("tcp", n)],
             upc' = [upc EXCEPT !["tcp"] = "execute"]
      PROVE  Underway' /\ OnAir'
  <2> DEFINE own == Up!Kept("tcp", n)
  <2>1. upc'["tcp"] = "execute"
    BY <1>3 DEF UplinkInv, UplinkTypes, Up!Threads
  <2>2. /\ packet["tcp"].size = upload.size /\ packet["tcp"].of = upload
        /\ upload.size > Up!HeaderSize
        /\ ~packet["tcp"].crossed => data_size = upload.size - Up!HeaderSize
    BY <1>1 DEF Underway
  <2>3. upload.size \in Int
    BY DEF UplinkInv, UplinkTypes, Up!Contents
  <2>4. ~packet["tcp"].crossed => n = upload.size - Up!HeaderSize
    BY <1>3, <2>2 DEF Up!DataSize
  <2>5. ~packet["tcp"].crossed => own = upload.size - Up!HeaderSize
    BY <2>2, <2>3, <2>4 DEF Up!Kept, Up!Smaller, Up!HeaderSize
  <2> HIDE DEF own
  <2>6. packet'["tcp"] = [packet["tcp"] EXCEPT !.own = own]
    BY <1>3 DEF UplinkInv, UplinkTypes, Up!Threads, own
  <2>7. packet["tcp"] \in Packets
    BY DEF UplinkInv, UplinkTypes, Up!Threads
  <2>8. /\ packet'["tcp"].own = own /\ packet'["tcp"].of = packet["tcp"].of
        /\ packet'["tcp"].crossed = packet["tcp"].crossed
    BY <2>6, <2>7 DEF Packets
  <2>9. Pending /\ Pending'
    BY <1>1, <2>1 DEF Pending
  <2>10. Underway'
    BY <1>1, <2>1, <2>2, <2>5, <2>8, <2>9 DEF Underway
  <2>11. QED
    BY <1>1, <2>9, <2>10, OnAirKept
<1>4. QED
  BY <1>2, <1>3 DEF Up!ReadData, Up!Refuse, Up!Goto

LEMMA SendToOrdered ==
  ASSUME UplinkInv, Underway, OnAir, Up!SendTo("tcp") PROVE Underway' /\ OnAir'
<1> DEFINE p == [by |-> "tcp", nr |-> packet["tcp"].of.nr, size |-> packet["tcp"].of.size,
                 length |-> packet["tcp"].of.length, own |-> packet["tcp"].own,
                 crossed |-> packet["tcp"].crossed, floor |-> floor]
<1>1. /\ upc["tcp"] = "execute" /\ upc' = [upc EXCEPT !["tcp"] = "report"]
      /\ UNCHANGED <<upload, fr_name, files, uploads>>
      /\ air' = Append(air, p) \/ air' = air
  BY DEF Up!SendTo, Up!Goto
<1>2. upc'["tcp"] = "report"
  BY <1>1 DEF UplinkInv, UplinkTypes, Up!Threads
<1>3. Pending /\ ~Pending'
  BY <1>1, <1>2 DEF Pending
<1>4. Underway'
  BY <1>2, <1>3 DEF Underway
<1>5. /\ p.by = "tcp" /\ p.nr = uploads
      /\ ~p.crossed => p.own = p.size - Up!HeaderSize
  BY <1>1, <1>3 DEF Underway
<1>6. p \in AirPackets
  <2>1. packet["tcp"].of \in Up!Contents /\ packet["tcp"].own \in Int /\ floor \in Int
    BY DEF UplinkInv, UplinkTypes, Packets, Up!Threads
  <2>2. packet["tcp"].crossed \in BOOLEAN
    BY DEF UplinkInv, UplinkTypes, Packets, Up!Threads
  <2>3. QED
    BY <2>1, <2>2 DEF AirPackets, Up!Contents, Up!Threads
<1> HIDE DEF p
<1>7. CASE air' = air
  BY <1>1, <1>3, <1>4, <1>7, OnAirKept
<1>8. CASE air' = Append(air, p)
  <2>1. /\ Len(air') = Len(air) + 1 /\ Len(air) \in Nat /\ air'[Len(air) + 1] = p
        /\ \A k \in 1 .. Len(air) : air'[k] = air[k]
    BY <1>6, <1>8 DEF UplinkInv, UplinkTypes
  <2>2. \A k \in 1 .. Len(air') : k \in 1 .. Len(air) \/ (k = Len(air) + 1 /\ air'[k] = p)
    BY <2>1
  <2>3. uploads \in Nat
    BY DEF UplinkInv, UplinkTypes
  <2>4. \A k \in 1 .. Len(air') : air'[k].by = "tcp" =>
          /\ ~air'[k].crossed => air'[k].own = air'[k].size - Up!HeaderSize
          /\ air'[k].nr <= uploads
    BY <1>5, <2>1, <2>2, <2>3 DEF OnAir
  <2>5. ASSUME NEW j \in 1 .. Len(air'), NEW k \in 1 .. Len(air'), j < k,
               air'[j].by = "tcp", air'[k].by = "tcp"
        PROVE  air'[j].nr < air'[k].nr
    <3>1. j \in 1 .. Len(air) /\ air'[j] = air[j] /\ air[j].by = "tcp" /\ air[j].nr < uploads
      BY <1>3, <2>1, <2>5 DEF OnAir
    <3>2. CASE k \in 1 .. Len(air)
      BY <2>1, <2>5, <3>1, <3>2 DEF OnAir
    <3>3. CASE k = Len(air) + 1
      BY <1>5, <2>1, <3>1, <3>3
    <3>4. QED
      BY <2>2, <3>2, <3>3
  <2>6. OnAir'
    BY <1>1, <1>3, <2>4, <2>5 DEF OnAir
  <2>7. QED
    BY <1>4, <2>6
<1>9. QED
  BY <1>1, <1>7, <1>8

LEMMA EndsOrdered ==
  ASSUME UplinkInv, Underway, OnAir, Up!RunCommand("tcp") \/ Up!Report("tcp")
  PROVE  Underway' /\ OnAir'
<1>1. UNCHANGED <<uploads, air>> /\ upc'["tcp"] \in {"report", "idle"}
  BY DEF Up!RunCommand, Up!Report, Up!Goto, UplinkInv, UplinkTypes, Up!Threads
<1>2. ~Pending'
  BY <1>1 DEF Pending
<1>3. Underway'
  BY <1>1, <1>2 DEF Underway
<1>4. QED
  BY <1>1, <1>2, <1>3, OnAirKept

(* Steps of the console, the GUI thread and the clock.                        *)
LEMMA ElsewhereOrdered ==
  ASSUME UplinkInv, Underway, OnAir, NEW t \in {"console", "gui"},
         \/ Up!Retransmit \/ Up!GuiSend \/ Up!GuiRefuse
         \/ Up!GetBuffer(t) \/ Up!OpenFile(t) \/ Up!ReadHeader(t)
         \/ Up!SetDataSize(t) \/ Up!ReadData(t) \/ Up!SendTo(t) \/ Up!RunCommand(t) \/ Up!Report(t)
  PROVE  Underway' /\ OnAir'
<1> USE DEF Up!Goto, Up!Refuse
<1>1. t \in Up!Threads /\ t # "tcp"
  BY DEF Up!Threads
<1>2. CASE Up!Retransmit \/ Up!GuiSend \/ Up!GuiRefuse
  <2>1. /\ upc'["tcp"] = upc["tcp"] /\ packet'["tcp"] = packet["tcp"]
        /\ UNCHANGED <<upload, fr_name, files, data_size, uploads, air>>
    BY <1>2 DEF UplinkInv, UplinkTypes, Up!Threads, Up!Retransmit, Up!GuiSend, Up!GuiRefuse
  <2>2. QED
    BY <2>1, OthersStep
<1>3. CASE \/ Up!GetBuffer(t) \/ Up!OpenFile(t) \/ Up!ReadHeader(t) \/ Up!ReadData(t)
           \/ Up!RunCommand(t) \/ Up!Report(t)
  <2>1. UNCHANGED <<upload, fr_name, files, data_size, uploads, air>>
    BY <1>3 DEF Up!GetBuffer, Up!OpenFile, Up!ReadHeader, Up!ReadData, Up!RunCommand, Up!Report
  <2>2. upc'["tcp"] = upc["tcp"] /\ packet'["tcp"] = packet["tcp"]
    BY <1>1, <1>3 DEF UplinkInv, UplinkTypes, Up!Threads, Up!GetBuffer, Up!OpenFile,
                      Up!ReadHeader, Up!ReadData, Up!RunCommand, Up!Report
  <2>3. QED
    BY <2>1, <2>2, OthersStep
<1>4. CASE Up!SendTo(t)
  <2> DEFINE p == [by |-> t, nr |-> packet[t].of.nr, size |-> packet[t].of.size,
                   length |-> packet[t].of.length, own |-> packet[t].own,
                   crossed |-> packet[t].crossed, floor |-> floor]
  <2>1. /\ UNCHANGED <<upload, fr_name, files, data_size, uploads>>
        /\ air' = Append(air, p) \/ air' = air
    BY <1>4 DEF Up!SendTo
  <2>2. upc'["tcp"] = upc["tcp"] /\ packet'["tcp"] = packet["tcp"]
    BY <1>1, <1>4 DEF UplinkInv, UplinkTypes, Up!Threads, Up!SendTo
  <2>3. p \in AirPackets /\ p.by # "tcp"
    <3>1. /\ packet[t].of \in Up!Contents /\ packet[t].own \in Int /\ floor \in Int
          /\ packet[t].crossed \in BOOLEAN
      BY <1>1 DEF UplinkInv, UplinkTypes, Packets
    <3>2. QED
      BY <1>1, <3>1 DEF AirPackets, Up!Contents
  <2>4. air \in Seq(AirPackets)
    BY DEF UplinkInv, UplinkTypes
  <2> HIDE DEF p
  <2>5. QED
    BY <2>1, <2>2, <2>3, <2>4, OthersStep
<1>5. CASE Up!SetDataSize(t)
  <2>1. upc' = [upc EXCEPT ![t] = "data"] /\ UNCHANGED <<upload, fr_name, files, uploads, air>>
    BY <1>5 DEF Up!SetDataSize
  <2>2. upc'["tcp"] = upc["tcp"]
    BY <1>1, <2>1 DEF UplinkInv, UplinkTypes, Up!Threads
  <2>3. /\ packet'["tcp"].file = packet["tcp"].file /\ packet'["tcp"].size = packet["tcp"].size
        /\ packet'["tcp"].of = packet["tcp"].of /\ packet'["tcp"].own = packet["tcp"].own
        /\ packet'["tcp"].crossed = (packet["tcp"].crossed \/ ("tcp" # t /\ upc["tcp"] = "data"))
    BY <1>1, <1>5, SetDataSizePackets DEF UplinkInv, Up!Threads
  <2>4. /\ packet["tcp"].crossed => packet'["tcp"].crossed
        /\ upc["tcp"] = "data" => packet'["tcp"].crossed
    BY <1>1, <2>3
  <2>5. QED
    BY <2>1, <2>2, <2>3, <2>4, OthersStep
<1>6. QED
  BY <1>2, <1>3, <1>4, <1>5

LEMMA OrderedInit == Init => Underway /\ OnAir
<1> SUFFICES ASSUME Init PROVE Underway /\ OnAir
  OBVIOUS
<1>1. upc["tcp"] = "idle" /\ air = <<>>
  BY DEF Init, Up!UplinkInit, Up!Threads
<1>2. QED
  BY <1>1 DEF Underway, OnAir, Pending

LEMMA OrderedNext ==
  ASSUME UplinkInv, Underway, OnAir, [Next]_vars PROVE Underway' /\ OnAir'
<1>1. CASE Uplink
  <2>1. PICK t \in Up!Threads : Up!UplinkStep(t)
    BY <1>1 DEF Uplink
  <2>2. CASE t = "tcp"
    BY <2>1, <2>2, ReceiveOrdered, SavingOrdered, GetBufferOrdered, OpenFileOrdered,
       ReadHeaderOrdered, SetDataSizeOrdered, ReadDataOrdered, SendToOrdered, EndsOrdered DEF Up!UplinkStep
  <2>3. CASE t # "tcp"
    BY <2>1, <2>3, ElsewhereOrdered DEF Up!UplinkStep, Up!Threads
  <2>4. QED
    BY <2>2, <2>3
<1>2. CASE Clock \/ Rotator \/ Accept \/ Downlink \/ Host \/ UNCHANGED vars
  <2>1. UNCHANGED <<upc, packet, upload, fr_name, files, data_size, uploads, air>>
    BY <1>2 DEF Clock, Up!Tick, Rotator, Accept, Downlink, Host, vars, senderVars
  <2>2. QED
    BY <2>1, OthersStep
<1>3. QED
  BY <1>1, <1>2 DEF Next

(* tcp_server gives send_packet the upload it has just saved, by its name, and     *)
(* what goes out is that upload, in the order of the uploads and once, whatever     *)
(* the console sends again meanwhile, within one second as well.  It goes out        *)
(* whole if all of it came with one recv and the console has not written            *)
(* data_size between tcp_server's writing and reading it (process_mcs_file.c).     *)
THEOREM UploadsAlwaysInOrder == Spec => []UploadsInOrder
<1>1. UplinkInv /\ OnAir => UploadsInOrder
  <2> SUFFICES ASSUME UplinkInv, OnAir PROVE UploadsInOrder
    OBVIOUS
  <2>1. ASSUME NEW k \in 1 .. Len(air), air[k].by = "tcp", ~air[k].crossed,
               air[k].length <= air[k].size - Up!HeaderSize
        PROVE  air[k].own >= air[k].length
    <3>1. air[k] \in AirPackets
      BY DEF UplinkInv, UplinkTypes
    <3>2. air[k].own \in Int /\ air[k].length \in 0 .. 255
      BY <3>1 DEF AirPackets
    <3>3. air[k].own = air[k].size - Up!HeaderSize
      BY <2>1 DEF OnAir
    <3>4. QED
      BY <2>1, <3>2, <3>3
  <2>2. QED
    BY <2>1 DEF OnAir, UploadsInOrder, Up!UploadsInOrder
<1>2. Spec => []UplinkInv
  BY UplinkInvInit, UplinkInvNext, PTL DEF Spec
<1>3. UplinkInv /\ (Underway /\ OnAir) /\ [Next]_vars => (Underway /\ OnAir)'
  BY OrderedNext
<1>4. QED
  BY <1>1, <1>2, <1>3, OrderedInit, PTL DEF Spec

------------------------------------------------------------------------------
(***************************************************************************)
(* The types of all parts, for TypeOK.  What takes more than a look: the pool   *)
(* never has more buffers than it began with, since they are accounted for; no   *)
(* length is negative, since what is not longer than the header is refused; and   *)
(* the ports are those in use and those that could not be set up.               *)
(***************************************************************************)

UsesPort(t) == IF rpc[t] \in {"set", "write"} THEN 1 ELSE 0

RotatorWell ==
  /\ Rot!RotatorTypeOK
  /\ ports = leaked + (UsesPort("console") + UsesPort("gui"))

LEMMA RotatorWellInit == Init => RotatorWell
<1> SUFFICES ASSUME Init PROVE RotatorWell
  OBVIOUS
<1>1. Rot!RotatorTypeOK
  <2>1. Rot!RotatorInit /\ MaxMoves \in Nat
    BY CommandsAssumption DEF Init
  <2>2. /\ rpc \in [Movers -> {"idle", "check", "azi", "ele", "open", "set", "write"}]
        /\ target \in [Movers -> Int \X Int]
        /\ antenna \in Int \X Int /\ last \in Int \X Int
    BY <2>1 DEF Rot!RotatorInit
  <2>3. azi_old \in Int /\ ele_old \in Int /\ ports \in Nat /\ leaked \in Nat /\ moves \in 0 .. MaxMoves
    BY <2>1 DEF Rot!RotatorInit
  <2>4. unended \in BOOLEAN /\ undisturbed \in BOOLEAN
    BY <2>1 DEF Rot!RotatorInit
  <2>5. QED
    BY <2>2, <2>3, <2>4, Zenon DEF Rot!RotatorTypeOK
<1>2. rpc["console"] = "idle" /\ rpc["gui"] = "idle" /\ ports = 0 /\ leaked = 0
  BY DEF Init, Rot!RotatorInit, Movers
<1>3. QED
  BY <1>1, <1>2 DEF RotatorWell, UsesPort

LEMMA RotatorWellUnchanged == RotatorWell /\ UNCHANGED rotatorVars => RotatorWell'
BY DEF rotatorVars, RotatorWell, Rot!RotatorTypeOK, UsesPort

(* A step of t takes a port (d = 1), gives one back (d = -1) or leaks it (l = 1). *)
LEMMA PortsInUse ==
  ASSUME RotatorWell, NEW t \in Movers, NEW d \in {-1, 0, 1}, NEW l \in {0, 1},
         NEW label \in Steps,
         rpc' = [rpc EXCEPT ![t] = label], ports' = ports + d, leaked' = leaked + l,
         (IF label \in {"set", "write"} THEN 1 ELSE 0) + l = UsesPort(t) + d
  PROVE  /\ ports' \in Nat /\ leaked' \in Nat /\ rpc' \in [Movers -> Steps]
         /\ ports' = leaked' + (UsesPort("console")' + UsesPort("gui")')
<1>1. /\ rpc \in [Movers -> Steps] /\ ports \in Nat /\ leaked \in Nat
      /\ ports = leaked + (UsesPort("console") + UsesPort("gui"))
  BY DEF RotatorWell, Rot!RotatorTypeOK, Steps
<1>2. /\ rpc'[t] = label /\ \A u \in Movers : u # t => rpc'[u] = rpc[u]
      /\ rpc' \in [Movers -> Steps]
  BY <1>1
<1>3. UsesPort(t)' + l = UsesPort(t) + d /\ \A u \in Movers : u # t => UsesPort(u)' = UsesPort(u)
  BY <1>2 DEF UsesPort
<1>4. \A u \in Movers : UsesPort(u) \in {0, 1} /\ UsesPort(u)' \in {0, 1}
  BY DEF UsesPort
<1>5. ports' = leaked' + (UsesPort("console")' + UsesPort("gui")')
  <2>1. CASE t = "console"
    <3>1. /\ UsesPort("gui")' = UsesPort("gui")
          /\ UsesPort("console")' + l = UsesPort("console") + d
      BY <1>3, <2>1 DEF Movers
    <3>2. QED
      BY <1>1, <1>4, <3>1 DEF Movers
  <2>2. CASE t = "gui"
    <3>1. /\ UsesPort("console")' = UsesPort("console")
          /\ UsesPort("gui")' + l = UsesPort("gui") + d
      BY <1>3, <2>2 DEF Movers
    <3>2. QED
      BY <1>1, <1>4, <3>1 DEF Movers
  <2>3. QED
    BY <2>1, <2>2 DEF Movers
<1>6. ports' \in Nat /\ leaked' \in Nat
  <2>1. leaked' \in Nat
    BY <1>1
  <2>2. QED
    BY <1>4, <1>5, <2>1 DEF Movers
<1>7. QED
  BY <1>2, <1>5, <1>6

LEMMA RotatorWellStep ==
  ASSUME RotatorWell, NEW t \in Movers, Rot!Call(t) \/ Rot!RotatorStep(t)
  PROVE  RotatorWell'
<1> USE DEF Rot!Goto, Rot!Return
<1>1. /\ target \in [Movers -> Int \X Int] /\ azi_old \in Int /\ ele_old \in Int
      /\ antenna \in Int \X Int /\ last \in Int \X Int /\ undisturbed \in BOOLEAN
      /\ unended \in BOOLEAN
      /\ moves \in 0 .. MaxMoves /\ ports \in Nat /\ leaked \in Nat /\ MaxMoves \in Nat
  BY CommandsAssumption DEF RotatorWell, Rot!RotatorTypeOK
<1>2. target[t][1] \in Int /\ target[t][2] \in Int /\ target[t] \in Int \X Int
  BY <1>1
<1>3. CASE Rot!Call(t)
  <2>1. PICK p \in Positions : target' = [target EXCEPT ![t] = p]
    BY <1>3 DEF Rot!Call
  <2>2. p \in Int \X Int
    BY <2>1, CommandsAssumption
  <2>3. /\ rpc[t] = "idle" /\ rpc' = [rpc EXCEPT ![t] = "check"] /\ moves' = moves + 1
        /\ moves < MaxMoves /\ last' = target'[t] /\ undisturbed' \in BOOLEAN
        /\ UNCHANGED <<azi_old, ele_old, antenna, unended, ports, leaked>>
    BY <1>1, <1>3 DEF Rot!Call
  <2>4. /\ target' \in [Movers -> Int \X Int] /\ last' \in Int \X Int /\ moves' \in 0 .. MaxMoves
    BY <1>1, <2>1, <2>2, <2>3
  <2>5. ports' = ports + 0 /\ leaked' = leaked + 0 /\ UsesPort(t) = 0 /\ "check" \in Steps
    BY <1>1, <2>3 DEF UsesPort, Steps
  <2>6. /\ ports' \in Nat /\ leaked' \in Nat /\ rpc' \in [Movers -> Steps]
        /\ ports' = leaked' + (UsesPort("console")' + UsesPort("gui")')
    <3>1. (IF "check" \in {"set", "write"} THEN 1 ELSE 0) + 0 = UsesPort(t) + 0
      BY <2>5
    <3>2. rpc' = [rpc EXCEPT ![t] = "check"]
      BY <2>3
    <3>3. QED
      BY <2>5, <3>1, <3>2, PortsInUse
  <2>7. QED
    BY <1>1, <2>3, <2>4, <2>6 DEF RotatorWell, Rot!RotatorTypeOK, Steps
<1>4. CASE Rot!RotatorStep(t)
  <2>1. /\ target' \in [Movers -> Int \X Int] /\ azi_old' \in Int /\ ele_old' \in Int
        /\ antenna' \in Int \X Int /\ unended' \in BOOLEAN /\ undisturbed' \in BOOLEAN
        /\ UNCHANGED <<moves, last>>
    <3>1. CASE Rot!Check(t)
      BY <1>1, <1>2, <3>1 DEF Rot!Check
    <3>2. CASE Rot!RememberAzi(t)
      BY <1>1, <1>2, <3>2 DEF Rot!RememberAzi
    <3>3. CASE Rot!RememberEle(t)
      BY <1>1, <1>2, <3>3 DEF Rot!RememberEle
    <3>4. CASE Rot!Open(t)
      <4>1. target' \in [Movers -> Int \X Int] /\ antenna' \in Int \X Int
        BY <1>1, <1>2, <3>4 DEF Rot!Open
      <4>2. undisturbed' \in BOOLEAN
        BY <1>1, <3>4, Zenon DEF Rot!Open
      <4>3. QED
        BY <1>1, <3>4, <4>1, <4>2 DEF Rot!Open
    <3>5. CASE Rot!SetInterface(t)
      <4>1. target' \in [Movers -> Int \X Int] /\ antenna' \in Int \X Int
        BY <1>1, <1>2, <3>5 DEF Rot!SetInterface
      <4>2. undisturbed' \in BOOLEAN
        BY <1>1, <3>5, Zenon DEF Rot!SetInterface
      <4>3. QED
        BY <1>1, <3>5, <4>1, <4>2 DEF Rot!SetInterface
    <3>6. CASE Rot!Write(t)
      <4>1. target' \in [Movers -> Int \X Int]
        BY <1>1, <1>2, <3>6 DEF Rot!Write
      <4>2. antenna' \in {target[t], antenna} \cup Positions
        BY <1>1, <3>6 DEF Rot!Write, Rot!Command, Rot!WriteFails
      <4>3. antenna' \in Int \X Int
        BY <1>1, <1>2, <4>2, CommandsAssumption
      <4>4. unended' \in BOOLEAN /\ undisturbed' \in BOOLEAN
        BY <1>1, <3>6, Zenon DEF Rot!Write, Rot!Command, Rot!WriteFails
      <4>5. QED
        BY <1>1, <3>6, <4>1, <4>3, <4>4 DEF Rot!Write
    <3>7. QED
      BY <1>4, <3>1, <3>2, <3>3, <3>4, <3>5, <3>6 DEF Rot!RotatorStep
  <2>2. PICK label \in Steps, d \in {-1, 0, 1}, l \in {0, 1} :
          /\ rpc' = [rpc EXCEPT ![t] = label] /\ ports' = ports + d /\ leaked' = leaked + l
          /\ (IF label \in {"set", "write"} THEN 1 ELSE 0) + l = UsesPort(t) + d
    <3>1. CASE Rot!Check(t) \/ Rot!RememberAzi(t) \/ Rot!RememberEle(t)
      <4>1. /\ rpc[t] \in {"check", "azi", "ele"} /\ ports' = ports /\ leaked' = leaked
            /\ \/ rpc' = [rpc EXCEPT ![t] = "idle"] \/ rpc' = [rpc EXCEPT ![t] = "azi"]
               \/ rpc' = [rpc EXCEPT ![t] = "ele"] \/ rpc' = [rpc EXCEPT ![t] = "open"]
        BY <3>1 DEF Rot!Check, Rot!RememberAzi, Rot!RememberEle
      <4>2. UsesPort(t) = 0 /\ ports' = ports + 0 /\ leaked' = leaked + 0
        BY <1>1, <4>1 DEF UsesPort
      <4>3. QED
        BY <4>1, <4>2 DEF Steps
    <3>2. CASE Rot!Open(t)
      <4>1. /\ rpc[t] = "open" /\ leaked' = leaked
            /\ \/ rpc' = [rpc EXCEPT ![t] = "set"] /\ ports' = ports + 1
               \/ rpc' = [rpc EXCEPT ![t] = "idle"] /\ ports' = ports
        BY <3>2 DEF Rot!Open
      <4>2. UsesPort(t) = 0 /\ leaked' = leaked + 0
        BY <1>1, <4>1 DEF UsesPort
      <4>3. CASE rpc' = [rpc EXCEPT ![t] = "set"] /\ ports' = ports + 1
        BY <4>2, <4>3 DEF Steps
      <4>4. CASE rpc' = [rpc EXCEPT ![t] = "idle"] /\ ports' = ports
        <5>1. ports' = ports + 0
          BY <1>1, <4>4
        <5>2. QED
          BY <4>2, <4>4, <5>1 DEF Steps
      <4>5. QED
        BY <4>1, <4>3, <4>4
    <3>3. CASE Rot!SetInterface(t)
      <4>1. /\ rpc[t] = "set" /\ ports' = ports
            /\ \/ rpc' = [rpc EXCEPT ![t] = "write"] /\ leaked' = leaked
               \/ rpc' = [rpc EXCEPT ![t] = "idle"] /\ leaked' = leaked + 1
        BY <3>3 DEF Rot!SetInterface
      <4>2. UsesPort(t) = 1 /\ ports' = ports + 0
        BY <1>1, <4>1 DEF UsesPort
      <4>3. CASE rpc' = [rpc EXCEPT ![t] = "write"] /\ leaked' = leaked
        <5>1. leaked' = leaked + 0
          BY <1>1, <4>3
        <5>2. QED
          BY <4>2, <4>3, <5>1 DEF Steps
      <4>4. CASE rpc' = [rpc EXCEPT ![t] = "idle"] /\ leaked' = leaked + 1
        BY <4>2, <4>4 DEF Steps
      <4>5. QED
        BY <4>1, <4>3, <4>4
    <3>4. CASE Rot!Write(t)
      <4>1. /\ rpc[t] = "write" /\ ports' = ports - 1 /\ leaked' = leaked
            /\ rpc' = [rpc EXCEPT ![t] = "idle"]
        BY <3>4 DEF Rot!Write
      <4>2. UsesPort(t) = 1 /\ ports' = ports + (-1) /\ leaked' = leaked + 0
        BY <1>1, <4>1 DEF UsesPort
      <4>3. QED
        BY <4>1, <4>2 DEF Steps
    <3>5. QED
      BY <1>4, <3>1, <3>2, <3>3, <3>4 DEF Rot!RotatorStep
  <2>3. /\ ports' \in Nat /\ leaked' \in Nat /\ rpc' \in [Movers -> Steps]
        /\ ports' = leaked' + (UsesPort("console")' + UsesPort("gui")')
    BY <2>2, PortsInUse
  <2>4. QED
    BY <1>1, <2>1, <2>3 DEF RotatorWell, Rot!RotatorTypeOK, Steps
<1>5. QED
  BY <1>3, <1>4

LEMMA RotatorWellNext == RotatorWell /\ [Next]_vars => RotatorWell'
<1> SUFFICES ASSUME RotatorWell, [Next]_vars PROVE RotatorWell'
  OBVIOUS
<1>1. CASE UNCHANGED rotatorVars
  BY <1>1, RotatorWellUnchanged
<1>2. CASE Rotator
  <2>1. PICK t \in Movers : Rot!Call(t) \/ Rot!RotatorStep(t)
    BY <1>2 DEF Rotator
  <2>2. QED
    BY <2>1, RotatorWellStep
<1>3. Rotator \/ UNCHANGED rotatorVars
  BY DEF Next, vars, Uplink, Clock, Accept, Downlink, Host
<1>4. QED
  BY <1>1, <1>2, <1>3

LEMMA PortsCounted ==
  Cardinality({t \in Movers : rpc[t] \in {"set", "write"}})
    = UsesPort("console") + UsesPort("gui")
<1> DEFINE users == {t \in Movers : rpc[t] \in {"set", "write"}}
<1>1. Cardinality({}) = 0 /\ IsFiniteSet({})
  BY FS_EmptySet
<1>2. /\ Cardinality({"console"}) = 1 /\ IsFiniteSet({"console"})
      /\ Cardinality({"gui"}) = 1
  BY FS_Singleton
<1>3. Cardinality({"console"} \cup {"gui"}) = 2
  <2>1. Cardinality({"console"} \cup {"gui"}) = Cardinality({"console"}) + 1
    BY <1>2, FS_AddElement
  <2>2. QED
    BY <1>2, <2>1
<1>4. CASE UsesPort("console") = 0 /\ UsesPort("gui") = 0
  <2>1. users = {}
    BY <1>4 DEF UsesPort, Movers
  <2>2. QED
    BY <1>1, <1>4, <2>1
<1>5. CASE UsesPort("console") = 1 /\ UsesPort("gui") = 0
  <2>1. users = {"console"}
    BY <1>5 DEF UsesPort, Movers
  <2>2. QED
    BY <1>2, <1>5, <2>1
<1>6. CASE UsesPort("console") = 0 /\ UsesPort("gui") = 1
  <2>1. users = {"gui"}
    BY <1>6 DEF UsesPort, Movers
  <2>2. QED
    BY <1>2, <1>6, <2>1
<1>7. CASE UsesPort("console") = 1 /\ UsesPort("gui") = 1
  <2>1. users = {"console"} \cup {"gui"}
    BY <1>7 DEF UsesPort, Movers
  <2>2. QED
    BY <1>3, <1>7, <2>1
<1>8. QED
  BY <1>4, <1>5, <1>6, <1>7 DEF UsesPort

(* Whatever fails and however the calls of the console and the GUI thread run     *)
(* into each other, the serial ports that are open are those in use and one for     *)
(* each set_interface that has failed (serial_rotator.c): serial_set_az_el closes    *)
(* its own port, once, on every other path.                                      *)
THEOREM PortsAlwaysClosed == Spec => []PortsClosed
<1>1. RotatorWell => PortsClosed
  <2>1. \A S : Rot!Cardinality(S) = Cardinality(S)
    BY Zenon DEF Cardinality, Rot!Cardinality
  <2>2. RotatorWell => ports = leaked + Cardinality({t \in Movers : rpc[t] \in {"set", "write"}})
    BY PortsCounted DEF RotatorWell
  <2>3. QED
    BY <2>1, <2>2, Zenon DEF PortsClosed, Rot!PortsClosed
<1>2. QED
  BY <1>1, RotatorWellInit, RotatorWellNext, PTL DEF Spec

-----------------------------------------------------------------------------
DownlinkWell == Down!DownlinkTypeOK /\ (dpc # "idle" => file >= 1)

LEMMA DownlinkWellInit == Init => DownlinkWell
<1> SUFFICES ASSUME Init PROVE DownlinkWell
  OBVIOUS
<1>1. MaxFiles \in Nat /\ MaxAccepts \in Nat /\ Blocks \in Nat \ {0}
  BY CommandsAssumption
<1>2. Down!DownlinkInit
  BY DEF Init
<1>3. <<>> \in Seq((1 .. MaxFiles) \X (1 .. Blocks))
  OBVIOUS
<1>4. inbox \in [Hosts -> Seq((1 .. MaxFiles) \X (1 .. Blocks))]
  BY <1>2, <1>3 DEF Down!DownlinkInit
<1>5. QED
  BY <1>1, <1>2, <1>4 DEF DownlinkWell, Down!DownlinkTypeOK, Down!DownlinkInit

LEMMA DownlinkWellUnchanged == DownlinkWell /\ UNCHANGED downlinkVars => DownlinkWell'
BY DEF downlinkVars, DownlinkWell, Down!DownlinkTypeOK

LEMMA DownlinkWellAccept ==
  ASSUME DownlinkWell, Down!Accept \/ Down!CopyAddress \/ Down!HostLeaves \/ Down!SendKills
  PROVE  DownlinkWell'
<1>1. MaxAccepts \in Nat
  BY CommandsAssumption
<1>2. QED
  BY <1>1 DEF DownlinkWell, Down!DownlinkTypeOK, Down!Accept, Down!CopyAddress, Down!HostLeaves,
              Down!SendKills

LEMMA DownlinkWellStep ==
  ASSUME DownlinkInv, DownlinkWell,
         \/ Down!Call \/ Down!ConnectFails \/ Down!ConnectSucceeds \/ Down!OpenFile
         \/ Down!SendFails
  PROVE  DownlinkWell'
<1>1. MaxFiles \in Nat /\ Blocks \in Nat \ {0} /\ 1 \in 1 .. Blocks
  BY CommandsAssumption
<1>2. UNCHANGED <<accepting, client_addr, inbox, accepts>>
  BY DEF Down!Call, Down!ConnectFails, Down!ConnectSucceeds, Down!OpenFile, Down!SendFails
<1>3. /\ dpc' \in {"idle", "connect", "open", "send"} /\ file' \in 0 .. MaxFiles
      /\ dpc' # "idle" => file' >= 1
      /\ block' \in 1 .. Blocks
  BY <1>1 DEF DownlinkWell, Down!DownlinkTypeOK, Down!Call, Down!ConnectFails,
              Down!ConnectSucceeds, Down!OpenFile, Down!SendFails
<1>4. /\ ret' \in BOOLEAN /\ peer' \in Hosts \cup {Down!NoHost}
      /\ far' \in {"there", "closed", "gone", "reset"}
  BY DEF DownlinkWell, Down!DownlinkTypeOK, Down!Call, Down!ConnectFails,
         Down!ConnectSucceeds, Down!OpenFile, Down!SendFails, Down!Readable
<1>5. descriptors' \in Nat /\ stray' \in Nat
  <2>1. stray \in Nat /\ descriptors \in Nat
    BY DEF DownlinkWell, Down!DownlinkTypeOK
  <2>2. CASE Down!SendFails
    <3>1. dpc = "send" /\ descriptors' = descriptors - 1 /\ stray' = stray
      BY <2>2 DEF Down!SendFails
    <3>2. descriptors = stray + 1
      BY <3>1 DEF DownlinkInv, Connected
    <3>3. QED
      BY <2>1, <3>1, <3>2
  <2>3. CASE ~Down!SendFails
    BY <2>1, <2>3 DEF Down!Call, Down!ConnectFails, Down!ConnectSucceeds, Down!OpenFile
  <2>4. QED
    BY <2>2, <2>3
<1>6. QED
  BY <1>2, <1>3, <1>4, <1>5 DEF DownlinkWell, Down!DownlinkTypeOK

LEMMA DownlinkWellSend ==
  ASSUME DownlinkInv, DownlinkWell, Down!SendBlock PROVE DownlinkWell'
<1>1. MaxFiles \in Nat /\ Blocks \in Nat \ {0} /\ 1 \in 1 .. Blocks
  BY CommandsAssumption
<1>2. /\ dpc = "send" /\ UNCHANGED <<accepting, client_addr, file, ret, peer, descriptors, stray, accepts>>
      /\ block' = IF block = Blocks THEN 1 ELSE block + 1
      /\ dpc' = IF block = Blocks THEN "idle" ELSE "send"
  BY DEF Down!SendBlock, Down!Advance
<1>3. block \in 1 .. Blocks /\ file \in 0 .. MaxFiles /\ file >= 1
  BY <1>2 DEF DownlinkWell, Down!DownlinkTypeOK
<1>4. block' \in 1 .. Blocks /\ dpc' \in {"idle", "send"}
  BY <1>1, <1>2, <1>3
<1>5. far' \in {"there", "closed", "gone", "reset"}
  BY DEF Down!SendBlock, DownlinkWell, Down!DownlinkTypeOK
<1>6. inbox' \in [Hosts -> Seq((1 .. MaxFiles) \X (1 .. Blocks))]
  <2>1. inbox \in [Hosts -> Seq((1 .. MaxFiles) \X (1 .. Blocks))]
    BY DEF DownlinkWell, Down!DownlinkTypeOK
  <2>2. <<file, block>> \in (1 .. MaxFiles) \X (1 .. Blocks)
    BY <1>1, <1>3
  <2>3. inbox' = inbox \/ inbox' = [inbox EXCEPT ![peer] = Append(@, <<file, block>>)]
    BY DEF Down!SendBlock
  <2>4. peer \in Hosts
    BY <1>2 DEF DownlinkInv, Connected
  <2>5. Append(inbox[peer], <<file, block>>) \in Seq((1 .. MaxFiles) \X (1 .. Blocks))
    BY <2>1, <2>2, <2>4
  <2>6. QED
    BY <2>1, <2>3, <2>5
<1>7. QED
  BY <1>2, <1>3, <1>4, <1>5, <1>6 DEF DownlinkWell, Down!DownlinkTypeOK

LEMMA DownlinkWellNext == DownlinkInv /\ DownlinkWell /\ [Next]_vars => DownlinkWell'
<1> SUFFICES ASSUME DownlinkInv, DownlinkWell, [Next]_vars PROVE DownlinkWell'
  OBVIOUS
<1>1. CASE UNCHANGED downlinkVars
  BY <1>1, DownlinkWellUnchanged
<1>2. CASE Accept \/ Host
  BY <1>2, DownlinkWellAccept DEF Accept, Host
<1>3. CASE Downlink
  BY <1>3, DownlinkWellAccept, DownlinkWellStep, DownlinkWellSend DEF Downlink, Down!Downloading
<1>4. Accept \/ Downlink \/ Host \/ UNCHANGED downlinkVars
  BY DEF Next, vars, Uplink, Clock, Rotator
<1>5. QED
  BY <1>1, <1>2, <1>3, <1>4
-----------------------------------------------------------------------------
(* What is measured is longer than the header, and what is sent is not empty.   *)
Sized(t) ==
  /\ packet[t].size \in Nat /\ packet[t].own \in Nat
  /\ upc[t] \in {"header", "size", "data"} => packet[t].size > Up!HeaderSize
  /\ upc[t] \in {"size", "data", "execute"} => packet[t].of.size > 0

AirTyped == [by : Up!Threads, nr : Nat, size : Nat, length : 0 .. 255, own : Nat,
             crossed : BOOLEAN, floor : Nat]

UplinkWell ==
  /\ free \in Nat /\ lost \in Nat /\ data_size \in Nat
  /\ uploads \in 0 .. MaxUploads /\ commands \in 0 .. MaxCommands
  /\ running \in BOOLEAN
  /\ \A t \in Up!Threads : Sized(t)
  /\ air \in Seq(AirTyped)

(* The places Sized speaks of.                                                *)
Reading == {"header", "size", "data", "execute"}

LEMMA NoPacketSized == Up!NoPacket.size = 0 /\ Up!NoPacket.own = 0
BY DEF Up!NoPacket

LEMMA UplinkWellInit == Init => UplinkWell
<1> SUFFICES ASSUME Init PROVE UplinkWell
  OBVIOUS
<1>1. Up!UplinkInit /\ Buffers \in Nat /\ MaxUploads \in Nat /\ MaxCommands \in Nat
  BY CommandsAssumption DEF Init
<1>2. ASSUME NEW t \in Up!Threads PROVE Sized(t)
  <2>1. packet[t] = Up!NoPacket /\ upc[t] = "idle"
    BY <1>1, <1>2 DEF Up!UplinkInit
  <2>2. QED
    BY <2>1, NoPacketSized DEF Sized
<1>3. QED
  BY <1>1, <1>2 DEF UplinkWell, Up!UplinkInit

(* Nothing but the threads' places, the name, the files and the clock.         *)
LEMMA UplinkWellKept ==
  ASSUME UplinkWell, free' \in Nat, UNCHANGED <<lost, running, air, data_size>>,
         uploads' \in 0 .. MaxUploads, commands' \in 0 .. MaxCommands,
         \A t \in Up!Threads : packet'[t] = packet[t] \/ packet'[t] = Up!NoPacket,
         \A t \in Up!Threads : upc'[t] \in Reading => upc'[t] = upc[t] /\ packet'[t] = packet[t]
  PROVE  UplinkWell'
<1>1. \A t \in Up!Threads : Sized(t)'
  BY NoPacketSized DEF UplinkWell, Sized, Reading
<1>2. QED
  BY <1>1 DEF UplinkWell

LEMMA UplinkWellOther ==
  ASSUME UplinkInv, UplinkWell, NEW t \in Up!Threads,
         \/ Up!Tick \/ Up!Receive \/ Up!Name \/ Up!Save \/ Up!Retransmit
         \/ Up!GuiSend \/ Up!GetBuffer(t)
  PROVE  UplinkWell'
<1>1. MaxUploads \in Nat /\ MaxCommands \in Nat /\ free \in Nat
      /\ uploads \in 0 .. MaxUploads /\ commands \in 0 .. MaxCommands
  BY CommandsAssumption DEF UplinkWell
<1>2. UNCHANGED <<lost, running, air, packet, data_size>>
  BY DEF Up!Tick, Up!Receive, Up!Name, Up!Save, Up!Retransmit, Up!GuiSend, Up!GetBuffer
<1>3. free' \in Nat
  BY <1>1 DEF Up!Tick, Up!Receive, Up!Name, Up!Save, Up!Retransmit, Up!GuiSend,
              Up!GetBuffer
<1>4. uploads' \in 0 .. MaxUploads /\ commands' \in 0 .. MaxCommands
  BY <1>1 DEF Up!Tick, Up!Receive, Up!Name, Up!Save, Up!Retransmit, Up!GuiSend,
              Up!GetBuffer
<1>5. \A u \in Up!Threads : upc'[u] \in Reading => upc'[u] = upc[u]
  BY DEF UplinkInv, UplinkTypes, Up!Threads, Up!Goto, Up!Tick, Up!Receive, Up!Name, Up!Save,
         Up!Retransmit, Up!GuiSend, Up!GetBuffer, Reading
<1>6. QED
  BY <1>2, <1>3, <1>4, <1>5, UplinkWellKept

LEMMA UplinkWellRefuse ==
  ASSUME UplinkInv, UplinkWell, NEW t \in Up!Threads, Up!Refuse(t),
         UNCHANGED <<lost, running, air, data_size, uploads, commands>>
  PROVE  UplinkWell'
<1>1. free' \in Nat /\ uploads' \in 0 .. MaxUploads /\ commands' \in 0 .. MaxCommands
  BY DEF UplinkWell, Up!Refuse
<1>2. /\ upc' = [upc EXCEPT ![t] = "idle"] /\ packet' = [packet EXCEPT ![t] = Up!NoPacket]
  BY DEF Up!Goto, Up!Refuse
<1>3. \A u \in Up!Threads : packet'[u] = packet[u] \/ packet'[u] = Up!NoPacket
  BY <1>2 DEF UplinkInv, UplinkTypes
<1>4. \A u \in Up!Threads : upc'[u] \in Reading => upc'[u] = upc[u] /\ packet'[u] = packet[u]
  BY <1>2 DEF UplinkInv, UplinkTypes, Reading
<1>5. QED
  BY <1>1, <1>3, <1>4, UplinkWellKept

LEMMA UplinkWellGuiRefuse ==
  ASSUME UplinkInv, UplinkWell, Up!GuiRefuse PROVE UplinkWell'
BY UplinkWellRefuse DEF Up!GuiRefuse, Up!Threads

(* The process may end.                                                      *)
LEMMA UplinkWellOpenSaved ==
  ASSUME UplinkInv, UplinkWell, Up!OpenSaved PROVE UplinkWell'
<1>1. UNCHANGED <<free, lost, air, packet, data_size, uploads, commands>>
  BY DEF Up!OpenSaved
<1>2. running' \in BOOLEAN
  BY Zenon DEF Up!OpenSaved, UplinkWell
<1>3. \A u \in Up!Threads : upc'[u] \in Reading => upc'[u] = upc[u]
  BY DEF UplinkInv, UplinkTypes, Up!Goto, Up!OpenSaved, Reading
<1>4. \A u \in Up!Threads : Sized(u)'
  BY <1>1, <1>3 DEF UplinkWell, Sized, Reading
<1>5. QED
  BY <1>1, <1>2, <1>4 DEF UplinkWell

LEMMA UplinkWellOpenFile ==
  ASSUME UplinkInv, UplinkWell, NEW t \in Up!Threads, Up!OpenFile(t) PROVE UplinkWell'
<1>1. UNCHANGED <<lost, air, data_size, uploads, commands>>
  BY DEF Up!OpenFile
<1>2. CASE running' = FALSE /\ UNCHANGED <<upc, packet, free>>
  BY <1>1, <1>2 DEF UplinkWell, Sized
<1>3. CASE Up!Refuse(t) /\ UNCHANGED running
  BY <1>1, <1>3, UplinkWellRefuse
<1>4. CASE /\ files[fr_name.second].size > Up!HeaderSize
           /\ packet' = [packet EXCEPT ![t] = [Up!NoPacket EXCEPT !.file = fr_name.second,
                                                    !.size = files[fr_name.second].size]]
           /\ upc' = [upc EXCEPT ![t] = "header"] /\ UNCHANGED <<free, running>>
  <2> DEFINE size == files[fr_name.second].size
  <2>1. size \in Int
    BY DEF UplinkInv, UplinkTypes, Up!Contents
  <2>2. packet'[t] = [Up!NoPacket EXCEPT !.file = fr_name.second, !.size = size]
    BY <1>4 DEF UplinkInv, UplinkTypes
  <2>3. packet'[t].size = size /\ packet'[t].own = Up!NoPacket.own
    BY <2>2, NoPacketTyped DEF Packets
  <2>4. size \in Nat /\ size > Up!HeaderSize
    BY <1>4, <2>1 DEF Up!HeaderSize
  <2> HIDE DEF size
  <2>5. upc'[t] = "header"
    BY <1>4 DEF UplinkInv, UplinkTypes
  <2>6. Sized(t)'
    BY <2>3, <2>4, <2>5, NoPacketSized DEF Sized, Up!HeaderSize
  <2>7. \A u \in Up!Threads : u # t => packet'[u] = packet[u] /\ upc'[u] = upc[u]
    BY <1>4 DEF UplinkInv, UplinkTypes
  <2>8. \A u \in Up!Threads : Sized(u)'
    BY <2>6, <2>7 DEF UplinkWell, Sized
  <2>9. QED
    BY <1>1, <1>4, <2>8 DEF UplinkWell
<1>5. QED
  BY <1>2, <1>3, <1>4 DEF Up!OpenFile, Up!Goto, Up!NamedFile, Up!Named

LEMMA UplinkWellReadHeader ==
  ASSUME UplinkInv, UplinkWell, NEW t \in Up!Threads, Up!ReadHeader(t) PROVE UplinkWell'
<1> DEFINE content == files[packet[t].file]
<1>1. upc[t] = "header" /\ UNCHANGED <<lost, running, air, data_size, uploads, commands>>
  BY DEF Up!ReadHeader
<1>2. CASE Up!Refuse(t)
  BY <1>1, <1>2, UplinkWellRefuse
<1>3. CASE /\ content.size > 0
           /\ packet' = [packet EXCEPT ![t].of = content]
           /\ upc' = [upc EXCEPT ![t] = "size"] /\ UNCHANGED free
  <2> HIDE DEF content
  <2>1. packet[t] \in Packets
    BY DEF UplinkInv, UplinkTypes
  <2>2. packet'[t] = [packet[t] EXCEPT !.of = content]
    BY <1>3 DEF UplinkInv, UplinkTypes
  <2>3. packet'[t].of = content /\ packet'[t].own = packet[t].own /\ packet'[t].size = packet[t].size
    BY <2>1, <2>2 DEF Packets
  <2>4. upc'[t] = "size"
    BY <1>3 DEF UplinkInv, UplinkTypes
  <2>5. Sized(t)'
    BY <1>1, <1>3, <2>3, <2>4 DEF UplinkWell, Sized
  <2>6. \A u \in Up!Threads : u # t => packet'[u] = packet[u] /\ upc'[u] = upc[u]
    BY <1>3 DEF UplinkInv, UplinkTypes
  <2>7. \A u \in Up!Threads : Sized(u)'
    BY <2>5, <2>6 DEF UplinkWell, Sized
  <2>8. QED
    BY <1>1, <1>3, <2>7 DEF UplinkWell
<1>4. QED
  BY <1>2, <1>3 DEF Up!ReadHeader, Up!Goto

LEMMA UplinkWellSetDataSize ==
  ASSUME UplinkInv, UplinkWell, NEW t \in Up!Threads, Up!SetDataSize(t) PROVE UplinkWell'
<1>1. /\ upc[t] = "size" /\ upc' = [upc EXCEPT ![t] = "data"]
      /\ data_size' = Up!DataSize(packet[t].size)
      /\ UNCHANGED <<free, lost, running, air, uploads, commands>>
  BY DEF Up!SetDataSize, Up!Goto
<1>2. \A u \in Up!Threads : /\ packet'[u].size = packet[u].size /\ packet'[u].own = packet[u].own
                            /\ packet'[u].of = packet[u].of
  BY SetDataSizePackets DEF UplinkInv
<1>3. packet[t].size \in Nat /\ packet[t].size > Up!HeaderSize
  BY <1>1 DEF UplinkWell, Sized
<1>4. data_size' \in Nat
  BY <1>1, <1>3 DEF Up!DataSize, Up!HeaderSize
<1>5. upc'[t] = "data" /\ \A u \in Up!Threads : u # t => upc'[u] = upc[u]
  BY <1>1 DEF UplinkInv, UplinkTypes
<1>6. \A u \in Up!Threads : Sized(u)'
  BY <1>1, <1>2, <1>5 DEF UplinkWell, Sized
<1>7. QED
  BY <1>1, <1>4, <1>6 DEF UplinkWell

LEMMA UplinkWellReadData ==
  ASSUME UplinkInv, UplinkWell, NEW t \in Up!Threads, Up!ReadData(t) PROVE UplinkWell'
<1>1. upc[t] = "data" /\ UNCHANGED <<lost, running, air, data_size, uploads, commands>>
  BY DEF Up!ReadData
<1>2. CASE Up!Refuse(t)
  BY <1>1, <1>2, UplinkWellRefuse
<1>3. ASSUME NEW n \in {Up!DataSize(packet[t].size), data_size},
             packet' = [packet EXCEPT ![t].own = Up!Kept(t, n)],
             upc' = [upc EXCEPT ![t] = "execute"], UNCHANGED free
      PROVE  UplinkWell'
  <2> DEFINE own == Up!Kept(t, n)
  <2>1. packet[t] \in Packets
    BY DEF UplinkInv, UplinkTypes
  <2>2. packet[t].of.size \in Int
    BY <2>1 DEF Packets, Up!Contents
  <2>3. packet[t].size \in Nat /\ packet[t].size > Up!HeaderSize /\ data_size \in Nat
    BY <1>1 DEF UplinkWell, Sized
  <2>4. n \in Nat
    BY <1>3, <2>3 DEF Up!DataSize, Up!HeaderSize
  <2>5. own \in Nat
    BY <2>2, <2>4 DEF Up!Kept, Up!Smaller, Up!HeaderSize
  <2> HIDE DEF own
  <2>6. packet'[t] = [packet[t] EXCEPT !.own = own]
    BY <1>3 DEF UplinkInv, UplinkTypes, own
  <2>7. /\ packet'[t].own = own /\ packet'[t].of = packet[t].of
        /\ packet'[t].size = packet[t].size
    BY <2>1, <2>6 DEF Packets
  <2>8. upc'[t] = "execute"
    BY <1>3 DEF UplinkInv, UplinkTypes
  <2>9. Sized(t)'
    BY <1>1, <2>5, <2>7, <2>8 DEF UplinkWell, Sized
  <2>10. \A u \in Up!Threads : u # t => packet'[u] = packet[u] /\ upc'[u] = upc[u]
    BY <1>3 DEF UplinkInv, UplinkTypes
  <2>11. \A u \in Up!Threads : Sized(u)'
    BY <2>9, <2>10 DEF UplinkWell, Sized
  <2>12. QED
    BY <1>1, <1>3, <2>11 DEF UplinkWell
<1>4. QED
  BY <1>2, <1>3 DEF Up!ReadData, Up!Goto

LEMMA UplinkWellExecute ==
  ASSUME UplinkInv, UplinkWell, NEW t \in Up!Threads,
         Up!SendTo(t) \/ Up!RunCommand(t) \/ Up!Report(t)
  PROVE  UplinkWell'
<1>1. UNCHANGED <<running, data_size, uploads, commands>>
  BY DEF Up!SendTo, Up!RunCommand, Up!Report
<1>2. packet[t] \in Packets
  BY DEF UplinkInv, UplinkTypes
<1>3. /\ upc'[t] \notin Reading
      /\ \A u \in Up!Threads : u # t => packet'[u] = packet[u] /\ upc'[u] = upc[u]
  BY DEF UplinkInv, UplinkTypes, Up!SendTo, Up!RunCommand, Up!Report, Up!Goto, Reading
<1>4. \/ packet'[t].size = packet[t].size /\ packet'[t].own = packet[t].own
      \/ packet'[t] = Up!NoPacket
  <2>1. \/ packet'[t] = [packet[t] EXCEPT !.taken = TRUE]
        \/ packet'[t] = [packet[t] EXCEPT !.ok = packet[t].of.valid]
        \/ packet'[t] = Up!NoPacket
    BY Zenon DEF UplinkInv, UplinkTypes, Up!SendTo, Up!RunCommand, Up!Report
  <2>2. QED
    BY <1>2, <2>1 DEF Packets
<1>5. \A u \in Up!Threads : Sized(u)'
  BY <1>3, <1>4, NoPacketSized DEF UplinkWell, Sized, Reading
<1>6. free' \in Nat /\ lost' \in Nat /\ air' \in Seq(AirTyped)
  <2>1. free \in Nat /\ lost \in Nat /\ air \in Seq(AirTyped)
    BY DEF UplinkWell
  <2>2. CASE Up!SendTo(t)
    <3> DEFINE p == [by |-> t, nr |-> packet[t].of.nr, size |-> packet[t].of.size,
                     length |-> packet[t].of.length, own |-> packet[t].own,
                     crossed |-> packet[t].crossed, floor |-> floor]
    <3>1. \/ air' = Append(air, p) /\ free' = free + 1 /\ UNCHANGED lost
          \/ lost' = lost + 1 /\ UNCHANGED <<air, free>>
      BY <2>2 DEF Up!SendTo
    <3>2. /\ packet[t].of.nr \in Nat /\ packet[t].of.size \in Int /\ floor \in Nat
          /\ packet[t].of.length \in 0 .. 255 /\ packet[t].crossed \in BOOLEAN
      BY <1>2 DEF UplinkInv, UplinkTypes, Packets, Up!Contents
    <3>3. packet[t].of.size > 0 /\ packet[t].own \in Nat
      BY <2>2 DEF UplinkWell, Sized, Up!SendTo
    <3>4. packet[t].of.size \in Nat
      BY <3>2, <3>3
    <3>5. p \in AirTyped
      BY <3>2, <3>3, <3>4 DEF AirTyped
    <3> HIDE DEF p
    <3>6. QED
      BY <2>1, <3>1, <3>5
  <2>3. CASE Up!RunCommand(t) \/ Up!Report(t)
    BY <2>1, <2>3 DEF Up!RunCommand, Up!Report
  <2>4. QED
    BY <2>2, <2>3
<1>7. QED
  BY <1>1, <1>5, <1>6 DEF UplinkWell

LEMMA UplinkWellNext == UplinkInv /\ UplinkWell /\ [Next]_vars => UplinkWell'
<1> SUFFICES ASSUME UplinkInv, UplinkWell, [Next]_vars PROVE UplinkWell'
  OBVIOUS
<1>1. CASE Uplink
  <2>1. PICK t \in Up!Threads : Up!UplinkStep(t)
    BY <1>1 DEF Uplink
  <2>2. QED
    BY <2>1, UplinkWellOther, UplinkWellOpenSaved, UplinkWellOpenFile, UplinkWellReadHeader,
       UplinkWellSetDataSize, UplinkWellReadData, UplinkWellGuiRefuse, UplinkWellExecute
    DEF Up!UplinkStep
<1>2. CASE Clock
  BY <1>2, UplinkWellOther DEF Clock, Up!Threads
<1>3. CASE Rotator \/ Accept \/ Downlink \/ Host \/ UNCHANGED vars
  <2>1. UNCHANGED senderVars
    BY <1>3 DEF Rotator, Accept, Downlink, Host, vars
  <2>2. running' \in BOOLEAN
    BY <1>3, Zenon DEF Rotator, Accept, Downlink, Host, vars, UplinkWell, Down!Accept,
       Down!CopyAddress, Down!Downloading, Down!Call, Down!ConnectFails, Down!ConnectSucceeds,
       Down!OpenFile, Down!SendBlock, Down!SendFails, Down!SendKills, Down!HostLeaves
  <2>3. QED
    BY <2>1, <2>2 DEF senderVars, UplinkWell, Sized
<1>4. QED
  BY <1>1, <1>2, <1>3 DEF Next

(* The types of all that the threads keep.                                    *)
THEOREM TypeCorrect == Spec => []TypeOK
<1>1. UplinkInv /\ UplinkWell => Up!UplinkTypeOK
  <2> SUFFICES ASSUME UplinkInv, UplinkWell PROVE Up!UplinkTypeOK
    OBVIOUS
  <2>1. free \in 0 .. Buffers
    <3>1. free + lost + Cardinality(Holders) = Buffers /\ Cardinality(Holders) \in Nat
      BY HoldersFinite DEF UplinkInv, Balance
    <3>2. QED
      BY <3>1, CommandsAssumption DEF UplinkWell
  <2>2. packet \in [Up!Threads -> [file : 0 .. Seconds, size : Nat, of : Up!Contents, own : Nat,
                                   ok : BOOLEAN, taken : BOOLEAN, crossed : BOOLEAN]]
    <3>1. \A t \in Up!Threads :
            packet[t] \in [file : 0 .. Seconds, size : Nat, of : Up!Contents, own : Nat,
                           ok : BOOLEAN, taken : BOOLEAN, crossed : BOOLEAN]
      <4>1. \A t \in Up!Threads : packet[t] \in Packets /\ packet[t].size \in Nat
                                    /\ packet[t].own \in Nat
        BY DEF UplinkInv, UplinkTypes, UplinkWell, Sized
      <4>2. QED
        BY <4>1 DEF Packets
    <3>2. QED
      BY <3>1 DEF UplinkInv, UplinkTypes
  <2>3. QED
    BY <2>1, <2>2 DEF UplinkInv, UplinkTypes, UplinkWell, Up!UplinkTypeOK, Labels, AirTyped
<1>2. UplinkInv /\ UplinkWell /\ RotatorWell /\ DownlinkWell => TypeOK
  BY <1>1 DEF TypeOK, RotatorWell, DownlinkWell
<1>3. QED
  BY <1>2, UplinkInvInit, UplinkInvNext, UplinkWellInit, UplinkWellNext, RotatorWellInit,
     RotatorWellNext, DownlinkInvInit, DownlinkInvNext, DownlinkWellInit, DownlinkWellNext,
     PTL DEF Spec
==============================================================================
