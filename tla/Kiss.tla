--------------------------------- MODULE Kiss ---------------------------------
(***************************************************************************)
(* The KISS interface (csp_if_kiss.c) at both ends of a serial line: threads  *)
(* that send packets through csp_kiss_tx, which share kiss_lock, and            *)
(* csp_kiss_rx, which takes the line byte by byte.  On the line bytes get lost, *)
(* changed and added.                                                        *)
(*                                                                         *)
(* The four bytes of the CSP header are one here, and so are the four of the     *)
(* CRC.  A CRC is the negated number of its frame, which noise never imitates:  *)
(* that CRC32 detects every damage is assumed.                                *)
(***************************************************************************)
EXTENDS Integers, Sequences, FiniteSets

CONSTANTS
  Senders,    \* threads that send
  Payloads,   \* what they send: sequences of bytes
  Noise,      \* the bytes a fault may make
  Mtu,        \* KISS_MTU
  MaxFrames,  \* a bound of the model: frames sent
  MaxFaults   \* a bound of the model: bytes lost, changed or added, and waits for
              \* kiss_lock that time out

FEND == 192
FESC == 219
TFEND == 220
TFESC == 221
TNC_DATA == 0

(* Any byte that needs no escape, for the header.                            *)
HeaderByte == 1

(* csp_send_direct refuses a packet whose data is longer than the mtu.       *)
ASSUME KissAssumption ==
  /\ IsFiniteSet(Senders)
  /\ Mtu \in Nat /\ MaxFrames \in Nat /\ MaxFaults \in Nat
  /\ Payloads \subseteq Seq(0 .. 255)
  /\ \A d \in Payloads : Len(d) <= Mtu
  /\ Noise \subseteq 0 .. 255

VARIABLES
  lock,       \* the value of kiss_lock: two posts at once may make it 2
  tpc,        \* where each sender is: "idle", "lock", "send", "post" or "up"
  at,         \* how much of its frame it has put on the line
  escaped,    \* it has put FESC and not yet what follows
  payload,    \* the data of its packet
  number,     \* the number of its frame
  rx,         \* the receiver: rx_mode, rx_first, whether rx_packet is there, and
              \* its first rx_length bytes
  routed,     \* what csp_qfifo_write got: header, data and the frame's number
  frames,     \* history: the data of the frames begun
  taken,      \* history: buffers the receiver got
  faults,     \* how many faults there have been
  streak,     \* history: how many frames in a row have just gone over the line
              \* undisturbed; -1 after a disturbance, until the next one begins
  late,       \* history: a wait for kiss_lock has timed out
  starved     \* history: the receiver has found no buffer

vars == <<lock, tpc, at, escaped, payload, number, rx, routed, frames, taken, faults,
          streak, late, starved>>

Init ==
  /\ lock = 1
  /\ tpc = [s \in Senders |-> "idle"]
  /\ at = [s \in Senders |-> 0]
  /\ escaped = [s \in Senders |-> FALSE]
  /\ payload = [s \in Senders |-> <<>>]
  /\ number = [s \in Senders |-> 0]
  /\ rx = [mode |-> "not_started", first |-> FALSE, packet |-> FALSE, data |-> <<>>]
  /\ routed = <<>> /\ frames = <<>>
  /\ taken = 0 /\ faults = 0 /\ streak = 0
  /\ late = FALSE /\ starved = FALSE

-----------------------------------------------------------------------------
(* csp_kiss_rx.                                                              *)

(* Mutant: one byte later.                                                   *)
Unfilled_Late(r) ==
  IF Len(r.data) > Mtu + 1 THEN [r EXCEPT !.mode = "not_started", !.data = <<>>] ELSE r

(* Mutant: the mode stays as it is.                                          *)
Unfilled_Started(r) == IF Len(r.data) > Mtu THEN [r EXCEPT !.data = <<>>] ELSE r

(* Before each byte: a packet that has become too long is given up.          *)
Unfilled(r) ==
  IF Len(r.data) > Mtu THEN [r EXCEPT !.mode = "not_started", !.data = <<>>] ELSE r

Stored(r, b) == [r EXCEPT !.data = Append(@, b)]

(* The CRC of the data, which does not cover the header.                     *)
CrcRight(content) ==
  LET n == -content[Len(content)] IN
    n > 0 /\ SubSeq(content, 2, Len(content) - 1) = frames[n]

NotStarted(r, b) ==
  /\ r.mode = "not_started"
  /\ \/ b # FEND /\ rx' = r /\ UNCHANGED taken
     \/ /\ b = FEND /\ ~r.packet
        /\ rx' = [r EXCEPT !.mode = "skip_frame"]
        /\ UNCHANGED taken
     \/ /\ b = FEND
        /\ rx' = [r EXCEPT !.mode = "started", !.first = TRUE, !.packet = TRUE, !.data = <<>>]
        /\ taken' = IF r.packet THEN taken ELSE taken + 1
  /\ UNCHANGED routed

(* Mutant: the buffer of a bad frame is forgotten.                           *)
BadFrame_Leaking(r) == [r EXCEPT !.mode = "not_started", !.packet = FALSE]

(* A short frame, or a wrong CRC: the buffer is kept for the next frame.     *)
BadFrame(r) == [r EXCEPT !.mode = "not_started"]

(* Mutant: rx_packet is passed on and the mode stays as it is.               *)
AfterRouting_Started(r) == [r EXCEPT !.packet = FALSE]

AfterRouting(r) == [r EXCEPT !.mode = "not_started", !.packet = FALSE]

(* FEND: repeated, the end of a bad frame, or that of a packet for the router.  *)
EndOfFrame(r) ==
  \/ /\ r.data = <<>>
     /\ rx' = r
     /\ UNCHANGED routed
  \/ /\ r.data # <<>> /\ (Len(r.data) < 2 \/ ~CrcRight(r.data))
     /\ rx' = BadFrame(r)
     /\ UNCHANGED routed
  \/ /\ Len(r.data) >= 2 /\ CrcRight(r.data)
     /\ rx' = AfterRouting(r)
     /\ routed' = Append(routed, [header |-> r.data[1],
                                  data |-> SubSeq(r.data, 2, Len(r.data) - 1),
                                  nr |-> -r.data[Len(r.data)]])

Started(r, b) ==
  /\ r.mode = "started"
  /\ \/ b = FESC /\ rx' = [r EXCEPT !.mode = "escaped"] /\ UNCHANGED routed
     \/ b = FEND /\ EndOfFrame(r)
     \/ /\ b \notin {FESC, FEND}
        /\ rx' = IF r.first THEN [r EXCEPT !.first = FALSE] ELSE Stored(r, b)
        /\ UNCHANGED routed
  /\ UNCHANGED taken

(* What stands for what; any other byte is swallowed.                        *)
Unescaped(b) == IF b = TFESC THEN <<FESC>> ELSE IF b = TFEND THEN <<FEND>> ELSE <<>>

Escaped(r, b) ==
  /\ r.mode = "escaped"
  /\ rx' = [r EXCEPT !.mode = "started", !.data = @ \o Unescaped(b)]
  /\ UNCHANGED <<routed, taken>>

SkipFrame(r, b) ==
  /\ r.mode = "skip_frame"
  /\ rx' = IF b = FEND THEN [r EXCEPT !.mode = "not_started"] ELSE r
  /\ UNCHANGED <<routed, taken>>

(* The receiver has just found no buffer.                                    *)
Starving == rx.mode # "skip_frame" /\ rx'.mode = "skip_frame"

(* One byte of csp_kiss_rx.                                                  *)
Rx(b) ==
  /\ LET r == Unfilled(rx) IN
       NotStarted(r, b) \/ Started(r, b) \/ Escaped(r, b) \/ SkipFrame(r, b)
  /\ starved' = (starved \/ Starving)

-----------------------------------------------------------------------------
(* csp_kiss_tx.                                                              *)

(* The first FEND is next.                                                   *)
Opening(s) == tpc[s] = "send" /\ at[s] = 0

Call(s) ==
  /\ tpc[s] = "idle"
  /\ Len(frames) + Cardinality({t \in Senders : tpc[t] = "lock" \/ Opening(t)}) < MaxFrames
  /\ \E d \in Payloads : payload' = [payload EXCEPT ![s] = d]
  /\ tpc' = [tpc EXCEPT ![s] = "lock"]
  /\ UNCHANGED <<lock, at, escaped, number, rx, routed, frames, taken, faults, streak,
                 late, starved>>

(* Mutant: kiss_lock is not taken.                                           *)
Lock_Not(s) ==
  /\ tpc[s] = "lock"
  /\ tpc' = [tpc EXCEPT ![s] = "send"]
  /\ UNCHANGED <<lock, at, escaped, payload, number, rx, routed, frames, taken, faults,
                 streak, late, starved>>

(* csp_bin_sem_wait succeeds, or it times out: csp_kiss_tx goes on all the same. *)
Lock(s) ==
  /\ tpc[s] = "lock"
  /\ \/ lock > 0 /\ lock' = lock - 1 /\ UNCHANGED <<late, faults>>
     \/ lock = 0 /\ faults < MaxFaults /\ late' = TRUE /\ faults' = faults + 1 /\ lock' = lock
  /\ tpc' = [tpc EXCEPT ![s] = "send"]
  /\ UNCHANGED <<at, escaped, payload, number, rx, routed, frames, taken, streak, starved>>

(* The header, the data and the CRC.                                         *)
Content(s) == <<HeaderByte>> \o payload[s] \o <<-number[s]>>

(* The length of the frame, without the escapes.                             *)
FrameLength(s) == Len(payload[s]) + 5

Special(b) == b \in {FEND, FESC}

(* The byte of the frame s is at.                                            *)
Current(s) ==
  IF at[s] \in {0, FrameLength(s) - 1} THEN FEND
  ELSE IF at[s] = 1 THEN TNC_DATA
  ELSE Content(s)[at[s] - 1]

InContent(s) == at[s] \in 2 .. FrameLength(s) - 2

(* FESC goes first.                                                          *)
MustEscape(s) == InContent(s) /\ Special(Current(s)) /\ ~escaped[s]

(* What kiss_putc gets.                                                      *)
Output(s) ==
  IF MustEscape(s) THEN FESC
  ELSE IF InContent(s) /\ Current(s) = FEND THEN TFEND
  ELSE IF InContent(s) /\ Current(s) = FESC THEN TFESC
  ELSE Current(s)

Last(s) == at[s] = FrameLength(s) - 1

(* s puts its next byte; the first one numbers the frame.                    *)
Advance(s) ==
  /\ escaped' = [escaped EXCEPT ![s] = MustEscape(s)]
  /\ at' = [at EXCEPT ![s] = IF MustEscape(s) THEN @ ELSE @ + 1]
  /\ tpc' = [tpc EXCEPT ![s] = IF Last(s) THEN "post" ELSE @]
  /\ IF at[s] = 0
       THEN frames' = Append(frames, payload[s]) /\ number' = [number EXCEPT ![s] = Len(frames')]
       ELSE UNCHANGED <<frames, number>>

(* Another frame is on its way.                                              *)
Alone(s) == \A t \in Senders \ {s} : ~(tpc[t] = "send" /\ at[t] > 0)

(* The next byte arrives as it is.                                           *)
Putc(s) ==
  /\ tpc[s] = "send"
  /\ Advance(s)
  /\ Rx(Output(s))
  /\ streak' = IF ~Alone(s) \/ Starving THEN -1
               ELSE IF at[s] = 0 /\ streak = -1 THEN 0
               ELSE IF Last(s) /\ streak >= 0 THEN streak + 1
               ELSE streak
  /\ UNCHANGED <<lock, payload, faults, late>>

(* csp_bin_sem_post, whether it was taken or not, reads the value first.       *)
Post(s) ==
  /\ tpc[s] = "post"
  /\ tpc' = [tpc EXCEPT ![s] = IF lock > 0 THEN "idle" ELSE "up"]
  /\ payload' = [payload EXCEPT ![s] = <<>>]
  /\ number' = [number EXCEPT ![s] = 0]
  /\ at' = [at EXCEPT ![s] = 0]
  /\ UNCHANGED <<lock, escaped, rx, routed, frames, taken, faults, streak, late, starved>>

(* sem_post, whatever the value is by now.                                    *)
Up(s) ==
  /\ tpc[s] = "up"
  /\ lock' = lock + 1
  /\ tpc' = [tpc EXCEPT ![s] = "idle"]
  /\ UNCHANGED <<at, escaped, payload, number, rx, routed, frames, taken, faults, streak,
                 late, starved>>

-----------------------------------------------------------------------------
(* The line.                                                                 *)

Fault ==
  /\ faults < MaxFaults
  /\ faults' = faults + 1
  /\ streak' = -1

Lose(s) ==
  /\ tpc[s] = "send"
  /\ Fault
  /\ Advance(s)
  /\ UNCHANGED <<lock, payload, rx, routed, taken, late, starved>>

Change(s) ==
  /\ tpc[s] = "send"
  /\ Fault
  /\ Advance(s)
  /\ \E b \in Noise : Rx(b)
  /\ UNCHANGED <<lock, payload, late>>

Add ==
  /\ Fault
  /\ \E b \in Noise : Rx(b)
  /\ UNCHANGED <<lock, tpc, at, escaped, payload, number, frames, late>>

Next ==
  \/ Add
  \/ \E s \in Senders : 
       Call(s) \/ Lock(s) \/ Putc(s) \/ Post(s) \/ Up(s) \/ Lose(s) \/ Change(s)

Spec == Init /\ [][Next]_vars

-----------------------------------------------------------------------------
Bytes == 0 .. 255

Units == -MaxFrames .. 255

TypeOK ==
  /\ lock \in Nat
  /\ tpc \in [Senders -> {"idle", "lock", "send", "post", "up"}]
  /\ at \in [Senders -> 0 .. Mtu + 5]
  /\ escaped \in [Senders -> BOOLEAN]
  /\ payload \in [Senders -> Seq(Bytes)]
  /\ number \in [Senders -> 0 .. MaxFrames]
  /\ rx \in [mode : {"not_started", "started", "escaped", "skip_frame"},
             first : BOOLEAN, packet : BOOLEAN, data : Seq(Units)]
  /\ rx.mode \in {"started", "escaped"} => rx.packet
  /\ Len(rx.data) <= Mtu + 1
  /\ routed \in Seq([header : Units, data : Seq(Bytes), nr : 1 .. MaxFrames])
  /\ frames \in Seq(Payloads)
  /\ taken \in Nat /\ faults \in 0 .. MaxFaults
  /\ streak \in -1 .. MaxFrames
  /\ late \in BOOLEAN /\ starved \in BOOLEAN

(* Whatever happens to the line and however frames run into each other, the      *)
(* router gets no packet twice; and in the order they were sent, unless waits   *)
(* for kiss_lock have let frames overlap.                                     *)
RoutedOnce ==
  \A j, k \in 1 .. Len(routed) : j < k =>
    IF late THEN routed[j].nr # routed[k].nr ELSE routed[j].nr < routed[k].nr

(* No frame is on its way.                                                   *)
Silent == \A s \in Senders : at[s] > 0 => tpc[s] = "post"

(* What is received without an overflow: the decoder counts header and CRC, too. *)
Fits(n) == Len(frames[n]) + 2 <= Mtu

(* What the router gets of frame n.                                          *)
Arrived(n) == [header |-> HeaderByte, data |-> frames[n], nr |-> n]

LastArrived == routed # <<>> /\ routed[Len(routed)] = Arrived(Len(frames))

(* Whatever a disturbance has left in rx_mode, rx_first, rx_length and           *)
(* rx_packet, one undisturbed frame puts it right: the second arrives.         *)
SecondArrives == Silent /\ streak >= 2 /\ Fits(Len(frames)) => LastArrived

(* On a line without faults, with buffers and with waits that do not time out,  *)
(* the packets whose frames fit arrive, and all that arrives does so whole and   *)
(* in order.                                                                  *)
AllArrive ==
  Silent /\ faults = 0 /\ ~starved =>
    /\ \A n \in 1 .. Len(frames) : Fits(n) => \E k \in 1 .. Len(routed) : routed[k] = Arrived(n)
    /\ \A k \in 1 .. Len(routed) :
         LET n == routed[k].nr IN n <= Len(frames) /\ routed[k] = Arrived(n)
    /\ \A j, k \in 1 .. Len(routed) : j < k => routed[j].nr < routed[k].nr

(* What mtu.rst promises: the mtu "is the total amount of data that you can put   *)
(* into the CSP-packet", so whatever csp_send_direct lets through arrives.  The    *)
(* code does not keep it: with header and CRC a packet close to the mtu is too    *)
(* long for csp_kiss_rx, which gives it up.                                    *)
MtuArrives ==
  Silent /\ faults = 0 /\ ~starved =>
    \A n \in 1 .. Len(frames) : \E k \in 1 .. Len(routed) : routed[k] = Arrived(n)

(* No path of csp_kiss_rx loses a buffer: it has been passed to the router or     *)
(* is kept for the next frame.                                                *)
BuffersKept == taken = Len(routed) + (IF rx.packet THEN 1 ELSE 0)
=============================================================================
