------------------------------ MODULE KissProofs ------------------------------
(***************************************************************************)
(* What TLAPS proves of Kiss, for any senders, payloads, noise and mtu and any  *)
(* number of frames and faults.                                              *)
(***************************************************************************)
EXTENDS Kiss, FiniteSetTheorems, SequenceTheorems, TLAPS

(* Where a sender is in its frame, and what it is a frame of.                 *)
SenderOK(s) ==
  /\ tpc[s] \in {"idle", "lock", "up"} => at[s] = 0
  /\ tpc[s] \notin {"idle", "up"} => payload[s] \in Payloads
  /\ tpc[s] = "send" => at[s] < FrameLength(s)
  /\ tpc[s] = "post" => at[s] = FrameLength(s)
  /\ at[s] = 0 => number[s] = 0
  /\ at[s] > 0 => number[s] \in 1 .. Len(frames) /\ frames[number[s]] = payload[s]
  /\ escaped[s] => tpc[s] = "send" /\ InContent(s) /\ Special(Current(s))

(* The senders that have yet to begin their frame.                           *)
Waiting == {t \in Senders : tpc[t] = "lock" \/ Opening(t)}

Room == Len(frames) + Cardinality(Waiting) <= MaxFrames

OnLine(s) == tpc[s] = "send" /\ at[s] > 0

StreakOK ==
  /\ streak <= Len(frames)
  /\ streak >= 0 => \A s \in Senders : OnLine(s) => streak < Len(frames) /\ Alone(s)

(* What is received is a byte or the number of a frame that has begun.        *)
Seen == -Len(frames) .. 255

KissTypes ==
  /\ TypeOK
  /\ \A s \in Senders : SenderOK(s)
  /\ Room
  /\ StreakOK
  /\ rx.data \in Seq(Seen)

-----------------------------------------------------------------------------
(* What a number in the line may become: each is routed once.                 *)

(* The router may get frame n next.                                          *)
Newer(n) ==
  \A k \in 1 .. Len(routed) : IF late THEN routed[k].nr # n ELSE routed[k].nr < n

(* s has still to put its number on the line.                                 *)
Pending(s) == at[s] > 0 /\ at[s] <= FrameLength(s) - 2

Receiving == rx.mode \in {"started", "escaped"}

NumberInv ==
  /\ \A s \in Senders : Pending(s) =>
       Newer(number[s]) /\ \A i \in 1 .. Len(rx.data) : rx.data[i] # -number[s]
  /\ Receiving /\ rx.data # <<>> /\ rx.data[Len(rx.data)] < 0 => Newer(-rx.data[Len(rx.data)])
  /\ \A k \in 1 .. Len(routed) : routed[k].nr <= Len(frames)
  /\ \A s, t \in Senders : s # t /\ at[s] > 0 => number[s] # number[t]

(* Unless a wait has timed out, kiss_lock is held by the one sender that has   *)
(* begun last.                                                               *)
Holding(s) == tpc[s] \in {"send", "post", "up"}

LockInv ==
  ~late =>
    /\ lock \in {0, 1}
    /\ \A s \in Senders : Holding(s) => lock = 0
    /\ \A s, t \in Senders : Holding(s) /\ Holding(t) => s = t
    /\ \A s \in Senders : at[s] > 0 => number[s] = Len(frames)

OnceInv == KissTypes /\ NumberInv /\ LockInv /\ RoutedOnce

-----------------------------------------------------------------------------
(* How the receiver comes into step with the senders.                        *)

Ready == rx.mode = "not_started" \/ (rx.mode = "started" /\ rx.first /\ rx.data = <<>>)

(* It has been in step since the last frame began.                           *)
Clean == streak >= 1 \/ (faults = 0 /\ ~starved)

InStep(s) ==
  /\ rx.mode = IF escaped[s] THEN "escaped" ELSE "started"
  /\ rx.first <=> at[s] = 1
  /\ Len(rx.data) = IF at[s] = 1 THEN 0 ELSE at[s] - 2
  /\ \A i \in 1 .. Len(rx.data) : rx.data[i] = Content(s)[i]

(* Whatever it was when the frame began, at its end there is something to give  *)
(* up or nothing has been begun.                                              *)
GetsReady(s) ==
  /\ rx.mode # "skip_frame"
  /\ rx.mode = "escaped" => escaped[s]
  /\ at[s] >= 2 /\ Receiving => ~rx.first
  /\ at[s] >= 3 /\ Receiving => rx.data # <<>>

FitsIn(s) == Len(payload[s]) + 2 <= Mtu

StepInv ==
  /\ Len(rx.data) > Mtu => rx.mode = "started"
  /\ Silent /\ Clean /\ streak >= 0 => Ready
  /\ streak >= 0 => \A s \in Senders : OnLine(s) =>
       /\ GetsReady(s)
       /\ Clean => InStep(s) \/ (rx.mode = "not_started" /\ ~FitsIn(s))
       /\ number[s] = Len(frames)

(* Without faults the line is never disturbed.                               *)
Undisturbed ==
  /\ late => faults > 0
  /\ faults = 0 /\ ~starved => streak >= 0

(* What fits has arrived but for the frame that is on its way, and nothing else.*)
ArrivedInv ==
  faults = 0 /\ ~starved =>
    /\ \A k \in 1 .. Len(routed) : Fits(routed[k].nr) /\ routed[k] = Arrived(routed[k].nr)
    /\ \A n \in 1 .. Len(frames) :
         Fits(n) /\ (n = Len(frames) => Silent) => \E k \in 1 .. Len(routed) : routed[k] = Arrived(n)

ArriveInv == OnceInv /\ StepInv /\ Undisturbed /\ SecondArrives /\ ArrivedInv

-----------------------------------------------------------------------------
(* Facts about sequences, in the form the proofs need them.                   *)

LEMMA Appended ==
  ASSUME NEW S, NEW q \in Seq(S), NEW e \in S
  PROVE  /\ Append(q, e) \in Seq(S) /\ Append(q, e) # <<>>
         /\ Len(q) \in Nat /\ Len(Append(q, e)) = Len(q) + 1
         /\ \A i \in 1 .. Len(q) : Append(q, e)[i] = q[i]
         /\ Append(q, e)[Len(q) + 1] = e
BY AppendProperties, LenProperties

LEMMA Enclosed ==
  ASSUME NEW S, NEW q \in Seq(S), NEW a \in S, NEW z \in S
  PROVE  LET w == <<a>> \o q \o <<z>> IN
           /\ w \in Seq(S) /\ Len(w) = Len(q) + 2
           /\ w[1] = a /\ w[Len(q) + 2] = z
           /\ \A i \in 1 .. Len(q) : w[i + 1] = q[i]
<1>1. /\ <<a>> \in Seq(S) /\ Len(<<a>>) = 1 /\ <<a>>[1] = a
      /\ <<z>> \in Seq(S) /\ Len(<<z>>) = 1 /\ <<z>>[1] = z
      /\ Len(q) \in Nat
  BY LenProperties
<1>2. PICK f : f = <<a>>
  OBVIOUS
<1>3. PICK l : l = <<z>>
  OBVIOUS
<1>4. PICK h : h = f \o q
  OBVIOUS
<1>5. /\ h \in Seq(S) /\ Len(h) = Len(q) + 1 /\ h[1] = a
      /\ \A i \in 1 .. Len(q) : h[i + 1] = q[i]
  <2>1. /\ f \o q \in Seq(S) /\ Len(f \o q) = Len(f) + Len(q)
        /\ \A i \in 1 .. Len(f) + Len(q) : (f \o q)[i] = IF i <= Len(f) THEN f[i] ELSE q[i - Len(f)]
    BY <1>1, <1>2, ConcatProperties
  <2>2. f[1] = a /\ Len(f) = 1
    BY <1>1, <1>2
  <2>3. QED
    BY <1>1, <1>4, <2>1, <2>2
<1>6. /\ h \o l \in Seq(S) /\ Len(h \o l) = Len(h) + 1
      /\ \A i \in 1 .. Len(h) + 1 : (h \o l)[i] = IF i <= Len(h) THEN h[i] ELSE l[i - Len(h)]
  <2>1. Len(l) = 1 /\ l \in Seq(S)
    BY <1>1, <1>3
  <2>2. h \in Seq(S) /\ Len(h) \in Nat
    BY <1>1, <1>5
  <2>3. /\ h \o l \in Seq(S) /\ Len(h \o l) = Len(h) + Len(l)
        /\ \A i \in 1 .. Len(h) + Len(l) : (h \o l)[i] = IF i <= Len(h) THEN h[i] ELSE l[i - Len(h)]
    BY <2>1, <2>2, ConcatProperties
  <2>4. QED
    BY <2>1, <2>2, <2>3
<1>7. l[1] = z /\ <<a>> \o q \o <<z>> = h \o l
  BY <1>1, <1>2, <1>3, <1>4
<1>8. /\ (h \o l)[1] = a /\ (h \o l)[Len(q) + 2] = z
      /\ \A i \in 1 .. Len(q) : (h \o l)[i + 1] = q[i]
  <2>0. PICK w : w = h \o l
    OBVIOUS
  <2>1. \A i \in 1 .. Len(h) : w[i] = h[i]
    BY <1>1, <1>5, <1>6, <2>0
  <2>2. w[Len(h) + 1] = l[1]
    <3>1. Len(h) + 1 \in 1 .. Len(h) + 1 /\ ~(Len(h) + 1 <= Len(h)) /\ Len(h) + 1 - Len(h) = 1
      BY <1>1, <1>5
    <3>2. QED
      BY <1>6, <2>0, <3>1
  <2>3. QED
    BY <1>1, <1>5, <1>7, <2>0, <2>1, <2>2
<1>9. QED
  BY <1>5, <1>6, <1>7, <1>8

LEMMA NotEmpty ==
  ASSUME NEW S, NEW q \in Seq(S)
  PROVE  /\ Len(q) \in Nat
         /\ q # <<>> <=> Len(q) >= 1
         /\ \A i \in 1 .. Len(q) : q[i] \in S
BY EmptySeq, LenProperties, ElementOfSeq

-----------------------------------------------------------------------------
(* The receiver.                                                             *)

Modes == {"not_started", "started", "escaped", "skip_frame"}

Receivers(S) == [mode : Modes, first : BOOLEAN, packet : BOOLEAN, data : Seq(S)]

LEMMA SeenFacts ==
  ASSUME KissTypes
  PROVE  /\ Len(frames) \in Nat /\ Len(frames) <= MaxFrames /\ frames \in Seq(Payloads)
         /\ Seen \subseteq Int /\ Seen \subseteq Units /\ Bytes \subseteq Seen
         /\ rx \in Receivers(Seen) /\ Mtu \in Nat /\ MaxFrames \in Nat
         /\ FESC \in Seen /\ FEND \in Seen
         /\ \A n \in 1 .. Len(frames) :
              frames[n] \in Payloads /\ frames[n] \in Seq(Bytes) /\ Len(frames[n]) <= Mtu
<1>1. /\ frames \in Seq(Payloads) /\ Len(frames) \in Nat /\ Mtu \in Nat /\ MaxFrames \in Nat
  BY NotEmpty, KissAssumption DEF KissTypes, TypeOK
<1>2. Cardinality(Waiting) \in Nat
  BY KissAssumption, FS_Subset, FS_CardinalityType DEF Waiting
<1>3. Len(frames) <= MaxFrames
  BY <1>1, <1>2 DEF KissTypes, Room
<1>4. Seen \subseteq Int /\ Seen \subseteq Units /\ Bytes \subseteq Seen /\ FESC \in Seen /\ FEND \in Seen
  <2>1. Seen \subseteq Int
    BY <1>1 DEF Seen
  <2>2. Seen \subseteq Units
    BY <1>1, <1>3 DEF Seen, Units
  <2>3. Bytes \subseteq Seen
    BY <1>1 DEF Seen, Bytes
  <2>4. FESC \in Seen /\ FEND \in Seen
    BY <1>1 DEF Seen, FESC, FEND
  <2>5. QED
    BY <2>1, <2>2, <2>3, <2>4
<1>5. rx \in Receivers(Seen)
  BY DEF KissTypes, TypeOK, Receivers, Modes
<1>6. \A n \in 1 .. Len(frames) : frames[n] \in Payloads
  BY <1>1, NotEmpty
<1>7. \A d \in Payloads : d \in Seq(Bytes) /\ Len(d) <= Mtu
  BY KissAssumption DEF Bytes
<1>8. QED
  BY <1>1, <1>3, <1>4, <1>5, <1>6, <1>7

LEMMA UnfilledFacts ==
  ASSUME KissTypes, NEW r, r = Unfilled(rx)
  PROVE  /\ r \in Receivers(Seen) /\ Len(r.data) \in Nat /\ Len(r.data) <= Mtu
         /\ r.first = rx.first /\ r.packet = rx.packet
         /\ r.mode \in {"started", "escaped"} => r.packet
         /\ \/ Len(rx.data) <= Mtu /\ r = rx
            \/ Len(rx.data) > Mtu /\ r.data = <<>> /\ r.mode = "not_started"
<1>1. rx \in Receivers(Seen) /\ Mtu \in Nat /\ Len(rx.data) \in Nat
  BY SeenFacts, NotEmpty DEF Receivers
<1>2. <<>> \in Seq(Seen) /\ Len(<<>>) = 0
  BY EmptySeq
<1>3. CASE Len(rx.data) > Mtu
  <2>1. r = [rx EXCEPT !.mode = "not_started", !.data = <<>>]
    BY <1>3 DEF Unfilled
  <2>2. r \in Receivers(Seen) /\ r.data = <<>> /\ r.mode = "not_started" /\ r.first = rx.first /\ r.packet = rx.packet
    BY <2>1, <1>1, <1>2 DEF Receivers, Modes
  <2>3. QED
    BY <2>2, <1>1, <1>2, <1>3
<1>4. CASE Len(rx.data) <= Mtu
  <2>1. r = rx
    BY <1>1, <1>4 DEF Unfilled
  <2>2. QED
    BY <2>1, <1>1, <1>4 DEF KissTypes, TypeOK
<1>5. QED
  BY <1>1, <1>3, <1>4

(* What one byte does, with r the receiver once it has looked at its length.   *)
Ignores(r, b) ==
  /\ \/ r.mode = "not_started" /\ b # FEND
     \/ r.mode = "started" /\ b = FEND /\ r.data = <<>>
     \/ r.mode = "skip_frame" /\ b # FEND
  /\ rx' = r /\ routed' = routed /\ taken' = taken

Begins(r, b) ==
  /\ r.mode = "not_started" /\ b = FEND
  /\ \/ ~r.packet /\ rx' = [r EXCEPT !.mode = "skip_frame"] /\ taken' = taken
     \/ /\ rx' = [r EXCEPT !.mode = "started", !.first = TRUE, !.packet = TRUE, !.data = <<>>]
        /\ taken' = IF r.packet THEN taken ELSE taken + 1
  /\ routed' = routed

Escapes(r, b) ==
  /\ r.mode = "started" /\ b = FESC
  /\ rx' = [r EXCEPT !.mode = "escaped"] /\ routed' = routed /\ taken' = taken

GivesUp(r, b) ==
  /\ \/ r.mode = "started" /\ b = FEND /\ r.data # <<>>
     \/ r.mode = "skip_frame" /\ b = FEND
  /\ r.mode = "started" => Len(r.data) < 2 \/ ~CrcRight(r.data)
  /\ rx' = [r EXCEPT !.mode = "not_started"] /\ routed' = routed /\ taken' = taken

Delivered(r) ==
  [header |-> r.data[1], data |-> SubSeq(r.data, 2, Len(r.data) - 1), nr |-> -r.data[Len(r.data)]]

Delivers(r, b) ==
  /\ r.mode = "started" /\ b = FEND /\ Len(r.data) >= 2 /\ CrcRight(r.data)
  /\ rx' = [r EXCEPT !.mode = "not_started", !.packet = FALSE]
  /\ routed' = Append(routed, Delivered(r)) /\ taken' = taken

Opens(r, b) ==
  /\ r.mode = "started" /\ b \notin {FESC, FEND} /\ r.first
  /\ rx' = [r EXCEPT !.first = FALSE] /\ routed' = routed /\ taken' = taken

Stores(r, b) ==
  /\ r.mode = "started" /\ b \notin {FESC, FEND} /\ ~r.first
  /\ rx' = [r EXCEPT !.data = Append(@, b)] /\ routed' = routed /\ taken' = taken

Unescapes(r, b) ==
  /\ r.mode = "escaped"
  /\ rx' = [r EXCEPT !.mode = "started", !.data = @ \o Unescaped(b)]
  /\ routed' = routed /\ taken' = taken

LEMMA RxCases ==
  ASSUME NEW b, Rx(b), NEW r, r = Unfilled(rx)
  PROVE  \/ Ignores(r, b) \/ Begins(r, b) \/ Escapes(r, b) \/ GivesUp(r, b)
         \/ Delivers(r, b) \/ Opens(r, b) \/ Stores(r, b) \/ Unescapes(r, b)
<1>1. NotStarted(r, b) \/ Started(r, b) \/ Escaped(r, b) \/ SkipFrame(r, b)
  BY DEF Rx
<1>2. CASE NotStarted(r, b)
  BY <1>2 DEF NotStarted, Ignores, Begins
<1>3. CASE Started(r, b)
  <2>1. r.mode = "started" /\ taken' = taken
    BY <1>3 DEF Started
  <2>2. CASE b = FESC /\ rx' = [r EXCEPT !.mode = "escaped"] /\ routed' = routed
    BY <2>1, <2>2 DEF Escapes
  <2>3. CASE b = FEND /\ EndOfFrame(r)
    BY <2>1, <2>3 DEF EndOfFrame, Ignores, GivesUp, BadFrame, AfterRouting, Delivers, Delivered
  <2>4. CASE b \notin {FESC, FEND} /\ routed' = routed
             /\ rx' = IF r.first THEN [r EXCEPT !.first = FALSE] ELSE Stored(r, b)
    BY <2>1, <2>4 DEF Opens, Stores, Stored
  <2>5. QED
    BY <1>3, <2>2, <2>3, <2>4 DEF Started
<1>4. CASE Escaped(r, b)
  BY <1>4 DEF Escaped, Unescapes
<1>5. CASE SkipFrame(r, b)
  BY <1>5 DEF SkipFrame, Ignores, GivesUp
<1>6. QED
  BY <1>1, <1>2, <1>3, <1>4, <1>5

(* The packet passed on is the one its number says.                           *)
LEMMA DeliveredFacts ==
  ASSUME KissTypes, NEW r \in Receivers(Seen), Len(r.data) >= 2, CrcRight(r.data)
  PROVE  /\ Delivered(r).nr \in 1 .. Len(frames) /\ Delivered(r).nr = -r.data[Len(r.data)]
         /\ Delivered(r).data = frames[Delivered(r).nr]
         /\ Delivered(r).header = r.data[1]
         /\ Delivered(r) \in [header : Units, data : Seq(Bytes), nr : 1 .. MaxFrames]
<1> DEFINE n == -r.data[Len(r.data)]
<1>1. Len(r.data) \in Nat /\ r.data[1] \in Seen /\ r.data[Len(r.data)] \in Seen
  <2>1. r.data \in Seq(Seen)
    BY DEF Receivers
  <2>2. QED
    BY <2>1, NotEmpty
<1>2. n > 0 /\ SubSeq(r.data, 2, Len(r.data) - 1) = frames[n]
  BY DEF CrcRight
<1>3. n \in 1 .. Len(frames)
  BY SMTT(30), <1>1, <1>2, SeenFacts DEF Seen
<1>4. frames[n] \in Seq(Bytes) /\ n \in 1 .. MaxFrames /\ r.data[1] \in Units
  BY SMTT(30), <1>1, <1>3, SeenFacts
<1>5. QED
  BY <1>2, <1>3, <1>4 DEF Delivered

LEMMA RxTypes ==
  ASSUME KissTypes, NEW b \in Seen, Rx(b)
  PROVE  /\ rx' \in Receivers(Seen)
         /\ Len(rx'.data) <= Mtu + 1
         /\ rx'.mode \in {"started", "escaped"} => rx'.packet
         /\ routed' \in Seq([header : Units, data : Seq(Bytes), nr : 1 .. MaxFrames])
         /\ taken' \in Nat
         /\ starved' \in BOOLEAN
         /\ taken = Len(routed) + (IF rx.packet THEN 1 ELSE 0)
              => taken' = Len(routed') + (IF rx'.packet THEN 1 ELSE 0)
<1> DEFINE r == Unfilled(rx)
           Packets == [header : Units, data : Seq(Bytes), nr : 1 .. MaxFrames]
           TheseHold ==
             /\ rx' \in Receivers(Seen) /\ Len(rx'.data) <= Mtu + 1
             /\ rx'.mode \in {"started", "escaped"} => rx'.packet
             /\ routed' \in Seq(Packets) /\ taken' \in Nat
             /\ taken = Len(routed) + (IF rx.packet THEN 1 ELSE 0)
                  => taken' = Len(routed') + (IF rx'.packet THEN 1 ELSE 0)
<1>1. /\ r \in Receivers(Seen) /\ Len(r.data) \in Nat /\ Len(r.data) <= Mtu /\ r.packet = rx.packet
      /\ r.mode \in {"started", "escaped"} => r.packet
  BY UnfilledFacts
<1>2. /\ Mtu \in Nat /\ routed \in Seq(Packets) /\ taken \in Nat /\ Len(routed) \in Nat
      /\ <<>> \in Seq(Seen) /\ Len(<<>>) = 0 /\ r.data \in Seq(Seen)
      /\ r.packet \in BOOLEAN /\ r.first \in BOOLEAN /\ r.mode \in Modes
  BY <1>1, SeenFacts, NotEmpty, EmptySeq DEF KissTypes, TypeOK, Receivers
<1>3. ASSUME Ignores(r, b) PROVE TheseHold
  BY <1>1, <1>2, <1>3 DEF Ignores
<1>4. ASSUME Begins(r, b) PROVE TheseHold
  <2>1. CASE ~r.packet /\ rx' = [r EXCEPT !.mode = "skip_frame"] /\ taken' = taken
    BY <1>1, <1>2, <1>4, <2>1 DEF Begins, Receivers, Modes
  <2>2. CASE rx' = [r EXCEPT !.mode = "started", !.first = TRUE, !.packet = TRUE, !.data = <<>>]
             /\ taken' = IF r.packet THEN taken ELSE taken + 1
    <3>1. /\ rx' \in Receivers(Seen) /\ rx'.packet = TRUE /\ rx'.data = <<>>
          /\ routed' = routed
      BY <1>1, <1>2, <1>4, <2>2 DEF Begins, Receivers, Modes
    <3>2. QED
      BY <1>1, <1>2, <2>2, <3>1
  <2>3. QED
    BY <1>4, <2>1, <2>2 DEF Begins
<1>5. ASSUME Escapes(r, b) PROVE TheseHold
  BY <1>1, <1>2, <1>5 DEF Escapes, Receivers, Modes
<1>6. ASSUME GivesUp(r, b) PROVE TheseHold
  BY SMTT(30), <1>1, <1>2, <1>6 DEF GivesUp, Receivers, Modes
<1>7. ASSUME Delivers(r, b) PROVE TheseHold
  <2>1. Delivered(r) \in Packets
    BY <1>1, <1>7, DeliveredFacts DEF Delivers
  <2>2. routed' \in Seq(Packets) /\ Len(routed') = Len(routed) + 1
    BY <1>2, <1>7, <2>1, Appended DEF Delivers
  <2>3. /\ rx' \in Receivers(Seen) /\ rx'.mode = "not_started" /\ ~rx'.packet /\ rx'.data = r.data
        /\ taken' = taken /\ r.packet
    BY <1>1, <1>2, <1>7 DEF Delivers, Receivers, Modes
  <2>4. QED
    BY <1>1, <1>2, <2>2, <2>3
<1>8. ASSUME Opens(r, b) PROVE TheseHold
  <2>1. /\ rx' \in Receivers(Seen) /\ rx'.packet = r.packet /\ rx'.data = r.data
        /\ rx'.mode = r.mode /\ routed' = routed /\ taken' = taken
    BY <1>1, <1>2, <1>8 DEF Opens, Receivers, Modes
  <2>2. QED
    BY <1>1, <1>2, <2>1
<1>9. ASSUME Stores(r, b) PROVE TheseHold
  <2>1. Append(r.data, b) \in Seq(Seen) /\ Len(Append(r.data, b)) = Len(r.data) + 1
    BY <1>2, Appended
  <2>2. /\ rx' \in Receivers(Seen) /\ rx'.mode = r.mode /\ rx'.packet = r.packet
        /\ rx'.data = Append(r.data, b)
    BY <1>1, <1>2, <1>9, <2>1 DEF Stores, Receivers
  <2>3. QED
    BY <1>1, <1>2, <1>9, <2>1, <2>2 DEF Stores
<1>10. ASSUME Unescapes(r, b) PROVE TheseHold
  <2>1. Unescaped(b) \in Seq(Seen) /\ Len(Unescaped(b)) <= 1 /\ Len(Unescaped(b)) \in Nat
    BY SeenFacts, EmptySeq DEF Unescaped
  <2>2. r.data \o Unescaped(b) \in Seq(Seen) /\ Len(r.data \o Unescaped(b)) = Len(r.data) + Len(Unescaped(b))
    BY <1>2, <2>1, ConcatProperties
  <2>3. /\ rx' \in Receivers(Seen) /\ rx'.mode = "started" /\ rx'.packet = r.packet
        /\ rx'.data = r.data \o Unescaped(b)
    BY <1>1, <1>2, <1>10, <2>2 DEF Unescapes, Receivers, Modes
  <2>4. QED
    BY <1>1, <1>2, <1>10, <2>1, <2>2, <2>3 DEF Unescapes
<1>11. TheseHold
  <2>1. \/ Ignores(r, b) \/ Begins(r, b) \/ Escapes(r, b) \/ GivesUp(r, b)
        \/ Delivers(r, b) \/ Opens(r, b) \/ Stores(r, b) \/ Unescapes(r, b)
    BY RxCases
  <2>2. QED
    BY <2>1, <1>3, <1>4, <1>5, <1>6, <1>7, <1>8, <1>9, <1>10
<1>12. starved' \in BOOLEAN
  BY DEF Rx, KissTypes, TypeOK, Starving
<1>13. QED
  BY <1>11, <1>12

-----------------------------------------------------------------------------
(* The senders.                                                              *)

LEMMA ContentFacts ==
  ASSUME KissTypes, NEW s \in Senders, tpc[s] \notin {"idle", "up"}
  PROVE  /\ payload[s] \in Seq(Bytes) /\ Len(payload[s]) \in Nat /\ Len(payload[s]) <= Mtu
         /\ FrameLength(s) = Len(payload[s]) + 5 /\ at[s] \in Nat
         /\ number[s] \in 0 .. Len(frames)
         /\ Content(s) \in Seq(Seen) /\ Len(Content(s)) = Len(payload[s]) + 2
         /\ Content(s)[1] = HeaderByte
         /\ \A i \in 1 .. Len(payload[s]) : Content(s)[i + 1] = payload[s][i]
         /\ Content(s)[Len(payload[s]) + 2] = -number[s]
<1>1. payload[s] \in Payloads /\ at[s] \in Nat /\ number[s] \in 0 .. Len(frames)
  <2>1. SenderOK(s) /\ at[s] \in 0 .. Mtu + 5
    BY DEF KissTypes, TypeOK
  <2>2. QED
    BY <2>1, SeenFacts DEF SenderOK
<1>2. payload[s] \in Seq(Bytes) /\ Len(payload[s]) \in Nat /\ Len(payload[s]) <= Mtu
  <2>1. payload[s] \in Seq(Bytes) /\ Len(payload[s]) <= Mtu
    BY <1>1, KissAssumption DEF Bytes
  <2>2. QED
    BY <2>1, NotEmpty
<1>3. payload[s] \in Seq(Seen) /\ HeaderByte \in Seen /\ -number[s] \in Seen
  <2>1. payload[s] \in Seq(Seen)
    BY <1>2, SeenFacts, SeqMonotonic
  <2>2. HeaderByte \in Seen /\ -number[s] \in Seen
    BY <1>1, SeenFacts DEF HeaderByte, Seen
  <2>3. QED
    BY <2>1, <2>2
<1>4. /\ Content(s) \in Seq(Seen) /\ Len(Content(s)) = Len(payload[s]) + 2
      /\ Content(s)[1] = HeaderByte
      /\ \A i \in 1 .. Len(payload[s]) : Content(s)[i + 1] = payload[s][i]
      /\ Content(s)[Len(payload[s]) + 2] = -number[s]
  <2> DEFINE q == payload[s]
             z == -number[s]
  <2>1. q \in Seq(Seen) /\ HeaderByte \in Seen /\ z \in Seen
    BY <1>3
  <2>2. Content(s) = <<HeaderByte>> \o q \o <<z>>
    BY DEF Content
  <2> HIDE DEF q, z
  <2>3. /\ Content(s) \in Seq(Seen) /\ Len(Content(s)) = Len(q) + 2
        /\ Content(s)[1] = HeaderByte
        /\ \A i \in 1 .. Len(q) : Content(s)[i + 1] = q[i]
        /\ Content(s)[Len(q) + 2] = z
    BY <2>1, <2>2, Enclosed
  <2>4. QED
    BY <2>3 DEF q, z
<1>5. QED
  BY <1>1, <1>2, <1>4 DEF FrameLength

(* What s puts on the line.                                                  *)
LEMMA OutputSeen ==
  ASSUME KissTypes, NEW s \in Senders, tpc[s] = "send"
  PROVE  Output(s) \in Seen
<1>1. {FESC, FEND, TFEND, TFESC, TNC_DATA} \subseteq Seen
  BY SeenFacts DEF Seen, FESC, FEND, TFEND, TFESC, TNC_DATA
<1>2. Current(s) \in Seen
  <2>1. CASE at[s] \in {0, 1, FrameLength(s) - 1}
    BY <1>1, <2>1 DEF Current
  <2>2. CASE at[s] \notin {0, 1, FrameLength(s) - 1}
    <3>1. at[s] \in Nat /\ at[s] < FrameLength(s)
      BY ContentFacts DEF KissTypes, SenderOK
    <3>2. at[s] - 1 \in 1 .. Len(Content(s)) /\ Content(s) \in Seq(Seen)
      BY SMTT(30), <2>2, <3>1, ContentFacts
    <3>3. Content(s)[at[s] - 1] \in Seen
      BY <3>2, ElementOfSeq
    <3>4. QED
      BY <2>2, <3>3 DEF Current
  <2>3. QED
    BY <2>1, <2>2
<1>3. QED
  BY <1>1, <1>2 DEF Output

(* What t does not do leaves its state as it should be.                       *)
LEMMA SenderKept ==
  ASSUME KissTypes, NEW t \in Senders,
         tpc'[t] = tpc[t], at'[t] = at[t], escaped'[t] = escaped[t],
         payload'[t] = payload[t], number'[t] = number[t],
         Len(frames') \in Nat, Len(frames) <= Len(frames'),
         \A n \in 1 .. Len(frames) : frames'[n] = frames[n]
  PROVE  SenderOK(t)'
<1>1. SenderOK(t) /\ Len(frames) \in Nat
  BY SeenFacts DEF KissTypes
<1>2. FrameLength(t)' = FrameLength(t) /\ InContent(t)' = InContent(t)
  BY DEF FrameLength, InContent
<1>3. Special(Current(t))' = Special(Current(t))
  BY <1>2 DEF Special, Current, Content
<1>4. at[t] > 0 => number[t] \in 1 .. Len(frames') /\ frames'[number[t]] = payload[t]
  BY <1>1 DEF SenderOK
<1>5. QED
  BY <1>1, <1>2, <1>3, <1>4 DEF SenderOK

LEMMA CanEscape ==
  ASSUME KissTypes, NEW s \in Senders, tpc[s] = "send"
  PROVE  /\ at[s] \in Nat /\ FrameLength(s) \in Nat /\ FrameLength(s) >= 5
         /\ FrameLength(s) <= Mtu + 5 /\ at[s] < FrameLength(s)
         /\ MustEscape(s) => at[s] >= 2 /\ ~Last(s) /\ InContent(s) /\ Special(Current(s))
         /\ MustEscape(s) \in BOOLEAN
<1>1. at[s] \in Nat /\ FrameLength(s) \in Nat /\ FrameLength(s) >= 5 /\ FrameLength(s) <= Mtu + 5
  BY SMTT(30), ContentFacts, SeenFacts
<1>2. at[s] < FrameLength(s)
  BY DEF KissTypes, SenderOK
<1>3. QED
  BY <1>1, <1>2 DEF MustEscape, InContent, Last

LEMMA AdvanceTypes ==
  ASSUME KissTypes, NEW s \in Senders, tpc[s] = "send", Advance(s), payload' = payload
  PROVE  /\ tpc' \in [Senders -> {"idle", "lock", "send", "post", "up"}]
         /\ at' \in [Senders -> 0 .. Mtu + 5]
         /\ escaped' \in [Senders -> BOOLEAN]
         /\ frames' \in Seq(Payloads)
         /\ number' \in [Senders -> 0 .. MaxFrames]
         /\ Room'
         /\ \A t \in Senders : SenderOK(t)'
         /\ Len(frames') = IF at[s] = 0 THEN Len(frames) + 1 ELSE Len(frames)
         /\ \A n \in 1 .. Len(frames) : frames'[n] = frames[n]
<1>1. /\ at[s] \in Nat /\ FrameLength(s) \in Nat /\ FrameLength(s) >= 5
      /\ FrameLength(s) <= Mtu + 5 /\ at[s] < FrameLength(s)
      /\ MustEscape(s) => at[s] >= 2 /\ ~Last(s) /\ InContent(s) /\ Special(Current(s))
      /\ MustEscape(s) \in BOOLEAN
  BY CanEscape
<1>2. /\ Len(frames) \in Nat /\ frames \in Seq(Payloads) /\ MaxFrames \in Nat /\ Mtu \in Nat
      /\ payload[s] \in Payloads /\ SenderOK(s)
  BY SeenFacts DEF KissTypes, SenderOK
<1>3. /\ tpc \in [Senders -> {"idle", "lock", "send", "post", "up"}] /\ at \in [Senders -> 0 .. Mtu + 5]
      /\ escaped \in [Senders -> BOOLEAN] /\ number \in [Senders -> 0 .. MaxFrames]
  BY DEF KissTypes, TypeOK
<1>4. /\ escaped' = [escaped EXCEPT ![s] = MustEscape(s)]
      /\ at' = [at EXCEPT ![s] = IF MustEscape(s) THEN at[s] ELSE at[s] + 1]
      /\ tpc' = [tpc EXCEPT ![s] = IF Last(s) THEN "post" ELSE tpc[s]]
      /\ at[s] = 0 => frames' = Append(frames, payload[s]) /\ number' = [number EXCEPT ![s] = Len(frames')]
      /\ at[s] # 0 => frames' = frames /\ number' = number
  BY DEF Advance
<1>5. /\ frames' \in Seq(Payloads)
      /\ Len(frames') = IF at[s] = 0 THEN Len(frames) + 1 ELSE Len(frames)
      /\ \A n \in 1 .. Len(frames) : frames'[n] = frames[n]
      /\ at[s] = 0 => frames'[Len(frames')] = payload[s]
  <2>1. CASE at[s] = 0
    <3>1. frames' = Append(frames, payload[s])
      BY <1>4, <2>1
    <3>2. QED
      BY <1>2, <2>1, <3>1, Appended
  <2>2. CASE at[s] # 0
    BY <1>2, <1>4, <2>2
  <2>3. QED
    BY <2>1, <2>2
<1>6. /\ tpc' \in [Senders -> {"idle", "lock", "send", "post", "up"}]
      /\ at' \in [Senders -> 0 .. Mtu + 5] /\ escaped' \in [Senders -> BOOLEAN]
  BY <1>1, <1>2, <1>3, <1>4
<1>7. Room'
  <2>1. IsFiniteSet(Waiting) /\ Cardinality(Waiting) \in Nat
    BY KissAssumption, FS_Subset, FS_CardinalityType DEF Waiting
  <2>2. CASE at[s] = 0
    <3>1. tpc'[s] = "send" /\ at'[s] = 1
      BY <1>1, <1>3, <1>4, <2>2 DEF Last
    <3>2. \A t \in Senders \ {s} : tpc'[t] = tpc[t] /\ at'[t] = at[t]
      BY <1>3, <1>4
    <3>3. Waiting' = Waiting \ {s} /\ s \in Waiting
      BY <2>2, <3>1, <3>2 DEF Waiting, Opening
    <3>4. Cardinality(Waiting') = Cardinality(Waiting) - 1
      BY <2>1, <3>3, FS_RemoveElement
    <3>5. QED
      BY <1>2, <1>5, <2>1, <2>2, <3>4 DEF KissTypes, Room
  <2>3. CASE at[s] # 0
    <3>1. tpc'[s] \in {"send", "post"} /\ at'[s] # 0
      BY <1>1, <1>3, <1>4, <2>3
    <3>2. \A t \in Senders \ {s} : tpc'[t] = tpc[t] /\ at'[t] = at[t]
      BY <1>3, <1>4
    <3>3. Waiting' = Waiting
      BY <2>3, <3>1, <3>2 DEF Waiting, Opening
    <3>4. QED
      BY <1>5, <2>3, <3>3 DEF KissTypes, Room
  <2>4. QED
    BY <2>2, <2>3
<1>8. Len(frames') <= MaxFrames
  <2>1. Cardinality(Waiting') \in Nat
    BY KissAssumption, FS_Subset, FS_CardinalityType DEF Waiting
  <2>2. QED
    BY <1>2, <1>5, <1>7, <2>1 DEF Room
<1>9. number' \in [Senders -> 0 .. MaxFrames]
  <2>1. CASE at[s] = 0
    <3>1. number' = [number EXCEPT ![s] = Len(frames')] /\ Len(frames') = Len(frames) + 1
      BY <1>4, <1>5, <2>1
    <3>2. Len(frames') \in 0 .. MaxFrames
      BY <1>2, <1>8, <3>1
    <3>3. QED
      BY <1>3, <3>1, <3>2
  <2>2. CASE at[s] # 0
    BY <1>3, <1>4, <2>2
  <2>3. QED
    BY <2>1, <2>2
<1>10. ASSUME NEW t \in Senders PROVE SenderOK(t)'
  <2>1. CASE t # s
    <3>1. /\ tpc'[t] = tpc[t] /\ at'[t] = at[t] /\ escaped'[t] = escaped[t]
          /\ payload'[t] = payload[t] /\ number'[t] = number[t]
      BY <1>3, <1>4, <2>1
    <3>2. QED
      BY <1>2, <1>5, <3>1, SenderKept
  <2>2. CASE t = s
    <3>1. /\ tpc'[s] = IF Last(s) THEN "post" ELSE "send"
          /\ at'[s] = IF MustEscape(s) THEN at[s] ELSE at[s] + 1
          /\ escaped'[s] = MustEscape(s)
          /\ payload'[s] = payload[s] /\ FrameLength(s)' = FrameLength(s)
      BY <1>3, <1>4 DEF FrameLength
    <3>2. at'[s] > 0 /\ (tpc'[s] = "send" => at'[s] < FrameLength(s))
          /\ (tpc'[s] = "post" => at'[s] = FrameLength(s))
      BY <1>1, <3>1 DEF Last
    <3>3. number'[s] \in 1 .. Len(frames') /\ frames'[number'[s]] = payload[s]
      <4>1. CASE at[s] = 0
        BY <1>2, <1>3, <1>4, <1>5, <4>1
      <4>2. CASE at[s] # 0
        BY <1>1, <1>2, <1>4, <4>2 DEF SenderOK
      <4>3. QED
        BY <4>1, <4>2
    <3>4. escaped'[s] => tpc'[s] = "send" /\ InContent(s)' /\ Special(Current(s))'
      <4>1. SUFFICES ASSUME MustEscape(s)
                     PROVE  tpc'[s] = "send" /\ InContent(s)' /\ Special(Current(s))'
        BY <3>1
      <4>2. number'[s] = number[s] /\ at'[s] = at[s] /\ tpc'[s] = "send"
        BY <1>1, <1>4, <3>1, <4>1
      <4>3. InContent(s)' = InContent(s)
        BY <3>1, <4>2 DEF InContent
      <4>4. Current(s)' = Current(s)
        BY <3>1, <4>2 DEF Current, Content
      <4>5. QED
        BY <1>1, <4>1, <4>2, <4>3, <4>4 DEF Special
    <3>5. QED
      BY <1>2, <2>2, <3>1, <3>2, <3>3, <3>4 DEF SenderOK
  <2>3. QED
    BY <2>1, <2>2
<1>11. QED
  BY <1>5, <1>6, <1>7, <1>9, <1>10

-----------------------------------------------------------------------------
(* The types hold.                                                           *)

LEMMA KissTypesInit == Init => KissTypes
<1> SUFFICES ASSUME Init PROVE KissTypes
  OBVIOUS
<1>1. TypeOK
  <2>1. <<>> \in Seq(Units) /\ <<>> \in Seq(Bytes) /\ <<>> \in Seq(Payloads) /\ Len(<<>>) = 0
        /\ <<>> \in Seq([header : Units, data : Seq(Bytes), nr : 1 .. MaxFrames])
    BY EmptySeq
  <2>2. /\ 0 \in 0 .. MaxFaults /\ 0 \in -1 .. MaxFrames /\ 0 \in 0 .. MaxFrames
        /\ 0 \in 0 .. Mtu + 5 /\ 0 <= Mtu + 1
    BY KissAssumption
  <2>3. /\ rx.mode = "not_started" /\ rx.first = FALSE /\ rx.packet = FALSE /\ rx.data = <<>>
        /\ rx \in [mode : Modes, first : BOOLEAN, packet : BOOLEAN, data : Seq(Units)]
    BY <2>1 DEF Init, Modes
  <2>4. QED
    BY <2>1, <2>2, <2>3 DEF Init, TypeOK, Modes
<1>2. \A s \in Senders : SenderOK(s)
  BY DEF Init, SenderOK
<1>3. Room
  <2>1. Waiting = {}
    BY DEF Init, Waiting, Opening
  <2>2. Len(frames) = 0 /\ Cardinality(Waiting) = 0
    BY <2>1, FS_EmptySet, EmptySeq DEF Init
  <2>3. QED
    BY <2>2, KissAssumption DEF Room
<1>4. StreakOK
  <2>1. Len(frames) = 0
    BY EmptySeq DEF Init
  <2>2. QED
    BY <2>1 DEF Init, StreakOK, OnLine
<1>5. rx.data \in Seq(Seen)
  BY EmptySeq DEF Init
<1>6. QED
  BY <1>1, <1>2, <1>3, <1>4, <1>5 DEF KissTypes

(* A step that leaves the receiver and the frames alone, of one sender.       *)
LEMMA OneSender ==
  ASSUME KissTypes, NEW s \in Senders, frames' = frames, escaped' = escaped,
         \A t \in Senders \ {s} : /\ tpc'[t] = tpc[t] /\ at'[t] = at[t]
                                  /\ payload'[t] = payload[t] /\ number'[t] = number[t]
  PROVE  \A t \in Senders \ {s} : SenderOK(t)'
<1>1. Len(frames) \in Nat
  BY SeenFacts
<1>2. QED
  BY <1>1, SenderKept

LEMMA CallTypes == ASSUME KissTypes, NEW s \in Senders, Call(s) PROVE KissTypes'
<1>1. /\ tpc[s] = "idle" /\ tpc' = [tpc EXCEPT ![s] = "lock"]
      /\ Len(frames) + Cardinality(Waiting) < MaxFrames
      /\ lock' = lock /\ at' = at /\ escaped' = escaped /\ number' = number /\ rx' = rx
      /\ routed' = routed /\ frames' = frames /\ taken' = taken /\ faults' = faults
      /\ streak' = streak /\ late' = late /\ starved' = starved
  BY DEF Call, Waiting
<1>2. PICK d \in Payloads : payload' = [payload EXCEPT ![s] = d]
  BY DEF Call
<1>3. d \in Seq(Bytes)
  BY KissAssumption DEF Bytes
<1>4. TypeOK'
  BY <1>1, <1>2, <1>3 DEF KissTypes, TypeOK
<1>5. /\ tpc'[s] = "lock" /\ payload'[s] = d
      /\ \A t \in Senders \ {s} : tpc'[t] = tpc[t] /\ payload'[t] = payload[t]
  BY <1>1, <1>2 DEF KissTypes, TypeOK
<1>6. \A t \in Senders \ {s} : SenderOK(t)'
  BY <1>1, <1>5, OneSender
<1>7. SenderOK(s)'
  BY <1>1, <1>5 DEF KissTypes, SenderOK
<1>8. Room'
  <2>1. Waiting' = Waiting \cup {s} /\ s \notin Waiting
    BY <1>1, <1>5 DEF Waiting, Opening
  <2>2. IsFiniteSet(Waiting) /\ Cardinality(Waiting) \in Nat
    BY KissAssumption, FS_Subset, FS_CardinalityType DEF Waiting
  <2>3. Cardinality(Waiting') = Cardinality(Waiting) + 1
    BY <2>1, <2>2, FS_AddElement
  <2>4. QED
    BY <1>1, <2>2, <2>3, SeenFacts DEF Room
<1>9. StreakOK'
  <2>1. \A t \in Senders : OnLine(t)' => OnLine(t)
    BY <1>1, <1>5 DEF OnLine
  <2>2. \A t \in Senders : Alone(t) => Alone(t)'
    BY <1>1, <1>5 DEF Alone
  <2>3. QED
    BY <1>1, <2>1, <2>2 DEF KissTypes, StreakOK
<1>10. QED
  BY <1>1, <1>4, <1>6, <1>7, <1>8, <1>9 DEF KissTypes, Seen

LEMMA LockTypes == ASSUME KissTypes, NEW s \in Senders, Lock(s) PROVE KissTypes'
<1>1. /\ tpc[s] = "lock" /\ tpc' = [tpc EXCEPT ![s] = "send"] /\ lock' \in Nat
      /\ at' = at /\ escaped' = escaped /\ number' = number /\ rx' = rx /\ payload' = payload
      /\ routed' = routed /\ frames' = frames /\ taken' = taken
      /\ streak' = streak /\ starved' = starved
      /\ \/ late' = late /\ faults' = faults
         \/ late' = TRUE /\ faults < MaxFaults /\ faults' = faults + 1
  BY DEF Lock, KissTypes, TypeOK
<1>2. at[s] = 0 /\ FrameLength(s) \in Nat /\ FrameLength(s) >= 5
  <2>1. at[s] = 0
    BY <1>1 DEF KissTypes, SenderOK
  <2>2. QED
    BY <1>1, <2>1, ContentFacts
<1>3. late' \in BOOLEAN /\ faults' \in 0 .. MaxFaults
  <2>1. late \in BOOLEAN /\ faults \in 0 .. MaxFaults /\ MaxFaults \in Nat
    BY KissAssumption DEF KissTypes, TypeOK
  <2>2. late' = late \/ late' = TRUE
    BY <1>1
  <2>3. faults' = faults \/ (faults < MaxFaults /\ faults' = faults + 1)
    BY <1>1
  <2>4. late' \in BOOLEAN
    BY <2>1, <2>2
  <2>5. faults' \in 0 .. MaxFaults
    BY <2>1, <2>3
  <2>6. QED
    BY <2>4, <2>5
<1>4. TypeOK'
  BY <1>1, <1>3 DEF KissTypes, TypeOK
<1>5. tpc'[s] = "send" /\ \A t \in Senders \ {s} : tpc'[t] = tpc[t]
  BY <1>1 DEF KissTypes, TypeOK
<1>6. \A t \in Senders \ {s} : SenderOK(t)'
  BY <1>1, <1>5, OneSender
<1>7. SenderOK(s)'
  <2>1. ~escaped[s]
    BY <1>1 DEF KissTypes, SenderOK
  <2>2. FrameLength(s)' = FrameLength(s)
    BY <1>1 DEF FrameLength
  <2>3. QED
    BY <1>1, <1>2, <1>5, <2>1, <2>2 DEF KissTypes, SenderOK
<1>8. Room'
  <2>1. Waiting' = Waiting
    BY <1>1, <1>2, <1>5 DEF Waiting, Opening
  <2>2. QED
    BY <1>1, <2>1 DEF KissTypes, Room
<1>9. StreakOK'
  <2>1. \A t \in Senders : OnLine(t)' <=> OnLine(t)
    BY <1>1, <1>2, <1>5 DEF OnLine
  <2>2. \A t \in Senders : Alone(t) => Alone(t)'
    BY <1>1, <1>2, <1>5 DEF Alone
  <2>3. QED
    BY <1>1, <2>1, <2>2 DEF KissTypes, StreakOK
<1>10. QED
  BY <1>1, <1>4, <1>6, <1>7, <1>8, <1>9 DEF KissTypes, Seen

LEMMA PostTypes == ASSUME KissTypes, NEW s \in Senders, Post(s) PROVE KissTypes'
<1>1. /\ tpc[s] = "post" /\ tpc' = [tpc EXCEPT ![s] = IF lock > 0 THEN "idle" ELSE "up"]
      /\ lock' = lock
      /\ payload' = [payload EXCEPT ![s] = <<>>] /\ number' = [number EXCEPT ![s] = 0]
      /\ at' = [at EXCEPT ![s] = 0]
      /\ escaped' = escaped /\ rx' = rx /\ faults' = faults /\ late' = late
      /\ routed' = routed /\ frames' = frames /\ taken' = taken
      /\ streak' = streak /\ starved' = starved
  BY DEF Post
<1>2. TypeOK'
  BY <1>1, EmptySeq, KissAssumption DEF KissTypes, TypeOK
<1>3. /\ tpc'[s] \in {"idle", "up"} /\ at'[s] = 0 /\ number'[s] = 0
      /\ \A t \in Senders \ {s} : /\ tpc'[t] = tpc[t] /\ at'[t] = at[t]
                                  /\ payload'[t] = payload[t] /\ number'[t] = number[t]
  BY <1>1 DEF KissTypes, TypeOK
<1>4. \A t \in Senders \ {s} : SenderOK(t)'
  BY <1>1, <1>3, OneSender
<1>5. SenderOK(s)'
  BY <1>1, <1>3 DEF KissTypes, SenderOK
<1>6. Room'
  <2>1. Waiting' = Waiting
    BY <1>1, <1>3 DEF Waiting, Opening
  <2>2. QED
    BY <1>1, <2>1 DEF KissTypes, Room
<1>7. StreakOK'
  <2>1. \A t \in Senders : OnLine(t)' => OnLine(t)
    BY <1>1, <1>3 DEF OnLine
  <2>2. \A t \in Senders : Alone(t) => Alone(t)'
    BY <1>1, <1>3 DEF Alone
  <2>3. QED
    BY <1>1, <2>1, <2>2 DEF KissTypes, StreakOK
<1>8. QED
  BY <1>1, <1>2, <1>4, <1>5, <1>6, <1>7 DEF KissTypes, Seen

LEMMA UpTypes == ASSUME KissTypes, NEW s \in Senders, Up(s) PROVE KissTypes'
<1>1. /\ tpc[s] = "up" /\ tpc' = [tpc EXCEPT ![s] = "idle"] /\ lock' = lock + 1
      /\ payload' = payload /\ number' = number /\ at' = at
      /\ escaped' = escaped /\ rx' = rx /\ faults' = faults /\ late' = late
      /\ routed' = routed /\ frames' = frames /\ taken' = taken
      /\ streak' = streak /\ starved' = starved
  BY DEF Up
<1>2. TypeOK'
  BY <1>1 DEF KissTypes, TypeOK
<1>3. tpc'[s] = "idle" /\ \A t \in Senders \ {s} : tpc'[t] = tpc[t]
  BY <1>1 DEF KissTypes, TypeOK
<1>4. \A t \in Senders \ {s} : SenderOK(t)'
  BY <1>1, <1>3, OneSender
<1>5. SenderOK(s)'
  BY <1>1, <1>3 DEF KissTypes, SenderOK
<1>6. Room'
  <2>1. Waiting' = Waiting
    BY <1>1, <1>3 DEF Waiting, Opening
  <2>2. QED
    BY <1>1, <2>1 DEF KissTypes, Room
<1>7. StreakOK'
  <2>1. \A t \in Senders : OnLine(t)' => OnLine(t)
    BY <1>1, <1>3 DEF OnLine
  <2>2. \A t \in Senders : Alone(t) => Alone(t)'
    BY <1>1, <1>3 DEF Alone
  <2>3. QED
    BY <1>1, <2>1, <2>2 DEF KissTypes, StreakOK
<1>8. QED
  BY <1>1, <1>2, <1>4, <1>5, <1>6, <1>7 DEF KissTypes, Seen

(* What a byte put, lost, changed or added does to the types.                 *)
LEMMA LineTypes ==
  ASSUME KissTypes, payload' = payload, lock' = lock, late' \in BOOLEAN, faults' \in 0 .. MaxFaults,
         streak' \in Int, streak' >= -1, StreakOK',
         tpc' \in [Senders -> {"idle", "lock", "send", "post", "up"}],
         at' \in [Senders -> 0 .. Mtu + 5],
         escaped' \in [Senders -> BOOLEAN],
         number' \in [Senders -> 0 .. MaxFrames],
         frames' \in Seq(Payloads), Len(frames) <= Len(frames'), Room',
         \A t \in Senders : SenderOK(t)',
         \/ rx' = rx /\ routed' = routed /\ taken' = taken /\ starved' = starved
         \/ \E b \in Seen : Rx(b)
  PROVE  KissTypes'
<1>1. /\ Len(frames) \in Nat /\ Len(frames') \in Nat /\ MaxFrames \in Nat
  BY SeenFacts, NotEmpty
<1>2. Len(frames') <= MaxFrames
  <2>1. Cardinality(Waiting') \in Nat
    BY KissAssumption, FS_Subset, FS_CardinalityType DEF Waiting
  <2>2. QED
    BY <1>1, <2>1 DEF Room
<1>3. Seen \subseteq Seen' /\ Seen' \subseteq Units
  BY <1>1, <1>2 DEF Seen, Units
<1>4. /\ rx' \in Receivers(Seen) /\ Len(rx'.data) <= Mtu + 1
      /\ rx'.mode \in {"started", "escaped"} => rx'.packet
      /\ routed' \in Seq([header : Units, data : Seq(Bytes), nr : 1 .. MaxFrames])
      /\ taken' \in Nat /\ starved' \in BOOLEAN
  <2>1. CASE rx' = rx /\ routed' = routed /\ taken' = taken /\ starved' = starved
    BY <2>1, SeenFacts DEF KissTypes, TypeOK
  <2>2. CASE \E b \in Seen : Rx(b)
    BY <2>2, RxTypes
  <2>3. QED
    BY <2>1, <2>2
<1>5. rx'.data \in Seq(Seen') /\ rx'.data \in Seq(Units) /\ rx' \in Receivers(Units)
  <2>1. rx'.data \in Seq(Seen)
    BY <1>4 DEF Receivers
  <2>2. rx'.data \in Seq(Seen') /\ rx'.data \in Seq(Units)
    BY <1>3, <2>1, SeqMonotonic
  <2>3. QED
    BY <1>4, <2>2 DEF Receivers
<1>6. streak' \in -1 .. MaxFrames
  BY <1>1, <1>2 DEF StreakOK
<1>7. TypeOK'
  BY <1>4, <1>5, <1>6 DEF KissTypes, TypeOK, Receivers, Modes
<1>8. QED
  BY <1>5, <1>7 DEF KissTypes

LEMMA ByteTypes ==
  ASSUME KissTypes, NEW s \in Senders, tpc[s] = "send", Advance(s), payload' = payload, lock' = lock,
         late' \in BOOLEAN, faults' \in 0 .. MaxFaults,
         streak' \in Int, streak' >= -1, StreakOK',
         \/ rx' = rx /\ routed' = routed /\ taken' = taken /\ starved' = starved
         \/ \E b \in Seen : Rx(b)
  PROVE  KissTypes'
<1>1. Len(frames) \in Nat
  BY SeenFacts
<1>2. /\ tpc' \in [Senders -> {"idle", "lock", "send", "post", "up"}]
      /\ at' \in [Senders -> 0 .. Mtu + 5]
      /\ escaped' \in [Senders -> BOOLEAN]
      /\ number' \in [Senders -> 0 .. MaxFrames]
      /\ frames' \in Seq(Payloads) /\ Room'
      /\ \A t \in Senders : SenderOK(t)'
      /\ Len(frames') = IF at[s] = 0 THEN Len(frames) + 1 ELSE Len(frames)
  BY AdvanceTypes
<1>3. Len(frames) <= Len(frames')
  BY <1>1, <1>2
<1>4. QED
  BY <1>2, <1>3, LineTypes

LEMMA FaultKeeps ==
  ASSUME KissTypes, Fault
  PROVE  faults' \in 0 .. MaxFaults /\ streak' = -1 /\ streak' \in Int /\ streak' >= -1
<1>1. MaxFaults \in Nat /\ faults \in Nat
  BY KissAssumption DEF KissTypes, TypeOK
<1>2. QED
  BY <1>1 DEF Fault

LEMMA NoStreak ==
  ASSUME KissTypes, streak' = -1, frames' \in Seq(Payloads)
  PROVE  StreakOK'
<1>1. Len(frames') \in Nat
  BY NotEmpty
<1>2. QED
  BY <1>1 DEF StreakOK

LEMMA NoiseSeen == ASSUME KissTypes, NEW b \in Noise PROVE b \in Seen
BY KissAssumption, SeenFacts DEF Bytes

LEMMA LoseTypes == ASSUME KissTypes, NEW s \in Senders, Lose(s) PROVE KissTypes'
<1>1. /\ tpc[s] = "send" /\ Fault /\ Advance(s) /\ lock' = lock /\ payload' = payload
      /\ rx' = rx /\ routed' = routed /\ taken' = taken /\ late' = late /\ starved' = starved
  BY DEF Lose
<1>2. StreakOK'
  BY <1>1, AdvanceTypes, FaultKeeps, NoStreak
<1>3. late' \in BOOLEAN
  BY <1>1 DEF KissTypes, TypeOK
<1>4. QED
  BY <1>1, <1>2, <1>3, FaultKeeps, ByteTypes

LEMMA ChangeTypes == ASSUME KissTypes, NEW s \in Senders, Change(s) PROVE KissTypes'
<1>1. /\ tpc[s] = "send" /\ Fault /\ Advance(s) /\ lock' = lock /\ payload' = payload
      /\ late' = late /\ \E b \in Seen : Rx(b)
  BY NoiseSeen DEF Change
<1>2. StreakOK'
  BY <1>1, AdvanceTypes, FaultKeeps, NoStreak
<1>3. late' \in BOOLEAN
  BY <1>1 DEF KissTypes, TypeOK
<1>4. QED
  BY <1>1, <1>2, <1>3, FaultKeeps, ByteTypes

LEMMA AddTypes == ASSUME KissTypes, Add PROVE KissTypes'
<1>1. /\ Fault /\ lock' = lock /\ tpc' = tpc /\ at' = at /\ escaped' = escaped /\ payload' = payload
      /\ number' = number /\ frames' = frames /\ late' = late /\ \E b \in Seen : Rx(b)
  BY NoiseSeen DEF Add
<1>2. StreakOK'
  BY <1>1, SeenFacts, FaultKeeps, NoStreak
<1>3. /\ late' \in BOOLEAN /\ number' \in [Senders -> 0 .. MaxFrames]
      /\ tpc' \in [Senders -> {"idle", "lock", "send", "post", "up"}]
      /\ at' \in [Senders -> 0 .. Mtu + 5]
      /\ escaped' \in [Senders -> BOOLEAN]
  BY <1>1 DEF KissTypes, TypeOK
<1>4. /\ frames' \in Seq(Payloads) /\ Len(frames) \in Nat /\ Len(frames) <= Len(frames')
  BY <1>1, SeenFacts
<1>5. Room'
  <2>1. Waiting' = Waiting
    BY <1>1 DEF Waiting, Opening
  <2>2. QED
    BY <1>1, <2>1 DEF KissTypes, Room
<1>6. \A t \in Senders : SenderOK(t)'
  BY <1>1, <1>4, SenderKept
<1>7. QED
  BY <1>1, <1>2, <1>3, <1>4, <1>5, <1>6, FaultKeeps, LineTypes

(* After a byte that arrives as it is.                                       *)
LEMMA PutcFacts ==
  ASSUME KissTypes, NEW s \in Senders, Putc(s)
  PROVE  /\ tpc[s] = "send" /\ Advance(s) /\ Rx(Output(s)) /\ Output(s) \in Seen
         /\ lock' = lock /\ payload' = payload /\ faults' = faults /\ late' = late
         /\ tpc'[s] = (IF Last(s) THEN "post" ELSE "send")
         /\ at'[s] = (IF MustEscape(s) THEN at[s] ELSE at[s] + 1)
         /\ escaped'[s] = MustEscape(s)
         /\ \A t \in Senders \ {s} : /\ tpc'[t] = tpc[t] /\ at'[t] = at[t] /\ escaped'[t] = escaped[t]
                                     /\ number'[t] = number[t]
         /\ at[s] = 0 => frames' = Append(frames, payload[s]) /\ number'[s] = Len(frames) + 1
         /\ at[s] # 0 => frames' = frames /\ number' = number
         /\ streak' \in {-1, 0, streak, streak + 1}
         /\ streak' # -1 => /\ Alone(s) /\ ~Starving
                            /\ at[s] # 0 => streak' = (IF Last(s) /\ streak >= 0 THEN streak + 1 ELSE streak)
                            /\ at[s] = 0 => streak' = (IF streak = -1 THEN 0 ELSE streak)
<1>1. /\ tpc[s] = "send" /\ Advance(s) /\ Rx(Output(s))
      /\ lock' = lock /\ payload' = payload /\ faults' = faults /\ late' = late
      /\ streak' = IF ~Alone(s) \/ Starving THEN -1
                   ELSE IF at[s] = 0 /\ streak = -1 THEN 0
                   ELSE IF Last(s) /\ streak >= 0 THEN streak + 1
                   ELSE streak
  BY DEF Putc
<1>2. Output(s) \in Seen
  BY <1>1, OutputSeen
<1>3. /\ tpc'[s] = (IF Last(s) THEN "post" ELSE "send")
      /\ at'[s] = (IF MustEscape(s) THEN at[s] ELSE at[s] + 1)
      /\ escaped'[s] = MustEscape(s)
      /\ \A t \in Senders \ {s} : /\ tpc'[t] = tpc[t] /\ at'[t] = at[t] /\ escaped'[t] = escaped[t]
  BY <1>1 DEF Advance, KissTypes, TypeOK
<1>4. /\ at[s] = 0 => frames' = Append(frames, payload[s]) /\ number' = [number EXCEPT ![s] = Len(frames')]
      /\ at[s] # 0 => frames' = frames /\ number' = number
  BY <1>1 DEF Advance
<1>5. /\ at[s] = 0 => number'[s] = Len(frames) + 1
      /\ \A t \in Senders \ {s} : number'[t] = number[t]
  <2>1. at[s] = 0 => Len(frames') = Len(frames) + 1
    BY <1>1, AdvanceTypes
  <2>2. QED
    BY <1>4, <2>1 DEF KissTypes, TypeOK
<1>6. at[s] = 0 => ~Last(s)
  BY <1>1, CanEscape DEF Last
<1>7. QED
  BY <1>1, <1>2, <1>3, <1>4, <1>5, <1>6

LEMMA PutcTypes == ASSUME KissTypes, NEW s \in Senders, Putc(s) PROVE KissTypes'
<1>1. /\ tpc[s] = "send" /\ Advance(s) /\ Rx(Output(s)) /\ Output(s) \in Seen
      /\ lock' = lock /\ payload' = payload /\ faults' = faults /\ late' = late
  BY PutcFacts
<1>2. streak \in Int /\ streak >= -1 /\ faults \in 0 .. MaxFaults /\ late \in BOOLEAN /\ at[s] \in Nat
  BY <1>1, CanEscape DEF KissTypes, TypeOK
<1>3. streak' \in Int /\ streak' >= -1
  <2>1. streak' \in {-1, 0, streak, streak + 1}
    BY PutcFacts
  <2>2. QED
    BY <1>2, <2>1
<1>4. /\ Len(frames) \in Nat /\ frames' \in Seq(Payloads)
      /\ Len(frames') = IF at[s] = 0 THEN Len(frames) + 1 ELSE Len(frames)
  BY <1>1, AdvanceTypes, SeenFacts
<1>5. StreakOK'
  <2>1. CASE streak' = -1
    BY <1>4, <2>1, NoStreak
  <2>2. CASE streak' # -1
    <3>1. /\ Alone(s)
          /\ at[s] # 0 => streak' = (IF Last(s) /\ streak >= 0 THEN streak + 1 ELSE streak)
          /\ at[s] = 0 => streak' = (IF streak = -1 THEN 0 ELSE streak)
      BY <2>2, PutcFacts
    <3>2. \A t \in Senders \ {s} : tpc'[t] = tpc[t] /\ at'[t] = at[t] /\ ~OnLine(t)
      BY <3>1, PutcFacts DEF Alone, OnLine
    <3>3. \A t \in Senders \ {s} : ~OnLine(t)'
      BY <3>2 DEF OnLine
    <3>4. Alone(s)'
      BY <3>3 DEF Alone, OnLine
    <3>5. StreakOK
      BY DEF KissTypes
    <3>6. CASE at[s] = 0
      <4>1. streak' \in {0, streak} /\ Len(frames') = Len(frames) + 1 /\ streak <= Len(frames)
        BY <1>4, <3>1, <3>5, <3>6 DEF StreakOK
      <4>2. streak' < Len(frames')
        BY <1>2, <1>4, <4>1
      <4>3. QED
        BY <1>3, <1>4, <3>3, <3>4, <4>2 DEF StreakOK
    <3>7. CASE at[s] # 0
      <4>1. OnLine(s) /\ Len(frames') = Len(frames)
        BY <1>1, <1>2, <1>4, <3>7 DEF OnLine
      <4>2. streak < Len(frames)
        BY <1>2, <1>4, <3>5, <4>1 DEF StreakOK
      <4>3. streak' <= Len(frames')
        BY <1>2, <1>4, <3>1, <3>7, <4>1, <4>2
      <4>4. OnLine(s)' => streak' < Len(frames')
        <5>1. OnLine(s)' => ~Last(s)
          BY PutcFacts DEF OnLine
        <5>2. QED
          BY <1>2, <1>4, <3>1, <3>7, <4>1, <4>2, <5>1
      <4>5. QED
        BY <3>3, <3>4, <4>3, <4>4 DEF StreakOK
    <3>8. QED
      BY <3>6, <3>7
  <2>3. QED
    BY <2>1, <2>2
<1>6. QED
  BY <1>1, <1>2, <1>3, <1>5, ByteTypes

LEMMA KissTypesUnchanged == ASSUME KissTypes, UNCHANGED vars PROVE KissTypes'
<1>1. /\ lock' = lock /\ tpc' = tpc /\ at' = at /\ escaped' = escaped /\ payload' = payload
      /\ number' = number /\ rx' = rx /\ routed' = routed /\ frames' = frames /\ taken' = taken
      /\ faults' = faults /\ streak' = streak /\ late' = late /\ starved' = starved
  BY DEF vars
<1>2. TypeOK' /\ Room' /\ StreakOK'
  BY <1>1 DEF KissTypes, TypeOK, Room, Waiting, Opening, StreakOK, OnLine, Alone
<1>3. \A s \in Senders : SenderOK(s)'
  BY <1>1, SeenFacts, SenderKept
<1>4. QED
  BY <1>1, <1>2, <1>3 DEF KissTypes, Seen

LEMMA KissTypesNext == ASSUME KissTypes, [Next]_vars PROVE KissTypes'
<1>1. CASE Add
  BY <1>1, AddTypes
<1>2. ASSUME NEW s \in Senders, Call(s) \/ Lock(s) \/ Putc(s) \/ Post(s) \/ Up(s) \/ Lose(s) \/ Change(s)
      PROVE  KissTypes'
  BY <1>2, CallTypes, LockTypes, PutcTypes, PostTypes, UpTypes, LoseTypes, ChangeTypes
<1>3. CASE UNCHANGED vars
  BY <1>3, KissTypesUnchanged
<1>4. QED
  BY <1>1, <1>2, <1>3 DEF Next

LEMMA KissTypesCorrect == Spec => []KissTypes
<1>1. QED
  BY KissTypesInit, KissTypesNext, PTL DEF Spec

(* Every variable of csp_kiss_tx and csp_kiss_rx stays in its type; rx_length   *)
(* stays within one byte of the mtu, whatever the line brings.                *)
THEOREM TypeCorrect == Spec => []TypeOK
<1>1. KissTypes => TypeOK
  BY DEF KissTypes
<1>2. QED
  BY <1>1, KissTypesCorrect, PTL

-----------------------------------------------------------------------------
(* Buffers.                                                                  *)

(* Every buffer csp_kiss_rx has taken went to the router or is in rx_packet.    *)
THEOREM BuffersAlwaysKept == Spec => []BuffersKept
<1>1. Init => BuffersKept
  BY EmptySeq DEF Init, BuffersKept
<1>2. ASSUME KissTypes, BuffersKept, [Next]_vars PROVE BuffersKept'
  <2>1. CASE \E b \in Seen : Rx(b)
    BY <1>2, <2>1, RxTypes DEF BuffersKept
  <2>2. CASE rx' = rx /\ routed' = routed /\ taken' = taken
    BY <1>2, <2>2 DEF BuffersKept
  <2>3. (\E b \in Seen : Rx(b)) \/ (rx' = rx /\ routed' = routed /\ taken' = taken)
    <3>1. CASE Add
      BY <1>2, <3>1, NoiseSeen DEF Add
    <3>2. ASSUME NEW s \in Senders, Putc(s) PROVE \E b \in Seen : Rx(b)
      BY <1>2, <3>2, PutcFacts
    <3>3. ASSUME NEW s \in Senders, Change(s) PROVE \E b \in Seen : Rx(b)
      BY <1>2, <3>3, NoiseSeen DEF Change
    <3>4. ASSUME NEW s \in Senders, Call(s) \/ Lock(s) \/ Post(s) \/ Up(s) \/ Lose(s)
          PROVE  rx' = rx /\ routed' = routed /\ taken' = taken
      BY <3>4 DEF Call, Lock, Post, Up, Lose
    <3>5. CASE UNCHANGED vars
      BY <3>5 DEF vars
    <3>6. QED
      BY <1>2, <3>1, <3>2, <3>3, <3>4, <3>5 DEF Next
  <2>4. QED
    BY <2>1, <2>2, <2>3
<1>3. QED
  BY <1>1, <1>2, KissTypesCorrect, PTL DEF Spec

-----------------------------------------------------------------------------
(* Numbers.                                                                  *)

LEMMA RxNumbers ==
  ASSUME KissTypes, NEW b \in Seen, Rx(b)
  PROVE  /\ \A i \in 1 .. Len(rx'.data) : rx'.data[i] < 0 =>
              rx'.data[i] = b \/ \E j \in 1 .. Len(rx.data) : rx'.data[i] = rx.data[j]
         /\ Receiving' /\ rx'.data # <<>> =>
              /\ routed' = routed
              /\ rx'.data[Len(rx'.data)] < 0 =>
                   \/ rx'.data[Len(rx'.data)] = b
                   \/ Receiving /\ rx.data # <<>> /\ rx'.data[Len(rx'.data)] = rx.data[Len(rx.data)]
         /\ \/ routed' = routed
            \/ \E x : /\ x.nr \in 1 .. Len(frames) /\ x.nr = -rx.data[Len(rx.data)]
                      /\ Receiving /\ Len(rx.data) >= 1
                      /\ routed' = Append(routed, x)
                      /\ x \in [header : Units, data : Seq(Bytes), nr : 1 .. MaxFrames]
<1> DEFINE r == Unfilled(rx)
           Old == \A i \in 1 .. Len(rx'.data) : rx'.data[i] < 0 =>
                    rx'.data[i] = b \/ \E j \in 1 .. Len(rx.data) : rx'.data[i] = rx.data[j]
           Latest == Receiving' /\ rx'.data # <<>> =>
                       /\ routed' = routed
                       /\ rx'.data[Len(rx'.data)] < 0 =>
                            \/ rx'.data[Len(rx'.data)] = b
                            \/ Receiving /\ rx.data # <<>> /\ rx'.data[Len(rx'.data)] = rx.data[Len(rx.data)]
           Passed == \/ routed' = routed
                     \/ \E x : /\ x.nr \in 1 .. Len(frames) /\ x.nr = -rx.data[Len(rx.data)]
                               /\ Receiving /\ Len(rx.data) >= 1
                               /\ routed' = Append(routed, x)
                               /\ x \in [header : Units, data : Seq(Bytes), nr : 1 .. MaxFrames]
<1>1. /\ r \in Receivers(Seen) /\ Len(r.data) \in Nat /\ r.data \in Seq(Seen)
      /\ r.mode \in Modes /\ r.first \in BOOLEAN /\ r.packet \in BOOLEAN
      /\ \/ r = rx
         \/ r.data = <<>> /\ r.mode = "not_started"
  BY UnfilledFacts DEF Receivers
<1>2. \A i \in 1 .. Len(r.data) : \E j \in 1 .. Len(rx.data) : r.data[i] = rx.data[j]
  <2>1. Len(<<>>) = 0
    BY EmptySeq
  <2>2. QED
    BY <1>1, <2>1
<1>3. r.mode \in {"started", "escaped"} => r = rx /\ Receiving
  BY <1>1 DEF Receiving
<1>4. ASSUME rx'.data = r.data, rx'.mode \in {"started", "escaped"} => r.mode \in {"started", "escaped"}, routed' = routed
      PROVE Old /\ Latest
  BY <1>2, <1>3, <1>4 DEF Receiving
<1>5. ASSUME Ignores(r, b) PROVE Old /\ Latest /\ Passed
  BY <1>4, <1>5 DEF Ignores
<1>6. ASSUME Begins(r, b) PROVE Old /\ Latest /\ Passed
  <2>1. CASE rx' = [r EXCEPT !.mode = "skip_frame"]
    <3>1. rx'.data = r.data /\ rx'.mode = "skip_frame"
      BY <1>1, <2>1 DEF Receivers
    <3>2. QED
      BY <1>4, <1>6, <3>1 DEF Begins
  <2>2. CASE rx' = [r EXCEPT !.mode = "started", !.first = TRUE, !.packet = TRUE, !.data = <<>>]
    <3>1. rx'.data = <<>> /\ Len(<<>>) = 0
      BY <1>1, <2>2, EmptySeq DEF Receivers
    <3>2. QED
      BY <1>6, <3>1 DEF Begins
  <2>3. QED
    BY <1>6, <2>1, <2>2 DEF Begins
<1>7. ASSUME Escapes(r, b) PROVE Old /\ Latest /\ Passed
  <2>1. rx'.data = r.data
    BY <1>1, <1>7 DEF Escapes, Receivers
  <2>2. QED
    BY <1>4, <1>7, <2>1 DEF Escapes
<1>8. ASSUME GivesUp(r, b) PROVE Old /\ Latest /\ Passed
  <2>1. rx'.data = r.data /\ rx'.mode = "not_started"
    BY <1>1, <1>8 DEF GivesUp, Receivers
  <2>2. QED
    BY <1>4, <1>8, <2>1 DEF GivesUp
<1>9. ASSUME Delivers(r, b) PROVE Old /\ Latest /\ Passed
  <2>1. rx'.data = r.data /\ rx'.mode = "not_started"
    BY <1>1, <1>9 DEF Delivers, Receivers
  <2>2. Old /\ Latest
    BY <1>2, <2>1 DEF Receiving
  <2>3. Delivered(r).nr \in 1 .. Len(frames) /\ Delivered(r).nr = -r.data[Len(r.data)]
        /\ Delivered(r) \in [header : Units, data : Seq(Bytes), nr : 1 .. MaxFrames]
    BY <1>1, <1>9, DeliveredFacts DEF Delivers
  <2>4. r = rx /\ Receiving /\ Len(rx.data) >= 1
    BY <1>1, <1>3, <1>9 DEF Delivers
  <2>5. QED
    BY <1>9, <2>2, <2>3, <2>4 DEF Delivers
<1>10. ASSUME Opens(r, b) PROVE Old /\ Latest /\ Passed
  <2>1. rx'.data = r.data /\ rx'.mode = r.mode
    BY <1>1, <1>10 DEF Opens, Receivers
  <2>2. QED
    BY <1>4, <1>10, <2>1 DEF Opens
<1>11. ASSUME Stores(r, b) PROVE Old /\ Latest /\ Passed
  <2>1. rx'.data = Append(r.data, b)
    BY <1>1, <1>11 DEF Stores, Receivers
  <2>2. /\ Len(rx'.data) = Len(r.data) + 1 /\ rx'.data[Len(r.data) + 1] = b
        /\ \A i \in 1 .. Len(r.data) : rx'.data[i] = r.data[i]
    BY <1>1, <2>1, Appended
  <2>3. QED
    BY <1>1, <1>2, <1>11, <2>2 DEF Stores
<1>12. ASSUME Unescapes(r, b) PROVE Old /\ Latest /\ Passed
  <2>1. rx'.data = r.data \o Unescaped(b) /\ r = rx /\ Receiving /\ routed' = routed
    BY <1>1, <1>3, <1>12 DEF Unescapes, Receivers
  <2>2. CASE Unescaped(b) = <<>>
    <3>1. rx'.data = r.data
      BY <1>1, <2>1, <2>2, ConcatEmptySeq
    <3>2. QED
      BY <2>1, <3>1
  <2>3. ASSUME NEW e \in {FESC, FEND}, Unescaped(b) = <<e>> PROVE Old /\ Latest /\ Passed
    <3>1. e \in Seen /\ e \in Nat
      BY SeenFacts DEF FESC, FEND
    <3>2. rx'.data = Append(r.data, e)
      BY <1>1, <2>1, <2>3, <3>1, AppendIsConcat
    <3>3. /\ Len(rx'.data) = Len(r.data) + 1 /\ rx'.data[Len(r.data) + 1] = e
          /\ \A i \in 1 .. Len(r.data) : rx'.data[i] = r.data[i]
      BY <1>1, <3>1, <3>2, Appended
    <3>4. Old
      <4>1. SUFFICES ASSUME NEW i \in 1 .. Len(rx'.data), rx'.data[i] < 0
                     PROVE  \E j \in 1 .. Len(rx.data) : rx'.data[i] = rx.data[j]
        OBVIOUS
      <4>2. i # Len(r.data) + 1
        BY <3>1, <3>3, <4>1
      <4>3. i \in 1 .. Len(r.data)
        BY <1>1, <3>3, <4>2
      <4>4. QED
        BY <1>2, <3>3, <4>3
    <3>5. Latest
      <4>1. ~(rx'.data[Len(rx'.data)] < 0)
        BY <1>1, <3>1, <3>3
      <4>2. QED
        BY <2>1, <4>1
    <3>6. QED
      BY <2>1, <3>4, <3>5
  <2>4. QED
    BY <2>2, <2>3 DEF Unescaped
<1>13. QED
  BY <1>5, <1>6, <1>7, <1>8, <1>9, <1>10, <1>11, <1>12, RxCases

(* What is routed, and what may follow it.                                   *)
Above(q, l, n) == \A k \in 1 .. Len(q) : IF l THEN q[k].nr # n ELSE q[k].nr < n

Ordered(q, l) ==
  \A j, k \in 1 .. Len(q) : j < k => IF l THEN q[j].nr # q[k].nr ELSE q[j].nr < q[k].nr

LEMMA NewerIsAbove == \A n : Newer(n) <=> Above(routed, late, n)
BY DEF Newer, Above

LEMMA OrderedAppend ==
  ASSUME NEW S, NEW q \in Seq(S), NEW x \in S, NEW l, Ordered(q, l), Above(q, l, x.nr)
  PROVE  Ordered(Append(q, x), l)
<1>1. /\ Len(q) \in Nat /\ Len(Append(q, x)) = Len(q) + 1
      /\ \A i \in 1 .. Len(q) : Append(q, x)[i] = q[i]
      /\ Append(q, x)[Len(q) + 1] = x
  BY Appended
<1>2. SUFFICES ASSUME NEW j \in 1 .. Len(q) + 1, NEW k \in 1 .. Len(q) + 1, j < k
               PROVE  IF l THEN Append(q, x)[j].nr # Append(q, x)[k].nr
                           ELSE Append(q, x)[j].nr < Append(q, x)[k].nr
  BY <1>1 DEF Ordered
<1>3. j \in 1 .. Len(q)
  BY <1>1, <1>2
<1>4. CASE k \in 1 .. Len(q)
  BY <1>1, <1>2, <1>3, <1>4 DEF Ordered
<1>5. CASE k = Len(q) + 1
  BY <1>1, <1>3, <1>5 DEF Above
<1>6. QED
  BY <1>1, <1>4, <1>5

LEMMA AboveAppend ==
  ASSUME NEW S, NEW q \in Seq(S), NEW x \in S, NEW l, NEW n,
         Above(q, l, n), x.nr # n, ~l => x.nr < n
  PROVE  Above(Append(q, x), l, n)
<1>1. /\ Len(q) \in Nat /\ Len(Append(q, x)) = Len(q) + 1
      /\ \A i \in 1 .. Len(q) : Append(q, x)[i] = q[i]
      /\ Append(q, x)[Len(q) + 1] = x
  BY Appended
<1>2. SUFFICES ASSUME NEW k \in 1 .. Len(q) + 1
               PROVE  IF l THEN Append(q, x)[k].nr # n ELSE Append(q, x)[k].nr < n
  BY <1>1 DEF Above
<1>3. CASE k \in 1 .. Len(q)
  BY <1>1, <1>3 DEF Above
<1>4. CASE k = Len(q) + 1
  BY <1>1, <1>4
<1>5. QED
  BY <1>1, <1>3, <1>4

(* A step of the line: a number that comes out of it is put for the first and   *)
(* last time, or is that of a new frame.                                      *)
LEMMA LineOnce ==
  ASSUME OnceInv, KissTypes', late' = late, Len(frames) <= Len(frames'),
         \/ rx' = rx /\ routed' = routed
         \/ \E b \in Seen : /\ Rx(b)
                            /\ b < 0 => Newer(-b)
                            /\ b < 0 => \A t \in Senders : Pending(t)' => number'[t] # -b,
         \A t \in Senders : Pending(t)' =>
           (Pending(t) /\ number'[t] = number[t]) \/ number'[t] = Len(frames) + 1,
         \A t, u \in Senders : t # u /\ at'[t] > 0 => number'[t] # number'[u]
  PROVE  NumberInv' /\ RoutedOnce'
<1> DEFINE last == rx.data[Len(rx.data)]
           Packets == [header : Units, data : Seq(Bytes), nr : 1 .. MaxFrames]
<1>1. /\ Len(frames) \in Nat /\ Len(frames') \in Nat /\ rx.data \in Seq(Seen) /\ Len(rx.data) \in Nat
      /\ routed \in Seq(Packets) /\ Len(routed) \in Nat
      /\ \A k \in 1 .. Len(routed) : routed[k].nr \in 1 .. Len(frames)
      /\ \A t \in Senders : number[t] \in Nat
  <2>1. KissTypes /\ NumberInv /\ TypeOK
    BY DEF OnceInv, KissTypes
  <2>2. Len(frames) \in Nat /\ rx.data \in Seq(Seen) /\ Len(rx.data) \in Nat
    BY <2>1, SeenFacts, NotEmpty DEF KissTypes
  <2>3. Len(frames') \in Nat /\ routed \in Seq(Packets) /\ Len(routed) \in Nat
    BY <2>1, NotEmpty DEF KissTypes, TypeOK
  <2>4. \A k \in 1 .. Len(routed) : routed[k] \in Packets
    BY <2>3, NotEmpty
  <2>5. QED
    BY <2>1, <2>2, <2>3, <2>4 DEF NumberInv, TypeOK
<1>2. \/ routed' = routed
      \/ \E x \in Packets : /\ x.nr \in 1 .. Len(frames) /\ x.nr = -last /\ Receiving /\ Len(rx.data) >= 1
                            /\ routed' = Append(routed, x)
  BY RxNumbers DEF OnceInv
<1>3. \A x \in Packets :
        x.nr \in 1 .. Len(frames) /\ x.nr = -last /\ Receiving /\ Len(rx.data) >= 1
          => /\ Above(routed, late, x.nr)
             /\ \A t \in Senders : Pending(t) => x.nr # number[t] /\ (~late => x.nr < number[t])
  <2>1. SUFFICES ASSUME NEW x \in Packets, x.nr \in 1 .. Len(frames), x.nr = -last, Receiving, Len(rx.data) >= 1
                 PROVE  /\ Above(routed, late, x.nr)
                        /\ \A t \in Senders : Pending(t) => x.nr # number[t] /\ (~late => x.nr < number[t])
    OBVIOUS
  <2>2. last \in Seen /\ last \in Int /\ last < 0 /\ rx.data # <<>> /\ -last = x.nr
    <3>1. last \in Seen /\ rx.data # <<>>
      BY <1>1, <2>1, NotEmpty
    <3>2. last \in Int
      BY <3>1, SeenFacts DEF OnceInv
    <3>3. QED
      BY <1>1, <2>1, <3>1, <3>2
  <2>3. Newer(x.nr)
    BY <2>1, <2>2 DEF OnceInv, NumberInv
  <2>4. ASSUME NEW t \in Senders, Pending(t) PROVE x.nr # number[t]
    <3>1. last # -number[t]
      BY <1>1, <2>1, <2>4 DEF OnceInv, NumberInv
    <3>2. QED
      BY <1>1, <2>2, <3>1
  <2>5. ASSUME NEW t \in Senders, Pending(t), ~late PROVE x.nr < number[t]
    <3>1. number[t] = Len(frames)
      BY <2>5 DEF OnceInv, LockInv, Pending
    <3>2. QED
      BY <1>1, <2>1, <2>4, <2>5, <3>1
  <2>6. QED
    BY <2>3, <2>4, <2>5, NewerIsAbove
<1> HIDE DEF Packets, last
<1>4. RoutedOnce'
  <2>1. Ordered(routed, late)
    BY DEF OnceInv, RoutedOnce, Ordered
  <2>2. Ordered(routed', late)
    <3>1. ASSUME NEW x \in Packets, x.nr \in 1 .. Len(frames), x.nr = -last, Receiving,
                 Len(rx.data) >= 1, routed' = Append(routed, x)
          PROVE  Ordered(routed', late)
      <4>1. Above(routed, late, x.nr)
        BY <1>3, <3>1
      <4>2. QED
        BY <1>1, <2>1, <3>1, <4>1, OrderedAppend
    <3>2. QED
      BY <1>2, <2>1, <3>1
  <2>3. QED
    BY <2>2 DEF RoutedOnce, Ordered
<1>5. \A k \in 1 .. Len(routed') : routed'[k].nr <= Len(frames')
  <2>1. CASE routed' = routed
    BY <1>1, <2>1
  <2>2. ASSUME NEW x \in Packets, x.nr \in 1 .. Len(frames), routed' = Append(routed, x)
        PROVE  \A k \in 1 .. Len(routed') : routed'[k].nr <= Len(frames')
    <3>1. /\ Len(routed') = Len(routed) + 1 /\ routed'[Len(routed) + 1] = x
          /\ \A i \in 1 .. Len(routed) : routed'[i] = routed[i]
      BY <1>1, <2>2, Appended
    <3>2. ASSUME NEW k \in 1 .. Len(routed') PROVE routed'[k].nr <= Len(frames')
      <4>1. k \in 1 .. Len(routed) \/ k = Len(routed) + 1
        BY <1>1, <3>1
      <4>2. routed'[k].nr \in 1 .. Len(frames)
        BY <1>1, <2>2, <3>1, <4>1
      <4>3. QED
        BY <1>1, <4>2
    <3>3. QED
      BY <3>2
  <2>3. QED
    BY <1>2, <2>1, <2>2
<1>6. ASSUME NEW t \in Senders, Pending(t)' PROVE Newer(number[t])'
  <2>1. CASE Pending(t) /\ number'[t] = number[t]
    <3>1. Above(routed, late, number[t])
      BY <2>1, NewerIsAbove DEF OnceInv, NumberInv
    <3>2. Above(routed', late, number[t])
      <4>1. ASSUME NEW x \in Packets, x.nr \in 1 .. Len(frames), x.nr = -last, Receiving,
                   Len(rx.data) >= 1, routed' = Append(routed, x)
            PROVE  Above(routed', late, number[t])
        <5>1. x.nr # number[t] /\ (~late => x.nr < number[t])
          BY <1>3, <2>1, <4>1
        <5>2. QED
          BY <1>1, <3>1, <4>1, <5>1, AboveAppend
      <4>2. QED
        BY <1>2, <3>1, <4>1
    <3>3. QED
      BY <2>1, <3>2 DEF Above, Newer
  <2>2. CASE number'[t] = Len(frames) + 1
    <3>1. \A k \in 1 .. Len(routed') : routed'[k].nr \in 1 .. Len(frames)
      <4>1. CASE routed' = routed
        BY <1>1, <4>1
      <4>2. ASSUME NEW x \in Packets, x.nr \in 1 .. Len(frames), routed' = Append(routed, x)
            PROVE  \A k \in 1 .. Len(routed') : routed'[k].nr \in 1 .. Len(frames)
        <5>1. /\ Len(routed') = Len(routed) + 1 /\ routed'[Len(routed) + 1] = x
              /\ \A i \in 1 .. Len(routed) : routed'[i] = routed[i]
          BY <1>1, <4>2, Appended
        <5>2. ASSUME NEW k \in 1 .. Len(routed') PROVE routed'[k].nr \in 1 .. Len(frames)
          <6>1. k \in 1 .. Len(routed) \/ k = Len(routed) + 1
            BY <1>1, <5>1
          <6>2. QED
            BY <1>1, <4>2, <5>1, <6>1
        <5>3. QED
          BY <5>2
      <4>3. QED
        BY <1>2, <4>1, <4>2
    <3>2. QED
      BY <1>1, <2>2, <3>1 DEF Newer
  <2>3. QED
    BY <1>6, <2>1, <2>2
<1>7. ASSUME NEW t \in Senders, Pending(t)', NEW i \in 1 .. Len(rx'.data) PROVE rx'.data[i] # -number'[t]
  <2>1. CASE rx' = rx
    <3>1. CASE Pending(t) /\ number'[t] = number[t]
      BY <1>7, <2>1, <3>1 DEF OnceInv, NumberInv
    <3>2. CASE number'[t] = Len(frames) + 1
      <4>1. rx.data[i] \in Seen
        BY <1>1, <1>7, <2>1, NotEmpty
      <4>2. QED
        BY <1>1, <2>1, <3>2, <4>1 DEF Seen
    <3>3. QED
      BY <1>7, <3>1, <3>2
  <2>2. ASSUME NEW b \in Seen, Rx(b), b < 0 => \A u \in Senders : Pending(u)' => number'[u] # -b,
               rx'.data[i] = -number'[t]
        PROVE  FALSE
    <3>1. rx'.data \in Seq(Seen) /\ rx'.data[i] \in Seen
      <4>1. rx'.data \in Seq(Seen)
        BY <2>2, RxTypes DEF OnceInv, Receivers
      <4>2. QED
        BY <1>7, <4>1, NotEmpty
    <3>2. number'[t] # Len(frames) + 1
      BY <1>1, <2>2, <3>1 DEF Seen
    <3>3. Pending(t) /\ number'[t] = number[t] /\ number[t] \in Nat
      BY <1>1, <1>7, <3>2
    <3>4. number[t] > 0
      BY <3>3 DEF OnceInv, KissTypes, SenderOK, Pending
    <3>5. rx'.data[i] < 0
      BY <2>2, <3>3, <3>4
    <3>6. rx'.data[i] # b
      <4>1. CASE rx'.data[i] = b
        <5>1. b < 0 /\ b = -number'[t] /\ b \in Int
          BY <2>2, <3>5, <4>1, SeenFacts DEF OnceInv
        <5>2. number'[t] = -b
          BY <3>3, <5>1
        <5>3. QED
          BY <1>7, <2>2, <5>1, <5>2
      <4>2. QED
        BY <4>1
    <3>7. \E j \in 1 .. Len(rx.data) : rx'.data[i] = rx.data[j]
      BY <1>7, <2>2, <3>5, <3>6, RxNumbers DEF OnceInv
    <3>8. QED
      BY <2>2, <3>3, <3>7 DEF OnceInv, NumberInv
  <2>3. QED
    BY <2>1, <2>2
<1>8. ASSUME Receiving', rx'.data # <<>>, rx'.data[Len(rx'.data)] < 0 PROVE Newer(-rx.data[Len(rx.data)])'
  <2>1. CASE rx' = rx /\ routed' = routed
    BY <1>8, <2>1 DEF OnceInv, NumberInv, Receiving, Newer
  <2>2. ASSUME NEW b \in Seen, Rx(b), b < 0 => Newer(-b) PROVE Newer(-rx.data[Len(rx.data)])'
    <3>1. routed' = routed
      BY <1>8, <2>2, RxNumbers DEF OnceInv
    <3>2. Newer(-rx'.data[Len(rx'.data)])
      <4>1. CASE rx'.data[Len(rx'.data)] = b
        BY <1>8, <2>2, <4>1
      <4>2. CASE Receiving /\ rx.data # <<>> /\ rx'.data[Len(rx'.data)] = rx.data[Len(rx.data)]
        BY <1>8, <4>2 DEF OnceInv, NumberInv
      <4>3. QED
        BY <1>8, <2>2, <4>1, <4>2, RxNumbers DEF OnceInv
    <3>3. QED
      BY <3>1, <3>2 DEF Newer
  <2>3. QED
    BY <2>1, <2>2
<1>9. NumberInv'
  BY <1>5, <1>6, <1>7, <1>8 DEF NumberInv
<1>10. QED
  BY <1>4, <1>9

(* The byte that is a number is the last of the content.                     *)
LEMMA OutputNumber ==
  ASSUME KissTypes, NEW s \in Senders, tpc[s] = "send", Output(s) < 0
  PROVE  /\ Output(s) = -number[s] /\ at[s] = FrameLength(s) - 2 /\ ~MustEscape(s)
         /\ number[s] \in Nat /\ number[s] > 0
<1>1. /\ at[s] \in Nat /\ FrameLength(s) \in Nat /\ FrameLength(s) >= 5 /\ at[s] < FrameLength(s)
  BY CanEscape
<1>2. Current(s) < 0 /\ Output(s) = Current(s) /\ ~MustEscape(s)
  BY DEF Output, FESC, TFESC, TFEND
<1>3. Current(s) = Content(s)[at[s] - 1] /\ at[s] \in 2 .. FrameLength(s) - 2
  BY <1>1, <1>2 DEF Current, FEND, TNC_DATA
<1>4. /\ payload[s] \in Seq(Bytes) /\ Len(payload[s]) \in Nat /\ FrameLength(s) = Len(payload[s]) + 5
      /\ Content(s)[1] = HeaderByte
      /\ \A i \in 1 .. Len(payload[s]) : Content(s)[i + 1] = payload[s][i]
      /\ Content(s)[Len(payload[s]) + 2] = -number[s] /\ number[s] \in Nat
  <2>1. tpc[s] \notin {"idle", "up"}
    OBVIOUS
  <2>2. number[s] \in 0 .. Len(frames) /\ Len(frames) \in Nat
    BY <2>1, ContentFacts, SeenFacts
  <2>3. number[s] \in Nat
    BY <2>2
  <2>4. QED
    BY <2>1, <2>3, ContentFacts
<1>5. at[s] # 2
  BY <1>2, <1>3, <1>4 DEF HeaderByte
<1>6. ~(at[s] - 2 \in 1 .. Len(payload[s]))
  <2>1. SUFFICES ASSUME at[s] - 2 \in 1 .. Len(payload[s]) PROVE FALSE
    OBVIOUS
  <2>2. payload[s][at[s] - 2] \in Bytes
    BY <1>4, <2>1, NotEmpty
  <2>3. Content(s)[at[s] - 2 + 1] = payload[s][at[s] - 2]
    BY <1>4, <2>1
  <2>4. at[s] - 2 + 1 = at[s] - 1
    BY <1>1
  <2>5. QED
    BY SMTT(30), <1>2, <1>3, <2>2, <2>3, <2>4 DEF Bytes
<1>7. at[s] = FrameLength(s) - 2
  BY <1>1, <1>3, <1>4, <1>5, <1>6
<1>8. at[s] - 1 = Len(payload[s]) + 2
  BY <1>1, <1>4, <1>7
<1>9. QED
  BY <1>2, <1>3, <1>4, <1>7, <1>8

(* What is still to be put after s has put a byte.                            *)
LEMMA AdvancePending ==
  ASSUME OnceInv, NEW s \in Senders, tpc[s] = "send", Advance(s), payload' = payload
  PROVE  /\ \A t \in Senders : Pending(t)' =>
              (Pending(t) /\ number'[t] = number[t]) \/ number'[t] = Len(frames) + 1
         /\ \A t, u \in Senders : t # u /\ at'[t] > 0 => number'[t] # number'[u]
         /\ ~late => /\ \A t, u \in Senders : Holding(t)' /\ Holding(u)' => t = u
                     /\ \A t \in Senders : Holding(t)' => Holding(t)
                     /\ \A t \in Senders : at'[t] > 0 => number'[t] = Len(frames')
         /\ \A t \in Senders \ {s} : number'[t] = number[t]
         /\ at[s] = FrameLength(s) - 2 /\ ~MustEscape(s) => ~Pending(s)'
<1>1. /\ at[s] \in Nat /\ FrameLength(s) \in Nat /\ FrameLength(s) >= 5 /\ at[s] < FrameLength(s)
      /\ MustEscape(s) => at[s] >= 2
  BY CanEscape DEF OnceInv
<1>2. /\ tpc'[s] \in {"send", "post"}
      /\ at'[s] = IF MustEscape(s) THEN at[s] ELSE at[s] + 1
      /\ \A t \in Senders \ {s} : tpc'[t] = tpc[t] /\ at'[t] = at[t] /\ number'[t] = number[t]
      /\ at[s] = 0 => number'[s] = Len(frames')
      /\ at[s] # 0 => number'[s] = number[s]
  <2>1. TypeOK
    BY DEF OnceInv, KissTypes
  <2>2. QED
    BY <2>1 DEF Advance, TypeOK
<1>3. /\ Len(frames) \in Nat /\ Len(frames') = IF at[s] = 0 THEN Len(frames) + 1 ELSE Len(frames)
  BY AdvanceTypes, SeenFacts DEF OnceInv
<1>4. \A t \in Senders : FrameLength(t)' = FrameLength(t)
  BY DEF FrameLength
<1>5. \A t \in Senders : /\ number[t] \in 0 .. Len(frames) /\ at[t] \in Nat
                         /\ at[t] > 0 => Holding(t)
  <2>1. SUFFICES ASSUME NEW t \in Senders
                 PROVE  /\ number[t] \in 0 .. Len(frames) /\ at[t] \in Nat
                        /\ at[t] > 0 => Holding(t)
    OBVIOUS
  <2>2. SenderOK(t) /\ at[t] \in Nat /\ tpc[t] \in {"idle", "lock", "send", "post", "up"}
    BY DEF OnceInv, KissTypes, TypeOK
  <2>3. QED
    BY <1>3, <2>2 DEF SenderOK, Holding
<1>6. ASSUME NEW t \in Senders, Pending(t)'
      PROVE  (Pending(t) /\ number'[t] = number[t]) \/ number'[t] = Len(frames) + 1
  <2>1. CASE t # s
    BY <1>2, <1>4, <1>6, <2>1 DEF Pending
  <2>2. CASE t = s /\ at[s] = 0
    BY <1>2, <1>3, <2>2
  <2>3. CASE t = s /\ at[s] # 0
    BY <1>1, <1>2, <1>4, <1>6, <2>3 DEF Pending
  <2>4. QED
    BY <2>1, <2>2, <2>3
<1>7. ASSUME NEW t \in Senders, NEW u \in Senders, t # u, at'[t] > 0 PROVE number'[t] # number'[u]
  <2>1. CASE at[s] = 0 /\ s \in {t, u}
    BY <1>2, <1>3, <1>5, <1>7, <2>1
  <2>2. CASE at[s] # 0 \/ s \notin {t, u}
    <3>1. at[t] > 0 /\ number'[t] = number[t] /\ number'[u] = number[u]
      BY <1>1, <1>2, <1>7, <2>2
    <3>2. QED
      BY <1>7, <3>1 DEF OnceInv, NumberInv
  <2>3. QED
    BY <2>1, <2>2
<1>8. \A t \in Senders : Holding(t)' => Holding(t)
  BY <1>2 DEF Holding
<1>9. ASSUME ~late
      PROVE  /\ \A t, u \in Senders : Holding(t)' /\ Holding(u)' => t = u
             /\ \A t \in Senders : at'[t] > 0 => number'[t] = Len(frames')
  <2>1. /\ \A t, u \in Senders : Holding(t) /\ Holding(u) => t = u
        /\ \A t \in Senders : at[t] > 0 => number[t] = Len(frames)
    BY <1>9 DEF OnceInv, LockInv
  <2>2. Holding(s)
    BY DEF Holding
  <2>3. ASSUME NEW t \in Senders, at'[t] > 0 PROVE number'[t] = Len(frames')
    <3>1. CASE t # s
      BY <1>2, <1>5, <2>1, <2>2, <2>3, <3>1
    <3>2. CASE t = s
      BY <1>1, <1>2, <1>3, <2>1, <2>3, <3>2
    <3>3. QED
      BY <3>1, <3>2
  <2>4. QED
    BY <1>8, <2>1, <2>3
<1>10. at[s] = FrameLength(s) - 2 /\ ~MustEscape(s) => ~Pending(s)'
  BY <1>1, <1>2, <1>4 DEF Pending
<1>11. QED
  BY <1>2, <1>6, <1>7, <1>8, <1>9, <1>10

(* A byte put or lost, or noise in its place.                                 *)
LEMMA ByteOnce ==
  ASSUME OnceInv, NEW s \in Senders, tpc[s] = "send", Advance(s), payload' = payload,
         late' = late, lock' = lock, KissTypes',
         \/ rx' = rx /\ routed' = routed
         \/ \E b \in Seen : Rx(b) /\ (b >= 0 \/ b = Output(s))
  PROVE  OnceInv'
<1>1. LockInv'
  BY AdvancePending DEF OnceInv, LockInv
<1>2. Len(frames) \in Nat /\ Len(frames) <= Len(frames')
  BY AdvanceTypes, SeenFacts DEF OnceInv
<1>3. ASSUME NEW b \in Seen, b >= 0 \/ b = Output(s), b < 0
      PROVE  /\ Newer(-b)
             /\ \A t \in Senders : Pending(t)' => number'[t] # -b
  <2>1. b = Output(s) /\ b \in Int
    <3>1. b \in Int
      BY SeenFacts DEF OnceInv
    <3>2. QED
      BY <1>3, <3>1
  <2>2. /\ b = -number[s] /\ at[s] = FrameLength(s) - 2 /\ ~MustEscape(s)
        /\ number[s] \in Nat /\ number[s] > 0
    BY <1>3, <2>1, OutputNumber DEF OnceInv
  <2>3. -b = number[s] /\ at[s] > 0 /\ Pending(s)
    BY <2>2, CanEscape DEF Pending, OnceInv
  <2>4. Newer(number[s])
    BY <2>3 DEF OnceInv, NumberInv
  <2>5. ASSUME NEW t \in Senders, Pending(t)' PROVE number'[t] # -b
    <3>1. t # s
      BY <2>2, <2>5, AdvancePending
    <3>2. number'[t] = number[t] /\ number[t] # number[s]
      BY <2>3, <3>1, AdvancePending DEF OnceInv, NumberInv
    <3>3. QED
      BY <2>3, <3>2
  <2>6. QED
    BY <2>3, <2>4, <2>5
<1>4. NumberInv' /\ RoutedOnce'
  BY <1>2, <1>3, AdvancePending, LineOnce
<1>5. QED
  BY <1>1, <1>4 DEF OnceInv

LEMMA PutcOnce == ASSUME OnceInv, NEW s \in Senders, Putc(s) PROVE OnceInv'
<1>1. KissTypes'
  BY PutcTypes DEF OnceInv
<1>2. QED
  BY <1>1, PutcFacts, ByteOnce DEF OnceInv

LEMMA NoiseIsData == ASSUME NEW b \in Noise PROVE b \in Int /\ b >= 0
BY KissAssumption

LEMMA LoseOnce == ASSUME OnceInv, NEW s \in Senders, Lose(s) PROVE OnceInv'
<1>1. KissTypes'
  BY LoseTypes DEF OnceInv
<1>2. QED
  BY <1>1, ByteOnce DEF Lose

LEMMA ChangeOnce == ASSUME OnceInv, NEW s \in Senders, Change(s) PROVE OnceInv'
<1>1. KissTypes'
  BY ChangeTypes DEF OnceInv
<1>2. \E b \in Seen : Rx(b) /\ b >= 0
  BY NoiseSeen, NoiseIsData DEF Change, OnceInv
<1>3. QED
  BY <1>1, <1>2, ByteOnce DEF Change

RoutedPackets == [header : Units, data : Seq(Bytes), nr : 1 .. MaxFrames]

LEMMA RoutedRange ==
  ASSUME OnceInv
  PROVE  \A k \in 1 .. Len(routed) : routed[k].nr \in 1 .. Len(frames)
<1>1. routed \in Seq(RoutedPackets)
  BY DEF OnceInv, KissTypes, TypeOK, RoutedPackets
<1>2. \A k \in 1 .. Len(routed) : routed[k] \in RoutedPackets
  BY <1>1, NotEmpty
<1>3. \A k \in 1 .. Len(routed) : routed[k].nr <= Len(frames)
  BY DEF OnceInv, NumberInv
<1>4. Len(frames) \in Nat
  BY SeenFacts DEF OnceInv
<1>5. QED
  BY <1>2, <1>3, <1>4, KissAssumption DEF RoutedPackets

LEMMA RoutedNumbers ==
  ASSUME KissTypes
  PROVE  \A k \in 1 .. Len(routed) : routed[k].nr \in Int
<1> DEFINE Packets == [header : Units, data : Seq(Bytes), nr : 1 .. MaxFrames]
<1>1. routed \in Seq(Packets)
  BY DEF KissTypes, TypeOK
<1> HIDE DEF Packets
<1>2. \A k \in 1 .. Len(routed) : routed[k] \in Packets
  BY <1>1, NotEmpty
<1>3. QED
  BY <1>2, KissAssumption DEF Packets

(* Steps that leave the numbers alone.                                       *)
LEMMA NumbersKept ==
  ASSUME OnceInv, KissTypes', rx' = rx, routed' = routed, frames' = frames,
         late' = late \/ late' = TRUE,
         \A t \in Senders : at'[t] > 0 => at'[t] = at[t] /\ number'[t] = number[t] /\ payload'[t] = payload[t],
         \A t \in Senders : number'[t] = number[t] \/ number'[t] = 0
  PROVE  NumberInv' /\ RoutedOnce'
<1>1. \A n : n \in Int /\ Newer(n) => Newer(n)'
  <2>1. SUFFICES ASSUME NEW n \in Int, Newer(n) PROVE Newer(n)'
    OBVIOUS
  <2>2. \A k \in 1 .. Len(routed) : routed[k].nr \in Int
    BY RoutedNumbers DEF OnceInv
  <2>3. CASE late' = late
    BY <2>1, <2>3 DEF Newer
  <2>4. CASE late' = TRUE
    BY <2>1, <2>2, <2>4 DEF Newer
  <2>5. QED
    BY <2>3, <2>4
<1>2. RoutedOnce'
  <2>1. \A k \in 1 .. Len(routed) : routed[k].nr \in Int
    BY RoutedNumbers DEF OnceInv
  <2>2. CASE late' = late
    BY <2>2 DEF OnceInv, RoutedOnce
  <2>3. CASE late' = TRUE
    BY <2>1, <2>3 DEF OnceInv, RoutedOnce
  <2>4. QED
    BY <2>2, <2>3
<1>3. \A t \in Senders : Pending(t)' => Pending(t) /\ number'[t] = number[t]
  BY DEF Pending, FrameLength
<1>4. \A t \in Senders : number[t] \in Nat /\ (at[t] > 0 => number[t] > 0)
  BY SMTT(30) DEF OnceInv, KissTypes, TypeOK, SenderOK
<1>5. \A t \in Senders : Pending(t)' =>
        Newer(number[t])' /\ \A i \in 1 .. Len(rx.data) : rx.data[i] # -number'[t]
  <2>1. SUFFICES ASSUME NEW t \in Senders, Pending(t)'
                 PROVE  Newer(number[t])' /\ \A i \in 1 .. Len(rx.data) : rx.data[i] # -number'[t]
    OBVIOUS
  <2>2. Pending(t) /\ number'[t] = number[t]
    BY <1>3, <2>1
  <2>3. Newer(number[t]) /\ \A i \in 1 .. Len(rx.data) : rx.data[i] # -number[t]
    BY <2>2 DEF OnceInv, NumberInv
  <2>4. \A n : n = number[t] => Newer(n)'
    BY <1>1, <1>4, <2>3
  <2>5. QED
    BY <2>2, <2>3, <2>4 DEF Newer
<1>6. Receiving' /\ rx.data # <<>> /\ rx.data[Len(rx.data)] < 0 => Newer(-rx.data[Len(rx.data)])'
  <2>1. SUFFICES ASSUME Receiving, rx.data # <<>>, rx.data[Len(rx.data)] < 0
                 PROVE  Newer(-rx.data[Len(rx.data)])'
    BY DEF Receiving
  <2>2. PICK n : n = -rx.data[Len(rx.data)]
    OBVIOUS
  <2>3. n \in Int
    <3>1. rx.data \in Seq(Seen) /\ Len(rx.data) \in Nat
      BY SeenFacts, NotEmpty DEF OnceInv, KissTypes
    <3>2. rx.data[Len(rx.data)] \in Seen /\ Seen \subseteq Int
      BY <2>1, <3>1, NotEmpty, SeenFacts DEF OnceInv
    <3>3. QED
      BY <2>2, <3>2
  <2>4. Newer(n)
    BY <2>1, <2>2 DEF OnceInv, NumberInv
  <2>5. Newer(n)'
    BY <1>1, <2>3, <2>4
  <2>6. QED
    BY <2>2, <2>5 DEF Newer
<1>7. \A t, u \in Senders : t # u /\ at'[t] > 0 => number'[t] # number'[u]
  <2>1. SUFFICES ASSUME NEW t \in Senders, NEW u \in Senders, t # u, at'[t] > 0
                 PROVE  number'[t] # number'[u]
    OBVIOUS
  <2>2. at[t] > 0 /\ number'[t] = number[t] /\ number[t] > 0 /\ number[t] # number[u]
    BY <1>4, <2>1 DEF OnceInv, NumberInv
  <2>3. QED
    BY <2>1, <2>2
<1>8. QED
  BY <1>2, <1>5, <1>6, <1>7 DEF OnceInv, NumberInv

LEMMA CallOnce == ASSUME OnceInv, NEW s \in Senders, Call(s) PROVE OnceInv'
<1>1. KissTypes'
  BY CallTypes DEF OnceInv
<1>2. /\ tpc[s] = "idle" /\ tpc' = [tpc EXCEPT ![s] = "lock"] /\ at[s] = 0
      /\ rx' = rx /\ routed' = routed /\ frames' = frames /\ late' = late /\ lock' = lock
      /\ at' = at /\ number' = number
      /\ \A t \in Senders \ {s} : payload'[t] = payload[t]
  <2>1. SenderOK(s) /\ TypeOK
    BY DEF OnceInv, KissTypes
  <2>2. QED
    BY <2>1 DEF Call, SenderOK, TypeOK
<1>3. NumberInv' /\ RoutedOnce'
  BY <1>1, <1>2, NumbersKept
<1>4. \A t \in Senders : Holding(t)' => Holding(t)
  BY <1>2 DEF Holding, OnceInv, KissTypes, TypeOK
<1>5. LockInv'
  BY <1>2, <1>4 DEF OnceInv, LockInv
<1>6. QED
  BY <1>1, <1>3, <1>5 DEF OnceInv

LEMMA LockOnce == ASSUME OnceInv, NEW s \in Senders, Lock(s) PROVE OnceInv'
<1>1. KissTypes'
  BY LockTypes DEF OnceInv
<1>2. /\ tpc' = [tpc EXCEPT ![s] = "send"]
      /\ rx' = rx /\ routed' = routed /\ frames' = frames /\ (lock' = lock - 1 \/ late' = TRUE)
      /\ at' = at /\ number' = number /\ payload' = payload
      /\ (lock > 0 /\ late' = late) \/ late' = TRUE
  BY DEF Lock
<1>3. NumberInv' /\ RoutedOnce'
  BY <1>1, <1>2, NumbersKept
<1>4. \A t \in Senders : Holding(t)' => Holding(t) \/ t = s
  BY <1>2 DEF Holding, OnceInv, KissTypes, TypeOK
<1>5. ~late' => ~late /\ lock' = 0 /\ \A t \in Senders : ~Holding(t)
  BY <1>2 DEF OnceInv, LockInv
<1>6. LockInv'
  BY <1>2, <1>4, <1>5 DEF OnceInv, LockInv
<1>7. QED
  BY <1>1, <1>3, <1>6 DEF OnceInv

LEMMA PostOnce == ASSUME OnceInv, NEW s \in Senders, Post(s) PROVE OnceInv'
<1>1. KissTypes'
  BY PostTypes DEF OnceInv
<1>2. /\ tpc[s] = "post" /\ tpc'[s] \in {"idle", "up"} /\ at'[s] = 0 /\ number'[s] = 0
      /\ rx' = rx /\ routed' = routed /\ frames' = frames /\ late' = late /\ lock' = lock
      /\ \A t \in Senders \ {s} : /\ tpc'[t] = tpc[t] /\ at'[t] = at[t] /\ number'[t] = number[t]
                                  /\ payload'[t] = payload[t]
  BY DEF Post, OnceInv, KissTypes, TypeOK
<1>3. NumberInv' /\ RoutedOnce'
  BY <1>1, <1>2, NumbersKept
<1>4. \A t \in Senders : Holding(t)' => Holding(t)
  BY <1>2 DEF Holding
<1>5. \A t \in Senders : at'[t] > 0 => at[t] > 0 /\ number'[t] = number[t]
  BY <1>2
<1>6. LockInv'
  BY <1>2, <1>4, <1>5 DEF OnceInv, LockInv
<1>7. QED
  BY <1>1, <1>3, <1>6 DEF OnceInv

LEMMA UpOnce == ASSUME OnceInv, NEW s \in Senders, Up(s) PROVE OnceInv'
<1>1. KissTypes'
  BY UpTypes DEF OnceInv
<1>2. /\ tpc[s] = "up" /\ tpc'[s] = "idle" /\ at' = at /\ number' = number
      /\ payload' = payload /\ lock' = lock + 1
      /\ rx' = rx /\ routed' = routed /\ frames' = frames /\ late' = late
      /\ \A t \in Senders \ {s} : tpc'[t] = tpc[t]
  BY DEF Up, OnceInv, KissTypes, TypeOK
<1>3. NumberInv' /\ RoutedOnce'
  BY <1>1, <1>2, NumbersKept
<1>4. \A t \in Senders : Holding(t)' => Holding(t) /\ t # s
  BY <1>2 DEF Holding
<1>5. ~late => lock' = 1 /\ \A t \in Senders : ~Holding(t)'
  <2>1. Holding(s)
    BY <1>2 DEF Holding
  <2>2. QED
    BY <1>2, <1>4, <2>1 DEF OnceInv, LockInv
<1>6. LockInv'
  BY <1>2, <1>5 DEF OnceInv, LockInv
<1>7. QED
  BY <1>1, <1>3, <1>6 DEF OnceInv

LEMMA AddOnce == ASSUME OnceInv, Add PROVE OnceInv'
<1>1. KissTypes'
  BY AddTypes DEF OnceInv
<1>2. /\ lock' = lock /\ tpc' = tpc /\ at' = at /\ payload' = payload /\ number' = number
      /\ frames' = frames /\ late' = late
  BY DEF Add
<1>3. PICK b \in Seen : Rx(b) /\ b \in Int /\ b >= 0
  BY NoiseSeen, NoiseIsData DEF Add, OnceInv
<1>4. \A t \in Senders : (Pending(t)' <=> Pending(t)) /\ (Holding(t)' <=> Holding(t))
  BY <1>2 DEF Pending, Holding, FrameLength
<1>5. Len(frames) \in Nat
  BY SeenFacts DEF OnceInv
<1>6. ~(b < 0)
  BY <1>3
<1>7. \A t, u \in Senders : t # u /\ at'[t] > 0 => number'[t] # number'[u]
  BY <1>2 DEF OnceInv, NumberInv
<1>8. NumberInv' /\ RoutedOnce'
  BY <1>1, <1>2, <1>3, <1>4, <1>5, <1>6, <1>7, LineOnce
<1>9. LockInv'
  BY <1>2, <1>4 DEF OnceInv, LockInv
<1>10. QED
  BY <1>1, <1>8, <1>9 DEF OnceInv

LEMMA OnceInvUnchanged == ASSUME OnceInv, UNCHANGED vars PROVE OnceInv'
<1>1. KissTypes'
  BY KissTypesUnchanged DEF OnceInv
<1>2. /\ lock' = lock /\ tpc' = tpc /\ at' = at /\ payload' = payload /\ number' = number
      /\ rx' = rx /\ routed' = routed /\ frames' = frames /\ late' = late
  BY DEF vars
<1>3. NumberInv' /\ RoutedOnce'
  BY <1>1, <1>2, NumbersKept
<1>4. LockInv'
  BY <1>2 DEF OnceInv, LockInv, Holding
<1>5. QED
  BY <1>1, <1>3, <1>4 DEF OnceInv

LEMMA OnceInvInit == Init => OnceInv
<1> SUFFICES ASSUME Init PROVE OnceInv
  OBVIOUS
<1>1. Len(<<>>) = 0
  BY EmptySeq
<1>2. NumberInv /\ RoutedOnce
  BY <1>1 DEF Init, NumberInv, RoutedOnce, Pending, Receiving
<1>3. LockInv
  BY DEF Init, LockInv, Holding
<1>4. QED
  BY <1>2, <1>3, KissTypesInit DEF OnceInv

LEMMA OnceInvNext == ASSUME OnceInv, [Next]_vars PROVE OnceInv'
<1>1. ASSUME NEW s \in Senders, Call(s) \/ Lock(s) \/ Putc(s) \/ Post(s) \/ Up(s) \/ Lose(s) \/ Change(s)
      PROVE  OnceInv'
  BY <1>1, CallOnce, LockOnce, PutcOnce, PostOnce, UpOnce, LoseOnce, ChangeOnce
<1>2. QED
  BY <1>1, AddOnce, OnceInvUnchanged DEF Next

LEMMA OnceInvCorrect == Spec => []OnceInv
BY OnceInvInit, OnceInvNext, PTL DEF Spec

(* Whatever happens to the line, and however frames run into each other, no     *)
(* packet is routed twice; nor in another order than sent, unless a wait for    *)
(* kiss_lock has timed out.                                                   *)
THEOREM RoutedOnceAlways == Spec => []RoutedOnce
<1>1. OnceInv => RoutedOnce
  BY DEF OnceInv
<1>2. QED
  BY <1>1, OnceInvCorrect, PTL

-----------------------------------------------------------------------------
(* Frames that arrive as they are.                                           *)

LEMMA OutputByte ==
  ASSUME KissTypes, NEW s \in Senders, tpc[s] = "send"
  PROVE  /\ at[s] = 0 => Output(s) = FEND /\ ~MustEscape(s)
         /\ at[s] = 1 => Output(s) \notin {FEND, FESC} /\ ~MustEscape(s)
         /\ Last(s) => at[s] >= 4 /\ ~InContent(s) /\ Output(s) = FEND /\ ~MustEscape(s)
         /\ at[s] >= 2 /\ ~Last(s) => InContent(s)
         /\ InContent(s) => Current(s) = Content(s)[at[s] - 1]
         /\ MustEscape(s) => Output(s) = FESC /\ ~escaped[s]
         /\ InContent(s) => Output(s) # FEND
         /\ InContent(s) /\ escaped[s] => /\ Unescaped(Output(s)) = <<Current(s)>>
                                          /\ ~MustEscape(s)
                                          /\ Output(s) \notin {FEND, FESC}
         /\ InContent(s) /\ ~escaped[s] /\ ~MustEscape(s) =>
              Output(s) = Current(s) /\ Output(s) \notin {FEND, FESC}
<1>1. /\ at[s] \in Nat /\ FrameLength(s) \in Nat /\ FrameLength(s) >= 5 /\ at[s] < FrameLength(s)
      /\ escaped[s] => InContent(s) /\ Special(Current(s))
  BY CanEscape DEF KissTypes, SenderOK
<1>2. InContent(s) => /\ at[s] >= 2 /\ ~Last(s) /\ at[s] \notin {0, 1, FrameLength(s) - 1}
                      /\ Current(s) = Content(s)[at[s] - 1]
  BY <1>1 DEF InContent, Last, Current
<1>3. at[s] >= 2 /\ ~Last(s) => InContent(s)
  BY <1>1 DEF InContent, Last
<1>4. Last(s) \/ at[s] = 0 => Current(s) = FEND /\ ~InContent(s)
  BY <1>1 DEF Last, InContent, Current
<1>5. at[s] = 1 => Current(s) = TNC_DATA /\ ~InContent(s)
  BY <1>1 DEF InContent, Current
<1>6. Last(s) => at[s] >= 4
  BY <1>1 DEF Last
<1>7. ~InContent(s) => Output(s) = Current(s) /\ ~MustEscape(s)
  BY DEF Output, MustEscape
<1>8. CASE InContent(s)
  BY <1>1, <1>2, <1>3, <1>6, <1>8 DEF Output, MustEscape, Special, Unescaped, FEND, FESC, TFEND, TFESC
<1>9. CASE ~InContent(s)
  BY <1>1, <1>3, <1>4, <1>5, <1>6, <1>7, <1>9 DEF FEND, FESC, TNC_DATA
<1>10. QED
  BY <1>8, <1>9

(* What the receiver makes of a byte, in the modes it may be in.              *)
LEMMA Swallows ==
  ASSUME KissTypes, NEW b \in Seen, Rx(b), Unfilled(rx).mode = "not_started", b # FEND
  PROVE  rx' = Unfilled(rx) /\ routed' = routed
<1> DEFINE r == Unfilled(rx)
<1>1. \/ Ignores(r, b) \/ Begins(r, b) \/ Escapes(r, b) \/ GivesUp(r, b)
      \/ Delivers(r, b) \/ Opens(r, b) \/ Stores(r, b) \/ Unescapes(r, b)
  BY RxCases
<1>2. QED
  BY <1>1 DEF Ignores, Begins, Escapes, GivesUp, Delivers, Opens, Stores, Unescapes

LEMMA BeginsFrame ==
  ASSUME KissTypes, NEW b \in Seen, Rx(b), b = FEND, ~Starving,
         Unfilled(rx).mode = "not_started", Len(rx.data) > Mtu => rx.mode = "started"
  PROVE  /\ rx'.mode = "started" /\ rx'.first = TRUE /\ rx'.data = <<>> /\ routed' = routed
<1> DEFINE r == Unfilled(rx)
<1>1. r \in Receivers(Seen) /\ (r = rx \/ Len(rx.data) > Mtu)
  BY UnfilledFacts
<1>2. \/ Ignores(r, b) \/ Begins(r, b) \/ Escapes(r, b) \/ GivesUp(r, b)
      \/ Delivers(r, b) \/ Opens(r, b) \/ Stores(r, b) \/ Unescapes(r, b)
  BY RxCases
<1>3. Begins(r, b)
  BY <1>2 DEF Ignores, Begins, Escapes, GivesUp, Delivers, Opens, Stores, Unescapes
<1>4. rx.mode # "skip_frame"
  BY <1>1
<1>5. CASE rx' = [r EXCEPT !.mode = "skip_frame"]
  <2>1. rx'.mode = "skip_frame"
    BY <1>1, <1>5 DEF Receivers, Modes
  <2>2. QED
    BY <1>4, <2>1 DEF Starving
<1>6. CASE rx' = [r EXCEPT !.mode = "started", !.first = TRUE, !.packet = TRUE, !.data = <<>>]
  BY <1>1, <1>3, <1>6, EmptySeq DEF Begins, Receivers, Modes
<1>7. QED
  BY <1>3, <1>5, <1>6 DEF Begins

LEMMA EndsFrame ==
  ASSUME KissTypes, NEW b \in Seen, Rx(b), b = FEND,
         rx.mode \in {"started", "skip_frame"}, rx.mode = "started" => rx.data # <<>>, Len(rx.data) <= Mtu
  PROVE  /\ rx'.mode = "not_started"
         /\ rx.mode = "started" /\ Len(rx.data) >= 2 /\ CrcRight(rx.data) => routed' = Append(routed, Delivered(rx))
         /\ rx.mode = "skip_frame" => routed' = routed
<1> DEFINE r == Unfilled(rx)
<1>1. r \in Receivers(Seen) /\ r = rx
  BY UnfilledFacts, SeenFacts
<1>2. \/ Ignores(r, b) \/ Begins(r, b) \/ Escapes(r, b) \/ GivesUp(r, b)
      \/ Delivers(r, b) \/ Opens(r, b) \/ Stores(r, b) \/ Unescapes(r, b)
  BY RxCases
<1>3. b # FESC
  BY DEF FEND, FESC
<1>4. GivesUp(r, b) \/ Delivers(r, b)
  BY <1>1, <1>2, <1>3 DEF Ignores, Begins, Escapes, GivesUp, Delivers, Opens, Stores, Unescapes
<1>5. CASE GivesUp(r, b)
  <2>1. rx'.mode = "not_started"
    BY <1>1, <1>5 DEF GivesUp, Receivers, Modes
  <2>2. QED
    BY <1>1, <1>5, <2>1, NotEmpty DEF GivesUp, Receivers
<1>6. CASE Delivers(r, b)
  BY <1>1, <1>6 DEF Delivers, Receivers, Modes
<1>7. QED
  BY <1>4, <1>5, <1>6

LEMMA TakesByte ==
  ASSUME KissTypes, NEW b \in Seen, Rx(b), b # FEND, rx.mode \in {"started", "escaped"}, Len(rx.data) <= Mtu
  PROVE  /\ routed' = routed
         /\ rx.mode = "started" /\ b = FESC => rx'.mode = "escaped" /\ rx'.first = rx.first /\ rx'.data = rx.data
         /\ rx.mode = "started" /\ b # FESC /\ rx.first =>
              rx'.mode = "started" /\ rx'.first = FALSE /\ rx'.data = rx.data
         /\ rx.mode = "started" /\ b # FESC /\ ~rx.first =>
              rx'.mode = "started" /\ rx'.first = rx.first /\ rx'.data = Append(rx.data, b)
         /\ rx.mode = "escaped" =>
              rx'.mode = "started" /\ rx'.first = rx.first /\ rx'.data = rx.data \o Unescaped(b)
<1> DEFINE r == Unfilled(rx)
<1>1. r \in Receivers(Seen) /\ r = rx
  BY UnfilledFacts, SeenFacts
<1>2. \/ Ignores(r, b) \/ Begins(r, b) \/ Escapes(r, b) \/ GivesUp(r, b)
      \/ Delivers(r, b) \/ Opens(r, b) \/ Stores(r, b) \/ Unescapes(r, b)
  BY RxCases
<1>3. Escapes(r, b) \/ Opens(r, b) \/ Stores(r, b) \/ Unescapes(r, b)
  BY <1>1, <1>2 DEF Ignores, Begins, GivesUp, Delivers
<1>4. CASE Escapes(r, b)
  BY <1>1, <1>4 DEF Escapes, Receivers, Modes
<1>5. CASE Opens(r, b)
  BY <1>1, <1>5 DEF Opens, Receivers, Modes
<1>6. CASE Stores(r, b)
  BY <1>1, <1>6 DEF Stores, Receivers, Modes
<1>7. CASE Unescapes(r, b)
  BY <1>1, <1>7 DEF Unescapes, Receivers, Modes
<1>8. QED
  BY <1>3, <1>4, <1>5, <1>6, <1>7

(* A byte of a streak: the frame is the only one, and the receiver was already *)
(* in step with it if it is now.                                              *)
LEMMA PutcContext ==
  ASSUME OnceInv, StepInv, Undisturbed, NEW s \in Senders, Putc(s), streak' # -1
  PROVE  /\ Alone(s) /\ ~Starving /\ (starved' <=> starved)
         /\ streak \in Int /\ streak >= -1 /\ at[s] \in Nat
         /\ at[s] # 0 => OnLine(s) /\ streak >= 0 /\ number[s] = Len(frames)
         /\ ~Last(s) /\ Clean' => Clean /\ streak >= 0
         /\ at[s] = 0 => Silent /\ ~Last(s)
         /\ Last(s) => streak' = streak + 1
         /\ streak' >= 0
<1>1. /\ tpc[s] = "send" /\ Rx(Output(s)) /\ faults' = faults
      /\ streak' \in {-1, 0, streak, streak + 1}
      /\ Alone(s) /\ ~Starving
      /\ at[s] # 0 => streak' = (IF Last(s) /\ streak >= 0 THEN streak + 1 ELSE streak)
      /\ at[s] = 0 => streak' = (IF streak = -1 THEN 0 ELSE streak)
  BY PutcFacts DEF OnceInv
<1>2. starved' <=> starved
  BY <1>1 DEF Rx
<1>3. streak \in Int /\ streak >= -1 /\ at[s] \in Nat
  BY DEF OnceInv, KissTypes, TypeOK
<1>4. at[s] # 0 => OnLine(s) /\ streak >= 0
  BY <1>1, <1>3 DEF OnLine
<1>5. at[s] # 0 => number[s] = Len(frames)
  BY <1>4 DEF StepInv
<1>6. at[s] = 0 => Silent /\ ~Last(s)
  <2>1. at[s] = 0 => ~Last(s)
    BY <1>1, CanEscape DEF Last, OnceInv
  <2>2. ASSUME at[s] = 0, NEW t \in Senders, at[t] > 0 PROVE tpc[t] = "post"
    <3>1. t # s
      BY <2>2
    <3>2. tpc[t] # "send"
      BY <1>1, <2>2, <3>1 DEF Alone
    <3>3. SenderOK(t) /\ tpc[t] \in {"idle", "lock", "send", "post", "up"}
      BY DEF OnceInv, KissTypes, TypeOK
    <3>4. QED
      BY <2>2, <3>2, <3>3 DEF SenderOK
  <2>3. QED
    BY <2>1, <2>2 DEF Silent
<1>7. Last(s) => streak' = streak + 1
  BY <1>1, <1>4, <1>6
<1>8. ASSUME ~Last(s), Clean' PROVE Clean /\ streak >= 0
  <2>1. CASE streak' >= 1
    BY <1>1, <1>3, <1>4, <1>8, <2>1 DEF Clean
  <2>2. CASE faults = 0 /\ ~starved
    BY <2>2 DEF Clean, Undisturbed
  <2>3. QED
    BY <1>1, <1>2, <1>8, <2>1, <2>2 DEF Clean
<1>9. streak' >= 0
  <2>1. CASE at[s] = 0
    BY <1>1, <1>3, <2>1
  <2>2. CASE at[s] # 0
    BY <1>1, <1>3, <1>4, <2>2
  <2>3. QED
    BY <2>1, <2>2
<1>10. QED
  BY <1>1, <1>2, <1>3, <1>4, <1>5, <1>6, <1>7, <1>8, <1>9

LEMMA AfterFend ==
  ASSUME KissTypes, NEW b \in Seen, Rx(b), b = FEND, ~Starving, Len(rx.data) > Mtu => rx.mode = "started"
  PROVE  rx'.mode \in {"started", "not_started"}
<1> DEFINE r == Unfilled(rx)
<1>1. r \in Receivers(Seen) /\ r.mode \in Modes
  BY UnfilledFacts DEF Receivers
<1>2. CASE r.mode = "not_started"
  BY <1>2, BeginsFrame
<1>3. CASE r.mode # "not_started"
  <2>1. Ignores(r, b) \/ GivesUp(r, b) \/ Delivers(r, b) \/ Unescapes(r, b)
    <3>1. b # FESC
      BY DEF FEND, FESC
    <3>2. QED
      BY <1>3, <3>1, RxCases DEF Begins, Escapes, Opens, Stores
  <2>2. CASE Ignores(r, b)
    BY <1>3, <2>2 DEF Ignores
  <2>3. CASE GivesUp(r, b)
    BY <1>1, <2>3 DEF GivesUp, Receivers, Modes
  <2>4. CASE Delivers(r, b)
    BY <1>1, <2>4 DEF Delivers, Receivers, Modes
  <2>5. CASE Unescapes(r, b)
    BY <1>1, <2>5 DEF Unescapes, Receivers, Modes
  <2>6. QED
    BY <2>1, <2>2, <2>3, <2>4, <2>5
<1>4. QED
  BY <1>2, <1>3

LEMMA KeepsStarted ==
  ASSUME KissTypes, NEW b \in Seen, Rx(b), b = FEND, rx.mode = "started", rx.data = <<>>
  PROVE  rx' = rx /\ routed' = routed
<1> DEFINE r == Unfilled(rx)
<1>1. r = rx
  BY UnfilledFacts, SeenFacts, EmptySeq
<1>2. Len(r.data) = 0
  BY <1>1, EmptySeq
<1>3. b # FESC
  BY DEF FEND, FESC
<1>4. Ignores(r, b)
  <2>1. r.mode = "started" /\ r.data = <<>> /\ ~(Len(r.data) >= 2)
    BY <1>1, <1>2
  <2>2. \/ Ignores(r, b) \/ Begins(r, b) \/ Escapes(r, b) \/ GivesUp(r, b)
        \/ Delivers(r, b) \/ Opens(r, b) \/ Stores(r, b) \/ Unescapes(r, b)
    BY RxCases
  <2>3. QED
    BY <1>3, <2>1, <2>2 DEF Begins, Escapes, GivesUp, Delivers, Opens, Stores, Unescapes
<1>5. QED
  BY <1>1, <1>4 DEF Ignores

(* The first byte of a frame.                                                *)
LEMMA FirstByte ==
  ASSUME OnceInv, StepInv, Undisturbed, NEW s \in Senders, Putc(s), streak' # -1, at[s] = 0
  PROVE  GetsReady(s)' /\ (Clean' => InStep(s)' /\ routed' = routed)
<1>1. KissTypes /\ (Len(rx.data) > Mtu => rx.mode = "started")
  BY DEF OnceInv, StepInv
<1>2. /\ Output(s) = FEND /\ Output(s) \in Seen /\ Rx(Output(s)) /\ at'[s] = 1 /\ ~escaped'[s] /\ ~Starving
  BY <1>1, PutcFacts, PutcContext, OutputByte
<1>3. rx'.mode \in {"started", "not_started"}
  BY <1>1, <1>2, AfterFend
<1>4. GetsReady(s)'
  BY <1>2, <1>3 DEF GetsReady
<1>5. ASSUME Clean' PROVE InStep(s)' /\ routed' = routed
  <2>1. Ready
    BY <1>5, PutcContext DEF StepInv
  <2>2. rx'.mode = "started" /\ rx'.first /\ rx'.data = <<>> /\ routed' = routed
    <3>1. CASE rx.mode = "not_started"
      <4>1. Unfilled(rx).mode = "not_started"
        BY <1>1, <3>1, UnfilledFacts
      <4>2. QED
        BY <1>1, <1>2, <4>1, BeginsFrame
    <3>2. CASE rx.mode = "started" /\ rx.first /\ rx.data = <<>>
      BY <1>1, <1>2, <3>2, KeepsStarted
    <3>3. QED
      BY <2>1, <3>1, <3>2 DEF Ready
  <2>3. Len(rx'.data) = 0
    BY <2>2, EmptySeq
  <2>4. QED
    BY <1>2, <2>2, <2>3 DEF InStep
<1>6. QED
  BY <1>4, <1>5

LEMMA SecondByte ==
  ASSUME OnceInv, StepInv, Undisturbed, NEW s \in Senders, Putc(s), streak' # -1, at[s] = 1
  PROVE  GetsReady(s)' /\ (Clean' => routed' = routed /\ (InStep(s)' \/ (rx'.mode = "not_started" /\ ~FitsIn(s))))
<1>1. KissTypes /\ (Len(rx.data) > Mtu => rx.mode = "started") /\ rx.data \in Seq(Seen) /\ Mtu \in Nat
      /\ rx.mode \in Modes
  BY SeenFacts DEF OnceInv, StepInv, KissTypes, Receivers
<1>2. /\ Output(s) \notin {FEND, FESC} /\ Output(s) \in Seen /\ Rx(Output(s))
      /\ at'[s] = 2 /\ ~escaped'[s] /\ tpc[s] = "send"
  BY <1>1, PutcFacts, OutputByte
<1>3. /\ GetsReady(s)
      /\ Clean' => Clean /\ (InStep(s) \/ (rx.mode = "not_started" /\ ~FitsIn(s)))
  <2>1. OnLine(s) /\ streak >= 0
    BY PutcContext
  <2>2. ~Last(s)
    BY <1>1, <1>2, OutputByte
  <2>3. QED
    BY <2>1, <2>2, PutcContext DEF StepInv
<1>4. ~escaped[s] /\ rx.mode \in {"not_started", "started"}
  <2>1. ~escaped[s]
    BY <1>1, <1>2 DEF KissTypes, SenderOK, InContent
  <2>2. QED
    BY <1>1, <1>3, <2>1 DEF GetsReady, Modes
<1>5. Len(rx.data) \in Nat
  BY <1>1, NotEmpty
<1>6. CASE Unfilled(rx).mode = "not_started"
  <2>1. rx'.mode = "not_started" /\ routed' = routed
    BY <1>1, <1>2, <1>6, Swallows
  <2>2. Clean' => ~InStep(s)
    <3>1. InStep(s) => rx.mode = "started" /\ Len(rx.data) = 0
      BY <1>4 DEF InStep
    <3>2. QED
      BY <1>1, <1>6, <3>1, UnfilledFacts
  <2>3. QED
    BY <1>2, <1>3, <2>1, <2>2 DEF GetsReady, Receiving
<1>7. CASE Unfilled(rx).mode # "not_started"
  <2>1. rx.mode = "started" /\ Len(rx.data) <= Mtu
    BY <1>1, <1>4, <1>7, UnfilledFacts
  <2>2. rx'.mode = "started" /\ rx'.first = FALSE /\ routed' = routed
    <3>1. rx.first \in BOOLEAN
      BY <1>1, SeenFacts DEF Receivers
    <3>2. QED
      BY <1>1, <1>2, <2>1, <3>1, TakesByte
  <2>3. ASSUME Clean' PROVE InStep(s)'
    <3>1. InStep(s)
      BY <1>3, <2>1, <2>3
    <3>2. rx.first /\ Len(rx.data) = 0
      BY <3>1 DEF InStep
    <3>3. rx'.data = rx.data
      BY <1>1, <1>2, <2>1, <3>2, TakesByte
    <3>4. QED
      BY <1>2, <2>2, <3>2, <3>3 DEF InStep
  <2>4. QED
    BY <1>2, <2>2, <2>3 DEF GetsReady, Receiving
<1>8. QED
  BY <1>6, <1>7

LEMMA ContentByte ==
  ASSUME OnceInv, StepInv, Undisturbed, NEW s \in Senders, Putc(s), streak' # -1, InContent(s)
  PROVE  GetsReady(s)' /\ (Clean' => routed' = routed /\ (InStep(s)' \/ (rx'.mode = "not_started" /\ ~FitsIn(s))))
<1>1. KissTypes /\ (Len(rx.data) > Mtu => rx.mode = "started") /\ rx.data \in Seq(Seen) /\ Mtu \in Nat
      /\ rx.mode \in Modes /\ Len(rx.data) \in Nat
  BY SeenFacts, NotEmpty DEF OnceInv, StepInv, KissTypes, Receivers
<1>2. /\ Output(s) # FEND /\ Output(s) \in Seen /\ Rx(Output(s)) /\ tpc[s] = "send" /\ payload' = payload
      /\ at'[s] = (IF MustEscape(s) THEN at[s] ELSE at[s] + 1) /\ escaped'[s] = MustEscape(s)
  BY <1>1, PutcFacts, OutputByte
<1>3. /\ at[s] \in Nat /\ at[s] >= 2 /\ at[s] <= FrameLength(s) - 2 /\ at[s] < FrameLength(s)
      /\ FrameLength(s) \in Nat /\ FrameLength(s) = Len(payload[s]) + 5 /\ Len(payload[s]) \in Nat
  BY <1>1, <1>2, CanEscape, ContentFacts DEF InContent
<1>4. ~Last(s) /\ number' = number
  BY <1>3, PutcFacts DEF Last, OnceInv
<1>5. /\ GetsReady(s)
      /\ Clean' => Clean /\ (InStep(s) \/ (rx.mode = "not_started" /\ ~FitsIn(s)))
  BY <1>3, <1>4, PutcContext DEF StepInv
<1>6. at'[s] >= 2 /\ (at'[s] >= 3 \/ (MustEscape(s) /\ at'[s] = at[s]))
  BY <1>2, <1>3
<1>7. CASE Unfilled(rx).mode = "not_started"
  <2>1. rx'.mode = "not_started" /\ routed' = routed
    BY <1>1, <1>2, <1>7, Swallows
  <2>2. InStep(s) => ~FitsIn(s)
    <3>1. InStep(s) => rx.mode \in {"started", "escaped"} /\ Len(rx.data) = at[s] - 2
      BY <1>3 DEF InStep
    <3>2. InStep(s) => Len(rx.data) > Mtu
      BY <1>1, <1>7, <3>1, UnfilledFacts
    <3>3. QED
      BY <1>1, <1>3, <3>1, <3>2 DEF FitsIn
  <2>3. QED
    BY <1>2, <1>5, <2>1, <2>2 DEF GetsReady, Receiving
<1>8. CASE Unfilled(rx).mode # "not_started"
  <2>1. rx.mode \in {"started", "escaped"} /\ Len(rx.data) <= Mtu /\ ~rx.first
    BY <1>1, <1>3, <1>5, <1>8, UnfilledFacts DEF GetsReady, Modes, Receiving
  <2>2. routed' = routed
    BY <1>1, <1>2, <2>1, TakesByte
  <2>3. ASSUME Clean' PROVE InStep(s)
    BY <1>5, <2>1, <2>3
  <2>4. Content(s)' = Content(s)
    BY <1>2, <1>4 DEF Content
  <2>5. CASE MustEscape(s)
    <3>1. Output(s) = FESC /\ ~escaped[s] /\ at'[s] = at[s]
      BY <1>1, <1>2, <2>5, OutputByte
    <3>2. rx.mode = "started"
      BY <1>5, <2>1, <3>1 DEF GetsReady
    <3>3. rx'.mode = "escaped" /\ rx'.first = rx.first /\ rx'.data = rx.data
      BY <1>1, <1>2, <2>1, <3>1, <3>2, TakesByte
    <3>4. GetsReady(s)'
      BY <1>2, <1>5, <2>1, <2>5, <3>1, <3>2, <3>3 DEF GetsReady, Receiving
    <3>5. ASSUME Clean' PROVE InStep(s)'
      BY <1>2, <2>3, <2>4, <2>5, <3>1, <3>3, <3>5 DEF InStep
    <3>6. QED
      BY <2>2, <3>4, <3>5
  <2>6. CASE ~MustEscape(s)
    <3>1. Output(s) \notin {FEND, FESC} /\ at'[s] = at[s] + 1
      BY <1>1, <1>2, <2>6, OutputByte
    <3>2. /\ Current(s) = Content(s)[at[s] - 1]
          /\ Current(s) \in Seen
          /\ escaped[s] => Unescaped(Output(s)) = <<Current(s)>>
          /\ ~escaped[s] => Output(s) = Current(s)
      <4>1. /\ Current(s) = Content(s)[at[s] - 1]
            /\ escaped[s] => Unescaped(Output(s)) = <<Current(s)>>
            /\ ~escaped[s] => Output(s) = Current(s)
        BY <1>1, <1>2, <2>6, OutputByte
      <4>2. at[s] - 1 \in 1 .. Len(Content(s)) /\ Content(s) \in Seq(Seen)
        BY <1>1, <1>2, <1>3, ContentFacts
      <4>3. QED
        BY <4>1, <4>2, ElementOfSeq
    <3>3. rx'.mode = "started" /\ rx'.first = rx.first
      BY <1>1, <1>2, <2>1, <3>1, TakesByte
    <3>4. rx'.data # <<>>
      <4>1. CASE rx.mode = "started"
        <5>1. rx'.data = Append(rx.data, Output(s))
          BY <1>1, <1>2, <2>1, <3>1, <4>1, TakesByte
        <5>2. QED
          BY <1>1, <1>2, <5>1, Appended
      <4>2. CASE rx.mode = "escaped"
        <5>1. rx'.data = rx.data \o Unescaped(Output(s)) /\ escaped[s]
          BY <1>1, <1>2, <1>5, <2>1, <4>2, TakesByte DEF GetsReady
        <5>2. rx'.data = Append(rx.data, Current(s))
          BY <1>1, <3>2, <5>1, AppendIsConcat
        <5>3. QED
          BY <1>1, <3>2, <5>2, Appended
      <4>3. QED
        BY <2>1, <4>1, <4>2
    <3>5. GetsReady(s)'
      BY <1>2, <2>1, <2>6, <3>3, <3>4 DEF GetsReady, Receiving
    <3>6. ASSUME Clean' PROVE InStep(s)'
      <4>1. InStep(s)
        BY <2>3, <3>6
      <4>2. rx'.data = Append(rx.data, Current(s))
        <5>1. CASE escaped[s]
          <6>1. rx.mode = "escaped"
            BY <4>1, <5>1 DEF InStep
          <6>2. rx'.data = rx.data \o <<Current(s)>>
            BY <1>1, <1>2, <2>1, <3>2, <5>1, <6>1, TakesByte
          <6>3. QED
            BY <1>1, <3>2, <6>2, AppendIsConcat
        <5>2. CASE ~escaped[s]
          <6>1. rx.mode = "started"
            BY <4>1, <5>2 DEF InStep
          <6>2. QED
            BY <1>1, <1>2, <2>1, <3>1, <3>2, <5>2, <6>1, TakesByte
        <5>3. QED
          BY <5>1, <5>2
      <4>3. /\ Len(rx'.data) = Len(rx.data) + 1
            /\ \A i \in 1 .. Len(rx.data) : rx'.data[i] = rx.data[i]
            /\ rx'.data[Len(rx.data) + 1] = Current(s)
        BY <1>1, <3>2, <4>2, Appended
      <4>4. Len(rx.data) = at[s] - 2 /\ \A i \in 1 .. Len(rx.data) : rx.data[i] = Content(s)[i]
        BY <1>3, <4>1 DEF InStep
      <4>5. Len(rx'.data) = at'[s] - 2 /\ at'[s] # 1
        BY <1>3, <3>1, <4>3, <4>4
      <4>6. \A i \in 1 .. Len(rx'.data) : rx'.data[i] = Content(s)[i]
        <5>1. SUFFICES ASSUME NEW i \in 1 .. Len(rx'.data) PROVE rx'.data[i] = Content(s)[i]
          OBVIOUS
        <5>2. i \in 1 .. Len(rx.data) \/ (i = Len(rx.data) + 1 /\ i = at[s] - 1)
          BY <1>1, <1>3, <4>3, <4>4
        <5>3. QED
          BY <3>2, <4>3, <4>4, <5>2
      <4>7. QED
        BY <1>2, <2>1, <2>4, <2>6, <3>3, <4>5, <4>6 DEF InStep
    <3>7. QED
      BY <2>2, <3>5, <3>6
  <2>7. QED
    BY <2>5, <2>6
<1>9. QED
  BY <1>7, <1>8

(* A frame received from its first byte on passes the check.                  *)
LEMMA WholeFrame ==
  ASSUME KissTypes, NEW s \in Senders, tpc[s] = "send", Last(s), InStep(s), number[s] = Len(frames), at[s] > 0
  PROVE  /\ Len(rx.data) = Len(payload[s]) + 2 /\ Len(rx.data) >= 2
         /\ CrcRight(rx.data) /\ Delivered(rx) = Arrived(Len(frames))
<1>1. /\ payload[s] \in Seq(Bytes) /\ Len(payload[s]) \in Nat /\ FrameLength(s) = Len(payload[s]) + 5
      /\ Content(s)[1] = HeaderByte
      /\ \A i \in 1 .. Len(payload[s]) : Content(s)[i + 1] = payload[s][i]
      /\ Content(s)[Len(payload[s]) + 2] = -number[s]
  BY ContentFacts
<1>2. at[s] = Len(payload[s]) + 4
  BY <1>1, CanEscape DEF Last
<1>3. /\ Len(rx.data) = Len(payload[s]) + 2
      /\ \A i \in 1 .. Len(payload[s]) + 2 : rx.data[i] = Content(s)[i]
  BY <1>1, <1>2 DEF InStep
<1>4. number[s] \in 1 .. Len(frames) /\ frames[number[s]] = payload[s] /\ Len(frames) \in Nat
  BY SeenFacts DEF KissTypes, SenderOK
<1>5. rx.data[1] = HeaderByte /\ rx.data[Len(rx.data)] = -Len(frames)
  BY SMTT(30), <1>1, <1>3
<1>6. -rx.data[Len(rx.data)] = Len(frames) /\ Len(frames) > 0
  BY <1>4, <1>5
<1>7. SubSeq(rx.data, 2, Len(rx.data) - 1) = payload[s]
  <2>1. \A i \in 1 .. Len(payload[s]) : rx.data[i + 1] = payload[s][i]
    BY <1>1, <1>3
  <2>2. \A i \in 2 .. Len(rx.data) - 1 : rx.data[i] \in Bytes
    <3>1. SUFFICES ASSUME NEW i \in 2 .. Len(rx.data) - 1 PROVE rx.data[i] \in Bytes
      OBVIOUS
    <3>2. i - 1 \in 1 .. Len(payload[s]) /\ i - 1 + 1 = i
      BY <1>1, <1>3
    <3>3. rx.data[i] = payload[s][i - 1] /\ payload[s][i - 1] \in Bytes
      BY <1>1, <2>1, <3>2, ElementOfSeq
    <3>4. QED
      BY <3>3
  <2>3. Len(rx.data) - 1 \in Int /\ 2 \in Int
    BY <1>1, <1>3
  <2> DEFINE body == SubSeq(rx.data, 2, Len(rx.data) - 1)
  <2>4. /\ body \in Seq(Bytes)
        /\ Len(body) = IF 2 <= Len(rx.data) - 1 THEN (Len(rx.data) - 1) - 2 + 1 ELSE 0
        /\ \A i \in 1 .. (Len(rx.data) - 1) - 2 + 1 : body[i] = rx.data[2 + i - 1]
    BY <2>2, <2>3, SubSeqProperties
  <2> HIDE DEF body
  <2>5. Len(body) = Len(payload[s])
    BY <1>1, <1>3, <2>4
  <2>6. \A i \in 1 .. Len(body) : body[i] = payload[s][i]
    <3>1. SUFFICES ASSUME NEW i \in 1 .. Len(payload[s]) PROVE body[i] = payload[s][i]
      BY <2>5
    <3>2. i \in 1 .. (Len(rx.data) - 1) - 2 + 1 /\ 2 + i - 1 = i + 1
      BY <1>1, <1>3
    <3>3. QED
      BY <2>1, <2>4, <3>2
  <2>7. body = payload[s]
    BY <1>1, <2>4, <2>5, <2>6, SeqEqual
  <2>8. QED
    BY <2>7 DEF body
<1>8. CrcRight(rx.data)
  BY <1>4, <1>6, <1>7 DEF CrcRight
<1>9. Delivered(rx) = Arrived(Len(frames))
  BY <1>4, <1>5, <1>6, <1>7 DEF Delivered, Arrived
<1>10. QED
  BY <1>1, <1>3, <1>8, <1>9

LEMMA LastByte ==
  ASSUME OnceInv, StepInv, Undisturbed, NEW s \in Senders, Putc(s), streak' # -1, Last(s)
  PROVE  /\ Ready'
         /\ Clean => routed' = IF FitsIn(s) THEN Append(routed, Arrived(Len(frames))) ELSE routed
<1>1. KissTypes /\ (Len(rx.data) > Mtu => rx.mode = "started") /\ rx.data \in Seq(Seen) /\ Mtu \in Nat
      /\ rx.mode \in Modes /\ Len(rx.data) \in Nat
  BY SeenFacts, NotEmpty DEF OnceInv, StepInv, KissTypes, Receivers
<1>2. /\ Output(s) = FEND /\ Output(s) \in Seen /\ Rx(Output(s)) /\ tpc[s] = "send" /\ ~Starving
      /\ at[s] >= 4 /\ at[s] \in Nat /\ ~InContent(s)
  BY <1>1, PutcFacts, PutcContext, OutputByte
<1>3. ~escaped[s] /\ Len(payload[s]) \in Nat
  BY <1>1, <1>2, ContentFacts DEF KissTypes, SenderOK
<1>4. /\ GetsReady(s) /\ number[s] = Len(frames)
      /\ Clean => InStep(s) \/ (rx.mode = "not_started" /\ ~FitsIn(s))
  BY <1>2, PutcContext DEF StepInv
<1>5. rx.mode \in {"not_started", "started"} /\ (rx.mode = "started" => rx.data # <<>>)
  BY <1>1, <1>2, <1>3, <1>4 DEF GetsReady, Modes, Receiving
<1>6. CASE Unfilled(rx).mode = "not_started"
  <2>1. rx'.mode = "started" /\ rx'.first = TRUE /\ rx'.data = <<>> /\ routed' = routed
    BY <1>1, <1>2, <1>6, BeginsFrame
  <2>2. Clean => ~FitsIn(s)
    <3>1. SUFFICES ASSUME InStep(s) PROVE ~FitsIn(s)
      BY <1>4
    <3>2. rx.mode = "started" /\ Len(rx.data) > Mtu
      BY <1>1, <1>3, <1>6, <3>1, UnfilledFacts DEF InStep
    <3>3. QED
      BY <1>1, <1>2, <1>3, <1>4, <3>1, <3>2, WholeFrame DEF FitsIn
  <2>3. QED
    BY <2>1, <2>2 DEF Ready
<1>7. CASE Unfilled(rx).mode # "not_started"
  <2>1. rx.mode = "started" /\ Len(rx.data) <= Mtu
    BY <1>1, <1>5, <1>7, UnfilledFacts
  <2>2. /\ rx'.mode = "not_started"
        /\ Len(rx.data) >= 2 /\ CrcRight(rx.data) => routed' = Append(routed, Delivered(rx))
    BY <1>1, <1>2, <1>5, <2>1, EndsFrame
  <2>3. ASSUME Clean PROVE FitsIn(s) /\ routed' = Append(routed, Arrived(Len(frames)))
    <3>1. InStep(s)
      BY <1>4, <2>1, <2>3
    <3>2. /\ Len(rx.data) = Len(payload[s]) + 2 /\ Len(rx.data) >= 2
          /\ CrcRight(rx.data) /\ Delivered(rx) = Arrived(Len(frames))
      BY <1>1, <1>2, <1>4, <3>1, WholeFrame
    <3>3. QED
      BY <2>1, <2>2, <3>2 DEF FitsIn
  <2>4. QED
    BY <2>2, <2>3 DEF Ready
<1>8. QED
  BY <1>6, <1>7

(* One byte of a streak.                                                     *)
LEMMA StreakByte ==
  ASSUME OnceInv, StepInv, Undisturbed, NEW s \in Senders, Putc(s), streak' # -1, ~Last(s)
  PROVE  /\ GetsReady(s)'
         /\ Clean' => routed' = routed /\ (InStep(s)' \/ (rx'.mode = "not_started" /\ ~FitsIn(s)))
         /\ number'[s] = Len(frames') /\ ~Silent'
<1>1. tpc[s] = "send" /\ KissTypes /\ at[s] \in Nat
  BY PutcFacts, PutcContext DEF OnceInv
<1>2. at[s] \in {0, 1} \/ InContent(s)
  BY <1>1, OutputByte
<1>3. number'[s] = Len(frames')
  <2>1. Len(frames') = IF at[s] = 0 THEN Len(frames) + 1 ELSE Len(frames)
    BY <1>1, PutcFacts, AdvanceTypes
  <2>2. QED
    BY <1>1, <2>1, PutcFacts, PutcContext
<1>4. ~Silent'
  <2>1. tpc'[s] = "send" /\ at'[s] > 0
    <3>1. tpc'[s] = "send" /\ at'[s] = (IF MustEscape(s) THEN at[s] ELSE at[s] + 1)
      BY <1>1, PutcFacts
    <3>2. MustEscape(s) => at[s] >= 2
      BY <1>1, CanEscape
    <3>3. QED
      BY <1>1, <3>1, <3>2
  <2>2. QED
    BY <2>1 DEF Silent
<1>5. QED
  BY <1>2, <1>3, <1>4, FirstByte, SecondByte, ContentByte

(* What is too long is a frame in the making.                                 *)
LEMMA LongStarted ==
  ASSUME KissTypes, NEW b \in Seen, Rx(b)
  PROVE  Len(rx'.data) > Mtu => rx'.mode = "started"
<1> DEFINE r == Unfilled(rx)
<1>1. r \in Receivers(Seen) /\ Len(r.data) \in Nat /\ Len(r.data) <= Mtu /\ Mtu \in Nat
  BY UnfilledFacts, SeenFacts
<1>2. \/ Ignores(r, b) \/ Begins(r, b) \/ Escapes(r, b) \/ GivesUp(r, b)
      \/ Delivers(r, b) \/ Opens(r, b) \/ Stores(r, b) \/ Unescapes(r, b)
  BY RxCases
<1>3. CASE Begins(r, b)
  <2>1. rx'.data = r.data \/ rx'.data = <<>>
    BY <1>1, <1>3 DEF Begins, Receivers
  <2>2. QED
    BY <1>1, <2>1, EmptySeq
<1>4. CASE Ignores(r, b) \/ Escapes(r, b) \/ GivesUp(r, b) \/ Delivers(r, b) \/ Opens(r, b)
  <2>1. rx'.data = r.data
    BY <1>1, <1>4 DEF Ignores, Escapes, GivesUp, Delivers, Opens, Receivers
  <2>2. QED
    BY <1>1, <2>1
<1>5. CASE Stores(r, b) \/ Unescapes(r, b)
  BY <1>1, <1>5 DEF Stores, Unescapes, Receivers, Modes
<1>6. QED
  BY <1>2, <1>3, <1>4, <1>5

(* A disturbance ends the streak.                                            *)
LEMMA FaultArrive ==
  ASSUME ArriveInv, OnceInv', Fault,
         rx' = rx \/ \E b \in Seen : Rx(b)
  PROVE  ArriveInv'
<1>1. /\ streak' = -1 /\ faults' = faults + 1 /\ faults \in Nat
      /\ KissTypes /\ (Len(rx.data) > Mtu => rx.mode = "started")
  BY DEF Fault, ArriveInv, OnceInv, KissTypes, TypeOK, StepInv
<1>2. Len(rx'.data) > Mtu => rx'.mode = "started"
  BY <1>1, LongStarted
<1>3. StepInv' /\ SecondArrives'
  BY <1>1, <1>2 DEF StepInv, SecondArrives
<1>4. faults' > 0 /\ faults' # 0
  BY <1>1
<1>5. Undisturbed' /\ ArrivedInv'
  BY <1>4 DEF Undisturbed, ArrivedInv
<1>6. QED
  BY <1>3, <1>5 DEF ArriveInv

(* Steps between frames.                                                     *)
LEMMA QuietArrive ==
  ASSUME ArriveInv, OnceInv', rx' = rx, routed' = routed, frames' = frames, streak' = streak,
         starved' = starved, escaped' = escaped,
         (faults' = faults /\ late' = late) \/ faults' = faults + 1,
         \A t \in Senders : OnLine(t)' =>
           /\ OnLine(t) /\ at'[t] = at[t] /\ number'[t] = number[t] /\ payload'[t] = payload[t],
         Silent' => Silent
  PROVE  ArriveInv'
<1>1. faults \in Nat /\ (Clean' => Clean)
  BY DEF ArriveInv, OnceInv, KissTypes, TypeOK, Clean
<1>2. Ready' = Ready
  BY DEF Ready
<1>3. ASSUME NEW t \in Senders, OnLine(t)'
      PROVE  /\ OnLine(t) /\ GetsReady(t)' = GetsReady(t) /\ InStep(t)' = InStep(t) /\ FitsIn(t)' = FitsIn(t)
             /\ number'[t] = number[t]
  <2>1. OnLine(t) /\ at'[t] = at[t] /\ number'[t] = number[t] /\ payload'[t] = payload[t]
    BY <1>3
  <2>2. Content(t)' = Content(t)
    BY <2>1 DEF Content
  <2>3. QED
    BY <2>1, <2>2 DEF GetsReady, Receiving, InStep, FitsIn
<1>4. StepInv'
  BY <1>1, <1>2, <1>3 DEF ArriveInv, StepInv
<1>5. SecondArrives'
  BY DEF ArriveInv, SecondArrives, Fits, LastArrived, Arrived
<1>6. Undisturbed'
  <2>1. CASE faults' = faults /\ late' = late
    BY <2>1 DEF ArriveInv, Undisturbed
  <2>2. CASE faults' = faults + 1
    <3>1. faults' > 0 /\ faults' # 0
      BY <1>1, <2>2
    <3>2. QED
      BY <3>1 DEF Undisturbed
  <2>3. QED
    BY <2>1, <2>2
<1>7. ArrivedInv'
  <2>1. SUFFICES ASSUME faults' = 0, ~starved' PROVE ArrivedInv'
    BY DEF ArrivedInv
  <2>2. faults = 0 /\ ~starved
    BY <1>1, <2>1
  <2>3. QED
    BY <2>2 DEF ArriveInv, ArrivedInv, Fits, Arrived
<1>8. QED
  BY <1>4, <1>5, <1>6, <1>7 DEF ArriveInv

LEMMA CallArrive == ASSUME ArriveInv, NEW s \in Senders, Call(s) PROVE ArriveInv'
<1>1. OnceInv'
  BY CallOnce DEF ArriveInv
<1>2. /\ tpc[s] = "idle" /\ tpc'[s] = "lock" /\ at' = at /\ number' = number
      /\ \A t \in Senders \ {s} : tpc'[t] = tpc[t] /\ payload'[t] = payload[t]
      /\ rx' = rx /\ routed' = routed /\ frames' = frames /\ streak' = streak /\ starved' = starved
      /\ escaped' = escaped /\ faults' = faults /\ late' = late
  BY DEF Call, ArriveInv, OnceInv, KissTypes, TypeOK
<1>3. Silent' => Silent
  <2>1. at[s] = 0
    BY <1>2 DEF ArriveInv, OnceInv, KissTypes, SenderOK
  <2>2. QED
    BY <1>2, <2>1 DEF Silent
<1>4. QED
  BY <1>1, <1>2, <1>3, QuietArrive DEF OnLine

LEMMA LockArrive == ASSUME ArriveInv, NEW s \in Senders, Lock(s) PROVE ArriveInv'
<1>1. OnceInv'
  BY LockOnce DEF ArriveInv
<1>2. /\ tpc[s] = "lock" /\ at' = at /\ number' = number /\ payload' = payload
      /\ \A t \in Senders \ {s} : tpc'[t] = tpc[t]
      /\ rx' = rx /\ routed' = routed /\ frames' = frames /\ streak' = streak /\ starved' = starved
      /\ escaped' = escaped
      /\ (faults' = faults /\ late' = late) \/ faults' = faults + 1
  BY DEF Lock, ArriveInv, OnceInv, KissTypes, TypeOK
<1>3. at[s] = 0
  BY <1>2 DEF ArriveInv, OnceInv, KissTypes, SenderOK
<1>4. (Silent' => Silent) /\ \A t \in Senders : OnLine(t)' => OnLine(t)
  BY <1>2, <1>3 DEF Silent, OnLine
<1>5. QED
  BY <1>1, <1>2, <1>4, QuietArrive

LEMMA PostArrive == ASSUME ArriveInv, NEW s \in Senders, Post(s) PROVE ArriveInv'
<1>1. OnceInv'
  BY PostOnce DEF ArriveInv
<1>2. /\ tpc[s] = "post" /\ at'[s] = 0
      /\ \A t \in Senders \ {s} : /\ tpc'[t] = tpc[t] /\ at'[t] = at[t] /\ number'[t] = number[t]
                                  /\ payload'[t] = payload[t]
      /\ rx' = rx /\ routed' = routed /\ frames' = frames /\ streak' = streak /\ starved' = starved
      /\ escaped' = escaped /\ faults' = faults /\ late' = late
  BY DEF Post, ArriveInv, OnceInv, KissTypes, TypeOK
<1>3. Silent' => Silent
  BY <1>2 DEF Silent
<1>4. QED
  BY <1>1, <1>2, <1>3, QuietArrive DEF OnLine

LEMMA UpArrive == ASSUME ArriveInv, NEW s \in Senders, Up(s) PROVE ArriveInv'
<1>1. OnceInv'
  BY UpOnce DEF ArriveInv
<1>2. /\ tpc[s] = "up" /\ tpc'[s] = "idle" /\ at' = at /\ number' = number /\ payload' = payload
      /\ \A t \in Senders \ {s} : tpc'[t] = tpc[t]
      /\ rx' = rx /\ routed' = routed /\ frames' = frames /\ streak' = streak /\ starved' = starved
      /\ escaped' = escaped /\ faults' = faults /\ late' = late
  BY DEF Up, ArriveInv, OnceInv, KissTypes, TypeOK
<1>3. at[s] = 0
  BY <1>2 DEF ArriveInv, OnceInv, KissTypes, SenderOK
<1>4. (Silent' => Silent) /\ \A t \in Senders : OnLine(t)' => OnLine(t)
  BY <1>2, <1>3 DEF Silent, OnLine
<1>5. QED
  BY <1>1, <1>2, <1>4, QuietArrive

(* Without faults no byte disturbs.                                           *)
LEMMA NeverDisturbed ==
  ASSUME OnceInv, Undisturbed, NEW s \in Senders, Putc(s), faults = 0, ~starved'
  PROVE  streak' # -1 /\ ~starved /\ ~late /\ Clean
<1>1. ~starved /\ ~Starving
  BY PutcFacts DEF Rx, OnceInv
<1>2. ~late
  BY DEF Undisturbed
<1>3. Alone(s)
  <2>1. Holding(s)
    BY PutcFacts DEF Holding, OnceInv
  <2>2. QED
    BY <1>2, <2>1 DEF OnceInv, LockInv, Alone, Holding
<1>4. streak >= 0 /\ streak \in Int
  BY <1>1 DEF Undisturbed, OnceInv, KissTypes, TypeOK
<1>5. streak' \in {streak, streak + 1, 0}
  BY <1>1, <1>3, <1>4 DEF Putc
<1>6. QED
  BY <1>1, <1>2, <1>4, <1>5 DEF Clean

LEMMA PutcArrive == ASSUME ArriveInv, NEW s \in Senders, Putc(s) PROVE ArriveInv'
<1>1. OnceInv /\ StepInv /\ Undisturbed /\ SecondArrives /\ ArrivedInv /\ OnceInv' /\ KissTypes
  BY PutcOnce DEF ArriveInv, OnceInv
<1>2. /\ tpc[s] = "send" /\ Advance(s) /\ Rx(Output(s)) /\ Output(s) \in Seen /\ payload' = payload
      /\ faults' = faults /\ late' = late
      /\ tpc'[s] = (IF Last(s) THEN "post" ELSE "send")
      /\ \A t \in Senders \ {s} : tpc'[t] = tpc[t] /\ at'[t] = at[t]
  BY <1>1, PutcFacts
<1>3. /\ Len(frames) \in Nat /\ \A n \in 1 .. Len(frames) : frames'[n] = frames[n]
      /\ Len(frames') = IF at[s] = 0 THEN Len(frames) + 1 ELSE Len(frames)
  BY <1>1, <1>2, AdvanceTypes, SeenFacts
<1>4. Len(rx'.data) > Mtu => rx'.mode = "started"
  BY <1>1, <1>2, LongStarted
<1>5. Undisturbed'
  <2>1. late' => faults' > 0
    BY <1>1, <1>2 DEF Undisturbed
  <2>2. ASSUME faults' = 0, ~starved' PROVE streak' >= 0
    BY <1>1, <1>2, <2>2, NeverDisturbed, PutcContext
  <2>3. QED
    BY <2>1, <2>2 DEF Undisturbed
<1>6. CASE streak' = -1
  <2>1. StepInv' /\ SecondArrives'
    BY <1>4, <1>6 DEF StepInv, SecondArrives
  <2>2. ArrivedInv'
    BY <1>1, <1>2, <1>6, NeverDisturbed DEF ArrivedInv
  <2>3. QED
    BY <1>1, <1>5, <2>1, <2>2 DEF ArriveInv
<1>7. CASE streak' # -1
  <2>1. \A t \in Senders \ {s} : ~OnLine(t)'
    BY <1>1, <1>2, <1>7, PutcContext DEF Alone, OnLine
  <2>2. CASE ~Last(s)
    <3>1. /\ GetsReady(s)'
          /\ Clean' => routed' = routed /\ (InStep(s)' \/ (rx'.mode = "not_started" /\ ~FitsIn(s)))
          /\ number'[s] = Len(frames') /\ ~Silent'
      BY <1>1, <1>7, <2>2, StreakByte
    <3>2. FitsIn(s)' = FitsIn(s)
      BY <1>2 DEF FitsIn
    <3>3. StepInv'
      BY <1>4, <2>1, <3>1, <3>2 DEF StepInv
    <3>4. SecondArrives'
      BY <3>1 DEF SecondArrives
    <3>5. ArrivedInv'
      <4>1. SUFFICES ASSUME faults' = 0, ~starved' PROVE ArrivedInv'
        BY DEF ArrivedInv
      <4>2. faults = 0 /\ ~starved /\ Clean' /\ routed' = routed
        BY <1>1, <1>2, <3>1, <4>1, NeverDisturbed DEF Clean
      <4>3. \A n \in 1 .. Len(frames) : Arrived(n)' = Arrived(n) /\ Fits(n)' = Fits(n)
        BY <1>3 DEF Arrived, Fits
      <4>4. \A k \in 1 .. Len(routed) : routed[k].nr \in 1 .. Len(frames)
        BY <1>1, RoutedRange
      <4>5. \A k \in 1 .. Len(routed) : Fits(routed[k].nr) /\ routed[k] = Arrived(routed[k].nr)
        BY <1>1, <4>2 DEF ArrivedInv
      <4>6. \A k \in 1 .. Len(routed) : Fits(routed[k].nr)' /\ routed[k] = Arrived(routed[k].nr)'
        BY <4>2, <4>3, <4>4, <4>5
      <4>7. ASSUME NEW n \in 1 .. Len(frames'), Fits(n)', n # Len(frames')
            PROVE  \E k \in 1 .. Len(routed) : routed[k] = Arrived(n)'
        <5>1. n \in 1 .. Len(frames) /\ (n = Len(frames) => at[s] = 0)
          BY <1>3, <4>7
        <5>2. n = Len(frames) => Silent
          BY <1>1, <1>7, <5>1, PutcContext
        <5>3. Fits(n)
          BY <4>3, <4>7, <5>1
        <5>4. \E k \in 1 .. Len(routed) : routed[k] = Arrived(n)
          BY <1>1, <4>2, <5>1, <5>2, <5>3 DEF ArrivedInv
        <5>5. QED
          BY <4>3, <5>1, <5>4
      <4>8. QED
        BY <3>1, <4>2, <4>6, <4>7 DEF ArrivedInv
    <3>6. QED
      BY <1>1, <1>5, <3>3, <3>4, <3>5 DEF ArriveInv
  <2>3. CASE Last(s)
    <3>1. /\ Ready'
          /\ Clean => routed' = IF FitsIn(s) THEN Append(routed, Arrived(Len(frames))) ELSE routed
      BY <1>1, <1>7, <2>3, LastByte
    <3>2. at[s] # 0 /\ streak >= 0 /\ streak \in Int /\ streak' = streak + 1 /\ number[s] = Len(frames) /\ frames' = frames
      BY <1>1, <1>7, <2>3, PutcContext, PutcFacts
    <3>3. number[s] \in 1 .. Len(frames) /\ frames[Len(frames)] = payload[s]
      BY <1>1, <3>2, PutcContext DEF KissTypes, SenderOK
    <3>4. Fits(Len(frames)) <=> FitsIn(s)
      BY <3>3 DEF Fits, FitsIn
    <3>5. StepInv'
      <4>1. ~OnLine(s)'
        BY <1>2, <2>3 DEF OnLine
      <4>2. QED
        BY <1>4, <2>1, <3>1, <4>1 DEF StepInv
    <3>6. routed \in Seq(RoutedPackets) /\ Arrived(Len(frames)) \in RoutedPackets /\ Arrived(Len(frames)).nr = Len(frames)
      <4>1. routed \in Seq(RoutedPackets)
        BY <1>1 DEF KissTypes, TypeOK, RoutedPackets
      <4>2. frames[Len(frames)] \in Seq(Bytes) /\ Len(frames) \in 1 .. MaxFrames /\ HeaderByte \in Units
        <5>1. KissTypes
          BY <1>1
        <5>2. Len(frames) \in Nat /\ Len(frames) <= MaxFrames /\ Len(frames) >= 1
          BY <5>1, <3>3, SeenFacts
        <5>3. frames[Len(frames)] \in Seq(Bytes)
          BY <5>1, <5>2, SeenFacts
        <5>4. HeaderByte \in Units
          BY KissAssumption DEF HeaderByte, Units
        <5>5. QED
          BY <5>2, <5>3, <5>4, KissAssumption
      <4>3. QED
        BY <4>1, <4>2 DEF Arrived, RoutedPackets
    <3>7. ASSUME routed' = Append(routed, Arrived(Len(frames)))
          PROVE  /\ Len(routed) \in Nat /\ Len(routed') = Len(routed) + 1 /\ routed' # <<>>
                 /\ routed'[Len(routed) + 1] = Arrived(Len(frames))
                 /\ \A k \in 1 .. Len(routed) : routed'[k] = routed[k]
      BY <3>6, <3>7, Appended
    <3>8. SecondArrives'
      <4>1. SUFFICES ASSUME streak' >= 2, Fits(Len(frames))' PROVE LastArrived'
        BY DEF SecondArrives
      <4>2. Clean /\ FitsIn(s)
        BY <3>2, <3>4, <4>1 DEF Clean, Fits
      <4>3. routed' = Append(routed, Arrived(Len(frames)))
        BY <3>1, <4>2
      <4>4. routed'[Len(routed')] = Arrived(Len(frames))
        BY <3>7, <4>3
      <4>5. QED
        BY <3>2, <3>7, <4>3, <4>4 DEF LastArrived, Arrived
    <3>9. ArrivedInv'
      <4>1. SUFFICES ASSUME faults' = 0, ~starved' PROVE ArrivedInv'
        BY DEF ArrivedInv
      <4>2. faults = 0 /\ ~starved /\ Clean
        BY <1>1, <1>2, <4>1, NeverDisturbed
      <4>3. routed' = IF FitsIn(s) THEN Append(routed, Arrived(Len(frames))) ELSE routed
        BY <3>1, <4>2
      <4>4. /\ \A k \in 1 .. Len(routed) : Fits(routed[k].nr) /\ routed[k] = Arrived(routed[k].nr)
            /\ \A n \in 1 .. Len(frames) :
                 Fits(n) /\ n # Len(frames) => \E k \in 1 .. Len(routed) : routed[k] = Arrived(n)
        BY <1>1, <4>2 DEF ArrivedInv
      <4>5. \A n : Arrived(n)' = Arrived(n) /\ Fits(n)' = Fits(n)
        BY <3>2 DEF Arrived, Fits
      <4>6. CASE FitsIn(s)
        <5>1. routed' = Append(routed, Arrived(Len(frames)))
          BY <4>3, <4>6
        <5>2. \A k \in 1 .. Len(routed') : Fits(routed'[k].nr) /\ routed'[k] = Arrived(routed'[k].nr)
          <6>1. SUFFICES ASSUME NEW k \in 1 .. Len(routed')
                         PROVE  Fits(routed'[k].nr) /\ routed'[k] = Arrived(routed'[k].nr)
            OBVIOUS
          <6>2. k \in 1 .. Len(routed) \/ k = Len(routed) + 1
            BY <3>7, <5>1
          <6>3. QED
            BY <3>4, <3>6, <3>7, <4>4, <4>6, <5>1, <6>2
        <5>3. \A n \in 1 .. Len(frames) : Fits(n) => \E k \in 1 .. Len(routed') : routed'[k] = Arrived(n)
          <6>1. SUFFICES ASSUME NEW n \in 1 .. Len(frames), Fits(n)
                         PROVE  \E k \in 1 .. Len(routed') : routed'[k] = Arrived(n)
            OBVIOUS
          <6>2. CASE n = Len(frames)
            <7>1. Len(routed) + 1 \in 1 .. Len(routed')
              BY <3>7, <5>1
            <7>2. QED
              BY <3>7, <5>1, <6>2, <7>1
          <6>3. CASE n # Len(frames)
            <7>1. PICK k \in 1 .. Len(routed) : routed[k] = Arrived(n)
              BY <4>4, <6>1, <6>3
            <7>2. k \in 1 .. Len(routed') /\ routed'[k] = Arrived(n)
              BY <3>7, <5>1, <7>1
            <7>3. QED
              BY <7>2
          <6>4. QED
            BY <6>2, <6>3
        <5>4. QED
          BY <3>2, <4>5, <5>2, <5>3 DEF ArrivedInv, Fits, Arrived
      <4>7. CASE ~FitsIn(s)
        <5>1. routed' = routed /\ ~Fits(Len(frames))
          BY <3>4, <4>3, <4>7
        <5>2. \A n \in 1 .. Len(frames) : Fits(n) => \E k \in 1 .. Len(routed) : routed[k] = Arrived(n)
          BY <4>4, <5>1
        <5>3. QED
          BY <3>2, <4>4, <5>1, <5>2 DEF ArrivedInv, Fits, Arrived
      <4>8. QED
        BY <4>6, <4>7
    <3>10. QED
      BY <1>1, <1>5, <3>5, <3>8, <3>9 DEF ArriveInv
  <2>4. QED
    BY <2>2, <2>3
<1>8. QED
  BY <1>6, <1>7

LEMMA ArriveInvInit == Init => ArriveInv
<1> SUFFICES ASSUME Init PROVE ArriveInv
  OBVIOUS
<1>1. Len(<<>>) = 0
  BY EmptySeq
<1>2. StepInv
  <2>1. rx.mode = "not_started" /\ rx.data = <<>>
    BY DEF Init
  <2>2. Ready /\ ~(Len(rx.data) > Mtu)
    BY <1>1, <2>1, KissAssumption DEF Ready
  <2>3. \A t \in Senders : ~OnLine(t)
    BY DEF Init, OnLine
  <2>4. QED
    BY <2>2, <2>3 DEF StepInv
<1>3. Undisturbed /\ SecondArrives /\ ArrivedInv
  BY <1>1 DEF Init, Undisturbed, SecondArrives, ArrivedInv
<1>4. QED
  BY <1>2, <1>3, OnceInvInit DEF ArriveInv

LEMMA ArriveInvNext == ASSUME ArriveInv, [Next]_vars PROVE ArriveInv'
<1>1. OnceInv'
  BY OnceInvNext DEF ArriveInv
<1>2. CASE Add
  BY <1>1, <1>2, FaultArrive, NoiseSeen DEF Add, ArriveInv, OnceInv
<1>3. ASSUME NEW s \in Senders, Lose(s) \/ Change(s) PROVE ArriveInv'
  BY <1>1, <1>3, FaultArrive, NoiseSeen DEF Lose, Change, ArriveInv, OnceInv
<1>4. ASSUME NEW s \in Senders, Call(s) \/ Lock(s) \/ Putc(s) \/ Post(s) \/ Up(s) PROVE ArriveInv'
  BY <1>4, CallArrive, LockArrive, PutcArrive, PostArrive, UpArrive
<1>5. CASE UNCHANGED vars
  BY <1>1, <1>5, QuietArrive DEF vars, OnLine, Silent
<1>6. QED
  BY <1>2, <1>3, <1>4, <1>5 DEF Next

LEMMA ArriveInvCorrect == Spec => []ArriveInv
BY ArriveInvInit, ArriveInvNext, PTL DEF Spec

(* Whatever state a disturbance has left the receiver in, of two frames in a    *)
(* row that come as they were sent, the second is routed if it fits.           *)
THEOREM SecondAlwaysArrives == Spec => []SecondArrives
<1>1. ArriveInv => SecondArrives
  BY DEF ArriveInv
<1>2. QED
  BY <1>1, ArriveInvCorrect, PTL

(* Without faults what fits is routed, and what is routed is whole and in order. *)
THEOREM AllAlwaysArrive == Spec => []AllArrive
<1>1. ASSUME ArriveInv, Silent, faults = 0, ~starved
      PROVE  /\ \A n \in 1 .. Len(frames) : Fits(n) => \E k \in 1 .. Len(routed) : routed[k] = Arrived(n)
             /\ \A k \in 1 .. Len(routed) :
                  routed[k].nr <= Len(frames) /\ routed[k] = Arrived(routed[k].nr)
             /\ \A j, k \in 1 .. Len(routed) : j < k => routed[j].nr < routed[k].nr
  <2>1. ~late
    BY <1>1 DEF ArriveInv, Undisturbed
  <2>2. \A j, k \in 1 .. Len(routed) : j < k => routed[j].nr < routed[k].nr
    BY <1>1, <2>1 DEF ArriveInv, OnceInv, RoutedOnce
  <2>3. \A k \in 1 .. Len(routed) : routed[k].nr <= Len(frames)
    BY <1>1 DEF ArriveInv, OnceInv, NumberInv
  <2>4. QED
    BY <1>1, <2>2, <2>3 DEF ArriveInv, ArrivedInv
<1>2. ArriveInv => AllArrive
  BY <1>1 DEF AllArrive
<1>3. QED
  BY <1>2, ArriveInvCorrect, PTL
=============================================================================
