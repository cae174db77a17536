---------------------------- MODULE GuiServerProofs ----------------------------
(***************************************************************************)
(* Proofs about module GuiServer, for any number of clients, any sizes and any *)
(* input: the types, and that no client's input is lost, repeated, reordered or  *)
(* mixed up with another's between the socket and the commands that are run.     *)
(*                                                                         *)
(* The invariant that carries them says where the thread is in its loops        *)
(* (Control), that a connection is in one place (Connections), what the input    *)
(* of a client is wherever its parts are (InputInv), and that lines wait only     *)
(* in the buffer the thread is working on (LinesInv).                          *)
(***************************************************************************)
EXTENDS GuiServer, SequenceTheorems, WellFoundedInduction, TLAPS

(* Where the thread works on a slot it is one with a client; replies and a      *)
(* connection are there when it goes for them.                                *)
Control ==
  /\ gui.pc \in {"broadcast", "receive", "lines", "reply"} => slot[gui.at] # None
  /\ gui.pc = "reply" => gui.replies > 0
  /\ gui.pc \in {"broadcast", "accept"} /\ None \in gui.ready => backlog # <<>>

(* A connection waits once or is in one slot; a free slot has an empty buffer.  *)
Connections ==
  /\ \A i, j \in Slots : slot[i] = slot[j] /\ slot[i] # None => i = j
  /\ \A j, k \in 1 .. Len(backlog) : backlog[j] = backlog[k] => j = k
  /\ \A c \in Clients : Waiting(c) => ~InSlot(c)
  /\ \A c \in Clients : peer[c] = "away" => ~Waiting(c) /\ ~InSlot(c) /\ sent[c] = 0
  /\ \A i \in Slots : slot[i] = None => buf[i] = <<>>

Input(c) == run[c] \o Buffered(c) \o pipe[c]

(* m characters were sent, and those of s are among them, in order.           *)
OrderedTo(s, m) == Ascending(s) /\ \A k \in 1 .. Len(s) : s[k] \in 1 .. m

(* The first m characters.                                                   *)
FirstOf(m) == [k \in 1 .. m |-> k]

InputInv ==
  \A c \in Clients :
    /\ OrderedTo(Input(c), sent[c])
    /\ (InSlot(c) \/ Waiting(c)) /\ c \notin told => Input(c) = FirstOf(sent[c])

LinesInv ==
  \A i \in Slots : Newlines(buf[i]) # {} => gui.pc \in {"lines", "reply"} /\ gui.at = i

ServerInv == TypeOK /\ Control /\ Connections /\ InputInv /\ LinesInv

-----------------------------------------------------------------------------
(* Sets of slots, and sequences.                                             *)

LEMMA LeastNat ==
  ASSUME NEW S, S \subseteq Nat, S # {}
  PROVE  \E x \in S : \A y \in S : x <= y
<1> DEFINE R == OpToRel(<, Nat)
<1>1. IsWellFoundedOn(R, Nat)
  BY NatLessThanWellFounded
<1>2. \A a, b \in Nat : a < b => <<a, b>> \in R
  BY DEF OpToRel
<1> HIDE DEF R
<1>3. PICK x \in S : \A y \in S : ~(<<y, x>> \in R)
  BY <1>1, WFMin
<1>4. ASSUME NEW y \in S PROVE x <= y
  <2>1. x \in Nat /\ y \in Nat
    OBVIOUS
  <2>2. ~(y < x)
    BY <1>2, <1>3, <2>1
  <2>3. QED
    BY <2>1, <2>2
<1>5. QED
  BY <1>4

(* A loop goes on with a slot of its set, or ends.                           *)
At(pc, j) == [gui EXCEPT !.pc = pc, !.at = j]

LEMMA Loops ==
  ASSUME NEW S \in SUBSET Slots, NEW i \in Nat, NEW pc, NEW after
  PROVE  \/ Loop(S, i, pc, after) = after
         \/ \E j \in S : j >= i /\ Loop(S, i, pc, after) = At(pc, j)
<1>1. CASE ~\E j \in S : j >= i
  BY <1>1 DEF Loop
<1>2. CASE \E j \in S : j >= i
  <2> DEFINE T == {j \in S : j >= i}
  <2>1. T \subseteq Nat /\ T # {} /\ S \subseteq Nat
    <3>1. S \subseteq Nat
      BY ServerAssumption DEF Slots
    <3>2. QED
      BY <1>2, <3>1
  <2>2. PICK x \in T : \A y \in T : x <= y
    BY <2>1, LeastNat
  <2> DEFINE P(j) == j >= i /\ \A k \in S : k >= i => j <= k
  <2>3. P(x) /\ x \in S
    BY <2>2
  <2>4. (CHOOSE j \in S : P(j)) \in S /\ P(CHOOSE j \in S : P(j))
    BY <2>3
  <2>5. QED
    BY <1>2, <2>4 DEF Loop, At
<1>3. QED
  BY <1>1, <1>2

LEMMA ChosenSlot ==
  ASSUME NEW sl, NEW i \in Slots, \A j \in Slots : sl[j] = sl[i] => j = i
  PROVE  (CHOOSE j \in Slots : sl[j] = sl[i]) = i
OBVIOUS

(* A sequence is put together again from what was cut off it.                *)
LEMMA Cut ==
  ASSUME NEW q \in Seq(Nat), NEW n \in 0 .. Len(q)
  PROVE  /\ SubSeq(q, 1, n) \in Seq(Nat) /\ SubSeq(q, n + 1, Len(q)) \in Seq(Nat)
         /\ Len(SubSeq(q, 1, n)) = n /\ Len(SubSeq(q, n + 1, Len(q))) = Len(q) - n
         /\ \A k \in 1 .. n : SubSeq(q, 1, n)[k] = q[k]
         /\ \A k \in 1 .. Len(q) - n : SubSeq(q, n + 1, Len(q))[k] = q[n + k]
         /\ SubSeq(q, 1, n) \o SubSeq(q, n + 1, Len(q)) = q
<1>1. Len(q) \in Nat /\ n \in Nat /\ n <= Len(q) /\ \A k \in 1 .. Len(q) : q[k] \in Nat
  BY ElementOfSeq, LenProperties
<1>2. /\ SubSeq(q, 1, n) \in Seq(Nat) /\ Len(SubSeq(q, 1, n)) = n
      /\ \A k \in 1 .. n : SubSeq(q, 1, n)[k] = q[k]
  <2>1. /\ \A k \in 1 .. n : q[k] \in Nat
        /\ (IF 1 <= n THEN n - 1 + 1 ELSE 0) = n
    BY <1>1
  <2>2. QED
    BY <1>1, <2>1, SubSeqProperties
<1>3. /\ SubSeq(q, n + 1, Len(q)) \in Seq(Nat) /\ Len(SubSeq(q, n + 1, Len(q))) = Len(q) - n
      /\ \A k \in 1 .. Len(q) - n : SubSeq(q, n + 1, Len(q))[k] = q[n + k]
  <2>1. n + 1 \in 1 .. Len(q) + 1 /\ Len(q) \in Nat
    BY <1>1
  <2>2. QED
    BY SMTT(30), <1>1, <2>1, SubSeqProperties
<1>4. SubSeq(q, 1, n) \o SubSeq(q, n + 1, Len(q)) = SubSeq(q, 1, Len(q))
  <2>1. 1 \in 1 .. Len(q) + 1 /\ n \in 1 - 1 .. Len(q) /\ Len(q) \in n .. Len(q)
    BY <1>1
  <2>2. QED
    BY <2>1, ConcatAdjacentSubSeq
<1>5. SubSeq(q, 1, Len(q)) = q
  BY SubSeqFull
<1>6. QED
  BY <1>2, <1>3, <1>4, <1>5

LEMMA Regroup ==
  ASSUME NEW s \in Seq(Nat), NEW t \in Seq(Nat), NEW u \in Seq(Nat)
  PROVE  (s \o t) \o u = s \o (t \o u)
BY SMTT(30), ConcatAssociative

(* Characters received, or run, are in the same place of the whole.          *)
LEMMA MovedToBuffer ==
  ASSUME NEW r \in Seq(Nat), NEW b \in Seq(Nat), NEW p \in Seq(Nat), NEW n \in 0 .. Len(p)
  PROVE  (r \o (b \o SubSeq(p, 1, n))) \o SubSeq(p, n + 1, Len(p)) = (r \o b) \o p
<1> DEFINE f == SubSeq(p, 1, n)
           g == SubSeq(p, n + 1, Len(p))
<1>1. f \in Seq(Nat) /\ g \in Seq(Nat) /\ f \o g = p
  BY Cut
<1> HIDE DEF f, g
<1> DEFINE bf == b \o f
<1>2. bf \in Seq(Nat)
  BY <1>1, ConcatProperties
<1> HIDE DEF bf
<1>3. (r \o bf) \o g = r \o (bf \o g)
  <2>1. r \in Seq(Nat) /\ bf \in Seq(Nat) /\ g \in Seq(Nat)
    BY <1>1, <1>2
  <2>2. QED
    BY ONLY <2>1, Regroup
<1>4. bf \o g = b \o p
  BY ZenonT(30), <1>1, Regroup DEF bf
<1>5. (r \o b) \o p = r \o (b \o p)
  BY Regroup
<1>6. QED
  BY <1>3, <1>4, <1>5 DEF bf, f, g

LEMMA MovedToRun ==
  ASSUME NEW r \in Seq(Nat), NEW b \in Seq(Nat), NEW k \in 0 .. Len(b)
  PROVE  (r \o SubSeq(b, 1, k)) \o SubSeq(b, k + 1, Len(b)) = r \o b
<1> DEFINE f == SubSeq(b, 1, k)
           g == SubSeq(b, k + 1, Len(b))
<1>1. f \in Seq(Nat) /\ g \in Seq(Nat) /\ f \o g = b
  BY Cut
<1> HIDE DEF f, g
<1>2. (r \o f) \o g = r \o (f \o g)
  BY ZenonT(30), <1>1, Regroup
<1>3. QED
  BY <1>1, <1>2 DEF f, g

(* What is in the middle and the beginning of what follows may be missing.     *)
LEMMA Dropped ==
  ASSUME NEW r \in Seq(Nat), NEW b \in Seq(Nat), NEW p \in Seq(Nat), NEW n \in 0 .. Len(p),
         NEW m \in Nat, OrderedTo((r \o b) \o p, m)
  PROVE  OrderedTo((r \o <<>>) \o SubSeq(p, n + 1, Len(p)), m)
<1> DEFINE g == SubSeq(p, n + 1, Len(p))
           all == (r \o b) \o p
           left == (r \o <<>>) \o g
<1>1. Len(p) \in Nat /\ n \in Nat /\ n <= Len(p) /\ Len(r) \in Nat /\ Len(b) \in Nat
  BY LenProperties
<1>2. g \in Seq(Nat) /\ Len(g) = Len(p) - n /\ \A k \in 1 .. Len(p) - n : g[k] = p[n + k]
  BY Cut
<1>3. r \o <<>> = r
  BY ConcatEmptySeq
<1> HIDE DEF g
<1>4. Len(left) = Len(r) + Len(g) /\ \A k \in 1 .. Len(left) : left[k] = IF k <= Len(r) THEN r[k] ELSE g[k - Len(r)]
  <2>1. left = r \o g
    BY <1>3
  <2>2. QED
    <3>1. r \in Seq(Nat) /\ g \in Seq(Nat) /\ Len(r) \in Nat /\ Len(g) \in Nat
      BY <1>1, <1>2
    <3>2. Len(r \o g) = Len(r) + Len(g)
          /\ \A k \in 1 .. Len(r) + Len(g) : (r \o g)[k] = IF k <= Len(r) THEN r[k] ELSE g[k - Len(r)]
      BY <3>1, ConcatProperties
    <3>3. QED
      BY <2>1, <3>1, <3>2
<1>5. r \o b \in Seq(Nat) /\ Len(r \o b) = Len(r) + Len(b) /\ \A k \in 1 .. Len(r) : (r \o b)[k] = r[k]
  BY <1>1, ConcatProperties
<1>6. Len(all) = Len(r) + Len(b) + Len(p)
      /\ \A k \in 1 .. Len(all) : all[k] = IF k <= Len(r) + Len(b) THEN (r \o b)[k] ELSE p[k - (Len(r) + Len(b))]
  BY <1>5, ConcatProperties
<1> DEFINE f(k) == IF k <= Len(r) THEN k ELSE k + Len(b) + n
<1> HIDE DEF all, left
<1>7. ASSUME NEW k \in 1 .. Len(left) PROVE f(k) \in 1 .. Len(all) /\ left[k] = all[f(k)]
  <2> HIDE DEF f
  <2>1. CASE k <= Len(r)
    <3>1. f(k) = k /\ k \in 1 .. Len(r) /\ k \in 1 .. Len(all)
      BY <1>1, <1>2, <1>6, <2>1 DEF f
    <3>2. left[k] = r[k] /\ all[k] = r[k]
      BY <1>1, <1>4, <1>5, <1>6, <2>1, <3>1
    <3>3. QED
      BY <3>1, <3>2
  <2>2. CASE k > Len(r)
    <3>1. f(k) = k + Len(b) + n /\ f(k) \in 1 .. Len(all) /\ f(k) > Len(r) + Len(b)
      <4>1. k \in Nat /\ k <= Len(r) + (Len(p) - n)
        BY <1>1, <1>2, <1>4
      <4>2. QED
        BY <1>1, <1>6, <2>2, <4>1 DEF f
    <3>2. left[k] = g[k - Len(r)] /\ k - Len(r) \in 1 .. Len(p) - n
      <4>1. left[k] = g[k - Len(r)]
        <5>1. ~(k <= Len(r))
          BY <1>1, <2>2
        <5>2. QED
          BY <1>4, <5>1
      <4>2. k \in Nat /\ k <= Len(r) + Len(g)
        BY <1>4
      <4>3. Len(g) = Len(p) - n /\ Len(g) \in Nat
        BY <1>1, <1>2
      <4>4. k - Len(r) \in 1 .. Len(p) - n
        BY <1>1, <2>2, <4>2, <4>3
      <4>5. QED
        BY <4>1, <4>4
    <3>3. all[f(k)] = p[n + (k - Len(r))]
      <4>1. f(k) - (Len(r) + Len(b)) = n + (k - Len(r))
        BY <1>1, <3>1
      <4>2. all[f(k)] = p[f(k) - (Len(r) + Len(b))]
        BY <1>1, <1>6, <3>1
      <4>3. QED
        BY <4>1, <4>2
    <3>4. QED
      BY <1>2, <3>1, <3>2, <3>3
  <2>3. QED
    BY <1>1, <1>2, <1>4, <2>1, <2>2
<1>8. \A j, k \in 1 .. Len(left) : j < k => f(j) < f(k)
  BY SMTT(30), <1>1, <1>2, <1>4
<1>9. OrderedTo(all, m)
  BY DEF all
<1> HIDE DEF f
<1>10. OrderedTo(left, m)
  BY <1>7, <1>8, <1>9 DEF OrderedTo, Ascending
<1>11. QED
  BY <1>10 DEF left, g

(* The next character follows all others.                                    *)
LEMMA Sends ==
  ASSUME NEW r \in Seq(Nat), NEW b \in Seq(Nat), NEW p \in Seq(Nat), NEW m \in Nat,
         OrderedTo((r \o b) \o p, m)
  PROVE  /\ OrderedTo((r \o b) \o Append(p, m + 1), m + 1)
         /\ (r \o b) \o p = FirstOf(m)
              => (r \o b) \o Append(p, m + 1) = FirstOf(m + 1)
<1> DEFINE rb == r \o b
           all == rb \o p
           more == rb \o Append(p, m + 1)
<1>1. rb \in Seq(Nat) /\ m + 1 \in Nat
  BY ConcatProperties
<1> HIDE DEF rb
<1>2. Append(p, m + 1) = p \o <<m + 1>> /\ <<m + 1>> \in Seq(Nat)
  BY <1>1, AppendIsConcat
<1>3. more = all \o <<m + 1>> /\ all \in Seq(Nat)
  BY <1>1, <1>2, Regroup, ConcatProperties
<1>4. /\ Len(all) \in Nat /\ Len(more) = Len(all) + 1 /\ more[Len(all) + 1] = m + 1
      /\ \A k \in 1 .. Len(all) : more[k] = all[k]
      /\ more \in Seq(Nat)
  BY <1>1, <1>2, <1>3, ConcatProperties, LenProperties
<1>5. OrderedTo(all, m)
  BY DEF rb
<1> HIDE DEF all, more
<1>6. OrderedTo(more, m + 1)
  <2>1. ASSUME NEW k \in 1 .. Len(more) PROVE more[k] \in 1 .. m + 1 /\ (k # Len(more) => k \in 1 .. Len(all) /\ more[k] \in 1 .. m)
    <3>1. CASE k = Len(more)
      BY <1>4, <3>1
    <3>2. CASE k # Len(more)
      <4>1. k \in 1 .. Len(all) /\ more[k] = all[k]
        BY <1>4, <3>2
      <4>2. all[k] \in 1 .. m
        BY <1>5, <4>1 DEF OrderedTo
      <4>3. QED
        BY <4>1, <4>2
    <3>3. QED
      BY <3>1, <3>2
  <2>2. ASSUME NEW j \in 1 .. Len(more), NEW k \in 1 .. Len(more), j < k PROVE more[j] < more[k]
    <3>1. j \in 1 .. Len(all) /\ more[j] = all[j] /\ more[j] \in 1 .. m
      BY SMTT(30), <1>4, <2>1, <2>2
    <3>2. CASE k = Len(more)
      BY <1>4, <3>1, <3>2
    <3>3. CASE k # Len(more)
      BY <1>4, <1>5, <2>1, <2>2, <3>1, <3>3 DEF OrderedTo, Ascending
    <3>4. QED
      BY <3>2, <3>3
  <2>3. QED
    BY <2>1, <2>2 DEF OrderedTo, Ascending
<1>7. ASSUME all = FirstOf(m) PROVE more = FirstOf(m + 1)
  <2>1. Len(all) = m /\ \A k \in 1 .. m : all[k] = k
    BY <1>7, <1>3, <1>4, LenProperties DEF FirstOf
  <2>2. Len(more) = m + 1 /\ \A k \in 1 .. m + 1 : more[k] = k
    BY <1>4, <2>1
  <2>3. DOMAIN more = 1 .. m + 1 /\ more = [k \in DOMAIN more |-> more[k]]
    BY <1>4, <2>2, LenProperties
  <2>4. QED
    BY <2>2, <2>3 DEF FirstOf
<1>8. QED
  BY <1>6, <1>7 DEF more, all, rb
-----------------------------------------------------------------------------
(* Slots and buffers.                                                        *)

GuiStates ==
  [pc : {"select", "broadcast", "accept", "receive", "lines", "reply"},
   ready : SUBSET (Clients \cup {None}), at : Slots, replies : 0 .. MaxReplies + 1]

LEMMA FirstSlot == 1 \in Slots /\ Slots \subseteq Nat /\ AtSelect \in GuiStates
BY ServerAssumption DEF Slots, AtSelect, GuiStates

LEMMA LoopGoesOn ==
  ASSUME TypeOK, NEW S \in SUBSET Slots, NEW i \in Nat, NEW pc \in {"broadcast", "receive"},
         NEW after \in GuiStates
  PROVE  /\ Loop(S, i, pc, after) \in GuiStates
         /\ \/ Loop(S, i, pc, after) = after
            \/ /\ Loop(S, i, pc, after).pc = pc /\ Loop(S, i, pc, after).at \in S
               /\ Loop(S, i, pc, after).at >= i
               /\ Loop(S, i, pc, after).ready = gui.ready
<1>1. gui \in GuiStates
  BY DEF TypeOK, GuiStates
<1>2. CASE Loop(S, i, pc, after) = after
  BY <1>2
<1>3. CASE \E j \in S : j >= i /\ Loop(S, i, pc, after) = At(pc, j)
  <2>1. PICK j \in S : j >= i /\ Loop(S, i, pc, after) = At(pc, j)
    BY <1>3
  <2> DEFINE r == At(pc, j)
  <2>2. r.pc = pc /\ r.at = j /\ r.ready = gui.ready /\ r \in GuiStates
    BY <1>1 DEF At, GuiStates
  <2>3. QED
    BY <2>1, <2>2
<1>4. QED
  BY <1>2, <1>3, Loops

LEMMA BufferOf ==
  ASSUME TypeOK, Connections, NEW i \in Slots, slot[i] # None
  PROVE  /\ InSlot(slot[i]) /\ Buffered(slot[i]) = buf[i] /\ slot[i] \in Clients
         /\ ~Waiting(slot[i])
<1>1. \A j \in Slots : slot[j] = slot[i] => j = i
  BY DEF Connections
<1>2. (CHOOSE j \in Slots : slot[j] = slot[i]) = i
  BY <1>1, ChosenSlot
<1>3. InSlot(slot[i]) /\ slot[i] \in Clients
  BY DEF InSlot, TypeOK
<1>4. QED
  BY <1>2, <1>3 DEF Buffered, Connections

LEMMA BufferOfNext ==
  ASSUME Connections', None \notin Clients, NEW c \in Clients, NEW i \in Slots, slot'[i] = c
  PROVE  InSlot(c)' /\ Buffered(c)' = buf'[i]
<1>1. \A j \in Slots : slot'[j] = slot'[i] => j = i
  BY DEF Connections
<1>2. (CHOOSE j \in Slots : slot'[j] = slot'[i]) = i
  BY <1>1, ChosenSlot
<1>3. InSlot(c)'
  BY DEF InSlot
<1>4. QED
  BY <1>2, <1>3 DEF Buffered

LEMMA BufferedTypes ==
  ASSUME TypeOK, NEW c \in Clients
  PROVE  run[c] \in Seq(Nat) /\ Buffered(c) \in Seq(Nat) /\ pipe[c] \in Seq(Nat) /\ sent[c] \in Nat
<1>1. run[c] \in Seq(Nat) /\ pipe[c] \in Seq(Nat) /\ sent[c] \in Nat /\ buf \in [Slots -> Seq(Nat)]
  BY DEF TypeOK
<1>2. Buffered(c) \in Seq(Nat)
  <2>1. CASE InSlot(c)
    <3>1. (CHOOSE i \in Slots : slot[i] = c) \in Slots
      BY <2>1 DEF InSlot
    <3>2. QED
      BY <1>1, <2>1, <3>1 DEF Buffered
  <2>2. CASE ~InSlot(c)
    BY <2>2, EmptySeq DEF Buffered
  <2>3. QED
    BY <2>1, <2>2
<1>3. QED
  BY <1>1, <1>2

-----------------------------------------------------------------------------
(* What a step leaves alone.                                                 *)

(* The parts of every client's input are where they were.                    *)
LEMMA SameInput ==
  ASSUME ServerInv, \A c \in Clients : Buffered(c)' = Buffered(c),
         run' = run, pipe' = pipe, sent' = sent, told \subseteq told',
         \A c \in Clients : (InSlot(c) \/ Waiting(c))' => InSlot(c) \/ Waiting(c)
  PROVE  InputInv'
<1>1. \A c \in Clients : Input(c)' = Input(c)
  BY DEF Input
<1>2. QED
  BY <1>1 DEF ServerInv, InputInv

LEMMA SameConnections ==
  ASSUME ServerInv, slot' = slot, backlog' = backlog, sent' = sent, buf' = buf,
         \A c \in Clients : peer'[c] = "away" => peer[c] = "away"
  PROVE  /\ Connections'
         /\ \A c \in Clients : /\ Buffered(c)' = Buffered(c)
                               /\ InSlot(c)' = InSlot(c) /\ Waiting(c)' = Waiting(c)
<1>1. \A c \in Clients : InSlot(c)' = InSlot(c) /\ Waiting(c)' = Waiting(c)
  BY DEF InSlot, Waiting
<1>2. \A c \in Clients : Buffered(c)' = Buffered(c)
  BY <1>1 DEF Buffered
<1>3. Connections'
  BY <1>1 DEF ServerInv, Connections
<1>4. QED
  BY <1>1, <1>2, <1>3

(* The thread works on a slot, or waits, with the input where it was.          *)
LEMMA Elsewhere ==
  ASSUME ServerInv, slot' = slot, backlog' = backlog, sent' = sent, buf' = buf,
         run' = run, pipe' = pipe, told' = told,
         \A c \in Clients : peer'[c] = "away" => peer[c] = "away"
  PROVE  Connections' /\ InputInv'
<1>1. /\ Connections'
      /\ \A c \in Clients : /\ Buffered(c)' = Buffered(c)
                            /\ InSlot(c)' = InSlot(c) /\ Waiting(c)' = Waiting(c)
  BY SameConnections
<1>2. InputInv'
  BY <1>1, SameInput
<1>3. QED
  BY <1>1, <1>2

LEMMA Sending ==
  ASSUME TypeOK, NEW c \in Clients, Send(c)
  PROVE  /\ peer' \in [Clients -> {"away", "up", "closed", "reset"}]
         /\ unread' \in [Clients -> 0 .. Room] /\ alive' \in BOOLEAN
         /\ \A d \in Clients : peer'[d] = "away" => peer[d] = "away"
<1>1. /\ peer \in [Clients -> {"away", "up", "closed", "reset"}]
      /\ unread \in [Clients -> 0 .. Room] /\ alive \in BOOLEAN /\ Room \in Nat
  BY ServerAssumption DEF TypeOK
<1>2. CASE /\ peer[c] = "up" /\ unread[c] < Room
           /\ unread' = [unread EXCEPT ![c] = @ + 1]
           /\ UNCHANGED <<peer, alive>>
  <2>1. unread[c] + 1 \in 0 .. Room
    BY <1>1, <1>2
  <2>2. QED
    BY <1>1, <1>2, <2>1
<1>3. CASE /\ peer[c] = "closed"
           /\ \E answer \in {"closed", "reset"} : peer' = [peer EXCEPT ![c] = answer]
           /\ UNCHANGED <<unread, alive>>
  BY <1>1, <1>3
<1>4. CASE peer[c] = "reset" /\ alive' = FALSE /\ UNCHANGED <<peer, unread>>
  BY <1>1, <1>4
<1>5. QED
  BY <1>2, <1>3, <1>4 DEF Send
-----------------------------------------------------------------------------
(* The initial state, the clients and the clock.                              *)

LEMMA Initially ==
  ASSUME Init
  PROVE  ServerInv
<1>1. backlog = <<>> /\ Len(backlog) = 0 /\ \A i \in Slots : slot[i] = None /\ buf[i] = <<>>
  BY EmptySeq DEF Init
<1>2. TypeOK
  <2>1. gui \in GuiStates
    BY FirstSlot DEF Init
  <2>2. <<>> \in Seq(Nat) /\ <<>> \in Seq(Clients) /\ Len(<<>>) = 0 /\ 0 \in 0 .. Room
    BY EmptySeq, ServerAssumption
  <2>3. QED
    BY <2>1, <2>2, ServerAssumption DEF Init, TypeOK, GuiStates
<1>3. Control
  BY DEF Init, Control, AtSelect
<1>4. \A c \in Clients : ~InSlot(c) /\ ~Waiting(c) /\ Buffered(c) = <<>>
  BY <1>1, ServerAssumption DEF InSlot, Waiting, Buffered
<1>5. Connections
  BY <1>1, <1>4 DEF Connections, Init
<1>6. InputInv
  <2>1. ASSUME NEW c \in Clients PROVE Input(c) = <<>>
    <3>1. run[c] = <<>> /\ pipe[c] = <<>>
      BY DEF Init
    <3>2. <<>> \o <<>> = <<>>
      BY EmptySeq, ConcatEmptySeq
    <3>3. QED
      BY <1>4, <3>1, <3>2 DEF Input
  <2>2. Len(<<>>) = 0
    BY EmptySeq
  <2>3. \A m : OrderedTo(<<>>, m)
    BY <2>2 DEF OrderedTo, Ascending
  <2>4. QED
    BY <1>4, <2>1, <2>3 DEF InputInv
<1>7. LinesInv
  BY <1>1, EmptySeq DEF LinesInv, Newlines
<1>8. QED
  BY <1>2, <1>3, <1>5, <1>6, <1>7 DEF ServerInv

LEMMA StepConnect ==
  ASSUME ServerInv, NEW c \in Clients, Connect(c)
  PROVE  ServerInv'
<1>1. /\ peer[c] = "away" /\ peer' = [peer EXCEPT ![c] = "up"] /\ backlog' = Append(backlog, c)
      /\ UNCHANGED <<pipe, sent, unread, slot, buf, gui, due, alive, run, told>>
      /\ TypeOK /\ Control /\ Connections /\ InputInv /\ LinesInv
  BY DEF Connect, ServerInv, clientVars
<1>2. /\ backlog \in Seq(Clients) /\ backlog' \in Seq(Clients) /\ backlog' # <<>>
      /\ Len(backlog) \in Nat /\ Len(backlog') = Len(backlog) + 1
      /\ \A k \in 1 .. Len(backlog) : backlog'[k] = backlog[k]
      /\ backlog'[Len(backlog) + 1] = c
  <2>1. backlog \in Seq(Clients)
    BY <1>1 DEF TypeOK
  <2>2. Len(backlog) \in Nat
    BY <2>1, LenProperties
  <2>3. backlog' = Append(backlog, c)
    BY <1>1
  <2>4. QED
    BY <2>1, <2>2, <2>3, AppendProperties
<1>3. ~Waiting(c) /\ ~InSlot(c) /\ sent[c] = 0
  BY <1>1 DEF Connections
<1>4. TypeOK'
  BY <1>1, <1>2 DEF TypeOK
<1>5. Control'
  BY <1>1, <1>2 DEF Control
<1>6. \A d \in Clients : InSlot(d)' = InSlot(d) /\ Buffered(d)' = Buffered(d)
  BY <1>1 DEF InSlot, Buffered
<1>7. \A d \in Clients : Waiting(d)' <=> Waiting(d) \/ d = c
  BY <1>2 DEF Waiting
<1>8. Connections'
  <2>1. \A j, k \in 1 .. Len(backlog') : backlog'[j] = backlog'[k] => j = k
    <3>1. \A k \in 1 .. Len(backlog) : backlog[k] # c
      BY <1>3 DEF Waiting
    <3>2. \A k \in 1 .. Len(backlog') : k \in 1 .. Len(backlog) \/ k = Len(backlog) + 1
      BY <1>2
    <3>3. QED
      BY <1>1, <1>2, <3>1, <3>2 DEF Connections
  <2>2. \A d \in Clients : Waiting(d)' => ~InSlot(d)'
    BY <1>1, <1>3, <1>6, <1>7 DEF Connections
  <2>3. \A d \in Clients : peer'[d] = "away" => ~Waiting(d)' /\ ~InSlot(d)' /\ sent'[d] = 0
    BY <1>1, <1>6, <1>7 DEF Connections, TypeOK
  <2>4. QED
    BY <1>1, <2>1, <2>2, <2>3 DEF Connections
<1>9. InputInv'
  <2>1. \A d \in Clients : Input(d)' = Input(d)
    BY <1>1, <1>6 DEF Input
  <2>2. Input(c) = FirstOf(sent[c])
    <3>1. Input(c) \in Seq(Nat)
      BY <1>1, BufferedTypes, ConcatProperties DEF Input
    <3>2. \A k \in 1 .. Len(Input(c)) : Input(c)[k] \in 1 .. 0
      BY <1>1, <1>3 DEF InputInv, OrderedTo
    <3>3. Len(Input(c)) = 0
      BY <3>1, <3>2, LenProperties
    <3>4. Input(c) = <<>>
      BY <3>1, <3>3, EmptySeq
    <3>5. FirstOf(0) = <<>>
      BY EmptySeq DEF FirstOf
    <3>6. QED
      BY <1>3, <3>4, <3>5
  <2>3. QED
    BY <1>1, <1>6, <1>7, <2>1, <2>2 DEF InputInv
<1>10. LinesInv'
  BY <1>1 DEF LinesInv, Newlines
<1>11. QED
  BY <1>4, <1>5, <1>8, <1>9, <1>10 DEF ServerInv

LEMMA StepSendChar ==
  ASSUME ServerInv, NEW c \in Clients, SendChar(c)
  PROVE  ServerInv'
<1>1. /\ peer[c] = "up" /\ sent' = [sent EXCEPT ![c] = @ + 1]
      /\ pipe' = [pipe EXCEPT ![c] = Append(@, sent'[c])]
      /\ UNCHANGED <<peer, unread, backlog, slot, buf, gui, due, alive, run, told>>
      /\ TypeOK /\ Control /\ Connections /\ InputInv /\ LinesInv
  BY DEF SendChar, ServerInv
<1>2. sent[c] \in Nat /\ sent'[c] = sent[c] + 1 /\ pipe[c] \in Seq(Nat) /\ Append(pipe[c], sent[c] + 1) \in Seq(Nat)
  BY <1>1, AppendProperties DEF TypeOK
<1>3. TypeOK'
  BY <1>1, <1>2 DEF TypeOK
<1>4. Control'
  BY <1>1 DEF Control
<1>5. \A d \in Clients : InSlot(d)' = InSlot(d) /\ Buffered(d)' = Buffered(d) /\ Waiting(d)' = Waiting(d)
  BY <1>1 DEF InSlot, Buffered, Waiting
<1>6. \A d \in Clients : d # c => sent'[d] = sent[d] /\ pipe'[d] = pipe[d]
  BY <1>1 DEF TypeOK
<1>7. Connections'
  <2>1. \A d \in Clients : peer[d] = "away" => d # c
    BY <1>1
  <2>2. QED
    BY <1>1, <1>5, <1>6, <2>1 DEF Connections
<1>8. InputInv'
  <2>1. ASSUME NEW d \in Clients, d # c PROVE Input(d)' = Input(d)
    BY <1>1, <1>5, <1>6, <2>1 DEF Input
  <2>2. /\ OrderedTo(Input(c)', sent[c] + 1)
        /\ Input(c) = FirstOf(sent[c]) => Input(c)' = FirstOf(sent[c] + 1)
    <3>1. pipe'[c] = Append(pipe[c], sent[c] + 1)
      BY <1>1, <1>2 DEF TypeOK
    <3>2. Input(c)' = (run[c] \o Buffered(c)) \o Append(pipe[c], sent[c] + 1)
      BY <1>1, <1>5, <3>1 DEF Input
    <3>3. run[c] \in Seq(Nat) /\ Buffered(c) \in Seq(Nat)
      BY <1>1, BufferedTypes
    <3>4. OrderedTo((run[c] \o Buffered(c)) \o pipe[c], sent[c])
      BY <1>1 DEF InputInv, Input
    <3>5. /\ OrderedTo((run[c] \o Buffered(c)) \o Append(pipe[c], sent[c] + 1), sent[c] + 1)
          /\ (run[c] \o Buffered(c)) \o pipe[c] = FirstOf(sent[c])
               => (run[c] \o Buffered(c)) \o Append(pipe[c], sent[c] + 1) = FirstOf(sent[c] + 1)
      BY <1>2, <3>3, <3>4, Sends
    <3>6. QED
      BY <3>2, <3>5 DEF Input
  <2>3. QED
    BY <1>1, <1>2, <1>5, <1>6, <2>1, <2>2 DEF InputInv
<1>9. LinesInv'
  BY <1>1 DEF LinesInv, Newlines
<1>10. QED
  BY <1>3, <1>4, <1>7, <1>8, <1>9 DEF ServerInv

(* Nothing the thread works on changes.                                      *)
LEMMA StepOutside ==
  ASSUME ServerInv, (\E c \in Clients : ReadMessages(c) \/ Disconnect(c)) \/ SecondPasses
  PROVE  ServerInv'
<1>1. /\ UNCHANGED <<pipe, sent, slot, buf, backlog, gui, alive, run, told>>
      /\ TypeOK /\ Control /\ Connections /\ InputInv /\ LinesInv
  BY DEF ReadMessages, Disconnect, SecondPasses, ServerInv, clientVars
<1>2. /\ peer' \in [Clients -> {"away", "up", "closed", "reset"}]
      /\ unread' \in [Clients -> 0 .. Room] /\ due' \in BOOLEAN
      /\ \A d \in Clients : peer'[d] = "away" => peer[d] = "away"
  <2>1. /\ peer \in [Clients -> {"away", "up", "closed", "reset"}]
        /\ unread \in [Clients -> 0 .. Room] /\ due \in BOOLEAN /\ 0 \in 0 .. Room
    BY <1>1, ServerAssumption DEF TypeOK
  <2>2. unread' = unread \/ \E c \in Clients : unread' = [unread EXCEPT ![c] = 0]
    BY DEF ReadMessages, Disconnect, SecondPasses
  <2>3. peer' = peer \/ \E c \in Clients : peer' = [peer EXCEPT ![c] = "closed"]
    BY DEF ReadMessages, Disconnect, SecondPasses
  <2>4. due' = due \/ due' = TRUE
    BY DEF ReadMessages, Disconnect, SecondPasses
  <2>5. due' \in BOOLEAN
    BY <2>1, <2>4
  <2>6. QED
    BY <2>1, <2>2, <2>3, <2>5
<1>3. TypeOK'
  BY <1>1, <1>2 DEF TypeOK
<1>4. Connections' /\ InputInv'
  BY <1>1, <1>2, Elsewhere
<1>5. Control' /\ LinesInv'
  BY <1>1 DEF Control, LinesInv, Newlines
<1>6. QED
  BY <1>3, <1>4, <1>5 DEF ServerInv
-----------------------------------------------------------------------------
(* The thread: waiting, and its loops.                                       *)

LEMMA ServerFacts ==
  ASSUME ServerInv
  PROVE  /\ TypeOK /\ Control /\ Connections /\ InputInv /\ LinesInv
         /\ gui \in GuiStates /\ gui.at \in Slots /\ gui.at \in Nat /\ gui.at + 1 \in Nat
         /\ Occupied \in SUBSET Slots /\ Ready \in SUBSET Slots /\ Ready \subseteq Occupied
         /\ None \notin Clients
<1>1. gui \in GuiStates /\ TypeOK /\ Control /\ Connections /\ InputInv /\ LinesInv
  BY DEF ServerInv, TypeOK, GuiStates
<1>2. gui.at \in Slots
  BY <1>1 DEF GuiStates
<1>3. gui.at \in Nat
  BY <1>2, FirstSlot
<1>4. QED
  BY <1>1, <1>2, <1>3, ServerAssumption DEF Occupied, Ready

LEMMA StepSelect ==
  ASSUME ServerInv, Select
  PROVE  ServerInv'
<1> DEFINE ready == {c \in Clients : Readable(c) /\ \E i \in Occupied : slot[i] = c}
                      \cup (IF backlog # <<>> THEN {None} ELSE {})
           accepting == [AtSelect EXCEPT !.pc = "accept", !.ready = ready]
           l == Loop(Occupied, 1, "broadcast", accepting)
<1>1. /\ gui.pc = "select" /\ due' = FALSE
      /\ gui' = (IF due THEN [l EXCEPT !.ready = ready] ELSE accepting)
      /\ UNCHANGED <<peer, pipe, sent, unread, backlog, slot, buf, alive, run, told>>
  BY DEF Select, clientVars
<1>2. ready \in SUBSET (Clients \cup {None}) /\ (None \in ready => backlog # <<>>)
  BY ServerAssumption
<1>3. accepting \in GuiStates /\ accepting.pc = "accept" /\ accepting.ready = ready
  BY <1>2, FirstSlot DEF GuiStates, AtSelect
<1> HIDE DEF ready, accepting
<1>4. l \in GuiStates /\ (l = accepting \/ (l.pc = "broadcast" /\ l.at \in Occupied))
  <2>1. TypeOK /\ Occupied \in SUBSET Slots
    BY ServerFacts
  <2>2. QED
    BY <1>3, <2>1, LoopGoesOn
<1> HIDE DEF l
<1>5. [l EXCEPT !.ready = ready] \in GuiStates
  BY <1>2, <1>4 DEF GuiStates
<1>6. /\ gui' \in GuiStates /\ gui'.ready = ready /\ gui'.pc \in {"accept", "broadcast"}
      /\ gui'.pc = "broadcast" => gui'.at \in Occupied
  <2>1. CASE due
    BY <1>1, <1>3, <1>4, <1>5, <2>1 DEF GuiStates
  <2>2. CASE ~due
    BY <1>1, <1>3, <2>2
  <2>3. QED
    BY <2>1, <2>2
<1>7. TypeOK'
  BY <1>1, <1>6, ServerFacts DEF TypeOK, GuiStates
<1>8. Control'
  BY <1>1, <1>2, <1>6 DEF Control, Occupied
<1>9. Connections' /\ InputInv'
  BY <1>1, Elsewhere
<1>10. LinesInv'
  BY <1>1, ServerFacts DEF LinesInv, Newlines
<1>11. QED
  BY <1>7, <1>8, <1>9, <1>10 DEF ServerInv

LEMMA StepBroadcast ==
  ASSUME ServerInv, Broadcast
  PROVE  ServerInv'
<1> DEFINE after == [gui EXCEPT !.pc = "accept", !.at = 1]
           l == Loop(Occupied, gui.at + 1, "broadcast", after)
<1>1. /\ gui.pc = "broadcast" /\ Send(slot[gui.at]) /\ gui' = l
      /\ UNCHANGED <<pipe, sent, backlog, slot, buf, due, run, told>>
  BY DEF Broadcast, clientVars
<1>2. slot[gui.at] \in Clients
  BY <1>1, ServerFacts DEF Control, TypeOK
<1>3. /\ peer' \in [Clients -> {"away", "up", "closed", "reset"}]
      /\ unread' \in [Clients -> 0 .. Room] /\ alive' \in BOOLEAN
      /\ \A d \in Clients : peer'[d] = "away" => peer[d] = "away"
  BY <1>1, <1>2, ServerFacts, Sending
<1>4. after \in GuiStates /\ after.pc = "accept" /\ after.ready = gui.ready
  BY FirstSlot, ServerFacts DEF GuiStates
<1> HIDE DEF after
<1>5. l \in GuiStates /\ (l = after \/ (l.pc = "broadcast" /\ l.at \in Occupied /\ l.ready = gui.ready))
  <2>1. TypeOK /\ Occupied \in SUBSET Slots /\ gui.at + 1 \in Nat
    BY ServerFacts
  <2>2. QED
    BY <1>4, <2>1, LoopGoesOn
<1> HIDE DEF l
<1>6. TypeOK'
  BY <1>1, <1>3, <1>5, ServerFacts DEF TypeOK, GuiStates
<1>7. Control'
  BY <1>1, <1>4, <1>5, ServerFacts DEF Control, Occupied
<1>8. Connections' /\ InputInv'
  BY <1>1, <1>3, Elsewhere
<1>9. LinesInv'
  BY <1>1, ServerFacts DEF LinesInv, Newlines
<1>10. QED
  BY <1>6, <1>7, <1>8, <1>9 DEF ServerInv

(* To the next slot that was ready, or back to select().                      *)
LEMMA Onwards ==
  ASSUME ServerInv, NEW i \in Nat, gui' = Loop(Ready, i, "receive", AtSelect)
  PROVE  /\ gui' \in GuiStates
         /\ \/ gui' = AtSelect /\ gui'.pc = "select"
            \/ gui'.pc = "receive" /\ gui'.at \in Ready /\ gui'.at >= i
<1> DEFINE l == Loop(Ready, i, "receive", AtSelect)
<1>1. l \in GuiStates /\ (l = AtSelect \/ (l.pc = "receive" /\ l.at \in Ready /\ l.at >= i))
  <2>1. TypeOK /\ Ready \in SUBSET Slots
    BY ServerFacts
  <2>2. QED
    BY FirstSlot, <2>1, LoopGoesOn
<1>2. AtSelect.pc = "select"
  BY DEF AtSelect
<1>3. gui' = l
  OBVIOUS
<1> HIDE DEF l
<1>4. QED
  BY <1>1, <1>2, <1>3

LEMMA StepNoMoreLines ==
  ASSUME ServerInv, NoMoreLines
  PROVE  ServerInv'
<1>1. /\ gui.pc = "lines" /\ Newlines(buf[gui.at]) = {}
      /\ gui' = Loop(Ready, gui.at + 1, "receive", AtSelect)
      /\ UNCHANGED <<peer, pipe, sent, unread, backlog, slot, buf, due, alive, run, told>>
  BY DEF NoMoreLines, Processed, NextReady, clientVars
<1>2. /\ gui' \in GuiStates
      /\ gui'.pc = "select" \/ (gui'.pc = "receive" /\ gui'.at \in Ready)
  BY <1>1, ServerFacts, Onwards
<1>3. TypeOK'
  BY <1>1, <1>2, ServerFacts DEF TypeOK, GuiStates
<1>4. Control'
  BY <1>1, <1>2, ServerFacts DEF Control, Occupied
<1>5. Connections' /\ InputInv'
  BY <1>1, Elsewhere
<1>6. LinesInv'
  BY <1>1, ServerFacts DEF LinesInv, Newlines
<1>7. QED
  BY <1>3, <1>4, <1>5, <1>6 DEF ServerInv

LEMMA StepReply ==
  ASSUME ServerInv, Reply
  PROVE  ServerInv'
<1>1. /\ gui.pc = "reply" /\ Send(slot[gui.at]) /\ gui' = Answering(gui.replies - 1)
      /\ UNCHANGED <<pipe, sent, backlog, slot, buf, due, run, told>>
  BY DEF Reply, clientVars
<1>2. slot[gui.at] \in Clients
  BY <1>1, ServerFacts DEF Control, TypeOK
<1>3. /\ peer' \in [Clients -> {"away", "up", "closed", "reset"}]
      /\ unread' \in [Clients -> 0 .. Room] /\ alive' \in BOOLEAN
      /\ \A d \in Clients : peer'[d] = "away" => peer[d] = "away"
  BY <1>1, <1>2, ServerFacts, Sending
<1>4. gui.replies - 1 \in 0 .. MaxReplies + 1
  BY <1>1, ServerFacts, ServerAssumption DEF Control, GuiStates
<1>5. /\ gui' \in GuiStates /\ gui'.pc \in {"reply", "lines"} /\ gui'.at = gui.at
      /\ gui'.pc = "reply" => gui'.replies > 0
  BY <1>1, <1>4, ServerFacts DEF Answering, GuiStates
<1>6. TypeOK'
  BY <1>1, <1>3, <1>5, ServerFacts DEF TypeOK, GuiStates
<1>7. Control'
  BY <1>1, <1>5, ServerFacts DEF Control
<1>8. Connections' /\ InputInv'
  BY <1>1, <1>3, Elsewhere
<1>9. LinesInv'
  BY <1>1, <1>5, ServerFacts DEF LinesInv, Newlines
<1>10. QED
  BY <1>6, <1>7, <1>8, <1>9 DEF ServerInv
-----------------------------------------------------------------------------
(* The thread: connections that come and go.                                 *)

(* The first connection that waits waits no more.                            *)
LEMMA FirstWaiting ==
  ASSUME ServerInv, backlog # <<>>, backlog' = Tail(backlog)
  PROVE  /\ Head(backlog) \in Clients /\ Waiting(Head(backlog))
         /\ backlog' \in Seq(Clients)
         /\ \A d \in Clients : Waiting(d)' <=> Waiting(d) /\ d # Head(backlog)
         /\ \A j, k \in 1 .. Len(backlog') : backlog'[j] = backlog'[k] => j = k
<1>1. backlog \in Seq(Clients) /\ \A j, k \in 1 .. Len(backlog) : backlog[j] = backlog[k] => j = k
  BY ServerFacts DEF TypeOK, Connections
<1>2. /\ Head(backlog) \in Clients /\ Tail(backlog) \in Seq(Clients) /\ Len(backlog) \in Nat
      /\ Len(backlog) >= 1 /\ Head(backlog) = backlog[1] /\ Len(Tail(backlog)) = Len(backlog) - 1
      /\ \A k \in 1 .. Len(Tail(backlog)) : Tail(backlog)[k] = backlog[k + 1]
  BY <1>1, HeadTailProperties, EmptySeq, LenProperties
<1>3. \A d \in Clients : Waiting(d)' <=> Waiting(d) /\ d # Head(backlog)
  <2>1. ASSUME NEW d \in Clients, Waiting(d)' PROVE Waiting(d) /\ d # Head(backlog)
    <3>1. PICK k \in 1 .. Len(backlog') : backlog'[k] = d
      BY <2>1 DEF Waiting
    <3>2. k + 1 \in 1 .. Len(backlog) /\ backlog[k + 1] = d /\ 1 \in 1 .. Len(backlog) /\ k + 1 # 1
      BY <1>2, <3>1
    <3>3. QED
      BY <1>1, <1>2, <3>2 DEF Waiting
  <2>2. ASSUME NEW d \in Clients, Waiting(d), d # Head(backlog) PROVE Waiting(d)'
    <3>1. PICK k \in 1 .. Len(backlog) : backlog[k] = d
      BY <2>2 DEF Waiting
    <3>2. k - 1 \in 1 .. Len(backlog') /\ backlog'[k - 1] = d
      BY <1>2, <2>2, <3>1
    <3>3. QED
      BY <3>2 DEF Waiting
  <2>3. QED
    BY <2>1, <2>2
<1>4. ASSUME NEW j \in 1 .. Len(backlog'), NEW k \in 1 .. Len(backlog'), backlog'[j] = backlog'[k]
      PROVE  j = k
  <2>1. j + 1 \in 1 .. Len(backlog) /\ k + 1 \in 1 .. Len(backlog) /\ backlog[j + 1] = backlog[k + 1]
    BY <1>2, <1>4
  <2>2. QED
    BY <1>1, <2>1
<1>5. Waiting(Head(backlog))
  BY <1>2 DEF Waiting
<1>6. QED
  BY <1>2, <1>3, <1>4, <1>5

LEMMA AcceptConnection ==
  ASSUME ServerInv, backlog # <<>>, backlog' = Tail(backlog), NEW i \in Slots \ Occupied,
         slot' = [slot EXCEPT ![i] = Head(backlog)], buf' = [buf EXCEPT ![i] = <<>>],
         UNCHANGED <<run, pipe, sent, told>>,
         \A d \in Clients : peer'[d] = "away" => peer[d] = "away"
  PROVE  Connections' /\ InputInv'
<1>1. PICK c \in Clients :
        /\ c = Head(backlog) /\ Waiting(c)
        /\ \A d \in Clients : Waiting(d)' <=> Waiting(d) /\ d # c
        /\ \A j, k \in 1 .. Len(backlog') : backlog'[j] = backlog'[k] => j = k
  BY FirstWaiting
<1>2. slot' = [slot EXCEPT ![i] = c]
  BY <1>1
<1>3. i \in Slots /\ slot[i] = None /\ slot \in [Slots -> Clients \cup {None}] /\ buf \in [Slots -> Seq(Nat)]
  BY ServerFacts DEF Occupied, TypeOK
<1>4. ~InSlot(c) /\ peer[c] # "away"
  BY <1>1, ServerFacts DEF Connections
<1>5. \A j \in Slots : slot'[j] = IF j = i THEN c ELSE slot[j]
  BY <1>2, <1>3
<1>6. \A j \in Slots : buf'[j] = IF j = i THEN <<>> ELSE buf[j]
  BY <1>3
<1>7. \A d \in Clients : InSlot(d)' <=> InSlot(d) \/ d = c
  <2>1. ASSUME NEW d \in Clients, NEW j \in Slots, slot[j] = d PROVE slot'[j] = d
    BY <1>3, <1>5, <2>1, ServerFacts
  <2>2. \A d \in Clients, j \in Slots : slot'[j] = d => slot[j] = d \/ d = c
    BY <1>5
  <2>3. slot'[i] = c
    BY <1>3, <1>5
  <2>4. QED
    BY <1>3, <2>1, <2>2, <2>3 DEF InSlot
<1>8. Connections'
  <2>1. ASSUME NEW j \in Slots, NEW k \in Slots, slot'[j] = slot'[k], slot'[j] # None PROVE j = k
    <3>1. slot[j] # c /\ slot[k] # c
      BY <1>4 DEF InSlot
    <3>2. QED
      BY <1>5, <2>1, <3>1, ServerFacts DEF Connections
  <2>2. \A d \in Clients : Waiting(d)' => ~InSlot(d)'
    BY <1>1, <1>7, ServerFacts DEF Connections
  <2>3. \A d \in Clients : peer'[d] = "away" => ~Waiting(d)' /\ ~InSlot(d)' /\ sent'[d] = 0
    BY <1>1, <1>4, <1>7, ServerFacts DEF Connections
  <2>4. \A j \in Slots : slot'[j] = None => buf'[j] = <<>>
    BY <1>5, <1>6, ServerFacts DEF Connections
  <2>5. QED
    BY <1>1, <2>1, <2>2, <2>3, <2>4 DEF Connections
<1>9. ASSUME NEW d \in Clients PROVE Buffered(d)' = Buffered(d)
  <2>1. CASE d = c
    <3>1. slot'[i] = c /\ buf'[i] = <<>>
      BY <1>3, <1>5, <1>6
    <3>2. Buffered(c)' = <<>>
      BY <1>1, <1>3, <1>8, <3>1, ServerFacts, BufferOfNext
    <3>3. Buffered(c) = <<>>
      BY <1>4 DEF Buffered
    <3>4. QED
      BY <2>1, <3>2, <3>3
  <2>2. CASE d # c /\ InSlot(d)
    <3>1. PICK j \in Slots : slot[j] = d
      BY <2>2 DEF InSlot
    <3>2. j # i /\ slot'[j] = d /\ buf'[j] = buf[j] /\ slot[j] # None
      BY <1>3, <1>5, <1>6, <3>1, ServerFacts
    <3>3. Buffered(d)' = buf'[j]
      BY <1>8, <3>2, ServerFacts, BufferOfNext
    <3>4. Buffered(slot[j]) = buf[j]
      BY <3>2, ServerFacts, BufferOf
    <3>5. QED
      BY <3>1, <3>2, <3>3, <3>4
  <2>3. CASE d # c /\ ~InSlot(d)
    BY <1>7, <2>3 DEF Buffered
  <2>4. QED
    BY <2>1, <2>2, <2>3
<1>10. \A d \in Clients : (InSlot(d) \/ Waiting(d))' => InSlot(d) \/ Waiting(d)
  BY <1>1, <1>7
<1>11. InputInv'
  BY <1>9, <1>10, SameInput
<1>12. QED
  BY <1>8, <1>11

LEMMA RefuseConnection ==
  ASSUME ServerInv, backlog # <<>>, backlog' = Tail(backlog),
         peer' = [peer EXCEPT ![Head(backlog)] = "reset"],
         UNCHANGED <<slot, buf, run, pipe, sent, told>>
  PROVE  Connections' /\ InputInv'
<1> DEFINE c == Head(backlog)
<1>1. /\ c \in Clients
      /\ \A d \in Clients : Waiting(d)' <=> Waiting(d) /\ d # c
      /\ \A j, k \in 1 .. Len(backlog') : backlog'[j] = backlog'[k] => j = k
  BY FirstWaiting
<1>2. \A d \in Clients : InSlot(d)' = InSlot(d) /\ Buffered(d)' = Buffered(d)
  BY DEF InSlot, Buffered
<1>3. \A d \in Clients : peer'[d] = "away" => peer[d] = "away"
  BY <1>1, ServerFacts DEF TypeOK
<1> HIDE DEF c
<1>4. Connections'
  BY <1>1, <1>2, <1>3, ServerFacts DEF Connections
<1>5. InputInv'
  BY <1>1, <1>2, SameInput
<1>6. QED
  BY <1>4, <1>5

LEMMA StepAccept ==
  ASSUME ServerInv, Accept
  PROVE  ServerInv'
<1>1. /\ gui.pc = "accept" /\ gui' = Loop(Ready, 1, "receive", AtSelect)
      /\ UNCHANGED <<pipe, sent, due, run, told>>
  BY DEF Accept, clientVars
<1>2. gui' \in GuiStates /\ (gui'.pc = "select" \/ (gui'.pc = "receive" /\ gui'.at \in Ready))
  BY <1>1, Onwards
<1>3. \A i \in Slots : Newlines(buf[i]) = {}
  BY <1>1, ServerFacts DEF LinesInv
<1> DEFINE TheseHold ==
      /\ peer' \in [Clients -> {"away", "up", "closed", "reset"}]
      /\ unread' \in [Clients -> 0 .. Room] /\ alive' \in BOOLEAN
      /\ backlog' \in Seq(Clients)
      /\ slot' \in [Slots -> Clients \cup {None}] /\ buf' \in [Slots -> Seq(Nat)]
      /\ \A i \in Slots : Len(buf'[i]) < BufferSize /\ Newlines(buf'[i]) = {}
      /\ \A i \in Occupied : slot'[i] = slot[i]
      /\ Connections' /\ InputInv'
<1>4. ASSUME None \notin gui.ready PROVE TheseHold
  <2>1. UNCHANGED <<backlog, slot, buf, peer, unread, alive>>
    BY <1>4 DEF Accept
  <2>2. Connections' /\ InputInv'
    BY <1>1, <2>1, Elsewhere
  <2>3. QED
    BY <1>3, <2>1, <2>2, ServerFacts DEF TypeOK
<1>5. ASSUME None \in gui.ready PROVE TheseHold
  <2> DEFINE c == Head(backlog)
  <2>1. backlog # <<>> /\ backlog' = Tail(backlog)
    BY <1>1, <1>5, ServerFacts DEF Accept, Control
  <2>2. c \in Clients /\ backlog' \in Seq(Clients)
    BY <2>1, FirstWaiting
  <2> HIDE DEF c
  <2>3. ASSUME NEW i \in Slots \ Occupied, slot' = [slot EXCEPT ![i] = c],
               buf' = [buf EXCEPT ![i] = <<>>], Send(c)
        PROVE  TheseHold
    <3>1. /\ peer' \in [Clients -> {"away", "up", "closed", "reset"}]
          /\ unread' \in [Clients -> 0 .. Room] /\ alive' \in BOOLEAN
          /\ \A d \in Clients : peer'[d] = "away" => peer[d] = "away"
      BY <2>2, <2>3, ServerFacts, Sending
    <3>2. Connections' /\ InputInv'
      BY <1>1, <2>1, <2>3, <3>1, AcceptConnection DEF c
    <3>3. <<>> \in Seq(Nat) /\ Len(<<>>) = 0 /\ Newlines(<<>>) = {} /\ BufferSize > 0
      BY EmptySeq, ServerAssumption DEF Newlines
    <3>4. slot' \in [Slots -> Clients \cup {None}] /\ \A j \in Occupied : slot'[j] = slot[j]
      BY <2>2, <2>3, ServerFacts DEF TypeOK, Occupied
    <3>5. /\ buf \in [Slots -> Seq(Nat)] /\ \A j \in Slots : Len(buf[j]) < BufferSize
      BY ServerFacts DEF TypeOK
    <3>6. \A j \in Slots : buf'[j] = <<>> \/ buf'[j] = buf[j]
      BY <2>3, <3>5
    <3>7. /\ buf' \in [Slots -> Seq(Nat)]
          /\ \A j \in Slots : Len(buf'[j]) < BufferSize /\ Newlines(buf'[j]) = {}
      BY <1>3, <2>3, <3>3, <3>5, <3>6
    <3>8. QED
      BY <2>2, <3>1, <3>2, <3>4, <3>7
  <2>4. ASSUME peer' = [peer EXCEPT ![c] = "reset"], UNCHANGED <<slot, buf, unread, alive>>
        PROVE  TheseHold
    <3>1. Connections' /\ InputInv'
      BY <1>1, <2>1, <2>4, RefuseConnection DEF c
    <3>2. peer' \in [Clients -> {"away", "up", "closed", "reset"}]
      BY <2>2, <2>4, ServerFacts DEF TypeOK
    <3>3. QED
      BY <1>3, <2>2, <2>4, <3>1, <3>2, ServerFacts DEF TypeOK
  <2>5. \/ \E i \in Slots \ Occupied : /\ slot' = [slot EXCEPT ![i] = c]
                                       /\ buf' = [buf EXCEPT ![i] = <<>>]
                                       /\ Send(c)
        \/ peer' = [peer EXCEPT ![c] = "reset"] /\ UNCHANGED <<slot, buf, unread, alive>>
    BY <1>5 DEF Accept, c
  <2>6. QED
    BY <2>3, <2>4, <2>5
<1>6. TheseHold
  BY <1>4, <1>5
<1>7. TypeOK'
  BY <1>1, <1>2, <1>6, ServerFacts DEF TypeOK, GuiStates
<1>8. Control'
  <2>1. gui'.pc = "receive" => slot'[gui'.at] # None
    BY <1>2, <1>6, ServerFacts DEF Occupied
  <2>2. QED
    BY <1>2, <2>1 DEF Control
<1>9. LinesInv'
  BY <1>6 DEF LinesInv, Newlines
<1>10. QED
  BY <1>6, <1>7, <1>8, <1>9 DEF ServerInv
-----------------------------------------------------------------------------
(* The thread: input.                                                        *)

WithBuffer(i, b) == [buf EXCEPT ![i] = b]

(* Only the buffer of slot i changes, and with it what c has there.            *)
LEMMA OneBuffer ==
  ASSUME ServerInv, NEW i \in Slots, NEW c \in Clients, slot[i] = c,
         slot' = slot, peer' = peer, sent' = sent, backlog' = backlog,
         NEW b \in Seq(Nat), buf' = WithBuffer(i, b)
  PROVE  /\ Connections'
         /\ buf[i] \in Seq(Nat) /\ buf'[i] = b /\ \A j \in Slots : j # i => buf'[j] = buf[j]
         /\ Buffered(c) = buf[i] /\ Buffered(c)' = b
         /\ \A d \in Clients : d # c => Buffered(d)' = Buffered(d)
         /\ \A d \in Clients : InSlot(d)' = InSlot(d) /\ Waiting(d)' = Waiting(d)
         /\ InSlot(c)
<1>1. /\ buf[i] \in Seq(Nat) /\ buf'[i] = b /\ \A j \in Slots : j # i => buf'[j] = buf[j]
  BY ServerFacts DEF TypeOK, WithBuffer
<1>2. \A d \in Clients : InSlot(d)' = InSlot(d) /\ Waiting(d)' = Waiting(d)
  BY DEF InSlot, Waiting
<1>3. Connections'
  BY <1>1, <1>2, ServerFacts DEF Connections
<1>4. Buffered(c) = buf[i] /\ InSlot(c)
  BY ServerFacts, BufferOf
<1>5. Buffered(c)' = b
  BY <1>1, <1>3, ServerFacts, BufferOfNext
<1>6. ASSUME NEW d \in Clients, d # c PROVE Buffered(d)' = Buffered(d)
  <2>1. CASE InSlot(d)
    <3>1. PICK j \in Slots : slot[j] = d
      BY <2>1 DEF InSlot
    <3>2. Buffered(d) = buf[j]
      BY <3>1, ServerFacts, BufferOf
    <3>3. slot'[j] = d
      BY <3>1
    <3>4. Buffered(d)' = buf'[j]
      BY <1>3, <3>3, ServerFacts, BufferOfNext
    <3>5. QED
      BY <1>1, <1>6, <3>1, <3>2, <3>4
  <2>2. CASE ~InSlot(d)
    BY <1>2, <2>2 DEF Buffered
  <2>3. QED
    BY <2>1, <2>2
<1>7. QED
  BY <1>1, <1>2, <1>3, <1>4, <1>5, <1>6

LEMMA StepReceive ==
  ASSUME ServerInv, Receive
  PROVE  ServerInv'
<1>1. PICK i \in Slots, c \in Clients : i = gui.at /\ c = slot[i]
  BY ServerFacts DEF Receive, Control, TypeOK
<1>2. PICK n : n = Smaller(Len(pipe[c]), BufferSize - Len(buf[i]))
  OBVIOUS
<1>3. /\ gui.pc = "receive" /\ n > 0
      /\ pipe' = [pipe EXCEPT ![c] = SubSeq(@, n + 1, Len(@))]
      /\ UNCHANGED <<peer, sent, unread, backlog, slot, due, alive, run>>
  BY <1>1, <1>2 DEF Receive
<1>4. /\ pipe[c] \in Seq(Nat) /\ buf[i] \in Seq(Nat) /\ run[c] \in Seq(Nat) /\ sent[c] \in Nat
      /\ Len(pipe[c]) \in Nat /\ Len(buf[i]) \in Nat /\ Len(buf[i]) < BufferSize
  BY <1>1, ServerFacts, LenProperties DEF TypeOK
<1>5. n \in 0 .. Len(pipe[c]) /\ n \in Nat
  BY <1>2, <1>4, ServerAssumption DEF Smaller
<1> DEFINE first == SubSeq(pipe[c], 1, n)
           rest == SubSeq(pipe[c], n + 1, Len(pipe[c]))
<1>6. first \in Seq(Nat) /\ rest \in Seq(Nat) /\ Len(first) = n
  BY <1>4, <1>5, Cut
<1>7. /\ pipe' \in [Clients -> Seq(Nat)] /\ pipe'[c] = rest
      /\ \A d \in Clients : d # c => pipe'[d] = pipe[d]
  BY <1>3, <1>6, ServerFacts DEF TypeOK
<1>8. OrderedTo((run[c] \o buf[i]) \o pipe[c], sent[c])
  <2>1. Buffered(c) = buf[i]
    BY <1>1, ServerFacts, BufferOf
  <2>2. QED
    BY <2>1, ServerFacts DEF InputInv, Input
<1> DEFINE TheseHold ==
      /\ TypeOK' /\ Control' /\ Connections' /\ InputInv' /\ LinesInv'
<1>9. ASSUME TooLong(Len(buf[i]) + n), buf' = [buf EXCEPT ![i] = <<>>],
             told' = told \cup {c}, gui' = Answering(1)
      PROVE  TheseHold
  <2>1. <<>> \in Seq(Nat) /\ Len(<<>>) = 0 /\ Newlines(<<>>) = {}
    BY EmptySeq DEF Newlines
  <2>2. /\ Connections' /\ buf'[i] = <<>> /\ \A j \in Slots : j # i => buf'[j] = buf[j]
        /\ Buffered(c)' = <<>>
        /\ \A d \in Clients : d # c => Buffered(d)' = Buffered(d)
        /\ \A d \in Clients : InSlot(d)' = InSlot(d) /\ Waiting(d)' = Waiting(d)
    <3> DEFINE b == <<>>
    <3>1. b \in Seq(Nat) /\ buf' = WithBuffer(i, b)
      BY <1>9, <2>1 DEF WithBuffer
    <3> HIDE DEF b
    <3>2. /\ Connections' /\ buf'[i] = b /\ \A j \in Slots : j # i => buf'[j] = buf[j]
          /\ Buffered(c)' = b
          /\ \A d \in Clients : d # c => Buffered(d)' = Buffered(d)
          /\ \A d \in Clients : InSlot(d)' = InSlot(d) /\ Waiting(d)' = Waiting(d)
      BY <1>1, <1>3, <3>1, OneBuffer
    <3>3. QED
      BY <3>2 DEF b
  <2>3. gui' \in GuiStates /\ gui'.pc = "reply" /\ gui'.at = i /\ gui'.replies = 1
    <3>1. gui' = [gui EXCEPT !.pc = "reply", !.replies = 1]
      BY <1>9 DEF Answering
    <3>2. 1 \in 0 .. MaxReplies + 1
      BY ServerAssumption
    <3>3. QED
      BY <1>1, <3>1, <3>2, ServerFacts DEF GuiStates
  <2>4. \A j \in Slots : Len(buf'[j]) < BufferSize
    <3>1. Len(buf'[i]) < BufferSize
      BY <2>1, <2>2, ServerAssumption
    <3>2. \A j \in Slots : Len(buf[j]) < BufferSize
      BY ServerFacts DEF TypeOK
    <3>3. QED
      BY <2>2, <3>1, <3>2
  <2>5. buf' \in [Slots -> Seq(Nat)] /\ told' \in SUBSET Clients
    BY <1>9, <2>1, ServerFacts DEF TypeOK
  <2>6. TypeOK'
    BY <1>3, <1>7, <2>3, <2>4, <2>5, ServerFacts DEF TypeOK, GuiStates
  <2>7. Control'
    BY <1>1, <1>3, <2>3, ServerFacts DEF Control
  <2>8. LinesInv'
    <3>1. \A j \in Slots : Newlines(buf[j]) = {}
      BY <1>3, ServerFacts DEF LinesInv
    <3>2. \A j \in Slots : Newlines(buf'[j]) = {}
      BY <2>1, <2>2, <3>1
    <3>3. QED
      BY <3>2 DEF LinesInv, Newlines
  <2>9. InputInv'
    <3>1. ASSUME NEW d \in Clients, d # c PROVE Input(d)' = Input(d)
      BY <1>3, <1>7, <2>2, <3>1 DEF Input
    <3>2. Input(c)' = (run[c] \o <<>>) \o rest
      BY <1>3, <1>7, <2>2 DEF Input
    <3>3. OrderedTo((run[c] \o <<>>) \o rest, sent[c])
      BY <1>4, <1>5, <1>8, Dropped
    <3>4. c \in told' /\ \A d \in Clients : d # c => (d \in told' <=> d \in told)
      BY <1>9
    <3>5. QED
      BY <1>3, <2>2, <3>1, <3>2, <3>3, <3>4, ServerFacts DEF InputInv
  <2>10. QED
    BY <2>2, <2>6, <2>7, <2>8, <2>9
<1>10. ASSUME ~TooLong(Len(buf[i]) + n), buf' = [buf EXCEPT ![i] = buf[i] \o first],
              gui' = [gui EXCEPT !.pc = "lines"], told' = told
       PROVE  TheseHold
  <2>1. buf[i] \o first \in Seq(Nat) /\ Len(buf[i] \o first) = Len(buf[i]) + n
    BY <1>4, <1>6, ConcatProperties
  <2>2. /\ Connections' /\ buf'[i] = buf[i] \o first /\ \A j \in Slots : j # i => buf'[j] = buf[j]
        /\ Buffered(c) = buf[i] /\ Buffered(c)' = buf[i] \o first
        /\ \A d \in Clients : d # c => Buffered(d)' = Buffered(d)
        /\ \A d \in Clients : InSlot(d)' = InSlot(d) /\ Waiting(d)' = Waiting(d)
    <3> DEFINE b == buf[i] \o first
    <3>1. b \in Seq(Nat) /\ buf' = WithBuffer(i, b)
      BY <1>10, <2>1 DEF WithBuffer
    <3> HIDE DEF b
    <3>2. /\ Connections' /\ buf'[i] = b /\ \A j \in Slots : j # i => buf'[j] = buf[j]
          /\ Buffered(c) = buf[i] /\ Buffered(c)' = b
          /\ \A d \in Clients : d # c => Buffered(d)' = Buffered(d)
          /\ \A d \in Clients : InSlot(d)' = InSlot(d) /\ Waiting(d)' = Waiting(d)
      BY <1>1, <1>3, <3>1, OneBuffer
    <3>3. QED
      BY <3>2 DEF b
  <2>3. gui' \in GuiStates /\ gui'.pc = "lines" /\ gui'.at = i
    BY <1>1, <1>10, ServerFacts DEF GuiStates
  <2>4. \A j \in Slots : Len(buf'[j]) < BufferSize
    <3>1. Len(buf[i]) + n < BufferSize
      BY <1>4, <1>5, <1>10, ServerAssumption DEF TooLong
    <3>2. QED
      BY <2>1, <2>2, <3>1, ServerFacts DEF TypeOK
  <2>5. buf' \in [Slots -> Seq(Nat)]
    BY <1>10, <2>1, ServerFacts DEF TypeOK
  <2>6. TypeOK'
    BY <1>3, <1>7, <1>10, <2>3, <2>4, <2>5, ServerFacts DEF TypeOK, GuiStates
  <2>7. Control'
    BY <1>1, <1>3, <2>3, ServerFacts DEF Control
  <2>8. LinesInv'
    <3>1. \A j \in Slots : Newlines(buf[j]) = {}
      BY <1>3, ServerFacts DEF LinesInv
    <3>2. \A j \in Slots : j # i => Newlines(buf'[j]) = {}
      BY <2>2, <3>1
    <3>3. QED
      BY <2>3, <3>2 DEF LinesInv, Newlines
  <2>9. InputInv'
    <3>1. ASSUME NEW d \in Clients, d # c PROVE Input(d)' = Input(d)
      BY <1>3, <1>7, <2>2, <3>1 DEF Input
    <3>2. Input(c)' = Input(c)
      <4>1. Input(c)' = (run[c] \o (buf[i] \o first)) \o rest
        BY <1>3, <1>7, <2>2 DEF Input
      <4>2. Input(c) = (run[c] \o buf[i]) \o pipe[c]
        BY <2>2 DEF Input
      <4>3. QED
        BY ZenonT(30), <1>4, <1>5, <4>1, <4>2, MovedToBuffer
    <3>3. QED
      BY <1>3, <1>10, <2>2, <3>1, <3>2, ServerFacts DEF InputInv
  <2>10. QED
    BY <2>2, <2>6, <2>7, <2>8, <2>9
<1>11. \/ /\ TooLong(Len(buf[i]) + n) /\ buf' = [buf EXCEPT ![i] = <<>>]
          /\ told' = told \cup {c} /\ gui' = Answering(1)
       \/ /\ ~TooLong(Len(buf[i]) + n) /\ buf' = [buf EXCEPT ![i] = buf[i] \o first]
          /\ gui' = [gui EXCEPT !.pc = "lines"] /\ told' = told
  <2>1. i = gui.at /\ c = slot[gui.at] /\ n = Smaller(Len(pipe[c]), BufferSize - Len(buf[gui.at]))
    BY <1>1, <1>2
  <2>2. buf \in [Slots -> Seq(Nat)]
    BY ServerFacts DEF TypeOK
  <2>3. QED
    BY <2>1, <2>2 DEF Receive
<1>12. TheseHold
  BY <1>9, <1>10, <1>11
<1>13. QED
  BY <1>12 DEF ServerInv
LEMMA StepCloseClient ==
  ASSUME ServerInv, CloseClient
  PROVE  ServerInv'
<1>1. PICK i \in Slots, c \in Clients : i = gui.at /\ c = slot[i]
  BY ServerFacts DEF CloseClient, Control, TypeOK
<1>2. /\ gui.pc = "receive" /\ slot' = [slot EXCEPT ![i] = None] /\ buf' = [buf EXCEPT ![i] = <<>>]
      /\ gui' = Loop(Ready, gui.at + 1, "receive", AtSelect)
      /\ UNCHANGED <<peer, pipe, sent, unread, backlog, due, alive, run, told>>
  BY <1>1 DEF CloseClient, NextReady, clientVars
<1>3. /\ \A j \in Slots : slot'[j] = IF j = i THEN None ELSE slot[j]
      /\ \A j \in Slots : buf'[j] = IF j = i THEN <<>> ELSE buf[j]
      /\ slot' \in [Slots -> Clients \cup {None}] /\ buf' \in [Slots -> Seq(Nat)]
  BY <1>2, EmptySeq, ServerFacts DEF TypeOK
<1>4. <<>> \in Seq(Nat) /\ Len(<<>>) = 0 /\ Newlines(<<>>) = {} /\ BufferSize > 0
  BY EmptySeq, ServerAssumption DEF Newlines
<1>5. /\ gui' \in GuiStates
      /\ \/ gui'.pc = "select"
         \/ gui'.pc = "receive" /\ gui'.at \in Ready /\ gui'.at >= gui.at + 1
  <2>1. gui.at + 1 \in Nat
    BY ServerFacts
  <2>2. QED
    BY <1>2, <2>1, Onwards
<1>6. \A j \in Slots : slot[j] = c => j = i
  BY <1>1, ServerFacts DEF Connections
<1>7. /\ ~InSlot(c)' /\ ~Waiting(c)
      /\ \A d \in Clients : d # c => InSlot(d)' = InSlot(d)
      /\ \A d \in Clients : Waiting(d)' = Waiting(d)
  <2>1. ~InSlot(c)'
    BY <1>3, <1>6, ServerFacts DEF InSlot
  <2>2. ~Waiting(c)
    BY <1>1, ServerFacts, BufferOf
  <2>3. ASSUME NEW d \in Clients, d # c PROVE InSlot(d)' = InSlot(d)
    <3>1. \A j \in Slots : slot'[j] = d <=> slot[j] = d
      BY <1>1, <1>3, <2>3, ServerFacts
    <3>2. QED
      BY <3>1 DEF InSlot
  <2>4. QED
    BY <1>2, <2>1, <2>2, <2>3 DEF Waiting
<1>8. TypeOK'
  <2>1. \A j \in Slots : Len(buf'[j]) < BufferSize
    BY <1>3, <1>4, ServerFacts DEF TypeOK
  <2>2. QED
    BY <1>2, <1>3, <1>5, <2>1, ServerFacts DEF TypeOK, GuiStates
<1>9. Control'
  <2>1. gui'.pc = "receive" => slot'[gui'.at] # None
    <3>1. SUFFICES ASSUME gui'.pc = "receive" PROVE slot'[gui'.at] # None
      OBVIOUS
    <3>2. PICK j \in Ready : gui'.at = j /\ j >= i + 1
      BY <1>1, <1>5, <3>1
    <3>3. j # i
      BY <3>2, FirstSlot
    <3>4. QED
      BY <1>3, <3>2, <3>3, ServerFacts DEF Occupied
  <2>2. QED
    BY <1>5, <2>1 DEF Control
<1>10. Connections'
  BY <1>2, <1>3, <1>7, ServerFacts DEF Connections
<1>11. InputInv'
  <2>1. ASSUME NEW d \in Clients, d # c PROVE Input(d)' = Input(d)
    <3>1. Buffered(d)' = Buffered(d)
      <4>1. CASE InSlot(d)
        <5>1. PICK j \in Slots : slot[j] = d
          BY <4>1 DEF InSlot
        <5>2. j # i /\ slot'[j] = d /\ buf'[j] = buf[j] /\ slot[j] # None
          BY <1>1, <1>3, <2>1, <5>1, ServerFacts
        <5>3. Buffered(d) = buf[j]
          BY <5>1, <5>2, ServerFacts, BufferOf
        <5>4. Buffered(d)' = buf'[j]
          BY <1>10, <5>2, ServerFacts, BufferOfNext
        <5>5. QED
          BY <5>2, <5>3, <5>4
      <4>2. CASE ~InSlot(d)
        BY <1>7, <2>1, <4>2 DEF Buffered
      <4>3. QED
        BY <4>1, <4>2
    <3>2. QED
      BY <1>2, <3>1 DEF Input
  <2>2. OrderedTo(Input(c)', sent[c])
    <3>1. Buffered(c)' = <<>>
      BY <1>7 DEF Buffered
    <3>2. Input(c)' = (run[c] \o <<>>) \o pipe[c]
      BY <1>2, <3>1 DEF Input
    <3>3. run[c] \in Seq(Nat) /\ Buffered(c) \in Seq(Nat) /\ pipe[c] \in Seq(Nat) /\ sent[c] \in Nat
      BY ServerFacts, BufferedTypes
    <3>4. OrderedTo((run[c] \o Buffered(c)) \o pipe[c], sent[c])
      BY ServerFacts DEF InputInv, Input
    <3>5. 0 \in 0 .. Len(pipe[c])
      BY <3>3, LenProperties
    <3>6. OrderedTo((run[c] \o <<>>) \o SubSeq(pipe[c], 0 + 1, Len(pipe[c])), sent[c])
      BY <3>3, <3>4, <3>5, Dropped
    <3>7. SubSeq(pipe[c], 0 + 1, Len(pipe[c])) = pipe[c]
      BY <3>3, SubSeqFull
    <3>8. QED
      BY <3>2, <3>6, <3>7
  <2>3. QED
    BY <1>2, <1>7, <2>1, <2>2, ServerFacts DEF InputInv
<1>12. LinesInv'
  <2>1. \A j \in Slots : Newlines(buf'[j]) = {}
    BY <1>2, <1>3, <1>4, ServerFacts DEF LinesInv
  <2>2. QED
    BY <2>1 DEF LinesInv, Newlines
<1>13. QED
  BY <1>8, <1>9, <1>10, <1>11, <1>12 DEF ServerInv

LEMMA StepRunLine ==
  ASSUME ServerInv, RunLine
  PROVE  ServerInv'
<1>1. PICK i \in Slots, c \in Clients : i = gui.at /\ c = slot[i]
  BY ServerFacts DEF RunLine, Control, TypeOK
<1>2. PICK k \in Newlines(buf[i]), n \in 0 .. MaxReplies :
        /\ run' = [run EXCEPT ![c] = @ \o SubSeq(buf[i], 1, k)]
        /\ buf' = [buf EXCEPT ![i] = Rest(@, k)]
        /\ gui' = Answering(n)
  BY <1>1 DEF RunLine
<1>3. gui.pc = "lines" /\ UNCHANGED <<peer, pipe, sent, unread, backlog, slot, due, alive, told>>
  BY DEF RunLine, clientVars
<1>4. /\ pipe[c] \in Seq(Nat) /\ buf[i] \in Seq(Nat) /\ run[c] \in Seq(Nat)
      /\ Len(buf[i]) \in Nat /\ Len(buf[i]) < BufferSize
  BY <1>1, ServerFacts, LenProperties DEF TypeOK
<1>5. k \in 0 .. Len(buf[i]) /\ k \in Nat
  BY <1>4 DEF Newlines
<1> DEFINE line == SubSeq(buf[i], 1, k)
           rest == SubSeq(buf[i], k + 1, Len(buf[i]))
<1>6. line \in Seq(Nat) /\ rest \in Seq(Nat) /\ Len(rest) = Len(buf[i]) - k
  BY <1>4, <1>5, Cut
<1>7. run[c] \o line \in Seq(Nat)
  BY <1>4, <1>6, ConcatProperties
<1>8. /\ run' \in [Clients -> Seq(Nat)] /\ run'[c] = run[c] \o line
      /\ \A d \in Clients : d # c => run'[d] = run[d]
  BY <1>2, <1>7, ServerFacts DEF TypeOK
<1>9. /\ Connections' /\ buf'[i] = rest /\ \A j \in Slots : j # i => buf'[j] = buf[j]
      /\ Buffered(c) = buf[i] /\ Buffered(c)' = rest
      /\ \A d \in Clients : d # c => Buffered(d)' = Buffered(d)
      /\ \A d \in Clients : InSlot(d)' = InSlot(d) /\ Waiting(d)' = Waiting(d)
  <2>1. rest \in Seq(Nat) /\ buf' = WithBuffer(i, rest)
    BY <1>2, <1>6, ServerFacts DEF Rest, WithBuffer, TypeOK
  <2> HIDE DEF rest
  <2>2. QED
    BY <1>1, <1>3, <2>1, OneBuffer
<1>10. /\ gui' \in GuiStates /\ gui'.pc \in {"lines", "reply"} /\ gui'.at = i
       /\ gui'.pc = "reply" => gui'.replies > 0
  <2>1. n \in 0 .. MaxReplies + 1
    BY ServerAssumption
  <2>2. QED
    BY <1>1, <1>2, <2>1, ServerFacts DEF Answering, GuiStates
<1>11. TypeOK'
  <2>1. buf' \in [Slots -> Seq(Nat)]
    BY <1>2, <1>6, ServerFacts DEF TypeOK, Rest
  <2>2. Len(rest) < BufferSize
    BY <1>4, <1>5, <1>6, ServerAssumption
  <2>3. \A j \in Slots : Len(buf'[j]) < BufferSize
    BY <1>9, <2>2, ServerFacts DEF TypeOK
  <2>4. QED
    BY <1>3, <1>8, <1>10, <2>1, <2>3, ServerFacts DEF TypeOK, GuiStates
<1>12. Control'
  BY <1>1, <1>3, <1>10, ServerFacts DEF Control
<1>13. LinesInv'
  <2>1. \A j \in Slots : j # i => Newlines(buf'[j]) = {}
    BY <1>1, <1>9, ServerFacts DEF LinesInv
  <2>2. QED
    BY <1>10, <2>1 DEF LinesInv, Newlines
<1>14. InputInv'
  <2>1. ASSUME NEW d \in Clients, d # c PROVE Input(d)' = Input(d)
    BY <1>3, <1>8, <1>9, <2>1 DEF Input
  <2>2. Input(c)' = Input(c)
    <3>1. Input(c)' = ((run[c] \o line) \o rest) \o pipe[c]
      BY <1>3, <1>8, <1>9 DEF Input
    <3>2. Input(c) = (run[c] \o buf[i]) \o pipe[c]
      BY <1>9 DEF Input
    <3>3. (run[c] \o line) \o rest = run[c] \o buf[i]
      BY <1>4, <1>5, MovedToRun
    <3>4. QED
      BY <3>1, <3>2, <3>3
  <2>3. QED
    BY <1>3, <1>9, <2>1, <2>2, ServerFacts DEF InputInv
<1>15. QED
  BY <1>9, <1>11, <1>12, <1>13, <1>14 DEF ServerInv
-----------------------------------------------------------------------------
(* The theorems.                                                             *)

LEMMA ServerStep ==
  ASSUME ServerInv, [Next]_vars
  PROVE  ServerInv'
<1>1. CASE UNCHANGED vars
  <2>1. /\ UNCHANGED <<peer, pipe, sent, unread, backlog, slot, buf, gui, due, alive, run, told>>
    BY <1>1 DEF vars
  <2>2. TypeOK' /\ Control' /\ LinesInv'
    BY <2>1, ServerFacts DEF TypeOK, Control, LinesInv, Newlines
  <2>3. Connections' /\ InputInv'
    BY <2>1, Elsewhere
  <2>4. QED
    BY <2>2, <2>3 DEF ServerInv
<1>2. CASE GuiThread
  BY <1>2, StepSelect, StepBroadcast, StepAccept, StepReceive, StepCloseClient, StepRunLine,
     StepNoMoreLines, StepReply DEF GuiThread
<1>3. ASSUME NEW c \in Clients, Client(c) PROVE ServerInv'
  BY <1>3, StepConnect, StepSendChar, StepOutside DEF Client
<1>4. CASE SecondPasses
  BY <1>4, StepOutside
<1>5. QED
  BY <1>1, <1>2, <1>3, <1>4 DEF Next

(* Every variable keeps its type; a buffer that is not being filled has room    *)
(* for one more character, so that recv() is never asked for none.             *)
THEOREM TypeCorrect == Spec => []TypeOK
<1>1. Init => ServerInv
  BY Initially
<1>2. ServerInv /\ [Next]_vars => ServerInv'
  BY ServerStep
<1>3. ServerInv => TypeOK
  BY DEF ServerInv
<1>4. QED
  BY <1>1, <1>2, <1>3, PTL DEF Spec

LEMMA InvInOrder ==
  ASSUME ServerInv
  PROVE  InOrder
<1> SUFFICES ASSUME NEW c \in Clients
             PROVE  /\ Ascending(Input(c))
                    /\ (InSlot(c) \/ Waiting(c)) /\ c \notin told
                         => Input(c) = [k \in 1 .. sent[c] |-> k]
                    /\ gui.pc = "select" => Newlines(Buffered(c)) = {}
  BY DEF InOrder, Input
<1>1. Ascending(Input(c))
  BY ServerFacts DEF InputInv, OrderedTo
<1>2. (InSlot(c) \/ Waiting(c)) /\ c \notin told => Input(c) = FirstOf(sent[c])
  BY ServerFacts DEF InputInv
<1>3. ASSUME gui.pc = "select" PROVE Newlines(Buffered(c)) = {}
  <2>1. CASE InSlot(c)
    <3>1. PICK i \in Slots : slot[i] = c
      BY <2>1 DEF InSlot
    <3>2. Buffered(c) = buf[i]
      BY <3>1, ServerFacts, BufferOf
    <3>3. QED
      BY <1>3, <3>2, ServerFacts DEF LinesInv
  <2>2. CASE ~InSlot(c)
    BY <2>2, EmptySeq DEF Buffered, Newlines
  <2>3. QED
    BY <2>1, <2>2
<1>4. QED
  BY <1>1, <1>2, <1>3 DEF FirstOf

(* What is run for a client, what its slot buffers and what is on its way are   *)
(* its own input in order and once, all of it while it is served and has not     *)
(* been told "Input too long" (gui_backend_thread, gui_backend_process_buffer).  *)
THEOREM InputKeptInOrder == Spec => []InOrder
<1>1. Init => ServerInv
  BY Initially
<1>2. ServerInv /\ [Next]_vars => ServerInv'
  BY ServerStep
<1>3. ServerInv => InOrder
  BY InvInOrder
<1>4. QED
  BY <1>1, <1>2, <1>3, PTL DEF Spec
=============================================================================
