--------------------------- MODULE OrderedChannel ---------------------------
(***************************************************************************)
(* What RDP promises one direction of a connection: messages are numbered    *)
(* as they are accepted from the sender, and passed in that order, each once,  *)
(* to a queue of the receiver's, which it reads in order.  A message passed    *)
(* while the queue is full is lost; the first of those that are passed          *)
(* together always finds room.  It promises this while the sender's             *)
(* connections can be told apart, and nothing from then on.                   *)
(***************************************************************************)
EXTENDS Integers, Sequences

CONSTANT Room    \* what the receiver's queue holds

VARIABLES
  accepted,   \* how many messages have been accepted
  passed,     \* how many of them have been passed
  queue,      \* messages waiting for the receiver
  read,       \* history: messages read
  apart       \* whether the connections so far can be told apart

chanVars == <<accepted, passed, queue, read, apart>>

Init == accepted = 0 /\ passed = 0 /\ queue = <<>> /\ read = <<>> /\ apart \in BOOLEAN

Accept ==
  /\ accepted' = accepted + 1
  /\ UNCHANGED <<passed, queue, read>>

(* n messages are passed, and the first k of them find room.                 *)
PassTogether(n, k) ==
  /\ passed + n <= accepted
  /\ k \in 1 .. n
  /\ k < n => Len(queue) + k = Room
  /\ Len(queue) + k <= Room
  /\ passed' = passed + n
  /\ queue' = queue \o [i \in 1 .. k |-> passed + i]
  /\ UNCHANGED <<accepted, read>>

Pass == \E n \in 1 .. accepted - passed : \E k \in 1 .. n : PassTogether(n, k)

Read ==
  /\ queue # <<>>
  /\ read' = Append(read, Head(queue))
  /\ queue' = Tail(queue)
  /\ UNCHANGED <<accepted, passed>>

(* The receiver's end is closed: what is in the queue is lost.               *)
Stop ==
  /\ queue' = <<>>
  /\ UNCHANGED <<accepted, passed, read>>

(* The receiver begins a new connection, in which messages may have been       *)
(* accepted already.                                                         *)
NewConnection ==
  /\ accepted' \in Nat
  /\ passed' = 0 /\ queue' = <<>> /\ read' = <<>>

Promised == Accept \/ Pass \/ Read \/ Stop \/ NewConnection

(* Once a connection cannot be told from an earlier one, anything goes.        *)
Next ==
  \/ Promised /\ apart /\ apart'
  \/ ~apart'

Spec == Init /\ [][Next]_chanVars

-----------------------------------------------------------------------------
(* What has been read and what waits are in order, each once, and passed.     *)
InOrder ==
  apart => LET all == read \o queue IN
    /\ \A j, k \in 1 .. Len(all) : j < k => all[j] < all[k]
    /\ \A k \in 1 .. Len(all) : all[k] \in 1 .. passed
=============================================================================
