------------------------------- MODULE CspConn -------------------------------
(***************************************************************************)
(* The connection table of libcsp (lib/libcsp/src/csp_conn.c) and its use   *)
(* of the buffer pool (csp_buffer.c), as operators on the values of the     *)
(* table: `state' and `idin' are the fields of arr_conn[i], `rx' the packet *)
(* queue of each slot, `free' the queue csp_buffers of free buffers.        *)
(*                                                                         *)
(* A connection identifier (idin under CSP_ID_CONN_MASK) is one value, a    *)
(* "flow".  The four priority queues of a slot are one queue: priorities    *)
(* only reorder it.                                                        *)
(***************************************************************************)
EXTENDS Integers, Sequences, FiniteSets, Functions

CONSTANTS
  ConnMax,     \* CSP_CONN_MAX
  Buffers,     \* the packet buffers csp_buffer_init cut the pool into
  Flows,       \* identifiers of connections other nodes open to this station
  EphFlows,    \* identifiers csp_connect makes, one per ephemeral port
  NoFlow,      \* the identifier of a slot never used (zeroed memory)
  NoBuf        \* NULL

ASSUME TableAssumption ==
  /\ ConnMax \in Nat /\ ConnMax >= 3
  /\ Flows \cap EphFlows = {}
  /\ NoFlow \notin Flows \cup EphFlows
  /\ NoBuf \notin Buffers

Slots == 0 .. (ConnMax - 1)
AllFlows == Flows \cup EphFlows
NoSlot == ConnMax

(* task_server makes the first csp_conn_allocate of the program; the search *)
(* starts after csp_conn_last_given = 0, so its listening socket is slot 1, *)
(* the only slot of type CONN_SERVER, and it is never closed.               *)
ServerSlot == 1
ClientSlots == Slots \ {ServerSlot}

-----------------------------------------------------------------------------
(* csp_conn_find: the lowest open client slot with this identifier.         *)
Matches(state, idin, id) ==
  {c \in ClientSlots : state[c] = "open" /\ idin[c] = id}

IsFound(state, idin, id, c) ==
  c \in Matches(state, idin, id) /\ \A d \in Matches(state, idin, id) : c <= d

(* csp_conn_allocate: the first closed slot in round-robin order after the  *)
(* one given last.                                                          *)
Distance(last, c) == (c - last - 1) % ConnMax

Closed(state) == {c \in Slots : state[c] = "closed"}

IsNextFree(state, last, c) ==
  c \in Closed(state) /\ \A d \in Closed(state) : Distance(last, c) <= Distance(last, d)

(* csp_close and csp_conn_new flush the packets a slot still holds back to  *)
(* the pool.                                                                *)
AfterFlush(free, rx, c) == free \cup Range(rx[c])

=============================================================================
