------------------------------ MODULE EventLog ------------------------------
(***************************************************************************)
(* What the GUI backend promises of its event history: a log that keeps the *)
(* newest MaxEvents entries, and GET_EVENTS n, which answers with the       *)
(* newest n of them.  gui_backend_push_event and gui_backend_handle_        *)
(* get_events implement it with a ring (module GuiEvents).                  *)
(***************************************************************************)
EXTENDS Integers, Sequences

CONSTANTS
  Entry,       \* what an entry can be
  MaxEvents    \* GUI_BACKEND_MAX_EVENTS

VARIABLES
  log,     \* the entries kept, oldest first
  reply    \* the answer to the last GET_EVENTS

vars == <<log, reply>>

Newest(s, n) == IF n < Len(s) THEN SubSeq(s, Len(s) - n + 1, Len(s)) ELSE s

Init == log = <<>> /\ reply = <<>>

Push(e) ==
  /\ log' = Append(IF Len(log) < MaxEvents THEN log ELSE Tail(log), e)
  /\ UNCHANGED reply

GetEvents(n) ==
  /\ reply' = Newest(log, n)
  /\ UNCHANGED log

Next == \/ \E e \in Entry : Push(e)
        \/ \E n \in 1 .. MaxEvents : GetEvents(n)

Spec == Init /\ [][Next]_vars

=============================================================================
