------------------------------ MODULE GuiEvents ------------------------------
(***************************************************************************)
(* The state the GUI backend caches (gui_state in gui_backend.c) and its    *)
(* ring of events, as the threads of the program change them.  A notify or  *)
(* set function changes its part of the cache under gui_state.lock, lets it *)
(* go, takes the time, and pushes an event under the lock again: three      *)
(* steps, between which other threads run.  The GUI thread alone executes   *)
(* the commands of the clients; uplinks also come from tcp_server and from  *)
(* the console, rotator commands also from the console.                     *)
(***************************************************************************)
EXTENDS Integers, Sequences, Functions

CONSTANTS
  MaxEvents,   \* GUI_BACKEND_MAX_EVENTS
  Threads,     \* the threads that report to the backend
  GuiThread,   \* the one that runs gui_backend_thread
  Uplinks,     \* what LAST_UPLINK can describe: origin, file, bytes, success
  Positions,   \* azimuth, elevation and success of a rotator command
  Bands,       \* "tx" and "rx"
  Freqs,       \* frequencies a client can ask for: longs the radio accepts
  Ints,        \* what the cache can hold of them
  AsInt,       \* (int)value: two frequencies may become one, when too large
  Sats,        \* satellite numbers SET_SAT takes
  Modes,       \* gui_backend_mode_t; what is no other mode's name is IDLE
  None,        \* a part of the cache nothing has been reported of
  MaxClock     \* bound of the model: readings of the clock

Stops == {"CLEARED", "ENGAGED"}

ASSUME GuiAssumption ==
  /\ MaxEvents \in Nat \ {0}
  /\ GuiThread \in Threads
  /\ "IDLE" \in Modes
  /\ Bands \subseteq {"tx", "rx"}
  /\ AsInt \in [Freqs -> Ints]
  /\ MaxClock \in Nat

Tracked == {"uplink", "rotator"} \cup Bands
Kinds == Tracked \cup {"mode", "emergency", "satellite"}
Values == Uplinks \cup Positions \cup Freqs \cup Sats \cup Modes \cup Stops \cup {None}
ValuesOf == [k \in Kinds |-> CASE k = "uplink" -> Uplinks [] k = "rotator" -> Positions
                               [] k \in Bands -> Freqs [] k = "satellite" -> Sats
                               [] k = "mode" -> Modes
                               [] k = "emergency" -> Stops]
Entry == {e \in [kind : Kinds, val : Values, stamp : 0 .. MaxClock] :
            e.val \in ValuesOf[e.kind]}
Indices == 0 .. (MaxEvents - 1)

VARIABLES
  events,   \* gui_state.events
  start,    \* gui_state.start
  count,    \* gui_state.count
  cache,    \* last_uplink_*, antenna, station_mode, emergency_stop_engaged, rf
  job,      \* per thread: the event it is on its way to push
  clock,    \* CLOCK_REALTIME, advancing at every reading
  reply,    \* the answer to the last GET_EVENTS
  writer,   \* history: the thread that last stored a tracked part of the cache
  age       \* history: 0 until that thread has pushed its event, and then how
            \* many events were pushed from that one on, up to MaxEvents + 1

vars == <<events, start, count, cache, job, clock, reply, writer, age>>

historyVars == <<writer, age>>

NoJob == [step |-> "none"]
ToStamp(k, v) == [step |-> "stamp", kind |-> k, val |-> v]
ToPush(k, v, t) == [step |-> "push", entry |-> [kind |-> k, val |-> v, stamp |-> t]]

Jobs == {NoJob} \cup [step : {"stamp"}, kind : Kinds, val : Values]
                \cup [step : {"push"}, entry : Entry]

NoEntry == [kind |-> "mode", val |-> "IDLE", stamp |-> 0]
Initial == [k \in Kinds |-> CASE k = "mode" -> "IDLE" [] k = "emergency" -> "CLEARED"
                              [] OTHER -> None]

(* gui_state is zeroed static memory: mode IDLE, no emergency stop.         *)
Init ==
  /\ events = [i \in Indices |-> NoEntry]
  /\ start = 0
  /\ count = 0
  /\ cache = Initial
  /\ job = [t \in Threads |-> NoJob]
  /\ clock = 0
  /\ reply = <<>>
  /\ writer = [k \in Tracked |-> GuiThread]
  /\ age = [k \in Tracked |-> 0]

-----------------------------------------------------------------------------
(* The functions that report something: the first critical section.         *)

(* The tracked part k of the cache becomes c.                               *)
Store(t, k, c) ==
  /\ cache' = [cache EXCEPT ![k] = c]
  /\ writer' = [writer EXCEPT ![k] = t]
  /\ age' = [age EXCEPT ![k] = 0]

(* ... and the event to be pushed says v.                                   *)
Report(t, k, c, v) ==
  /\ job[t] = NoJob
  /\ Store(t, k, c)
  /\ job' = [job EXCEPT ![t] = ToStamp(k, v)]
  /\ UNCHANGED <<events, start, count, clock, reply>>

(* As a mistake would have it: the event is forgotten.                      *)
NotifyUplinkSilently(t, u) ==
  /\ job[t] = NoJob
  /\ Store(t, "uplink", u)
  /\ UNCHANGED <<events, start, count, job, clock, reply>>

(* gui_backend_notify_uplink                                                *)
NotifyUplink(t, u) == Report(t, "uplink", u, u)

(* gui_backend_notify_rotator                                               *)
NotifyRotator(t, p) == Report(t, "rotator", p, p)

(* gui_backend_handle_set_freq, once the radio has accepted the frequency:    *)
(* the cache holds an int of it, the event the text the client typed.       *)
SetFreq(band, f) == Report(GuiThread, band, AsInt[f], f)

(* gui_backend_handle_set_sat, once mcs_sat_sel has succeeded: the selection *)
(* is no part of gui_state, the event is all the backend keeps of it.       *)
SetSat(s) ==
  /\ job[GuiThread] = NoJob
  /\ job' = [job EXCEPT ![GuiThread] = ToStamp("satellite", s)]
  /\ UNCHANGED <<events, start, count, cache, clock, reply, historyVars>>

(* As a mistake would have it: the old value is read after the new one has  *)
(* been stored.                                                             *)
SetAndForget(k, v) ==
  /\ job[GuiThread] = NoJob
  /\ cache' = [cache EXCEPT ![k] = v]
  /\ job' = [job EXCEPT ![GuiThread] = IF cache'[k] # v THEN ToStamp(k, v) ELSE NoJob]
  /\ UNCHANGED <<events, start, count, clock, reply, historyVars>>

(* gui_backend_set_mode and gui_backend_set_emergency_stop report a change, *)
(* not a value set again.                                                   *)
SetIfChanged(k, v) ==
  /\ job[GuiThread] = NoJob
  /\ cache' = [cache EXCEPT ![k] = v]
  /\ job' = [job EXCEPT ![GuiThread] = IF cache[k] # v THEN ToStamp(k, v) ELSE NoJob]
  /\ UNCHANGED <<events, start, count, clock, reply, historyVars>>

SetMode(m) == SetIfChanged("mode", m)

SetEmergencyStop(b) == SetIfChanged("emergency", b)

-----------------------------------------------------------------------------
(* gui_backend_push_event.                                                  *)

(* It takes the time before it takes the lock ...                           *)
Stamp(t) ==
  /\ job[t].step = "stamp"
  /\ clock < MaxClock
  /\ clock' = clock + 1
  /\ job' = [job EXCEPT ![t] = ToPush(@.kind, @.val, clock')]
  /\ UNCHANGED <<events, start, count, cache, reply, historyVars>>

(* The history variables after thread t has pushed its event.               *)
Aged(t) ==
  /\ age' = [k \in Tracked |-> CASE age[k] = 0 -> IF writer[k] = t THEN 1 ELSE 0
                                 [] age[k] \in 1 .. MaxEvents -> age[k] + 1
                                 [] OTHER -> age[k]]
  /\ UNCHANGED writer

(* As a mistake would have it: a full ring overwrites its oldest entry and  *)
(* leaves start where it is.                                                *)
PushKeepingStart(t) ==
  /\ job[t].step = "push"
  /\ events' = [events EXCEPT ![(start + count) % MaxEvents] = job[t].entry]
  /\ count' = IF count < MaxEvents THEN count + 1 ELSE count
  /\ job' = [job EXCEPT ![t] = NoJob]
  /\ Aged(t)
  /\ UNCHANGED <<start, cache, clock, reply>>

(* As a mistake would have it: the count goes on when the ring is full.     *)
PushCountingOn(t) ==
  /\ job[t].step = "push"
  /\ events' = [events EXCEPT ![(start + count) % MaxEvents] = job[t].entry]
  /\ count' = count + 1
  /\ job' = [job EXCEPT ![t] = NoJob]
  /\ Aged(t)
  /\ UNCHANGED <<start, cache, clock, reply>>

(* ... and then stores the entry behind the newest one, over the oldest one *)
(* when the ring is full.                                                   *)
PushEvent(t) ==
  /\ job[t].step = "push"
  /\ events' = [events EXCEPT ![(start + count) % MaxEvents] = job[t].entry]
  /\ IF count < MaxEvents
       THEN count' = count + 1 /\ UNCHANGED start
       ELSE start' = (start + 1) % MaxEvents /\ UNCHANGED count
  /\ job' = [job EXCEPT ![t] = NoJob]
  /\ Aged(t)
  /\ UNCHANGED <<cache, clock, reply>>

(* gui_backend_handle_get_events with a valid limit, or MaxEvents for none. *)
GetEvents(limit) ==
  LET total == IF limit < count THEN limit ELSE count IN
  /\ job[GuiThread] = NoJob
  /\ reply' = [i \in 1 .. total |-> events[(start + count - total + i - 1) % MaxEvents]]
  /\ UNCHANGED <<events, start, count, cache, job, clock, historyVars>>

-----------------------------------------------------------------------------
Next ==
  \/ \E t \in Threads :
       \/ \E u \in Uplinks : NotifyUplink(t, u)
       \/ \E p \in Positions : NotifyRotator(t, p)
       \/ Stamp(t)
       \/ PushEvent(t)
  \/ \E band \in Bands, f \in Freqs : SetFreq(band, f)
  \/ \E s \in Sats : SetSat(s)
  \/ \E m \in Modes : SetMode(m)
  \/ \E b \in Stops : SetEmergencyStop(b)
  \/ \E limit \in 1 .. MaxEvents : GetEvents(limit)

Spec == Init /\ [][Next]_vars

-----------------------------------------------------------------------------
(* The entries of the ring, oldest first.                                   *)
RingEntries == [i \in 1 .. count |-> events[(start + i - 1) % MaxEvents]]

Log == INSTANCE EventLog WITH log <- RingEntries

(***************************************************************************)
(* Properties.                                                             *)
(***************************************************************************)

(* The values of the variables; start and count stay within the ring.       *)
TypeOK ==
  /\ events \in [Indices -> Entry]
  /\ start \in Indices
  /\ count \in 0 .. MaxEvents
  /\ cache \in [Kinds -> Values \cup Ints]
  /\ job \in [Threads -> Jobs]
  /\ clock \in 0 .. MaxClock
  /\ reply \in Seq(Entry)
  /\ writer \in [Tracked -> Threads]
  /\ age \in [Tracked -> 0 .. MaxEvents + 1]

(* The ring of gui_backend_push_event, and the index arithmetic with which  *)
(* gui_backend_handle_get_events reads it, are a log that forgets its       *)
(* oldest entry when it is full and answers with the newest ones, the oldest *)
(* of them first: as in the sample of gui_backend_user_guide.md:186-193, and  *)
(* not as line 182 has it ("from newest to oldest").                        *)
ImplementsLog == Log!Spec

(* What the log says of a part of the cache: the newest entry about it, or  *)
(* the initial value when there never was one.                              *)
Told(k) == {RingEntries[i].val : i \in
              {i \in 1 .. count : /\ RingEntries[i].kind = k
                                  /\ \A j \in (i + 1) .. count : RingEntries[j].kind # k}}

(* Whenever the GUI thread is between commands, the history tells the mode  *)
(* and the emergency stop that are in force, although events come after the *)
(* change and between other threads' events, and only for changes           *)
(* (gui_backend_set_mode, gui_backend_set_emergency_stop): an operator who  *)
(* reads GET_EVENTS is not misled.                                          *)
AuditTrail ==
  job[GuiThread] = NoJob =>
    \A k \in {"mode", "emergency"} :
      \/ cache[k] \in Told(k)
      \/ Told(k) = {} /\ (cache[k] = Initial[k] \/ count = MaxEvents)

(* An event of kind k with the value v says that this part of the cache is c. *)
Says(k, v, c) == IF k \in Bands THEN v \in Freqs /\ AsInt[v] = c ELSE v = c

(* Thread t is on its way to push such an event.                            *)
Underway(t, k, c) ==
  \/ job[t].step = "stamp" /\ job[t].kind = k /\ Says(k, job[t].val, c)
  \/ /\ job[t].step = "push"
     /\ job[t].entry.kind = k
     /\ Says(k, job[t].entry.val, c)

(* Nothing gets lost between the cache and the history: the event that says  *)
(* what LAST_UPLINK, the antenna and the radio section describe is still on   *)
(* its way, by the thread that stored it, or it is in the ring, where it       *)
(* stays until MaxEvents newer ones have been pushed, whatever other threads   *)
(* push in between and though their events may overtake it                    *)
(* (gui_backend_notify_uplink, gui_backend_notify_rotator,                    *)
(* gui_backend_handle_set_freq, gui_backend_push_event).                     *)
Reported ==
  \A k \in Tracked :
    \/ cache[k] = None
    \/ age[k] = 0 /\ Underway(writer[k], k, cache[k])
    \/ /\ age[k] \in 1 .. count
       /\ LET e == RingEntries[count - age[k] + 1] IN e.kind = k /\ Says(k, e.val, cache[k])
    \/ age[k] > MaxEvents
=============================================================================
