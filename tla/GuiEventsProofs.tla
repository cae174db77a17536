---------------------------- MODULE GuiEventsProofs ----------------------------
(***************************************************************************)
(* What TLAPS proves of GuiEvents, for a ring of any size, any threads and *)
(* any values: the types and index bounds (TypeCorrect), that the ring     *)
(* implements the log of module EventLog (RingImplementsLog), and what the *)
(* history tells of the cached state (HistoryTellsTheState, ReportedAlways).*)
(***************************************************************************)
EXTENDS GuiEvents, SequenceTheorems, TLAPS

------------------------------------------------------------------------------
-----------------------------------------------------------------------------
(* Arithmetic around the ring.                                              *)

LEMMA ModLow ==
  ASSUME NEW n \in Nat \ {0}, NEW a \in 0 .. (n - 1)
  PROVE  a % n = a
OBVIOUS

LEMMA ModHigh ==
  ASSUME NEW n \in Nat \ {0}, NEW a \in n .. (2 * n - 1)
  PROVE  a % n = a - n
OBVIOUS

(* The index of the entry i places behind start.                            *)
Place(s, i) == (s + i) % MaxEvents

LEMMA PlaceValue ==
  ASSUME NEW s \in Indices, NEW i \in 0 .. MaxEvents
  PROVE  /\ Place(s, i) \in Indices
         /\ s + i < MaxEvents => Place(s, i) = s + i
         /\ s + i >= MaxEvents => Place(s, i) = s + i - MaxEvents
<1>1. CASE s + i < MaxEvents
  <2>1. s + i \in 0 .. (MaxEvents - 1)
    BY <1>1, GuiAssumption DEF Indices
  <2>2. QED
    BY <1>1, <2>1, ModLow, GuiAssumption DEF Place, Indices
<1>2. CASE s + i >= MaxEvents
  <2>1. s + i \in MaxEvents .. (2 * MaxEvents - 1)
    BY <1>2, GuiAssumption DEF Indices
  <2>2. (s + i) % MaxEvents = s + i - MaxEvents
    <3>1. MaxEvents \in Nat \ {0}
      BY GuiAssumption
    <3>2. \A a \in MaxEvents .. (2 * MaxEvents - 1) : a % MaxEvents = a - MaxEvents
      BY <3>1, ModHigh
    <3>3. (s + i) % MaxEvents = (s + i) - MaxEvents
      BY <2>1, <3>2, Zenon
    <3>4. (s + i) - MaxEvents = s + i - MaxEvents
      BY <3>1 DEF Indices
    <3>5. QED
      BY <3>3, <3>4, Zenon
  <2>3. Place(s, i) = s + i - MaxEvents
    BY <2>2 DEF Place
  <2>4. s + i - MaxEvents \in Indices
    BY <2>1, GuiAssumption DEF Indices
  <2>5. QED
    BY <1>2, <2>1, <2>3, <2>4, GuiAssumption
<1>3. QED
  BY <1>1, <1>2, GuiAssumption DEF Indices

(* Fewer than MaxEvents places from start, no index comes up twice.         *)
LEMMA PlacesDiffer ==
  ASSUME NEW s \in Indices, NEW i \in 0 .. MaxEvents, NEW j \in 0 .. MaxEvents,
         i < j, j - i < MaxEvents
  PROVE  Place(s, i) # Place(s, j)
<1>1. /\ s + i < MaxEvents => Place(s, i) = s + i
      /\ s + i >= MaxEvents => Place(s, i) = s + i - MaxEvents
  BY PlaceValue
<1>2. /\ s + j < MaxEvents => Place(s, j) = s + j
      /\ s + j >= MaxEvents => Place(s, j) = s + j - MaxEvents
  BY PlaceValue
<1>3. s \in Int /\ i \in Int /\ j \in Int /\ MaxEvents \in Int
  BY GuiAssumption DEF Indices
<1>4. QED
  BY <1>1, <1>2, <1>3

(* One step around the ring.                                                *)
LEMMA PlaceShift ==
  ASSUME NEW s \in Indices, NEW i \in 0 .. (MaxEvents - 1)
  PROVE  /\ Place(s, 1) \in Indices
         /\ Place(Place(s, 1), i) = Place(s, i + 1)
<1>1. s \in Int /\ i \in Int /\ 0 <= s /\ s < MaxEvents /\ 0 <= i /\ i < MaxEvents /\ MaxEvents \in Int
  BY GuiAssumption DEF Indices
<1>2. 1 \in 0 .. MaxEvents /\ i \in 0 .. MaxEvents /\ i + 1 \in 0 .. MaxEvents
  BY <1>1
<1>3. /\ Place(s, 1) \in Indices
      /\ s + 1 < MaxEvents => Place(s, 1) = s + 1
      /\ s + 1 >= MaxEvents => Place(s, 1) = s + 1 - MaxEvents
  BY <1>2, PlaceValue
<1>4. /\ s + (i + 1) < MaxEvents => Place(s, i + 1) = s + (i + 1)
      /\ s + (i + 1) >= MaxEvents => Place(s, i + 1) = s + (i + 1) - MaxEvents
  BY <1>2, PlaceValue
<1>5. /\ Place(s, 1) + i < MaxEvents => Place(Place(s, 1), i) = Place(s, 1) + i
      /\ Place(s, 1) + i >= MaxEvents => Place(Place(s, 1), i) = Place(s, 1) + i - MaxEvents
  BY <1>2, <1>3, PlaceValue
<1>6. QED
  BY <1>1, <1>3, <1>4, <1>5

LEMMA OnceAround ==
  ASSUME NEW s \in Indices
  PROVE  Place(s, MaxEvents) = s
BY PlaceValue, GuiAssumption DEF Indices

-----------------------------------------------------------------------------
(* Type correctness.                                                        *)

LEMMA EntryFacts ==
  /\ NoEntry \in Entry
  /\ Indices # {} /\ 0 \in Indices
  /\ Initial \in [Kinds -> Values]
<1>1. NoEntry \in Entry
  BY GuiAssumption DEF NoEntry, Entry, Kinds, Tracked, Values, ValuesOf
<1>2. 0 \in Indices
  BY GuiAssumption DEF Indices
<1>3. Initial \in [Kinds -> Values]
  BY GuiAssumption DEF Initial, Kinds, Tracked, Values, Stops
<1>4. QED
  BY <1>1, <1>2, <1>3

(* A report is of a value of its kind.                                      *)
JobOK == \A t \in Threads :
           job[t].step = "stamp" => /\ job[t].kind \in Kinds
                                    /\ job[t].val \in ValuesOf[job[t].kind]

TypeInv == TypeOK /\ JobOK

HistoryOK == writer \in [Tracked -> Threads] /\ age \in [Tracked -> 0 .. MaxEvents + 1]

(* What the kinds are, and the values an entry of each kind has.            *)
LEMMA KindFacts ==
  /\ {"uplink", "rotator", "mode", "emergency", "satellite"} \subseteq Kinds
  /\ Tracked \subseteq Kinds /\ Bands \subseteq Tracked
  /\ {"uplink", "rotator"} \subseteq Tracked
  /\ \A k \in {"uplink", "rotator", "mode", "emergency", "satellite"} : k \notin Bands
  /\ \A k \in {"mode", "emergency", "satellite"} : k \notin Tracked
  /\ ValuesOf["uplink"] = Uplinks /\ ValuesOf["rotator"] = Positions
  /\ ValuesOf["mode"] = Modes /\ ValuesOf["emergency"] = Stops /\ ValuesOf["satellite"] = Sats
  /\ \A k \in Bands : ValuesOf[k] = Freqs
BY GuiAssumption DEF Kinds, Tracked, ValuesOf

LEMMA JobSteps ==
  ASSUME NEW j \in Jobs
  PROVE  /\ j.step = "push" => j.entry \in Entry
         /\ j.step = "stamp" => j.kind \in Kinds /\ j.val \in Values
         /\ j.step = "stamp" => j = ToStamp(j.kind, j.val)
BY DEF Jobs, NoJob, ToStamp

LEMMA NewJobs ==
  ASSUME NEW k \in Kinds, NEW v \in ValuesOf[k], NEW t \in 0 .. MaxClock
  PROVE  /\ NoJob \in Jobs /\ NoJob.step = "none"
         /\ v \in Values
         /\ ToStamp(k, v) \in Jobs /\ ToStamp(k, v).kind = k /\ ToStamp(k, v).val = v
         /\ ToPush(k, v, t) \in Jobs /\ ToPush(k, v, t).step = "push"
<1>1. NoJob \in Jobs /\ NoJob.step = "none"
  BY DEF Jobs, NoJob
<1>2. v \in Values
  <2>1. \A l \in Kinds : ValuesOf[l] \subseteq Values
    BY DEF ValuesOf, Values, Kinds, Tracked
  <2>2. QED
    BY <2>1
<1>3. ToStamp(k, v) \in Jobs /\ ToStamp(k, v).kind = k /\ ToStamp(k, v).val = v
  BY <1>2 DEF Jobs, ToStamp
<1>4. [kind |-> k, val |-> v, stamp |-> t] \in Entry
  BY <1>2 DEF Entry
<1>5. ToPush(k, v, t) \in Jobs /\ ToPush(k, v, t).step = "push"
  BY <1>4 DEF Jobs, ToPush
<1>6. QED
  BY <1>1, <1>2, <1>3, <1>5

LEMMA TypeInvInit == Init => TypeInv
<1> SUFFICES ASSUME Init PROVE TypeInv
  OBVIOUS
<1>1. NoJob \in Jobs /\ NoJob.step # "stamp"
  BY DEF Jobs, NoJob
<1>2. JobOK /\ job \in [Threads -> Jobs]
  BY <1>1 DEF Init, JobOK
<1>3. events \in [Indices -> Entry] /\ start \in Indices /\ cache \in [Kinds -> Values \cup Ints]
  BY EntryFacts DEF Init
<1>6. HistoryOK
  BY GuiAssumption DEF Init, HistoryOK
<1>4. count \in 0 .. MaxEvents /\ clock \in 0 .. MaxClock /\ reply \in Seq(Entry)
  BY GuiAssumption DEF Init
<1>5. QED
  BY <1>2, <1>3, <1>4, <1>6 DEF TypeInv, TypeOK, HistoryOK

LEMMA HistoryStored ==
  ASSUME TypeInv, NEW t \in Threads, NEW k \in Tracked, NEW c, Store(t, k, c)
  PROVE  HistoryOK'
BY GuiAssumption DEF Store, HistoryOK, TypeInv, TypeOK

LEMMA HistoryAged ==
  ASSUME TypeInv, NEW t \in Threads, Aged(t)
  PROVE  HistoryOK'
<1>1. age \in [Tracked -> 0 .. MaxEvents + 1] /\ MaxEvents \in Nat \ {0}
  BY GuiAssumption DEF TypeInv, TypeOK
<1>2. \A k \in Tracked : age[k] \in 1 .. MaxEvents => age[k] + 1 \in 0 .. MaxEvents + 1
  BY <1>1
<1>3. 0 \in 0 .. MaxEvents + 1 /\ 1 \in 0 .. MaxEvents + 1
  BY <1>1
<1>4. age' \in [Tracked -> 0 .. MaxEvents + 1]
  BY <1>1, <1>2, <1>3 DEF Aged
<1>5. writer' \in [Tracked -> Threads]
  BY DEF Aged, TypeInv, TypeOK
<1>6. QED
  BY <1>4, <1>5 DEF HistoryOK

LEMMA HistoryKept ==
  ASSUME TypeInv, UNCHANGED historyVars
  PROVE  HistoryOK'
BY DEF historyVars, HistoryOK, TypeInv, TypeOK

LEMMA HistoryNext ==
  ASSUME TypeInv, [Next]_vars
  PROVE  HistoryOK'
<1>1. ASSUME NEW t \in Threads, NEW u \in Uplinks, NotifyUplink(t, u)
      PROVE  HistoryOK'
  BY <1>1, KindFacts, HistoryStored DEF NotifyUplink, Report
<1>2. ASSUME NEW t \in Threads, NEW p \in Positions, NotifyRotator(t, p)
      PROVE  HistoryOK'
  BY <1>2, KindFacts, HistoryStored DEF NotifyRotator, Report
<1>3. ASSUME NEW band \in Bands, NEW f \in Freqs, SetFreq(band, f)
      PROVE  HistoryOK'
  BY <1>3, KindFacts, HistoryStored, GuiAssumption DEF SetFreq, Report
<1>4. ASSUME NEW t \in Threads, PushEvent(t)
      PROVE  HistoryOK'
  BY <1>4, HistoryAged DEF PushEvent
<1>5. CASE UNCHANGED historyVars
  BY <1>5, HistoryKept
<1>6. CASE Next
  BY <1>1, <1>2, <1>3, <1>4, <1>5, <1>6
  DEF Next, Stamp, SetSat, SetMode, SetEmergencyStop, SetIfChanged, GetEvents
<1>7. QED
  BY <1>5, <1>6 DEF vars, historyVars

(* A step that gives one thread a new job, or none.                         *)
LEMMA JobUpdate ==
  ASSUME TypeInv, NEW t \in Threads, NEW j \in Jobs, job' = [job EXCEPT ![t] = j],
         j.step = "stamp" => j.kind \in Kinds /\ j.val \in ValuesOf[j.kind]
  PROVE  job' \in [Threads -> Jobs] /\ JobOK'
BY DEF TypeInv, TypeOK, JobOK

LEMMA TypeInvReport ==
  ASSUME TypeInv, NEW t \in Threads, NEW k \in Kinds, NEW v \in ValuesOf[k],
         NEW c \in Values \cup Ints,
         cache' = [cache EXCEPT ![k] = c] \/ cache' = cache,
         \/ job' = [job EXCEPT ![t] = ToStamp(k, v)]
         \/ job' = [job EXCEPT ![t] = NoJob],
         UNCHANGED <<events, start, count, clock, reply>>, HistoryOK'
  PROVE  TypeInv'
<1>1. /\ NoJob \in Jobs /\ NoJob.step = "none"
      /\ v \in Values
      /\ ToStamp(k, v) \in Jobs /\ ToStamp(k, v).kind = k /\ ToStamp(k, v).val = v
  <2>1. 0 \in 0 .. MaxClock
    BY GuiAssumption
  <2>2. QED
    BY <2>1, NewJobs
<1>2. cache' \in [Kinds -> Values \cup Ints]
  BY DEF TypeInv, TypeOK
<1>3. CASE job' = [job EXCEPT ![t] = ToStamp(k, v)]
  BY <1>1, <1>2, <1>3, JobUpdate DEF TypeInv, TypeOK, HistoryOK
<1>4. CASE job' = [job EXCEPT ![t] = NoJob]
  BY <1>1, <1>2, <1>4, JobUpdate DEF TypeInv, TypeOK, HistoryOK
<1>5. QED
  BY <1>3, <1>4

(* ... which stores a value of its kind, or has nothing to store.           *)
LEMMA ValueFacts ==
  ASSUME NEW k \in Kinds, NEW v \in ValuesOf[k]
  PROVE  v \in Values \cup Ints
<1>1. \A l \in Kinds : ValuesOf[l] \subseteq Values
  BY DEF ValuesOf, Values, Kinds, Tracked
<1>2. QED
  BY <1>1

LEMMA TypeInvStamp ==
  ASSUME TypeInv, NEW t \in Threads, Stamp(t), HistoryOK'
  PROVE  TypeInv'
<1>1. clock' = clock + 1 /\ clock' \in 0 .. MaxClock
  BY GuiAssumption DEF Stamp, TypeInv, TypeOK
<1>2. job[t].step = "stamp" /\ job[t].kind \in Kinds /\ job[t].val \in ValuesOf[job[t].kind]
  BY DEF Stamp, TypeInv, JobOK
<1>3. /\ ToPush(job[t].kind, job[t].val, clock') \in Jobs
      /\ ToPush(job[t].kind, job[t].val, clock').step = "push"
  BY <1>1, <1>2, NewJobs
<1>4. job' = [job EXCEPT ![t] = ToPush(job[t].kind, job[t].val, clock')]
  BY DEF Stamp
<1>5. job' \in [Threads -> Jobs] /\ JobOK'
  BY <1>3, <1>4, JobUpdate
<1>6. QED
  BY <1>1, <1>5 DEF Stamp, TypeInv, TypeOK, HistoryOK

LEMMA PushFacts ==
  ASSUME TypeInv, NEW t \in Threads, PushEvent(t)
  PROVE  /\ job[t].entry \in Entry
         /\ Place(start, count) \in Indices
         /\ events' = [events EXCEPT ![Place(start, count)] = job[t].entry]
         /\ count < MaxEvents => count' = count + 1 /\ start' = start
         /\ count >= MaxEvents => count = MaxEvents /\ start' = Place(start, 1) /\ count' = count
<1>1. start \in Indices /\ count \in 0 .. MaxEvents /\ job[t] \in Jobs
  BY DEF TypeInv, TypeOK
<1>2. job[t].entry \in Entry
  BY <1>1, JobSteps DEF PushEvent
<1>3. Place(start, count) \in Indices
  BY <1>1, PlaceValue
<1>4. QED
  BY <1>1, <1>2, <1>3, GuiAssumption DEF PushEvent, Place

LEMMA TypeInvPush ==
  ASSUME TypeInv, NEW t \in Threads, PushEvent(t), HistoryOK'
  PROVE  TypeInv'
<1>1. events' \in [Indices -> Entry]
  BY PushFacts DEF TypeInv, TypeOK
<1>2. start \in Indices /\ count \in 0 .. MaxEvents
  BY DEF TypeInv, TypeOK
<1>3. start' \in Indices /\ count' \in 0 .. MaxEvents
  <2>1. CASE count < MaxEvents
    BY <1>2, <2>1, PushFacts, GuiAssumption
  <2>2. CASE count >= MaxEvents
    <3>1. start' = Place(start, 1) /\ count' = count
      BY <2>2, PushFacts
    <3>2. 0 \in 0 .. (MaxEvents - 1)
      BY GuiAssumption
    <3>3. Place(start, 1) \in Indices
      BY <1>2, <3>2, PlaceShift
    <3>4. QED
      BY <1>2, <3>1, <3>3
  <2>3. QED
    BY <1>2, <2>1, <2>2, GuiAssumption
<1>4. NoJob \in Jobs /\ NoJob.step # "stamp" /\ job' = [job EXCEPT ![t] = NoJob]
  BY DEF Jobs, NoJob, PushEvent
<1>5. job' \in [Threads -> Jobs] /\ JobOK'
  BY <1>4, JobUpdate
<1>6. QED
  BY <1>1, <1>3, <1>5 DEF PushEvent, TypeInv, TypeOK, HistoryOK

LEMMA TypeInvGetEvents ==
  ASSUME TypeInv, NEW n \in 1 .. MaxEvents, GetEvents(n), HistoryOK'
  PROVE  TypeInv'
<1>1. PICK total \in 0 .. MaxEvents :
        /\ total <= count
        /\ total = IF n < count THEN n ELSE count
        /\ reply' = [i \in 1 .. total |-> events[(start + count - total + i - 1) % MaxEvents]]
  BY GuiAssumption DEF GetEvents, TypeInv, TypeOK
<1>2. ASSUME NEW i \in 1 .. total
      PROVE  events[(start + count - total + i - 1) % MaxEvents] \in Entry
  <2>1. start \in Indices /\ count \in 0 .. MaxEvents /\ events \in [Indices -> Entry]
    BY DEF TypeInv, TypeOK
  <2>2. count - total + i - 1 \in 0 .. MaxEvents
    BY <1>1, <2>1, GuiAssumption
  <2>3. start + count - total + i - 1 = start + (count - total + i - 1)
    BY <1>1, <2>1, GuiAssumption DEF Indices
  <2>4. Place(start, count - total + i - 1) \in Indices
    BY <2>1, <2>2, PlaceValue
  <2>5. QED
    BY <2>1, <2>3, <2>4 DEF Place
<1>3. reply' \in Seq(Entry)
  BY <1>1, <1>2
<1>4. QED
  BY <1>3 DEF GetEvents, TypeInv, TypeOK, JobOK, HistoryOK

LEMMA TypeInvNext == TypeInv /\ [Next]_vars => TypeInv'
<1> SUFFICES ASSUME TypeInv, [Next]_vars PROVE TypeInv'
  OBVIOUS
<1>0. HistoryOK'
  BY HistoryNext
<1>1. ASSUME NEW t \in Threads, NEW u \in Uplinks, NotifyUplink(t, u)
      PROVE  TypeInv'
  <2>1. "uplink" \in Kinds /\ u \in ValuesOf["uplink"]
    BY KindFacts
  <2>2. u \in Values \cup Ints
    BY <2>1, ValueFacts
  <2>3. QED
    BY <1>0, <1>1, <2>1, <2>2, TypeInvReport DEF NotifyUplink, Report, Store
<1>2. ASSUME NEW t \in Threads, NEW p \in Positions, NotifyRotator(t, p)
      PROVE  TypeInv'
  <2>1. "rotator" \in Kinds /\ p \in ValuesOf["rotator"]
    BY KindFacts
  <2>2. p \in Values \cup Ints
    BY <2>1, ValueFacts
  <2>3. QED
    BY <1>0, <1>2, <2>1, <2>2, TypeInvReport DEF NotifyRotator, Report, Store
<1>3. ASSUME NEW band \in Bands, NEW f \in Freqs, SetFreq(band, f)
      PROVE  TypeInv'
  <2>1. band \in Kinds /\ f \in ValuesOf[band]
    BY KindFacts
  <2>2. AsInt[f] \in Values \cup Ints
    BY GuiAssumption
  <2>3. QED
    BY <1>0, <1>3, <2>1, <2>2, TypeInvReport, GuiAssumption DEF SetFreq, Report, Store
<1>4. ASSUME NEW k \in Kinds, NEW v \in ValuesOf[k], SetIfChanged(k, v)
      PROVE  TypeInv'
  <2>1. \/ job' = [job EXCEPT ![GuiThread] = ToStamp(k, v)]
        \/ job' = [job EXCEPT ![GuiThread] = NoJob]
    BY <1>4 DEF SetIfChanged
  <2>2. v \in Values \cup Ints
    BY ValueFacts
  <2>3. QED
    BY <1>0, <1>4, <2>1, <2>2, TypeInvReport, GuiAssumption DEF SetIfChanged
<1>5. ASSUME NEW m \in Modes, SetMode(m)
      PROVE  TypeInv'
  <2>1. "mode" \in Kinds /\ m \in ValuesOf["mode"]
    BY KindFacts
  <2>2. QED
    BY <1>4, <1>5, <2>1 DEF SetMode
<1>6. ASSUME NEW b \in Stops, SetEmergencyStop(b)
      PROVE  TypeInv'
  <2>1. "emergency" \in Kinds /\ b \in ValuesOf["emergency"]
    BY KindFacts
  <2>2. QED
    BY <1>4, <1>6, <2>1 DEF SetEmergencyStop
<1>7. ASSUME NEW n \in Sats, SetSat(n)
      PROVE  TypeInv'
  <2>1. "satellite" \in Kinds /\ n \in ValuesOf["satellite"]
    BY KindFacts
  <2>2. n \in Values \cup Ints
    BY <2>1, ValueFacts
  <2>3. QED
    BY <1>0, <1>7, <2>1, <2>2, TypeInvReport, GuiAssumption DEF SetSat
<1>8. CASE UNCHANGED vars
  BY <1>8 DEF vars, TypeInv, TypeOK, JobOK
<1>9. CASE Next
  BY <1>0, <1>1, <1>2, <1>3, <1>5, <1>6, <1>7, <1>9,
     TypeInvStamp, TypeInvPush, TypeInvGetEvents DEF Next
<1>10. QED
  BY <1>8, <1>9

LEMMA TypeInvCorrect == Spec => []TypeInv
BY TypeInvInit, TypeInvNext, PTL DEF Spec

(* The indices of the event ring of gui_backend.c stay within the ring, and *)
(* every job and reply has its type, for a ring of any size.                *)
THEOREM TypeCorrect == Spec => []TypeOK
<1>1. TypeInv => TypeOK
  BY DEF TypeInv
<1>2. QED
  BY <1>1, TypeInvCorrect, PTL

-----------------------------------------------------------------------------
(* The ring implements the log.                                             *)

(* What the ring holds, as a function of its state.                         *)
Ring(e, s, c) == [i \in 1 .. c |-> e[(s + i - 1) % MaxEvents]]

LEMMA RingOf ==
  ASSUME NEW e \in [Indices -> Entry], NEW s \in Indices, NEW c \in 0 .. MaxEvents
  PROVE  /\ Ring(e, s, c) \in Seq(Entry) /\ Len(Ring(e, s, c)) = c
         /\ \A i \in 1 .. c : Ring(e, s, c)[i] = e[Place(s, i - 1)]
<1>1. ASSUME NEW i \in 1 .. c
      PROVE  /\ (s + i - 1) % MaxEvents = Place(s, i - 1)
             /\ e[(s + i - 1) % MaxEvents] \in Entry
  <2>1. i - 1 \in 0 .. MaxEvents /\ s + i - 1 = s + (i - 1)
    BY GuiAssumption DEF Indices
  <2>2. Place(s, i - 1) \in Indices
    BY <2>1, PlaceValue
  <2>3. QED
    BY <2>1, <2>2 DEF Place
<1>2. c \in Nat
  BY GuiAssumption
<1>3. QED
  BY <1>1, <1>2 DEF Ring

LEMMA RingFacts ==
  ASSUME TypeInv
  PROVE  /\ RingEntries \in Seq(Entry) /\ Len(RingEntries) = count
         /\ \A i \in 1 .. count : RingEntries[i] = events[Place(start, i - 1)]
<1>1. start \in Indices /\ count \in 0 .. MaxEvents /\ events \in [Indices -> Entry]
  BY DEF TypeInv, TypeOK
<1>2. RingEntries = Ring(events, start, count)
  BY DEF RingEntries, Ring
<1>3. QED
  BY <1>1, <1>2, RingOf

LEMMA RingFactsNext ==
  ASSUME TypeInv'
  PROVE  /\ RingEntries' \in Seq(Entry) /\ Len(RingEntries') = count'
         /\ \A i \in 1 .. count' : RingEntries'[i] = events'[Place(start', i - 1)]
<1>1. start' \in Indices /\ count' \in 0 .. MaxEvents /\ events' \in [Indices -> Entry]
  BY DEF TypeInv, TypeOK
<1>2. RingEntries' = Ring(events', start', count')
  BY DEF RingEntries, Ring
<1>3. QED
  BY <1>1, <1>2, RingOf

LEMMA TailFacts ==
  ASSUME NEW S, NEW s \in Seq(S), Len(s) > 0
  PROVE  /\ Tail(s) \in Seq(S) /\ Len(Tail(s)) = Len(s) - 1
         /\ \A i \in 1 .. (Len(s) - 1) : Tail(s)[i] = s[i + 1]
OBVIOUS

LEMMA SameSeq ==
  ASSUME NEW S, NEW r \in Seq(S), NEW q \in Seq(S), Len(r) = Len(q),
         \A i \in 1 .. Len(r) : r[i] = q[i]
  PROVE  r = q
OBVIOUS

(* The last n elements of a sequence.                                       *)
LEMMA LastFacts ==
  ASSUME NEW S, NEW s \in Seq(S), NEW n \in Nat, n <= Len(s), n > 0
  PROVE  /\ SubSeq(s, Len(s) - n + 1, Len(s)) \in Seq(S)
         /\ Len(SubSeq(s, Len(s) - n + 1, Len(s))) = n
         /\ \A i \in 1 .. n : SubSeq(s, Len(s) - n + 1, Len(s))[i] = s[Len(s) - n + i]
<1> DEFINE c == Len(s)
           m == c - n + 1
<1>1. c \in Nat /\ n <= c
  OBVIOUS
<1>2. \A i \in 1 .. c : s[i] \in S
  OBVIOUS
<1> HIDE DEF c
<1>3. m \in Int /\ c \in Int /\ m <= c /\ c - m + 1 = n
  BY <1>1
<1>4. \A i \in m .. c : s[i] \in S
  BY <1>1, <1>2
<1> HIDE DEF m
<1>5. /\ SubSeq(s, m, c) \in Seq(S)
      /\ Len(SubSeq(s, m, c)) = IF m <= c THEN c - m + 1 ELSE 0
      /\ \A i \in 1 .. c - m + 1 : SubSeq(s, m, c)[i] = s[m + i - 1]
  BY <1>3, <1>4, SubSeqProperties
<1>6. ASSUME NEW i \in 1 .. n
      PROVE  m + i - 1 = c - n + i
  BY <1>1 DEF m
<1>7. /\ SubSeq(s, m, c) \in Seq(S)
      /\ Len(SubSeq(s, m, c)) = n
      /\ \A i \in 1 .. n : SubSeq(s, m, c)[i] = s[c - n + i]
  BY <1>3, <1>5, <1>6
<1>8. QED
  BY <1>7 DEF c, m

LEMMA InitImplements == Init => Log!Init
<1> SUFFICES ASSUME Init PROVE Log!Init
  OBVIOUS
<1>1. count = 0 /\ reply = <<>>
  BY DEF Init
<1>2. RingEntries = <<>>
  BY <1>1 DEF RingEntries
<1>3. QED
  BY <1>1, <1>2 DEF Log!Init

(* A push into a ring with room appends.                                    *)
LEMMA PushAppends ==
  ASSUME TypeInv, TypeInv', NEW t \in Threads, PushEvent(t), count < MaxEvents
  PROVE  RingEntries' = Append(RingEntries, job[t].entry)
<1>1. /\ job[t].entry \in Entry /\ Place(start, count) \in Indices
      /\ events' = [events EXCEPT ![Place(start, count)] = job[t].entry]
      /\ count' = count + 1 /\ start' = start
  BY PushFacts
<1>2. start \in Indices /\ count \in 0 .. MaxEvents /\ events \in [Indices -> Entry]
  BY DEF TypeInv, TypeOK
<1>3. /\ RingEntries \in Seq(Entry) /\ Len(RingEntries) = count
      /\ \A i \in 1 .. count : RingEntries[i] = events[Place(start, i - 1)]
  BY RingFacts
<1>4. /\ RingEntries' \in Seq(Entry) /\ Len(RingEntries') = count + 1
      /\ \A i \in 1 .. (count + 1) : RingEntries'[i] = events'[Place(start, i - 1)]
  BY <1>1, RingFactsNext
<1>5. /\ Append(RingEntries, job[t].entry) \in Seq(Entry)
      /\ Len(Append(RingEntries, job[t].entry)) = count + 1
      /\ \A i \in 1 .. count : Append(RingEntries, job[t].entry)[i] = RingEntries[i]
      /\ Append(RingEntries, job[t].entry)[count + 1] = job[t].entry
  BY <1>1, <1>2, <1>3, GuiAssumption
<1>6. ASSUME NEW i \in 1 .. count
      PROVE  RingEntries'[i] = RingEntries[i]
  <2>1. i - 1 \in 0 .. MaxEvents /\ i - 1 < count /\ count - (i - 1) < MaxEvents
    BY <1>2, GuiAssumption
  <2>2. Place(start, i - 1) # Place(start, count) /\ Place(start, i - 1) \in Indices
    BY <1>2, <2>1, PlacesDiffer, PlaceValue
  <2>3. events'[Place(start, i - 1)] = events[Place(start, i - 1)]
    BY <1>1, <1>2, <2>2
  <2>4. i \in 1 .. (count + 1)
    BY <1>2, GuiAssumption
  <2>5. QED
    BY <1>3, <1>4, <2>3, <2>4
<1>7. RingEntries'[count + 1] = job[t].entry
  <2>1. count + 1 \in 1 .. (count + 1) /\ (count + 1) - 1 = count
    BY <1>2, GuiAssumption
  <2>2. events'[Place(start, count)] = job[t].entry
    BY <1>1, <1>2
  <2>3. QED
    BY <1>4, <2>1, <2>2
<1>8. \A i \in 1 .. (count + 1) : RingEntries'[i] = Append(RingEntries, job[t].entry)[i]
  BY <1>2, <1>5, <1>6, <1>7, GuiAssumption
<1>9. QED
  BY <1>4, <1>5, <1>8, SameSeq

(* A push into a full ring appends and forgets the oldest entry.            *)
LEMMA PushReplaces ==
  ASSUME TypeInv, TypeInv', NEW t \in Threads, PushEvent(t), count >= MaxEvents
  PROVE  RingEntries' = Append(Tail(RingEntries), job[t].entry)
<1>1. /\ job[t].entry \in Entry /\ Place(start, count) \in Indices
      /\ events' = [events EXCEPT ![Place(start, count)] = job[t].entry]
      /\ count = MaxEvents /\ count' = count /\ start' = Place(start, 1)
  BY PushFacts
<1>2. start \in Indices /\ count \in Nat /\ count > 0 /\ events \in [Indices -> Entry]
  BY <1>1, GuiAssumption DEF TypeInv, TypeOK
<1>3. /\ RingEntries \in Seq(Entry) /\ Len(RingEntries) = count
      /\ \A i \in 1 .. count : RingEntries[i] = events[Place(start, i - 1)]
  BY RingFacts
<1>4. /\ RingEntries' \in Seq(Entry) /\ Len(RingEntries') = count
      /\ \A i \in 1 .. count : RingEntries'[i] = events'[Place(Place(start, 1), i - 1)]
  BY <1>1, RingFactsNext
<1>5. \A i \in 1 .. count : RingEntries'[i] = events'[Place(start, i)]
  <2>1. SUFFICES ASSUME NEW i \in 1 .. count
                 PROVE  RingEntries'[i] = events'[Place(start, i)]
    OBVIOUS
  <2>2. i - 1 \in 0 .. (MaxEvents - 1) /\ (i - 1) + 1 = i
    BY <1>1, <1>2
  <2>3. Place(Place(start, 1), i - 1) = Place(start, i)
    BY <1>2, <2>2, PlaceShift
  <2>4. QED
    BY <1>4, <2>3
<1>6. PICK rest \in Seq(Entry) : rest = Tail(RingEntries)
  BY <1>2, <1>3, TailFacts
<1>7. Len(rest) = count - 1 /\ \A i \in 1 .. (count - 1) : rest[i] = RingEntries[i + 1]
  BY <1>2, <1>3, <1>6, TailFacts
<1>8. /\ Append(rest, job[t].entry) \in Seq(Entry)
      /\ Len(Append(rest, job[t].entry)) = count
      /\ \A i \in 1 .. (count - 1) : Append(rest, job[t].entry)[i] = rest[i]
      /\ Append(rest, job[t].entry)[count] = job[t].entry
  BY <1>1, <1>2, <1>7
<1>9. ASSUME NEW i \in 1 .. (count - 1)
      PROVE  RingEntries'[i] = Append(rest, job[t].entry)[i]
  <2>1. i \in 0 .. MaxEvents /\ count \in 0 .. MaxEvents /\ i < count /\ count - i < MaxEvents
        /\ i \in 1 .. count /\ i + 1 \in 1 .. count /\ (i + 1) - 1 = i
    BY <1>1, <1>2
  <2>2. Place(start, i) # Place(start, count) /\ Place(start, i) \in Indices
    BY <1>2, <2>1, PlacesDiffer, PlaceValue
  <2>3. events'[Place(start, i)] = events[Place(start, i)]
    BY <1>1, <1>2, <2>2
  <2>4. RingEntries[i + 1] = events[Place(start, i)]
    BY <1>3, <2>1
  <2>5. QED
    BY <1>5, <1>7, <1>8, <2>1, <2>3, <2>4
<1>10. RingEntries'[count] = job[t].entry
  <2>1. count \in 1 .. count
    BY <1>2
  <2>2. events'[Place(start, count)] = job[t].entry
    BY <1>1, <1>2
  <2>3. QED
    BY <1>5, <2>1, <2>2
<1>11. \A i \in 1 .. count : RingEntries'[i] = Append(rest, job[t].entry)[i]
  BY <1>2, <1>8, <1>9, <1>10
<1>12. RingEntries' = Append(rest, job[t].entry)
  BY <1>4, <1>8, <1>11, SameSeq
<1>13. QED
  BY <1>6, <1>12

LEMMA PushImplements ==
  ASSUME TypeInv, TypeInv', NEW t \in Threads, PushEvent(t)
  PROVE  \E e \in Entry : Log!Push(e)
<1>1. job[t].entry \in Entry /\ reply' = reply
  BY PushFacts DEF PushEvent
<1>2. Len(RingEntries) = count /\ count \in Nat /\ MaxEvents \in Nat
  BY RingFacts, GuiAssumption DEF TypeInv, TypeOK
<1>3. CASE count < MaxEvents
  <2>1. RingEntries' = Append(RingEntries, job[t].entry)
    BY <1>3, PushAppends
  <2>2. Log!Push(job[t].entry)
    BY <1>1, <1>2, <1>3, <2>1 DEF Log!Push
  <2>3. QED
    BY <1>1, <2>2
<1>4. CASE count >= MaxEvents
  <2>1. RingEntries' = Append(Tail(RingEntries), job[t].entry)
    BY <1>4, PushReplaces
  <2>2. ~(Len(RingEntries) < MaxEvents)
    BY <1>2, <1>4
  <2>3. Log!Push(job[t].entry)
    BY <1>1, <2>1, <2>2 DEF Log!Push
  <2>4. QED
    BY <1>1, <2>3
<1>5. QED
  BY <1>2, <1>3, <1>4

LEMMA GetEventsImplements ==
  ASSUME TypeInv, NEW n \in 1 .. MaxEvents, GetEvents(n)
  PROVE  Log!GetEvents(n)
<1>1. start \in Indices /\ count \in 0 .. MaxEvents /\ n \in Nat /\ n > 0
  BY GuiAssumption DEF TypeInv, TypeOK
<1>2. /\ RingEntries \in Seq(Entry) /\ Len(RingEntries) = count
      /\ \A i \in 1 .. count : RingEntries[i] = events[Place(start, i - 1)]
  BY RingFacts
<1>3. RingEntries' = RingEntries
  BY DEF GetEvents, RingEntries
<1>4. PICK total \in Nat :
        /\ total <= count /\ total = IF n < count THEN n ELSE count
        /\ reply' = [i \in 1 .. total |-> events[(start + count - total + i - 1) % MaxEvents]]
  BY <1>1, GuiAssumption, SMTT(30) DEF GetEvents
<1>5. ASSUME NEW i \in 1 .. total
      PROVE  /\ count - total + i \in 1 .. count
             /\ reply'[i] = RingEntries[count - total + i]
  <2>1. count - total + i \in 1 .. count
    BY <1>1, <1>4, GuiAssumption
  <2>2. start + count - total + i - 1 = start + ((count - total + i) - 1)
    BY <1>1, <1>4, GuiAssumption DEF Indices
  <2>3. reply'[i] = events[Place(start, (count - total + i) - 1)]
    BY <1>4, <2>2 DEF Place
  <2>4. QED
    BY <1>2, <2>1, <2>3
<1>6. reply' \in Seq(Entry) /\ Len(reply') = total
  <2>1. \A i \in 1 .. total : RingEntries[count - total + i] \in Entry
    BY <1>2, <1>5
  <2>2. \A i \in 1 .. total : events[(start + count - total + i - 1) % MaxEvents] \in Entry
    BY <1>4, <1>5, <2>1
  <2>3. QED
    BY <1>4, <2>2
<1>7. CASE n < count
  <2>1. total = n
    BY <1>4, <1>7
  <2>2. PICK q : q = SubSeq(RingEntries, count - n + 1, count)
    OBVIOUS
  <2>3. n <= Len(RingEntries)
    BY <1>1, <1>2, <1>7
  <2>4. q \in Seq(Entry) /\ Len(q) = n
        /\ \A i \in 1 .. n : q[i] = RingEntries[count - n + i]
    BY <1>1, <1>2, <2>2, <2>3, LastFacts, ZenonT(60)
  <2>5. reply' = q
    BY <1>5, <1>6, <2>1, <2>4, SameSeq
  <2>6. QED
    BY <1>2, <1>3, <1>7, <2>2, <2>5 DEF Log!GetEvents, Log!Newest
<1>8. CASE ~(n < count)
  <2>1. total = count
    BY <1>4, <1>8
  <2>2. \A i \in 1 .. count : reply'[i] = RingEntries[i]
    BY <1>1, <1>5, <2>1, GuiAssumption
  <2>3. reply' = RingEntries
    BY <1>2, <1>6, <2>1, <2>2, SameSeq
  <2>4. QED
    BY <1>2, <1>3, <1>8, <2>3 DEF Log!GetEvents, Log!Newest
<1>9. QED
  BY <1>7, <1>8

LEMMA NextImplements == TypeInv /\ TypeInv' /\ [Next]_vars => [Log!Next]_(Log!vars)
<1> SUFFICES ASSUME TypeInv, TypeInv', [Next]_vars PROVE [Log!Next]_(Log!vars)
  OBVIOUS
<1>1. CASE UNCHANGED <<events, start, count, reply>>
  BY <1>1 DEF Log!vars, RingEntries
<1>2. ASSUME NEW t \in Threads, PushEvent(t)
      PROVE  Log!Next
  BY <1>2, PushImplements DEF Log!Next
<1>3. ASSUME NEW n \in 1 .. MaxEvents, GetEvents(n)
      PROVE  Log!Next
  BY <1>3, GetEventsImplements DEF Log!Next
<1>4. CASE Next
  BY <1>1, <1>2, <1>3, <1>4
  DEF Next, NotifyUplink, NotifyRotator, SetFreq, SetSat, SetMode, SetEmergencyStop,
      SetIfChanged, Report, Store, Stamp
<1>5. QED
  BY <1>1, <1>4 DEF vars

(* The ring of gui_backend_push_event and gui_backend_handle_get_events is  *)
(* a log of the newest MaxEvents entries, whatever its size and however the *)
(* threads interleave.                                                      *)
THEOREM RingImplementsLog == Spec => ImplementsLog
<1>1. Init => Log!Init
  BY InitImplements
<1>2. TypeInv /\ TypeInv' /\ [Next]_vars => [Log!Next]_(Log!vars)
  BY NextImplements
<1>3. Spec => []TypeInv
  BY TypeInvCorrect
<1>4. QED
  BY <1>1, <1>2, <1>3, PTL DEF Spec, ImplementsLog, Log!Spec

------------------------------------------------------------------------------
(***************************************************************************)
(* What the history tells of the cache.                                    *)
(***************************************************************************)

(* The event the job is on its way to push tells the value of the kind.     *)
About(j, k, v) == \/ j.step = "stamp" /\ j.kind = k /\ j.val = v
                  \/ j.step = "push" /\ j.entry.kind = k /\ j.entry.val = v

LEMMA JobAbout ==
  ASSUME NEW k, NEW v, NEW c
  PROVE  /\ \A l, w : ~About(NoJob, l, w)
         /\ \A l, w : About(ToStamp(k, v), l, w) <=> l = k /\ w = v
         /\ \A l, w : About(ToPush(k, v, c), l, w) <=> l = k /\ w = v
BY DEF About, NoJob, ToStamp, ToPush

LEMMA UnderwayAbout ==
  ASSUME NEW t, NEW k, NEW c
  PROVE  Underway(t, k, c) <=> \E v : About(job[t], k, v) /\ Says(k, v, c)
BY DEF Underway, About

-----------------------------------------------------------------------------
(* What any step does to the cache, the jobs and the history.               *)

GuiKinds == {"mode", "emergency", "satellite"}

(* A function has changed its part of the cache to c, as v says, and is to  *)
(* push an event.                                                           *)
Reports(t, k, v, c) ==
  /\ job[t] = NoJob
  /\ job' = [job EXCEPT ![t] = ToStamp(k, v)]
  /\ cache' = [cache EXCEPT ![k] = c] \/ (k = "satellite" /\ cache' = cache)
  /\ k \in GuiKinds => t = GuiThread /\ c = v /\ UNCHANGED historyVars
  /\ k \in Tracked => Says(k, v, c) /\ Store(t, k, c)
  /\ UNCHANGED <<events, start, count>>

(* Nobody can tell that anything happened.                                  *)
TellsNothing ==
  /\ UNCHANGED <<cache, events, start, count, historyVars>>
  /\ \A t \in Threads : /\ job'[t] = NoJob <=> job[t] = NoJob
                        /\ \A k, v : About(job'[t], k, v) <=> About(job[t], k, v)

LEMMA StampTellsNothing ==
  ASSUME TypeInv, NEW t \in Threads, Stamp(t)
  PROVE  TellsNothing
<1>1. job[t] \in Jobs /\ job \in [Threads -> Jobs] /\ job[t].step = "stamp"
  BY DEF TypeInv, TypeOK, Stamp
<1>2. PICK k, v : k = job[t].kind /\ v = job[t].val
  OBVIOUS
<1>3. job[t] = ToStamp(k, v) /\ job' = [job EXCEPT ![t] = ToPush(k, v, clock')]
  BY <1>1, <1>2, JobSteps DEF Stamp
<1>4. job'[t] = ToPush(k, v, clock') /\ \A u \in Threads : u # t => job'[u] = job[u]
  BY <1>1, <1>3
<1>5. \A l, w : About(job'[t], l, w) <=> About(job[t], l, w)
  BY <1>3, <1>4, JobAbout
<1>6. job'[t] # NoJob /\ job[t] # NoJob
  BY <1>3, <1>4 DEF NoJob, ToStamp, ToPush
<1>7. QED
  BY <1>4, <1>5, <1>6 DEF TellsNothing, Stamp

LEMMA SetIfChangedCases ==
  ASSUME TypeInv, NEW k \in {"mode", "emergency"}, NEW v, SetIfChanged(k, v)
  PROVE  Reports(GuiThread, k, v, v) \/ TellsNothing
<1>1. /\ job \in [Threads -> Jobs] /\ cache \in [Kinds -> Values \cup Ints]
      /\ k \in Kinds /\ k \in GuiKinds /\ k \notin Tracked
  BY KindFacts DEF TypeInv, TypeOK, GuiKinds
<1>2. CASE cache[k] = v
  <2>1. cache' = cache /\ job' = job
    BY <1>1, <1>2, GuiAssumption DEF SetIfChanged
  <2>2. QED
    BY <2>1 DEF TellsNothing, SetIfChanged
<1>3. CASE cache[k] # v
  BY <1>1, <1>3 DEF SetIfChanged, Reports
<1>4. QED
  BY <1>2, <1>3

LEMMA NextCases ==
  ASSUME TypeInv, [Next]_vars
  PROVE  \/ TellsNothing
         \/ \E t \in Threads, k \in Kinds : \E v \in ValuesOf[k] : \E c : Reports(t, k, v, c)
         \/ \E t \in Threads : PushEvent(t)
<1> DEFINE Goal == \/ TellsNothing
                   \/ \E t \in Threads, k \in Kinds : \E v \in ValuesOf[k] : \E c : Reports(t, k, v, c)
                   \/ \E t \in Threads : PushEvent(t)
<1>1. ASSUME NEW t \in Threads, NEW u \in Uplinks, NotifyUplink(t, u)
      PROVE  Goal
  <2>1. /\ "uplink" \in Kinds /\ u \in ValuesOf["uplink"] /\ "uplink" \notin GuiKinds
        /\ Says("uplink", u, u)
    BY KindFacts DEF GuiKinds, Says
  <2>2. Reports(t, "uplink", u, u)
    BY <1>1, <2>1 DEF NotifyUplink, Report, Reports, Store
  <2>3. QED
    BY <2>1, <2>2
<1>2. ASSUME NEW t \in Threads, NEW p \in Positions, NotifyRotator(t, p)
      PROVE  Goal
  <2>1. /\ "rotator" \in Kinds /\ p \in ValuesOf["rotator"] /\ "rotator" \notin GuiKinds
        /\ Says("rotator", p, p)
    BY KindFacts DEF GuiKinds, Says
  <2>2. Reports(t, "rotator", p, p)
    BY <1>2, <2>1 DEF NotifyRotator, Report, Reports, Store
  <2>3. QED
    BY <2>1, <2>2
<1>3. ASSUME NEW band \in Bands, NEW f \in Freqs, SetFreq(band, f)
      PROVE  Goal
  <2>1. /\ band \in Kinds /\ f \in ValuesOf[band] /\ band \notin GuiKinds
        /\ Says(band, f, AsInt[f])
    BY KindFacts DEF GuiKinds, Says
  <2>2. Reports(GuiThread, band, f, AsInt[f])
    BY <1>3, <2>1 DEF SetFreq, Report, Reports, Store
  <2>3. QED
    BY <2>1, <2>2, GuiAssumption
<1>4. ASSUME NEW n \in Sats, SetSat(n)
      PROVE  Goal
  <2>1. "satellite" \in Kinds /\ n \in ValuesOf["satellite"] /\ "satellite" \notin Tracked
    BY KindFacts
  <2>2. Reports(GuiThread, "satellite", n, n)
    BY <1>4, <2>1 DEF SetSat, Reports
  <2>3. QED
    BY <2>1, <2>2, GuiAssumption
<1>5. ASSUME NEW m \in Modes, SetMode(m)
      PROVE  Goal
  <2>1. "mode" \in Kinds /\ m \in ValuesOf["mode"]
    BY KindFacts
  <2>2. Reports(GuiThread, "mode", m, m) \/ TellsNothing
    BY <1>5, SetIfChangedCases DEF SetMode
  <2>3. QED
    BY <2>1, <2>2, GuiAssumption
<1>6. ASSUME NEW b \in Stops, SetEmergencyStop(b)
      PROVE  Goal
  <2>1. "emergency" \in Kinds /\ b \in ValuesOf["emergency"]
    BY KindFacts
  <2>2. Reports(GuiThread, "emergency", b, b) \/ TellsNothing
    BY <1>6, SetIfChangedCases DEF SetEmergencyStop
  <2>3. QED
    BY <2>1, <2>2, GuiAssumption
<1>7. CASE UNCHANGED <<cache, events, start, count, job, historyVars>>
  BY <1>7 DEF TellsNothing
<1>8. CASE Next
  BY <1>1, <1>2, <1>3, <1>4, <1>5, <1>6, <1>7, <1>8, StampTellsNothing DEF Next, GetEvents
<1>9. QED
  BY <1>7, <1>8 DEF vars, historyVars

(* A push adds its entry at the end; a full ring forgets the oldest.        *)
LEMMA PushHistory ==
  ASSUME TypeInv, TypeInv', NEW t \in Threads, PushEvent(t)
  PROVE  /\ cache' = cache /\ job'[t] = NoJob /\ \A u \in Threads : u # t => job'[u] = job[u]
         /\ job[t].entry \in Entry
         /\ \A k, v : About(job[t], k, v) <=> k = job[t].entry.kind /\ v = job[t].entry.val
         /\ \/ count' # MaxEvents /\ RingEntries' = Append(RingEntries, job[t].entry)
            \/ count' = MaxEvents /\ RingEntries' = Append(RingEntries, job[t].entry)
            \/ count' = MaxEvents /\ Len(RingEntries) > 0
               /\ RingEntries' = Append(Tail(RingEntries), job[t].entry)
<1>1. job \in [Threads -> Jobs] /\ count \in 0 .. MaxEvents
  BY DEF TypeInv, TypeOK
<1>2. cache' = cache /\ job[t].step = "push" /\ job' = [job EXCEPT ![t] = NoJob]
  BY DEF PushEvent
<1>3. \A k, v : About(job[t], k, v) <=> k = job[t].entry.kind /\ v = job[t].entry.val
  BY <1>2 DEF About
<1>4. CASE count < MaxEvents
  BY <1>1, <1>2, <1>3, <1>4, PushFacts, PushAppends
<1>5. CASE count >= MaxEvents
  <2>1. count = MaxEvents /\ count' = count /\ Len(RingEntries) = count
    BY <1>5, PushFacts, RingFacts
  <2>2. RingEntries' = Append(Tail(RingEntries), job[t].entry)
    BY <1>5, PushReplaces
  <2>3. QED
    BY <1>1, <1>2, <1>3, <2>1, <2>2, PushFacts, GuiAssumption
<1>6. QED
  BY <1>1, <1>4, <1>5, GuiAssumption

LEMMA SameHistory ==
  ASSUME UNCHANGED <<events, start, count>>
  PROVE  RingEntries' = RingEntries
BY DEF RingEntries

-----------------------------------------------------------------------------
(* The newest entry of a kind.                                              *)

IsNewest(s, k, i) == s[i].kind = k /\ \A j \in (i + 1) .. Len(s) : s[j].kind # k

ToldIn(s, k) == {s[i].val : i \in {i \in 1 .. Len(s) : IsNewest(s, k, i)}}

LEMMA ToldOf ==
  ASSUME TypeInv, NEW k
  PROVE  Told(k) = ToldIn(RingEntries, k)
<1>1. Len(RingEntries) = count
  BY RingFacts
<1>2. QED
  BY <1>1 DEF Told, ToldIn, IsNewest

LEMMA ToldAppend ==
  ASSUME NEW s \in Seq(Entry), NEW e \in Entry, NEW k
  PROVE  /\ e.kind = k => ToldIn(Append(s, e), k) = {e.val}
         /\ e.kind # k => ToldIn(Append(s, e), k) = ToldIn(s, k)
<1> DEFINE n == Len(s)
           a == Append(s, e)
<1>1. n \in Nat /\ Len(a) = n + 1 /\ a[n + 1] = e /\ \A i \in 1 .. n : a[i] = s[i]
  OBVIOUS
<1> HIDE DEF n, a
<1>2. \A i \in 1 .. Len(a) : IsNewest(a, k, i) <=>
         /\ a[i].kind = k
         /\ \A j \in (i + 1) .. (n + 1) : a[j].kind # k
  BY <1>1 DEF IsNewest
<1>3. \A i \in 1 .. n : IsNewest(s, k, i) <=>
         /\ s[i].kind = k
         /\ \A j \in (i + 1) .. n : s[j].kind # k
  BY DEF IsNewest, n
<1>4. CASE e.kind = k
  <2>1. \A i \in 1 .. n : ~IsNewest(a, k, i)
    BY <1>1, <1>2, <1>4
  <2>2. IsNewest(a, k, n + 1)
    BY <1>1, <1>2, <1>4
  <2>3. \A i \in 1 .. (n + 1) : IsNewest(a, k, i) <=> i = n + 1
    BY <1>1, <2>1, <2>2
  <2>4. ToldIn(a, k) = {e.val}
    BY <1>1, <2>3 DEF ToldIn
  <2>5. QED
    BY <1>4, <2>4 DEF a
<1>5. CASE e.kind # k
  <2>1. ~IsNewest(a, k, n + 1)
    BY <1>1, <1>2, <1>5
  <2>2. ASSUME NEW i \in 1 .. n PROVE IsNewest(a, k, i) <=> IsNewest(s, k, i)
    <3>1. \A j \in (i + 1) .. n : a[j] = s[j]
      BY <1>1
    <3>2. IsNewest(a, k, i) => IsNewest(s, k, i)
      BY <1>1, <1>2, <1>3, <3>1
    <3>3. ASSUME IsNewest(s, k, i) PROVE IsNewest(a, k, i)
      <4>1. \A j \in (i + 1) .. (n + 1) : a[j].kind # k
        BY <1>1, <1>3, <1>5, <3>1, <3>3
      <4>2. QED
        BY <1>1, <1>2, <1>3, <3>3, <4>1
    <3>4. QED
      BY <3>2, <3>3
  <2>3. \A v : v \in ToldIn(a, k) <=> \E i \in 1 .. (n + 1) : IsNewest(a, k, i) /\ v = a[i].val
    BY <1>1 DEF ToldIn
  <2>4. \A v : v \in ToldIn(s, k) <=> \E i \in 1 .. n : IsNewest(s, k, i) /\ v = s[i].val
    BY DEF ToldIn, n
  <2>5. \A i \in 1 .. (n + 1) : i \in 1 .. n \/ i = n + 1
    BY <1>1
  <2>6. 1 .. n \subseteq 1 .. (n + 1)
    BY <1>1
  <2>7. ToldIn(a, k) = ToldIn(s, k)
    BY <1>1, <2>1, <2>2, <2>3, <2>4, <2>5, <2>6
  <2>8. QED
    BY <1>5, <2>7 DEF a
<1>6. QED
  BY <1>4, <1>5

LEMMA ToldTail ==
  ASSUME NEW s \in Seq(Entry), Len(s) > 0, NEW k
  PROVE  ToldIn(Tail(s), k) = ToldIn(s, k) \/ ToldIn(Tail(s), k) = {}
<1>1. PICK r \in Seq(Entry) : r = Tail(s)
  BY TailFacts
<1>2. Len(r) = Len(s) - 1 /\ Len(s) \in Nat /\ \A i \in 1 .. (Len(s) - 1) : r[i] = s[i + 1]
  BY <1>1, TailFacts
<1>3. ASSUME NEW i \in 1 .. Len(r)
      PROVE  IsNewest(r, k, i) <=> IsNewest(s, k, i + 1)
  <2>1. \A j \in (i + 1) .. Len(r) : j + 1 \in (i + 2) .. Len(s) /\ r[j] = s[j + 1]
    BY <1>2
  <2>2. \A j \in (i + 2) .. Len(s) : j - 1 \in (i + 1) .. Len(r) /\ r[j - 1] = s[j]
    BY <1>2
  <2>3. r[i] = s[i + 1] /\ (i + 1) + 1 = i + 2
    BY <1>2
  <2>4. QED
    BY <2>1, <2>2, <2>3 DEF IsNewest
<1>4. CASE ToldIn(r, k) # {}
  <2>1. PICK i \in 1 .. Len(r) : IsNewest(r, k, i)
    BY <1>4 DEF ToldIn
  <2>2. i + 1 \in 1 .. Len(s) /\ IsNewest(s, k, i + 1) /\ r[i] = s[i + 1]
    BY <1>2, <1>3, <2>1
  <2>3. \A j \in 1 .. Len(s) : IsNewest(s, k, j) => j = i + 1
    <3>1. SUFFICES ASSUME NEW j \in 1 .. Len(s), IsNewest(s, k, j), j # i + 1 PROVE FALSE
      OBVIOUS
    <3>2. CASE j < i + 1
      BY <1>2, <2>2, <3>1, <3>2 DEF IsNewest
    <3>3. CASE j > i + 1
      BY <1>2, <2>2, <3>1, <3>3 DEF IsNewest
    <3>4. QED
      BY <1>2, <3>1, <3>2, <3>3
  <2>4. \A j \in 1 .. Len(r) : IsNewest(r, k, j) => j = i
    BY <1>2, <1>3, <2>3
  <2>5. ToldIn(s, k) = {s[i + 1].val}
    BY <2>2, <2>3 DEF ToldIn
  <2>6. ToldIn(r, k) = {r[i].val}
    BY <2>1, <2>4 DEF ToldIn
  <2>7. QED
    BY <1>1, <2>2, <2>5, <2>6
<1>5. QED
  BY <1>1, <1>4

-----------------------------------------------------------------------------
(* The mode and the emergency stop.                                         *)

Agrees(k) == \/ cache[k] \in ToldIn(RingEntries, k)
             \/ /\ ToldIn(RingEntries, k) = {}
                /\ cache[k] = Initial[k] \/ count = MaxEvents

(* The GUI thread alone is ever about to tell of them; while it is, what it *)
(* will tell is in force, and when it is not, the history agrees.           *)
AuditInv ==
  \A k \in {"mode", "emergency"} :
    /\ \A t \in Threads \ {GuiThread} : \A v : ~About(job[t], k, v)
    /\ \A v : About(job[GuiThread], k, v) => v = cache[k]
    /\ About(job[GuiThread], k, cache[k]) \/ Agrees(k)

LEMMA AuditInit == Init => AuditInv
<1> SUFFICES ASSUME Init PROVE AuditInv
  OBVIOUS
<1>1. \A t \in Threads : job[t] = NoJob
  BY DEF Init
<1>2. \A t \in Threads : \A k, v : ~About(job[t], k, v)
  BY <1>1, JobAbout
<1>3. RingEntries = <<>>
  BY DEF Init, RingEntries
<1>4. \A k : ToldIn(RingEntries, k) = {}
  BY <1>3 DEF ToldIn
<1>5. QED
  BY <1>2, <1>4, GuiAssumption DEF Init, AuditInv, Agrees

LEMMA AuditNext == TypeInv /\ TypeInv' /\ AuditInv /\ [Next]_vars => AuditInv'
<1> SUFFICES ASSUME TypeInv, TypeInv', AuditInv, [Next]_vars,
                    NEW k \in {"mode", "emergency"}
             PROVE  /\ \A t \in Threads \ {GuiThread} : \A v : ~About(job'[t], k, v)
                    /\ \A v : About(job'[GuiThread], k, v) => v = cache'[k]
                    /\ About(job'[GuiThread], k, cache'[k]) \/ Agrees(k)'
  BY DEF AuditInv, Agrees, About
<1>0. /\ GuiThread \in Threads /\ job \in [Threads -> Jobs] /\ cache \in [Kinds -> Values \cup Ints]
      /\ k \in Kinds /\ k \in GuiKinds
  BY GuiAssumption DEF TypeInv, TypeOK, Kinds, GuiKinds
<1>a. /\ \A t \in Threads \ {GuiThread} : \A v : ~About(job[t], k, v)
      /\ \A v : About(job[GuiThread], k, v) => v = cache[k]
      /\ About(job[GuiThread], k, cache[k]) \/ Agrees(k)
  BY DEF AuditInv
<1>1. CASE TellsNothing
  <2>1. RingEntries' = RingEntries /\ cache' = cache /\ count' = count
    BY <1>1, SameHistory DEF TellsNothing
  <2>2. Agrees(k)' <=> Agrees(k)
    BY <2>1 DEF Agrees
  <2>3. QED
    BY <1>0, <1>1, <1>a, <2>1, <2>2 DEF TellsNothing
<1>2. ASSUME NEW t \in Threads, NEW l \in Kinds, NEW v \in ValuesOf[l], NEW c, Reports(t, l, v, c)
      PROVE  /\ \A u \in Threads \ {GuiThread} : \A w : ~About(job'[u], k, w)
             /\ \A w : About(job'[GuiThread], k, w) => w = cache'[k]
             /\ About(job'[GuiThread], k, cache'[k]) \/ Agrees(k)'
  <2>1. RingEntries' = RingEntries /\ count' = count
    BY <1>2, SameHistory DEF Reports
  <2>2. /\ job[t] = NoJob /\ job'[t] = ToStamp(l, v)
        /\ \A u \in Threads : u # t => job'[u] = job[u]
    BY <1>0, <1>2 DEF Reports
  <2>3. /\ \A m, w : About(job'[t], m, w) <=> m = l /\ w = v
        /\ \A m, w : ~About(job[t], m, w)
    BY <2>2 DEF About, NoJob, ToStamp
  <2>4. CASE l = k
    <3>1. t = GuiThread /\ cache'[k] = v
      BY <1>0, <1>2, <2>4 DEF Reports, GuiKinds
    <3>2. QED
      BY <1>a, <2>2, <2>3, <2>4, <3>1
  <2>5. CASE l # k
    <3>1. cache'[k] = cache[k]
      BY <1>0, <1>2, <2>5 DEF Reports
    <3>2. Agrees(k)' <=> Agrees(k)
      BY <2>1, <3>1 DEF Agrees
    <3>3. \A u \in Threads : \A w : About(job'[u], k, w) <=> About(job[u], k, w)
      BY <2>2, <2>3, <2>5
    <3>4. QED
      BY <1>0, <1>a, <3>1, <3>2, <3>3
  <2>6. QED
    BY <2>4, <2>5
<1>3. ASSUME NEW t \in Threads, PushEvent(t)
      PROVE  /\ \A u \in Threads \ {GuiThread} : \A w : ~About(job'[u], k, w)
             /\ \A w : About(job'[GuiThread], k, w) => w = cache'[k]
             /\ About(job'[GuiThread], k, cache'[k]) \/ Agrees(k)'
  <2>1. PICK e \in Entry : e = job[t].entry
    BY <1>3, PushHistory
  <2>2. /\ cache' = cache /\ job'[t] = NoJob /\ \A u \in Threads : u # t => job'[u] = job[u]
        /\ \A m, v : About(job[t], m, v) <=> m = e.kind /\ v = e.val
    BY ZenonT(30), <1>3, <2>1, PushHistory
  <2>3. \A m, w : ~About(job'[t], m, w)
    BY <2>2, JobAbout
  <2>4. PICK s \in Seq(Entry) :
          /\ RingEntries' = Append(s, e)
          /\ \/ s = RingEntries
             \/ count' = MaxEvents /\ Len(RingEntries) > 0 /\ s = Tail(RingEntries)
    <3>1. RingEntries \in Seq(Entry)
      BY RingFacts
    <3>2. Len(RingEntries) > 0 => Tail(RingEntries) \in Seq(Entry)
      BY <3>1, TailFacts
    <3>3. QED
      BY <1>3, <2>1, <3>1, <3>2, PushHistory
  <2>5. CASE e.kind = k
    <3>1. t = GuiThread /\ e.val = cache[k]
      BY <1>a, <2>2, <2>5
    <3>2. ToldIn(RingEntries', k) = {e.val}
      BY <2>4, <2>5, ToldAppend
    <3>3. cache'[k] \in ToldIn(RingEntries', k)
      BY <2>2, <3>1, <3>2
    <3>4. Agrees(k)'
      BY <3>3 DEF Agrees
    <3>5. QED
      BY <1>0, <1>a, <2>2, <2>3, <3>1, <3>4
  <2>6. CASE e.kind # k
    <3>1. ToldIn(RingEntries', k) = ToldIn(s, k)
      BY <2>4, <2>6, ToldAppend
    <3>2. \/ ToldIn(s, k) = ToldIn(RingEntries, k)
          \/ count' = MaxEvents /\ ToldIn(s, k) = {}
      BY <2>4, RingFacts, ToldTail
    <3>3. count = MaxEvents => count' = MaxEvents
      BY <1>3, PushFacts, GuiAssumption
    <3>4. Agrees(k) => Agrees(k)'
      BY <2>2, <3>1, <3>2, <3>3 DEF Agrees
    <3>5. \A u \in Threads : \A w : About(job'[u], k, w) <=> About(job[u], k, w)
      BY <2>2, <2>3, <2>6
    <3>6. QED
      BY <1>0, <1>a, <2>2, <3>4, <3>5
  <2>7. QED
    BY <2>5, <2>6
<1>4. QED
  BY <1>1, <1>2, <1>3, NextCases

LEMMA AuditInvGives == TypeInv /\ AuditInv => AuditTrail
<1> SUFFICES ASSUME TypeInv, AuditInv, job[GuiThread] = NoJob, NEW k \in {"mode", "emergency"}
             PROVE  \/ cache[k] \in Told(k)
                    \/ Told(k) = {} /\ (cache[k] = Initial[k] \/ count = MaxEvents)
  BY DEF AuditTrail
<1>1. ~About(job[GuiThread], k, cache[k])
  BY JobAbout
<1>2. QED
  BY <1>1, ToldOf DEF AuditInv, Agrees

(* Between two commands the newest entries of the history tell the mode and *)
(* the emergency stop in force, whatever other threads report meanwhile.    *)
THEOREM HistoryTellsTheState == Spec => []AuditTrail
<1>1. Init => AuditInv
  BY AuditInit
<1>2. TypeInv /\ TypeInv' /\ AuditInv /\ [Next]_vars => AuditInv'
  BY AuditNext
<1>3. TypeInv /\ AuditInv => AuditTrail
  BY AuditInvGives
<1>4. Spec => []TypeInv
  BY TypeInvCorrect
<1>5. QED
  BY <1>1, <1>2, <1>3, <1>4, PTL DEF Spec

-----------------------------------------------------------------------------
(* Uplinks, rotator commands and frequencies.                               *)

ReportedOf(k) ==
  \/ cache[k] = None
  \/ age[k] = 0 /\ \E v : About(job[writer[k]], k, v) /\ Says(k, v, cache[k])
  \/ /\ age[k] \in 1 .. count
     /\ RingEntries[count - age[k] + 1].kind = k
     /\ Says(k, RingEntries[count - age[k] + 1].val, cache[k])
  \/ age[k] > MaxEvents

ReportedInv == \A k \in Tracked : ReportedOf(k)

LEMMA ReportedInvGives == ReportedInv <=> Reported
BY UnderwayAbout DEF ReportedInv, ReportedOf, Reported

(* A push ages what the ring holds by one place, until it is the oldest.    *)
LEMMA AgedFacts ==
  ASSUME TypeInv, NEW t \in Threads, PushEvent(t), NEW k \in Tracked
  PROVE  /\ writer' = writer
         /\ age[k] = 0 /\ writer[k] = t => age'[k] = 1
         /\ age[k] = 0 /\ writer[k] # t => age'[k] = 0
         /\ age[k] \in 1 .. MaxEvents => age'[k] = age[k] + 1
         /\ age[k] > MaxEvents => age'[k] = age[k]
<1>1. age[k] \in 0 .. MaxEvents + 1 /\ MaxEvents \in Nat \ {0}
  BY GuiAssumption DEF TypeInv, TypeOK
<1>2. /\ age'[k] = CASE age[k] = 0 -> IF writer[k] = t THEN 1 ELSE 0
                      [] age[k] \in 1 .. MaxEvents -> age[k] + 1
                      [] OTHER -> age[k]
      /\ writer' = writer
  BY DEF PushEvent, Aged
<1>3. CASE age[k] = 0
  BY <1>1, <1>2, <1>3
<1>4. CASE age[k] \in 1 .. MaxEvents
  BY <1>1, <1>2, <1>4
<1>5. CASE age[k] > MaxEvents
  BY <1>1, <1>2, <1>5
<1>6. QED
  BY <1>1, <1>2, <1>3, <1>4, <1>5

(* Where an entry of the ring is after a push.                              *)
LEMMA PushMoves ==
  ASSUME TypeInv, TypeInv', NEW t \in Threads, PushEvent(t)
  PROVE  /\ count' \in 1 .. MaxEvents /\ RingEntries'[count'] = job[t].entry
         /\ \A a \in 1 .. count :
              a < MaxEvents => /\ a + 1 \in 1 .. count'
                               /\ RingEntries'[count' - (a + 1) + 1] = RingEntries[count - a + 1]
<1>1. count \in 0 .. MaxEvents /\ MaxEvents \in Nat \ {0}
  BY GuiAssumption DEF TypeInv, TypeOK
<1>2. RingEntries \in Seq(Entry) /\ Len(RingEntries) = count /\ job[t].entry \in Entry
  BY RingFacts, PushFacts
<1>3. PICK r \in Seq(Entry), e \in Entry : r = RingEntries /\ e = job[t].entry
  BY <1>2
<1>4. CASE count < MaxEvents
  <2>1. count' = count + 1 /\ RingEntries' = Append(r, e)
    BY <1>3, <1>4, PushFacts, PushAppends
  <2>2. Len(r) = count /\ Append(r, e)[count + 1] = e /\ \A i \in 1 .. count : Append(r, e)[i] = r[i]
    BY <1>2, <1>3
  <2>3. ASSUME NEW a \in 1 .. count
        PROVE  /\ a + 1 \in 1 .. (count + 1) /\ count - a + 1 \in 1 .. count
               /\ (count + 1) - (a + 1) + 1 = count - a + 1
    BY <1>1
  <2>4. ASSUME NEW a \in 1 .. count
        PROVE  RingEntries'[count' - (a + 1) + 1] = RingEntries[count - a + 1]
    BY <1>3, <2>1, <2>2, <2>3
  <2>5. count + 1 \in 1 .. MaxEvents
    BY <1>1, <1>4
  <2>6. QED
    BY <1>3, <2>1, <2>2, <2>3, <2>4, <2>5
<1>5. CASE count >= MaxEvents
  <2>1. count = MaxEvents /\ count' = count /\ RingEntries' = Append(Tail(r), e)
    BY <1>3, <1>5, PushFacts, PushReplaces
  <2>9. Len(r) = count /\ Len(r) > 0
    BY <1>1, <1>2, <1>3, <2>1
  <2>2. PICK q \in Seq(Entry) : q = Tail(r)
    BY <2>9, TailFacts
  <2>3. Len(q) = count - 1 /\ \A i \in 1 .. (count - 1) : q[i] = r[i + 1]
    BY <2>2, <2>9, TailFacts
  <2>4. Append(q, e)[count] = e /\ \A i \in 1 .. (count - 1) : Append(q, e)[i] = q[i]
    BY <1>1, <2>1, <2>3
  <2>5. ASSUME NEW a \in 1 .. count, a < MaxEvents
        PROVE  /\ a + 1 \in 1 .. count /\ count - a \in 1 .. (count - 1)
               /\ count - (a + 1) + 1 = count - a
    BY <1>1, <2>1, <2>5
  <2>6. ASSUME NEW a \in 1 .. count, a < MaxEvents
        PROVE  RingEntries'[count' - (a + 1) + 1] = RingEntries[count - a + 1]
    <3>1. RingEntries'[count' - (a + 1) + 1] = q[count - a]
      BY <2>1, <2>2, <2>4, <2>5, <2>6
    <3>2. QED
      BY <1>3, <2>3, <2>5, <2>6, <3>1
  <2>7. count \in 1 .. MaxEvents
    BY <1>1, <2>1
  <2>8. QED
    BY <1>3, <2>1, <2>2, <2>4, <2>5, <2>6, <2>7
<1>6. QED
  BY <1>1, <1>4, <1>5

LEMMA LastPlace ==
  ASSUME NEW n \in Nat, NEW c \in 1 .. n
  PROVE  1 \in 1 .. c /\ c - 1 + 1 = c
OBVIOUS

LEMMA ReportedPush ==
  ASSUME TypeInv, TypeInv', NEW t \in Threads, PushEvent(t), NEW k \in Tracked, ReportedOf(k)
  PROVE  ReportedOf(k)'
<1>1. PICK e \in Entry : e = job[t].entry
  BY PushHistory
<1>2. /\ cache' = cache /\ job'[t] = NoJob /\ \A u \in Threads : u # t => job'[u] = job[u]
      /\ \A m, v : About(job[t], m, v) <=> m = e.kind /\ v = e.val
  BY ZenonT(30), <1>1, PushHistory
<1>3. /\ writer' = writer /\ writer[k] \in Threads
      /\ age[k] = 0 /\ writer[k] = t => age'[k] = 1
      /\ age[k] = 0 /\ writer[k] # t => age'[k] = 0
      /\ age[k] \in 1 .. MaxEvents => age'[k] = age[k] + 1
      /\ age[k] > MaxEvents => age'[k] = age[k]
  BY AgedFacts DEF TypeInv, TypeOK
<1>4. /\ count' \in 1 .. MaxEvents /\ RingEntries'[count'] = e
      /\ \A a \in 1 .. count :
           a < MaxEvents => /\ a + 1 \in 1 .. count'
                            /\ RingEntries'[count' - (a + 1) + 1] = RingEntries[count - a + 1]
  BY <1>1, PushMoves
<1>5. count \in 0 .. MaxEvents /\ MaxEvents \in Nat \ {0} /\ count' \in Nat
  BY <1>4, GuiAssumption DEF TypeInv, TypeOK
<1>6. CASE cache[k] = None
  BY <1>2, <1>6 DEF ReportedOf
<1>7. CASE age[k] = 0 /\ \E v : About(job[writer[k]], k, v) /\ Says(k, v, cache[k])
  <2>1. CASE writer[k] = t
    <3>1. k = e.kind /\ Says(k, e.val, cache[k]) /\ age'[k] = 1
      BY <1>2, <1>3, <1>7, <2>1
    <3>2. 1 \in 1 .. count' /\ count' - 1 + 1 = count'
      <4>1. count' \in 1 .. MaxEvents
        BY <1>4
      <4>2. QED
        BY <1>5, <4>1, LastPlace
    <3>3. RingEntries'[count' - age'[k] + 1] = e
      BY <1>4, <3>1, <3>2
    <3>4. QED
      BY <1>2, <3>1, <3>2, <3>3 DEF ReportedOf, Says
  <2>2. CASE writer[k] # t
    BY <1>2, <1>3, <1>7, <2>2 DEF ReportedOf, About, Says
  <2>3. QED
    BY <2>1, <2>2
<1>8. CASE /\ age[k] \in 1 .. count
           /\ RingEntries[count - age[k] + 1].kind = k
           /\ Says(k, RingEntries[count - age[k] + 1].val, cache[k])
  <2>1. age'[k] = age[k] + 1
    BY <1>3, <1>5, <1>8
  <2>2. CASE age[k] < MaxEvents
    <3>1. /\ age'[k] \in 1 .. count'
          /\ RingEntries'[count' - age'[k] + 1] = RingEntries[count - age[k] + 1]
      BY <1>4, <1>8, <2>1, <2>2
    <3>2. QED
      BY <1>2, <1>8, <3>1 DEF ReportedOf, Says
  <2>3. CASE ~(age[k] < MaxEvents)
    <3>1. age'[k] > MaxEvents
      BY <1>5, <1>8, <2>1, <2>3
    <3>2. QED
      BY <3>1 DEF ReportedOf
  <2>4. QED
    BY <2>2, <2>3
<1>9. CASE age[k] > MaxEvents
  BY <1>3, <1>9 DEF ReportedOf
<1>10. QED
  BY <1>6, <1>7, <1>8, <1>9 DEF ReportedOf

LEMMA ReportedNext == TypeInv /\ TypeInv' /\ ReportedInv /\ [Next]_vars => ReportedInv'
<1> SUFFICES ASSUME TypeInv, TypeInv', ReportedInv, [Next]_vars, NEW k \in Tracked
             PROVE  ReportedOf(k)'
  BY DEF ReportedInv
<1>0. /\ job \in [Threads -> Jobs] /\ cache \in [Kinds -> Values \cup Ints] /\ k \in Kinds
      /\ writer \in [Tracked -> Threads] /\ age \in [Tracked -> 0 .. MaxEvents + 1]
      /\ k \notin GuiKinds /\ ReportedOf(k)
  BY KindFacts DEF TypeInv, TypeOK, ReportedInv, GuiKinds
<1>1. CASE TellsNothing
  <2>1. RingEntries' = RingEntries /\ cache' = cache /\ count' = count /\ writer' = writer /\ age' = age
    BY <1>1, SameHistory DEF TellsNothing, historyVars
  <2>2. \A v : About(job'[writer[k]], k, v) <=> About(job[writer[k]], k, v)
    BY <1>0, <1>1 DEF TellsNothing
  <2>3. QED
    BY <1>0, <2>1, <2>2 DEF ReportedOf, About, Says
<1>2. ASSUME NEW t \in Threads, NEW l \in Kinds, NEW v \in ValuesOf[l], NEW c, Reports(t, l, v, c)
      PROVE  ReportedOf(k)'
  <2>1. RingEntries' = RingEntries /\ count' = count
    BY <1>2, SameHistory DEF Reports
  <2>2. /\ job[t] = NoJob /\ job'[t] = ToStamp(l, v)
        /\ \A u \in Threads : u # t => job'[u] = job[u]
    BY <1>0, <1>2 DEF Reports
  <2>3. CASE l = k
    <3>1. cache'[k] = c /\ Says(k, v, c) /\ writer'[k] = t /\ age'[k] = 0
      BY <1>0, <1>2, <2>3 DEF Reports, Store
    <3>2. About(job'[t], k, v)
      BY <2>2, <2>3 DEF About, ToStamp
    <3>3. QED
      BY <3>1, <3>2 DEF ReportedOf, About, Says
  <2>4. CASE l # k
    <3>1. l \in Tracked \/ l \in GuiKinds
      BY DEF Kinds, GuiKinds
    <3>2. cache'[k] = cache[k] /\ writer'[k] = writer[k] /\ age'[k] = age[k]
      <4>1. CASE l \in Tracked
        BY <1>0, <1>2, <2>4, <4>1 DEF Reports, Store
      <4>2. CASE l \in GuiKinds
        BY <1>0, <1>2, <2>4, <4>2 DEF Reports, historyVars
      <4>3. QED
        BY <3>1, <4>1, <4>2
    <3>3. \A w : About(job[writer[k]], k, w) => About(job'[writer[k]], k, w)
      BY <1>0, <2>2 DEF About, NoJob
    <3>4. CASE age[k] = 0 /\ \E w : About(job[writer[k]], k, w) /\ Says(k, w, cache[k])
      <4>1. age'[k] = 0 /\ \E w : About(job'[writer'[k]], k, w) /\ Says(k, w, cache'[k])
        BY <3>2, <3>3, <3>4
      <4>2. QED
        BY <4>1 DEF ReportedOf, About, Says
    <3>5. CASE /\ age[k] \in 1 .. count
               /\ RingEntries[count - age[k] + 1].kind = k
               /\ Says(k, RingEntries[count - age[k] + 1].val, cache[k])
      BY <2>1, <3>2, <3>5 DEF ReportedOf, Says
    <3>6. CASE cache[k] = None \/ age[k] > MaxEvents
      BY <3>2, <3>6 DEF ReportedOf
    <3>7. QED
      BY <1>0, <3>4, <3>5, <3>6 DEF ReportedOf
  <2>5. QED
    BY <2>3, <2>4
<1>3. ASSUME NEW t \in Threads, PushEvent(t)
      PROVE  ReportedOf(k)'
  BY <1>0, <1>3, ReportedPush
<1>4. QED
  BY <1>1, <1>2, <1>3, NextCases

(* The event that says what the cache tells of the last uplink, the antenna *)
(* and the frequencies is on its way by the thread that stored it, or in the *)
(* ring, until MaxEvents newer ones have been pushed behind it.              *)
THEOREM ReportedAlways == Spec => []Reported
<1>1. Init => ReportedInv
  <2>1. \A k \in Tracked : Initial[k] = None
    BY GuiAssumption DEF Initial, Kinds, Tracked
  <2>2. QED
    BY <2>1 DEF Init, ReportedInv, ReportedOf
<1>2. TypeInv /\ TypeInv' /\ ReportedInv /\ [Next]_vars => ReportedInv'
  BY ReportedNext
<1>3. ReportedInv => Reported
  BY ReportedInvGives
<1>4. Spec => []TypeInv
  BY TypeInvCorrect
<1>5. QED
  BY <1>1, <1>2, <1>3, <1>4, PTL DEF Spec
==============================================================================
