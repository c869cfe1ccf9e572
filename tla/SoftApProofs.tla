---------------------------- MODULE SoftApProofs ----------------------------
(***************************************************************************)
(* Proofs about SoftAp, for any number of stations, any size of the table  *)
(* and any timeouts.                                                       *)
(***************************************************************************)
EXTENDS SoftAp, SequenceTheorems, FiniteSetTheorems, WellFoundedInduction, TLAPS

USE SoftApAssumption DEF history

-----------------------------------------------------------------------------
(* The event queue.                                                        *)

\* An event of this kind waits for the event thread.
Pending(kind) == \E n \in DOMAIN events : events[n].kind = kind

LEMMA Posting ==
  ASSUME events \in Seq(Event), NEW e \in Event, Post(e)
  PROVE  /\ events' \in Seq(Event) /\ events' # <<>>
         /\ \A kind : Pending(kind)' => Pending(kind) \/ e.kind = kind
<1>1. /\ events' \in Seq(Event) /\ events' # <<>> /\ Len(events') = Len(events) + 1
      /\ \A n \in 1 .. Len(events) : events'[n] = events[n]
      /\ events'[Len(events) + 1] = e
  BY AppendProperties DEF Post
<1>2. /\ Len(events) \in Nat /\ DOMAIN events = 1 .. Len(events)
      /\ DOMAIN events' = 1 .. Len(events')
  BY <1>1, LenProperties
<1>3. \A n \in DOMAIN events' : n \in DOMAIN events \/ n = Len(events) + 1
  BY <1>1, <1>2
<1>. QED BY <1>1, <1>2, <1>3 DEF Pending

LEMMA Taking ==
  ASSUME events \in Seq(Event), events # <<>>, events' = Tail(events)
  PROVE  /\ events' \in Seq(Event)
         /\ Head(events) \in Event /\ Pending(Head(events).kind)
         /\ \A kind : Pending(kind)' => Pending(kind)
<1>1. /\ Head(events) \in Event /\ events' \in Seq(Event) /\ Len(events') = Len(events) - 1
      /\ \A n \in 1 .. Len(events') : events'[n] = events[n + 1]
  BY HeadTailProperties
<1>2. /\ Len(events) \in Nat \ {0} /\ DOMAIN events = 1 .. Len(events)
      /\ DOMAIN events' = 1 .. Len(events')
  BY <1>1, LenProperties, EmptySeq
<1>3. \A n \in DOMAIN events' : n + 1 \in DOMAIN events /\ events'[n] = events[n + 1]
  BY <1>1, <1>2
<1>4. Head(events) = events[1] /\ 1 \in DOMAIN events
  BY <1>2
<1>. QED BY <1>1, <1>3, <1>4 DEF Pending

StationEvent == [kind : {"connected", "disconnected"}, sta : Sta]

LEMMA EventKinds ==
  /\ \A ok \in BOOLEAN : \A k \in {"enabled", "disabled"} :
       [kind |-> k, ok |-> ok] \in Event /\ [kind |-> k, ok |-> ok].kind = k
  /\ \A s \in Sta : \A k \in {"connected", "disconnected"} :
       [kind |-> k, sta |-> s] \in Event /\ [kind |-> k, sta |-> s].kind = k
  /\ \A e \in Event : e.kind \in {"connected", "disconnected"} => e \in StationEvent
  /\ \A e \in Event : e.kind \in {"enabled", "disabled"} => e.ok \in BOOLEAN
BY DEF Event, StationEvent

-----------------------------------------------------------------------------
(* Types.                                                                  *)

\* The event under way is a station's.
HandlingStation == handling = <<>> \/ \E e \in StationEvent : handling = <<e>>

Types == TypeOK /\ HandlingStation

LEMMA OneEvent ==
  ASSUME NEW e \in Event PROVE <<e>> \in Seq(Event) /\ Len(<<e>>) = 1
OBVIOUS

LEMMA AirType ==
  ASSUME Types, RadioStarts \/ RadioStops \/ RadioStaysOn \/ \E s \in Sta : Join(s) \/ Leave(s)
  PROVE  Types'
<1> USE DEF Types, TypeOK
<1>1. CASE RadioStarts
  <2>1. PICK ok \in Outcome : /\ radio' = IF ok THEN "on" ELSE "off"
                              /\ Post([kind |-> "enabled", ok |-> ok])
    BY <1>1 DEF RadioStarts
  <2>2. ok \in BOOLEAN
    BY DEF Outcome
  <2>3. events' \in Seq(Event)
    BY <2>1, <2>2, EventKinds, Posting
  <2>. QED BY <1>1, <2>1, <2>3 DEF RadioStarts, apVars, HandlingStation
<1>2. CASE RadioStops \/ RadioStaysOn
  <2>1. events' \in Seq(Event)
    BY <1>2, EventKinds, Posting DEF RadioStops, RadioStaysOn
  <2>. QED BY <1>2, <2>1 DEF RadioStops, RadioStaysOn, apVars, HandlingStation
<1>3. ASSUME NEW s \in Sta, Join(s) \/ Leave(s) PROVE Types'
  <2>1. events' \in Seq(Event)
    BY <1>3, EventKinds, Posting DEF Join, Leave
  <2>2. assoc' \subseteq Sta /\ empty_for' \in 0 .. IdleTimeout
    BY <1>3 DEF Join, Leave
  <2>. QED BY <1>3, <2>1, <2>2 DEF Join, Leave, apVars, HandlingStation
<1>. QED BY <1>1, <1>2, <1>3

LEMMA TickType ==
  ASSUME Types, Tick
  PROVE  Types'
<1> USE DEF Types, TypeOK
<1>1. idle' \in 0 .. IdleTimeout /\ empty_for' \in 0 .. IdleTimeout
  BY DEF Tick, MinOf
<1>2. timer' \in 0 .. CheckPeriod
  BY DEF Tick
<1>3. lag' \in 0 .. MaxLag
  BY DEF Tick, Prompt
<1>. QED BY <1>1, <1>2, <1>3 DEF Tick, apVars, airVars, HandlingStation

LEMMA MainType ==
  ASSUME Types, MainThread
  PROVE  Types'
<1> USE DEF Types, TypeOK
<1>a. 0 \in 0 .. IdleTimeout /\ CheckPeriod \in 0 .. CheckPeriod
  BY SoftApAssumption
<1>b. Outcome \subseteq BOOLEAN
  BY Zenon DEF Outcome
<1>1. 0 \in 0 .. IdleTimeout /\ CheckPeriod \in 0 .. CheckPeriod /\ Outcome \subseteq BOOLEAN
  BY <1>a, <1>b
<1>2. dhcp' \in BOOLEAN /\ ret' \in BOOLEAN
  BY <1>1 DEF MainThread, NoInterface, StartDhcp, enable_softap, Publish, NoteStart, ScheduleCheck
<1>. QED BY <1>1, <1>2, Zenon DEF MainThread, NoInterface, StartDhcp, enable_softap, Publish,
          NoteStart, ScheduleCheck, airVars, apVars, HandlingStation

LEMMA TableType ==
  ASSUME Types, NEW S, NEW v \in Sta \cup {NoSta}, FirstBecomes(S, v)
  PROVE  sta_list' \in [Entry -> Sta \cup {NoSta}]
BY DEF Types, TypeOK, FirstBecomes

LEMMA EventType ==
  ASSUME Types, EventThread
  PROVE  Types'
<1> USE DEF Types, TypeOK
<1>1. CASE HandleResult
  <2>1. events' \in Seq(Event) /\ Head(events) \in Event
    BY <1>1, Taking DEF HandleResult, Next1Event, Dequeued
  <2>2. 0 \in 0 .. IdleTimeout /\ 0 \in 0 .. MaxLag
    BY SoftApAssumption
  <2>3. idle' \in 0 .. IdleTimeout /\ lag' \in 0 .. MaxLag
    BY <1>1, <2>2, Zenon DEF HandleResult, Dequeued
  <2>4. ap_running' \in BOOLEAN
    BY <1>1, Zenon DEF HandleResult
  <2>. QED BY <1>1, <2>1, <2>3, <2>4 DEF HandleResult, airVars, HandlingStation
<1>2. CASE TakeStationEvent
  <2>1. events' \in Seq(Event) /\ Head(events) \in StationEvent /\ Head(events) \in Event
    BY <1>2, Taking, EventKinds DEF TakeStationEvent, Next1Event, Dequeued
  <2>2. handling' \in Seq(Event) /\ Len(handling') <= 1 /\ HandlingStation'
    BY <1>2, <2>1, OneEvent DEF TakeStationEvent, HandlingStation
  <2>3. idle' \in 0 .. IdleTimeout /\ lag' \in 0 .. MaxLag
    BY <1>2 DEF TakeStationEvent, Dequeued
  <2>. QED BY <1>2, <2>1, <2>2, <2>3 DEF TakeStationEvent, apVars, airVars
<1>3. CASE UpdateTable
  <2>1. PICK e \in StationEvent : handling = <<e>>
    BY <1>3 DEF UpdateTable, HandlingStation
  <2>2. handling[1].sta \in Sta
    BY <2>1 DEF StationEvent
  <2>3. \E S : \E v \in Sta \cup {NoSta} : FirstBecomes(S, v)
    BY <1>3, <2>2, Zenon DEF UpdateTable
  <2>4. sta_list' \in [Entry -> Sta \cup {NoSta}]
    BY <2>3, TableType
  <2>5. handling' \in Seq(Event) /\ Len(handling') <= 1 /\ HandlingStation'
    BY <1>3, EmptySeq DEF UpdateTable, HandlingStation
  <2>. QED BY <1>3, <2>4, <2>5 DEF UpdateTable, apVars, airVars
<1>. QED BY <1>1, <1>2, <1>3 DEF EventThread

LEMMA WorkType ==
  ASSUME Types, IdleWork
  PROVE  Types'
<1> USE DEF Types, TypeOK
<1>1. CheckPeriod \in 0 .. CheckPeriod
  OBVIOUS
<1>2. dhcp' \in BOOLEAN /\ radio' \in {"off", "starting", "on", "stopping"}
  BY DEF IdleWork, CheckGivesUp, CheckAgain, RequestDisable, FinishDisable, apVars, airVars
<1>. QED BY <1>1, <1>2, Zenon DEF IdleWork, CheckGivesUp, CheckAgain, RequestDisable,
          FinishDisable, apVars, airVars, HandlingStation

LEMMA TypesKept == Spec => []Types
<1>1. Init => Types
  <2>1. 0 \in 0 .. IdleTimeout /\ 0 \in 0 .. CheckPeriod /\ 0 \in 0 .. MaxLag
    OBVIOUS
  <2>2. <<>> \in Seq(Event) /\ Len(<<>>) <= 1
    BY EmptySeq
  <2>3. Init => sta_list \in [Entry -> Sta \cup {NoSta}] /\ assoc \subseteq Sta
    BY DEF Init
  <2>. QED BY <2>1, <2>2, <2>3, Zenon DEF Init, Types, TypeOK, HandlingStation
<1>2. Types /\ [Next]_vars => Types'
  <2> SUFFICES ASSUME Types, [Next]_vars PROVE Types'
    OBVIOUS
  <2>1. CASE UNCHANGED vars
    BY <2>1 DEF vars, apVars, airVars, Types, TypeOK, HandlingStation
  <2>. QED BY <2>1, AirType, TickType, MainType, EventType, WorkType DEF Next
<1>. QED BY <1>1, <1>2, PTL DEF Spec

(* The variables keep their types: the table holds stations and free       *)
(* entries, no age or timeout runs past its bound, and what updates the    *)
(* table is always a station's event.                                      *)
THEOREM TypeCorrect == Spec => []TypeOK
<1>1. Types => TypeOK
  BY DEF Types
<1>. QED BY <1>1, TypesKept, PTL

-----------------------------------------------------------------------------
(* The idle manager.                                                       *)

LEMMA StartingIs ==
  /\ Starting <=> radio = "starting" \/ Pending("enabled")
  /\ Starting' <=> radio' = "starting" \/ Pending("enabled")'
BY DEF Starting, Pending

\* Before the request nothing happens on the air, and the first check is
\* scheduled last.
NothingYet ==
  /\ main \in {"boot", "gone", "enable"} =>
       radio = "off" /\ assoc = {} /\ events = <<>>
  /\ main # "loop" => work = "none"

\* As long as the start is not through and the idle check has not asked for
\* the opposite, nobody stops the access point: it is taken for running and
\* the check goes on.
StartIsSafe ==
  Starting /\ ~late =>
    /\ radio # "stopping" /\ ~Pending("disabled") /\ ret
    /\ main \in {"note", "schedule", "loop"} => ap_running
    /\ main = "loop" => work \in {"timer", "queued"}

IInv == NothingYet /\ StartIsSafe /\ IdleManagerAlive

LEMMA AirKeepsInv ==
  ASSUME Types, IInv,
         RadioStarts \/ RadioStops \/ RadioStaysOn \/ \E s \in Sta : Join(s) \/ Leave(s)
  PROVE  IInv'
<1> USE DEF IInv, NothingYet
<1>1. UNCHANGED <<main, ret, ap_running, idle, work, late>>
  BY DEF RadioStarts, RadioStops, RadioStaysOn, Join, Leave, apVars
<1>2. IdleManagerAlive'
  BY <1>1 DEF IdleManagerAlive
<1>3. events \in Seq(Event)
  BY DEF Types, TypeOK
<1>4. CASE RadioStarts
  <2>1. PICK ok \in Outcome : /\ radio' = IF ok THEN "on" ELSE "off"
                              /\ Post([kind |-> "enabled", ok |-> ok])
    BY <1>4 DEF RadioStarts
  <2>2. radio' # "stopping" /\ Starting /\ (~late => ~Pending("disabled")')
    <3>1. ok \in BOOLEAN
      BY DEF Outcome
    <3>2. Starting /\ (~late => ~Pending("disabled"))
      BY <1>4, StartingIs DEF RadioStarts, StartIsSafe
    <3>. QED BY <1>3, <2>1, <3>1, <3>2, EventKinds, Posting
  <2>3. NothingYet'
    BY <1>1, <1>4 DEF RadioStarts
  <2>. QED BY <1>1, <1>2, <2>2, <2>3 DEF StartIsSafe
<1>5. CASE RadioStops \/ RadioStaysOn
  <2>1. PICK ok \in BOOLEAN : Post([kind |-> "disabled", ok |-> ok])
    BY <1>5 DEF RadioStops, RadioStaysOn
  <2>2. (Starting => late) /\ radio = "stopping" /\ radio' \in {"off", "on"}
    BY <1>5 DEF RadioStops, RadioStaysOn, StartIsSafe
  <2>3. Starting' => Starting
    BY <1>3, <2>1, <2>2, EventKinds, Posting, StartingIs
  <2>. QED BY <1>1, <1>2, <2>2, <2>3 DEF StartIsSafe
<1>6. ASSUME NEW s \in Sta, Join(s) \/ Leave(s) PROVE IInv'
  <2>1. PICK k \in {"connected", "disconnected"} : Post([kind |-> k, sta |-> s])
    BY <1>6 DEF Join, Leave
  <2>2. (Pending("enabled")' => Pending("enabled")) /\ (Pending("disabled")' => Pending("disabled"))
    BY <1>3, <2>1, EventKinds, Posting
  <2>3. radio' = radio /\ main \notin {"boot", "gone", "enable"}
    BY <1>6 DEF Join, Leave
  <2>. QED BY <1>1, <1>2, <2>2, <2>3, StartingIs DEF StartIsSafe
<1>. QED BY <1>4, <1>5, <1>6

LEMMA TickKeepsInv ==
  ASSUME Types, IInv, Tick
  PROVE  IInv'
<1>1. /\ UNCHANGED <<main, ret, ap_running, radio, assoc, events, late>>
      /\ work' = work \/ (work = "timer" /\ work' = "queued")
  BY DEF Tick, apVars, airVars
<1>. QED BY <1>1, StartingIs DEF IInv, NothingYet, StartIsSafe, Pending, IdleManagerAlive

LEMMA MainKeepsInv ==
  ASSUME Types, IInv, MainThread
  PROVE  IInv'
<1> USE DEF IInv, NothingYet, StartIsSafe, IdleManagerAlive
<1>1. UNCHANGED <<events, assoc>> /\ (Pending("enabled")' <=> Pending("enabled"))
        /\ (Pending("disabled")' <=> Pending("disabled"))
  BY DEF MainThread, NoInterface, StartDhcp, enable_softap, Publish, NoteStart, ScheduleCheck,
    airVars, Pending
<1>2. CASE enable_softap
  <2>1. ~Pending("enabled") /\ ~Pending("disabled")
    BY <1>2 DEF enable_softap, Pending
  <2>. QED BY <1>1, <1>2, <2>1, StartingIs DEF enable_softap, Outcome
<1>3. CASE NoInterface \/ StartDhcp
  BY <1>1, <1>3, StartingIs DEF NoInterface, StartDhcp, airVars
<1>4. CASE Publish
  BY <1>1, <1>4, StartingIs DEF Publish, airVars
<1>5. CASE NoteStart
  BY <1>1, <1>5, StartingIs DEF NoteStart, airVars
<1>6. CASE ScheduleCheck
  BY <1>1, <1>6, StartingIs DEF ScheduleCheck, airVars
<1>. QED BY <1>2, <1>3, <1>4, <1>5, <1>6 DEF MainThread

LEMMA EventKeepsInv ==
  ASSUME Types, IInv, EventThread
  PROVE  IInv'
<1> USE DEF IInv, NothingYet
<1>1. events \in Seq(Event) /\ UNCHANGED <<main, ret, work, radio, assoc, late>>
  BY DEF Types, TypeOK, EventThread, HandleResult, TakeStationEvent, UpdateTable, apVars, airVars
<1>2. CASE UpdateTable
  <2>1. UNCHANGED <<events, ap_running, idle>>
    BY <1>2 DEF UpdateTable, apVars
  <2>. QED BY <1>1, <2>1, StartingIs DEF StartIsSafe, Pending, IdleManagerAlive
<1>3. CASE HandleResult \/ TakeStationEvent
  <2>1. /\ Pending(Head(events).kind) /\ events # <<>>
        /\ Starting' => Starting
        /\ Pending("disabled")' => Pending("disabled")
    BY <1>1, <1>3, Taking, StartingIs DEF HandleResult, TakeStationEvent, Next1Event, Dequeued
  <2>2. /\ idle' \in {idle, 0} /\ main \notin {"boot", "gone", "enable"}
        /\ \/ ap_running' = ap_running
           \/ Pending("enabled") /\ ap_running' = TRUE
           \/ Pending("disabled") /\ ap_running' = FALSE
    BY <1>3, <2>1 DEF HandleResult, TakeStationEvent, apVars
  <2>3. StartIsSafe'
    BY <1>1, <2>1, <2>2 DEF StartIsSafe
  <2>4. IdleManagerAlive'
    BY <1>1, <2>2, StartingIs DEF StartIsSafe, IdleManagerAlive
  <2>. QED BY <1>1, <2>2, <2>3, <2>4
<1>. QED BY <1>2, <1>3 DEF EventThread

LEMMA WorkKeepsInv ==
  ASSUME Types, IInv, IdleWork
  PROVE  IInv'
<1> USE DEF IInv, NothingYet
<1>1. main = "loop" /\ UNCHANGED <<main, ret, idle, events, assoc>>
  BY DEF IdleWork, CheckGivesUp, CheckAgain, RequestDisable, FinishDisable, apVars, airVars
<1>2. (Pending("enabled")' <=> Pending("enabled")) /\ (Pending("disabled")' <=> Pending("disabled"))
  BY <1>1 DEF Pending
<1>3. CASE CheckAgain
  BY <1>1, <1>2, <1>3, StartingIs DEF CheckAgain, apVars, airVars, StartIsSafe, IdleManagerAlive
<1>4. CASE CheckGivesUp \/ RequestDisable \/ FinishDisable
  <2>1. Starting => late'
    BY <1>1, <1>4 DEF CheckGivesUp, RequestDisable, FinishDisable, StartIsSafe
  <2>2. Starting' => Starting
    BY <1>2, <1>4, StartingIs DEF CheckGivesUp, RequestDisable, FinishDisable, airVars
  <2>3. IdleManagerAlive'
    BY <1>4 DEF CheckGivesUp, RequestDisable, FinishDisable, IdleManagerAlive, apVars
  <2>. QED BY <1>1, <2>1, <2>2, <2>3 DEF StartIsSafe
<1>. QED BY <1>3, <1>4 DEF IdleWork

(* The idle manager is under way as long as the access point is taken for  *)
(* running, whatever the order of the driver's answer, main()'s            *)
(* publication and the first check, unless the idle check itself overtook  *)
(* the answer.                                                             *)
THEOREM IdleManagerStaysAlive == Spec => []IdleManagerAlive
<1>1. Init => IInv
  <2> SUFFICES ASSUME Init PROVE IInv
    OBVIOUS
  <2>1. ~Starting
    BY StartingIs DEF Init, Pending
  <2>. QED BY <2>1 DEF Init, IInv, NothingYet, StartIsSafe, IdleManagerAlive
<1>2. Types /\ IInv /\ [Next]_vars => IInv'
  <2> SUFFICES ASSUME Types, IInv, [Next]_vars PROVE IInv'
    OBVIOUS
  <2>1. CASE UNCHANGED vars
    BY <2>1, StartingIs DEF vars, apVars, airVars, IInv, NothingYet, StartIsSafe, Pending,
      IdleManagerAlive
  <2>. QED BY <2>1, AirKeepsInv, TickKeepsInv, MainKeepsInv, EventKeepsInv, WorkKeepsInv DEF Next
<1>3. IInv => IdleManagerAlive
  BY DEF IInv
<1>. QED BY <1>1, <1>2, <1>3, TypesKept, PTL DEF Spec

-----------------------------------------------------------------------------
(* Histories: what the events about a station, oldest first, say of it.    *)

About(q, s) == {n \in DOMAIN q : IsAbout(q[n], s)}

\* From being in T the events of q about s lead to s being in A.
Leads(q, s, T, A) ==
  /\ About(q, s) = {} => (s \in A <=> s \in T)
  /\ \A n \in About(q, s) :
       /\ (\A m \in About(q, s) : n <= m) => (q[n].kind = "connected" <=> s \notin T)
       /\ (\A m \in About(q, s) : m <= n) => (q[n].kind = "connected" <=> s \in A)
       /\ \A m \in About(q, s) :
            m < n /\ (\A k \in About(q, s) : k <= m \/ n <= k)
              => (q[m].kind = "connected" <=> ~(q[n].kind = "connected"))

LEMMA LeadsOn ==
  ASSUME NEW q, NEW s, NEW T, NEW A, NEW U, NEW B, Leads(q, s, T, A),
         s \in U <=> s \in T, s \in B <=> s \in A
  PROVE  Leads(q, s, U, B)
BY DEF Leads

LEMMA AppendedTo ==
  ASSUME NEW q \in Seq(Event), NEW e \in Event
  PROVE  LET r == Append(q, e)
         IN /\ r \in Seq(Event) /\ Len(q) \in Nat
            /\ DOMAIN q = 1 .. Len(q) /\ DOMAIN r = 1 .. Len(q) + 1
            /\ \A n \in DOMAIN q : r[n] = q[n]
            /\ r[Len(q) + 1] = e
BY AppendProperties, LenProperties

LEMMA TailOf ==
  ASSUME NEW q \in Seq(Event), q # <<>>
  PROVE  LET r == Tail(q)
         IN /\ r \in Seq(Event) /\ Len(q) \in Nat \ {0}
            /\ DOMAIN q = 1 .. Len(q) /\ DOMAIN r = 1 .. Len(q) - 1
            /\ \A n \in DOMAIN r : r[n] = q[n + 1]
            /\ q[1] \in Event
<1>1. Len(q) \in Nat \ {0} /\ DOMAIN q = 1 .. Len(q)
  BY EmptySeq, LenProperties
<1>2. Tail(q) \in Seq(Event) /\ Len(Tail(q)) = Len(q) - 1
      /\ \A n \in 1 .. Len(Tail(q)) : Tail(q)[n] = q[n + 1]
  BY HeadTailProperties
<1>3. DOMAIN Tail(q) = 1 .. Len(Tail(q))
  BY <1>2, LenProperties
<1>4. q[1] \in Event
  BY <1>1, ElementOfSeq
<1>. QED BY <1>1, <1>2, <1>3, <1>4

\* An event about somebody else says nothing of s.
LEMMA OtherAppended ==
  ASSUME NEW q \in Seq(Event), NEW e \in Event, NEW s, NEW T, NEW A,
         Leads(q, s, T, A), ~IsAbout(e, s)
  PROVE  Leads(Append(q, e), s, T, A)
<1> DEFINE r == Append(q, e)
<1>1. About(r, s) = About(q, s)
  BY AppendedTo DEF About
<1>2. \A n \in About(q, s) : r[n] = q[n]
  BY AppendedTo DEF About
<1> HIDE DEF r
<1>3. Leads(r, s, T, A)
  BY <1>1, <1>2 DEF Leads
<1>. QED BY <1>3 DEF r

\* A new event about s turns its presence around.
LEMMA OwnAppended ==
  ASSUME NEW q \in Seq(Event), NEW e \in Event, NEW s, NEW T, NEW A, NEW B,
         Leads(q, s, T, A), IsAbout(e, s),
         e.kind = "connected" <=> s \notin A, s \in B <=> s \notin A
  PROVE  Leads(Append(q, e), s, T, B)
<1> DEFINE r == Append(q, e)
           l == Len(q) + 1
<1>1. About(r, s) = About(q, s) \cup {l} /\ l \in Nat
      /\ \A n \in About(q, s) : n \in Nat /\ n < l
  BY AppendedTo DEF About
<1>2. r[l] = e /\ \A n \in About(q, s) : r[n] = q[n]
  BY AppendedTo DEF About
<1> HIDE DEF r, l
<1>3. ASSUME NEW n \in About(r, s), \A m \in About(r, s) : n <= m
      PROVE  r[n].kind = "connected" <=> s \notin T
  <2>1. CASE n = l
    <3>1. ASSUME NEW m \in About(q, s) PROVE FALSE
      <4>1. m \in Nat /\ l \in Nat /\ m < l /\ l <= m
        BY <1>1, <1>3, <2>1
      <4>. QED BY <4>1
    <3>. QED BY <1>2, <2>1, <3>1 DEF Leads
  <2>2. CASE n # l
    BY <1>1, <1>2, <1>3, <2>2 DEF Leads
  <2>. QED BY <2>1, <2>2
<1>4. ASSUME NEW n \in About(r, s), \A m \in About(r, s) : m <= n
      PROVE  r[n].kind = "connected" <=> s \in B
  <2>1. ASSUME n # l PROVE FALSE
    <3>1. n \in Nat /\ n < l /\ l <= n
      BY <1>1, <1>4, <2>1
    <3>. QED BY <1>1, <3>1
  <2>. QED BY <1>2, <2>1
<1>5. ASSUME NEW n \in About(r, s), NEW m \in About(r, s), m < n,
             \A k \in About(r, s) : k <= m \/ n <= k
      PROVE  r[m].kind = "connected" <=> ~(r[n].kind = "connected")
  <2>1. m \in About(q, s)
    BY <1>1, <1>5
  <2>2. CASE n = l
    <3>1. \A k \in About(q, s) : k <= m
      BY <1>1, <1>5, <2>2
    <3>2. q[m].kind = "connected" <=> s \in A
      BY <2>1, <3>1 DEF Leads
    <3>. QED BY <1>2, <2>1, <2>2, <3>2
  <2>3. CASE n # l
    <3>1. n \in About(q, s) /\ \A k \in About(q, s) : k <= m \/ n <= k
      BY <1>1, <1>5, <2>3
    <3>. QED BY <1>2, <1>5, <2>1, <3>1 DEF Leads
  <2>. QED BY <2>2, <2>3
<1>6. Leads(r, s, T, B)
  BY <1>1, <1>3, <1>4, <1>5 DEF Leads
<1>. QED BY <1>6 DEF r

LEMMA OtherTaken ==
  ASSUME NEW q \in Seq(Event), q # <<>>, NEW s, NEW T, NEW A,
         Leads(q, s, T, A), ~IsAbout(q[1], s)
  PROVE  Leads(Tail(q), s, T, A)
<1> DEFINE r == Tail(q)
<1>1. /\ \A n \in About(r, s) : n \in Nat /\ n + 1 \in About(q, s) /\ r[n] = q[n + 1]
      /\ \A n \in About(q, s) : n \in Nat /\ n - 1 \in About(r, s)
  BY TailOf DEF About
<1> HIDE DEF r
<1>2. About(r, s) = {} => About(q, s) = {}
  BY <1>1
<1>3. ASSUME NEW n \in About(r, s), \A m \in About(r, s) : n <= m
      PROVE  r[n].kind = "connected" <=> s \notin T
  <2>1. \A m \in About(q, s) : n + 1 <= m
    BY <1>1, <1>3
  <2>. QED BY <1>1, <2>1 DEF Leads
<1>4. ASSUME NEW n \in About(r, s), \A m \in About(r, s) : m <= n
      PROVE  r[n].kind = "connected" <=> s \in A
  <2>1. \A m \in About(q, s) : m <= n + 1
    BY <1>1, <1>4
  <2>. QED BY <1>1, <2>1 DEF Leads
<1>5. ASSUME NEW n \in About(r, s), NEW m \in About(r, s), m < n,
             \A k \in About(r, s) : k <= m \/ n <= k
      PROVE  r[m].kind = "connected" <=> ~(r[n].kind = "connected")
  <2>1. ASSUME NEW k \in About(q, s) PROVE k <= m + 1 \/ n + 1 <= k
    <3>1. k \in Nat /\ m \in Nat /\ n \in Nat /\ (k - 1 <= m \/ n <= k - 1)
      BY <1>1, <1>5
    <3>. QED BY <3>1
  <2>2. m + 1 < n + 1
    BY <1>1, <1>5
  <2>. QED BY <1>1, <2>1, <2>2 DEF Leads
<1>6. Leads(r, s, T, A)
  BY <1>2, <1>3, <1>4, <1>5 DEF Leads
<1>. QED BY <1>6 DEF r

\* The oldest event about s turns its entry around.
LEMMA OwnTaken ==
  ASSUME NEW q \in Seq(Event), q # <<>>, NEW s, NEW T, NEW A, NEW U,
         Leads(q, s, T, A), IsAbout(q[1], s), s \in U <=> s \notin T
  PROVE  /\ q[1].kind = "connected" <=> s \notin T
         /\ Leads(Tail(q), s, U, A)
<1> DEFINE r == Tail(q)
<1>1. /\ \A n \in About(r, s) : n \in Nat /\ n > 0 /\ n + 1 \in About(q, s) /\ r[n] = q[n + 1]
      /\ \A n \in About(q, s) : n \in Nat /\ n > 0 /\ (n # 1 => n - 1 \in About(r, s))
      /\ 1 \in About(q, s)
  BY TailOf DEF About
<1> HIDE DEF r
<1>2. q[1].kind = "connected" <=> s \notin T
  BY <1>1 DEF Leads
<1>3. ASSUME About(r, s) = {}
      PROVE  s \in A <=> s \in U
  <2>1. \A m \in About(q, s) : m <= 1
    BY <1>1, <1>3
  <2>. QED BY <1>1, <1>2, <2>1 DEF Leads
<1>4. ASSUME NEW n \in About(r, s), \A m \in About(r, s) : n <= m
      PROVE  r[n].kind = "connected" <=> s \notin U
  <2>1. ASSUME NEW k \in About(q, s) PROVE k <= 1 \/ n + 1 <= k
    <3>1. k \in Nat /\ n \in Nat /\ (k = 1 \/ n <= k - 1)
      BY <1>1, <1>4
    <3>. QED BY <3>1
  <2>2. n + 1 \in About(q, s) /\ 1 < n + 1
    BY <1>1
  <2>3. q[1].kind = "connected" <=> ~(q[n + 1].kind = "connected")
    BY <1>1, <2>1, <2>2 DEF Leads
  <2>. QED BY <1>1, <1>2, <2>3
<1>5. ASSUME NEW n \in About(r, s), \A m \in About(r, s) : m <= n
      PROVE  r[n].kind = "connected" <=> s \in A
  <2>1. \A m \in About(q, s) : m <= n + 1
    BY <1>1, <1>5
  <2>. QED BY <1>1, <2>1 DEF Leads
<1>6. ASSUME NEW n \in About(r, s), NEW m \in About(r, s), m < n,
             \A k \in About(r, s) : k <= m \/ n <= k
      PROVE  r[m].kind = "connected" <=> ~(r[n].kind = "connected")
  <2>1. ASSUME NEW k \in About(q, s) PROVE k <= m + 1 \/ n + 1 <= k
    <3>1. /\ k \in Nat /\ k > 0 /\ m \in Nat /\ m > 0 /\ n \in Nat
          /\ k = 1 \/ k - 1 <= m \/ n <= k - 1
      BY <1>1, <1>6
    <3>. QED BY <3>1
  <2>2. m + 1 < n + 1
    BY <1>1, <1>6
  <2>. QED BY <1>1, <2>1, <2>2 DEF Leads
<1>7. Leads(r, s, U, A)
  BY <1>3, <1>4, <1>5, <1>6 DEF Leads
<1>. QED BY <1>2, <1>7 DEF r

-----------------------------------------------------------------------------
(* The news: the event under way and those in the queue.                   *)

LEMMA HeadAndTail ==
  ASSUME NEW S, NEW q \in Seq(S), NEW r \in Seq(S), q # <<>>, r # <<>>,
         q[1] = r[1], Tail(q) = Tail(r)
  PROVE  q = r
<1>1. Len(q) \in Nat \ {0} /\ Len(r) \in Nat \ {0}
  BY EmptySeq
<1>2. Len(Tail(q)) = Len(q) - 1 /\ Len(Tail(r)) = Len(r) - 1
  BY HeadTailProperties
<1>3. Len(q) = Len(r)
  <2>1. Len(q) - 1 = Len(r) - 1
    BY <1>2, Zenon
  <2>. QED BY <1>1, <2>1
<1>4. ASSUME NEW i \in 1 .. Len(q) PROVE q[i] = r[i]
  <2>1. CASE i = 1
    BY <2>1
  <2>2. CASE i # 1
    <3>1. i - 1 \in 1 .. Len(q) - 1 /\ (i - 1) + 1 = i
      <4>1. i \in Nat
        BY <1>4
      <4>2. i >= 1 /\ i <= Len(q)
        BY <1>1, <1>4
      <4>. QED BY <1>1, <2>2, <4>1, <4>2
    <3>2. i - 1 \in 1 .. Len(Tail(q)) /\ i - 1 \in 1 .. Len(Tail(r))
      BY <1>2, <1>3, <3>1, Zenon
    <3>3. Tail(q)[i - 1] = q[(i - 1) + 1]
      BY <3>2, HeadTailProperties
    <3>4. Tail(r)[i - 1] = r[(i - 1) + 1]
      BY <3>2, HeadTailProperties
    <3>. QED BY <3>1, <3>3, <3>4, Zenon
  <2>. QED BY <2>1, <2>2
<1>. QED BY <1>3, <1>4, SeqEqual

LEMMA NewsOf ==
  ASSUME NEW h \in Seq(Event), NEW q \in Seq(Event)
  PROVE  /\ h \o q \in Seq(Event)
         /\ h = <<>> => h \o q = q
         /\ \A e : h = <<e>> => h \o q # <<>> /\ (h \o q)[1] = e /\ Tail(h \o q) = q
<1>1. h \o q \in Seq(Event) /\ Len(h \o q) = Len(h) + Len(q)
      /\ \A n \in 1 .. Len(h) + Len(q) :
           (h \o q)[n] = IF n <= Len(h) THEN h[n] ELSE q[n - Len(h)]
  BY ConcatProperties
<1>2. h = <<>> => h \o q = q
  BY ConcatEmptySeq
<1>3. ASSUME NEW e, h = <<e>>
      PROVE  h \o q # <<>> /\ (h \o q)[1] = e /\ Tail(h \o q) = q
  <2> DEFINE r == h \o q
  <2>1. Len(h) = 1 /\ h[1] = e /\ Len(q) \in Nat
    BY <1>3, LenProperties
  <2>2. Len(r) = Len(q) + 1 /\ r[1] = e /\ \A n \in 1 .. Len(q) : r[n + 1] = q[n]
    BY <1>1, <2>1
  <2>3. r # <<>>
    BY <2>1, <2>2, EmptySeq
  <2>4. Tail(r) \in Seq(Event) /\ Len(Tail(r)) = Len(q)
        /\ \A n \in 1 .. Len(q) : Tail(r)[n] = q[n]
    BY <1>1, <2>1, <2>2, <2>3, HeadTailProperties
  <2>. QED BY <2>2, <2>3, <2>4, SeqEqual
<1>. QED BY <1>1, <1>2, <1>3

LEMMA NewsType ==
  ASSUME Types
  PROVE  /\ News \in Seq(Event) /\ events \in Seq(Event)
         /\ handling = <<>> => News = events
         /\ \A e : handling = <<e>> => News # <<>> /\ News[1] = e /\ Tail(News) = events
BY NewsOf DEF Types, TypeOK, News

LEMMA NewsTypeNext ==
  ASSUME Types'
  PROVE  /\ News' \in Seq(Event) /\ events' \in Seq(Event)
         /\ handling' = <<>> => News' = events'
         /\ \A e : handling' = <<e>> => News' # <<>> /\ News'[1] = e /\ Tail(News') = events'
BY NewsOf DEF Types, TypeOK, News

LEMMA NewsPosted ==
  ASSUME Types, NEW e \in Event, Post(e), handling' = handling
  PROVE  News' = Append(News, e)
<1>1. handling \in Seq(Event) /\ events \in Seq(Event) /\ News \in Seq(Event)
      /\ <<e>> \in Seq(Event)
  BY NewsType, OneEvent DEF Types, TypeOK
<1>2. News' = handling \o (events \o <<e>>)
  BY <1>1, AppendIsConcat DEF Post, News
<1>3. News' = (handling \o events) \o <<e>>
  BY <1>1, <1>2, ConcatAssociative
<1>. QED BY <1>1, <1>3, AppendIsConcat DEF News

\* The event thread takes up the oldest event: it is handled at once, or
\* stays news until the table is updated.
LEMMA NewsTaken ==
  ASSUME Types, Types', HandleResult \/ TakeStationEvent
  PROVE  /\ News # <<>> /\ News[1] = Head(events)
         /\ HandleResult => News' = Tail(News)
         /\ TakeStationEvent => News' = News
<1>1. handling = <<>> /\ events # <<>> /\ events' = Tail(events) /\ events \in Seq(Event)
  BY DEF HandleResult, TakeStationEvent, Next1Event, Dequeued, Types, TypeOK
<1>2. News = events /\ events[1] = Head(events)
  BY <1>1, NewsType
<1>3. ASSUME HandleResult PROVE News' = Tail(News)
  <2>1. handling' = <<>>
    BY <1>1, <1>3 DEF HandleResult
  <2>2. News' = events'
    BY <2>1, NewsTypeNext
  <2>. QED BY <1>1, <1>2, <2>2
<1>4. ASSUME TakeStationEvent PROVE News' = News
  <2>1. handling' = <<Head(events)>>
    BY <1>4 DEF TakeStationEvent
  <2>2. News' # <<>> /\ News'[1] = Head(events) /\ Tail(News') = Tail(events)
        /\ News' \in Seq(Event)
    BY <1>1, <2>1, NewsTypeNext
  <2>3. News' = events
    BY <1>1, <2>2, HeadAndTail
  <2>. QED BY <1>2, <2>3
<1>. QED BY <1>1, <1>2, <1>3, <1>4

-----------------------------------------------------------------------------
(* The station table.                                                      *)

LEMMA Least ==
  ASSUME NEW S \in SUBSET Nat, S # {}
  PROVE  \E n \in S : \A m \in S : n <= m
<1>1. PICK n \in S : \A m \in S : <<m, n>> \notin OpToRel(<, Nat)
  BY NatLessThanWellFounded, WFMin
<1>2. ASSUME NEW m \in S, m < n PROVE FALSE
  <2>1. <<m, n>> \in Nat \X Nat
    OBVIOUS
  <2>2. <<m, n>> \in OpToRel(<, Nat)
    BY <1>2, <2>1 DEF OpToRel
  <2>. QED BY <1>1, <2>2
<1>. QED BY <1>2

LEMMA OneEntryChanges ==
  ASSUME Types, NEW S \in SUBSET Entry, S # {}, NEW v, FirstBecomes(S, v)
  PROVE  \E f \in S : \A e \in Entry : sta_list'[e] = IF e = f THEN v ELSE sta_list[e]
<1>1. S \in SUBSET Nat
  BY DEF Entry
<1>2. PICK f \in S : \A e \in S : f <= e
  BY <1>1, Least
<1>3. \A e \in Entry : (e \in S /\ \A g \in S : e <= g) <=> e = f
  BY <1>1, <1>2
<1>. QED BY <1>2, <1>3 DEF FirstBecomes

\* The stations in the table.
Stations == {s \in Sta : \E e \in Entry : sta_list[e] = s}

\* There is an entry for every station.
Room == IsFiniteSet(Sta) /\ Cardinality(Sta) <= MaxStations

\* No station is in the table twice.
EntriesApart ==
  \A e, f \in Entry : sta_list[e] \in Sta /\ sta_list[e] = sta_list[f] => e = f

\* A station that is not in the table finds a free entry: otherwise the
\* others, fewer than the entries, would fill them all, each only one.
LEMMA EntryFree ==
  ASSUME Room, Types, EntriesApart, NEW s \in Sta \ Stations
  PROVE  Entry \ Tracked # {}
<1> SUFFICES ASSUME Entry \subseteq Tracked PROVE FALSE
  OBVIOUS
<1>1. sta_list \in [Entry -> Sta \ {s}]
  BY DEF Types, TypeOK, Tracked, Stations
<1>2. IsFiniteSet(Entry) /\ Cardinality(Entry) = MaxStations
  <2>1. 1 \in Int /\ MaxStations \in Int /\ ~(1 > MaxStations)
    OBVIOUS
  <2>2. /\ IsFiniteSet(Entry)
        /\ Cardinality(Entry) = IF 1 > MaxStations THEN 0 ELSE MaxStations - 1 + 1
    BY <2>1, FS_Interval DEF Entry
  <2>. QED BY <2>1, <2>2
<1>3. IsFiniteSet(Sta \ {s}) /\ Cardinality(Sta \ {s}) = Cardinality(Sta) - 1
  BY FS_RemoveElement DEF Room
<1>4. Cardinality(Sta \ {s}) < Cardinality(Entry)
  <2>1. Cardinality(Sta) \in Nat
    BY FS_CardinalityType DEF Room
  <2>. QED BY <1>2, <1>3, <2>1 DEF Room
<1>5. PICK e, f \in Entry : e # f /\ sta_list[e] = sta_list[f]
  BY <1>1, <1>2, <1>3, <1>4, FS_PigeonHole
<1>. QED BY <1>1, <1>5 DEF EntriesApart

\* T is a table that always had room: the stations in sta_list are in it, and
\* are all of it if sta_list has room; the news leads from T to where they are.
Ledger(T) ==
  /\ T \subseteq Sta /\ Stations \subseteq T /\ (Room => T = Stations)
  /\ \A s \in Sta : Leads(News, s, T, assoc)

TableInv == EntriesApart /\ \E T \in SUBSET Sta : Ledger(T)

LEMMA AirKeepsTable ==
  ASSUME Types, TableInv,
         RadioStarts \/ RadioStops \/ RadioStaysOn \/ \E s \in Sta : Join(s) \/ Leave(s)
  PROVE  TableInv'
<1>1. sta_list' = sta_list /\ handling' = handling
  BY DEF RadioStarts, RadioStops, RadioStaysOn, Join, Leave
<1>2. Stations' = Stations /\ News \in Seq(Event)
  BY <1>1, NewsType DEF Stations
<1> PICK T \in SUBSET Sta : Ledger(T)
  BY DEF TableInv
<1>3. CASE RadioStarts \/ RadioStops \/ RadioStaysOn
  <2>1. PICK k \in {"enabled", "disabled"}, ok \in BOOLEAN : Post([kind |-> k, ok |-> ok])
    BY <1>3 DEF RadioStarts, RadioStops, RadioStaysOn, Outcome
  <2>2. assoc' = assoc
    BY <1>3 DEF RadioStarts, RadioStops, RadioStaysOn
  <2> DEFINE e == [kind |-> k, ok |-> ok]
  <2>3. e \in Event /\ \A s : ~IsAbout(e, s)
    BY EventKinds DEF IsAbout
  <2>4. News' = Append(News, e)
    BY <1>1, <2>1, <2>3, NewsPosted
  <2> HIDE DEF e
  <2>5. ASSUME NEW s \in Sta PROVE Leads(News', s, T, assoc')
    BY <1>2, <2>2, <2>3, <2>4, OtherAppended DEF Ledger
  <2>. QED BY <1>1, <1>2, <2>5 DEF TableInv, EntriesApart, Ledger
<1>4. ASSUME NEW t \in Sta, Join(t) \/ Leave(t) PROVE TableInv'
  <2>1. PICK k \in {"connected", "disconnected"} :
          /\ Post([kind |-> k, sta |-> t])
          /\ k = "connected" <=> t \notin assoc
          /\ \A s \in Sta : s \in assoc' <=> IF s = t THEN t \notin assoc ELSE s \in assoc
    BY <1>4 DEF Join, Leave
  <2> DEFINE e == [kind |-> k, sta |-> t]
  <2>2. e \in Event /\ e.kind = k /\ \A s : IsAbout(e, s) <=> s = t
    BY EventKinds DEF IsAbout
  <2>3. News' = Append(News, e)
    BY <1>1, <2>1, <2>2, NewsPosted
  <2> HIDE DEF e
  <2>4. ASSUME NEW s \in Sta PROVE Leads(News', s, T, assoc')
    <3>1. Leads(News, s, T, assoc)
      BY DEF Ledger
    <3>2. CASE s = t
      BY <1>2, <2>1, <2>2, <2>3, <3>1, <3>2, OwnAppended
    <3>3. CASE s # t
      <4>1. Leads(News', s, T, assoc)
        BY <1>2, <2>2, <2>3, <3>1, <3>3, OtherAppended
      <4>2. s \in assoc' <=> s \in assoc
        BY <2>1, <3>3
      <4>. QED BY <1>2, <4>1, <4>2, LeadsOn
    <3>. QED BY <3>2, <3>3
  <2>. QED BY <1>1, <1>2, <2>4 DEF TableInv, EntriesApart, Ledger
<1>. QED BY <1>3, <1>4

LEMMA TakingKeepsTable ==
  ASSUME Types, Types', TableInv, HandleResult \/ TakeStationEvent
  PROVE  TableInv'
<1>1. sta_list' = sta_list /\ assoc' = assoc
  BY DEF HandleResult, TakeStationEvent, airVars
<1>2. Stations' = Stations /\ News \in Seq(Event)
  BY <1>1, NewsType DEF Stations
<1> PICK T \in SUBSET Sta : Ledger(T)
  BY DEF TableInv
<1>3. ASSUME NEW s \in Sta PROVE Leads(News', s, T, assoc')
  <2>1. Leads(News, s, T, assoc)
    BY DEF Ledger
  <2>2. CASE HandleResult
    <3>1. News # <<>> /\ News' = Tail(News) /\ ~IsAbout(News[1], s)
      BY <2>2, NewsTaken DEF HandleResult, IsAbout
    <3>. QED BY <1>1, <1>2, <2>1, <3>1, OtherTaken
  <2>3. CASE TakeStationEvent
    BY <1>1, <1>2, <2>1, <2>3, NewsTaken
  <2>. QED BY <2>2, <2>3
<1>. QED BY <1>1, <1>2, <1>3 DEF TableInv, EntriesApart, Ledger

LEMMA UpdateKeepsTable ==
  ASSUME Types, Types', TableInv, UpdateTable
  PROVE  TableInv'
<1>1. PICK h \in StationEvent : handling = <<h>>
  BY DEF UpdateTable, HandlingStation, Types
<1> PICK T \in SUBSET Sta : Ledger(T)
  BY DEF TableInv
<1> DEFINE t == h.sta
<1>2. /\ h \in Event /\ t \in Sta /\ h.kind \in {"connected", "disconnected"}
      /\ \A s : IsAbout(h, s) <=> s = t
  BY DEF StationEvent, Event, IsAbout
<1>3. News \in Seq(Event) /\ News # <<>> /\ News[1] = h /\ News' = Tail(News)
  <2>1. handling' = <<>> /\ events' = events
    BY DEF UpdateTable
  <2>. QED BY <1>1, <2>1, NewsType, NewsTypeNext
<1>4. handling[1] = h /\ assoc' = assoc
  BY <1>1 DEF UpdateTable, airVars
<1>5. /\ h.kind = "connected" => FirstBecomes(Entry \ Tracked, t)
      /\ h.kind # "connected" => FirstBecomes({e \in Tracked : sta_list[e] = t}, NoSta)
  BY <1>4 DEF UpdateTable
<1> HIDE DEF t
<1> DEFINE U == IF t \in T THEN T \ {t} ELSE T \cup {t}
<1>6. h.kind = "connected" <=> t \notin T
  <2>1. Leads(News, t, T, assoc) /\ IsAbout(News[1], t) /\ (t \in U <=> t \notin T)
    BY <1>2, <1>3 DEF Ledger
  <2>. QED BY <1>3, <2>1, OwnTaken
<1>7. EntriesApart' /\ Stations' \subseteq U /\ (Room => U = Stations')
  <2>1. CASE t \notin T /\ Entry \ Tracked # {}
    <3>1. PICK f \in Entry \ Tracked :
            \A e \in Entry : sta_list'[e] = IF e = f THEN t ELSE sta_list[e]
      BY <1>5, <1>6, <2>1, OneEntryChanges
    <3>2. sta_list[f] = NoSta /\ t \notin Stations
      BY <2>1, <3>1 DEF Tracked, Ledger
    <3>3. EntriesApart'
      BY <1>2, <3>1, <3>2 DEF TableInv, EntriesApart, Stations
    <3>4. Stations' = Stations \cup {t}
      BY <1>2, <3>1, <3>2 DEF Stations
    <3>. QED BY <2>1, <3>3, <3>4 DEF Ledger
  <2>2. CASE t \notin T /\ Entry \ Tracked = {}
    <3>1. \A e \in Entry : sta_list'[e] = sta_list[e]
      BY <1>5, <1>6, <2>2 DEF FirstBecomes
    <3>2. EntriesApart' /\ Stations' = Stations
      BY <3>1 DEF TableInv, EntriesApart, Stations
    <3>3. ~Room
      BY <1>2, <2>2, EntryFree DEF TableInv, Ledger
    <3>. QED BY <2>2, <3>2, <3>3 DEF Ledger
  <2>3. CASE t \in T
    <3> DEFINE S == {e \in Tracked : sta_list[e] = t}
    <3>1. FirstBecomes(S, NoSta)
      BY <1>5, <1>6, <2>3
    <3>2. S \in SUBSET Entry /\ (S = {} <=> t \notin Stations)
      BY <1>2 DEF Stations, Tracked
    <3>3. CASE S = {}
      <4>1. \A e \in Entry : sta_list'[e] = sta_list[e]
        BY <3>1, <3>3 DEF FirstBecomes
      <4>2. EntriesApart' /\ Stations' = Stations
        BY <4>1 DEF TableInv, EntriesApart, Stations
      <4>. QED BY <2>3, <3>2, <3>3, <4>2 DEF Ledger
    <3>4. CASE S # {}
      <4> HIDE DEF S
      <4>1. PICK f \in S : \A e \in Entry : sta_list'[e] = IF e = f THEN NoSta ELSE sta_list[e]
        BY <3>1, <3>2, <3>4, OneEntryChanges
      <4>2. f \in Entry /\ sta_list[f] = t
        BY DEF S, Tracked
      <4>3. EntriesApart'
        BY <4>1, <4>2 DEF TableInv, EntriesApart
      <4>4. Stations' = Stations \ {t}
        BY <1>2, <4>1, <4>2 DEF TableInv, EntriesApart, Stations
      <4>. QED BY <2>3, <4>3, <4>4 DEF Ledger
    <3>. QED BY <3>3, <3>4
  <2>. QED BY <2>1, <2>2, <2>3
<1>8. U \in SUBSET Sta /\ \A s \in Sta : s \in U <=> IF s = t THEN t \notin T ELSE s \in T
  BY <1>2
<1> HIDE DEF U
<1>9. ASSUME NEW s \in Sta PROVE Leads(News', s, U, assoc')
  <2>1. Leads(News, s, T, assoc)
    BY DEF Ledger
  <2>2. CASE s = t
    BY <1>2, <1>3, <1>4, <1>8, <2>1, <2>2, OwnTaken
  <2>3. CASE s # t
    <3>1. Leads(News', s, T, assoc)
      BY <1>2, <1>3, <2>1, <2>3, OtherTaken
    <3>2. s \in U <=> s \in T
      BY <1>8, <2>3
    <3>. QED BY <1>4, <3>1, <3>2, LeadsOn
  <2>. QED BY <2>2, <2>3
<1>. QED BY <1>7, <1>8, <1>9 DEF TableInv, Ledger

LEMMA TableKept == Spec => []TableInv
<1>1. Init => TableInv
  <2> SUFFICES ASSUME Init PROVE TableInv
    OBVIOUS
  <2>1. News = <<>>
    BY DEF Init, News
  <2>2. Stations = {} /\ assoc = {} /\ EntriesApart
    BY DEF Init, Stations, EntriesApart
  <2>3. \A s \in Sta : About(News, s) = {}
    BY <2>1 DEF About
  <2>4. Ledger({})
    BY <2>2, <2>3 DEF Ledger, Leads
  <2>. QED BY <2>2, <2>4 DEF TableInv
<1>2. Types /\ Types' /\ TableInv /\ [Next]_vars => TableInv'
  <2> SUFFICES ASSUME Types, Types', TableInv, [Next]_vars PROVE TableInv'
    OBVIOUS
  <2>1. CASE UNCHANGED vars \/ Tick \/ MainThread \/ IdleWork
    <3>1. UNCHANGED <<sta_list, assoc, handling, events>>
      BY <2>1 DEF vars, apVars, airVars, Tick, MainThread, NoInterface, StartDhcp, enable_softap,
        Publish, NoteStart, ScheduleCheck, IdleWork, CheckGivesUp, CheckAgain, RequestDisable,
        FinishDisable
    <3>2. News' = News /\ Stations' = Stations
      BY <3>1 DEF News, Stations
    <3>. QED BY <3>1, <3>2 DEF TableInv, EntriesApart, Ledger
  <2>. QED BY <2>1, AirKeepsTable, TakingKeepsTable, UpdateKeepsTable DEF Next, EventThread
<1>. QED BY <1>1, <1>2, TypesKept, PTL DEF Spec

LEMMA TableInvSays ==
  ASSUME Room, Types, TableInv
  PROVE  /\ TableFollowsEvents
         /\ \A s \in Sta : Unseen(s) = {} => (s \in assoc <=> s \in Stations)
<1>1. \A s \in Sta : Unseen(s) = About(News, s) /\ Leads(News, s, Stations, assoc)
  BY DEF TableInv, Ledger, Unseen, About
<1>2. \A s \in Sta : s \in Stations <=> \E e \in Entry : sta_list[e] = s
  BY DEF Stations
<1>3. \A s \in Sta : \A e, f \in Entry : sta_list[e] = s /\ sta_list[f] = s => e = f
  BY DEF TableInv, EntriesApart
<1>4. ASSUME NEW s \in Sta, NEW tracked, tracked <=> s \in Stations
      PROVE  /\ Unseen(s) = {} => (s \in assoc <=> tracked)
             /\ \A n \in Unseen(s) :
                  /\ (\A m \in Unseen(s) : n <= m) => (Joins(n) <=> ~tracked)
                  /\ (\A m \in Unseen(s) : m <= n) => (Joins(n) <=> s \in assoc)
                  /\ \A m \in Unseen(s) :
                       m < n /\ (\A k \in Unseen(s) : k <= m \/ n <= k) => (Joins(m) <=> ~Joins(n))
  BY <1>1, <1>4 DEF Leads, Joins
<1>5. TableFollowsEvents
  BY <1>2, <1>3, <1>4 DEF TableFollowsEvents
<1>. QED BY <1>1, <1>5 DEF Leads

(* With an entry for every station the table lags behind the air only by   *)
(* the events not handled yet, however long they wait and in whatever      *)
(* order stations come and go: each station has one entry or none, its     *)
(* events alternate from that entry on, and they end where it is now.      *)
THEOREM TableFollows == ASSUME Room PROVE Spec => []TableFollowsEvents
<1>1. Types /\ TableInv => TableFollowsEvents
  BY TableInvSays
<1>. QED BY <1>1, TableKept, TypesKept, PTL

\* A station in the table is there once, and is on the air unless an event
\* about it has not been handled yet.
NoStaleEntry ==
  \A s \in Sta : \A e \in Entry :
    sta_list[e] = s =>
      /\ \A f \in Entry : sta_list[f] = s => f = e
      /\ Unseen(s) = {} => s \in assoc

(* However small the table is, what is in it is right: a station that      *)
(* found no entry is missing from it, but no entry is left behind by one   *)
(* that has gone, which would keep an unused access point on for ever.     *)
THEOREM EntriesAreNotStale == Spec => []NoStaleEntry
<1>1. TableInv => NoStaleEntry
  <2> SUFFICES ASSUME TableInv, NEW s \in Sta, NEW e \in Entry, sta_list[e] = s
               PROVE  /\ \A f \in Entry : sta_list[f] = s => f = e
                      /\ Unseen(s) = {} => s \in assoc
    BY DEF NoStaleEntry
  <2>1. PICK T \in SUBSET Sta : Ledger(T)
    BY DEF TableInv
  <2>2. s \in T /\ Leads(News, s, T, assoc)
    BY <2>1 DEF Ledger, Stations
  <2>3. Unseen(s) = About(News, s)
    BY DEF Unseen, About
  <2>. QED BY <2>2, <2>3 DEF Leads, TableInv, EntriesApart
<1>. QED BY <1>1, TableKept, PTL

(* With an entry for every station nobody is cut off: when the idle check  *)
(* turns the access point off, every station on the air still has an event *)
(* about it on its way - even if the driver answers requests late.         *)
THEOREM NobodyIsCutOff == ASSUME Room PROVE Spec => CutsOffNobody
<1>1. Types /\ TableInv => (RequestDisable => \A s \in assoc : Unseen(s) # {})
  <2> SUFFICES ASSUME Types, TableInv, RequestDisable, NEW s \in assoc, Unseen(s) = {}
               PROVE  FALSE
    OBVIOUS
  <2>1. s \in Sta /\ s \in Stations
    BY TableInvSays DEF Types, TypeOK
  <2>2. Tracked # {}
    BY <2>1 DEF Stations, Tracked
  <2>. QED BY <2>2 DEF RequestDisable, IdleTooLong
<1>. QED BY <1>1, TableKept, TypesKept, PTL DEF Spec, CutsOffNobody

-----------------------------------------------------------------------------
(* The idle clock.                                                         *)

\* Activity is noted when its event is handled, which may be later than it
\* happened but not earlier: with nobody on the air the clock has run longer
\* than the air has been empty only while a departure waits to be noted.
ClockInv ==
  assoc = {} /\ idle > empty_for => Pending("connected") \/ Pending("disconnected")

LEMMA ClockKept ==
  ASSUME Types, ClockInv, [Next]_vars
  PROVE  ClockInv'
<1> USE DEF ClockInv
<1>1. events \in Seq(Event) /\ idle \in Nat /\ empty_for \in Nat
  BY DEF Types, TypeOK
<1>2. ASSUME NEW e \in Event, Post(e)
      PROVE  /\ \A kind : Pending(kind) => Pending(kind)'
             /\ Pending(e.kind)'
  <2>1. \A n \in DOMAIN events : n \in DOMAIN events' /\ events'[n] = events[n]
    BY <1>1, <1>2, AppendedTo DEF Post
  <2>2. \E n \in DOMAIN events' : events'[n] = e
    BY <1>1, <1>2, AppendedTo DEF Post
  <2>. QED BY <2>1, <2>2 DEF Pending
<1>3. CASE RadioStarts \/ RadioStops \/ RadioStaysOn
  <2>1. PICK k \in {"enabled", "disabled"}, ok \in BOOLEAN : Post([kind |-> k, ok |-> ok])
    BY <1>3 DEF RadioStarts, RadioStops, RadioStaysOn, Outcome
  <2>2. UNCHANGED <<assoc, idle, empty_for>>
    BY <1>3 DEF RadioStarts, RadioStops, RadioStaysOn
  <2>. QED BY <1>2, <2>1, <2>2, EventKinds
<1>4. ASSUME NEW s \in Sta, Join(s) PROVE ClockInv'
  BY <1>4 DEF Join
<1>5. ASSUME NEW s \in Sta, Leave(s) PROVE ClockInv'
  BY <1>2, <1>5, EventKinds DEF Leave
<1>6. CASE Tick
  <2>1. assoc' = assoc /\ events' = events
    BY <1>6 DEF Tick, airVars
  <2>2. assoc = {} /\ idle' > empty_for' => idle > empty_for
    BY <1>1, <1>6 DEF Tick, MinOf
  <2>. QED BY <2>1, <2>2 DEF Pending
<1>7. CASE HandleResult
  <2>1. /\ events # <<>> /\ events' = Tail(events) /\ assoc' = assoc /\ empty_for' = empty_for
        /\ idle' \in {0, idle} /\ events[1].kind \in {"enabled", "disabled"}
    BY <1>7 DEF HandleResult, Next1Event, Dequeued, airVars
  <2>2. \A n \in DOMAIN events : n # 1 => n - 1 \in DOMAIN events' /\ events'[n - 1] = events[n]
    BY <1>1, <2>1, TailOf
  <2>3. /\ Pending("connected") => Pending("connected")'
        /\ Pending("disconnected") => Pending("disconnected")'
    BY <2>1, <2>2 DEF Pending
  <2>. QED BY <1>1, <2>1, <2>3
<1>8. CASE TakeStationEvent \/ NoteStart
  BY <1>1, <1>8 DEF TakeStationEvent, NoteStart, airVars
<1>9. CASE UNCHANGED vars \/ UpdateTable \/ IdleWork \/ (MainThread /\ ~NoteStart)
  <2>1. UNCHANGED <<assoc, idle, empty_for, events>>
    BY <1>9 DEF vars, apVars, airVars, UpdateTable, MainThread, NoInterface, StartDhcp,
      enable_softap, Publish, ScheduleCheck, IdleWork, CheckGivesUp, CheckAgain, RequestDisable,
      FinishDisable
  <2>. QED BY <2>1 DEF Pending
<1>. QED BY <1>3, <1>4, <1>5, <1>6, <1>7, <1>8, <1>9 DEF Next, EventThread, MainThread

(* With an entry for every station and no news of one on its way, the      *)
(* access point is turned off only when nobody was on the air for the      *)
(* whole idle timeout, whatever the order of arrivals, departures, their   *)
(* events and the check.                                                   *)
THEOREM OnlyTurnedOffWhenIdle == ASSUME Room PROVE Spec => NotTurnedOffEarly
<1>1. Init => ClockInv
  BY DEF Init, ClockInv
<1>2. Types /\ ClockInv /\ [Next]_vars => ClockInv'
  BY ClockKept
<1>3. Types /\ TableInv /\ ClockInv =>
        (RequestDisable /\ (\A s \in Sta : Unseen(s) = {}) => empty_for >= IdleTimeout)
  <2> SUFFICES ASSUME Types, TableInv, ClockInv, RequestDisable, \A s \in Sta : Unseen(s) = {}
               PROVE  empty_for >= IdleTimeout
    OBVIOUS
  <2>1. Stations = {} /\ idle >= IdleTimeout
    BY DEF RequestDisable, IdleTooLong, Stations, Tracked
  <2>2. assoc = {}
    BY <2>1, TableInvSays DEF Types, TypeOK
  <2>3. ~Pending("connected") /\ ~Pending("disconnected")
    <3> SUFFICES ASSUME NEW n \in DOMAIN events, events[n].kind \in {"connected", "disconnected"}
                 PROVE  FALSE
      BY DEF Pending
    <3>1. /\ handling \in Seq(Event) /\ events \in Seq(Event) /\ News \in Seq(Event)
          /\ Len(handling) \in Nat /\ Len(events) \in Nat /\ n \in 1 .. Len(events)
      BY NewsType, LenProperties DEF Types, TypeOK
    <3>2. /\ Len(handling) + n \in 1 .. Len(handling) + Len(events)
          /\ ~(Len(handling) + n <= Len(handling)) /\ (Len(handling) + n) - Len(handling) = n
      BY <3>1
    <3>3. Len(handling) + n \in DOMAIN News /\ News[Len(handling) + n] = events[n]
      BY <3>1, <3>2, ConcatProperties, LenProperties DEF News
    <3>4. events[n].sta \in Sta
      BY <3>1, ElementOfSeq, EventKinds DEF StationEvent
    <3>. QED BY <3>3, <3>4 DEF Unseen, IsAbout
  <2>. QED BY <2>1, <2>2, <2>3 DEF ClockInv, Types, TypeOK
<1>. QED BY <1>1, <1>2, <1>3, TableKept, TypesKept, PTL DEF Spec, NotTurnedOffEarly

=============================================================================
