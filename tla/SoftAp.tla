------------------------------- MODULE SoftAp -------------------------------
(***************************************************************************)
(* The Wi-Fi SoftAP sample (wifi/wifi_softAP/src/main.c): the main thread  *)
(* starts the access point, the net_mgmt event thread keeps a table of     *)
(* connected stations, and a delayable work item turns the access point    *)
(* off when nobody has used it for a while.  The Wi-Fi driver and the      *)
(* stations are the environment.                                           *)
(*                                                                         *)
(* Time is counted in units that are long against the work of a handler:   *)
(* no thread rests within a handler while a unit passes.  The workqueue is *)
(* cooperative, so the idle check runs up to its first blocking call in    *)
(* one step.                                                               *)
(***************************************************************************)
EXTENDS Integers, Sequences

CONSTANTS
  Sta,              \* stations, by MAC address
  NoSta,            \* marks a free entry of sta_list
  MaxStations,      \* CONFIG_RESPEAKER_WIFI_SOFTAP_MAX_STATIONS
  IdleTimeout,      \* CONFIG_RESPEAKER_WIFI_SOFTAP_IDLE_TIMEOUT_SEC, in units
  CheckPeriod,      \* CONFIG_RESPEAKER_WIFI_SOFTAP_IDLE_CHECK_PERIOD_SEC
  MaxEvents,        \* events the stations may cause before one is handled
  MaxLag,           \* units an event may wait for the event thread
  RequestsMayFail   \* requests to the driver and the DHCP server may fail

ASSUME SoftApAssumption ==
  /\ NoSta \notin Sta
  /\ MaxStations \in Nat \ {0} /\ MaxEvents \in Nat \ {0}
  /\ IdleTimeout \in Nat \ {0} /\ CheckPeriod \in Nat \ {0}
  /\ MaxLag \in Nat
  /\ RequestsMayFail \in BOOLEAN

VARIABLES
  main,         \* where the main thread is
  ret,          \* enable_softap() returned 0
  ap_running,
  dhcp,         \* the DHCPv4 server runs
  idle,         \* units since last_activity_ms
  sta_list,     \* per entry: the station in it, or NoSta
  handling,     \* the station event whose table update is under way, or <<>>
  work,         \* idle_power_mgr_work: "none", "timer", "queued" or "disabling"
  timer,        \* units to its timeout
  radio,        \* the access point: "off", "starting", "on" or "stopping"
  assoc,        \* the stations associated with it
  events,       \* events the event thread has not taken up
  lag,          \* units the oldest of them has waited
  empty_for,    \* units since a station was last associated
  late          \* the answer to the start was still to be handled when the
                \* idle check asked for the access point to stop

apVars  == <<main, ret, ap_running, dhcp>>
airVars == <<radio, assoc>>
history == <<empty_for, late>>
vars == <<apVars, idle, sta_list, handling, work, timer, airVars, events, lag, history>>

Entry == 1 .. MaxStations
Event == [kind : {"enabled", "disabled"}, ok : BOOLEAN]
           \cup [kind : {"connected", "disconnected"}, sta : Sta]

MinOf(a, b) == IF a < b THEN a ELSE b

TypeOK ==
  /\ main \in {"boot", "gone", "enable", "publish", "note", "schedule", "loop"}
  /\ ret \in BOOLEAN /\ ap_running \in BOOLEAN /\ dhcp \in BOOLEAN
  /\ idle \in 0 .. IdleTimeout
  /\ sta_list \in [Entry -> Sta \cup {NoSta}]
  /\ handling \in Seq(Event) /\ Len(handling) <= 1
  /\ work \in {"none", "timer", "queued", "disabling"}
  /\ timer \in 0 .. CheckPeriod
  /\ radio \in {"off", "starting", "on", "stopping"}
  /\ assoc \subseteq Sta
  /\ events \in Seq(Event)
  /\ lag \in 0 .. MaxLag
  /\ empty_for \in 0 .. IdleTimeout
  /\ late \in BOOLEAN

Init ==
  /\ main = "boot"
  /\ ret = FALSE /\ ap_running = FALSE /\ dhcp = FALSE
  /\ idle = 0
  /\ sta_list = [e \in Entry |-> NoSta]
  /\ handling = <<>>
  /\ work = "none" /\ timer = 0
  /\ radio = "off" /\ assoc = {}
  /\ events = <<>> /\ lag = 0
  /\ empty_for = 0 /\ late = FALSE

Outcome == {TRUE} \cup (IF RequestsMayFail THEN {FALSE} ELSE {})

Tracked == {e \in Entry : sta_list[e] # NoSta}

-----------------------------------------------------------------------------
(* The Wi-Fi driver and the stations.                                      *)

Post(event) == events' = Append(events, event)

\* The driver answers the enable request.
RadioStarts ==
  /\ radio = "starting"
  /\ \E ok \in Outcome :
       /\ radio' = IF ok THEN "on" ELSE "off"
       /\ Post([kind |-> "enabled", ok |-> ok])
  /\ UNCHANGED <<apVars, idle, sta_list, handling, work, timer, assoc, lag, history>>

Join(s) ==
  /\ radio = "on" /\ s \notin assoc /\ Len(events) < MaxEvents
  /\ assoc' = assoc \cup {s}
  /\ empty_for' = 0
  /\ Post([kind |-> "connected", sta |-> s])
  /\ UNCHANGED <<apVars, idle, sta_list, handling, work, timer, radio, lag, late>>

\* A station goes, or is sent away when the access point stops.
Leave(s) ==
  /\ s \in assoc /\ (Len(events) < MaxEvents \/ radio = "stopping")
  /\ assoc' = assoc \ {s}
  /\ Post([kind |-> "disconnected", sta |-> s])
  /\ UNCHANGED <<apVars, idle, sta_list, handling, work, timer, radio, lag, history>>

RadioStops ==
  /\ radio = "stopping" /\ assoc = {}
  /\ radio' = "off"
  /\ Post([kind |-> "disabled", ok |-> TRUE])
  /\ UNCHANGED <<apVars, idle, sta_list, handling, work, timer, assoc, lag, history>>

\* The disable request comes to nothing while the interface is still up.
RadioStaysOn ==
  /\ RequestsMayFail
  /\ radio = "stopping" /\ work = "disabling" /\ Len(events) < MaxEvents
  /\ radio' = "on"
  /\ Post([kind |-> "disabled", ok |-> FALSE])
  /\ UNCHANGED <<apVars, idle, sta_list, handling, work, timer, assoc, lag, history>>

\* The event thread and the workqueue do their work within the unit, but for
\* the events that may wait.
Prompt ==
  /\ handling = <<>> /\ work # "queued"
  /\ events # <<>> => lag < MaxLag

Tick ==
  /\ Prompt
  /\ idle' = MinOf(idle + 1, IdleTimeout)
  /\ empty_for' = IF assoc = {} THEN MinOf(empty_for + 1, IdleTimeout) ELSE 0
  /\ timer' = IF timer = 0 THEN 0 ELSE timer - 1
  /\ work' = IF work = "timer" /\ timer = 1 THEN "queued" ELSE work
  /\ lag' = IF events = <<>> THEN 0 ELSE lag + 1
  /\ UNCHANGED <<apVars, sta_list, handling, airVars, events, late>>

-----------------------------------------------------------------------------
(* main().                                                                 *)

\* No Wi-Fi interface turned up: main() returns.
NoInterface ==
  /\ main = "boot"
  /\ main' = "gone"
  /\ UNCHANGED <<ret, ap_running, dhcp, idle, sta_list, handling, work, timer, airVars,
                 events, lag, history>>

\* The interface is there, and ready or waited for long enough.
StartDhcp ==
  /\ main = "boot"
  /\ main' = "enable"
  /\ dhcp' \in Outcome
  /\ UNCHANGED <<ret, ap_running, idle, sta_list, handling, work, timer, airVars,
                 events, lag, history>>

enable_softap ==
  /\ main = "enable"
  /\ main' = "publish"
  /\ ret' \in Outcome
  /\ radio' = IF ret' THEN "starting" ELSE radio
  /\ UNCHANGED <<ap_running, dhcp, idle, sta_list, handling, work, timer, assoc,
                 events, lag, history>>

\* The event thread may have run since the request was made.
Publish ==
  /\ main = "publish"
  /\ main' = "note"
  /\ ap_running' = ret
  /\ UNCHANGED <<ret, dhcp, idle, sta_list, handling, work, timer, airVars,
                 events, lag, history>>

NoteStart ==
  /\ main = "note"
  /\ main' = "schedule"
  /\ idle' = 0
  /\ UNCHANGED <<ret, ap_running, dhcp, sta_list, handling, work, timer, airVars,
                 events, lag, history>>

\* Mutant: the first check is set for the idle timeout.
ScheduleAtTimeout ==
  /\ main = "schedule"
  /\ main' = "loop"
  /\ work' = "timer" /\ timer' = IdleTimeout
  /\ UNCHANGED <<ret, ap_running, dhcp, idle, sta_list, handling, airVars,
                 events, lag, history>>

ScheduleCheck ==
  /\ main = "schedule"
  /\ main' = "loop"
  /\ work' = "timer" /\ timer' = CheckPeriod
  /\ UNCHANGED <<ret, ap_running, dhcp, idle, sta_list, handling, airVars,
                 events, lag, history>>

-----------------------------------------------------------------------------
(* wifi_mgmt_event_handler(), on the event thread.                         *)

Next1Event == handling = <<>> /\ events # <<>>

Dequeued == events' = Tail(events) /\ lag' = 0

HandleResult ==
  /\ Next1Event /\ Head(events).kind \in {"enabled", "disabled"}
  /\ Dequeued
  /\ IF Head(events).ok
       THEN ap_running' = (Head(events).kind = "enabled") /\ idle' = 0
       ELSE UNCHANGED <<ap_running, idle>>
  /\ UNCHANGED <<main, ret, dhcp, sta_list, handling, work, timer, airVars, history>>

\* Mutant: only the table is updated.
TakeStationEventQuietly ==
  /\ Next1Event /\ Head(events).kind \in {"connected", "disconnected"}
  /\ Dequeued
  /\ handling' = <<Head(events)>>
  /\ UNCHANGED <<apVars, idle, sta_list, work, timer, airVars, history>>

\* A station came or went: note_activity(), then on to the table.
TakeStationEvent ==
  /\ Next1Event /\ Head(events).kind \in {"connected", "disconnected"}
  /\ Dequeued
  /\ handling' = <<Head(events)>>
  /\ idle' = 0
  /\ UNCHANGED <<apVars, sta_list, work, timer, airVars, history>>

\* The first entry of S gets the value v; nothing happens if there is none.
FirstBecomes(S, v) ==
  sta_list' = [e \in Entry |-> IF e \in S /\ \A f \in S : e <= f THEN v ELSE sta_list[e]]

\* Mutant: every event is taken for a connection.
UpdateTableAlwaysAdds ==
  /\ handling # <<>>
  /\ FirstBecomes(Entry \ Tracked, handling[1].sta)
  /\ handling' = <<>>
  /\ UNCHANGED <<apVars, idle, work, timer, airVars, events, lag, history>>

UpdateTable ==
  /\ handling # <<>>
  /\ LET s == handling[1].sta
     IN IF handling[1].kind = "connected"
          THEN FirstBecomes(Entry \ Tracked, s)
          ELSE FirstBecomes({e \in Tracked : sta_list[e] = s}, NoSta)
  /\ handling' = <<>>
  /\ UNCHANGED <<apVars, idle, work, timer, airVars, events, lag, history>>

-----------------------------------------------------------------------------
(* idle_power_mgr_work_fn(), on the system workqueue.                      *)

\* Mutant: the station table is not looked at.
NoActivity == idle >= IdleTimeout

IdleTooLong == Tracked = {} /\ idle >= IdleTimeout

\* The access point is not running: the work item is not scheduled again.
CheckGivesUp ==
  /\ work = "queued" /\ ~ap_running
  /\ work' = "none"
  /\ UNCHANGED <<apVars, idle, sta_list, handling, timer, airVars, events, lag, history>>

\* Mutant: with stations connected the work item is not scheduled again.
CheckAgainIfEmpty ==
  /\ work = "queued" /\ ap_running /\ ~IdleTooLong
  /\ IF Tracked = {} THEN work' = "timer" /\ timer' = CheckPeriod
                     ELSE work' = "none" /\ UNCHANGED timer
  /\ UNCHANGED <<apVars, idle, sta_list, handling, airVars, events, lag, history>>

CheckAgain ==
  /\ work = "queued" /\ ap_running /\ ~IdleTooLong
  /\ work' = "timer" /\ timer' = CheckPeriod
  /\ UNCHANGED <<apVars, idle, sta_list, handling, airVars, events, lag, history>>

\* The answer to the start has not been handled.
Starting == radio = "starting" \/ \E n \in DOMAIN events : events[n].kind = "enabled"

\* disable_softap(): the request to the driver ...
RequestDisable ==
  /\ work = "queued" /\ ap_running /\ IdleTooLong
  /\ work' = "disabling"
  /\ radio' \in {IF radio = "off" THEN "off" ELSE "stopping"}
                  \cup (IF RequestsMayFail THEN {radio} ELSE {})
  /\ late' = (late \/ Starting)
  /\ UNCHANGED <<apVars, idle, sta_list, handling, timer, assoc, events, lag, empty_for>>

\* Mutant: the flag is cleared only by the driver's answer to a request.
FinishDisableUnlessFailed ==
  /\ work = "disabling"
  /\ work' = "none"
  /\ dhcp' = FALSE
  /\ UNCHANGED <<main, ret, ap_running, idle, sta_list, handling, timer, airVars,
                 events, lag, history>>

\* ... and, however it ended, the DHCP server and the interface go down.
FinishDisable ==
  /\ work = "disabling"
  /\ work' = "none"
  /\ dhcp' \in IF RequestsMayFail THEN {dhcp, FALSE} ELSE {FALSE}
  /\ radio' = IF radio = "off" THEN "off" ELSE "stopping"
  /\ ap_running' = FALSE
  /\ UNCHANGED <<main, ret, idle, sta_list, handling, timer, assoc, events, lag, history>>

-----------------------------------------------------------------------------
MainThread  == NoInterface \/ StartDhcp \/ enable_softap \/ Publish \/ NoteStart \/ ScheduleCheck
EventThread == HandleResult \/ TakeStationEvent \/ UpdateTable
IdleWork    == CheckGivesUp \/ CheckAgain \/ RequestDisable \/ FinishDisable
RadioAnswers == RadioStarts \/ RadioStops \/ (radio = "stopping" /\ \E s \in Sta : Leave(s))

Next ==
  \/ MainThread \/ EventThread \/ IdleWork
  \/ RadioStarts \/ RadioStops \/ RadioStaysOn \/ Tick
  \/ \E s \in Sta : Join(s) \/ Leave(s)

Spec == Init /\ [][Next]_vars

\* Each thread is scheduled, time passes and the driver answers; stations
\* need not do anything.
Fairness ==
  /\ WF_vars(MainThread) /\ WF_vars(EventThread) /\ WF_vars(IdleWork)
  /\ WF_vars(RadioAnswers) /\ WF_vars(Tick)

FairSpec == Spec /\ Fairness

-----------------------------------------------------------------------------
\* Events the table has not seen, oldest first.
News == handling \o events

IsAbout(event, s) == event.kind \in {"connected", "disconnected"} /\ event.sta = s

\* Where among them those about s are.
Unseen(s) == {n \in DOMAIN News : IsAbout(News[n], s)}

Joins(n) == News[n].kind = "connected"

(* The station table lags behind the air only by the events not handled    *)
(* yet: a station is in it exactly once or not at all, its next event is   *)
(* the opposite of its entry, its events alternate, and its last one tells *)
(* where it is now.                                                        *)
TableFollowsEvents ==
  \A s \in Sta :
    LET tracked == \E e \in Entry : sta_list[e] = s
    IN /\ \A e, f \in Entry : sta_list[e] = s /\ sta_list[f] = s => e = f
       /\ Unseen(s) = {} => (s \in assoc <=> tracked)
       /\ \A n \in Unseen(s) :
            /\ (\A m \in Unseen(s) : n <= m) => (Joins(n) <=> ~tracked)
            /\ (\A m \in Unseen(s) : m <= n) => (Joins(n) <=> s \in assoc)
            /\ \A m \in Unseen(s) :
                 m < n /\ (\A k \in Unseen(s) : k <= m \/ n <= k) => (Joins(m) <=> ~Joins(n))

(* While the access point is taken for running, the idle manager is under  *)
(* way: no early return of its handler ends it for good, unless it asked   *)
(* for the access point to stop before the answer to its start was handled.*)
IdleManagerAlive == main = "loop" /\ ap_running => work # "none" \/ late

(* The access point is not turned off under a station ("disables the       *)
(* SoftAP if no stations are connected"), unless the news of its arrival   *)
(* is still on its way.                                                    *)
CutsOffNobody ==
  [][RequestDisable => \A s \in assoc : Unseen(s) # {}]_vars

(* The access point is turned off only when no station was associated for  *)
(* the whole idle timeout, whatever the interleaving of arrivals,          *)
(* departures, their events and the check - but for news of a station that *)
(* is still on its way.                                                    *)
NotTurnedOffEarly ==
  [][RequestDisable /\ (\A s \in Sta : Unseen(s) = {})
       => empty_for >= IdleTimeout]_vars

(* An access point nobody uses goes down in the end, even if the requests  *)
(* to stop it fail, or if its start is answered only after that.           *)
IdleApGoesDown == <>[](assoc = {}) => <>[](radio = "off" /\ ~ap_running)

=============================================================================
