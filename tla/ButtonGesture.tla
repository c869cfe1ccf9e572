--------------------------- MODULE ButtonGesture ---------------------------
(***************************************************************************)
(* The GPIO button gesture driver (driver/custom_driver_module/drivers/    *)
(* input/button_gesture_gpio.c): an edge interrupt, and three delayable    *)
(* work items of the system workqueue that debounce the pin and turn       *)
(* presses into SINGLE, DOUBLE and LONG.                                   *)
(*                                                                         *)
(* Time is counted in milliseconds.  The driver's time stamps are kept as  *)
(* ages (now minus stamp), because it only ever uses the difference.       *)
(* The system workqueue is one cooperative thread, so a handler is one     *)
(* step; the interrupt and the passing of time may come between any two.   *)
(***************************************************************************)
EXTENDS Integers

CONSTANTS
  DebounceMs,    \* debounce-ms, tap-threshold-ms, double-click-ms and
  TapMs,         \* long-press-ms of the device tree node
  DoubleMs,
  LongMs,
  Jitter,        \* a timeout may read this many ms late: the kernel rounds it
                 \* up to whole ticks and k_uptime_get_32() rounds down
  MaxStall,      \* ms a queued item may wait for the workqueue thread
  MaxAge,        \* ages are told apart up to here
  ReadMayFail,   \* gpio_pin_get_dt() may return an error
  UptimeWraps    \* the uptime runs for more than 2^32 ms

ASSUME ConstantsAssumption ==
  /\ DebounceMs \in Nat \ {0} /\ TapMs \in Nat \ {0}
  /\ DoubleMs \in Nat \ {0}   /\ LongMs \in Nat \ {0}
  /\ Jitter \in Nat /\ MaxStall \in Nat /\ MaxAge \in Nat
  /\ ReadMayFail \in BOOLEAN /\ UptimeWraps \in BOOLEAN
  /\ MaxAge > DebounceMs + Jitter + MaxStall
  /\ MaxAge > TapMs
  /\ MaxAge > DoubleMs + Jitter + MaxStall
  /\ MaxAge > LongMs + Jitter + MaxStall

VARIABLES
  level,         \* the button is physically down
  pressed, armed, long_sent, tap_pending,        \* struct bg_data
  edge_age,      \* now - last_edge_ms
  press_age,     \* now - press_start_ms
  tap_age,       \* now - first_tap_release_ms
  timer,         \* per work item: ms to its timeout, 0 when none is set
  queued,        \* per work item: 0 off the queue, k queued for k-1 ms
  emitted        \* the gesture emit() was called with in the last step

flags == <<pressed, armed, long_sent, tap_pending>>
ages  == <<edge_age, press_age, tap_age>>
vars  == <<level, flags, ages, timer, queued, emitted>>

\* edge_work, long_work and tap_finalize_work.
Work    == {"edge", "long", "tap"}
Gesture == {"SINGLE", "DOUBLE", "LONG"}

-----------------------------------------------------------------------------
(* Kernel services the driver relies on.                                   *)

Late(ms) == ms .. ms + Jitter

Live(w) == timer[w] > 0 \/ queued[w] > 0

\* The workqueue is first in, first out; items queued within the same
\* millisecond may be in either order.
Runnable(w) ==
  /\ queued[w] > 0
  /\ \A v \in Work : queued[v] <= queued[w]

\* k_work_reschedule() restarts the timeout and leaves an item that is
\* already queued where it is.
Rescheduled(w, ms) == {[timer EXCEPT ![w] = t] : t \in Late(ms)}

\* A level read through gpio_pressed(): an error yields the fallback.
gpio_pressed(fallback) == {level} \cup (IF ReadMayFail THEN {fallback} ELSE {})

\* Difference of two 32-bit uptimes one ms later.
Older(age) ==
  IF age < MaxAge
    THEN {age + 1}
    ELSE {MaxAge} \cup (IF UptimeWraps THEN {0} ELSE {})

-----------------------------------------------------------------------------
TypeOK ==
  /\ level \in BOOLEAN /\ pressed \in BOOLEAN /\ armed \in BOOLEAN
  /\ long_sent \in BOOLEAN /\ tap_pending \in BOOLEAN
  /\ edge_age \in 0 .. MaxAge /\ press_age \in 0 .. MaxAge
  /\ tap_age \in 0 .. MaxAge
  /\ timer \in [Work -> 0 .. MaxAge]
  /\ queued \in [Work -> 0 .. MaxStall + 1]
  /\ emitted \in Gesture \cup {"NONE"}

\* The states bg_init() can leave behind.  The interrupt is enabled before
\* the level is read, so an edge may already have started the debounce delay.
Init ==
  /\ level \in BOOLEAN
  /\ pressed \in gpio_pressed(FALSE)
  /\ armed = ~pressed
  /\ long_sent = FALSE /\ tap_pending = FALSE
  /\ edge_age = 0 /\ press_age = 0
  /\ tap_age \in 0 .. MaxAge
  /\ \E t \in {0} \cup Late(DebounceMs) :
       timer = [w \in Work |-> IF w = "edge" THEN t ELSE 0]
  /\ queued = [w \in Work |-> 0]
  /\ emitted = "NONE"

-----------------------------------------------------------------------------
\* Mutant: the interrupt is configured for presses only.
RisingEdgeIsr ==
  /\ level' = ~level
  /\ timer' \in IF level THEN {timer} ELSE Rescheduled("edge", DebounceMs)
  /\ emitted' = "NONE"
  /\ UNCHANGED <<flags, ages, queued>>

(* The pin toggles and gpio_isr() restarts the debounce delay.             *)
gpio_isr ==
  /\ level' = ~level
  /\ timer' \in Rescheduled("edge", DebounceMs)
  /\ emitted' = "NONE"
  /\ UNCHANGED <<flags, ages, queued>>

(* One millisecond passes: the timeouts that end queue their work item.    *)
Tick ==
  /\ \A w \in Work : queued[w] <= MaxStall
  /\ timer' = [w \in Work |-> IF timer[w] = 0 THEN 0 ELSE timer[w] - 1]
  /\ queued' = [w \in Work |->
       IF queued[w] > 0 THEN queued[w] + 1
                        ELSE IF timer[w] = 1 THEN 1 ELSE 0]
  /\ edge_age'  \in Older(edge_age)
  /\ press_age' \in Older(press_age)
  /\ tap_age'   \in Older(tap_age)
  /\ emitted' = "NONE"
  /\ UNCHANGED <<level, flags>>

\* The workqueue takes w and its handler cancels the items of ws:
\* k_work_cancel_delayable() stops the timeout and takes the item off.
RunAndCancel(w, ws) ==
  /\ timer' = [v \in Work |-> IF v \in ws THEN 0 ELSE timer[v]]
  /\ queued' = [v \in Work |-> IF v \in ws \cup {w} THEN 0 ELSE queued[v]]

\* The workqueue takes w and its handler restarts v after ms, cancelling ws.
RunAndReschedule(w, v, ms, ws) ==
  /\ \E t \in Late(ms) :
       timer' = [u \in Work |-> IF u = v THEN t ELSE IF u \in ws THEN 0 ELSE timer[u]]
  /\ queued' = [u \in Work |-> IF u \in ws \cup {w} THEN 0 ELSE queued[u]]

-----------------------------------------------------------------------------
\* Mutant: the pending tap survives the long press.
LongKeepsTap ==
  /\ Runnable("long")
  /\ RunAndCancel("long", {})
  /\ IF armed /\ pressed /\ ~long_sent
       THEN long_sent' = TRUE /\ emitted' = "LONG"
       ELSE UNCHANGED long_sent /\ emitted' = "NONE"
  /\ UNCHANGED <<level, ages, pressed, armed, tap_pending>>

long_work_handler ==
  /\ Runnable("long")
  /\ IF armed /\ pressed /\ ~long_sent
       THEN /\ long_sent' = TRUE
            /\ tap_pending' = FALSE
            /\ RunAndCancel("long", {"tap"})
            /\ emitted' = "LONG"
            /\ UNCHANGED <<pressed, armed>>
       ELSE /\ RunAndCancel("long", {})
            /\ emitted' = "NONE"
            /\ UNCHANGED flags
  /\ UNCHANGED <<level, ages>>

tap_finalize_handler ==
  /\ Runnable("tap")
  /\ RunAndCancel("tap", {})
  /\ IF armed /\ tap_pending
       THEN tap_pending' = FALSE /\ emitted' = "SINGLE"
       ELSE UNCHANGED tap_pending /\ emitted' = "NONE"
  /\ UNCHANGED <<level, pressed, armed, long_sent, ages>>

\* Mutant: the long press timeout is taken from the wrong property.
PressWithTapTimeout ==
  /\ pressed' = TRUE
  /\ press_age' = 0
  /\ long_sent' = FALSE
  /\ RunAndReschedule("edge", "long", TapMs, {})
  /\ emitted' = "NONE"
  /\ UNCHANGED <<armed, tap_pending, tap_age>>

\* A press is taken in.  While the button is not armed only its level is kept.
handle_press_edge ==
  /\ pressed' = TRUE
  /\ IF armed
       THEN /\ press_age' = 0
            /\ long_sent' = FALSE
            /\ RunAndReschedule("edge", "long", LongMs, {})
       ELSE /\ RunAndCancel("edge", {})
            /\ UNCHANGED <<press_age, long_sent>>
  /\ emitted' = "NONE"
  /\ UNCHANGED <<armed, tap_pending, tap_age>>

\* The release that arms a button found down at boot.
ArmingRelease ==
  /\ ~armed
  /\ armed' = TRUE
  /\ tap_pending' = FALSE
  /\ long_sent' = FALSE
  /\ RunAndCancel("edge", {"long", "tap"})
  /\ emitted' = "NONE"
  /\ UNCHANGED tap_age

\* The release after a long press was reported: nothing more to say.
ReleaseAfterLong ==
  /\ armed /\ long_sent
  /\ RunAndCancel("edge", {"long"})
  /\ emitted' = "NONE"
  /\ UNCHANGED <<armed, long_sent, tap_pending, tap_age>>

\* Too slow for a tap: reported at once, with any tap before it.
SlowRelease ==
  /\ armed /\ ~long_sent
  /\ press_age > TapMs
  /\ tap_pending' = FALSE
  /\ RunAndCancel("edge", {"long", "tap"})
  /\ emitted' = "SINGLE"
  /\ UNCHANGED <<armed, long_sent, tap_age>>

\* Mutant: the release does not stop the long press timeout.
TapKeepsLongWork ==
  /\ armed /\ ~long_sent /\ press_age <= TapMs /\ ~tap_pending
  /\ tap_pending' = TRUE
  /\ tap_age' = 0
  /\ RunAndReschedule("edge", "tap", DoubleMs, {})
  /\ emitted' = "NONE"
  /\ UNCHANGED <<armed, long_sent>>

\* Mutant: nobody is asked to finalise the tap.
TapWithoutFinalizer ==
  /\ armed /\ ~long_sent /\ press_age <= TapMs /\ ~tap_pending
  /\ tap_pending' = TRUE
  /\ tap_age' = 0
  /\ RunAndCancel("edge", {"long"})
  /\ emitted' = "NONE"
  /\ UNCHANGED <<armed, long_sent>>

\* Mutant: the finaliser waits for a long press as well.
TapFinalizedLate ==
  /\ armed /\ ~long_sent /\ press_age <= TapMs /\ ~tap_pending
  /\ tap_pending' = TRUE
  /\ tap_age' = 0
  /\ RunAndReschedule("edge", "tap", LongMs + DoubleMs, {"long"})
  /\ emitted' = "NONE"
  /\ UNCHANGED <<armed, long_sent>>

\* A first tap waits for a second one.
FirstTap ==
  /\ armed /\ ~long_sent
  /\ press_age <= TapMs
  /\ ~tap_pending
  /\ tap_pending' = TRUE
  /\ tap_age' = 0
  /\ RunAndReschedule("edge", "tap", DoubleMs, {"long"})
  /\ emitted' = "NONE"
  /\ UNCHANGED <<armed, long_sent>>

SecondTap ==
  /\ armed /\ ~long_sent
  /\ press_age <= TapMs
  /\ tap_pending
  /\ tap_age <= DoubleMs
  /\ tap_pending' = FALSE
  /\ RunAndCancel("edge", {"long", "tap"})
  /\ emitted' = "DOUBLE"
  /\ UNCHANGED <<armed, long_sent, tap_age>>

\* The finaliser of the tap before is late: report it and wait afresh.
LateSecondTap ==
  /\ armed /\ ~long_sent
  /\ press_age <= TapMs
  /\ tap_pending
  /\ tap_age > DoubleMs
  /\ tap_pending' = TRUE
  /\ tap_age' = 0
  /\ RunAndReschedule("edge", "tap", DoubleMs, {"long"})
  /\ emitted' = "SINGLE"
  /\ UNCHANGED <<armed, long_sent>>

handle_release_edge ==
  /\ pressed' = FALSE
  /\ \/ ArmingRelease \/ ReleaseAfterLong \/ SlowRelease
     \/ FirstTap \/ SecondTap \/ LateSecondTap
  /\ UNCHANGED press_age

\* Mutant: the debounce comparison is off by one.
TooSoonByOne == edge_age <= DebounceMs

\* The last edge taken in is less than the debounce delay ago.
TooSoon == edge_age < DebounceMs

\* The pin reads as it did, or too soon after the last edge taken in: the
\* handler returns and nothing is scheduled to look again.
EdgeIgnored(now_pressed) ==
  /\ now_pressed = pressed \/ TooSoon
  /\ RunAndCancel("edge", {})
  /\ emitted' = "NONE"
  /\ UNCHANGED <<flags, ages>>

EdgeTaken(now_pressed) ==
  /\ now_pressed # pressed /\ ~TooSoon
  /\ edge_age' = 0
  /\ IF now_pressed THEN handle_press_edge ELSE handle_release_edge

edge_work_handler ==
  /\ Runnable("edge")
  /\ \E now_pressed \in gpio_pressed(pressed) :
       EdgeIgnored(now_pressed) \/ EdgeTaken(now_pressed)
  /\ UNCHANGED level

-----------------------------------------------------------------------------
RunWork == edge_work_handler \/ long_work_handler \/ tap_finalize_handler

Next == gpio_isr \/ Tick \/ RunWork

Spec == Init /\ [][Next]_vars

\* Time passes, and the kernel runs what is on the workqueue.
Fairness == WF_vars(Tick) /\ WF_vars(RunWork)

FairSpec == Spec /\ Fairness

-----------------------------------------------------------------------------
Listening  == pressed /\ armed
Unreported == Listening /\ ~long_sent

(* The long press timeout runs, or its item is queued, exactly while a     *)
(* press is down that was not reported: every path out of a press cancels  *)
(* it, so a stale one cannot turn a later tap into a long press.           *)
LongPressWatched == Live("long") <=> Unreported

(* A button that was down at boot is silent until it is let go.            *)
SilentUntilArmed == ~armed => pressed /\ ~long_sent

(* A long press item on the queue has no second timeout running behind it. *)
LongQueuedOnce == queued["long"] > 0 => timer["long"] = 0

(* A tap that waits for a second one always has its finaliser coming, on   *)
(* every way the flag can be set again while an old finaliser is queued.   *)
TapWatched == tap_pending => armed /\ ~long_sent /\ Live("tap")

(* The timeouts under way agree with the time stamps taken when they were  *)
(* started: a long press timeout belongs to the press now held and a tap   *)
(* timeout to the last tap, never to an earlier one.                       *)
TimeoutsAgree ==
  /\ timer["long"] > 0 => press_age + timer["long"] \in Late(LongMs)
  /\ queued["long"] > 0 =>
       press_age \in LongMs .. LongMs + Jitter + queued["long"] - 1
  /\ tap_pending /\ timer["tap"] > 0 => tap_age + timer["tap"] \in Late(DoubleMs)
  /\ tap_pending /\ timer["tap"] = 0 =>
       tap_age <= DoubleMs + Jitter + queued["tap"] - 1

(* How long the user can wait for a gesture: a press is reported within    *)
(* the long press delay and a tap within the double click delay, plus what *)
(* the kernel adds; a press after the uptime wrapped is no exception.      *)
ReportedInTime ==
  /\ Unreported => press_age <= LongMs + Jitter + MaxStall
  /\ tap_pending => tap_age <= DoubleMs + Jitter + MaxStall

(* An edge the driver has not taken in will be looked at again at a time   *)
(* when the debounce test lets it pass: the handler may return early, but  *)
(* never on the last look at a level that differs from the one it holds.   *)
EdgeNeverLost ==
  level # pressed =>
    \/ queued["edge"] > 0 /\ edge_age >= DebounceMs
    \/ timer["edge"] > 0 /\ edge_age + timer["edge"] >= DebounceMs

(* LONG is reported for a press that has lasted the long press delay, on   *)
(* every interleaving of presses, releases and a late workqueue.           *)
LongNeverEarly == [][emitted' = "LONG" => press_age >= LongMs]_vars

(* The driver keeps the ledger of GestureLedger: each gesture pays for     *)
(* presses taken in since boot, each press is paid for once, DOUBLE pays   *)
(* for two.                                                                *)
Ledger == INSTANCE GestureLedger WITH
            held   <- Listening,
            credit <- (IF Unreported THEN 1 ELSE 0) + (IF tap_pending THEN 1 ELSE 0)
LedgerKept == Ledger!Spec

(* A finaliser reports a tap as SINGLE only when a second tap could no     *)
(* longer make it a double click (double-click-ms of the binding).         *)
SingleNotEarly ==
  [][tap_pending /\ emitted' = "SINGLE" /\ pressed' = pressed
       => tap_age >= DoubleMs]_vars

(* Once the button stays where it is, the driver comes to agree with it.   *)
Settles == \A b \in BOOLEAN : <>[](level = b) => <>[](pressed = b)

(* Every press taken in is reported in the end, whatever the user does     *)
(* with the button meanwhile.                                              *)
Reported ==
  /\ Unreported ~> emitted # "NONE"
  /\ tap_pending ~> emitted # "NONE"

=============================================================================
