---------------------------- MODULE RecordingPen ----------------------------
(***************************************************************************)
(* The recording pen application (driver/app): the gesture driver, taken   *)
(* at its word (GestureLedger), calls back into the button wrapper of      *)
(* button.c on the system workqueue; the wrapper queues button events; the *)
(* main thread boots, then runs LVGL, whose tick timer drains the queue    *)
(* into the user interface (PenUi).                                        *)
(*                                                                         *)
(* The workqueue thread is cooperative and the main thread preemptible: a  *)
(* gesture may arrive between any two steps of the main thread, and        *)
(* between two events it takes from the queue.                             *)
(***************************************************************************)
EXTENDS PenUi, Sequences, FiniteSets

CONSTANT
  QueueSize   \* slots of button_evt_q

ASSUME QueueSizeAssumption == QueueSize \in Nat \ {0}

VARIABLES
  held, credit, emitted,   \* the gesture driver (GestureLedger)
  cb,          \* gestures whose callback is registered
  evq,         \* button_evt_q
  tick_timer,  \* LVGL has the 50 ms tick timer
  main         \* where the main thread is

driverVars == <<held, credit, emitted>>
vars == <<uiVars, driverVars, cb, evq, tick_timer, main>>

Driver == INSTANCE GestureLedger

Where == {"create", "init", "cb1", "cb2", "cb3", "display", "tick", "loop", "drain", "returned"}

TypeOK ==
  /\ UiTypeOK
  /\ Driver!TypeOK
  /\ cb \subseteq Driver!Gesture
  /\ evq \in Seq(button_event) /\ Len(evq) <= QueueSize
  /\ tick_timer \in BOOLEAN
  /\ main \in Where

Init ==
  /\ UiInit
  /\ Driver!Init
  /\ cb = {}
  /\ evq = <<>>
  /\ tick_timer = FALSE
  /\ main = "create"

-----------------------------------------------------------------------------
(* The gesture driver and the button wrapper.                              *)

\* Mutant: the queue is not asked whether it has room.
EmitUnchecked(evt) == Append(evq, evt)

\* button_emit(): k_msgq_put() with K_NO_WAIT drops the event when full.
button_emit(evt) == IF Len(evq) < QueueSize THEN Append(evq, evt) ELSE evq

event_of == [SINGLE |-> "SHORT_PRESS", DOUBLE |-> "DOUBLE_PRESS", LONG |-> "LONG_PRESS"]

\* A driver step calls gesture_cb() if the gesture's callback is registered.
DriverStep ==
  /\ Driver!Next
  /\ evq' = IF emitted' \in cb THEN button_emit(event_of[emitted']) ELSE evq
  /\ UNCHANGED <<uiVars, cb, tick_timer, main>>

-----------------------------------------------------------------------------
(* main(): boot.                                                           *)

\* The display is missing, or LVGL runs out of memory: main() returns.
BootFails ==
  /\ main \in {"create", "init"}
  /\ main' = "returned"
  /\ UNCHANGED <<uiVars, driverVars, cb, evq, tick_timer>>

CreateUi ==
  /\ main = "create"
  /\ main' = "init"
  /\ UNCHANGED <<uiVars, driverVars, cb, evq, tick_timer>>

\* button_init(): purge the queue, then register the three callbacks.
PurgeQueue ==
  /\ main = "init"
  /\ main' = "cb1"
  /\ evq' = <<>>
  /\ UNCHANGED <<uiVars, driverVars, cb, tick_timer>>

RegisterCallback ==
  /\ \/ main = "cb1" /\ main' = "cb2" /\ cb' = cb \cup {"SINGLE"}
     \/ main = "cb2" /\ main' = "cb3" /\ cb' = cb \cup {"DOUBLE"}
     \/ main = "cb3" /\ main' = "display" /\ cb' = cb \cup {"LONG"}
  /\ UNCHANGED <<uiVars, driverVars, evq, tick_timer>>

\* The display is switched on and the black scene entered.
EnterBlack ==
  /\ main = "display"
  /\ main' = "tick"
  /\ ui_scene_enter("BLACK")
  /\ UNCHANGED <<driverVars, cb, evq, tick_timer>>

\* The result of lv_timer_create() is stored and never looked at.
CreateTickTimer ==
  /\ main = "tick"
  /\ main' = "loop"
  /\ \/ tick_timer' = TRUE
     \/ TimerMayFail /\ tick_timer' = FALSE
  /\ UNCHANGED <<uiVars, driverVars, cb, evq>>

-----------------------------------------------------------------------------
(* main(): the loop around lv_timer_handler().                             *)

\* The tick timer is due: ui_tick_cb() starts to poll the queue.
TickDue ==
  /\ main = "loop" /\ tick_timer
  /\ main' = "drain"
  /\ UNCHANGED <<uiVars, driverVars, cb, evq, tick_timer>>

\* Mutant: the event is read and left on the queue (k_msgq_peek).
PeekEvent ==
  /\ main = "drain" /\ evq # <<>>
  /\ React(Head(evq))
  /\ UNCHANGED <<driverVars, cb, evq, tick_timer, main>>

TakeEvent ==
  /\ main = "drain" /\ evq # <<>>
  /\ evq' = Tail(evq)
  /\ React(Head(evq))
  /\ UNCHANGED <<driverVars, cb, tick_timer, main>>

QueueDrained ==
  /\ main = "drain" /\ evq = <<>>
  /\ main' = "loop"
  /\ UNCHANGED <<uiVars, driverVars, cb, evq, tick_timer>>

\* bars_timer is due; LVGL serves each of its timers at its own period.
BarsDue ==
  /\ main = "loop" /\ ui_timer["bars"]
  /\ bars_timer_cb
  /\ UNCHANGED <<scene, info_enh_mode, ui_timer, lv_timers, shown,
                 driverVars, cb, evq, tick_timer, main>>

MainStep ==
  CreateUi \/ PurgeQueue \/ RegisterCallback \/ EnterBlack \/ CreateTickTimer
    \/ TickDue \/ TakeEvent \/ QueueDrained

Next == DriverStep \/ MainStep \/ BarsDue \/ BootFails

Spec == Init /\ [][Next]_vars

\* The main thread is not starved: the workqueue blocks between edges.
FairSpec == Spec /\ WF_vars(MainStep)

-----------------------------------------------------------------------------
(* The application keeps PenRemote's promise across two threads, the event *)
(* queue and the boot: the screen and the mode change only in reaction to  *)
(* presses that were made, and each press is used at most once.            *)
Doubles == {i \in DOMAIN evq : evq[i] = "DOUBLE_PRESS"}

Remote == INSTANCE PenRemote WITH
            page     <- scene,
            enhanced <- info_enh_mode,
            presses  <- credit + Len(evq) + Cardinality(Doubles)
RemoteKept == Remote!Spec

LongIsNext == tick_timer /\ evq # <<>> /\ Head(evq) = "LONG_PRESS"

(* A long press that reached the queue starts a recording, or ends the one *)
(* that is running, whatever else is queued up behind it - if LVGL had the *)
(* memory for the tick timer.                                              *)
LongPressServed ==
  /\ LongIsNext /\ scene # "START_RECORDING" ~> scene = "START_RECORDING"
  /\ LongIsNext /\ scene = "START_RECORDING" ~> scene = "INFO"

=============================================================================
