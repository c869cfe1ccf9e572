----------------------------- MODULE PenDevice -----------------------------
(***************************************************************************)
(* The recording pen as it is built: the gesture driver itself, with its   *)
(* interrupt, work items and clock (ButtonGesture), below the application  *)
(* (RecordingPen), which RecordingPen knows by its promise alone.          *)
(*                                                                         *)
(* emit() calls the registered callback from the handler that reports the  *)
(* gesture, so that the event is on the queue in the same step.            *)
(***************************************************************************)
EXTENDS ButtonGesture

CONSTANTS
  QueueSize, TimerMayFail,             \* as in RecordingPen and PenUi
  OledW, Pitch, BarW, BarWMax, BarCount, Heights, GrowRange, VolMax   \* as in RecBars

VARIABLES
  scene, info_enh_mode, ui_timer, lv_timers, shown,
  bar_meta, rec_scroll_px, rec_volume,
  cb, evq, tick_timer, main

\* The application, and what is proved about it, above the driver's state
\* seen as a ledger.
App == INSTANCE RecordingPenProofs WITH
         held   <- Listening,
         credit <- (IF Unreported THEN 1 ELSE 0) + (IF tap_pending THEN 1 ELSE 0)

uiVars ==
  <<scene, info_enh_mode, ui_timer, lv_timers, shown, bar_meta, rec_scroll_px, rec_volume>>
deviceVars == <<vars, uiVars, cb, evq, tick_timer, main>>

\* bg_init() has run before main() starts.
DeviceInit ==
  /\ Init
  /\ App!UiInit
  /\ cb = {} /\ evq = <<>> /\ tick_timer = FALSE
  /\ main = "create"

\* The button moves, time passes or a handler of the driver runs; a gesture it
\* reports goes to gesture_cb().
DriverRuns ==
  /\ Next
  /\ evq' = IF emitted' \in cb THEN App!button_emit(App!event_of[emitted']) ELSE evq
  /\ UNCHANGED <<uiVars, cb, tick_timer, main>>

MainRuns ==
  /\ UNCHANGED vars
  /\ App!MainStep \/ App!BarsDue \/ App!BootFails

DeviceSpec == DeviceInit /\ [][DriverRuns \/ MainRuns]_deviceVars

(* With the driver in place the application is the one RecordingPen        *)
(* describes: what it assumes of the driver is what the driver does.       *)
AppIsKept == App!Spec

=============================================================================
