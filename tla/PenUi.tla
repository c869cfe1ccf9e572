------------------------------- MODULE PenUi -------------------------------
(***************************************************************************)
(* The LVGL user interface of driver/app/src/main.c: the scenes, which     *)
(* widgets each of them shows, the animation timers it starts, and the     *)
(* reaction to a button event.  LVGL runs on the main thread only, so a    *)
(* scene change is one step.                                               *)
(***************************************************************************)
EXTENDS RecBars

CONSTANT
  TimerMayFail   \* lv_timer_create() may return NULL

ASSUME TimerMayFailAssumption == TimerMayFail \in BOOLEAN

VARIABLES
  scene, info_enh_mode,   \* struct ui_ctx
  ui_timer,    \* per timer field of ui_ctx: it is not NULL
  lv_timers,   \* per kind of timer: how many LVGL keeps on its list
  shown        \* widgets whose LV_OBJ_FLAG_HIDDEN is clear

uiVars == <<scene, info_enh_mode, ui_timer, lv_timers, shown, barVars>>

ui_scene == {"BLACK", "INFO", "STANDBY_MUTE", "START_RECORDING",
             "RECORDING_MUTE", "TIMESTAMP"}

\* bars_timer and timestamp_timer.
Timer == {"bars", "timestamp"}

Page == {"info_cont", "mute_cont", "rec_cont"}
WireState == {"wire_disconnected", "wire_connected", "wire_bt_tx", "wire_wifi_tx"}
Mode == {"mode_normal", "mode_enh"}
Charge == {"bat_charge_a", "bat_charge_b"}
Widget == Page \cup WireState \cup Mode \cup Charge
            \cup {"pending_icon", "bars", "rec_dot", "rec_mute_label"}

button_event == {"SHORT_PRESS", "DOUBLE_PRESS", "LONG_PRESS"}

UiTypeOK ==
  /\ scene \in ui_scene
  /\ info_enh_mode \in BOOLEAN
  /\ ui_timer \in [Timer -> BOOLEAN]
  /\ lv_timers \in [Timer -> Nat]
  /\ shown \subseteq Widget
  /\ BarsTypeOK

\* g_ui is zeroed at boot; ui_create_recording_demo() ends by hiding the pages.
UiInit ==
  /\ scene = "BLACK"
  /\ info_enh_mode = FALSE
  /\ ui_timer = [t \in Timer |-> FALSE]
  /\ lv_timers = [t \in Timer |-> 0]
  /\ shown = {"wire_disconnected", "mode_normal", "pending_icon", "bars", "rec_dot"}
  /\ BarsInit

-----------------------------------------------------------------------------
\* Mutant: the page on the screen is left there.
KeepPages(widgets) == widgets

ui_hide_all(widgets) == widgets \ Page

\* The widgets after ui_anim_info_page(): a static page, wireless shown as
\* disconnected and no recording shown as waiting for upload.
InfoPage(enh) ==
  (ui_hide_all(shown) \ (Charge \cup WireState \cup Mode \cup {"pending_icon"}))
    \cup {"info_cont", "wire_disconnected", IF enh THEN "mode_enh" ELSE "mode_normal"}

\* The widgets after ui_anim_start_recording(); without a timer to move the
\* bars the dot is shown instead.
RecordingPage(animated) ==
  (ui_hide_all(shown) \ {"rec_dot", "rec_mute_label"})
    \cup {"rec_cont", "bars"} \cup (IF animated THEN {} ELSE {"rec_dot"})

\* ui_anim_recording_mute() and ui_anim_timestamp() leave the dot alone on
\* the recording page, with or without the label.
DotPage(label) ==
  (ui_hide_all(shown) \ {"bars", "rec_mute_label"})
    \cup {"rec_cont", "rec_dot"} \cup label

\* The timers lv_timer_create() may start when asked for t.
Created(t) == {{t}} \cup (IF TimerMayFail THEN {{}} ELSE {})

\* Widgets and new timers a scene starts with.
Entered(sc) ==
  CASE sc = "BLACK" -> {[shown |-> ui_hide_all(shown), timers |-> {}]}
    [] sc = "STANDBY_MUTE" ->
         {[shown |-> ui_hide_all(shown) \cup {"mute_cont"}, timers |-> {}]}
    [] sc = "START_RECORDING" ->
         {[shown |-> RecordingPage(ts # {}), timers |-> ts] : ts \in Created("bars")}
    [] sc = "RECORDING_MUTE" ->
         {[shown |-> DotPage({"rec_mute_label"}), timers |-> {}]}
    [] sc = "TIMESTAMP" ->
         {[shown |-> DotPage({}), timers |-> ts] : ts \in Created("timestamp")}
    [] OTHER -> {[shown |-> InfoPage(info_enh_mode), timers |-> {}]}

\* Mutant: the timers of the scene before keep running.
StartTimersOnly(ts) ==
  /\ lv_timers' = [t \in Timer |-> lv_timers[t] + (IF t \in ts THEN 1 ELSE 0)]
  /\ ui_timer' = [t \in Timer |-> t \in ts]

\* ui_stop_timers(), then the timers of ts are created.
RestartTimers(ts) ==
  /\ lv_timers' = [t \in Timer |-> lv_timers[t] - (IF ui_timer[t] THEN 1 ELSE 0)
                                                + (IF t \in ts THEN 1 ELSE 0)]
  /\ ui_timer' = [t \in Timer |-> t \in ts]

ui_scene_enter(sc) ==
  /\ scene' = sc
  /\ \E e \in Entered(sc) :
       /\ shown' = e.shown
       /\ RestartTimers(e.timers)
       /\ IF sc = "START_RECORDING" THEN StartBars(e.timers # {}) ELSE UNCHANGED barVars
  /\ UNCHANGED info_enh_mode

-----------------------------------------------------------------------------
(* The reactions of ui_tick_cb() to the button events.                     *)

ShortPress ==
  IF scene = "BLACK" THEN ui_scene_enter("INFO") ELSE UNCHANGED uiVars

\* On the information page the mode is switched and the page drawn afresh.
ToggleMode ==
  /\ info_enh_mode' = ~info_enh_mode
  /\ shown' = InfoPage(~info_enh_mode)
  /\ RestartTimers({})
  /\ UNCHANGED <<scene, barVars>>

DoublePress ==
  IF scene = "BLACK" THEN ui_scene_enter("INFO")
                     ELSE IF scene = "INFO" THEN ToggleMode ELSE UNCHANGED uiVars

\* Mutant: a recording can only be started from the information page.
LongPressOnInfo ==
  IF scene = "START_RECORDING" THEN ui_scene_enter("INFO")
    ELSE IF scene = "INFO" THEN ui_scene_enter("START_RECORDING")
                           ELSE UNCHANGED uiVars

LongPress ==
  IF scene = "START_RECORDING" THEN ui_scene_enter("INFO")
    ELSE IF scene \in {"BLACK", "INFO"} THEN ui_scene_enter("START_RECORDING")
                                        ELSE UNCHANGED uiVars

React(evt) ==
  \/ evt = "SHORT_PRESS"  /\ ShortPress
  \/ evt = "DOUBLE_PRESS" /\ DoublePress
  \/ evt = "LONG_PRESS"   /\ LongPress

-----------------------------------------------------------------------------
(* The page on the screen is the one of the scene, and the information     *)
(* page shows the mode in force, even when it was set on another page.     *)
PageOf(sc) ==
  CASE sc = "BLACK" -> {}
    [] sc = "INFO" -> {"info_cont"}
    [] sc = "STANDBY_MUTE" -> {"mute_cont"}
    [] OTHER -> {"rec_cont"}

ScreenMatchesScene ==
  /\ shown \cap Page = PageOf(scene)
  /\ scene = "INFO" =>
       /\ shown \cap Mode = {IF info_enh_mode THEN "mode_enh" ELSE "mode_normal"}
       /\ shown \cap WireState = {"wire_disconnected"}
       /\ "pending_icon" \notin shown

(* While recording, the screen is alive: one timer moves the bars, or, if  *)
(* none could be had, the dot stands in for it ("show a visible marker so  *)
(* the user sees something").  On the other pages nothing runs, and LVGL   *)
(* keeps no timer the program has lost sight of.                           *)
RecordingIsVisible ==
  /\ lv_timers = [t \in Timer |-> IF ui_timer[t] THEN 1 ELSE 0]
  /\ ui_timer["bars"] => scene = "START_RECORDING" /\ "rec_dot" \notin shown
  /\ scene = "START_RECORDING" =>
       /\ "bars" \in shown
       /\ ui_timer["bars"] \/ "rec_dot" \in shown

(* While one recording lasts, the bars scroll by a pixel at a time, each   *)
(* in its cell, whatever is pressed meanwhile and however loud it is.      *)
BarsScroll ==
  [][/\ scene = "START_RECORDING" /\ scene' = scene
     /\ barVars' # barVars
     => MovesOnePixel]_uiVars

=============================================================================
