------------------------------ MODULE SimpleUi ------------------------------
(***************************************************************************)
(* The user interface without LVGL (driver/app/simple_ui.c) on the CH1115. *)
(* main() shows the INFO page once and then, in turn, the REC page, whose  *)
(* bars it moves and redraws on every tick, and the QR page, which it      *)
(* draws once per turn.  It never looks at the result of display_write().  *)
(*                                                                         *)
(* Time passes in the k_sleep() of the loop only; a turn of the loop may   *)
(* take MaxDelay ticks because a picture takes longer to send than a tick. *)
(***************************************************************************)
EXTENDS Ch1115

CONSTANTS
  Width,        \* OLED_WIDTH
  SpawnGap,     \* REC_SPAWN_GAP
  ThickMax,     \* REC_BAR_THICK_MAX
  DotW,         \* REC_DOT_W
  VolumeMax,    \* REC_VOLUME_MAX
  RandTicks,    \* REC_VOLUME_RAND_TICKS
  SwitchTicks,  \* REC_PAGE_SWITCH_MS, in ticks
  MaxDelay,     \* bound: the longest turn of the loop, in ticks
  Heights       \* 1 .. REC_MAX_HALF_HEIGHT

ASSUME SimpleUiAssumption ==
  /\ Width \in Nat \ {0} /\ SpawnGap \in Nat
  /\ ThickMax \in 1 .. SpawnGap /\ DotW \in 1 .. SpawnGap
  /\ VolumeMax \in Nat \ {0, 1} /\ RandTicks \in Nat \ {0}
  /\ SwitchTicks \in Nat \ {0} /\ MaxDelay \in Nat \ {0}
  /\ Heights \subseteq Nat \ {0} /\ Heights # {}

VARIABLES
  main,      \* where main() is
  at,        \* the page display_write() is at, 0 before its first check
  then,      \* where main() goes when ui_set_scene() returns
  scene,     \* g_ui.scene
  since,     \* ticks since last_switch_ms
  volume,    \* g_ui.volume
  rec_tick,  \* rec_tick % RandTicks
  rec_cols,  \* target_half of each column, 0 where there is no bar
  rec_gap_countdown

loopVars == <<main, at, then, scene, since>>
animVars == <<volume, rec_tick, rec_cols, rec_gap_countdown>>
vars     == <<panelVars, loopVars, animVars>>

Col == 0 .. Width - 1

TypeOK ==
  /\ PanelTypeOK
  /\ main \in {"boot", "ready", "sleep", "draw", "write", "gone"}
  /\ at \in 0 .. Pages /\ then \in {"sleep", "draw"}
  /\ scene \in {"INFO", "REC", "QR"}
  /\ since \in 0 .. SwitchTicks
  /\ volume \in 1 .. VolumeMax /\ rec_tick \in 0 .. RandTicks - 1
  /\ rec_cols \in [Col -> Heights \cup {0}] /\ rec_gap_countdown \in 0 .. SpawnGap

Init ==
  /\ PanelInit
  /\ main = "boot" /\ at = 0 /\ then = "sleep"
  /\ scene = "INFO" /\ since = 0
  /\ volume = (VolumeMax + 1) \div 2 /\ rec_tick = 0
  /\ rec_cols = [x \in Col |-> 0] /\ rec_gap_countdown = 0

-----------------------------------------------------------------------------
(* The scrolling bars of the REC page.                                     *)

ShiftedLeft(h) == [x \in Col |-> IF x = Width - 1 THEN h ELSE rec_cols[x + 1]]

\* Mutant: the countdown ends a column early.
SpawnEarly ==
  IF rec_gap_countdown > 1
    THEN /\ rec_cols' = ShiftedLeft(0)
         /\ rec_gap_countdown' = rec_gap_countdown - 1
    ELSE /\ \E h \in Heights : rec_cols' = ShiftedLeft(h)
         /\ rec_gap_countdown' = SpawnGap

rec_anim_step ==
  IF rec_gap_countdown > 0
    THEN /\ rec_cols' = ShiftedLeft(0)
         /\ rec_gap_countdown' = rec_gap_countdown - 1
    ELSE /\ \E h \in Heights : rec_cols' = ShiftedLeft(h)
         /\ rec_gap_countdown' = SpawnGap

\* The volume scales every bar on the screen, new or old.
bar_thick ==
  LET scaled == 1 + ((volume - 1) * (ThickMax - 1)) \div (VolumeMax - 1)
  IN IF scaled < 1 THEN 1 ELSE IF scaled > ThickMax THEN ThickMax ELSE scaled

\* The leftmost column draw_rec_animation() lights for the bar at x: dots
\* on the right half, bars as thick as it is loud on the left.
LeftEdge(x) == x + 1 - (IF x > Width \div 2 THEN DotW ELSE bar_thick)

-----------------------------------------------------------------------------
(* ui_set_scene() and the display_write() in it.                           *)

ui_set_scene(s, next) ==
  /\ scene' = s
  /\ page' = Rendered
  /\ main' = "write" /\ at' = 0 /\ then' = next
  /\ UNCHANGED <<bus, panel_on, suspended, pm>>

Return == main' = then /\ at' = 0

\* A suspended panel refuses the whole picture.
StartWrite ==
  /\ main = "write" /\ at = 0
  /\ IF suspended THEN Return ELSE at' = 1 /\ UNCHANGED main
  /\ UNCHANGED <<panelVars, then, scene, since, animVars>>

\* Mutant: the last page is not sent.
LastLeftOut == at >= Pages - 1

LastPage == at = Pages

\* Whether the panel has been suspended since is not looked at again.
WritePage ==
  /\ main = "write" /\ at # 0
  /\ SendPage(at, IF LastPage THEN Return ELSE at' = at + 1 /\ UNCHANGED main, Return)
  /\ UNCHANGED <<then, scene, since, animVars>>

-----------------------------------------------------------------------------
(* main().                                                                 *)

\* No bus, no panel or no memory: the device is not ready and main() returns.
DeviceNotReady ==
  /\ main = "boot"
  /\ ch1115_init(FALSE)
  /\ main' = "gone"
  /\ UNCHANGED <<at, then, scene, since, animVars>>

PanelReady ==
  /\ main = "boot"
  /\ ch1115_init(TRUE)
  /\ main' = "ready"
  /\ UNCHANGED <<at, then, scene, since, animVars>>

FirstScene ==
  /\ main = "ready"
  /\ ui_set_scene("INFO", "sleep")
  /\ UNCHANGED <<since, animVars>>

Elapsed(d) == IF since + d < SwitchTicks THEN since + d ELSE SwitchTicks

\* scenes[] holds REC and QR, and scene_idx starts at REC: the first switch
\* goes from INFO to QR, and INFO is not seen again.
NextScene == IF scene = "QR" THEN "REC" ELSE "QR"

WakeUp ==
  /\ main = "sleep"
  /\ \E d \in 1 .. MaxDelay :
       IF Elapsed(d) = SwitchTicks
         THEN /\ since' = 0
              /\ ui_set_scene(NextScene, "draw")
         ELSE /\ since' = Elapsed(d)
              /\ main' = "draw"
              /\ UNCHANGED <<panelVars, at, then, scene>>
  /\ UNCHANGED animVars

Draw ==
  /\ main = "draw" /\ scene = "REC"
  /\ rec_tick' = (rec_tick + 1) % RandTicks
  /\ IF rec_tick' = 0 THEN volume' \in 1 .. VolumeMax ELSE UNCHANGED volume
  /\ rec_anim_step
  /\ ui_set_scene("REC", "sleep")
  /\ UNCHANGED since

NothingToDraw ==
  /\ main = "draw" /\ scene # "REC"
  /\ main' = "sleep"
  /\ UNCHANGED <<panelVars, at, then, scene, since, animVars>>

MainThread ==
  \/ PanelReady \/ FirstScene \/ WakeUp \/ Draw \/ NothingToDraw
  \/ StartWrite \/ WritePage

Environment ==
  /\ BusChanges \/ (main \notin {"boot", "gone"} /\ ch1115_pm_action)
  /\ UNCHANGED <<loopVars, animVars>>

Next == MainThread \/ DeviceNotReady \/ Environment

Spec == Init /\ [][Next]_vars

FairSpec == Spec /\ WF_vars(MainThread)

-----------------------------------------------------------------------------
(* Bars do not run into each other, at any volume and also where dots turn *)
(* into bars: left of a bar there is a dark column before the next one.    *)
BarsApart ==
  \A x, y \in Col :
    x < y /\ rec_cols[x] # 0 /\ rec_cols[y] # 0 => x + 1 < LeftEdge(y)

(* A picture that was lost, or cut off in the middle, is made good without *)
(* anybody looking at the results of display_write(): once the bus works   *)
(* and power management was told that the panel is awake, and leaves it    *)
(* so, both pages are seen in full, on a lit panel, again and again -      *)
(* whatever requests went unanswered before.                               *)
PicturesRecover ==
  <>(main = "sleep") /\ <>[](bus = "ok" /\ pm = "resumed") =>
    \A s \in {"REC", "QR"} : []<>(scene = s /\ main = "sleep" /\ Whole /\ panel_on)

=============================================================================
