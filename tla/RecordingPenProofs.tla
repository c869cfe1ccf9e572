------------------------- MODULE RecordingPenProofs -------------------------
(***************************************************************************)
(* Proofs about RecordingPen, for any length of the event queue, any       *)
(* screen width and any number, spacing and heights of the bars.           *)
(***************************************************************************)
EXTENDS RecordingPen, SequenceTheorems, FiniteSetTheorems, TLAPS

-----------------------------------------------------------------------------
(* What a step does to the user interface.                                 *)

\* Scenes a button event leads to; the others are only for demonstration.
PenScene == {"BLACK", "INFO", "START_RECORDING"}

ToBlack ==
  /\ scene' = "BLACK" /\ shown' = ui_hide_all(shown) /\ RestartTimers({})
  /\ UNCHANGED <<barVars, info_enh_mode>>

ToInfo(enh) ==
  /\ scene' = "INFO" /\ shown' = InfoPage(enh) /\ RestartTimers({})
  /\ info_enh_mode' = enh /\ UNCHANGED barVars

ToRecording(ts) ==
  /\ scene' = "START_RECORDING" /\ shown' = RecordingPage(ts # {}) /\ RestartTimers(ts)
  /\ StartBars(ts # {}) /\ UNCHANGED info_enh_mode

LEMMA EnteringBlack == ASSUME ui_scene_enter("BLACK") PROVE ToBlack
<1>1. Entered("BLACK") = {[shown |-> ui_hide_all(shown), timers |-> {}]}
  BY DEF Entered
<1>. QED BY <1>1 DEF ui_scene_enter, ToBlack

LEMMA EnteringInfo == ASSUME ui_scene_enter("INFO") PROVE ToInfo(info_enh_mode)
<1>1. Entered("INFO") = {[shown |-> InfoPage(info_enh_mode), timers |-> {}]}
  BY DEF Entered
<1>. QED BY <1>1 DEF ui_scene_enter, ToInfo

LEMMA EnteringRecording ==
  ASSUME ui_scene_enter("START_RECORDING")
  PROVE  \E ts \in {{}, {"bars"}} : ToRecording(ts)
<1>1. Entered("START_RECORDING")
        = {[shown |-> RecordingPage(ts # {}), timers |-> ts] : ts \in Created("bars")}
  BY DEF Entered
<1>2. PICK ts \in Created("bars") :
        /\ shown' = RecordingPage(ts # {}) /\ RestartTimers(ts) /\ StartBars(ts # {})
  BY <1>1 DEF ui_scene_enter
<1>3. ts \in {{}, {"bars"}}
  BY <1>2, Zenon DEF Created
<1>. QED BY <1>2, <1>3 DEF ui_scene_enter, ToRecording

\* What the screen does in reaction to a button event, by scene.
LEMMA Reactions ==
  ASSUME scene \in PenScene, NEW evt \in button_event, React(evt)
  PROVE  \/ scene = "BLACK" /\ evt # "LONG_PRESS" /\ ToInfo(info_enh_mode)
         \/ scene = "INFO" /\ evt = "DOUBLE_PRESS" /\ ToInfo(~info_enh_mode)
         \/ scene = "START_RECORDING" /\ evt = "LONG_PRESS" /\ ToInfo(info_enh_mode)
         \/ /\ scene # "START_RECORDING" /\ evt = "LONG_PRESS"
            /\ \E ts \in {{}, {"bars"}} : ToRecording(ts)
         \/ /\ UNCHANGED uiVars /\ evt # "LONG_PRESS"
            /\ scene # "BLACK" /\ (evt = "DOUBLE_PRESS" => scene # "INFO")
<1>1. CASE evt = "SHORT_PRESS"
  BY <1>1, EnteringInfo DEF React, ShortPress
<1>2. CASE evt = "DOUBLE_PRESS"
  BY <1>2, EnteringInfo DEF React, DoublePress, ToggleMode, ToInfo
<1>3. CASE evt = "LONG_PRESS"
  BY <1>3, EnteringInfo, EnteringRecording DEF React, LongPress, PenScene
<1>. QED BY <1>1, <1>2, <1>3 DEF button_event

-----------------------------------------------------------------------------
(* The user interface keeps its types and its widgets belong together.     *)

\* Every scene change keeps these, so does the scrolling of the bars.
UiInv ==
  /\ UiTypeOK /\ scene \in PenScene
  /\ ScreenMatchesScene
  /\ RecordingIsVisible

LEMMA TimersOf ==
  ASSUME NEW f, NEW S, NEW ts, f = [t \in S |-> t \in ts]
  PROVE  f \in [S -> BOOLEAN] /\ \A t \in S : f[t] <=> t \in ts
<1>1. \A t \in S : f[t] <=> t \in ts
  BY Zenon
<1>2. \A t \in S : (t \in ts) \in BOOLEAN
  OBVIOUS
<1>3. f \in [S -> BOOLEAN]
  BY <1>2, Zenon
<1>. QED BY <1>1, <1>3

LEMMA Restarting ==
  ASSUME UiInv, NEW ts \in SUBSET Timer, RestartTimers(ts)
  PROVE  /\ ui_timer' \in [Timer -> BOOLEAN] /\ lv_timers' \in [Timer -> Nat]
         /\ lv_timers' = [t \in Timer |-> IF ui_timer'[t] THEN 1 ELSE 0]
         /\ \A t \in Timer : ui_timer'[t] <=> t \in ts
<1>1. ui_timer' = [t \in Timer |-> t \in ts]
  BY DEF RestartTimers
<1>2. \A t \in Timer : lv_timers[t] = (IF ui_timer[t] THEN 1 ELSE 0)
  BY DEF UiInv, RecordingIsVisible
<1>3. \A t \in Timer : lv_timers[t] - (IF ui_timer[t] THEN 1 ELSE 0) = 0
  BY <1>2
<1>4. lv_timers' = [t \in Timer |-> IF t \in ts THEN 1 ELSE 0]
  BY <1>3 DEF RestartTimers
<1>5. ui_timer' \in [Timer -> BOOLEAN] /\ \A t \in Timer : ui_timer'[t] <=> t \in ts
  BY <1>1, TimersOf
<1>6. \A t \in Timer : (IF t \in ts THEN 1 ELSE 0) = (IF ui_timer'[t] THEN 1 ELSE 0)
  BY <1>5
<1>. QED BY <1>4, <1>5, <1>6

LEMMA BlackKeepsUi ==
  ASSUME UiInv, ToBlack
  PROVE  UiInv'
<1>1. {} \in SUBSET Timer
  OBVIOUS
<1>2. UiTypeOK'
  BY <1>1, Restarting DEF ToBlack, UiInv, UiTypeOK, ui_scene, ui_hide_all, BarsTypeOK, barVars
<1>3. ScreenMatchesScene'
  BY DEF ToBlack, ScreenMatchesScene, PageOf, ui_hide_all
<1>4. RecordingIsVisible'
  BY <1>1, Restarting DEF ToBlack, RecordingIsVisible, Timer
<1>. QED BY <1>2, <1>3, <1>4 DEF UiInv, ToBlack, PenScene

LEMMA InfoKeepsUi ==
  ASSUME UiInv, NEW enh \in BOOLEAN, ToInfo(enh)
  PROVE  UiInv'
<1>1. {} \in SUBSET Timer
  OBVIOUS
<1>2. UiTypeOK'
  <2>1. InfoPage(enh) \subseteq Widget
    BY DEF UiInv, UiTypeOK, InfoPage, ui_hide_all, Widget, Page, WireState, Mode
  <2>. QED BY <1>1, <2>1, Restarting DEF ToInfo, UiInv, UiTypeOK, ui_scene, BarsTypeOK, barVars
<1>3. ScreenMatchesScene'
  <2>1. InfoPage(enh) \cap Page = {"info_cont"}
    BY DEF InfoPage, ui_hide_all, Page, WireState, Mode, Charge
  <2>2. InfoPage(enh) \cap Mode = {IF enh THEN "mode_enh" ELSE "mode_normal"}
    BY DEF InfoPage, ui_hide_all, Page, WireState, Mode, Charge
  <2>3. InfoPage(enh) \cap WireState = {"wire_disconnected"}
    BY DEF InfoPage, ui_hide_all, Page, WireState, Mode, Charge
  <2>4. "pending_icon" \notin InfoPage(enh)
    BY DEF InfoPage, ui_hide_all, Page, WireState, Mode, Charge
  <2>. QED BY <2>1, <2>2, <2>3, <2>4 DEF ToInfo, ScreenMatchesScene, PageOf
<1>4. RecordingIsVisible'
  BY <1>1, Restarting DEF ToInfo, RecordingIsVisible, Timer
<1>. QED BY <1>2, <1>3, <1>4 DEF UiInv, ToInfo, PenScene

LEMMA RecordingKeepsUi ==
  ASSUME UiInv, NEW ts \in {{}, {"bars"}}, ToRecording(ts)
  PROVE  UiInv'
<1>1. ts \in SUBSET Timer
  BY DEF Timer
<1>2. UiTypeOK'
  <2>1. RecordingPage(ts # {}) \subseteq Widget
    BY DEF UiInv, UiTypeOK, RecordingPage, ui_hide_all, Widget, Page
  <2>2. BarsTypeOK'
    BY RecBarsAssumption DEF ToRecording, StartBars, BarsTypeOK
  <2>. QED BY <1>1, <2>1, <2>2, Restarting DEF ToRecording, UiInv, UiTypeOK, ui_scene
<1>3. ScreenMatchesScene'
  <2>1. RecordingPage(ts # {}) \cap Page = {"rec_cont"}
    BY DEF RecordingPage, ui_hide_all, Page
  <2>. QED BY <2>1 DEF ToRecording, ScreenMatchesScene, PageOf
<1>4. RecordingIsVisible'
  <2>1. /\ "bars" \in RecordingPage(ts # {})
        /\ "rec_dot" \in RecordingPage(ts # {}) <=> ts = {}
    BY DEF RecordingPage, ui_hide_all, Page
  <2>2. "bars" \in ts <=> ts # {}
    OBVIOUS
  <2>. QED BY <1>1, <2>1, <2>2, Restarting DEF ToRecording, RecordingIsVisible, Timer
<1>. QED BY <1>2, <1>3, <1>4 DEF UiInv, ToRecording, PenScene

LEMMA ReactionKeepsUi ==
  ASSUME UiInv, NEW evt \in button_event, React(evt)
  PROVE  UiInv'
<1>1. scene \in PenScene /\ info_enh_mode \in BOOLEAN
  BY DEF UiInv, UiTypeOK
<1>2. CASE ToInfo(info_enh_mode) \/ ToInfo(~info_enh_mode)
  BY <1>1, <1>2, InfoKeepsUi
<1>3. CASE \E ts \in {{}, {"bars"}} : ToRecording(ts)
  BY <1>3, RecordingKeepsUi
<1>4. CASE UNCHANGED uiVars
  BY <1>4 DEF uiVars, UiInv, UiTypeOK, BarsTypeOK, barVars, ScreenMatchesScene,
    RecordingIsVisible
<1>. QED BY <1>1, <1>2, <1>3, <1>4, Reactions

LEMMA ScrollKeepsUi ==
  ASSUME UiInv, bars_timer_cb, UNCHANGED <<scene, info_enh_mode, ui_timer, lv_timers, shown>>
  PROVE  UiInv'
<1>1. BarsTypeOK'
  <2>1. \A h \in Heights : HandOn(h) \in [Bar -> Heights \cup {0}]
    BY RecBarsAssumption DEF UiInv, UiTypeOK, BarsTypeOK, HandOn, Bar
  <2>. QED BY <2>1, RecBarsAssumption DEF UiInv, UiTypeOK, BarsTypeOK, bars_timer_cb
<1>. QED BY <1>1 DEF UiInv, UiTypeOK, ScreenMatchesScene, RecordingIsVisible

-----------------------------------------------------------------------------
(* The event queue, and the double presses on it.                          *)

LEMMA DoublesFinite ==
  ASSUME evq \in Seq(button_event)
  PROVE  IsFiniteSet(Doubles) /\ Cardinality(Doubles) \in Nat
<1>1. IsFiniteSet(DOMAIN evq)
  BY FS_Interval, LenProperties
<1>2. Doubles \in SUBSET DOMAIN evq
  BY DEF Doubles
<1>3. IsFiniteSet(Doubles)
  BY <1>1, <1>2, FS_Subset
<1>. QED BY <1>3, FS_CardinalityType

LEMMA Queued ==
  ASSUME evq \in Seq(button_event), NEW evt \in button_event, evq' = Append(evq, evt)
  PROVE  /\ evq' \in Seq(button_event) /\ Len(evq') = Len(evq) + 1
         /\ Cardinality(Doubles') = Cardinality(Doubles)
                                      + (IF evt = "DOUBLE_PRESS" THEN 1 ELSE 0)
<1>1. /\ evq' \in Seq(button_event) /\ Len(evq') = Len(evq) + 1
      /\ \A n \in 1 .. Len(evq) : evq'[n] = evq[n]
      /\ evq'[Len(evq) + 1] = evt
  BY AppendProperties
<1>2. /\ Len(evq) \in Nat /\ DOMAIN evq = 1 .. Len(evq)
      /\ DOMAIN evq' = 1 .. Len(evq')
  BY <1>1, LenProperties
<1>3. Len(evq) + 1 \notin Doubles
  BY <1>2 DEF Doubles
<1>4. CASE evt = "DOUBLE_PRESS"
  <2>1. Doubles' = Doubles \cup {Len(evq) + 1}
    BY <1>1, <1>2, <1>4 DEF Doubles
  <2>. QED BY <1>1, <1>3, <1>4, <2>1, DoublesFinite, FS_AddElement
<1>5. CASE evt # "DOUBLE_PRESS"
  <2>1. Doubles' = Doubles
    BY <1>1, <1>2, <1>5 DEF Doubles
  <2>. QED BY <1>1, <1>5, <2>1, DoublesFinite
<1>. QED BY <1>4, <1>5

LEMMA Taken ==
  ASSUME evq \in Seq(button_event), evq # <<>>, evq' = Tail(evq)
  PROVE  /\ evq' \in Seq(button_event) /\ Len(evq') = Len(evq) - 1
         /\ Head(evq) \in button_event
         /\ Len(evq') \in Nat /\ Cardinality(Doubles') \in Nat
         /\ Cardinality(Doubles) = Cardinality(Doubles')
                                     + (IF Head(evq) = "DOUBLE_PRESS" THEN 1 ELSE 0)
<1>1. /\ Head(evq) \in button_event /\ evq' \in Seq(button_event)
      /\ Len(evq') = Len(evq) - 1
      /\ \A n \in 1 .. Len(evq') : evq'[n] = evq[n + 1]
  BY HeadTailProperties
<1>2. /\ Len(evq) \in Nat \ {0} /\ DOMAIN evq = 1 .. Len(evq)
      /\ DOMAIN evq' = 1 .. Len(evq')
  BY <1>1, LenProperties, EmptySeq
<1>3. Head(evq) = evq[1] /\ (1 \in Doubles <=> Head(evq) = "DOUBLE_PRESS")
  BY <1>2 DEF Doubles
<1> DEFINE rest == Doubles \ {1}
           f == [i \in rest |-> i - 1]
<1>4. /\ IsFiniteSet(rest)
      /\ Cardinality(rest) = IF 1 \in Doubles THEN Cardinality(Doubles) - 1
                                              ELSE Cardinality(Doubles)
  BY DoublesFinite, FS_RemoveElement
<1>5. \A i \in rest : i \in 2 .. Len(evq) /\ i - 1 \in Doubles'
  BY <1>1, <1>2 DEF Doubles
<1>6. \A j \in Doubles' : j \in Nat /\ j + 1 \in rest
  BY <1>1, <1>2 DEF Doubles
<1>7. f \in Bijection(rest, Doubles')
  <2> HIDE DEF rest
  <2>1. f \in [rest -> Doubles']
    BY <1>5
  <2>2. \A i, j \in rest : f[i] = f[j] => i = j
    BY <1>5
  <2>3. \A j \in Doubles' : f[j + 1] = j
    BY <1>6
  <2>4. \A j \in Doubles' : \E i \in rest : f[i] = j
    BY <1>6, <2>3
  <2> HIDE DEF f
  <2>. QED BY <2>1, <2>2, <2>4 DEF Bijection, Injection, Surjection, IsInjective
<1>8. Cardinality(Doubles') = Cardinality(rest)
  <2> HIDE DEF rest, f
  <2>. QED BY <1>4, <1>7, FS_Bijection DEF ExistsBijection
<1>9. Cardinality(rest) \in Nat
  BY <1>4, FS_CardinalityType
<1>. QED BY <1>1, <1>2, <1>3, <1>4, <1>8, <1>9, DoublesFinite

\* What a gesture of the driver does to the queue: one more event, or none.
LEMMA Emitted ==
  ASSUME TypeOK, DriverStep
  PROVE  \/ evq' = evq
         \/ /\ emitted' \in cb /\ Len(evq) < QueueSize
            /\ evq' = Append(evq, event_of[emitted'])
            /\ event_of[emitted'] \in button_event
            /\ event_of[emitted'] = "DOUBLE_PRESS" <=> emitted' = "DOUBLE"
<1>1. \A g \in Driver!Gesture : /\ event_of[g] \in button_event
                                /\ event_of[g] = "DOUBLE_PRESS" <=> g = "DOUBLE"
  BY DEF Driver!Gesture, event_of, button_event
<1>2. emitted' \in cb => emitted' \in Driver!Gesture
  BY DEF TypeOK
<1>. QED BY <1>1, <1>2 DEF DriverStep, button_emit

-----------------------------------------------------------------------------
(* The composition.                                                        *)

\* Before the loop no event is served, and the driver enters a press only
\* when the one before has been released.
IInv ==
  /\ TypeOK
  /\ UiInv
  /\ main \notin {"loop", "drain"} => scene = "BLACK"
  /\ ~held => credit <= 1

LEMMA DriverKeepsInv ==
  ASSUME IInv, DriverStep
  PROVE  IInv'
<1> USE DEF IInv
<1>1. UNCHANGED <<uiVars, cb, tick_timer, main>>
  BY DEF DriverStep
<1>2. UiInv' /\ scene' = scene
  BY <1>1 DEF uiVars, UiInv, UiTypeOK, BarsTypeOK, barVars, ScreenMatchesScene,
    RecordingIsVisible
<1>3. Driver!TypeOK' /\ (~held' => credit' <= 1)
  <2> USE DEF Driver!Next, Driver!Press, Driver!Release, Driver!Single, Driver!Double,
        Driver!Long, Driver!Quiet
  <2>1. held \in BOOLEAN /\ credit \in 0 .. 2 /\ Driver!Next
    BY DEF DriverStep, TypeOK, Driver!TypeOK
  <2>2. held' \in BOOLEAN
    BY <2>1
  <2>3. credit' \in 0 .. 2 /\ (~held' => credit' <= 1)
    BY <2>1
  <2>4. emitted' \in Driver!Gesture \cup {"NONE"}
    BY <2>1 DEF TypeOK, Driver!TypeOK, Driver!Gesture
  <2>. QED BY <2>2, <2>3, <2>4 DEF Driver!TypeOK
<1>4. evq' \in Seq(button_event) /\ Len(evq') <= QueueSize
  BY Emitted, Queued, QueueSizeAssumption, LenProperties DEF TypeOK
<1>. QED BY <1>1, <1>2, <1>3, <1>4 DEF TypeOK, UiInv

LEMMA MainKeepsInv ==
  ASSUME IInv, MainStep \/ BarsDue \/ BootFails
  PROVE  IInv'
<1> USE DEF IInv
<1>1. Driver!TypeOK' /\ (~held' => credit' <= 1)
  <2>1. UNCHANGED driverVars
    BY DEF MainStep, BarsDue, BootFails, CreateUi, PurgeQueue, RegisterCallback, EnterBlack,
      CreateTickTimer, TickDue, TakeEvent, QueueDrained
  <2>. QED BY <2>1 DEF driverVars, TypeOK, Driver!TypeOK
<1>2. evq' \in Seq(button_event) /\ Len(evq') <= QueueSize
  <2>1. CASE PurgeQueue
    BY <2>1, QueueSizeAssumption, EmptySeq DEF PurgeQueue
  <2>2. CASE TakeEvent
    BY <2>2, Taken, QueueSizeAssumption, LenProperties DEF TakeEvent, TypeOK
  <2>3. CASE evq' = evq
    BY <2>3 DEF TypeOK
  <2>. QED BY <2>1, <2>2, <2>3 DEF MainStep, BarsDue, BootFails, CreateUi, RegisterCallback,
      EnterBlack, CreateTickTimer, TickDue, QueueDrained
<1>3. UiInv' /\ (main' \notin {"loop", "drain"} => scene' = "BLACK")
  <2>1. CASE EnterBlack
    BY <2>1, EnteringBlack, BlackKeepsUi DEF EnterBlack, ToBlack
  <2>2. CASE TakeEvent
    BY <2>2, Taken, ReactionKeepsUi DEF TakeEvent, TypeOK
  <2>3. CASE BarsDue
    BY <2>3, ScrollKeepsUi DEF BarsDue
  <2>4. CASE UNCHANGED uiVars /\ (main' \notin {"loop", "drain"} => main \notin {"loop", "drain"})
    BY <2>4 DEF uiVars, UiInv, UiTypeOK, BarsTypeOK, barVars, ScreenMatchesScene,
      RecordingIsVisible
  <2>. QED BY <2>1, <2>2, <2>3, <2>4 DEF MainStep, BootFails, CreateUi, PurgeQueue,
      RegisterCallback, CreateTickTimer, TickDue, QueueDrained
<1>4. cb' \subseteq Driver!Gesture /\ tick_timer' \in BOOLEAN /\ main' \in Where
  BY DEF TypeOK, Driver!Gesture, Where, MainStep, BarsDue, BootFails, CreateUi, PurgeQueue,
    RegisterCallback, EnterBlack, CreateTickTimer, TickDue, TakeEvent, QueueDrained
<1>. QED BY <1>1, <1>2, <1>3, <1>4 DEF TypeOK, UiInv

LEMMA Invariance == Spec => []IInv
<1>1. Init => IInv
  <2> SUFFICES ASSUME Init PROVE IInv
    OBVIOUS
  <2>1. UiTypeOK
    <3>1. ui_timer \in [Timer -> BOOLEAN]
      BY Zenon DEF Init, UiInit
    <3>2. lv_timers \in [Timer -> Nat]
      BY DEF Init, UiInit
    <3>3. shown \subseteq Widget
      BY DEF Init, UiInit, Widget, WireState, Mode
    <3>4. BarsTypeOK
      BY RecBarsAssumption DEF Init, UiInit, BarsInit, BarsTypeOK
    <3>. QED BY <3>1, <3>2, <3>3, <3>4 DEF Init, UiInit, UiTypeOK, ui_scene
  <2>2. ScreenMatchesScene /\ RecordingIsVisible /\ scene \in PenScene
    BY DEF Init, UiInit, ScreenMatchesScene, RecordingIsVisible, PageOf, Page, Timer, PenScene
  <2>3. evq \in Seq(button_event) /\ Len(evq) = 0
    BY EmptySeq DEF Init
  <2>4. Driver!TypeOK /\ credit <= 1
    <3>1. held \in BOOLEAN /\ emitted \in Driver!Gesture \cup {"NONE"}
      BY Zenon DEF Init, Driver!Init
    <3>2. credit \in 0 .. 2 /\ credit <= 1
      BY DEF Init, Driver!Init
    <3>. QED BY <3>1, <3>2 DEF Driver!TypeOK
  <2>5. TypeOK
    <3>1. cb \subseteq Driver!Gesture /\ main \in Where
      BY DEF Init, Where
    <3>2. tick_timer \in BOOLEAN
      BY Zenon DEF Init
    <3>. QED BY <2>1, <2>3, <2>4, <3>1, <3>2, QueueSizeAssumption DEF TypeOK
  <2>. QED BY <2>1, <2>2, <2>4, <2>5 DEF Init, IInv, UiInv, UiInit
<1>2. IInv /\ [Next]_vars => IInv'
  <2> SUFFICES ASSUME IInv, [Next]_vars PROVE IInv'
    OBVIOUS
  <2>1. CASE UNCHANGED vars
    BY <2>1 DEF vars, uiVars, barVars, driverVars, IInv, TypeOK, UiInv, UiTypeOK, BarsTypeOK,
      ScreenMatchesScene, RecordingIsVisible, Driver!TypeOK
  <2>. QED BY <2>1, DriverKeepsInv, MainKeepsInv DEF Next
<1>. QED BY <1>1, <1>2, PTL DEF Spec

(* The types of the application, its button driver and its screen.         *)
THEOREM TypeCorrect == Spec => []TypeOK
BY Invariance, PTL DEF IInv

(* The screen shows the page of the scene, and the information page shows  *)
(* the mode in force, whatever was pressed in which scene.                 *)
THEOREM ScreenFollowsScene == Spec => []ScreenMatchesScene
<1>1. IInv => ScreenMatchesScene
  BY DEF IInv, UiInv
<1>. QED BY <1>1, Invariance, PTL

(* A recording is always seen, by its bars or by the dot, and LVGL keeps   *)
(* no timer the program has forgotten, even when it cannot create one.     *)
THEOREM RecordingStaysVisible == Spec => []RecordingIsVisible
<1>1. IInv => RecordingIsVisible
  BY DEF IInv, UiInv
<1>. QED BY <1>1, Invariance, PTL

-----------------------------------------------------------------------------
(* The bars scroll.                                                        *)

LEMMA Sizes ==
  /\ OledW \in Nat \ {0} /\ Pitch \in Nat \ {0, 1} /\ BarCount \in Nat \ {0}
  /\ BarW \in Nat \ {0} /\ BarWMax \in Nat \ {0}
  /\ GrowRange \in Nat \ {0} /\ VolMax \in Nat \ {0}
  /\ BarW <= BarWMax /\ BarWMax < Pitch /\ Pitch <= BarWMax + 3
  /\ (BarCount - 1) * Pitch >= OledW
  /\ center_x \in Nat
BY RecBarsAssumption DEF center_x

\* Bars are a pitch apart.
LEMMA OneBarPerColumn ==
  ASSUME NEW i \in Int, NEW j \in Int
  PROVE  /\ i < j => i * Pitch + Pitch <= j * Pitch
         /\ i * Pitch \in Int
         /\ (i + 1) * Pitch = i * Pitch + Pitch
<1>1. Pitch \in Nat \ {0}
  BY Sizes
<1>2. i < j => (j - i) * Pitch >= Pitch
  BY <1>1
<1>. QED BY <1>1, <1>2

LEMMA TargetOfBar ==
  ASSUME rec_scroll_px \in Int, NEW x \in Int, NEW i \in Bar, BarAt(i, x)
  PROVE  Target(x) = bar_meta[i]
<1>1. \A j \in Bar : BarAt(j, x) => j = i
  <2> SUFFICES ASSUME NEW j \in Bar, BarAt(j, x) PROVE j = i
    OBVIOUS
  <2>1. i \in Int /\ j \in Int /\ i * Pitch = j * Pitch
    BY OneBarPerColumn, Sizes DEF Bar, BarAt
  <2>2. Pitch \in Nat \ {0}
    BY Sizes
  <2>. QED BY <2>1, <2>2, OneBarPerColumn
<1>2. (CHOOSE j \in Bar : BarAt(j, x)) = i
  BY <1>1
<1>. QED BY <1>2, Zenon DEF Target

\* Within a pitch the row moves as a whole.
LEMMA RowMoves ==
  ASSUME rec_scroll_px \in Int, rec_scroll_px' = rec_scroll_px - 1, UNCHANGED bar_meta,
         NEW x \in Int
  PROVE  /\ HasBar(x)' <=> HasBar(x + 1)
         /\ HasBar(x + 1) => Target(x)' = Target(x + 1)
<1>1. \A i \in Bar : BarAt(i, x)' <=> BarAt(i, x + 1)
  BY OneBarPerColumn, Sizes DEF Bar, BarAt
<1>2. (CHOOSE i \in Bar : BarAt(i, x)') = (CHOOSE i \in Bar : BarAt(i, x + 1))
  BY <1>1
<1>. QED BY <1>1, <1>2 DEF HasBar, Target

\* When it is put back, each bar stands where its right neighbour stood.
LEMMA RowIsPutBack ==
  ASSUME rec_scroll_px = 1 - Pitch, rec_scroll_px' = 0,
         NEW h, bar_meta' = HandOn(h), NEW x \in (1 - Pitch) .. (OledW - 1)
  PROVE  /\ HasBar(x)' <=> HasBar(x + 1)
         /\ HasBar(x + 1) => Target(x)' = Target(x + 1)
<1>1. Pitch \in Nat \ {0} /\ BarCount \in Nat \ {0} /\ OledW \in Nat \ {0}
      /\ x < (BarCount - 1) * Pitch /\ x \in Int /\ x > -Pitch
  BY Sizes
<1>2. rec_scroll_px \in Int /\ rec_scroll_px' \in Int
  BY <1>1
<1>3. CASE HasBar(x)'
  <2>1. PICK i \in Bar : BarAt(i, x)'
    BY <1>3 DEF HasBar
  <2>2. i \in Int /\ i >= 0 /\ i * Pitch = x
    BY <1>1, <2>1, OneBarPerColumn DEF Bar, BarAt
  <2>3. i < BarCount - 1
    <3>1. i <= BarCount - 1
      BY <1>1 DEF Bar
    <3>2. i # BarCount - 1
      BY <1>1, <2>2
    <3>. QED BY <1>1, <2>2, <3>1, <3>2
  <2>4. i + 1 \in Bar /\ BarAt(i + 1, x + 1)
    BY <1>1, <2>2, <2>3, OneBarPerColumn DEF Bar, BarAt
  <2>5. Target(x + 1) = bar_meta[i + 1]
    BY <1>1, <1>2, <2>4, TargetOfBar
  <2>6. Target(x)' = bar_meta'[i]
    <3>1. \A j \in Bar : BarAt(j, x)' => j = i
      BY <1>1, <2>2, OneBarPerColumn DEF Bar, BarAt
    <3>2. (CHOOSE j \in Bar : BarAt(j, x)') = i
      BY <2>1, <3>1
    <3>. QED BY <3>2, Zenon DEF Target
  <2>7. bar_meta'[i] = bar_meta[i + 1]
    BY <1>1, <2>2, <2>3 DEF HandOn
  <2>. QED BY <1>3, <2>4, <2>5, <2>6, <2>7 DEF HasBar
<1>4. CASE ~ HasBar(x)'
  <2>1. ASSUME NEW i \in Bar, BarAt(i, x + 1) PROVE FALSE
    <3>1. i \in Int /\ i >= 0 /\ i * Pitch = x + Pitch
      BY <1>1, <2>1, OneBarPerColumn DEF Bar, BarAt
    <3>2. i # 0
      BY <1>1, <3>1
    <3>3. i - 1 \in Bar /\ (i - 1) * Pitch = x
      <4>1. ((i - 1) + 1) * Pitch = (i - 1) * Pitch + Pitch /\ (i - 1) * Pitch \in Int
        <5>1. i - 1 \in Int
          BY <3>1
        <5>. QED BY <5>1, OneBarPerColumn
      <4>. QED BY <1>1, <3>1, <3>2, <4>1 DEF Bar
    <3>4. BarAt(i - 1, x)'
      BY <1>1, <3>3 DEF BarAt
    <3>. QED BY <1>4, <3>3, <3>4 DEF HasBar
  <2>. QED BY <1>4, <2>1 DEF HasBar
<1>. QED BY <1>3, <1>4

LEMMA RowScrolls ==
  ASSUME BarsTypeOK, bars_timer_cb, NEW x \in Shown
  PROVE  /\ HasBar(x)' <=> HasBar(x + 1)
         /\ HasBar(x + 1) => Target(x)' = Target(x + 1)
<1>1. /\ rec_scroll_px \in (1 - Pitch) .. 0 /\ Pitch \in Nat \ {0, 1}
      /\ x \in (1 - Pitch) .. (OledW - 1)
  BY Sizes DEF BarsTypeOK, Shown
<1>2. CASE rec_scroll_px - 1 <= -Pitch
  <2>1. rec_scroll_px = 1 - Pitch /\ rec_scroll_px' = 0
    BY <1>1, <1>2 DEF bars_timer_cb
  <2>2. PICK h \in Heights : bar_meta' = HandOn(h)
    BY <1>2 DEF bars_timer_cb
  <2>. QED BY <1>1, <2>1, <2>2, RowIsPutBack
<1>3. CASE ~(rec_scroll_px - 1 <= -Pitch)
  <2>1. rec_scroll_px' = rec_scroll_px - 1 /\ UNCHANGED bar_meta
    BY <1>3 DEF bars_timer_cb
  <2>2. rec_scroll_px \in Int /\ x \in Int
    BY <1>1
  <2>. QED BY <2>1, <2>2, RowMoves
<1>. QED BY <1>2, <1>3

\* Dividing keeps the order.
LEMMA Quotients ==
  ASSUME NEW d \in Nat \ {0}, NEW a \in Nat, NEW b \in Nat, a <= b
  PROVE  a \div d \in Nat /\ b \div d \in Nat /\ a \div d <= b \div d
<1> DEFINE p == a \div d
           q == b \div d
<1>1. p \in Int /\ d * p <= a /\ a < d * p + d
  OBVIOUS
<1>2. q \in Int /\ d * q <= b /\ b < d * q + d
  OBVIOUS
<1>3. d * p < d * (q + 1) /\ 0 < d * (p + 1)
  BY <1>1, <1>2
<1> HIDE DEF p, q
<1>4. p < q + 1 /\ 0 < p + 1 /\ 0 < q + 1
  <2>1. \A m, n \in Int : m >= n => d * m >= d * n
    OBVIOUS
  <2>2. 0 < d * (q + 1)
    BY <1>2
  <2>. QED BY <1>1, <1>2, <1>3, <2>1, <2>2
<1>. QED BY <1>1, <1>2, <1>4 DEF p, q

LEMMA Products ==
  ASSUME NEW a \in Nat, NEW b \in Nat, NEW m \in Nat, NEW n \in Nat, a <= b, m <= n
  PROVE  a * m \in Nat /\ b * n \in Nat /\ a * m <= b * n
<1>1. a * m <= b * m /\ b * m <= b * n
  OBVIOUS
<1>. QED BY <1>1

\* However loud it is, a bar stays within its cell, at its middle.
LEMMA BarInCell ==
  ASSUME rec_volume \in 0 .. VolMax, NEW x \in Int
  PROVE  /\ x <= Left(x) /\ Left(x) + Width(x) <= x + Pitch
         /\ x < center_x => Middle(x) \in {2 * x + Pitch - 1, 2 * x + Pitch}
         /\ x >= center_x => Middle(x) = 2 * x + BarW
         /\ x < -BarWMax => Left(x) + Width(x) <= 0
<1> DEFINE more == ((BarWMax - BarW) * rec_volume) \div VolMax
<1>1. more \in 0 .. BarWMax - BarW
  <2>1. BarWMax - BarW \in Nat /\ VolMax \in Nat \ {0} /\ rec_volume \in Nat
        /\ rec_volume <= VolMax
    BY Sizes
  <2>2. /\ (BarWMax - BarW) * rec_volume \in Nat /\ (BarWMax - BarW) * VolMax \in Nat
        /\ (BarWMax - BarW) * rec_volume <= (BarWMax - BarW) * VolMax
    BY <2>1, Products
  <2>3. ((BarWMax - BarW) * VolMax) \div VolMax = BarWMax - BarW
    BY <2>1
  <2>. QED BY <2>1, <2>2, <2>3, Quotients
<1>2. /\ Width(x) = IF x < center_x THEN BarW + more ELSE BarW
      /\ Left(x) = IF x < center_x THEN x + (Pitch - Width(x)) \div 2 ELSE x
      /\ Middle(x) = 2 * Left(x) + Width(x)
  BY DEF Width, Left, Middle
<1> HIDE DEF more
<1>3. CASE x < center_x
  <2>1. Width(x) \in BarW .. BarWMax
    BY <1>1, <1>2, <1>3, Sizes
  <2>2. Left(x) = x + (Pitch - Width(x)) \div 2
    BY <1>2, <1>3
  <2>. QED BY <1>2, <1>3, <2>1, <2>2, Sizes
<1>4. CASE x >= center_x
  BY <1>2, <1>4, Sizes
<1>. QED BY <1>3, <1>4, Sizes

\* The same of the picture after a step.
LEMMA CellsBefore ==
  rec_volume \in 0 .. VolMax => \A x \in Int :
    /\ x <= Left(x) /\ Left(x) + Width(x) <= x + Pitch
    /\ x < center_x => Middle(x) \in {2 * x + Pitch - 1, 2 * x + Pitch}
    /\ x >= center_x => Middle(x) = 2 * x + BarW
    /\ x < -BarWMax => Left(x) + Width(x) <= 0
BY BarInCell

LEMMA CellsAfter ==
  (rec_volume \in 0 .. VolMax => \A x \in Int :
    /\ x <= Left(x) /\ Left(x) + Width(x) <= x + Pitch
    /\ x < center_x => Middle(x) \in {2 * x + Pitch - 1, 2 * x + Pitch}
    /\ x >= center_x => Middle(x) = 2 * x + BarW
    /\ x < -BarWMax => Left(x) + Width(x) <= 0)'
BY CellsBefore, PTL

\* A bar grows on its way to the left, and with the volume.
LEMMA BarsGrow ==
  ASSUME NEW t \in Nat, NEW x \in Int,
         rec_volume \in 0 .. VolMax, rec_volume' \in 0 .. VolMax, rec_volume <= rec_volume'
  PROVE  HalfOf(t, x)' >= HalfOf(t, x + 1)
<1> DEFINE near(y) == IF center_x - y > GrowRange THEN GrowRange ELSE center_x - y
           half(y, v) == (((t * near(y)) \div GrowRange) * v) \div VolMax
<1>1. /\ HalfOf(t, x)' = IF x < center_x /\ half(x, rec_volume') >= 1
                           THEN half(x, rec_volume') ELSE 1
      /\ HalfOf(t, x + 1) = IF x + 1 < center_x /\ half(x + 1, rec_volume) >= 1
                              THEN half(x + 1, rec_volume) ELSE 1
  BY DEF HalfOf, center_x
<1>2. CASE x + 1 < center_x
  <2>1. near(x) \in Nat /\ near(x + 1) \in Nat /\ near(x + 1) <= near(x)
    BY <1>2, Sizes
  <2>2. /\ rec_volume \in Nat /\ rec_volume' \in Nat /\ t <= t
        /\ GrowRange \in Nat \ {0} /\ VolMax \in Nat \ {0}
    BY Sizes
  <2> HIDE DEF near
  <2>3. t * near(x) \in Nat /\ t * near(x + 1) \in Nat /\ t * near(x + 1) <= t * near(x)
    BY <2>1, <2>2, Products
  <2> DEFINE g(y) == (t * near(y)) \div GrowRange
  <2>4. g(x) \in Nat /\ g(x + 1) \in Nat /\ g(x + 1) <= g(x)
    BY <2>2, <2>3, Quotients
  <2> HIDE DEF g
  <2>5. /\ g(x) * rec_volume' \in Nat /\ g(x + 1) * rec_volume \in Nat
        /\ g(x + 1) * rec_volume <= g(x) * rec_volume'
    BY <2>2, <2>4, Products
  <2>6. /\ half(x, rec_volume') \in Nat /\ half(x + 1, rec_volume) \in Nat
        /\ half(x + 1, rec_volume) <= half(x, rec_volume')
    BY <2>2, <2>5, Quotients DEF g
  <2> HIDE DEF half
  <2>. QED BY <1>1, <1>2, <2>6, Sizes
<1>3. CASE ~(x + 1 < center_x)
  <2>1. HalfOf(t, x + 1) = 1
    BY <1>1, <1>3
  <2>2. HalfOf(t, x)' >= 1
    <3>1. half(x, rec_volume') \in Int
      BY Sizes
    <3> HIDE DEF half
    <3>. QED BY <1>1, <3>1
  <2>. QED BY <2>1, <2>2
<1>. QED BY <1>2, <1>3

LEMMA ScrollMovesOnePixel ==
  ASSUME BarsTypeOK, BarsTypeOK', bars_timer_cb
  PROVE  MovesOnePixel
<1>1. rec_volume \in 0 .. VolMax /\ rec_volume' \in 0 .. VolMax
  BY DEF BarsTypeOK
<1>2. ASSUME NEW x \in Shown, HasBar(x + 1)
      PROVE  /\ x >= center_x => Middle(x)' = Middle(x + 1) - 2
             /\ x + 1 < center_x => Middle(x)' - Middle(x + 1) \in -3 .. -1
             /\ x <= Left(x)' /\ Left(x)' + Width(x)' <= x + Pitch
             /\ rec_volume' >= rec_volume => Half(x)' >= Half(x + 1)
  <2>1. x \in Int /\ x + 1 \in Int
    BY Sizes DEF Shown
  <2>2. /\ x <= Left(x)' /\ Left(x)' + Width(x)' <= x + Pitch
        /\ x < center_x => Middle(x)' \in {2 * x + Pitch - 1, 2 * x + Pitch}
        /\ x >= center_x => Middle(x)' = 2 * x + BarW
    BY <1>1, <2>1, CellsAfter DEF center_x
  <2>3. /\ x + 1 < center_x =>
             Middle(x + 1) \in {2 * (x + 1) + Pitch - 1, 2 * (x + 1) + Pitch}
        /\ x + 1 >= center_x => Middle(x + 1) = 2 * (x + 1) + BarW
    BY <1>1, <2>1, BarInCell
  <2>4. x >= center_x => Middle(x)' = Middle(x + 1) - 2
    BY <2>1, <2>2, <2>3, Sizes
  <2>5. x + 1 < center_x => Middle(x)' - Middle(x + 1) \in -3 .. -1
    BY <2>1, <2>2, <2>3, Sizes
  <2>6. ASSUME rec_volume' >= rec_volume PROVE Half(x)' >= Half(x + 1)
    <3>1. PICK i \in Bar : BarAt(i, x + 1)
      BY <1>2 DEF HasBar
    <3>2. Target(x)' = bar_meta[i] /\ Target(x + 1) = bar_meta[i]
      <4>1. rec_scroll_px \in Int
        BY Sizes DEF BarsTypeOK
      <4>. QED BY <1>2, <2>1, <3>1, <4>1, RowScrolls, TargetOfBar
    <3>3. bar_meta[i] \in Nat
      <4>1. bar_meta[i] \in Heights \cup {0}
        BY DEF BarsTypeOK
      <4>2. Heights \subseteq Nat
        BY RecBarsAssumption, Zenon
      <4>3. 0 \in Nat
        OBVIOUS
      <4>. QED BY <4>1, <4>2, <4>3, Zenon
    <3>4. HalfOf(bar_meta[i], x + 1) = Half(x + 1)
      BY <3>2 DEF Half
    <3> DEFINE t == bar_meta[i]
    <3> HIDE DEF t
    <3>5. t \in Nat /\ Target(x)' = t /\ Half(x + 1) = HalfOf(t, x + 1)
      BY <3>2, <3>3, <3>4 DEF t
    <3>. QED BY <1>1, <2>1, <2>6, <3>5, BarsGrow DEF Half, HalfOf
  <2>. QED BY <2>2, <2>4, <2>5, <2>6
<1>3. ASSUME NEW x \in -Pitch .. -1, x \notin Shown PROVE Left(x)' + Width(x)' <= 0
  <2>1. x \in Int /\ x < -BarWMax
    BY <1>3, Sizes DEF Shown
  <2>. QED BY <1>1, <2>1, CellsAfter
<1>. QED BY <1>2, <1>3, RowScrolls DEF MovesOnePixel

(* While a recording lasts the picture moves left by a pixel at a time, as *)
(* MovesOnePixel has it, whatever the volume does and however the row is   *)
(* put back: for every screen, every width and pitch of the bars that fill *)
(* it, and every range of heights and volumes.                             *)
THEOREM BarsMoveSmoothly == Spec => BarsScroll
<1>1. IInv /\ [Next]_vars =>
        [scene = "START_RECORDING" /\ scene' = scene /\ barVars' # barVars
           => MovesOnePixel]_uiVars
  <2> SUFFICES ASSUME IInv, [Next]_vars, scene = "START_RECORDING", scene' = scene,
                      barVars' # barVars
               PROVE  MovesOnePixel
    OBVIOUS
  <2>1. CASE BarsDue
    <3>1. UiInv' /\ bars_timer_cb
      BY <2>1, ScrollKeepsUi DEF BarsDue, IInv
    <3>. QED BY <3>1, ScrollMovesOnePixel DEF IInv, TypeOK, UiInv, UiTypeOK
  <2>2. CASE TakeEvent
    <3>1. Head(evq) \in button_event /\ React(Head(evq)) /\ scene \in PenScene
      BY <2>2, Taken DEF TakeEvent, IInv, TypeOK, UiInv
    <3>2. UNCHANGED uiVars
      BY <3>1, Reactions DEF ToInfo
    <3>. QED BY <3>2 DEF uiVars
  <2>3. CASE EnterBlack
    BY <2>3, EnteringBlack DEF EnterBlack, ToBlack
  <2>4. CASE UNCHANGED uiVars
    BY <2>4 DEF uiVars
  <2>. QED BY <2>1, <2>2, <2>3, <2>4 DEF Next, MainStep, DriverStep, BootFails, CreateUi,
      PurgeQueue, RegisterCallback, CreateTickTimer, TickDue, QueueDrained, vars
<1>. QED BY <1>1, Invariance, PTL DEF Spec, BarsScroll

-----------------------------------------------------------------------------
(* The application keeps PenRemote's promise.                              *)

LEMMA RemoteInit == Init => Remote!Init
<1> SUFFICES ASSUME Init PROVE Remote!Init
  OBVIOUS
<1>1. Doubles = {} /\ Len(evq) = 0 /\ credit = 0
  BY EmptySeq DEF Init, Doubles, Driver!Init
<1>2. credit + Len(evq) + Cardinality(Doubles) = 0
  BY <1>1, FS_EmptySet
<1>. QED BY <1>2 DEF Init, UiInit, Remote!Init

LEMMA RemoteStep == IInv /\ [Next]_vars => [Remote!Next]_(Remote!vars)
<1> SUFFICES ASSUME IInv, [Next]_vars PROVE Remote!Next \/ UNCHANGED Remote!vars
  OBVIOUS
<1> DEFINE len == Len(evq)
           doubles == Cardinality(Doubles)
<1>1. /\ len \in Nat /\ doubles \in Nat /\ credit \in 0 .. 2
      /\ evq \in Seq(button_event) /\ scene \in PenScene
  BY DoublesFinite, LenProperties DEF IInv, TypeOK, UiInv, Driver!TypeOK
<1>2. CASE DriverStep
  <2>1. scene' = scene /\ info_enh_mode' = info_enh_mode
    BY <1>2 DEF DriverStep, uiVars
  <2>2. "NONE" \notin cb
    BY DEF IInv, TypeOK, Driver!Gesture
  <2>3. \/ len' = len /\ doubles' = doubles
        \/ /\ len' = len + 1 /\ doubles' = doubles + (IF emitted' = "DOUBLE" THEN 1 ELSE 0)
           /\ emitted' # "NONE"
    <3>1. CASE evq' = evq
      BY <3>1 DEF Doubles
    <3>2. CASE evq' # evq
      BY <1>1, <1>2, <2>2, <3>2, Emitted, Queued DEF IInv
    <3>. QED BY <3>1, <3>2
  <2>4. CASE Driver!Press
    <3>1. credit' = credit + 1 /\ len' = len /\ doubles' = doubles
      BY <2>3, <2>4 DEF Driver!Press
    <3>2. Remote!Press
      BY <1>1, <2>1, <3>1 DEF Remote!Press
    <3>. QED BY <3>2 DEF Remote!Next
  <2>5. CASE ~Driver!Press
    <3>1. credit' + len' + doubles' \in 0 .. credit + len + doubles
      <4>1. CASE Driver!Release \/ Driver!Quiet
        BY <1>1, <2>3, <4>1 DEF Driver!Release, Driver!Quiet
      <4>2. CASE Driver!Single
        BY <1>1, <2>3, <4>2 DEF Driver!Single
      <4>3. CASE Driver!Double
        BY <1>1, <2>3, <4>3 DEF Driver!Double
      <4>4. CASE Driver!Long
        BY <1>1, <2>3, <4>4 DEF Driver!Long
      <4>. QED BY <1>2, <2>5, <4>1, <4>2, <4>3, <4>4 DEF DriverStep, Driver!Next
    <3>2. Remote!Lose \/ UNCHANGED Remote!vars
      BY <1>1, <2>1, <3>1 DEF Remote!Lose, Remote!vars
    <3>. QED BY <3>2 DEF Remote!Next
  <2>. QED BY <2>4, <2>5
<1>3. CASE PurgeQueue
  <2>1. len' = 0 /\ doubles' = 0 /\ credit' = credit
    <3>1. len' = 0 /\ Doubles' = {}
      BY <1>3, EmptySeq DEF PurgeQueue, Doubles
    <3>. QED BY <1>3, <3>1, FS_EmptySet DEF PurgeQueue, driverVars
  <2>2. scene' = scene /\ info_enh_mode' = info_enh_mode
    BY <1>3 DEF PurgeQueue, uiVars
  <2>3. Remote!Lose \/ UNCHANGED Remote!vars
    BY <1>1, <2>1, <2>2 DEF Remote!Lose, Remote!vars
  <2>. QED BY <2>3 DEF Remote!Next
<1>4. CASE TakeEvent
  <2> DEFINE evt == Head(evq)
  <2>1. /\ len' = len - 1 /\ evt \in button_event /\ credit' = credit /\ React(evt)
        /\ doubles = doubles' + (IF evt = "DOUBLE_PRESS" THEN 1 ELSE 0)
        /\ len' \in Nat /\ doubles' \in Nat
    BY <1>1, <1>4, Taken, LenProperties DEF TakeEvent, driverVars
  <2> HIDE DEF evt
  <2>2. CASE evt = "SHORT_PRESS"
    <3>1. /\ scene' = IF scene = "BLACK" THEN "INFO" ELSE scene
          /\ info_enh_mode' = info_enh_mode
      BY <1>1, <2>1, <2>2, Reactions DEF ToInfo, uiVars
    <3>2. Remote!Short
      BY <1>1, <2>1, <2>2, <3>1 DEF Remote!Short
    <3>. QED BY <3>2 DEF Remote!Next
  <2>3. CASE evt = "DOUBLE_PRESS"
    <3>1. /\ scene' = IF scene = "BLACK" THEN "INFO" ELSE scene
          /\ info_enh_mode' = IF scene = "INFO" THEN ~info_enh_mode ELSE info_enh_mode
      BY <1>1, <2>1, <2>3, Reactions DEF ToInfo, uiVars
    <3>2. Remote!Double
      BY <1>1, <2>1, <2>3, <3>1 DEF Remote!Double
    <3>. QED BY <3>2 DEF Remote!Next
  <2>4. CASE evt = "LONG_PRESS"
    <3>1. /\ scene' = IF scene = "START_RECORDING" THEN "INFO" ELSE "START_RECORDING"
          /\ info_enh_mode' = info_enh_mode
      BY <1>1, <2>1, <2>4, Reactions DEF ToInfo, ToRecording, uiVars
    <3>2. Remote!Long
      BY <1>1, <2>1, <2>4, <3>1 DEF Remote!Long
    <3>. QED BY <3>2 DEF Remote!Next
  <2>. QED BY <2>1, <2>2, <2>3, <2>4 DEF button_event
<1>5. CASE EnterBlack
  <2>1. scene = "BLACK" /\ ToBlack /\ UNCHANGED <<evq, credit>>
    BY <1>5, EnteringBlack DEF EnterBlack, IInv, driverVars
  <2>. QED BY <2>1 DEF ToBlack, Remote!vars, Doubles
<1>6. CASE UNCHANGED <<scene, info_enh_mode, credit, evq>>
  BY <1>6 DEF Remote!vars, Doubles
<1>. QED BY <1>2, <1>3, <1>4, <1>5, <1>6 DEF Next, MainStep, BootFails, CreateUi,
    RegisterCallback, CreateTickTimer, TickDue, QueueDrained, BarsDue, vars, uiVars, driverVars

(* The screen and the recording mode change only in reaction to presses    *)
(* that were made, each used at most once, through the queue, the boot and *)
(* two threads.                                                            *)
THEOREM RemoteIsKept == Spec => RemoteKept
BY RemoteInit, RemoteStep, Invariance, PTL DEF Spec, RemoteKept, Remote!Spec

=============================================================================
