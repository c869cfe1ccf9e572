--------------------------- MODULE SimpleUiProofs ---------------------------
(***************************************************************************)
(* Proofs about SimpleUi and its panel, for every size of the panel, every *)
(* spacing and thickness of the bars and every length of the pages' turns. *)
(***************************************************************************)
EXTENDS SimpleUi, TLAPS

USE Ch1115Assumption, SimpleUiAssumption

-----------------------------------------------------------------------------
(* Types.                                                                  *)

LEMMA RenderedType ==
  ASSUME PanelTypeOK PROVE Rendered \in [Page -> 0 .. MaxAge]
BY DEF PanelTypeOK, Rendered

LEMMA DriverType ==
  ASSUME PanelTypeOK, ch1115_init(TRUE) \/ ch1115_init(FALSE) \/ ch1115_pm_action
  PROVE  PanelTypeOK'
<1>1. bus' = bus /\ page' = page
  BY DEF ch1115_init, ch1115_pm_action, blanking_on, blanking_off
<1>2. panel_on' \in BOOLEAN
  BY DEF PanelTypeOK, ch1115_init, ch1115_pm_action, blanking_on, blanking_off, MayReach
<1>3. suspended' \in BOOLEAN /\ pm' \in {"resumed", "suspended", "failed"}
  BY Zenon DEF PanelTypeOK, ch1115_init, ch1115_pm_action, blanking_on, blanking_off
<1>. QED BY <1>1, <1>2, <1>3, Zenon DEF PanelTypeOK

\* A step of the animation keeps heights and countdown in range.
LEMMA AnimationType ==
  ASSUME TypeOK, rec_anim_step
  PROVE  rec_cols' \in [Col -> Heights \cup {0}] /\ rec_gap_countdown' \in 0 .. SpawnGap
<1>1. \A h \in Heights \cup {0} : ShiftedLeft(h) \in [Col -> Heights \cup {0}]
  BY DEF TypeOK, ShiftedLeft, Col
<1>. QED BY <1>1 DEF rec_anim_step, TypeOK

(* Every variable of the user interface and its panel keeps its type: the  *)
(* page being sent is one of the panel's, the countdown never falls below  *)
(* zero and the volume stays one that can be drawn.                        *)
THEOREM TypeCorrect == Spec => []TypeOK
<1>1. Init => TypeOK
  <2>1. (VolumeMax + 1) \div 2 \in 1 .. VolumeMax
    OBVIOUS
  <2>2. Init => PanelTypeOK
    <3>1. MaxAge \in 0 .. MaxAge
      OBVIOUS
    <3>. QED BY <3>1, Zenon DEF Init, PanelInit, PanelTypeOK
  <2>. QED BY <2>1, <2>2 DEF Init, TypeOK
<1>2. TypeOK /\ [Next]_vars => TypeOK'
  <2> SUFFICES ASSUME TypeOK, [Next]_vars PROVE TypeOK'
    OBVIOUS
  <2> USE DEF TypeOK
  <2>1. CASE DeviceNotReady \/ PanelReady
    <3>1. PanelTypeOK'
      BY <2>1, DriverType DEF DeviceNotReady, PanelReady
    <3>. QED BY <2>1, <3>1 DEF DeviceNotReady, PanelReady, animVars
  <2>2. ASSUME NEW s \in {"INFO", "REC", "QR"}, NEW next \in {"sleep", "draw"},
               ui_set_scene(s, next)
        PROVE  PanelTypeOK' /\ scene' = s /\ main' = "write" /\ at' = 0 /\ then' = next
    BY <2>2, RenderedType DEF ui_set_scene, PanelTypeOK
  <2>3. CASE FirstScene
    BY <2>2, <2>3 DEF FirstScene, animVars
  <2>4. CASE WakeUp
    <3>1. UNCHANGED animVars /\ since' \in 0 .. SwitchTicks
      BY <2>4 DEF WakeUp, Elapsed
    <3>2. \/ PanelTypeOK' /\ scene' = NextScene /\ main' = "write" /\ at' = 0 /\ then' = "draw"
          \/ main' = "draw" /\ UNCHANGED <<panelVars, at, then, scene>>
      BY <2>2, <2>4 DEF WakeUp, NextScene
    <3>. QED BY <3>1, <3>2 DEF NextScene, animVars, panelVars, PanelTypeOK
  <2>5. CASE Draw
    <3>1. rec_tick' \in 0 .. RandTicks - 1 /\ volume' \in 1 .. VolumeMax /\ since' = since
      BY <2>5 DEF Draw
    <3>. QED BY <2>2, <2>5, <3>1, AnimationType DEF Draw
  <2>6. CASE NothingToDraw
    BY <2>6 DEF NothingToDraw, animVars, panelVars, PanelTypeOK
  <2>7. CASE StartWrite
    BY <2>7 DEF StartWrite, Return, animVars, panelVars, PanelTypeOK
  <2>8. CASE WritePage
    <3>1. PICK ok \in Outcome :
            /\ \E age \in MayReach(ok, page[at], 0) : page' = [page EXCEPT ![at] = age]
            /\ IF ok THEN IF LastPage THEN Return ELSE at' = at + 1 /\ UNCHANGED main
                     ELSE Return
            /\ UNCHANGED <<bus, panel_on, suspended, pm>>
      BY <2>8 DEF WritePage, SendPage
    <3>2. PanelTypeOK'
      BY <2>8, <3>1 DEF WritePage, PanelTypeOK, MayReach, Page
    <3>3. at' \in 0 .. Pages /\ main' \in {"sleep", "draw", "write"}
      BY <2>8, <3>1 DEF WritePage, LastPage, Return
    <3>. QED BY <2>8, <3>2, <3>3 DEF WritePage, animVars
  <2>9. CASE Environment
    <3>1. PanelTypeOK'
      BY <2>9, DriverType DEF Environment, BusChanges, PanelTypeOK
    <3>. QED BY <2>9, <3>1 DEF Environment, loopVars, animVars
  <2>10. CASE UNCHANGED vars
    BY <2>10 DEF vars, panelVars, loopVars, animVars, PanelTypeOK
  <2>. QED BY <2>1, <2>3, <2>4, <2>5, <2>6, <2>7, <2>8, <2>9, <2>10 DEF Next, MainThread
<1>. QED BY <1>1, <1>2, PTL DEF Spec

-----------------------------------------------------------------------------
(* The bars.                                                               *)

BarsType ==
  /\ rec_cols \in [Col -> Nat] /\ rec_gap_countdown \in 0 .. SpawnGap
  /\ volume \in Int

\* Bars are more than SpawnGap columns apart, and the newest one has moved
\* as far from the right edge as the countdown has come down.
Spaced ==
  /\ \A x, y \in Col :
       x < y /\ rec_cols[x] # 0 /\ rec_cols[y] # 0 => y - x > SpawnGap
  /\ \A x \in Col :
       rec_cols[x] # 0 => x + SpawnGap - rec_gap_countdown < Width

BarsInv == BarsType /\ Spaced

\* A step of the animation keeps the bars apart, a new bar included.
LEMMA AnimationKeepsBars ==
  ASSUME BarsInv, rec_anim_step, volume' \in Int
  PROVE  BarsInv'
<1>1. CASE rec_gap_countdown > 0
  <2>1. /\ rec_cols' = ShiftedLeft(0)
        /\ rec_gap_countdown' = rec_gap_countdown - 1
    BY <1>1 DEF rec_anim_step
  <2>2. BarsType'
    BY <1>1, <2>1 DEF BarsInv, BarsType, ShiftedLeft, Col
  <2>3. Spaced'
    BY <1>1, <2>1 DEF BarsInv, BarsType, Spaced, ShiftedLeft, Col
  <2>. QED BY <2>2, <2>3 DEF BarsInv
<1>2. CASE ~(rec_gap_countdown > 0)
  <2>1. PICK h \in Heights : rec_cols' = ShiftedLeft(h)
    BY <1>2 DEF rec_anim_step
  <2>2. rec_gap_countdown' = SpawnGap /\ rec_gap_countdown = 0 /\ h \in Nat
    BY <1>2 DEF rec_anim_step, BarsInv, BarsType
  <2>3. BarsType'
    BY <2>1, <2>2 DEF BarsInv, BarsType, ShiftedLeft, Col
  <2>4. Spaced'
    BY <2>1, <2>2 DEF BarsInv, BarsType, Spaced, ShiftedLeft, Col
  <2>. QED BY <2>3, <2>4 DEF BarsInv
<1>. QED BY <1>1, <1>2

LEMMA BarsAreSpaced == Spec => []BarsInv
<1>1. Init => BarsInv
  BY DEF Init, BarsInv, BarsType, Spaced, Col
<1>2. BarsInv /\ [Next]_vars => BarsInv'
  <2> SUFFICES ASSUME BarsInv, [Next]_vars PROVE BarsInv'
    OBVIOUS
  <2>1. CASE Draw
    <3>. volume' \in Int
      BY <2>1 DEF Draw, BarsInv, BarsType
    <3>. QED BY <2>1, AnimationKeepsBars DEF Draw
  <2>2. CASE UNCHANGED animVars
    BY <2>2 DEF animVars, BarsInv, BarsType, Spaced
  <2>3. Draw \/ UNCHANGED animVars
    BY DEF Next, MainThread, Environment, DeviceNotReady, PanelReady, FirstScene,
           WakeUp, NothingToDraw, StartWrite, WritePage, vars
  <2>. QED BY <2>1, <2>2, <2>3
<1>. QED BY <1>1, <1>2, PTL DEF Spec

\* Whatever the volume: the code clamps what it has scaled.
LEMMA ThicknessIsBounded ==
  ASSUME volume \in Int PROVE bar_thick \in 1 .. ThickMax
<1> DEFINE num == (volume - 1) * (ThickMax - 1)
           den == VolumeMax - 1
<1>1. num \in Int /\ den \in Nat \ {0}
  OBVIOUS
<1> HIDE DEF num, den
<1>2. num \div den \in Int
  BY <1>1
<1>3. bar_thick = IF 1 + num \div den < 1 THEN 1
                  ELSE IF 1 + num \div den > ThickMax THEN ThickMax ELSE 1 + num \div den
  BY DEF bar_thick, num, den
<1>. QED BY <1>2, <1>3

(* Bars never run into each other, for every width of the screen and every *)
(* volume, as long as no bar is thicker than the gap between spawns.       *)
THEOREM BarsStayApart == Spec => []BarsApart
<1>1. BarsInv => BarsApart
  <2> SUFFICES ASSUME BarsInv, NEW x \in Col, NEW y \in Col,
                      x < y, rec_cols[x] # 0, rec_cols[y] # 0
               PROVE  x + 1 < LeftEdge(y)
    BY DEF BarsApart
  <2>1. y - x > SpawnGap
    BY DEF BarsInv, Spaced
  <2>2. bar_thick \in 1 .. SpawnGap /\ DotW \in 1 .. SpawnGap
    BY ThicknessIsBounded DEF BarsInv, BarsType
  <2> DEFINE thick == IF y > Width \div 2 THEN DotW ELSE bar_thick
  <2>3. thick \in 1 .. SpawnGap /\ LeftEdge(y) = y + 1 - thick
    BY <2>2 DEF LeftEdge
  <2> HIDE DEF thick
  <2>. QED BY <2>1, <2>3 DEF Col
<1>. QED BY <1>1, BarsAreSpaced, PTL

-----------------------------------------------------------------------------
(* The panel.                                                              *)

\* Above the page that is being sent, the panel shows the present picture.
SentSoFar ==
  /\ page \in [Page -> 0 .. MaxAge]
  /\ at \in 0 .. Pages
  /\ \A p \in Page : p < at => page[p] = 0

OrderInv == SentSoFar /\ PagesInOrder

LEMMA RenderingKeepsOrder ==
  ASSUME OrderInv, page' = Rendered, at' = 0
  PROVE  OrderInv'
<1>1. SentSoFar'
  BY DEF OrderInv, SentSoFar, Rendered, Page
<1>2. PagesInOrder'
  BY DEF OrderInv, SentSoFar, PagesInOrder, Rendered, Page
<1>. QED BY <1>1, <1>2 DEF OrderInv

LEMMA SendingKeepsOrder ==
  ASSUME OrderInv, WritePage
  PROVE  OrderInv'
<1>1. PICK ok \in Outcome :
        /\ \E age \in MayReach(ok, page[at], 0) : page' = [page EXCEPT ![at] = age]
        /\ IF ok THEN IF LastPage THEN Return ELSE at' = at + 1 /\ UNCHANGED main
                 ELSE Return
  BY DEF WritePage, SendPage
<1>2. PICK age \in MayReach(ok, page[at], 0) : page' = [page EXCEPT ![at] = age]
  BY <1>1
<1>3. at \in Page /\ age \in 0 .. page[at] /\ (ok => age = 0)
  BY <1>2 DEF WritePage, OrderInv, SentSoFar, Page, MayReach
<1>4. at' \in 0 .. Pages /\ (at' = 0 \/ (ok /\ at' = at + 1))
  BY <1>1, <1>3 DEF Return, LastPage, Page
<1>5. SentSoFar'
  BY <1>2, <1>3, <1>4 DEF OrderInv, SentSoFar, Page
<1>6. PagesInOrder'
  BY <1>2, <1>3 DEF OrderInv, SentSoFar, PagesInOrder, Page
<1>. QED BY <1>5, <1>6 DEF OrderInv

(* A torn picture is always newer at the top, on a panel of any height and *)
(* whatever transfers fail or suspensions come in between.                 *)
THEOREM PagesStayInOrder == Spec => []PagesInOrder
<1>1. Init => OrderInv
  BY DEF Init, PanelInit, OrderInv, SentSoFar, PagesInOrder, Page
<1>2. OrderInv /\ [Next]_vars => OrderInv'
  <2> SUFFICES ASSUME OrderInv, [Next]_vars PROVE OrderInv'
    OBVIOUS
  <2>1. CASE WritePage
    BY <2>1, SendingKeepsOrder
  <2>2. CASE page' = Rendered /\ at' = 0
    BY <2>2, RenderingKeepsOrder
  <2>3. CASE page' = page /\ (at' = at \/ at' = 0)
    BY <2>3 DEF OrderInv, SentSoFar, PagesInOrder, Page
  <2>4. CASE StartWrite
    <3>1. page' = page /\ at' \in {0, 1}
      BY <2>4 DEF StartWrite, Return, panelVars
    <3>. QED BY <3>1 DEF OrderInv, SentSoFar, PagesInOrder, Page
  <2>5. CASE PanelReady \/ DeviceNotReady
    <3>. page' = page /\ at' = at
      BY <2>5 DEF PanelReady, DeviceNotReady, ch1115_init
    <3>. QED BY <2>3
  <2>6. CASE FirstScene \/ Draw
    <3>. page' = Rendered /\ at' = 0
      BY <2>6 DEF FirstScene, Draw, ui_set_scene
    <3>. QED BY <2>2
  <2>7. CASE WakeUp
    <3>. (page' = Rendered /\ at' = 0) \/ (page' = page /\ at' = at)
      BY <2>7 DEF WakeUp, ui_set_scene, panelVars
    <3>. QED BY <2>2, <2>3
  <2>8. CASE NothingToDraw \/ UNCHANGED vars
    <3>. page' = page /\ at' = at
      BY <2>8 DEF NothingToDraw, vars, panelVars, loopVars
    <3>. QED BY <2>3
  <2>9. CASE Environment
    <3>. page' = page /\ at' = at
      BY <2>9 DEF Environment, BusChanges, ch1115_pm_action, blanking_on,
                  blanking_off, loopVars
    <3>. QED BY <2>3
  <2>. QED
    BY <2>1, <2>4, <2>5, <2>6, <2>7, <2>8, <2>9 DEF Next, MainThread
<1>3. OrderInv => PagesInOrder
  BY DEF OrderInv
<1>. QED BY <1>1, <1>2, <1>3, PTL DEF Spec

=============================================================================
