------------------------------ MODULE RecBars ------------------------------
(***************************************************************************)
(* The scrolling volume bars of the recording page (driver/app/src/        *)
(* main.c).  A row of cells, one every Pitch pixels, moves left by a pixel *)
(* per tick of bars_timer; when it has moved by a whole pitch it is put    *)
(* back, every bar takes over its right neighbour's height and the last    *)
(* bar, which must still be right of the screen, gets a new one.  At every *)
(* tick the row is drawn: dots on the right half, and on the left half     *)
(* bars whose width and height follow the volume.  The picture is that of  *)
(* the three variables, as every change of them ends in drawing it.        *)
(***************************************************************************)
EXTENDS Integers

CONSTANTS
  OledW,       \* OLED_W: pixels across
  Pitch,       \* REC_BAR_PITCH
  BarW,        \* REC_BAR_W
  BarWMax,     \* REC_BAR_W_MAX
  BarCount,    \* REC_BAR_COUNT
  Heights,     \* REC_MIN_HALF_H .. REC_MAX_HALF_H
  GrowRange,   \* REC_GROW_RANGE_PX
  VolMax       \* REC_VOL_MAX

\* The row is longer than the screen, and a bar narrower than its cell.
ASSUME RecBarsAssumption ==
  /\ {OledW, Pitch, BarW, BarWMax, BarCount, GrowRange, VolMax} \subseteq Nat \ {0}
  /\ BarW <= BarWMax /\ BarWMax < Pitch /\ Pitch <= BarWMax + 3
  /\ (BarCount - 1) * Pitch >= OledW
  /\ Heights \subseteq Nat \ {0} /\ Heights # {}

VARIABLES
  bar_meta,        \* target_half_h of each bar
  rec_scroll_px,
  rec_volume

barVars == <<bar_meta, rec_scroll_px, rec_volume>>

Bar == 0 .. BarCount - 1

BarsTypeOK ==
  /\ bar_meta \in [Bar -> Heights \cup {0}]
  /\ rec_scroll_px \in (1 - Pitch) .. 0
  /\ rec_volume \in 0 .. VolMax

BarsInit ==
  /\ bar_meta = [i \in Bar |-> 0]
  /\ rec_scroll_px = 0 /\ rec_volume = 0

\* rec_gen_bar() draws a height from prng_u32(); with a timer its callback is
\* run at once.
StartBars(moving) ==
  /\ bar_meta' \in [Bar -> Heights]
  /\ rec_scroll_px' = IF moving THEN -1 ELSE 0
  /\ rec_volume' \in (IF moving THEN 0 .. VolMax ELSE {0})

\* Mutant: the heights are not handed on when the row is put back.
KeepHeights(h) == [bar_meta EXCEPT ![BarCount - 1] = h]

HandOn(h) == [i \in Bar |-> IF i = BarCount - 1 THEN h ELSE bar_meta[i + 1]]

bars_timer_cb ==
  /\ rec_volume' \in 0 .. VolMax
  /\ IF rec_scroll_px - 1 <= -Pitch
       THEN /\ rec_scroll_px' = rec_scroll_px - 1 + Pitch
            /\ \E h \in Heights : bar_meta' = HandOn(h)
       ELSE /\ rec_scroll_px' = rec_scroll_px - 1
            /\ UNCHANGED bar_meta

-----------------------------------------------------------------------------
(* The picture.                                                            *)

center_x == OledW \div 2

\* The cell of bar i begins at column x.
BarAt(i, x) == rec_scroll_px + i * Pitch = x
HasBar(x)   == \E i \in Bar : BarAt(i, x)

\* Where the cells begin whose bars are not hidden.
Shown == -BarWMax .. OledW - 1

\* The width and the left edge of what stands in the cell at x.
Width(x) ==
  IF x < center_x THEN BarW + ((BarWMax - BarW) * rec_volume) \div VolMax ELSE BarW

Left(x) == IF x < center_x THEN x + (Pitch - Width(x)) \div 2 ELSE x

\* Half the height that a bar of height target has in the cell at x: it grows
\* out of a dot, of height REC_DOT_H, when it has crossed the centre.
HalfOf(target, x) ==
  LET k    == IF center_x - x > GrowRange THEN GrowRange ELSE center_x - x
      half == (((target * k) \div GrowRange) * rec_volume) \div VolMax
  IN  IF x < center_x /\ half >= 1 THEN half ELSE 1

Target(x) == bar_meta[CHOOSE i \in Bar : BarAt(i, x)]

Half(x) == HalfOf(Target(x), x)

\* Twice the middle, which need not fall on a column.
Middle(x) == 2 * Left(x) + Width(x)

(* The picture moves left by a pixel, also when the row is put back        *)
(* ("pixel-scroll left"): bars come in from the right edge only.  A dot    *)
(* moves by exactly a pixel, and a bar by a pixel give or take half a      *)
(* pixel, "so width changes don't cause jitter"; a dot that crosses the    *)
(* centre becomes a bar within its own cell.  No bar gets lower unless the *)
(* volume falls, and none is hidden while a part of it is on the screen.   *)
MovesOnePixel ==
  /\ \A x \in Shown :
       /\ HasBar(x)' <=> HasBar(x + 1)
       /\ HasBar(x + 1) =>
            /\ x >= center_x => Middle(x)' = Middle(x + 1) - 2
            /\ x + 1 < center_x => Middle(x)' - Middle(x + 1) \in -3 .. -1
            /\ x <= Left(x)' /\ Left(x)' + Width(x)' <= x + Pitch
            /\ rec_volume' >= rec_volume => Half(x)' >= Half(x + 1)
  /\ \A x \in -Pitch .. -1 : x \notin Shown => Left(x)' + Width(x)' <= 0

=============================================================================
