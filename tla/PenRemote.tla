----------------------------- MODULE PenRemote -----------------------------
(***************************************************************************)
(* What the recording pen's one button means to the person holding it:     *)
(* a long press starts and ends a recording, any shorter gesture wakes the *)
(* dark screen, a double click on the information page switches the        *)
(* recording mode.  The pen does nothing of itself: each reaction uses up  *)
(* presses of the button, and presses may be lost but not made up.         *)
(***************************************************************************)
EXTENDS Naturals

VARIABLES
  page,       \* what the screen is on: "BLACK", "INFO" or "START_RECORDING"
  enhanced,   \* enhanced recording mode
  presses     \* presses the pen has not reacted to

vars == <<page, enhanced, presses>>

TypeOK ==
  /\ page \in {"BLACK", "INFO", "START_RECORDING"}
  /\ enhanced \in BOOLEAN
  /\ presses \in Nat

Init ==
  /\ page = "BLACK"
  /\ enhanced = FALSE
  /\ presses = 0

-----------------------------------------------------------------------------
Press ==
  /\ presses' = presses + 1
  /\ UNCHANGED <<page, enhanced>>

Lose ==
  /\ presses' \in 0 .. presses - 1
  /\ UNCHANGED <<page, enhanced>>

Short ==
  /\ presses >= 1
  /\ presses' = presses - 1
  /\ page' = IF page = "BLACK" THEN "INFO" ELSE page
  /\ UNCHANGED enhanced

Double ==
  /\ presses >= 2
  /\ presses' = presses - 2
  /\ page' = IF page = "BLACK" THEN "INFO" ELSE page
  /\ enhanced' = IF page = "INFO" THEN ~enhanced ELSE enhanced

Long ==
  /\ presses >= 1
  /\ presses' = presses - 1
  /\ page' = IF page = "START_RECORDING" THEN "INFO" ELSE "START_RECORDING"
  /\ UNCHANGED enhanced

Next == Press \/ Lose \/ Short \/ Double \/ Long

Spec == Init /\ [][Next]_vars

=============================================================================
