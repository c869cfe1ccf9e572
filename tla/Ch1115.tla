------------------------------- MODULE Ch1115 -------------------------------
(***************************************************************************)
(* The driver of the 88x48 panel (custom_OLED_Display_128X64.c): a write   *)
(* sends the picture page by page over I2C, in two transfers per page, and *)
(* stops at the first one that fails.  Power management may blank the      *)
(* panel at any moment, also between two pages: nothing is locked.         *)
(*                                                                         *)
(* A page of the panel is known by its age: how many pictures have been    *)
(* rendered since the one it shows a part of.                              *)
(***************************************************************************)
EXTENDS Integers

CONSTANTS
  Pages,    \* pages of eight rows: height / 8
  MaxAge    \* bound: older pages are not told apart

ASSUME Ch1115Assumption == Pages \in Nat \ {0} /\ MaxAge \in Nat \ {0}

VARIABLES
  bus,        \* the I2C bus is "ok", or "faulty": any transfer may fail
  panel_on,   \* the panel is lit
  suspended,  \* data->suspended
  pm,         \* what the last power management request returned, or init
  page        \* the age of what each page shows

panelVars == <<bus, panel_on, suspended, pm, page>>

Page == 1 .. Pages

PanelTypeOK ==
  /\ bus \in {"ok", "faulty"}
  /\ panel_on \in BOOLEAN /\ suspended \in BOOLEAN
  /\ pm \in {"resumed", "suspended", "failed"}
  /\ page \in [Page -> 0 .. MaxAge]

PanelInit ==
  /\ bus \in {"ok", "faulty"}
  /\ panel_on = FALSE /\ suspended = FALSE /\ pm = "failed"
  /\ page = [p \in Page |-> MaxAge]

Outcome == IF bus = "ok" THEN {TRUE} ELSE BOOLEAN

\* What a transfer that fails was meant to do may have been done or not.
MayReach(ok, old, new) == IF ok THEN {new} ELSE {old, new}

BusChanges ==
  /\ bus' = IF bus = "ok" THEN "faulty" ELSE "ok"
  /\ UNCHANGED <<panel_on, suspended, pm, page>>

\* ch1115_init(): the last command of the sequence lights the panel.
ch1115_init(ok) ==
  /\ panel_on' \in MayReach(ok, panel_on, TRUE)
  /\ suspended' = FALSE
  /\ pm' = IF ok THEN "resumed" ELSE "failed"
  /\ UNCHANGED <<bus, page>>

\* SUSPEND and TURN_OFF: without the panel's answer the driver stays active.
blanking_on ==
  \E ok \in Outcome :
    /\ panel_on' \in MayReach(ok, panel_on, FALSE)
    /\ suspended' = (suspended \/ ok)
    /\ pm' = IF ok THEN "suspended" ELSE "failed"
    /\ UNCHANGED <<bus, page>>

\* Mutant: RESUME returns 0 whatever the panel answers.
ResumeAlwaysOk ==
  \E ok \in Outcome :
    /\ panel_on' \in MayReach(ok, panel_on, TRUE)
    /\ suspended' = FALSE
    /\ pm' = "resumed"
    /\ UNCHANGED <<bus, page>>

\* RESUME: without its answer the driver stays suspended.
blanking_off ==
  \E ok \in Outcome :
    /\ panel_on' \in MayReach(ok, panel_on, TRUE)
    /\ suspended' = (suspended /\ ~ok)
    /\ pm' = IF ok THEN "resumed" ELSE "failed"
    /\ UNCHANGED <<bus, page>>

ch1115_pm_action == blanking_on \/ blanking_off

\* A new picture in the frame buffer: all that the panel shows is older.
Rendered == [p \in Page |-> IF page[p] < MaxAge THEN page[p] + 1 ELSE MaxAge]

\* Mutant: the loop goes on after a transfer that failed.
SendOrSkip(p, next, done) ==
  \E ok \in Outcome :
    /\ page' = [page EXCEPT ![p] = IF ok THEN 0 ELSE @]
    /\ next
    /\ UNCHANGED <<bus, panel_on, suspended, pm>>

\* ch1115_set_pos() and ch1115_write_data() for page p of the picture.
SendPage(p, next, done) ==
  \E ok \in Outcome :
    /\ \E age \in MayReach(ok, page[p], 0) : page' = [page EXCEPT ![p] = age]
    /\ IF ok THEN next ELSE done
    /\ UNCHANGED <<bus, panel_on, suspended, pm>>

-----------------------------------------------------------------------------
(* Whatever fails, and whenever the panel is suspended, a torn picture is  *)
(* always newer at the top: no page shows a later picture than the page    *)
(* above it.                                                               *)
PagesInOrder == \A p, q \in Page : p < q => page[p] <= page[q]

Whole == \A p \in Page : page[p] = 0

=============================================================================
