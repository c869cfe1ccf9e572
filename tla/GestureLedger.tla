--------------------------- MODULE GestureLedger ---------------------------
(***************************************************************************)
(* What a button driver owes its user, with no clock, timer or queue: each *)
(* debounced press is entered in a ledger and each reported gesture pays   *)
(* for presses that were entered and not yet reported.  Nothing is ever    *)
(* reported that was not pressed, a press is never reported twice, and a   *)
(* double click always pays for two presses.                               *)
(***************************************************************************)
EXTENDS Naturals

VARIABLES
  held,     \* the driver holds the button for pressed (and listens to it)
  credit,   \* presses entered and not yet covered by a gesture
  emitted   \* the gesture reported by the last step, or "NONE"

vars == <<held, credit, emitted>>

Gesture == {"SINGLE", "DOUBLE", "LONG"}

TypeOK ==
  /\ held \in BOOLEAN
  /\ credit \in 0 .. 2
  /\ emitted \in Gesture \cup {"NONE"}

Init ==
  /\ held = FALSE
  /\ credit = 0
  /\ emitted = "NONE"

-----------------------------------------------------------------------------
Press ==
  /\ ~held
  /\ held' = TRUE
  /\ credit' = credit + 1
  /\ emitted' = "NONE"

\* A release that reports nothing leaves at most one press to report.
Release ==
  /\ held
  /\ credit <= 1
  /\ held' = FALSE
  /\ emitted' = "NONE"
  /\ UNCHANGED credit

\* A single click reports one press, or one press together with the tap
\* that preceded it; it comes from a release or from a timeout.
Single ==
  /\ credit >= 1
  /\ held' \in BOOLEAN /\ (held' => held)
  /\ credit' \in 0 .. credit - 1
  /\ held' => credit' = credit - 1
  /\ emitted' = "SINGLE"

Double ==
  /\ held
  /\ credit = 2
  /\ held' = FALSE
  /\ credit' = 0
  /\ emitted' = "DOUBLE"

\* A long press is reported while the button is still down.
Long ==
  /\ held
  /\ credit >= 1
  /\ credit' = 0
  /\ emitted' = "LONG"
  /\ UNCHANGED held

Quiet ==
  /\ emitted' = "NONE"
  /\ UNCHANGED <<held, credit>>

Next == Press \/ Release \/ Single \/ Double \/ Long \/ Quiet

Spec == Init /\ [][Next]_vars

=============================================================================
