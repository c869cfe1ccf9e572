-------------------------- MODULE MCButtonGesture --------------------------
(***************************************************************************)
(* Instances of ButtonGesture for TLC.  The delays are a few milliseconds  *)
(* long; what matters is their order, and that ages are told apart beyond  *)
(* the latest moment a timeout can be served.  The binding's defaults have *)
(* debounce < tap threshold < double click < long press; bg_safety has the *)
(* long press shorter than the double click, which a device tree may ask   *)
(* for too, so that a long press can catch up with a tap before it.        *)
(***************************************************************************)
EXTENDS ButtonGesture

\* One more than the oldest age a live timeout can have.
MCMaxAge == (IF LongMs < DoubleMs THEN DoubleMs ELSE LongMs) + Jitter + MaxStall + 1

=============================================================================
