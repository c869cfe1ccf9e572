------------------------------ MODULE MCSdSpi ------------------------------
(***************************************************************************)
(* Instances of SdSpi for TLC: three blocks, so that a call can start and  *)
(* end inside the card and several calls overlap.                          *)
(***************************************************************************)
EXTENDS SdSpi

MCContent == Thread \cup {"blank", "lost", "spoilt"}

=============================================================================
