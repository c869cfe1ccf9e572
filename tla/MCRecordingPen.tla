--------------------------- MODULE MCRecordingPen ---------------------------
(***************************************************************************)
(* Instances of RecordingPen for TLC.  The queue is shorter than the eight *)
(* slots of button_evt_q; a full queue, and a gesture dropped by it, are   *)
(* reached at any size.                                                    *)
(***************************************************************************)
EXTENDS RecordingPen

=============================================================================
