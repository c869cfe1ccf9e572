--------------------------- MODULE MCZperfClient ---------------------------
(***************************************************************************)
(* Instances of ZperfClient for TLC.                                       *)
(***************************************************************************)
EXTENDS ZperfClient

=============================================================================
