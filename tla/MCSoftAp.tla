------------------------------ MODULE MCSoftAp ------------------------------
(***************************************************************************)
(* Instances of SoftAp for TLC: stations are model values, and the table   *)
(* has room for all of them (softap) or for one less (softap_table_full).  *)
(***************************************************************************)
EXTENDS SoftAp

=============================================================================
