---------------------------- MODULE MCBleServer ----------------------------
(***************************************************************************)
(* Instances of BleServer for TLC, with the one connection object that     *)
(* prj.conf's default gives and a battery of a few levels.                 *)
(***************************************************************************)
EXTENDS BleServer

=============================================================================
