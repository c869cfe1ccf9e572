------------------------------ MODULE MCUsbMsc ------------------------------
(***************************************************************************)
(* Instances of UsbMsc for TLC: the model is finite as it stands.          *)
(***************************************************************************)
EXTENDS UsbMsc

=============================================================================
