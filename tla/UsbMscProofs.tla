---------------------------- MODULE UsbMscProofs ----------------------------
(***************************************************************************)
(* Proofs about UsbMsc, whichever of its calls may fail.                   *)
(***************************************************************************)
EXTENDS UsbMsc, TLAPS

USE UsbMscAssumption

-----------------------------------------------------------------------------
(* The inductive invariant.                                                *)

\* main() offers the drive after its own scan, and the button comes last.
Phases ==
  /\ main \in {"boot", "scan", "init"} => ~g_usbd
  /\ main # "loop" => ~btn /\ ~pending /\ scan["work"] = "none"
  /\ main \in {"enable", "button", "loop"} => g_usbd
  /\ main # "scan" => scan["main"] = "none"
  /\ ~g_usbd => ~usb

\* Every scan saves the flag while it is set, and only the one at boot
\* clears it.
FlagKept ==
  /\ \A t \in Thread : saved[t]
  /\ main # "scan" => no_format

\* What is mounted outside of a listing could not be unmounted, and what is
\* on while the workqueue scans could not be switched off.
MasterKnown ==
  /\ mounted => \/ scan["main"] = "list" \/ scan["work"] = "list"
                \/ "unmount" \in failed
  /\ usb /\ scan["work"] \in {"mount", "list", "restore"} => "disable" \in failed

IInv == TypeOK /\ Phases /\ FlagKept /\ MasterKnown

\* A step of firmware_scan_once() belongs to a thread that is in it.
LEMMA ScanContext ==
  ASSUME IInv, NEW t \in Thread, scan[t] # "none"
  PROVE  /\ t = "main" => main = "scan" /\ ~g_usbd /\ ~usb /\ scan["work"] = "none"
         /\ t = "work" => main = "loop" /\ g_usbd /\ no_format /\ scan["main"] = "none"
         /\ t = "main" \/ t = "work"
BY DEF IInv, Phases, FlagKept, Thread

LEMMA ScanKeepsInv ==
  ASSUME IInv, NEW t \in Thread, Scan(t)
  PROVE  IInv'
<1> USE DEF IInv, TypeOK, Phases, FlagKept, MasterKnown, Goes, Thread, Stage
<1>0. scan[t] # "none"
  BY DEF Scan, MountFails, Mount, Format, MountFormatted, ListAndUnmount, Restore
<1>c. /\ t = "main" => main = "scan" /\ ~g_usbd /\ ~usb /\ scan["work"] = "none"
      /\ t = "work" => main = "loop" /\ g_usbd /\ no_format /\ scan["main"] = "none"
      /\ t = "main" \/ t = "work"
  BY <1>0, ScanContext
<1>1. CASE MountFails(t)
  BY <1>1, <1>c DEF MountFails, usbVars
<1>2. CASE Mount(t)
  BY <1>2, <1>c DEF Mount, usbVars
<1>3. CASE Format(t)
  BY <1>3, <1>c DEF Format, usbVars
<1>4. CASE MountFormatted(t)
  BY <1>4, <1>c DEF MountFormatted, usbVars
<1>5. CASE ListAndUnmount(t)
  <2>1. PICK ok \in BOOLEAN : mounted' = ~ok /\ failed' = Noted("unmount", ok)
    BY <1>5 DEF ListAndUnmount, Outcome
  <2>. QED BY <1>5, <1>c, <2>1 DEF ListAndUnmount, Noted, usbVars
<1>6. CASE Restore(t)
  BY <1>6, <1>c DEF Restore, After, usbVars
<1>. QED BY <1>1, <1>2, <1>3, <1>4, <1>5, <1>6 DEF Scan

LEMMA Invariance == Spec => []IInv
<1>1. Init => IInv
  BY DEF Init, IInv, TypeOK, Phases, FlagKept, MasterKnown, Thread, Stage
<1>2. IInv /\ [Next]_vars => IInv'
  <2> SUFFICES ASSUME IInv, [Next]_vars PROVE IInv'
    OBVIOUS
  <2> USE DEF IInv, TypeOK, Phases, FlagKept, MasterKnown, Goes, Thread, Stage
  <2>1. CASE BootScan
    BY <2>1 DEF BootScan, usbVars
  <2>2. CASE \E t \in Thread : Scan(t)
    BY <2>2, ScanKeepsInv
  <2>3. CASE usb_init
    BY <2>3 DEF usb_init, scanVars
  <2>4. CASE EnableUsbAtBoot
    BY <2>4 DEF EnableUsbAtBoot, scanVars
  <2>5. CASE btn1_init
    BY <2>5 DEF btn1_init, scanVars
  <2>6. CASE fw_scan_work_handler
    BY <2>6 DEF fw_scan_work_handler
  <2>7. CASE DisableUsb
    <3>1. PICK ok \in BOOLEAN :
            /\ IF g_usbd /\ ok THEN usb' = FALSE /\ host' = "away" ELSE UNCHANGED <<usb, host>>
            /\ failed' = Noted("disable", ok)
      BY <2>7 DEF DisableUsb, Outcome
    <3>. QED BY <2>7, <3>1 DEF DisableUsb, Noted
  <2>8. CASE EnableUsb
    <3>1. PICK ok \in BOOLEAN : usb' = (usb \/ ok) /\ failed' = Noted("enable", ok)
      BY <2>8 DEF EnableUsb, Outcome
    <3>. QED BY <2>8, <3>1 DEF EnableUsb, Noted
  <2>9. CASE GiveUp
    BY <2>9 DEF GiveUp, scanVars, usbVars
  <2>10. CASE HostComes \/ HostWrites \/ HostHasWritten \/ HostLeaves
    <3>1. UNCHANGED <<main, scan, saved, no_format, mounted, g_usbd, usb, pending, btn, failed>>
      BY <2>10 DEF HostComes, HostWrites, HostHasWritten, HostLeaves, scanVars, usbVars
    <3>2. host' \in {"away", "using", "writing"} /\ disk' \in {"blank", "fat", "foreign", "torn"}
      BY <2>10 DEF HostComes, HostWrites, HostHasWritten, HostLeaves
    <3>. QED BY <3>1, <3>2
  <2>11. CASE btn1_pressed
    BY <2>11 DEF btn1_pressed, scanVars
  <2>12. CASE Reset
    BY <2>12 DEF Reset
  <2>13. CASE UNCHANGED vars
    BY <2>13 DEF vars, scanVars, usbVars
  <2>. QED
    BY <2>1, <2>2, <2>3, <2>4, <2>5, <2>6, <2>7, <2>8, <2>9, <2>10, <2>11, <2>12, <2>13
    DEF Next, MainThread, Workqueue
<1>. QED BY <1>1, <1>2, PTL DEF Spec

-----------------------------------------------------------------------------
(* The variables keep their types: formatting, for one, is a stage that    *)
(* only the scan of the main thread comes to.                              *)
THEOREM TypeCorrect == Spec => []TypeOK
<1>1. IInv => TypeOK
  BY DEF IInv
<1>. QED BY <1>1, Invariance, PTL

(* The host and the FAT driver have the disk both only after a failed      *)
(* usbd_disable() or fs_unmount(), through every scan, failure and reset.  *)
THEOREM OneMasterAtATime == Spec => []OneMaster
<1>1. IInv => OneMaster
  BY DEF IInv, TypeOK, Phases, MasterKnown, OneMaster
<1>. QED BY <1>1, Invariance, PTL

(* The drive is never formatted once it has been offered to a host: every  *)
(* way out of the boot scan, and of every later scan, leaves the flag set. *)
THEOREM FormattedAtBootOnly == Spec => []FormatOnlyAtBoot
<1>1. IInv => FormatOnlyAtBoot
  BY DEF IInv, Phases, FlagKept, FormatOnlyAtBoot
<1>. QED BY <1>1, Invariance, PTL

(* Between a boot and the next reset only the host changes the disk.       *)
THEOREM HostWritesOnly == Spec => OnlyHostWrites
<1>1. IInv /\ [Next]_vars => [g_usbd /\ disk' # disk => usb /\ host # "away"]_vars
  <2> SUFFICES ASSUME IInv, [Next]_vars, g_usbd, disk' # disk
               PROVE  usb /\ host # "away"
    OBVIOUS
  <2>1. ~ \E t \in Thread : Scan(t)
    <3>1. SUFFICES ASSUME NEW t \in Thread, Scan(t) PROVE disk' = disk
      OBVIOUS
    <3>2. CASE Format(t) \/ MountFormatted(t)
      <4>1. scan[t] # "none" /\ (Format(t) => ~no_format) /\ (MountFormatted(t) => scan[t] = "mkfs")
        BY <3>2 DEF Format, MountFormatted
      <4>. QED BY <3>2, <4>1, ScanContext DEF IInv, TypeOK
    <3>. QED BY <3>1, <3>2 DEF Scan, MountFails, Mount, ListAndUnmount, Restore
  <2>. QED
    BY <2>1 DEF Next, MainThread, Workqueue, Thread, BootScan, usb_init,
       EnableUsbAtBoot, btn1_init, fw_scan_work_handler, DisableUsb, EnableUsb,
       GiveUp, HostComes, HostWrites, HostHasWritten, HostLeaves, btn1_pressed,
       Reset, vars
<1>. QED BY <1>1, Invariance, PTL DEF Spec, OnlyHostWrites

=============================================================================
