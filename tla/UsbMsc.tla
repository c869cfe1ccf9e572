------------------------------- MODULE UsbMsc -------------------------------
(***************************************************************************)
(* The USB mass storage sample (dfu/usb_msc/src/main.c): a flash disk is   *)
(* a USB drive for the host and a FAT file system for the firmware, which  *)
(* scans it for a firmware image once at boot and once per press of BTN1.  *)
(* Both read the same sectors, so only one may use the disk at a time.     *)
(*                                                                         *)
(* main() runs on the main thread, the scan a button press asks for on the *)
(* system workqueue.  The board may be reset at any moment; the disk is    *)
(* all that survives.                                                      *)
(***************************************************************************)

CONSTANTS
  MountMayFail,    \* fs_mount() may fail on a disk with a FAT
  UnmountMayFail,  \* fs_unmount() may fail and leave the volume mounted
  EnableMayFail,   \* usbd_enable() may fail after a scan
  DisableMayFail   \* usbd_disable() may fail and leave the drive to the host

ASSUME UsbMscAssumption ==
  /\ MountMayFail \in BOOLEAN /\ UnmountMayFail \in BOOLEAN
  /\ EnableMayFail \in BOOLEAN /\ DisableMayFail \in BOOLEAN

VARIABLES
  main,       \* where the main thread is
  scan,       \* per thread: where it is in firmware_scan_once(), or "none"
  saved,      \* per thread: NO_FORMAT in its saved_flags
  no_format,  \* FS_MOUNT_FLAG_NO_FORMAT in fat_mount.flags
  mounted,    \* the FAT is mounted
  g_usbd,     \* g_usbd is not NULL
  usb,        \* the USB device is enabled
  pending,    \* fw_scan_work is on the workqueue
  btn,        \* the button interrupt is enabled
  host,       \* the host: "away", "using" the drive or "writing" to it
  failed,     \* history: "disable", "unmount", "enable" if it failed last
  disk        \* "blank", a "fat", a "foreign" file system, or a "torn" one

scanVars == <<scan, saved, no_format, mounted>>
usbVars  == <<g_usbd, usb, pending, btn>>
vars     == <<main, scanVars, usbVars, host, failed, disk>>

Thread == {"main", "work"}
Stage  == {"none", "off", "mount", "mkfs", "list", "restore", "on"}

TypeOK ==
  /\ main \in {"boot", "scan", "init", "enable", "button", "loop", "gone"}
  /\ scan["main"] \in Stage \ {"off", "on"} /\ scan["work"] \in Stage \ {"mkfs"}
  /\ scan \in [Thread -> Stage] /\ saved \in [Thread -> BOOLEAN]
  /\ no_format \in BOOLEAN /\ mounted \in BOOLEAN
  /\ g_usbd \in BOOLEAN /\ usb \in BOOLEAN
  /\ pending \in BOOLEAN /\ btn \in BOOLEAN
  /\ host \in {"away", "using", "writing"}
  /\ failed \subseteq {"disable", "unmount", "enable"}
  /\ disk \in {"blank", "fat", "foreign", "torn"}

Init ==
  /\ main = "boot"
  /\ scan = [t \in Thread |-> "none"] /\ saved = [t \in Thread |-> TRUE]
  /\ no_format = TRUE /\ mounted = FALSE
  /\ g_usbd = FALSE /\ usb = FALSE /\ pending = FALSE /\ btn = FALSE
  /\ host = "away"
  /\ failed = {}
  /\ disk \in {"blank", "fat", "foreign"}

Outcome(may_fail) == {TRUE} \cup (IF may_fail THEN {FALSE} ELSE {})

\* The history of a call whose result the code does not act on.
Noted(call, ok) == IF ok THEN failed \ {call} ELSE failed \cup {call}

-----------------------------------------------------------------------------
(* The host, the button and the power.                                     *)

HostComes ==
  /\ usb /\ host = "away"
  /\ host' = "using"
  /\ UNCHANGED <<main, scanVars, usbVars, disk, failed>>

\* The host copies files or formats the drive; until it has done so the
\* file system on it is of no use.
HostWrites ==
  /\ usb /\ host = "using"
  /\ host' = "writing"
  /\ disk' = "torn"
  /\ UNCHANGED <<main, scanVars, usbVars, failed>>

HostHasWritten ==
  /\ usb /\ host = "writing"
  /\ host' = "using"
  /\ disk' \in {"fat", "foreign"}
  /\ UNCHANGED <<main, scanVars, usbVars, failed>>

\* With or without "Safely remove".
HostLeaves ==
  /\ host # "away"
  /\ host' = "away"
  /\ UNCHANGED <<main, scanVars, usbVars, disk, failed>>

btn1_pressed ==
  /\ btn
  /\ pending' = TRUE
  /\ UNCHANGED <<main, scanVars, g_usbd, usb, btn, host, disk, failed>>

Reset ==
  /\ main' = "boot"
  /\ scan' = [t \in Thread |-> "none"] /\ saved' = [t \in Thread |-> TRUE]
  /\ no_format' = TRUE /\ mounted' = FALSE
  /\ g_usbd' = FALSE /\ usb' = FALSE /\ pending' = FALSE /\ btn' = FALSE
  /\ host' = "away"
  /\ failed' = {}
  /\ UNCHANGED disk

-----------------------------------------------------------------------------
(* firmware_scan_once(), by the main thread before USB is enabled, by the  *)
(* workqueue between a usbd_disable() and a usbd_enable().                 *)

Goes(t, stage) == scan' = [scan EXCEPT ![t] = stage]

\* Mutant: the scan leaves the drive to the host.
KeepUsb ==
  /\ scan["work"] = "off"
  /\ Goes("work", "mount")
  /\ UNCHANGED <<main, saved, no_format, mounted, usbVars, host, disk, failed>>

DisableUsb ==
  /\ scan["work"] = "off"
  /\ Goes("work", "mount")
  /\ \E ok \in Outcome(DisableMayFail) :
       /\ IF g_usbd /\ ok THEN usb' = FALSE /\ host' = "away" ELSE UNCHANGED <<usb, host>>
       /\ failed' = Noted("disable", ok)
  /\ UNCHANGED <<main, saved, no_format, mounted, g_usbd, pending, btn, disk>>

\* Mutant: a scan that cannot mount the FAT returns at once.
MountFailsForGood(t) ==
  /\ scan[t] = "mount" /\ t = "work"
  /\ mounted \/ (disk # "fat" /\ no_format) \/ MountMayFail
  /\ Goes(t, "none")
  /\ UNCHANGED <<main, saved, no_format, mounted, usbVars, host, disk, failed>>

\* A volume that is already mounted, no file system where formatting is not
\* allowed, or an error of the disk, also while it is formatted.
MountFails(t) ==
  /\ scan[t] \in {"mount", "mkfs"}
  /\ mounted \/ (disk # "fat" /\ no_format) \/ MountMayFail
  /\ Goes(t, "restore")
  /\ UNCHANGED <<main, saved, no_format, mounted, usbVars, host, disk, failed>>

Mount(t) ==
  /\ scan[t] = "mount" /\ ~mounted /\ disk = "fat"
  /\ mounted' = TRUE
  /\ Goes(t, "list")
  /\ UNCHANGED <<main, saved, no_format, usbVars, host, disk, failed>>

\* fs_mount() finds no file system and makes one.
Format(t) ==
  /\ scan[t] = "mount" /\ ~mounted /\ disk # "fat" /\ ~no_format
  /\ disk' = "torn"
  /\ Goes(t, "mkfs")
  /\ UNCHANGED <<main, saved, no_format, mounted, usbVars, host, failed>>

MountFormatted(t) ==
  /\ scan[t] = "mkfs"
  /\ disk' = "fat" /\ mounted' = TRUE
  /\ Goes(t, "list")
  /\ UNCHANGED <<main, saved, no_format, usbVars, host, failed>>

\* scan_root_for_firmware_file() only reads; then the FAT is unmounted.
ListAndUnmount(t) ==
  /\ scan[t] = "list"
  /\ \E ok \in Outcome(UnmountMayFail) : mounted' = ~ok /\ failed' = Noted("unmount", ok)
  /\ Goes(t, "restore")
  /\ UNCHANGED <<main, saved, no_format, usbVars, host, disk>>

After(t) == IF t = "work" /\ g_usbd THEN "on" ELSE "none"

\* Mutant: the flags of the mount are not restored.
KeepFlags(t) ==
  /\ scan[t] = "restore"
  /\ Goes(t, After(t))
  /\ main' = IF t = "main" THEN "init" ELSE main
  /\ UNCHANGED <<saved, no_format, mounted, usbVars, host, disk, failed>>

Restore(t) ==
  /\ scan[t] = "restore"
  /\ no_format' = saved[t]
  /\ Goes(t, After(t))
  /\ main' = IF t = "main" THEN "init" ELSE main
  /\ UNCHANGED <<saved, mounted, usbVars, host, disk, failed>>

EnableUsb ==
  /\ scan["work"] = "on"
  /\ \E ok \in Outcome(EnableMayFail) : usb' = (usb \/ ok) /\ failed' = Noted("enable", ok)
  /\ Goes("work", "none")
  /\ UNCHANGED <<main, saved, no_format, mounted, g_usbd, pending, btn, host, disk>>

Scan(t) ==
  MountFails(t) \/ Mount(t) \/ Format(t) \/ MountFormatted(t)
    \/ ListAndUnmount(t) \/ Restore(t)

fw_scan_work_handler ==
  /\ pending /\ scan["work"] = "none"
  /\ pending' = FALSE
  /\ saved' = [saved EXCEPT !["work"] = no_format]
  /\ Goes("work", "off")
  /\ UNCHANGED <<main, no_format, mounted, g_usbd, usb, btn, host, disk, failed>>

-----------------------------------------------------------------------------
(* main().                                                                 *)

\* The flash, the disk or the USB stack cannot be set up: main() returns.
GiveUp ==
  /\ main \in {"boot", "init", "enable"}
  /\ main' = "gone"
  /\ UNCHANGED <<scanVars, usbVars, host, disk, failed>>

\* Mutant: the flags are saved when NO_FORMAT is already cleared.
SaveAfterClearing ==
  /\ main = "boot"
  /\ main' = "scan"
  /\ saved' = [saved EXCEPT !["main"] = FALSE]
  /\ no_format' = FALSE
  /\ Goes("main", "mount")
  /\ UNCHANGED <<mounted, usbVars, host, disk, failed>>

\* The boot-time scan may format the disk.
BootScan ==
  /\ main = "boot"
  /\ main' = "scan"
  /\ saved' = [saved EXCEPT !["main"] = no_format]
  /\ no_format' = FALSE
  /\ Goes("main", "mount")
  /\ UNCHANGED <<mounted, usbVars, host, disk, failed>>

usb_init ==
  /\ main = "init"
  /\ main' = "enable"
  /\ g_usbd' = TRUE
  /\ UNCHANGED <<scanVars, usb, pending, btn, host, disk, failed>>

EnableUsbAtBoot ==
  /\ main = "enable"
  /\ main' = "button"
  /\ usb' = TRUE
  /\ UNCHANGED <<scanVars, g_usbd, pending, btn, host, disk, failed>>

btn1_init ==
  /\ main = "button"
  /\ main' = "loop"
  /\ btn' \in BOOLEAN
  /\ UNCHANGED <<scanVars, g_usbd, usb, pending, host, disk, failed>>

-----------------------------------------------------------------------------
MainThread == BootScan \/ Scan("main") \/ usb_init \/ EnableUsbAtBoot \/ btn1_init
Workqueue  == fw_scan_work_handler \/ DisableUsb \/ Scan("work") \/ EnableUsb

Next ==
  \/ MainThread \/ Workqueue \/ GiveUp
  \/ HostComes \/ HostWrites \/ HostHasWritten \/ HostLeaves \/ btn1_pressed \/ Reset

Spec == Init /\ [][Next]_vars

FairSpec == Spec /\ WF_vars(MainThread) /\ WF_vars(Workqueue)

-----------------------------------------------------------------------------
(* The host and the FAT driver never have the disk at the same time: a     *)
(* host that writes under a mounted FAT would corrupt it.  Two calls whose *)
(* failure the code only prints stand between: a usbd_disable() that fails *)
(* breaks it for this scan, an fs_unmount() that fails until a reset.      *)
OneMaster == mounted /\ usb => failed \cap {"disable", "unmount"} # {}

(* Formatting is allowed only before the drive has been offered to a host; *)
(* from then on the flag is set, through every scan and every way a scan   *)
(* can fail ("keep NO_FORMAT set during user-triggered scans").            *)
FormatOnlyAtBoot == g_usbd => no_format

(* Once the drive has been offered to the host, nothing but the host       *)
(* changes the disk, until the board is reset: not even when the host and  *)
(* the FAT driver have it both.                                            *)
OnlyHostWrites == [][g_usbd /\ disk' # disk => usb /\ host # "away"]_vars

(* A scan that takes the drive from the host gives it back, however the    *)
(* scan went and however often the button is pressed, unless usbd_enable() *)
(* fails - and the next press tries again.                                 *)
DriveComesBack ==
  main = "loop" /\ ~usb ~> usb \/ main = "boot" \/ "enable" \in failed

=============================================================================
