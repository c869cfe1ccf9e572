------------------------------ MODULE BleServer ------------------------------
(***************************************************************************)
(* The Bluetooth LE peripheral (bt/bt_battery_server): connectable         *)
(* advertising driven by a work item, one connection object at a time, an  *)
(* LED and button service and a simulated battery service.                 *)
(*                                                                         *)
(* The Bluetooth host calls the connection callbacks and the attribute     *)
(* handlers on its own threads; the advertising work runs on the system    *)
(* workqueue.                                                              *)
(***************************************************************************)
EXTENDS Naturals

CONSTANTS
  Conn,         \* connection objects (CONFIG_BT_MAX_CONN)
  FullLevel,    \* the level the simulated battery starts again from
  AdvMayFail    \* bt_le_adv_start() may fail though an object is free

ASSUME BleAssumption ==
  /\ Conn # {}
  /\ FullLevel \in Nat \ {0, 1} /\ AdvMayFail \in BOOLEAN

VARIABLES
  main,            \* "boot", "loop" or "returned"
  adv_work,        \* the advertising work item is queued
  adv,             \* the device advertises
  conn,            \* per connection object: "free", "connected" or "closing"
  con_led,         \* CON_STATUS_LED
  refused,         \* history: the last request failed though an object was free
  user_led,
  app_button_state, button_state,   \* the application's, and the one last read
  app_level, battery_level          \* likewise

linkVars == <<main, adv_work, adv, conn, con_led, refused>>
attrVars == <<user_led, app_button_state, button_state, app_level, battery_level>>
vars == <<linkVars, attrVars>>

TypeOK ==
  /\ main \in {"boot", "loop", "returned"}
  /\ adv_work \in BOOLEAN /\ adv \in BOOLEAN
  /\ conn \in [Conn -> {"free", "connected", "closing"}]
  /\ con_led \in BOOLEAN /\ user_led \in BOOLEAN /\ refused \in BOOLEAN
  /\ app_button_state \in BOOLEAN /\ button_state \in BOOLEAN
  /\ app_level \in 1 .. FullLevel
  /\ battery_level \in 0 .. FullLevel

Init ==
  /\ main = "boot"
  /\ adv_work = FALSE /\ adv = FALSE
  /\ conn = [c \in Conn |-> "free"]
  /\ con_led = FALSE /\ user_led = FALSE /\ refused = FALSE
  /\ app_button_state = FALSE /\ button_state = FALSE
  /\ app_level = FullLevel /\ battery_level = 0

-----------------------------------------------------------------------------
(* Advertising and connections.                                            *)

BootFails ==
  /\ main = "boot"
  /\ main' = "returned"
  /\ UNCHANGED <<adv_work, adv, conn, con_led, refused, attrVars>>

\* main() brings up Bluetooth and asks for advertising.
BluetoothReady ==
  /\ main = "boot"
  /\ main' = "loop"
  /\ adv_work' = TRUE
  /\ UNCHANGED <<adv, conn, con_led, refused, attrVars>>

\* A failure is printed and not tried again.
adv_work_handler ==
  /\ adv_work
  /\ adv_work' = FALSE
  /\ \/ adv' = (adv \/ \E c \in Conn : conn[c] = "free") /\ refused' = FALSE
     \/ AdvMayFail /\ UNCHANGED adv /\ refused' = ~adv
  /\ UNCHANGED <<main, conn, con_led, attrVars>>

\* A central connects, which ends the advertising.
on_connected(c) ==
  /\ adv /\ conn[c] = "free"
  /\ adv' = FALSE
  /\ conn' = [conn EXCEPT ![c] = "connected"]
  /\ con_led' = TRUE
  /\ UNCHANGED <<main, adv_work, refused, attrVars>>

\* The connection could not be established: on_connected() only prints.
ConnectionFailed(c) ==
  /\ adv /\ conn[c] = "free"
  /\ adv' = FALSE
  /\ conn' = [conn EXCEPT ![c] = "closing"]
  /\ UNCHANGED <<main, adv_work, con_led, refused, attrVars>>

\* The connection is down; the stack still holds its object.
on_disconnected(c) ==
  /\ conn[c] = "connected"
  /\ conn' = [conn EXCEPT ![c] = "closing"]
  /\ con_led' = FALSE
  /\ UNCHANGED <<main, adv_work, adv, refused, attrVars>>

\* Mutant: nobody asks for advertising.
RecycleOnly(c) ==
  /\ conn[c] = "closing"
  /\ conn' = [conn EXCEPT ![c] = "free"]
  /\ UNCHANGED <<main, adv_work, adv, con_led, refused, attrVars>>

\* The object is free again: time to advertise.
recycled_cb(c) ==
  /\ conn[c] = "closing"
  /\ conn' = [conn EXCEPT ![c] = "free"]
  /\ adv_work' = TRUE
  /\ UNCHANGED <<main, adv, con_led, refused, attrVars>>

-----------------------------------------------------------------------------
(* The attributes, read and written by a connected central.                *)

Served == \E c \in Conn : conn[c] = "connected"

\* A value is taken over if it is one byte, 0 or 1; otherwise the write is
\* refused with an ATT error.
write_led ==
  /\ Served
  /\ user_led' \in BOOLEAN
  /\ UNCHANGED <<linkVars, app_button_state, button_state, app_level, battery_level>>

button_changed ==
  /\ app_button_state' = ~app_button_state
  /\ UNCHANGED <<linkVars, user_led, button_state, app_level, battery_level>>

read_button ==
  /\ Served
  /\ button_state' = app_button_state
  /\ UNCHANGED <<linkVars, user_led, app_button_state, app_level, battery_level>>

\* Mutant: the level runs down to zero before it starts again.
RunDown == IF app_level = 0 THEN FullLevel ELSE app_level - 1

app_button_cb_battery == IF app_level - 1 = 0 THEN FullLevel ELSE app_level - 1

\* Each read drains the battery.  The callback returns uint8_t but is called
\* as one that returns bool: the caller may keep the level or make it 1.
read_battery ==
  /\ Served
  /\ app_level' = app_button_cb_battery
  /\ battery_level' \in {app_level', 1}
  /\ UNCHANGED <<linkVars, user_led, app_button_state, button_state>>

-----------------------------------------------------------------------------
Attributes == write_led \/ button_changed \/ read_button \/ read_battery

Next ==
  \/ BootFails \/ BluetoothReady \/ adv_work_handler \/ Attributes
  \/ \E c \in Conn :
       on_connected(c) \/ ConnectionFailed(c) \/ on_disconnected(c) \/ recycled_cb(c)

Spec == Init /\ [][Next]_vars

\* The workqueue runs, and the stack recycles the object of a connection
\* that is down; nobody has to connect or to disconnect.
FairSpec ==
  Spec /\ WF_vars(adv_work_handler) /\ \A c \in Conn : WF_vars(recycled_cb(c))

-----------------------------------------------------------------------------
(* The device is never left alone: it advertises, it serves a central, or  *)
(* something that makes it advertise is on its way - through failed        *)
(* connections and advertising requests that come when no connection       *)
(* object is free.  Only a request that fails for another reason ends it:  *)
(* the failure is printed and nobody asks again.                           *)
NeverStranded ==
  main = "loop" =>
    adv \/ adv_work \/ refused \/ \E c \in Conn : conn[c] # "free"

(* After every connection, and every attempt at one, the device can be     *)
(* found again, unless its request to advertise was refused.               *)
FoundAgain == main = "loop" ~> adv \/ Served \/ refused

=============================================================================
