--------------------------- MODULE BleServerProofs --------------------------
(***************************************************************************)
(* Proofs about BleServer, for any number of connection objects and any    *)
(* battery level.                                                          *)
(***************************************************************************)
EXTENDS BleServer, TLAPS

USE BleAssumption

-----------------------------------------------------------------------------
(* The variables keep their types: the level, a uint8_t that is            *)
(* decremented before it is compared with zero, never gets to zero.        *)
THEOREM TypeCorrect == Spec => []TypeOK
<1>1. Init => TypeOK
  <2> SUFFICES ASSUME Init PROVE TypeOK
    OBVIOUS
  <2>1. conn \in [Conn -> {"free", "connected", "closing"}] /\ main = "boot"
    BY DEF Init
  <2>2. app_level \in 1 .. FullLevel /\ battery_level \in 0 .. FullLevel
    BY DEF Init
  <2>3. /\ adv_work \in BOOLEAN /\ adv \in BOOLEAN /\ con_led \in BOOLEAN
        /\ user_led \in BOOLEAN /\ refused \in BOOLEAN
        /\ app_button_state \in BOOLEAN /\ button_state \in BOOLEAN
    BY Zenon DEF Init
  <2>. QED BY <2>1, <2>2, <2>3 DEF TypeOK
<1>2. TypeOK /\ [Next]_vars => TypeOK'
  <2> SUFFICES ASSUME TypeOK, [Next]_vars PROVE TypeOK'
    OBVIOUS
  <2> USE DEF TypeOK, linkVars, attrVars
  <2>1. CASE BootFails
    BY <2>1 DEF BootFails
  <2>2. CASE BluetoothReady
    BY <2>2 DEF BluetoothReady
  <2>3. CASE adv_work_handler
    <3>1. UNCHANGED <<main, conn, con_led, attrVars>> /\ adv_work' = FALSE
      BY <2>3 DEF adv_work_handler
    <3>2. adv' \in BOOLEAN /\ refused' \in BOOLEAN
      BY <2>3 DEF adv_work_handler
    <3>. QED BY <3>1, <3>2
  <2>4. ASSUME NEW c \in Conn, on_connected(c) PROVE TypeOK'
    BY <2>4 DEF on_connected
  <2>5. ASSUME NEW c \in Conn, ConnectionFailed(c) PROVE TypeOK'
    BY <2>5 DEF ConnectionFailed
  <2>6. ASSUME NEW c \in Conn, on_disconnected(c) PROVE TypeOK'
    BY <2>6 DEF on_disconnected
  <2>7. ASSUME NEW c \in Conn, recycled_cb(c) PROVE TypeOK'
    BY <2>7 DEF recycled_cb
  <2>8. CASE write_led \/ button_changed \/ read_button
    <3>1. UNCHANGED <<linkVars, app_level, battery_level>>
      BY <2>8 DEF write_led, button_changed, read_button
    <3>2. user_led' \in BOOLEAN /\ app_button_state' \in BOOLEAN /\ button_state' \in BOOLEAN
      BY <2>8 DEF write_led, button_changed, read_button
    <3>. QED BY <3>1, <3>2
  <2>9. CASE read_battery
    <3>1. UNCHANGED <<linkVars, user_led, app_button_state, button_state>>
      BY <2>9 DEF read_battery
    <3>2. app_level' \in 1 .. FullLevel
      BY <2>9 DEF read_battery, app_button_cb_battery
    <3>3. battery_level' \in 0 .. FullLevel
      BY <2>9, <3>2 DEF read_battery
    <3>. QED BY <3>1, <3>2, <3>3
  <2>10. CASE UNCHANGED vars
    BY <2>10 DEF vars
  <2>. QED
    BY <2>1, <2>2, <2>3, <2>4, <2>5, <2>6, <2>7, <2>8, <2>9, <2>10
    DEF Next, Attributes
<1>. QED BY <1>1, <1>2, PTL DEF Spec

-----------------------------------------------------------------------------
Stranded == ~adv /\ ~adv_work /\ ~refused /\ \A c \in Conn : conn[c] = "free"

(* However many centrals come, fail to come and go: unless a request was   *)
(* refused, the device advertises or something will make it do so.         *)
THEOREM NeverLeftAlone == Spec => []NeverStranded
<1>1. Init => NeverStranded
  BY DEF Init, NeverStranded
<1>2. TypeOK /\ NeverStranded /\ [Next]_vars => NeverStranded'
  <2> SUFFICES ASSUME TypeOK, NeverStranded, [Next]_vars, main' = "loop"
               PROVE  ~Stranded'
    BY DEF NeverStranded, Stranded
  <2> USE DEF TypeOK, NeverStranded, Stranded, linkVars
  <2>1. CASE BluetoothReady
    BY <2>1 DEF BluetoothReady
  <2>2. CASE adv_work_handler
    <3>1. CASE adv' = (adv \/ \E c \in Conn : conn[c] = "free") /\ conn' = conn
      BY <3>1
    <3>2. CASE adv' = adv /\ refused' = ~adv
      BY <3>2
    <3>. QED BY <2>2, <3>1, <3>2 DEF adv_work_handler
  <2>3. ASSUME NEW c \in Conn, on_connected(c) \/ ConnectionFailed(c) \/ on_disconnected(c)
        PROVE  ~Stranded'
    <3>1. conn'[c] # "free"
      BY <2>3 DEF on_connected, ConnectionFailed, on_disconnected
    <3>. QED BY <3>1
  <2>4. ASSUME NEW c \in Conn, recycled_cb(c) PROVE ~Stranded'
    BY <2>4 DEF recycled_cb
  <2>5. CASE Attributes \/ UNCHANGED vars
    BY <2>5 DEF Attributes, write_led, button_changed, read_button, read_battery, vars
  <2>6. ~BootFails
    BY DEF BootFails
  <2>. QED BY <2>1, <2>2, <2>3, <2>4, <2>5, <2>6 DEF Next
<1>. QED BY <1>1, <1>2, TypeCorrect, PTL DEF Spec

=============================================================================
