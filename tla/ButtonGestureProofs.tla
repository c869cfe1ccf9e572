------------------------ MODULE ButtonGestureProofs ------------------------
(***************************************************************************)
(* Proofs about ButtonGesture, for every value of its delays, of the       *)
(* kernel's lateness and of the uptime; and, at the end, about the pen     *)
(* that is built on it (PenDevice).                                        *)
(***************************************************************************)
EXTENDS PenDevice, TLAPS

USE ConstantsAssumption

-----------------------------------------------------------------------------
(* What running a work item does to timeouts and queue, as typed facts.    *)

LEMMA CancelType ==
  ASSUME TypeOK, NEW w \in Work, NEW ws \in SUBSET Work, RunAndCancel(w, ws)
  PROVE  /\ timer' \in [Work -> 0 .. MaxAge]
         /\ queued' \in [Work -> 0 .. MaxStall + 1]
BY DEF TypeOK, RunAndCancel, Work

LEMMA RescheduleType ==
  ASSUME TypeOK, NEW w \in Work, NEW v \in Work, NEW ws \in SUBSET Work,
         NEW ms \in Nat, ms + Jitter <= MaxAge, RunAndReschedule(w, v, ms, ws)
  PROVE  /\ timer' \in [Work -> 0 .. MaxAge]
         /\ queued' \in [Work -> 0 .. MaxStall + 1]
<1>1. PICK t \in Late(ms) :
        timer' = [u \in Work |-> IF u = v THEN t ELSE IF u \in ws THEN 0 ELSE timer[u]]
  BY DEF RunAndReschedule
<1>2. t \in 0 .. MaxAge
  BY DEF Late
<1>. QED BY <1>1, <1>2 DEF TypeOK, RunAndReschedule, Work

LEMMA OlderType ==
  ASSUME NEW age \in 0 .. MaxAge, NEW age1 \in Older(age)
  PROVE  age1 \in 0 .. MaxAge
BY DEF Older

-----------------------------------------------------------------------------
(* The variables keep their types: no timeout is longer than the ages can  *)
(* tell apart, and no item waits longer than the workqueue may stall.      *)
THEOREM TypeCorrect == Spec => []TypeOK
<1>1. Init => TypeOK
  <2> SUFFICES ASSUME Init PROVE TypeOK
    OBVIOUS
  <2>1. PICK t \in {0} \cup Late(DebounceMs) :
          timer = [w \in Work |-> IF w = "edge" THEN t ELSE 0]
    BY DEF Init
  <2>2. t \in 0 .. MaxAge
    BY DEF Late
  <2>3. timer \in [Work -> 0 .. MaxAge] /\ queued \in [Work -> 0 .. MaxStall + 1]
    BY <2>1, <2>2 DEF Init
  <2>4. pressed \in BOOLEAN /\ armed \in BOOLEAN
    BY DEF Init, gpio_pressed
  <2>5. /\ level \in BOOLEAN /\ long_sent \in BOOLEAN /\ tap_pending \in BOOLEAN
        /\ edge_age = 0 /\ press_age = 0 /\ tap_age \in 0 .. MaxAge
        /\ emitted = "NONE"
    BY Zenon DEF Init
  <2>. QED BY <2>3, <2>4, <2>5 DEF TypeOK
<1>2. TypeOK /\ [Next]_vars => TypeOK'
  <2> SUFFICES ASSUME TypeOK, [Next]_vars PROVE TypeOK'
    OBVIOUS
  <2>1. CASE gpio_isr
    <3>1. PICK t \in Late(DebounceMs) : timer' = [timer EXCEPT !["edge"] = t]
      BY <2>1 DEF gpio_isr, Rescheduled
    <3>2. t \in 0 .. MaxAge
      BY DEF Late
    <3>. QED BY <2>1, <3>1, <3>2 DEF gpio_isr, TypeOK, flags, ages, Work
  <2>2. CASE Tick
    <3>1. /\ edge_age' \in 0 .. MaxAge
          /\ press_age' \in 0 .. MaxAge
          /\ tap_age' \in 0 .. MaxAge
      BY <2>2, OlderType DEF Tick, TypeOK
    <3>2. timer' \in [Work -> 0 .. MaxAge]
      BY <2>2 DEF Tick, TypeOK
    <3>3. queued' \in [Work -> 0 .. MaxStall + 1]
      BY <2>2 DEF Tick, TypeOK
    <3>. QED BY <2>2, <3>1, <3>2, <3>3 DEF Tick, TypeOK, flags
  <2>3. CASE long_work_handler
    <3>1. timer' \in [Work -> 0 .. MaxAge] /\ queued' \in [Work -> 0 .. MaxStall + 1]
      BY <2>3, CancelType DEF long_work_handler, Work
    <3>. QED BY <2>3, <3>1 DEF long_work_handler, TypeOK, flags, ages, Gesture
  <2>4. CASE tap_finalize_handler
    <3>1. timer' \in [Work -> 0 .. MaxAge] /\ queued' \in [Work -> 0 .. MaxStall + 1]
      BY <2>4, CancelType DEF tap_finalize_handler, Work
    <3>. QED BY <2>4, <3>1 DEF tap_finalize_handler, TypeOK, ages, Gesture
  <2>5. CASE edge_work_handler
    <3>1. PICK now_pressed \in gpio_pressed(pressed) :
            EdgeIgnored(now_pressed) \/ EdgeTaken(now_pressed)
      BY <2>5 DEF edge_work_handler
    <3>2. level' = level
      BY <2>5 DEF edge_work_handler
    <3>3. CASE EdgeIgnored(now_pressed)
      <4>1. timer' \in [Work -> 0 .. MaxAge] /\ queued' \in [Work -> 0 .. MaxStall + 1]
        BY <3>3, CancelType DEF EdgeIgnored, Work
      <4>. QED BY <3>2, <3>3, <4>1 DEF EdgeIgnored, TypeOK, flags, ages
    <3>4. CASE EdgeTaken(now_pressed) /\ now_pressed
      <4>1. handle_press_edge /\ edge_age' = 0
        BY <3>4 DEF EdgeTaken
      <4>2. timer' \in [Work -> 0 .. MaxAge] /\ queued' \in [Work -> 0 .. MaxStall + 1]
        BY <4>1, CancelType, RescheduleType DEF handle_press_edge, Work
      <4>3. edge_age' \in 0 .. MaxAge /\ press_age' \in 0 .. MaxAge
        BY <4>1 DEF handle_press_edge, TypeOK
      <4>4. pressed' \in BOOLEAN /\ long_sent' \in BOOLEAN
        BY <4>1 DEF handle_press_edge, TypeOK
      <4>. QED BY <3>2, <4>1, <4>2, <4>3, <4>4 DEF handle_press_edge, TypeOK
    <3>5. CASE EdgeTaken(now_pressed) /\ ~now_pressed
      <4>1. /\ handle_release_edge
            /\ edge_age' = 0 /\ pressed' \in BOOLEAN /\ press_age' = press_age
        BY <3>5 DEF EdgeTaken, handle_release_edge
      <4>2. CASE ArmingRelease \/ ReleaseAfterLong \/ SlowRelease \/ SecondTap
        <5>1. timer' \in [Work -> 0 .. MaxAge] /\ queued' \in [Work -> 0 .. MaxStall + 1]
          BY <4>2, CancelType
             DEF ArmingRelease, ReleaseAfterLong, SlowRelease, SecondTap, Work
        <5>2. /\ armed' \in BOOLEAN /\ long_sent' \in BOOLEAN /\ tap_pending' \in BOOLEAN
              /\ tap_age' = tap_age /\ emitted' \in Gesture \cup {"NONE"}
          BY <4>2 DEF ArmingRelease, ReleaseAfterLong, SlowRelease, SecondTap, TypeOK, Gesture
        <5>. QED BY <3>2, <4>1, <5>1, <5>2 DEF TypeOK
      <4>3. CASE FirstTap \/ LateSecondTap
        <5>1. timer' \in [Work -> 0 .. MaxAge] /\ queued' \in [Work -> 0 .. MaxStall + 1]
          BY <4>3, RescheduleType DEF FirstTap, LateSecondTap, Work
        <5>2. /\ armed' \in BOOLEAN /\ long_sent' \in BOOLEAN /\ tap_pending' \in BOOLEAN
              /\ tap_age' = 0 /\ emitted' \in Gesture \cup {"NONE"}
          BY <4>3 DEF FirstTap, LateSecondTap, TypeOK, Gesture
        <5>. QED BY <3>2, <4>1, <5>1, <5>2 DEF TypeOK
      <4>. QED BY <4>1, <4>2, <4>3 DEF handle_release_edge
    <3>. QED BY <3>1, <3>3, <3>4, <3>5 DEF EdgeTaken
  <2>6. CASE UNCHANGED vars
    BY <2>6 DEF vars, flags, ages, TypeOK
  <2>. QED BY <2>1, <2>2, <2>3, <2>4, <2>5, <2>6 DEF Next, RunWork
<1>. QED BY <1>1, <1>2, PTL DEF Spec

-----------------------------------------------------------------------------
(* Which work items are under way follows from the flags.  The parts need  *)
(* one another: that a tap's finaliser is live is kept by a press only     *)
(* because nothing is pending on an unarmed button, and so on.             *)
Coherent == LongPressWatched /\ TapWatched /\ SilentUntilArmed /\ LongQueuedOnce

LEMMA CoherentInit == Init => Coherent
<1> SUFFICES ASSUME Init PROVE Coherent
  OBVIOUS
<1>1. timer["long"] = 0 /\ queued["long"] = 0
  BY DEF Init, Work
<1>2. ~tap_pending /\ ~long_sent /\ (armed <=> ~pressed)
  BY Zenon DEF Init
<1>. QED BY <1>1, <1>2
     DEF Coherent, LongPressWatched, TapWatched, SilentUntilArmed,
         LongQueuedOnce, Live, Unreported, Listening

LEMMA CoherentStep == TypeOK /\ Coherent /\ [Next]_vars => Coherent'
<1> SUFFICES ASSUME TypeOK, Coherent, [Next]_vars PROVE Coherent'
  OBVIOUS
<1> USE DEF Coherent, LongPressWatched, TapWatched, SilentUntilArmed,
            LongQueuedOnce, Live,
            Unreported, Listening, Work
<1>1. CASE gpio_isr
  <2>1. /\ timer'["long"] = timer["long"] /\ timer'["tap"] = timer["tap"]
        /\ queued' = queued
    BY <1>1 DEF gpio_isr, Rescheduled, TypeOK
  <2>. QED BY <1>1, <2>1 DEF gpio_isr, flags
<1>2. CASE Tick
  <2>1. \A w \in {"long", "tap"} :
          (timer'[w] > 0 \/ queued'[w] > 0) <=> (timer[w] > 0 \/ queued[w] > 0)
    BY <1>2 DEF Tick, TypeOK
  <2>. QED BY <1>2, <2>1 DEF Tick, flags
<1>3. CASE long_work_handler
  <2>1. queued["long"] > 0
    BY <1>3 DEF long_work_handler, Runnable
  <2>2. armed /\ pressed /\ ~long_sent /\ timer["long"] = 0
    BY <2>1
  <2>3. /\ timer'["tap"] = 0 /\ timer'["long"] = 0
        /\ queued'["tap"] = 0 /\ queued'["long"] = 0
    BY <1>3, <2>2 DEF long_work_handler, RunAndCancel, TypeOK
  <2>4. armed' /\ pressed' /\ long_sent' /\ ~tap_pending'
    BY <1>3, <2>2 DEF long_work_handler
  <2>. QED BY <2>3, <2>4
<1>4. CASE tap_finalize_handler
  BY <1>4 DEF tap_finalize_handler, RunAndCancel, Runnable, TypeOK
<1>5. CASE edge_work_handler
  <2>1. PICK now_pressed \in gpio_pressed(pressed) :
          EdgeIgnored(now_pressed) \/ EdgeTaken(now_pressed)
    BY <1>5 DEF edge_work_handler
  <2>2. CASE EdgeIgnored(now_pressed)
    BY <2>2 DEF EdgeIgnored, RunAndCancel, TypeOK, flags
  <2>3. CASE EdgeTaken(now_pressed) /\ now_pressed
    <3>1. handle_press_edge /\ ~pressed /\ armed
      BY <2>3 DEF EdgeTaken, gpio_pressed, TypeOK
    <3>2. PICK t \in Late(LongMs) :
            timer' = [u \in Work |-> IF u = "long" THEN t ELSE timer[u]]
      BY <3>1 DEF handle_press_edge, RunAndReschedule
    <3>3. /\ timer'["long"] > 0 /\ timer'["tap"] = timer["tap"]
          /\ queued'["tap"] = queued["tap"] /\ queued'["long"] = queued["long"]
      BY <3>1, <3>2 DEF handle_press_edge, RunAndReschedule, Late, TypeOK
    <3>4. pressed' /\ armed' /\ ~long_sent' /\ (tap_pending' <=> tap_pending)
      BY <3>1 DEF handle_press_edge, TypeOK
    <3>5. queued["long"] = 0
      BY <3>1 DEF TypeOK
    <3>. QED BY <3>3, <3>4, <3>5
  <2>4. CASE EdgeTaken(now_pressed) /\ ~now_pressed
    <3>1. handle_release_edge /\ pressed
      BY <2>4 DEF EdgeTaken, gpio_pressed, TypeOK
    <3>2. ~pressed'
      BY <3>1 DEF handle_release_edge
    <3>3. CASE ArmingRelease \/ ReleaseAfterLong \/ SlowRelease \/ SecondTap
      <4>1. timer'["long"] = 0 /\ queued'["long"] = 0
        BY <3>3 DEF ArmingRelease, ReleaseAfterLong, SlowRelease, SecondTap, RunAndCancel
      <4>2. armed' /\ ~tap_pending'
        BY <3>3 DEF ArmingRelease, ReleaseAfterLong, SlowRelease, SecondTap, TypeOK
      <4>. QED BY <3>2, <4>1, <4>2
    <3>4. CASE FirstTap \/ LateSecondTap
      <4>1. PICK t \in Late(DoubleMs) :
              timer' = [u \in Work |-> IF u = "tap" THEN t ELSE
                                         IF u \in {"long"} THEN 0 ELSE timer[u]]
        BY <3>4 DEF FirstTap, LateSecondTap, RunAndReschedule
      <4>2. timer'["tap"] > 0 /\ timer'["long"] = 0 /\ queued'["long"] = 0
        BY <3>4, <4>1 DEF FirstTap, LateSecondTap, RunAndReschedule, Late
      <4>3. armed' /\ ~long_sent'
        BY <3>4 DEF FirstTap, LateSecondTap, TypeOK
      <4>. QED BY <3>2, <4>2, <4>3
    <3>. QED BY <3>1, <3>3, <3>4 DEF handle_release_edge
  <2>. QED BY <2>1, <2>2, <2>3, <2>4 DEF EdgeTaken
<1>6. CASE UNCHANGED vars
  BY <1>6 DEF vars, flags
<1>. QED BY <1>1, <1>2, <1>3, <1>4, <1>5, <1>6 DEF Next, RunWork

-----------------------------------------------------------------------------
(* The timeouts under way agree with the time stamps.                      *)

LEMMA OneOlder ==
  ASSUME NEW age \in 0 .. MaxAge, age < MaxAge, NEW age1 \in Older(age)
  PROVE  age1 = age + 1
BY DEF Older

LEMMA TimeoutsInit == Init => TimeoutsAgree
<1> SUFFICES ASSUME Init PROVE TimeoutsAgree
  OBVIOUS
<1>1. timer["long"] = 0 /\ queued["long"] = 0
  BY DEF Init, Work
<1>2. ~tap_pending
  BY Zenon DEF Init
<1>. QED BY <1>1, <1>2 DEF TimeoutsAgree

LEMMA TimeoutsStep ==
  TypeOK /\ Coherent /\ TimeoutsAgree /\ [Next]_vars => TimeoutsAgree'
<1> SUFFICES ASSUME TypeOK, Coherent, TimeoutsAgree, [Next]_vars PROVE TimeoutsAgree'
  OBVIOUS
<1> USE DEF TimeoutsAgree, Late, Work
<1>1. CASE gpio_isr
  <2>1. /\ timer'["long"] = timer["long"] /\ timer'["tap"] = timer["tap"]
        /\ queued' = queued
    BY <1>1 DEF gpio_isr, Rescheduled, TypeOK
  <2>. QED BY <1>1, <2>1 DEF gpio_isr, flags, ages
<1>2. CASE Tick
  <2>1. /\ queued["long"] \in 0 .. MaxStall /\ queued["tap"] \in 0 .. MaxStall
        /\ timer["long"] \in Nat /\ timer["tap"] \in Nat
        /\ press_age \in 0 .. MaxAge /\ tap_age \in 0 .. MaxAge
    BY <1>2 DEF Tick, TypeOK
  <2>2. /\ timer'["long"] = IF timer["long"] = 0 THEN 0 ELSE timer["long"] - 1
        /\ timer'["tap"] = IF timer["tap"] = 0 THEN 0 ELSE timer["tap"] - 1
        /\ queued'["long"] = IF queued["long"] > 0 THEN queued["long"] + 1
                               ELSE IF timer["long"] = 1 THEN 1 ELSE 0
        /\ queued'["tap"] = IF queued["tap"] > 0 THEN queued["tap"] + 1
                              ELSE IF timer["tap"] = 1 THEN 1 ELSE 0
    BY <1>2 DEF Tick
  <2>3. (timer'["long"] > 0 => press_age' + timer'["long"] \in Late(LongMs))
        /\ (queued'["long"] > 0 =>
              press_age' \in LongMs .. LongMs + Jitter + queued'["long"] - 1)
    <3>1. CASE Live("long")
      <4>1. press_age < MaxAge
        BY <2>1, <3>1 DEF Live
      <4>2. press_age' = press_age + 1
        BY <1>2, <2>1, <4>1, OneOlder DEF Tick
      <4>3. timer'["long"] > 0 => press_age' + timer'["long"] \in Late(LongMs)
        BY <2>1, <2>2, <4>2
      <4>4. queued'["long"] > 0 =>
              press_age' \in LongMs .. LongMs + Jitter + queued'["long"] - 1
        BY <2>1, <2>2, <4>2
      <4>. QED BY <4>3, <4>4
    <3>2. CASE ~Live("long")
      <4>1. timer'["long"] = 0 /\ queued'["long"] = 0
        BY <2>1, <2>2, <3>2 DEF Live
      <4>. QED BY <4>1
    <3>. QED BY <3>1, <3>2
  <2>4. CASE tap_pending
    <3>1. tap_age < MaxAge
      BY <2>1, <2>4
    <3>2. tap_age' = tap_age + 1
      BY <1>2, <2>1, <3>1, OneOlder DEF Tick
    <3>3. timer["tap"] > 0 \/ queued["tap"] > 0
      BY <2>4 DEF Coherent, TapWatched, Live
    <3>4. timer'["tap"] > 0 => tap_age' + timer'["tap"] \in Late(DoubleMs)
      BY <2>1, <2>2, <2>4, <3>2
    <3>5. timer'["tap"] = 0 => tap_age' <= DoubleMs + Jitter + queued'["tap"] - 1
      BY <2>1, <2>2, <2>4, <3>2, <3>3
    <3>. QED BY <2>3, <3>4, <3>5
  <2>5. CASE ~tap_pending
    BY <1>2, <2>3, <2>5 DEF Tick, flags
  <2>. QED BY <2>4, <2>5
<1>3. CASE long_work_handler
  <2>1. armed /\ pressed /\ ~long_sent /\ timer["long"] = 0
    BY <1>3 DEF long_work_handler, Runnable, Coherent, LongPressWatched,
                LongQueuedOnce, Live, Unreported, Listening, TypeOK
  <2>2. timer'["long"] = 0 /\ queued'["long"] = 0
    BY <1>3, <2>1 DEF long_work_handler, RunAndCancel, TypeOK
  <2>3. ~tap_pending'
    BY <1>3, <2>1 DEF long_work_handler
  <2>. QED BY <2>2, <2>3
<1>4. CASE tap_finalize_handler
  <2>1. /\ timer'["long"] = timer["long"] /\ queued'["long"] = queued["long"]
        /\ press_age' = press_age
    BY <1>4 DEF tap_finalize_handler, RunAndCancel, ages
  <2>2. ~tap_pending'
    BY <1>4 DEF tap_finalize_handler, Coherent, TapWatched
  <2>. QED BY <2>1, <2>2
<1>5. CASE edge_work_handler
  <2>1. PICK now_pressed \in gpio_pressed(pressed) :
          EdgeIgnored(now_pressed) \/ EdgeTaken(now_pressed)
    BY <1>5 DEF edge_work_handler
  <2>2. CASE EdgeIgnored(now_pressed)
    <3>1. /\ timer'["long"] = timer["long"] /\ queued'["long"] = queued["long"]
          /\ timer'["tap"] = timer["tap"] /\ queued'["tap"] = queued["tap"]
      BY <2>2 DEF EdgeIgnored, RunAndCancel
    <3>. QED BY <2>2, <3>1 DEF EdgeIgnored, flags, ages
  <2>3. CASE EdgeTaken(now_pressed) /\ now_pressed
    <3>1. handle_press_edge /\ ~pressed /\ armed
      BY <2>3 DEF EdgeTaken, gpio_pressed, TypeOK, Coherent, SilentUntilArmed
    <3>2. PICK t \in Late(LongMs) :
            timer' = [u \in Work |-> IF u = "long" THEN t ELSE timer[u]]
      BY <3>1 DEF handle_press_edge, RunAndReschedule
    <3>3. queued["long"] = 0
      BY <3>1 DEF Coherent, LongPressWatched, Live, Unreported, Listening, TypeOK
    <3>4. /\ timer'["long"] \in Late(LongMs) /\ timer'["tap"] = timer["tap"]
          /\ queued'["tap"] = queued["tap"] /\ queued'["long"] = 0
      BY <3>1, <3>2, <3>3 DEF handle_press_edge, RunAndReschedule
    <3>5. press_age' = 0 /\ tap_age' = tap_age /\ (tap_pending' <=> tap_pending)
      BY <3>1 DEF handle_press_edge
    <3>. QED BY <3>4, <3>5
  <2>4. CASE EdgeTaken(now_pressed) /\ ~now_pressed
    <3>1. handle_release_edge /\ pressed
      BY <2>4 DEF EdgeTaken, gpio_pressed, TypeOK
    <3>2. CASE ArmingRelease \/ ReleaseAfterLong \/ SlowRelease \/ SecondTap
      <4>1. timer'["long"] = 0 /\ queued'["long"] = 0
        BY <3>2 DEF ArmingRelease, ReleaseAfterLong, SlowRelease, SecondTap, RunAndCancel
      <4>2. ~tap_pending'
        BY <3>2 DEF ArmingRelease, ReleaseAfterLong, SlowRelease, SecondTap, TypeOK,
                    Coherent, TapWatched
      <4>. QED BY <4>1, <4>2
    <3>3. CASE FirstTap \/ LateSecondTap
      <4>1. PICK t \in Late(DoubleMs) :
              timer' = [u \in Work |-> IF u = "tap" THEN t ELSE
                                         IF u \in {"long"} THEN 0 ELSE timer[u]]
        BY <3>3 DEF FirstTap, LateSecondTap, RunAndReschedule
      <4>2. /\ timer'["tap"] \in Late(DoubleMs) /\ timer'["long"] = 0
            /\ queued'["long"] = 0
        BY <3>3, <4>1 DEF FirstTap, LateSecondTap, RunAndReschedule
      <4>3. tap_age' = 0
        BY <3>3 DEF FirstTap, LateSecondTap
      <4>. QED BY <4>2, <4>3
    <3>. QED BY <3>1, <3>2, <3>3 DEF handle_release_edge
  <2>. QED BY <2>1, <2>2, <2>3, <2>4 DEF EdgeTaken
<1>6. CASE UNCHANGED vars
  BY <1>6 DEF vars, flags, ages
<1>. QED BY <1>1, <1>2, <1>3, <1>4, <1>5, <1>6 DEF Next, RunWork

-----------------------------------------------------------------------------
(* The inductive invariant, and what follows from it.                      *)
IInv == TypeOK /\ Coherent /\ TimeoutsAgree

(* Flags, work items and time stamps agree in every reachable state.       *)
THEOREM Invariance == Spec => []IInv
<1>1. Init /\ TypeOK => IInv
  BY CoherentInit, TimeoutsInit DEF IInv
<1>2. IInv /\ TypeOK' /\ [Next]_vars => IInv'
  BY CoherentStep, TimeoutsStep DEF IInv
<1>. QED BY <1>1, <1>2, TypeCorrect, PTL DEF Spec

(* A timeout under way belongs to the press now held, or to the last tap,  *)
(* and ends that press's or tap's delay after it began: none is left over  *)
(* from an earlier one, however late the kernel runs the work items.       *)
THEOREM TimeoutsStayTrue == Spec => []TimeoutsAgree
<1>1. IInv => TimeoutsAgree
  BY DEF IInv
<1>. QED BY <1>1, Invariance, PTL

(* The long press timeout is live exactly while a press is unreported.     *)
THEOREM LongPressIsWatched == Spec => []LongPressWatched
<1>1. IInv => LongPressWatched
  BY DEF IInv, Coherent
<1>. QED BY <1>1, Invariance, PTL

(* A pending tap always has its finaliser coming.                          *)
THEOREM TapIsWatched == Spec => []TapWatched
<1>1. IInv => TapWatched
  BY DEF IInv, Coherent
<1>. QED BY <1>1, Invariance, PTL

(* Every press and tap is reported within its delay and the kernel's       *)
(* lateness, whatever that lateness is.                                    *)
THEOREM GesturesAreInTime == Spec => []ReportedInTime
<1>1. IInv => ReportedInTime
  <2> SUFFICES ASSUME IInv PROVE ReportedInTime
    OBVIOUS
  <2>1. /\ \A w \in {"long", "tap"} : timer[w] \in Nat /\ queued[w] \in 0 .. MaxStall + 1
        /\ press_age \in Nat /\ tap_age \in Nat
    BY DEF IInv, TypeOK, Work
  <2>2. Unreported => press_age <= LongMs + Jitter + MaxStall
    BY <2>1 DEF IInv, Coherent, LongPressWatched, Live, TimeoutsAgree, Late
  <2>3. tap_pending => tap_age <= DoubleMs + Jitter + MaxStall
    BY <2>1 DEF IInv, TimeoutsAgree, Late
  <2>. QED BY <2>2, <2>3 DEF ReportedInTime
<1>. QED BY <1>1, Invariance, PTL

(* No press is reported as a long one before it has lasted long enough.    *)
THEOREM LongIsNeverEarly == Spec => LongNeverEarly
<1>1. IInv /\ [Next]_vars => [emitted' = "LONG" => press_age >= LongMs]_vars
  <2> SUFFICES ASSUME IInv, Next, emitted' = "LONG" PROVE press_age >= LongMs
    OBVIOUS
  <2>1. CASE long_work_handler
    <3>1. queued["long"] > 0
      BY <2>1 DEF long_work_handler, Runnable
    <3>. QED BY <3>1 DEF IInv, TimeoutsAgree, TypeOK, Work
  <2>2. CASE gpio_isr \/ Tick \/ tap_finalize_handler
    BY <2>2 DEF gpio_isr, Tick, tap_finalize_handler
  <2>3. CASE edge_work_handler
    BY <2>3 DEF edge_work_handler, EdgeIgnored, EdgeTaken, handle_press_edge,
                handle_release_edge, ArmingRelease, ReleaseAfterLong, SlowRelease,
                FirstTap, SecondTap, LateSecondTap
  <2>. QED BY <2>1, <2>2, <2>3 DEF Next, RunWork
<1>. QED BY <1>1, Invariance, PTL DEF Spec, LongNeverEarly

-----------------------------------------------------------------------------
(* The driver refines the ledger.                                          *)

LEMMA LedgerInit == Init => Ledger!Init
<1> SUFFICES ASSUME Init PROVE Ledger!Init
  OBVIOUS
<1>1. ~Listening /\ ~Unreported
  BY Zenon DEF Init, Listening, Unreported
<1>2. ~tap_pending /\ emitted = "NONE"
  BY Zenon DEF Init
<1>. QED BY <1>1, <1>2 DEF Ledger!Init

LEMMA LedgerNext == TypeOK /\ Coherent /\ Next => Ledger!Next
<1> SUFFICES ASSUME TypeOK, Coherent, Next PROVE Ledger!Next
  OBVIOUS
<1> USE DEF Listening, Unreported
<1>1. CASE gpio_isr \/ Tick
  <2>1. /\ (pressed' <=> pressed) /\ (armed' <=> armed)
        /\ (long_sent' <=> long_sent) /\ (tap_pending' <=> tap_pending)
        /\ emitted' = "NONE"
    BY <1>1 DEF gpio_isr, Tick, flags
  <2>2. Ledger!Quiet
    BY <2>1 DEF Ledger!Quiet
  <2>. QED BY <2>2 DEF Ledger!Next
<1>2. CASE long_work_handler
  <2>1. armed /\ pressed /\ ~long_sent
    BY <1>2 DEF long_work_handler, Runnable, Coherent, LongPressWatched, Live, TypeOK
  <2>2. armed' /\ pressed' /\ long_sent' /\ ~tap_pending' /\ emitted' = "LONG"
    BY <1>2, <2>1 DEF long_work_handler
  <2>3. Ledger!Long
    BY <2>1, <2>2 DEF Ledger!Long
  <2>. QED BY <2>3 DEF Ledger!Next
<1>3. CASE tap_finalize_handler
  <2>1. (pressed' <=> pressed) /\ (armed' <=> armed) /\ (long_sent' <=> long_sent)
    BY <1>3 DEF tap_finalize_handler
  <2>2. CASE armed /\ tap_pending
    <3>1. ~tap_pending' /\ emitted' = "SINGLE"
      BY <1>3, <2>2 DEF tap_finalize_handler
    <3>2. Ledger!Single
      BY <2>1, <2>2, <3>1 DEF Ledger!Single
    <3>. QED BY <3>2 DEF Ledger!Next
  <2>3. CASE ~(armed /\ tap_pending)
    <3>1. (tap_pending' <=> tap_pending) /\ emitted' = "NONE"
      BY <1>3, <2>3 DEF tap_finalize_handler
    <3>2. Ledger!Quiet
      BY <2>1, <3>1 DEF Ledger!Quiet
    <3>. QED BY <3>2 DEF Ledger!Next
  <2>. QED BY <2>2, <2>3
<1>4. CASE edge_work_handler
  <2>1. PICK now_pressed \in gpio_pressed(pressed) :
          EdgeIgnored(now_pressed) \/ EdgeTaken(now_pressed)
    BY <1>4 DEF edge_work_handler
  <2>2. CASE EdgeIgnored(now_pressed)
    <3>1. /\ (pressed' <=> pressed) /\ (armed' <=> armed)
          /\ (long_sent' <=> long_sent) /\ (tap_pending' <=> tap_pending)
          /\ emitted' = "NONE"
      BY <2>2 DEF EdgeIgnored, flags
    <3>2. Ledger!Quiet
      BY <3>1 DEF Ledger!Quiet
    <3>. QED BY <3>2 DEF Ledger!Next
  <2>3. CASE EdgeTaken(now_pressed) /\ now_pressed
    <3>1. handle_press_edge /\ ~pressed /\ armed
      BY <2>3 DEF EdgeTaken, gpio_pressed, TypeOK, Coherent, SilentUntilArmed
    <3>2. /\ pressed' /\ armed' /\ ~long_sent' /\ (tap_pending' <=> tap_pending)
          /\ emitted' = "NONE"
      BY <3>1 DEF handle_press_edge
    <3>3. Ledger!Press
      BY <3>1, <3>2 DEF Ledger!Press
    <3>. QED BY <3>3 DEF Ledger!Next
  <2>4. CASE EdgeTaken(now_pressed) /\ ~now_pressed
    <3>1. handle_release_edge /\ pressed /\ ~pressed'
      BY <2>4 DEF EdgeTaken, gpio_pressed, TypeOK, handle_release_edge
    <3>2. CASE ArmingRelease
      <4>1. ~armed /\ ~tap_pending /\ ~tap_pending' /\ emitted' = "NONE"
        BY <3>2 DEF ArmingRelease, Coherent, TapWatched
      <4>2. Ledger!Quiet
        BY <3>1, <4>1 DEF Ledger!Quiet
      <4>. QED BY <4>2 DEF Ledger!Next
    <3>3. CASE ReleaseAfterLong
      <4>1. armed /\ long_sent /\ ~tap_pending /\ ~tap_pending' /\ emitted' = "NONE"
        BY <3>3 DEF ReleaseAfterLong, Coherent, TapWatched
      <4>2. Ledger!Release
        BY <3>1, <4>1 DEF Ledger!Release
      <4>. QED BY <4>2 DEF Ledger!Next
    <3>4. CASE SlowRelease
      <4>1. armed /\ ~long_sent /\ ~tap_pending' /\ emitted' = "SINGLE"
        BY <3>4 DEF SlowRelease
      <4>2. Ledger!Single
        BY <3>1, <4>1 DEF Ledger!Single
      <4>. QED BY <4>2 DEF Ledger!Next
    <3>5. CASE FirstTap
      <4>1. armed /\ ~long_sent /\ ~tap_pending /\ tap_pending' /\ emitted' = "NONE"
        BY <3>5 DEF FirstTap
      <4>2. Ledger!Release
        BY <3>1, <4>1 DEF Ledger!Release
      <4>. QED BY <4>2 DEF Ledger!Next
    <3>6. CASE SecondTap
      <4>1. armed /\ ~long_sent /\ tap_pending /\ ~tap_pending' /\ emitted' = "DOUBLE"
        BY <3>6 DEF SecondTap
      <4>2. Ledger!Double
        BY <3>1, <4>1 DEF Ledger!Double
      <4>. QED BY <4>2 DEF Ledger!Next
    <3>7. CASE LateSecondTap
      <4>1. armed /\ ~long_sent /\ tap_pending /\ tap_pending' /\ emitted' = "SINGLE"
        BY <3>7 DEF LateSecondTap
      <4>2. Ledger!Single
        BY <3>1, <4>1 DEF Ledger!Single
      <4>. QED BY <4>2 DEF Ledger!Next
    <3>. QED BY <3>1, <3>2, <3>3, <3>4, <3>5, <3>6, <3>7 DEF handle_release_edge
  <2>. QED BY <2>1, <2>2, <2>3, <2>4 DEF EdgeTaken
<1>. QED BY <1>1, <1>2, <1>3, <1>4 DEF Next, RunWork

LEMMA LedgerStep ==
  TypeOK /\ Coherent /\ [Next]_vars => [Ledger!Next]_(Ledger!vars)
<1>1. UNCHANGED vars => UNCHANGED Ledger!vars
  BY DEF vars, flags, Ledger!vars, Listening, Unreported
<1>. QED BY <1>1, LedgerNext

(* The driver implements GestureLedger: no gesture without presses to pay  *)
(* for it, no press paid for twice, two presses for a double click.        *)
THEOREM LedgerIsKept == Spec => LedgerKept
<1>1. IInv /\ [Next]_vars => [Ledger!Next]_(Ledger!vars)
  BY LedgerStep DEF IInv
<1>. QED BY <1>1, LedgerInit, Invariance, PTL DEF Spec, LedgerKept, Ledger!Spec

-----------------------------------------------------------------------------
(* While the pin can be read and the uptime has not wrapped, an edge is    *)
(* never left behind: some later look at the pin will take it in.          *)
THEOREM EdgesAreKept ==
  ASSUME ~ReadMayFail, ~UptimeWraps
  PROVE  Spec => []EdgeNeverLost
<1> USE DEF EdgeNeverLost, TooSoon
<1>1. Init => EdgeNeverLost
  BY DEF Init, gpio_pressed
<1>2. IInv /\ EdgeNeverLost /\ [Next]_vars => EdgeNeverLost'
  <2> SUFFICES ASSUME IInv, EdgeNeverLost, [Next]_vars PROVE EdgeNeverLost'
    OBVIOUS
  <2>1. /\ edge_age \in 0 .. MaxAge
        /\ timer["edge"] \in 0 .. MaxAge /\ queued["edge"] \in 0 .. MaxStall + 1
    BY DEF IInv, TypeOK, Work
  <2>2. CASE gpio_isr
    <3>1. timer'["edge"] \in Late(DebounceMs) /\ edge_age' = edge_age
      BY <2>2 DEF gpio_isr, Rescheduled, ages, IInv, TypeOK, Work
    <3>. QED BY <2>1, <3>1 DEF Late
  <2>3. CASE Tick
    <3>1. edge_age' >= edge_age + 1 \/ edge_age' = MaxAge
      BY <2>1, <2>3 DEF Tick, Older
    <3>2. /\ timer'["edge"] = IF timer["edge"] = 0 THEN 0 ELSE timer["edge"] - 1
          /\ queued'["edge"] = IF queued["edge"] > 0 THEN queued["edge"] + 1
                                 ELSE IF timer["edge"] = 1 THEN 1 ELSE 0
      BY <2>3 DEF Tick, Work
    <3>3. level' = level /\ pressed' = pressed /\ edge_age' \in 0 .. MaxAge
      BY <2>1, <2>3, OlderType DEF Tick, flags
    <3>. QED BY <2>1, <3>1, <3>2, <3>3
  <2>4. CASE long_work_handler \/ tap_finalize_handler
    <3>1. /\ timer'["edge"] = timer["edge"] /\ queued'["edge"] = queued["edge"]
          /\ edge_age' = edge_age /\ level' = level /\ pressed' = pressed
      BY <2>4 DEF long_work_handler, tap_finalize_handler, RunAndCancel, Work, flags, ages
    <3>. QED BY <3>1
  <2>5. CASE edge_work_handler
    <3>1. EdgeIgnored(level) \/ EdgeTaken(level)
      BY <2>5 DEF edge_work_handler, gpio_pressed
    <3>2. level' = level
      BY <2>5 DEF edge_work_handler
    <3>3. CASE EdgeTaken(level)
      BY <3>2, <3>3 DEF EdgeTaken, handle_press_edge, handle_release_edge, IInv, TypeOK
    <3>4. CASE EdgeIgnored(level)
      <4>1. /\ timer'["edge"] = timer["edge"] /\ edge_age' = edge_age
            /\ pressed' = pressed
        BY <3>4 DEF EdgeIgnored, RunAndCancel, Work, flags, ages
      <4>. QED BY <2>1, <3>2, <3>4, <4>1 DEF EdgeIgnored
    <3>. QED BY <3>1, <3>3, <3>4
  <2>6. CASE UNCHANGED vars
    BY <2>6 DEF vars, flags, ages
  <2>. QED BY <2>2, <2>3, <2>4, <2>5, <2>6 DEF Next, RunWork
<1>. QED BY <1>1, <1>2, Invariance, PTL DEF Spec

-----------------------------------------------------------------------------
(* With exact timeouts and a workqueue that is never late, a finaliser     *)
(* lives only as long as the tap it belongs to, and one that is queued has *)
(* waited the whole double click delay.                                    *)
FinaliserIsOfTap ==
  /\ Live("tap") => tap_pending
  /\ queued["tap"] > 0 => timer["tap"] = 0 /\ tap_age >= DoubleMs

(* With exact timeouts and an idle workqueue the stale finaliser of a late *)
(* second tap does not exist, and a double click is never cut short.  Both *)
(* assumptions are needed: bg_early_single has a jitter of one.            *)
THEOREM SingleIsNotEarly ==
  ASSUME Jitter = 0, MaxStall = 0
  PROVE  Spec => SingleNotEarly
<1>1. Init => FinaliserIsOfTap
  BY DEF Init, FinaliserIsOfTap, Live, Work
<1>2. IInv /\ FinaliserIsOfTap /\ [Next]_vars => FinaliserIsOfTap'
  <2> SUFFICES ASSUME IInv, FinaliserIsOfTap, [Next]_vars PROVE FinaliserIsOfTap'
    OBVIOUS
  <2> USE DEF FinaliserIsOfTap, Live
  <2>1. /\ timer["tap"] \in 0 .. MaxAge /\ queued["tap"] \in 0 .. 1
        /\ tap_age \in 0 .. MaxAge
    BY DEF IInv, TypeOK, Work
  <2>2. tap_pending /\ timer["tap"] > 0 => tap_age + timer["tap"] = DoubleMs
    BY <2>1 DEF IInv, TimeoutsAgree, Late
  <2>3. tap_pending => tap_age <= DoubleMs
    BY <2>1, <2>2 DEF IInv, TimeoutsAgree
  <2>4. CASE gpio_isr
    <3>1. timer'["tap"] = timer["tap"] /\ queued' = queued
      BY <2>4 DEF gpio_isr, Rescheduled, Work, IInv, TypeOK
    <3>. QED BY <2>4, <3>1 DEF gpio_isr, flags, ages
  <2>5. CASE Tick
    <3>1. /\ timer'["tap"] = IF timer["tap"] = 0 THEN 0 ELSE timer["tap"] - 1
          /\ queued["tap"] = 0
          /\ queued'["tap"] = IF timer["tap"] = 1 THEN 1 ELSE 0
          /\ (tap_pending' <=> tap_pending)
      BY <2>1, <2>5 DEF Tick, Work, flags
    <3>2. CASE timer["tap"] > 0
      <4>1. tap_pending /\ tap_age < MaxAge
        BY <2>1, <2>3, <3>2
      <4>2. tap_age' = tap_age + 1
        BY <2>1, <2>5, <4>1, OneOlder DEF Tick
      <4>. QED BY <2>1, <2>2, <3>1, <4>1, <4>2
    <3>3. CASE timer["tap"] = 0
      BY <3>1, <3>3
    <3>. QED BY <2>1, <3>2, <3>3
  <2>6. CASE long_work_handler
    <3>1. CASE armed /\ pressed /\ ~long_sent
      <4>1. timer'["tap"] = 0 /\ queued'["tap"] = 0
        BY <2>6, <3>1 DEF long_work_handler, RunAndCancel, Work
      <4>. QED BY <4>1
    <3>2. CASE ~(armed /\ pressed /\ ~long_sent)
      <4>1. /\ timer'["tap"] = timer["tap"] /\ queued'["tap"] = queued["tap"]
            /\ UNCHANGED <<tap_pending, tap_age>>
        BY <2>6, <3>2 DEF long_work_handler, RunAndCancel, Work, flags, ages
      <4>. QED BY <4>1
    <3>. QED BY <3>1, <3>2
  <2>7. CASE tap_finalize_handler
    <3>1. timer["tap"] = 0
      BY <2>7 DEF tap_finalize_handler, Runnable
    <3>2. timer'["tap"] = 0 /\ queued'["tap"] = 0
      BY <2>7, <3>1 DEF tap_finalize_handler, RunAndCancel, Work
    <3>. QED BY <3>2
  <2>8. CASE edge_work_handler
    <3>1. PICK now_pressed \in gpio_pressed(pressed) :
            EdgeIgnored(now_pressed) \/ EdgeTaken(now_pressed)
      BY <2>8 DEF edge_work_handler
    <3>2. CASE EdgeIgnored(now_pressed)
      <4>1. timer'["tap"] = timer["tap"] /\ queued'["tap"] = queued["tap"]
        BY <3>2 DEF EdgeIgnored, RunAndCancel, Work
      <4>. QED BY <3>2, <4>1 DEF EdgeIgnored, flags, ages
    <3>3. CASE handle_press_edge
      <4>1. timer'["tap"] = timer["tap"] /\ queued'["tap"] = queued["tap"]
        BY <3>3 DEF handle_press_edge, RunAndReschedule, RunAndCancel, Work
      <4>. QED BY <3>3, <4>1 DEF handle_press_edge
    <3>4. CASE ArmingRelease \/ SlowRelease \/ SecondTap
      <4>1. timer'["tap"] = 0 /\ queued'["tap"] = 0
        BY <3>4 DEF ArmingRelease, SlowRelease, SecondTap, RunAndCancel, Work
      <4>. QED BY <4>1
    <3>5. CASE ReleaseAfterLong
      <4>1. timer'["tap"] = timer["tap"] /\ queued'["tap"] = queued["tap"]
        BY <3>5 DEF ReleaseAfterLong, RunAndCancel, Work
      <4>. QED BY <3>5, <4>1 DEF ReleaseAfterLong
    <3>6. CASE FirstTap
      <4>1. queued["tap"] = 0
        BY <2>1, <3>6 DEF FirstTap
      <4>2. queued'["tap"] = 0 /\ tap_pending'
        BY <3>6, <4>1 DEF FirstTap, RunAndReschedule, Work
      <4>. QED BY <4>2
    <3>7. ~LateSecondTap
      BY <2>1, <2>3 DEF LateSecondTap
    <3>. QED BY <3>1, <3>2, <3>3, <3>4, <3>5, <3>6, <3>7 DEF EdgeTaken, handle_release_edge
  <2>9. CASE UNCHANGED vars
    BY <2>9 DEF vars, flags, ages
  <2>. QED BY <2>4, <2>5, <2>6, <2>7, <2>8, <2>9 DEF Next, RunWork
<1>3. IInv /\ FinaliserIsOfTap /\ [Next]_vars
        => [tap_pending /\ emitted' = "SINGLE" /\ pressed' = pressed
              => tap_age >= DoubleMs]_vars
  <2> SUFFICES ASSUME IInv, FinaliserIsOfTap, Next,
                      emitted' = "SINGLE", pressed' = pressed
               PROVE  tap_age >= DoubleMs
    OBVIOUS
  <2>1. CASE tap_finalize_handler
    BY <2>1 DEF tap_finalize_handler, Runnable, FinaliserIsOfTap
  <2>2. CASE gpio_isr \/ Tick \/ long_work_handler
    BY <2>2 DEF gpio_isr, Tick, long_work_handler
  <2>3. CASE edge_work_handler
    <3>1. PICK now_pressed \in gpio_pressed(pressed) :
            EdgeIgnored(now_pressed) \/ EdgeTaken(now_pressed)
      BY <2>3 DEF edge_work_handler
    <3>2. ~EdgeTaken(now_pressed)
      BY DEF EdgeTaken, handle_press_edge, handle_release_edge, gpio_pressed, IInv, TypeOK
    <3>. QED BY <3>1, <3>2 DEF EdgeIgnored
  <2>. QED BY <2>1, <2>2, <2>3 DEF Next, RunWork
<1>. QED BY <1>1, <1>2, <1>3, Invariance, PTL DEF Spec, SingleNotEarly

-----------------------------------------------------------------------------
(* The pen: the application above the driver.                              *)

DeviceNext == DriverRuns \/ MainRuns

LEMMA DriverWithin == DeviceSpec => Spec
<1>1. DeviceInit => Init
  BY DEF DeviceInit
<1>2. [DeviceNext]_deviceVars => [Next]_vars
  BY DEF DeviceNext, DriverRuns, MainRuns, deviceVars
<1>. QED BY <1>1, <1>2, PTL DEF DeviceSpec, DeviceNext, Spec

LEMMA AppStarts == DeviceInit => App!Init
<1>1. DeviceInit => Ledger!Init
  BY LedgerInit DEF DeviceInit
<1>2. Ledger!Init => App!Driver!Init
  BY DEF Ledger!Init, App!Driver!Init
<1>. QED BY <1>1, <1>2 DEF DeviceInit, App!Init

\* What the application knows of the driver is its ledger.
LEMMA SameLedger == Ledger!Next => App!Driver!Next
BY DEF Ledger!Next, Ledger!Press, Ledger!Release, Ledger!Single, Ledger!Double, Ledger!Long,
  Ledger!Quiet, App!Driver!Next, App!Driver!Press, App!Driver!Release, App!Driver!Single,
  App!Driver!Double, App!Driver!Long, App!Driver!Quiet

LEMMA AppStep == IInv /\ [DeviceNext]_deviceVars => [App!Next]_(App!vars)
<1> SUFFICES ASSUME IInv, [DeviceNext]_deviceVars PROVE [App!Next]_(App!vars)
  OBVIOUS
<1>1. CASE DriverRuns
  <2>1. App!Driver!Next
    BY <1>1, LedgerNext, SameLedger DEF DriverRuns, IInv
  <2>2. App!DriverStep
    BY <1>1, <2>1 DEF DriverRuns, uiVars, App!DriverStep, App!uiVars, App!barVars
  <2>. QED BY <2>2 DEF App!Next
<1>2. CASE MainRuns
  BY <1>2 DEF MainRuns, App!Next
<1>3. CASE UNCHANGED deviceVars
  <2>1. UNCHANGED <<Listening, Unreported, tap_pending, emitted>>
    BY <1>3 DEF deviceVars, vars, flags, Listening, Unreported
  <2>. QED BY <1>3, <2>1 DEF deviceVars, uiVars, App!vars, App!uiVars, App!barVars, App!driverVars
<1>. QED BY <1>1, <1>2, <1>3 DEF DeviceNext

(* With the real driver below it the application is the one RecordingPen   *)
(* describes: whatever the button, the clock and the workqueue do, the     *)
(* callbacks it gets are those of a driver that keeps its ledger.          *)
THEOREM AppRunsOnDriver == DeviceSpec => AppIsKept
<1>1. IInv /\ [DeviceNext]_deviceVars => [App!Next]_(App!vars)
  BY AppStep
<1>2. DeviceInit => App!Init
  BY AppStarts
<1>. QED BY <1>1, <1>2, DriverWithin, Invariance, PTL
         DEF DeviceSpec, DeviceNext, AppIsKept, App!Spec

(* The pen as a whole keeps the promise to the person who holds it: the    *)
(* screen and the mode change only for debounced presses that were made    *)
(* and are used once, and a recording is always to be seen.                *)
THEOREM PenKeepsRemote ==
  ASSUME App!QueueSizeAssumption, App!TimerMayFailAssumption, App!RecBarsAssumption
  PROVE  DeviceSpec => App!RemoteKept /\ []App!RecordingIsVisible
<1>1. App!Spec => App!RemoteKept
  BY App!RemoteIsKept
<1>2. App!Spec => []App!RecordingIsVisible
  BY App!RecordingStaysVisible
<1>. QED BY <1>1, <1>2, AppRunsOnDriver, PTL DEF AppIsKept

=============================================================================
