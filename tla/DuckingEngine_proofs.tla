-------------------------- MODULE DuckingEngine_proofs --------------------------
(***************************************************************************)
(* Theorems about DuckingEngine, for every choice of its constants.  All   *)
(* of them follow from EngineInv, whose inductiveness is proved operation  *)
(* by operation.                                                           *)
(***************************************************************************)
EXTENDS DuckingEngine, TLAPS

USE EngineAssumption

\* A tick's sustained_ms stays in range, and grows by at most Up.
LEMMA AccumulatedBounds ==
    ASSUME NEW db \in Int, tripwire \in Int, sustained \in 0..MaxSustained
    PROVE  /\ Accumulated(db) \in 0..MaxSustained
           /\ Loud(db) => Accumulated(db) <= sustained + Up
           /\ ~ Loud(db) => Accumulated(db) <= sustained
BY DEF Accumulated, Loud, Capped

\* The age of last_duck_at advances no faster than the time since the last
\* VolumeDown, and both stay capped.
LEMMA AgeBounds ==
    ASSUME NEW e \in Elapsed, lastDuck \in (0..Hold) \cup {None},
           sinceDown \in 0..Hold, lastDuck # None => lastDuck <= sinceDown
    PROVE  /\ Age(e) \in (0..Hold) \cup {None}
           /\ (Age(e) = None) <=> (lastDuck = None)
           /\ Age(e) # None => Age(e) <= Capped(sinceDown + e, Hold)
           /\ Capped(sinceDown + e, Hold) \in 0..Hold
<1>1. e \in Nat
  OBVIOUS
<1>2. CASE lastDuck = None
  BY <1>1, <1>2 DEF Age, Capped
<1>3. CASE lastDuck # None
  <2>1. lastDuck \in 0..Hold
    BY <1>3
  <2>. QED
    BY <1>1, <1>3, <2>1 DEF Age, Capped
<1>. QED
  BY <1>2, <1>3

\* Noise heard keeps up with sustained_ms over a window that is not a restore.
LEMMA HeardKeepsUp ==
    ASSUME NEW db \in Int, tripwire \in Int, sustained \in 0..MaxSustained,
           heard \in 0..Detect, heard < Detect => sustained <= heard, Heard(db)
    PROVE  /\ heard' \in 0..Detect
           /\ heard' < Detect => Accumulated(db) <= heard'
<1>1. CASE Loud(db)
  <2>1. heard' = Capped(heard + Up, Detect)
    BY <1>1 DEF Heard
  <2>2. Accumulated(db) <= sustained + Up
    BY <1>1, AccumulatedBounds
  <2>3. Accumulated(db) \in Int
    BY AccumulatedBounds
  <2>. QED
    BY <2>1, <2>2, <2>3 DEF Capped
<1>2. CASE ~ Loud(db)
  <2>1. heard' = heard
    BY <1>2 DEF Heard
  <2>2. Accumulated(db) <= sustained /\ Accumulated(db) \in Int
    BY <1>2, AccumulatedBounds
  <2>. QED
    BY <2>1, <2>2
<1>. QED
  BY <1>1, <1>2

\* The clamps of set_floor and set_tripwire keep the gap.
LEMMA ClampGap ==
    ASSUME NEW f \in Int, NEW t \in Int
    PROVE  /\ FloorFor(f) \in Int /\ TripwireFor(f, t) \in Int
           /\ TripwireFor(f, t) >= f + 6
BY DEF FloorFor, TripwireFor, DeadMic, DefaultFloor

\* What the three kinds of command are.
LEMMA Commands ==
    /\ NoCommand \in DuckCommand /\ NoCommand.kind = "None"
    /\ VolumeDown \in DuckCommand /\ VolumeDown.kind = "VolumeDown"
    /\ \A v \in Volume \cup {None}, n \in 0..MaxSteps :
          /\ RestoreOf(v, n) \in DuckCommand
          /\ RestoreOf(v, n).kind = "Restore" /\ RestoreOf(v, n).steps = n
<1>1. /\ NoCommand \in DuckCommand /\ VolumeDown \in DuckCommand
      /\ \A v \in Volume \cup {None}, n \in 0..MaxSteps :
            RestoreOf(v, n) \in DuckCommand
  BY DEF DuckCommand
<1>2. NoCommand.kind = "None" /\ VolumeDown.kind = "VolumeDown"
  BY DEF NoCommand, VolumeDown
<1>3. ASSUME NEW v \in Volume \cup {None}, NEW n \in 0..MaxSteps
      PROVE  RestoreOf(v, n).kind = "Restore" /\ RestoreOf(v, n).steps = n
  BY DEF RestoreOf
<1>. QED
  BY <1>1, <1>2, <1>3

LEMMA EngineInit == Init => EngineInv
<1>. SUFFICES ASSUME Init PROVE EngineInv
  OBVIOUS
<1>1. TypeOK
  <2>1. tripwire \in Int /\ floor \in Int
    BY DEF Init, DefaultFloor
  <2>2. armed \in BOOLEAN /\ out \in DuckCommand /\ state \in DuckingState
    BY Commands DEF Init, DuckingState
  <2>3. /\ sustained \in 0..MaxSustained /\ steps \in 0..MaxSteps
        /\ heard \in 0..Detect /\ sinceDown \in 0..Hold
        /\ lastDuck \in (0..Hold) \cup {None}
        /\ original \in Volume \cup {None}
    BY DEF Init
  <2>. QED
    BY <2>1, <2>2, <2>3 DEF TypeOK
<1>2. TripwireGap /\ DisarmedIsClean
  BY DEF Init, TripwireGap, DisarmedIsClean, DefaultFloor
<1>3. RestoreIsOwed
  BY Commands DEF Init, RestoreIsOwed, Restores
<1>. QED
  BY <1>1, <1>2, <1>3 DEF Init, EngineInv


(***************************************************************************)
(* One step.  Calibrations touch the levels alone; ticks and the other     *)
(* tasks' calls leave them alone.                                          *)
(***************************************************************************)

LEMMA CalibratePreserves ==
    ASSUME EngineInv, NEW f \in Int, NEW t \in Int, Calibrate(f, t)
    PROVE  EngineInv'
<1>. USE DEF Calibrate, session
<1>1. TypeOK'
  BY ClampGap, Commands DEF EngineInv, TypeOK
<1>2. TripwireGap'
  <2>1. FloorFor(f) \in Int
    BY ClampGap
  <2>. QED
    BY <2>1, ClampGap DEF TripwireGap
<1>3. RestoreIsOwed'
  BY Commands DEF RestoreIsOwed, Restores
<1>4. DisarmedIsClean'
  BY DEF EngineInv, DisarmedIsClean
<1>. QED
  BY <1>1, <1>2, <1>3, <1>4 DEF EngineInv

LEMMA SetTripwirePreserves ==
    ASSUME EngineInv, NEW db \in Int, SetTripwire(db)
    PROVE  EngineInv'
<1>. USE DEF SetTripwire, session
<1>1. TypeOK'
  BY ClampGap, Commands DEF EngineInv, TypeOK
<1>2. TripwireGap'
  BY ClampGap DEF TripwireGap, EngineInv, TypeOK
<1>3. RestoreIsOwed'
  BY Commands DEF RestoreIsOwed, Restores
<1>4. DisarmedIsClean'
  BY DEF EngineInv, DisarmedIsClean
<1>. QED
  BY <1>1, <1>2, <1>3, <1>4 DEF EngineInv

LEMMA TickPreserves ==
    ASSUME EngineInv, NEW db \in Int, NEW e \in Elapsed, Tick(db, e)
    PROVE  EngineInv'
<1>. USE DEF settings
<1>1. /\ Age(e) \in (0..Hold) \cup {None}
      /\ (Age(e) = None) <=> (lastDuck = None)
      /\ Age(e) # None => Age(e) <= Capped(sinceDown + e, Hold)
      /\ Capped(sinceDown + e, Hold) \in 0..Hold
  BY AgeBounds DEF EngineInv, TypeOK
<1>2. Accumulated(db) \in 0..MaxSustained
  BY AccumulatedBounds DEF EngineInv, TypeOK
<1>3. Heard(db) => /\ heard' \in 0..Detect
                   /\ heard' < Detect => Accumulated(db) <= heard'
  BY HeardKeepsUp DEF EngineInv, TypeOK
<1>4. CASE TickDisarmed(e)
  <2>1. TypeOK'
    BY <1>1, <1>4, Commands
       DEF TickDisarmed, Ages, EngineInv, TypeOK, DuckingState
  <2>2. RestoreIsOwed'
    BY <1>4, Commands DEF TickDisarmed, RestoreIsOwed, Restores
  <2>3. TripwireGap' /\ DisarmedIsClean'
    BY <1>1, <1>4 DEF TickDisarmed, EngineInv, TripwireGap, DisarmedIsClean
  <2>. QED
    BY <1>1, <1>4, <2>1, <2>2, <2>3 DEF TickDisarmed, Ages, EngineInv, TypeOK
<1>5. CASE TickRestore(db, e)
  <2>1. state = "Ducking" /\ steps \in 1..MaxSteps
    BY <1>5 DEF TickRestore, PathA, PathB, EngineInv, TypeOK
  <2>2. original \in Volume \cup {None}
    BY DEF EngineInv, TypeOK
  <2>3. sustained' = 0
    BY <1>5 DEF TickRestore, PathA, PathB, SpentByPathA
  <2>4. TypeOK'
    BY <1>1, <1>5, <2>1, <2>2, <2>3, Commands
       DEF TickRestore, Ages, EngineInv, TypeOK, DuckingState
  <2>5. RestoreIsOwed'
    BY <1>5, <2>1, <2>2, Commands DEF TickRestore, RestoreIsOwed, Restores
  <2>6. TripwireGap' /\ DisarmedIsClean'
    BY <1>5 DEF TickRestore, EngineInv, TripwireGap, DisarmedIsClean
  <2>. QED
    BY <1>1, <1>5, <2>1, <2>3, <2>4, <2>5, <2>6
       DEF TickRestore, Ages, EngineInv, TypeOK
<1>6. CASE TickVolumeDown(db, e)
  <2>1. TypeOK'
    BY <1>2, <1>3, <1>6, Commands
       DEF TickVolumeDown, StepAllowed, EngineInv, TypeOK, DuckingState
  <2>2. RestoreIsOwed'
    BY <1>6, Commands DEF TickVolumeDown, RestoreIsOwed, Restores
  <2>3. TripwireGap' /\ DisarmedIsClean'
    BY <1>6 DEF TickVolumeDown, EngineInv, TripwireGap, DisarmedIsClean
  <2>4. steps' >= 1 /\ lastDuck' = 0 /\ lastDuck' <= sinceDown'
    BY <1>6 DEF TickVolumeDown, EngineInv, TypeOK
  <2>5. heard' < Detect => sustained' <= heard'
    BY <1>3, <1>6 DEF TickVolumeDown
  <2>6. 0 # None
    OBVIOUS
  <2>. QED
    BY <2>1, <2>2, <2>3, <2>4, <2>5, <2>6 DEF EngineInv
<1>7. CASE TickDucking(db, e)
  <2>1. TypeOK'
    BY <1>1, <1>2, <1>3, <1>7, Commands
       DEF TickDucking, Ages, EngineInv, TypeOK, DuckingState
  <2>2. RestoreIsOwed'
    BY <1>7, Commands DEF TickDucking, RestoreIsOwed, Restores
  <2>3. TripwireGap' /\ DisarmedIsClean'
    BY <1>7 DEF TickDucking, EngineInv, TripwireGap, DisarmedIsClean
  <2>4. lastDuck' # None /\ lastDuck' <= sinceDown'
    BY <1>1, <1>7 DEF TickDucking, DuckDue, Ages
  <2>5. steps' >= 1
    <3>1. CASE DuckDue(db, e)
      BY <1>7, <3>1 DEF TickDucking, StepAllowed, EngineInv, TypeOK
    <3>2. CASE ~ DuckDue(db, e)
      BY <1>1, <1>7, <3>2 DEF TickDucking, DuckDue, EngineInv, TypeOK
    <3>. QED
      BY <3>1, <3>2
  <2>6. heard' < Detect => sustained' <= heard'
    BY <1>3, <1>7 DEF TickDucking
  <2>. QED
    BY <2>1, <2>2, <2>3, <2>4, <2>5, <2>6 DEF EngineInv
<1>8. CASE TickIdle(db, e)
  <2>1. TypeOK'
    BY <1>1, <1>2, <1>3, <1>8, Commands
       DEF TickIdle, Ages, EngineInv, TypeOK, DuckingState
  <2>2. RestoreIsOwed'
    BY <1>8, Commands DEF TickIdle, RestoreIsOwed, Restores
  <2>3. TripwireGap' /\ DisarmedIsClean'
    BY <1>8 DEF TickIdle, EngineInv, TripwireGap, DisarmedIsClean
  <2>4. heard' < Detect => sustained' <= heard'
    BY <1>3, <1>8 DEF TickIdle
  <2>. QED
    BY <1>1, <1>8, <2>1, <2>2, <2>3, <2>4
       DEF TickIdle, Ages, EngineInv
<1>. QED
  BY <1>4, <1>5, <1>6, <1>7, <1>8 DEF Tick

\* TickNotFinite and the calls of the WebSocket task and tv_task.
LEMMA CallPreserves ==
    ASSUME EngineInv,
           \/ \E e \in Elapsed : TickNotFinite(e)
           \/ Arm \/ Disarm \/ ClearDuckState
           \/ \E v \in Volume : SetOriginalVolume(v)
    PROVE  EngineInv'
<1>. USE DEF settings, session
<1>1. ASSUME NEW e \in Elapsed, TickNotFinite(e)
      PROVE  EngineInv'
  <2>1. /\ Age(e) \in (0..Hold) \cup {None}
        /\ (Age(e) = None) <=> (lastDuck = None)
        /\ Age(e) # None => Age(e) <= Capped(sinceDown + e, Hold)
        /\ Capped(sinceDown + e, Hold) \in 0..Hold
    BY AgeBounds DEF EngineInv, TypeOK
  <2>2. TypeOK'
    BY <1>1, <2>1, Commands DEF TickNotFinite, Ages, EngineInv, TypeOK
  <2>3. RestoreIsOwed'
    BY <1>1, Commands DEF TickNotFinite, RestoreIsOwed, Restores
  <2>4. TripwireGap' /\ DisarmedIsClean'
    BY <1>1, <2>1
       DEF TickNotFinite, EngineInv, TripwireGap, DisarmedIsClean
  <2>. QED
    BY <1>1, <2>1, <2>2, <2>3, <2>4 DEF TickNotFinite, Ages, EngineInv
<1>2. CASE Arm
  <2>1. TypeOK' /\ TripwireGap' /\ DisarmedIsClean'
    BY <1>2, Commands DEF Arm, EngineInv, TypeOK, TripwireGap, DisarmedIsClean
  <2>2. RestoreIsOwed'
    BY <1>2, Commands DEF Arm, RestoreIsOwed, Restores
  <2>. QED
    BY <1>2, <2>1, <2>2 DEF Arm, EngineInv
<1>3. CASE Disarm
  <2>1. state = "Ducking" => steps \in 1..MaxSteps
    BY DEF EngineInv, TypeOK
  <2>2. original \in Volume \cup {None}
    BY DEF EngineInv, TypeOK
  <2>3. out' \in DuckCommand /\ RestoreIsOwed'
    BY <1>3, <2>1, <2>2, Commands DEF Disarm, RestoreIsOwed, Restores
  <2>4. TypeOK'
    <3>1. armed' \in BOOLEAN /\ state' \in DuckingState
      BY <1>3 DEF Disarm, SpentByDisarm, Cleared, DuckingState
    <3>. QED
      BY <1>3, <2>3, <3>1 DEF Disarm, SpentByDisarm, Cleared, EngineInv, TypeOK
  <2>5. TripwireGap' /\ DisarmedIsClean'
    BY <1>3 DEF Disarm, SpentByDisarm, Cleared, EngineInv, TripwireGap, DisarmedIsClean
  <2>. QED
    BY <1>3, <2>3, <2>4, <2>5 DEF Disarm, SpentByDisarm, Cleared, EngineInv
<1>4. CASE ClearDuckState
  <2>1. TypeOK'
    BY <1>4, Commands DEF ClearDuckState, Cleared, EngineInv, TypeOK, DuckingState
  <2>2. TripwireGap' /\ DisarmedIsClean'
    BY <1>4 DEF ClearDuckState, Cleared, EngineInv, TripwireGap, DisarmedIsClean
  <2>3. RestoreIsOwed'
    BY <1>4, Commands DEF ClearDuckState, RestoreIsOwed, Restores
  <2>. QED
    BY <1>4, <2>1, <2>2, <2>3 DEF ClearDuckState, Cleared, EngineInv
<1>5. ASSUME NEW v \in Volume, SetOriginalVolume(v)
      PROVE  EngineInv'
  <2>1. TypeOK' /\ TripwireGap' /\ DisarmedIsClean'
    BY <1>5, Commands
       DEF SetOriginalVolume, EngineInv, TypeOK, TripwireGap, DisarmedIsClean
  <2>2. RestoreIsOwed'
    BY <1>5, Commands DEF SetOriginalVolume, RestoreIsOwed, Restores
  <2>. QED
    BY <1>5, <2>1, <2>2 DEF SetOriginalVolume, EngineInv
<1>. QED
  BY <1>1, <1>2, <1>3, <1>4, <1>5

LEMMA StutterPreserves ==
    ASSUME EngineInv, UNCHANGED vars
    PROVE  EngineInv'
<1>. USE DEF vars
<1>1. TypeOK' /\ TripwireGap' /\ DisarmedIsClean'
  BY DEF EngineInv, TypeOK, TripwireGap, DisarmedIsClean
<1>2. RestoreIsOwed'
  BY DEF EngineInv, RestoreIsOwed, Restores
<1>. QED
  BY <1>1, <1>2 DEF EngineInv

LEMMA StepPreserves == EngineInv /\ [Next]_vars => EngineInv'
<1>. SUFFICES ASSUME EngineInv, [Next]_vars PROVE EngineInv'
  OBVIOUS
<1>1. CASE SomeTick
  BY <1>1, TickPreserves DEF SomeTick
<1>2. ASSUME NEW db \in Setting, CalibrateSilence(db)
      PROVE  EngineInv'
  BY <1>2, CalibratePreserves DEF CalibrateSilence
<1>3. ASSUME NEW db \in Setting, SetTripwire(db)
      PROVE  EngineInv'
  BY <1>3, SetTripwirePreserves
<1>4. ASSUME NEW f \in Setting, NEW t \in Setting, LoadCalibration(f, t)
      PROVE  EngineInv'
  BY <1>4, CalibratePreserves DEF LoadCalibration
<1>5. CASE \/ \E e \in Elapsed : TickNotFinite(e)
           \/ Arm \/ Disarm \/ ClearDuckState
           \/ \E v \in Volume : SetOriginalVolume(v)
  BY <1>5, CallPreserves
<1>6. CASE UNCHANGED vars
  BY <1>6, StutterPreserves
<1>. QED
  BY <1>1, <1>2, <1>3, <1>4, <1>5, <1>6 DEF Next

\* Every reachable state of the engine satisfies the inductive invariant, and
\* with it the named invariants it is made of.
THEOREM EngineCorrect == Spec => []EngineInv
  BY EngineInit, StepPreserves, PTL DEF Spec

\* The fields of DuckingEngine keep their types: in particular sustained_ms
\* never underflows and duck_steps_taken never passes MAX_DUCK_STEPS.
THEOREM TypeCorrect == Spec => []TypeOK
<1>1. EngineInv => TypeOK
  BY DEF EngineInv
<1>. QED
  BY <1>1, EngineCorrect, PTL

\* No sequence of calibrations brings the tripwire within 6 dB of the floor.
THEOREM GapCorrect == Spec => []TripwireGap
<1>1. EngineInv => TripwireGap
  BY DEF EngineInv
<1>. QED
  BY <1>1, EngineCorrect, PTL

\* A Restore asks for at least one step and at most MAX_DUCK_STEPS, whatever
\* order ticks, disarms and tv_task's reports come in.
THEOREM RestoreCorrect == Spec => []RestoreIsOwed
<1>1. EngineInv => RestoreIsOwed
  BY DEF EngineInv
<1>. QED
  BY <1>1, EngineCorrect, PTL

\* A disarmed engine holds no session.
THEOREM DisarmedCorrect == Spec => []DisarmedIsClean
<1>1. EngineInv => DisarmedIsClean
  BY DEF EngineInv
<1>. QED
  BY <1>1, EngineCorrect, PTL

(***************************************************************************)
(* Action properties.                                                      *)
(***************************************************************************)

\* The tick is the only operation that returns VolumeDown.
LEMMA OnlyTicksDuck ==
    ASSUME EngineInv, [Next]_vars, out' = VolumeDown, ~ UNCHANGED vars
    PROVE  \E db \in Reading, e \in Elapsed : TickVolumeDown(db, e)
<1>1. NoCommand # VolumeDown
  BY Commands
<1>2. ASSUME NEW v \in Volume \cup {None}, NEW n \in 0..MaxSteps
      PROVE  RestoreOf(v, n) # VolumeDown
  BY Commands
<1>3. original \in Volume \cup {None} /\ steps \in 0..MaxSteps
  BY DEF EngineInv, TypeOK
<1>4. RestoreOf(original, steps) # VolumeDown
  BY <1>2, <1>3
<1>5. CASE SomeTick
  BY <1>1, <1>4, <1>5
     DEF SomeTick, Tick, TickDisarmed, TickRestore, TickDucking, TickIdle
<1>6. ~ Disarm
  BY <1>1, <1>4 DEF Disarm
<1>7. CASE ~ SomeTick
  BY <1>1, <1>6, <1>7
     DEF Next, TickNotFinite, CalibrateSilence, LoadCalibration, Calibrate,
         SetTripwire, Arm, ClearDuckState, SetOriginalVolume
<1>. QED
  BY <1>5, <1>7

\* No brief sound ducks the TV, however soon after a restore it comes: the
\* windows counted before the restore never count again.
THEOREM DetectionCorrect == Spec => DetectionDelay
<1>1. EngineInv /\ EngineInv' /\ [Next]_vars
          => [out' = VolumeDown => heard' >= Detect]_vars
  <2>. SUFFICES ASSUME EngineInv, EngineInv', [Next]_vars, ~ UNCHANGED vars,
                       out' = VolumeDown
                PROVE  heard' >= Detect
    OBVIOUS
  <2>1. PICK db \in Reading, e \in Elapsed : TickVolumeDown(db, e)
    BY OnlyTicksDuck
  <2>2. sustained' >= Detect
    BY <2>1 DEF TickVolumeDown, Triggered
  <2>. QED
    BY <2>2 DEF EngineInv, TypeOK
<1>2. EngineInv /\ [Next]_vars => EngineInv'
  BY StepPreserves
<1>. QED
  BY <1>1, <1>2, EngineCorrect, PTL DEF Spec, DetectionDelay

\* The hold is never skipped: last_duck_at is set for as long as the engine is
\* ducking, so the None branch of Path B is dead, and a step moves it at least
\* as often as it returns a VolumeDown.
THEOREM HoldCorrect == Spec => HoldBeforeRestore
<1>1. EngineInv => \A db \in Reading, e \in Elapsed :
          TickRestore(db, e) /\ ~ NearSilent(db) => sinceDown' >= Hold
  <2>. SUFFICES ASSUME EngineInv, NEW db \in Reading, NEW e \in Elapsed,
                       TickRestore(db, e), ~ NearSilent(db)
                PROVE  sinceDown' >= Hold
    OBVIOUS
  <2>1. PathB(db, e)
    BY DEF TickRestore, PathA
  <2>2. lastDuck # None
    BY <2>1 DEF PathB, EngineInv
  <2>3. /\ Age(e) \in (0..Hold) \cup {None}
        /\ Age(e) # None
        /\ Age(e) <= Capped(sinceDown + e, Hold)
        /\ Capped(sinceDown + e, Hold) \in 0..Hold
    BY <2>2, AgeBounds DEF EngineInv, TypeOK
  <2>4. Age(e) >= Hold
    BY <2>1, <2>3 DEF PathB, HoldElapsed
  <2>5. sinceDown' = Capped(sinceDown + e, Hold)
    BY DEF TickRestore, Ages
  <2>. QED
    BY <2>3, <2>4, <2>5
<1>2. EngineInv => [\A db \in Reading, e \in Elapsed :
          TickRestore(db, e) /\ ~ NearSilent(db) => sinceDown' >= Hold]_vars
  BY <1>1
<1>. QED
  BY <1>2, EngineCorrect, PTL DEF HoldBeforeRestore

(***************************************************************************)
(* DuckingEngine implements EngineView.                                    *)
(***************************************************************************)

\* A tick that enters state Ducking already counted noise, and still does.
LEMMA DucksWarm ==
    ASSUME OneWindowIsNotEnough, EngineInv, NEW db \in Reading, NEW e \in Elapsed,
           Tick(db, e), state # "Ducking", state' = "Ducking"
    PROVE  sustained > 0 /\ sustained' > 0
<1>1. Triggered(db, e) /\ sustained' = Accumulated(db)
  BY DEF Tick, TickDisarmed, TickRestore, TickVolumeDown, TickDucking, TickIdle
<1>2. /\ Accumulated(db) \in 0..MaxSustained
      /\ Accumulated(db) <= sustained + Up
      /\ sustained \in 0..MaxSustained
  <2>1. db \in Int /\ tripwire \in Int /\ sustained \in 0..MaxSustained
    BY DEF EngineInv, TypeOK
  <2>. QED
    BY <2>1, AccumulatedBounds
<1>3. Accumulated(db) >= Detect
  BY <1>1 DEF Triggered
<1>. QED
  BY <1>1, <1>2, <1>3 DEF OneWindowIsNotEnough

\* A tick of the engine is a tick of the view.
LEMMA TickImplements ==
    ASSUME OneWindowIsNotEnough, EngineInv, NEW db \in Reading, NEW e \in Elapsed,
           Tick(db, e)
    PROVE  View!Tick
<1>1. CASE ~ armed
  <2>1. TickDisarmed(e)
    BY <1>1 DEF Tick, TickRestore, TickVolumeDown, TickDucking, TickIdle
  <2>2. state' = "Quiet" /\ sustained' = 0 /\ armed' = armed
    BY <2>1 DEF TickDisarmed
  <2>. QED
    BY <1>1, <2>2 DEF View!Tick, View!TickDisarmed
<1>2. CASE armed
  <2>1. armed' = armed
    BY DEF Tick, TickDisarmed, TickRestore, TickVolumeDown, TickDucking, TickIdle
  <2>2. /\ (state' = "Ducking") \in BOOLEAN
        /\ (sustained' > 0) \in BOOLEAN
    OBVIOUS
  <2>. QED
    BY <1>2, <2>1, <2>2, DucksWarm DEF View!Tick, View!TickArmed
<1>. QED
  BY <1>1, <1>2

\* Every other call is a call of the view, or none at all.
LEMMA CallImplements ==
    ASSUME EngineInv,
           \/ \E e \in Elapsed : TickNotFinite(e)
           \/ \E db \in Setting : CalibrateSilence(db) \/ SetTripwire(db)
           \/ \E f, t \in Setting : LoadCalibration(f, t)
           \/ Arm \/ Disarm \/ ClearDuckState
           \/ \E v \in Volume : SetOriginalVolume(v)
    PROVE  [View!Next]_(View!vars)
<1>1. CASE Arm
  BY <1>1 DEF Arm, View!Next, View!Arm
<1>2. CASE Disarm
  BY <1>2 DEF Disarm, Cleared, SpentByDisarm, View!Next, View!Disarm
<1>3. CASE ClearDuckState
  BY <1>3 DEF ClearDuckState, Cleared, View!Next, View!Clear
<1>4. CASE UNCHANGED <<armed, state, sustained>>
  BY <1>4 DEF View!vars
<1>5. CASE ~ Arm /\ ~ Disarm /\ ~ ClearDuckState
  BY <1>4, <1>5 DEF TickNotFinite, CalibrateSilence, LoadCalibration, Calibrate,
                    SetTripwire, SetOriginalVolume
<1>. QED
  BY <1>1, <1>2, <1>3, <1>5

\* What the LED and the clients are promised, for every choice of levels, times
\* and caps in which one loud window is not enough to duck.
THEOREM ViewImplemented ==
    ASSUME OneWindowIsNotEnough
    PROVE  Spec => ImplementsView
<1>1. Init => View!Init
  BY DEF Init, View!Init
<1>2. EngineInv /\ [Next]_vars => [View!Next]_(View!vars)
  <2>. SUFFICES ASSUME EngineInv, [Next]_vars
                PROVE  [View!Next]_(View!vars)
    OBVIOUS
  <2>1. CASE SomeTick
    BY <2>1, TickImplements DEF SomeTick, View!Next
  <2>2. CASE UNCHANGED vars
    BY <2>2 DEF vars, View!vars
  <2>3. CASE Next /\ ~ SomeTick
    BY <2>3, CallImplements DEF Next
  <2>. QED
    BY <2>1, <2>2, <2>3
<1>. QED
  BY <1>1, <1>2, EngineCorrect, PTL DEF Spec, ImplementsView, View!Spec
================================================================================
