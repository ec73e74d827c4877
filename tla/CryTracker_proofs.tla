--------------------------- MODULE CryTracker_proofs ---------------------------
(***************************************************************************)
(* Proofs about CryTracker, for every choice of the window counts that     *)
(* CryAssumption allows: CryInv is inductive, and the two action           *)
(* properties follow from it.                                              *)
(***************************************************************************)
EXTENDS CryTracker, TLAPS

USE CryAssumption DEF CryAssumption

\* Capped never exceeds its bound and is the identity below it.
LEMMA CappedBounds ==
    ASSUME NEW x \in Nat, NEW top \in Nat
    PROVE  /\ Capped(x, top) \in 0..top
           /\ x <= top => Capped(x, top) = x
           /\ x > top => Capped(x, top) = top
  BY DEF Capped

\* A new tracker satisfies the invariant (CryTracker::new).
LEMMA CryInit == Init => CryInv
  <1> SUFFICES ASSUME Init PROVE CryInv
    OBVIOUS
  <1>1. TypeOK
    <2>1. crying \in BOOLEAN
      BY DEF Init
    <2>2. cooldown \in 0..Cooldown /\ since \in 0..Cooldown
      BY DEF Init
    <2> QED BY <2>1, <2>2 DEF Init, TypeOK
  <1>2. ~ InBurst(lastBurst) /\ ~ crying
    BY DEF Init, InBurst
  <1> QED BY <1>1, <1>2 DEF Init, CryInv

\* Every call of tick leaves the types right.
LEMMA TypePreserved ==
    ASSUME CryInv, NEW isCry \in BOOLEAN, Window(isCry)
    PROVE  TypeOK'
  <1>1. burst' \in 0..Saturation /\ gap' \in 0..MaxGap
    BY DEF Window, Count, CryInv, TypeOK, Capped, GapCount
  <1>2. Counted(isCry) \in 0..CycleCap
    BY DEF CryInv, TypeOK, Counted, CyclesOnCry, CyclesOnGap
  <1>3. cycles' \in 0..CycleCap
    BY <1>2 DEF Window, Confirm, Drop, Keep, CryInv, TypeOK
  <1>4. crying' \in BOOLEAN
    BY DEF Window, Confirm, Drop, Keep, CryInv, TypeOK
  <1>5. cooldown' \in 0..Cooldown
    BY DEF Window, Confirm, Drop, Keep, Reloaded, CryInv, TypeOK
  <1>6. /\ lastBurst' \in 0..(MaxBurst + 1) /\ pause' \in 0..(MaxGap + 1)
        /\ good' \in 0..Needed /\ since' \in 0..Cooldown
    BY DEF Window, Hear, CryInv, TypeOK, Capped
  <1> QED BY <1>1, <1>3, <1>4, <1>5, <1>6 DEF TypeOK

\* What the tracker counts stays in step with what was heard.
LEMMA CountsAgree ==
    ASSUME CryInv, NEW isCry \in BOOLEAN, Window(isCry)
    PROVE  /\ burst' > 0 <=> pause' = 0
           /\ burst' > 0 => gap' = 0 /\ (InBurst(burst') <=> InBurst(lastBurst'))
                            /\ lastBurst' = Capped(burst', MaxBurst + 1)
           /\ burst' = 0 => IF InBurst(lastBurst') /\ pause' <= MaxGap
                            THEN gap' = pause' ELSE cycles' = 0 /\ good' = 0
  <1>1. CASE isCry
    <2>1. burst' = Capped(burst + 1, Saturation) /\ gap' = 0 /\ pause' = 0
      BY <1>1 DEF Window, Count, Hear
    <2>2. lastBurst' = Capped(burst', MaxBurst + 1)
      BY <1>1, <2>1 DEF Window, Hear, CryInv, TypeOK, Capped
    <2> QED BY <2>1, <2>2 DEF CryInv, TypeOK, Capped, InBurst
  <1>2. CASE ~ isCry
    <2>1. burst' = 0 /\ lastBurst' = lastBurst /\ pause' > 0
      BY <1>2 DEF Window, Count, Hear, CryInv, TypeOK, Capped
    <2>2. CASE InBurst(lastBurst) /\ pause < MaxGap
      <3>1. gap = pause /\ ~ WrongBurst
        BY <2>2 DEF CryInv, TypeOK, WrongBurst
      <3> QED BY <1>2, <2>1, <2>2, <3>1
           DEF Window, Count, Hear, GapCount, CryInv, TypeOK, Capped
    <2>3. CASE ~ (InBurst(lastBurst) /\ pause < MaxGap)
      <3>1. good' = 0 /\ (InBurst(lastBurst) => pause' > MaxGap)
        BY <1>2, <2>3 DEF Window, Hear, CryInv, TypeOK, Capped
      <3>2. Counted(isCry) = 0
        BY <1>2, <2>3 DEF Counted, CyclesOnGap, GapCount, WrongBurst, CryInv,
                          TypeOK
      <3>3. cycles' = 0
        BY <3>2 DEF Window, Confirm, Drop, Keep
      <3> QED BY <2>1, <3>1, <3>3, TypePreserved DEF TypeOK
    <2> QED BY <2>2, <2>3
  <1> QED BY <1>1, <1>2

\* The tracker's cycles are at most one ahead of the rhythm that was heard:
\* a cycle it counts without a genuine burst and pause is its first one.
LEMMA OneAhead ==
    ASSUME CryInv, NEW isCry \in BOOLEAN, Window(isCry)
    PROVE  good' < Needed => Counted(isCry) <= good' + 1
  <1>1. CASE isCry
    <2>1. CASE Genuine
      BY <1>1, <2>1 DEF Window, Hear, Counted, CyclesOnCry, CryInv, TypeOK, Capped
    <2>2. CASE ~ Genuine /\ BreathGap(gap)
      <3>1. burst = 0
        BY <2>2 DEF CryInv, TypeOK, BreathGap
      <3>2. ~ (InBurst(lastBurst) /\ pause <= MaxGap)
        BY <2>2, <3>1 DEF CryInv, TypeOK, Genuine, BreathGap
      <3>3. cycles = 0
        BY <3>1, <3>2 DEF CryInv
      <3> QED BY <1>1, <2>2, <3>3
           DEF Window, Hear, Counted, CyclesOnCry, CryInv, TypeOK
    <2>3. CASE ~ Genuine /\ ~ BreathGap(gap)
      BY <1>1, <2>3 DEF Window, Hear, Counted, CyclesOnCry, CryInv, TypeOK
    <2> QED BY <2>1, <2>2, <2>3
  <1>2. CASE ~ isCry
    <2>1. CASE InBurst(lastBurst) /\ pause < MaxGap
      BY <1>2, <2>1 DEF Window, Hear, Counted, CyclesOnGap, CryInv, TypeOK
    <2>2. CASE ~ (InBurst(lastBurst) /\ pause < MaxGap)
      <3>1. Counted(isCry) = 0
        BY <1>2, <2>2 DEF Counted, CyclesOnGap, GapCount, WrongBurst, CryInv,
                          TypeOK
      <3> QED BY <3>1, TypePreserved DEF TypeOK
    <2> QED BY <2>1, <2>2
  <1> QED BY <1>1, <1>2

\* While the flag is up, the tracker has counted whatever cycle was heard.
LEMMA CountedKeepsUp ==
    ASSUME CryInv, NEW isCry \in BOOLEAN, Window(isCry), good <= cycles,
           Counted(isCry) < Needed
    PROVE  good' <= Counted(isCry)
  <1>1. CASE isCry
    <2>1. Counted(isCry) = CyclesOnCry
      BY <1>1 DEF Counted
    <2>2. CASE Genuine
      <3>1. burst = 0 /\ gap = pause
        BY <2>2 DEF Genuine, BreathGap, InBurst, CryInv, TypeOK
      <3>2. cycles < CycleCap => CyclesOnCry = cycles + 1
        BY <2>2, <3>1 DEF Genuine, CyclesOnCry
      <3>3. good' = Capped(good + 1, Needed)
        BY <1>1, <2>2 DEF Window, Hear
      <3>4. CASE cycles < CycleCap
        BY <2>1, <3>2, <3>3, <3>4 DEF CryInv, TypeOK, Capped
      <3>5. CASE cycles = CycleCap
        BY <2>1, <3>5 DEF CyclesOnCry
      <3> QED BY <3>4, <3>5 DEF CryInv, TypeOK
    <2>3. CASE ~ Genuine
      <3>1. good' = good
        BY <1>1, <2>3 DEF Window, Hear
      <3> QED BY <2>1, <3>1 DEF CyclesOnCry, CryInv, TypeOK
    <2> QED BY <2>2, <2>3
  <1>2. CASE ~ isCry
    <2>1. CASE InBurst(lastBurst) /\ pause < MaxGap
      <3>1. good' = good
        BY <1>2, <2>1 DEF Window, Hear
      <3> QED BY <1>2, <2>1, <3>1
           DEF Counted, CyclesOnGap, GapCount, WrongBurst, CryInv, TypeOK
    <2>2. CASE ~ (InBurst(lastBurst) /\ pause < MaxGap)
      <3>1. good' = 0
        BY <1>2, <2>2 DEF Window, Hear
      <3> QED BY <1>2, <3>1 DEF Counted, CyclesOnGap, CryInv, TypeOK
    <2> QED BY <2>1, <2>2
  <1> QED BY <1>1, <1>2

\* A confirmed rhythm keeps the flag and the cooldown, and the cooldown is
\* spent no faster than windows pass.
LEMMA FlagAgrees ==
    ASSUME CryInv, NEW isCry \in BOOLEAN, Window(isCry)
    PROVE  /\ crying' => good' <= cycles'
           /\ cycles' >= Needed => crying' /\ cooldown' = Cooldown
           /\ crying' /\ cycles' < Needed => cooldown' + since' >= Cooldown - 1
  <1>1. CASE Confirm(isCry)
    <2>1. cycles' >= Needed /\ crying' /\ cooldown' = Cooldown
      BY <1>1 DEF Confirm, Reloaded
    <2> QED BY <2>1, TypePreserved DEF TypeOK
  <1>2. CASE Drop(isCry)
    BY <1>2 DEF Drop
  <1>3. CASE Keep(isCry)
    <2>1. Counted(isCry) < Needed /\ cycles' = Counted(isCry) /\ crying' = crying
      BY <1>3 DEF Keep
    <2>2. crying => good' <= cycles'
      BY <2>1, CountedKeepsUp DEF CryInv
    <2>3. crying => cooldown' + since' >= Cooldown - 1
      <3>1. crying => cycles < Needed \/ cooldown = Cooldown
        BY DEF CryInv, TypeOK
      <3>2. crying => cooldown' >= cooldown - 1
                      /\ (isCry => cooldown' = cooldown)
        BY <1>3 DEF Keep, CryInv, TypeOK
      <3>3. good < Needed => since' = Capped(since + 1, Cooldown)
        BY DEF Window, Hear, CryInv, TypeOK
      <3>4. crying /\ cycles < Needed => good < Needed
        BY DEF CryInv, TypeOK
      <3>5. since' >= 0
        BY TypePreserved DEF TypeOK
      <3>6. CASE cycles < Needed
        BY <3>2, <3>3, <3>4, <3>6, TypePreserved DEF CryInv, TypeOK, Capped
      <3>7. CASE cooldown = Cooldown
        BY <3>2, <3>5, <3>7, TypePreserved DEF TypeOK
      <3> QED BY <3>1, <3>6, <3>7
    <2> QED BY <2>1, <2>2, <2>3, TypePreserved DEF TypeOK
  <1> QED BY <1>1, <1>2, <1>3 DEF Window

LEMMA WindowPreserves ==
    ASSUME CryInv, NEW isCry \in BOOLEAN, Window(isCry)
    PROVE  CryInv'
  <1>1. good' < Needed => cycles' <= good' + 1
    <2>1. cycles' = Counted(isCry) \/ cycles' = 0
      BY DEF Window, Confirm, Drop, Keep
    <2> QED BY <2>1, OneAhead, TypePreserved DEF TypeOK
  <1> QED BY <1>1, TypePreserved, CountsAgree, FlagAgrees DEF CryInv, InBurst

LEMMA StepPreserves == CryInv /\ [Next]_vars => CryInv'
  <1> SUFFICES ASSUME CryInv, [Next]_vars
               PROVE  CryInv'
    OBVIOUS
  <1>1. CASE Next
    BY <1>1, WindowPreserves DEF Next
  <1>2. CASE UNCHANGED vars
    BY <1>2 DEF vars, tracker, CryInv, TypeOK, InBurst
  <1> QED BY <1>1, <1>2

\* The counts, the flag and the cooldown agree with what was heard, for every
\* sequence of windows and every choice of the window counts.
THEOREM CryCorrect == Spec => []CryInv
  BY CryInit, StepPreserves, PTL DEF Spec

\* No count leaves its range: burst_windows, cycles and cooldown_windows stay
\* within a u8 without wrapping.
THEOREM TypeCorrect == Spec => []TypeOK
  <1>1. CryInv => TypeOK
    BY DEF CryInv
  <1> QED BY <1>1, CryCorrect, PTL

\* A sound that is not a rhythm never raises the alarm.
THEOREM RhythmCorrect == Spec => EnoughRhythm
  <1>1. CryInv /\ [Next]_vars => [~ crying /\ crying' => good' >= Needed - 1]_vars
    <2> SUFFICES ASSUME CryInv, NEW isCry \in BOOLEAN, Window(isCry),
                        ~ crying, crying'
                 PROVE  good' >= Needed - 1
      BY DEF Next
    <2>1. Counted(isCry) >= Needed
      BY DEF Window, Confirm, Drop, Keep
    <2>2. good' \in 0..Needed /\ Counted(isCry) \in Nat
      BY TypePreserved
         DEF TypeOK, CryInv, Counted, CyclesOnCry, CyclesOnGap
    <2> QED BY <2>1, <2>2, OneAhead
  <1> QED BY <1>1, CryCorrect, PTL DEF Spec, EnoughRhythm

\* The flag outlives a confirmed rhythm by the cooldown.
THEOREM StaysUpCorrect == Spec => StaysUp
  <1>1. CryInv /\ [Next]_vars => [crying /\ ~ crying' => since' >= Cooldown]_vars
    <2> SUFFICES ASSUME CryInv, NEW isCry \in BOOLEAN, Window(isCry),
                        crying, ~ crying'
                 PROVE  since' >= Cooldown
      BY DEF Next
    <2>1. Drop(isCry)
      BY DEF Window, Confirm, Keep
    <2>2. cycles < Needed
      BY <2>1 DEF Drop, CryInv, TypeOK
    <2>3. good < Needed /\ since >= Cooldown - 1
      BY <2>1, <2>2 DEF Drop, CryInv, TypeOK
    <2> QED BY <2>3 DEF Window, Hear, CryInv, TypeOK, Capped
  <1> QED BY <1>1, CryCorrect, PTL DEF Spec, StaysUp

(***************************************************************************)
(* CryTracker implements CryAlarm.                                         *)
(***************************************************************************)

\* The verdict of a window is what the history variable pause tells.
LEMMA VerdictKept ==
    ASSUME CryInv, NEW isCry \in BOOLEAN, Window(isCry)
    PROVE  (pause' = 0) = isCry
  <1>1. pause' = IF isCry THEN 0 ELSE Capped(pause + 1, MaxGap + 1)
    BY DEF Window, Hear
  <1>2. CASE isCry
    BY <1>1, <1>2
  <1>3. CASE ~ isCry
    <2>1. pause + 1 \in Nat \ {0}
      BY DEF CryInv, TypeOK
    <2>2. pause' # 0
      BY <1>1, <1>3, <2>1 DEF Capped
    <2> QED BY <1>3, <2>2
  <1> QED BY <1>2, <1>3

\* A quiet window never completes the rhythm, so a flag that rises was raised by
\* a cry-positive one.
LEMMA RaisedByCry ==
    ASSUME CryInv, NEW isCry \in BOOLEAN, Confirm(isCry), ~ crying
    PROVE  isCry
  <1>1. cycles < Needed /\ cycles \in Nat
    BY DEF CryInv, TypeOK
  <1>2. CyclesOnGap \in Int /\ CyclesOnGap < Needed
    BY <1>1 DEF CyclesOnGap
  <1> QED BY <1>2 DEF Confirm, Counted

\* A call of tick is a window of the alarm.
LEMMA WindowImplements ==
    ASSUME CryInv, NEW isCry \in BOOLEAN, Window(isCry)
    PROVE  Alarm!Window(isCry)
  <1>1. CASE Confirm(isCry)
    <2>1. crying' = TRUE /\ cooldown' = Cooldown
      BY <1>1 DEF Confirm, Reloaded
    <2>2. CASE crying
      <3>1. crying = TRUE
        BY <2>2 DEF CryInv, TypeOK
      <3> QED BY <2>1, <3>1 DEF Alarm!Window, Alarm!Renew
    <2>3. CASE ~ crying
      BY <1>1, <2>1, <2>3, RaisedByCry DEF Alarm!Window, Alarm!Rise
    <2> QED BY <2>2, <2>3
  <1>2. CASE Drop(isCry)
    BY <1>2 DEF Drop, Alarm!Window, Alarm!Fall
  <1>3. CASE Keep(isCry)
    BY <1>3 DEF Keep, Alarm!Window, Alarm!Stay
  <1> QED BY <1>1, <1>2, <1>3 DEF Window

\* What the readers of the flag are promised holds for every choice of the
\* window counts: initial states map to initial states, steps to steps.
THEOREM AlarmImplemented == Spec => ImplementsAlarm
  <1>1. Init => Alarm!Init
    BY DEF Init, Alarm!Init
  <1>2. CryInv /\ [Next]_vars => [Alarm!Next]_(Alarm!vars)
    <2> SUFFICES ASSUME CryInv, [Next]_vars
                 PROVE  [Alarm!Next]_(Alarm!vars)
      OBVIOUS
    <2>1. ASSUME NEW isCry \in BOOLEAN, Window(isCry)
          PROVE  Alarm!Next
      BY <2>1, WindowImplements, VerdictKept DEF Alarm!Next
    <2>2. CASE UNCHANGED vars
      BY <2>2 DEF vars, tracker, Alarm!vars
    <2> QED BY <2>1, <2>2 DEF Next
  <1> QED BY <1>1, <1>2, CryCorrect, PTL DEF Spec, ImplementsAlarm, Alarm!Spec
================================================================================
