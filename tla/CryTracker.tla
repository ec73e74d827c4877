------------------------------ MODULE CryTracker ------------------------------
(***************************************************************************)
(* The baby-cry tracker of firmware-rs/src/ducking.rs (struct CryTracker): *)
(* ducking_task feeds it the spectral verdict of every audio window and    *)
(* sends a baby_cry event when tick returns true.  It keeps running counts *)
(* of the current burst and gap, a number of burst-gap cycles, and a       *)
(* cooldown that keeps the flag up after the rhythm has ended.             *)
(*                                                                         *)
(* The history variables judge the same windows by the lengths of the      *)
(* bursts and pauses that were really heard.                               *)
(***************************************************************************)
EXTENDS Integers

CONSTANTS
    MinBurst, MaxBurst,   \* windows in a cry burst
    MinGap, MaxGap,       \* windows in the breath between two bursts
    Needed,               \* cycles that confirm crying
    CycleCap,             \* where cycles stops counting
    Cooldown,             \* cooldown_windows when the rhythm is present
    Saturation            \* u8::MAX

ASSUME CryAssumption ==
    /\ MinBurst \in Nat /\ MaxBurst \in Nat /\ MinGap \in Nat \ {0, 1}
    /\ MaxGap \in Nat /\ Needed \in Nat \ {0} /\ CycleCap \in Nat
    /\ Cooldown \in Nat \ {0} /\ Saturation \in Nat
    /\ 1 < MinBurst /\ MinBurst <= MaxBurst /\ MaxBurst < Saturation
    /\ MinGap <= MaxGap /\ MaxGap < Saturation
    /\ Needed <= CycleCap

VARIABLES
    burst,      \* burst_windows
    gap,        \* gap_windows
    cycles, crying,
    cooldown,   \* cooldown_windows
    lastBurst,  \* history: length of the burst heard last (or being heard)
    pause,      \* history: windows since it ended, capped at MaxGap + 1
    good,       \* history: bursts and pauses of the right length in a row
    since       \* history: windows since a confirmed rhythm broke off, capped
                \* at Cooldown

tracker == <<burst, gap, cycles, crying, cooldown>>
vars == <<tracker, lastBurst, pause, good, since>>

Capped(x, top) == IF x > top THEN top ELSE x

----------------------------------------------------------------------------
(* tick.  The counters first, then the flag.                               *)

InBurst(n) == n \in MinBurst..MaxBurst
BreathGap(n) == n \in MinGap..MaxGap

\* A cry-positive window completes a cycle if the gap before it was a breath.
CyclesUncapped == IF BreathGap(gap) THEN cycles + 1 ELSE cycles
AnyGapCounts == IF gap > 0 /\ cycles < CycleCap THEN cycles + 1 ELSE cycles
CyclesOnCry ==
    IF BreathGap(gap) /\ cycles < CycleCap THEN cycles + 1 ELSE cycles

\* A cry-negative window.  A burst of the wrong length ends the rhythm, and its
\* first quiet window does not count; a gap that is too long ends it as well.
WrongBurst == burst > 0 /\ ~ InBurst(burst)
GapCount == IF WrongBurst THEN 0 ELSE gap + 1
WrongBurstIgnored == IF GapCount > MaxGap THEN 0 ELSE cycles
LongGapIgnored == IF WrongBurst THEN 0 ELSE cycles
CountedInTheBreath ==
    IF WrongBurst \/ GapCount > MaxGap THEN 0
    ELSE IF GapCount = MinGap /\ cycles < CycleCap THEN cycles + 1 ELSE cycles
CyclesOnGap == IF WrongBurst \/ GapCount > MaxGap THEN 0 ELSE cycles

Counted(isCry) == IF isCry THEN CyclesOnCry ELSE CyclesOnGap

Count(isCry) ==
    /\ burst' = IF isCry THEN Capped(burst + 1, Saturation) ELSE 0
    /\ gap' = IF isCry \/ GapCount > MaxGap THEN 0 ELSE GapCount

\* The flag: confirmed by the rhythm, dropped by the first quiet window after
\* the cooldown has run out, and otherwise left alone.
ReloadedOnce(isCry) ==
    IF ~ crying THEN Cooldown
    ELSE IF isCry \/ cooldown = 0 THEN cooldown ELSE cooldown - 1
Reloaded(isCry) == Cooldown

Confirm(isCry) ==
    /\ Counted(isCry) >= Needed
    /\ cycles' = Counted(isCry)
    /\ crying' = TRUE /\ cooldown' = Reloaded(isCry)

Drop(isCry) ==
    /\ Counted(isCry) < Needed
    /\ crying /\ ~ isCry /\ cooldown = 0
    /\ cycles' = 0
    /\ crying' = FALSE /\ UNCHANGED cooldown

Keep(isCry) ==
    /\ Counted(isCry) < Needed
    /\ crying /\ ~ isCry => cooldown > 0
    /\ cycles' = Counted(isCry)
    /\ cooldown' = IF crying /\ ~ isCry THEN cooldown - 1 ELSE cooldown
    /\ UNCHANGED crying

\* The history of what was heard.
Genuine == InBurst(lastBurst) /\ BreathGap(pause)
Hear(isCry) ==
    /\ lastBurst' = IF ~ isCry THEN lastBurst
                    ELSE IF pause = 0 THEN Capped(lastBurst + 1, MaxBurst + 1)
                    ELSE 1
    /\ pause' = IF isCry THEN 0 ELSE Capped(pause + 1, MaxGap + 1)
    /\ good' = IF isCry THEN (IF Genuine THEN Capped(good + 1, Needed) ELSE good)
               ELSE IF InBurst(lastBurst) /\ pause < MaxGap THEN good ELSE 0
    /\ since' = IF good >= Needed THEN 0 ELSE Capped(since + 1, Cooldown)

\* One call of tick.
Window(isCry) ==
    /\ Count(isCry)
    /\ Confirm(isCry) \/ Drop(isCry) \/ Keep(isCry)
    /\ Hear(isCry)

----------------------------------------------------------------------------

Init ==
    /\ burst = 0 /\ gap = 0 /\ cycles = 0 /\ crying = FALSE /\ cooldown = 0
    /\ lastBurst = 0 /\ pause = MaxGap + 1 /\ good = 0 /\ since = Cooldown

Next == \E isCry \in BOOLEAN : Window(isCry)

Spec == Init /\ [][Next]_vars

\* Audio windows keep coming, and ducking_task ticks the tracker for each.
FairSpec == Spec /\ WF_vars(Next)

----------------------------------------------------------------------------

TypeOK ==
    /\ burst \in 0..Saturation /\ gap \in 0..MaxGap
    /\ cycles \in 0..CycleCap /\ crying \in BOOLEAN
    /\ cooldown \in 0..Cooldown
    /\ lastBurst \in 0..(MaxBurst + 1) /\ pause \in 0..(MaxGap + 1)
    /\ good \in 0..Needed /\ since \in 0..Cooldown

\* The inductive invariant: inside a burst the tracker's count agrees with what
\* was heard; in a pause it does so as long as the rhythm can go on, and once it
\* cannot, no cycle is left.  So cycles is at most one ahead, by the silence
\* before the first burst.  A confirmed rhythm keeps the flag and its cooldown.
CryInv ==
    /\ TypeOK
    /\ burst > 0 <=> pause = 0
    /\ burst > 0 => gap = 0 /\ (InBurst(burst) <=> InBurst(lastBurst))
                    /\ lastBurst = Capped(burst, MaxBurst + 1)
    /\ burst = 0 => IF InBurst(lastBurst) /\ pause <= MaxGap
                    THEN gap = pause ELSE cycles = 0 /\ good = 0
    /\ good < Needed => cycles <= good + 1
    /\ crying => good <= cycles
    /\ cycles >= Needed => crying /\ cooldown = Cooldown
    /\ crying /\ cycles < Needed => cooldown + since >= Cooldown - 1

\* No single sound and no steady one raises the alarm: between two breaks of
\* the rhythm at least Needed - 1 bursts of the right length, each followed by
\* a breath of the right length, were heard, whatever came before them.
EnoughRhythm == [][~ crying /\ crying' => good' >= Needed - 1]_vars

\* README.md:200: once the rhythm has been confirmed the flag stays up for the
\* cooldown after it broke off; sounds that are no rhythm do not shorten it.
StaysUp == [][crying /\ ~ crying' => since' >= Cooldown]_vars

\* If from some time on no window is cry-positive, the flag drops.
CryingEnds == <>[][~ Window(TRUE)]_vars => []<>(~ crying)

\* What the readers of the flag are promised (CryAlarm): it rises with a
\* cry-positive window only, whatever counts are left over from before, and a
\* quiet window takes exactly one from the cooldown or finds it loaded again.
Alarm == INSTANCE CryAlarm WITH cry <- pause = 0, crying <- crying,
                                held <- cooldown, Cooldown <- Cooldown
ImplementsAlarm == Alarm!Spec
================================================================================
