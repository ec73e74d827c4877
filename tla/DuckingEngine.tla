----------------------------- MODULE DuckingEngine -----------------------------
(***************************************************************************)
(* The ducking state machine of firmware-rs/src/ducking.rs: struct         *)
(* DuckingEngine and its methods.  ducking_task calls tick once per audio  *)
(* window, the WebSocket task calls arm, disarm and the setters, wifi_task *)
(* loads a stored calibration at boot and tv_task reports back with        *)
(* set_original_volume and clear_duck_state.  Every method runs under the  *)
(* engine's mutex and never awaits, so each is one action here.            *)
(*                                                                         *)
(* Sound levels are whole decibels.  sustained_ms, the intervals and the   *)
(* hold are kept in one time unit that the constants choose; the firmware  *)
(* has Up = 100, Down = 50, Detect = 3000, Hold = 30000 and MaxSustained = *)
(* u32::MAX, and the checked instances scale them down together.           *)
(***************************************************************************)
EXTENDS Integers

CONSTANTS
    None,              \* Option::None
    Reading,           \* dB levels of the audio windows
    Setting,           \* dB levels calibration and the threshold slider send
    Volume,            \* TV volumes tv_task can report
    Elapsed,           \* time between two consecutive ticks
    Up,                \* growth of sustained_ms in a window over the tripwire
    Down,              \* its decay in any other window
    Detect,            \* sustained_ms at which ducking starts
    MaxSustained,      \* where saturating_add stops
    CrisisInterval,    \* VolumeDown spacing, more than 15 dB over the tripwire
    StandardInterval,  \* VolumeDown spacing in between
    GentleInterval,    \* VolumeDown spacing, less than 5 dB over the tripwire
    Hold,              \* RESTORE_HOLD_SECS
    MaxSteps           \* MAX_DUCK_STEPS

ASSUME EngineAssumption ==
    /\ None \notin Int
    /\ Reading \subseteq Int
    /\ Setting \subseteq Int
    /\ Volume \subseteq Nat
    /\ Elapsed \subseteq Nat
    /\ Up \in Nat /\ Down \in Nat
    /\ Detect \in Nat \ {0}
    /\ MaxSustained \in Nat /\ MaxSustained >= Detect
    /\ CrisisInterval \in Nat /\ StandardInterval \in Nat
    /\ GentleInterval \in Nat
    /\ Hold \in Nat
    /\ CrisisInterval <= Hold /\ StandardInterval <= Hold
    /\ GentleInterval <= Hold
    /\ MaxSteps \in Nat \ {0}

\* One loud window is not enough to duck; only ImplementsView needs it.
OneWindowIsNotEnough == Up < Detect

VARIABLES
    tripwire,    \* tripwire_db
    floor,       \* floor_db
    armed,
    sustained,   \* sustained_ms
    state,       \* DuckingState
    lastDuck,    \* time since last_duck_at, None, or at least Hold (capped)
    steps,       \* duck_steps_taken
    original,    \* original_volume
    out,         \* the command the latest method call returned
    heard,       \* history: time over the tripwire since sustained_ms was last
                 \* spent by a restore or a disarm, capped at Detect
    sinceDown    \* history: time since a VolumeDown was last returned, capped
                 \* at Hold

settings == <<tripwire, floor>>
session == <<lastDuck, steps, original>>
vars == <<tripwire, floor, armed, sustained, state, lastDuck, steps, original,
          out, heard, sinceDown>>

DuckingState == {"Quiet", "Watching", "Ducking", "Restoring"}

NoCommand == [kind |-> "None"]
VolumeDown == [kind |-> "VolumeDown"]
RestoreOf(v, n) == [kind |-> "Restore", original_volume |-> v, steps |-> n]
DuckCommand ==
    {NoCommand, VolumeDown}
        \cup {RestoreOf(v, n) : v \in Volume \cup {None}, n \in 0..MaxSteps}

\* A tick or a disarm that asks for the volume to be brought back.
Restores == out.kind = "Restore"

Capped(x, top) == IF x > top THEN top ELSE x

----------------------------------------------------------------------------
(* Setters.  A stored or calibrated floor is always applied before the     *)
(* tripwire that goes with it, so set_floor's own bump of the tripwire is  *)
(* overwritten by the set_tripwire that follows in the same lock.          *)

DeadMic == -80
DefaultFloor == -60

\* The floor set_floor stores.
FloorFor(db) == IF db < DeadMic THEN DefaultFloor ELSE db

\* The tripwire set_tripwire stores over the floor f.
UnclampedTripwireFor(f, db) == db
TripwireFor(f, db) == IF db < f + 6 THEN f + 6 ELSE db

Calibrate(f, t) ==
    /\ floor' = FloorFor(f)
    /\ tripwire' = TripwireFor(FloorFor(f), t)
    /\ out' = NoCommand
    /\ UNCHANGED <<armed, sustained, state, session, heard, sinceDown>>

\* {"cmd":"calibrate_silence"} and wifi_task's load of a stored calibration.
CalibrateSilence(db) == Calibrate(db, db + 6)
LoadCalibration(f, t) == Calibrate(f, t)

\* {"cmd":"threshold"} with the slider's value; calibrate_max with db - 3.
SetTripwire(db) ==
    /\ tripwire' = TripwireFor(floor, db)
    /\ out' = NoCommand
    /\ UNCHANGED <<floor, armed, sustained, state, session, heard, sinceDown>>

----------------------------------------------------------------------------
(* tick, split at its early returns.  db is the window's level and e the   *)
(* time since the previous tick.                                           *)

Excess(db) == db - tripwire
Loud(db) == db > tripwire
NearSilent(db) == db < floor + 2

\* sustained_ms after this window's accumulate / decay.
WrappingAccumulated(db) == IF Loud(db) THEN sustained + Up ELSE sustained - Down
NeverDecaying(db) ==
    IF Loud(db) THEN Capped(sustained + Up, MaxSustained) ELSE sustained
Accumulated(db) ==
    IF Loud(db) THEN Capped(sustained + Up, MaxSustained)
    ELSE IF sustained > Down THEN sustained - Down ELSE 0

\* duration_since(last_duck_at) at a tick e after the previous one.
Age(e) == IF lastDuck = None THEN None ELSE Capped(lastDuck + e, Hold)

HoldSkipped(e) == Age(e) # None => Age(e) >= GentleInterval
HoldElapsed(e) == Age(e) # None => Age(e) >= Hold

Interval(db) ==
    IF Excess(db) > 15 THEN CrisisInterval
    ELSE IF Excess(db) < 5 THEN GentleInterval ELSE StandardInterval

DuckDue(db, e) == Age(e) # None => Age(e) >= Interval(db)

\* The two restore paths of a tick in state Ducking.
PathA(db) == state = "Ducking" /\ NearSilent(db)
PathB(db, e) ==
    /\ state = "Ducking" /\ ~ NearSilent(db)
    /\ Accumulated(db) = 0
    /\ HoldElapsed(e)

\* sustained_ms has reached the trigger and no restore is running.
Triggered(db, e) ==
    /\ ~ PathA(db) /\ ~ PathB(db, e)
    /\ Accumulated(db) >= Detect
    /\ state # "Restoring"

\* History variables over a tick that is not a restore.
Heard(db) == heard' = IF Loud(db) THEN Capped(heard + Up, Detect) ELSE heard
Ages(e) == sinceDown' = Capped(sinceDown + e, Hold)

\* A reading that is not finite is ignored; only time has passed.
TickNotFinite(e) ==
    /\ lastDuck' = Age(e)
    /\ Ages(e)
    /\ out' = NoCommand
    /\ UNCHANGED <<settings, armed, sustained, state, steps, original, heard>>

TickDisarmed(e) ==
    /\ ~ armed
    /\ sustained' = 0
    /\ state' = "Quiet"
    /\ lastDuck' = Age(e)
    /\ heard' = 0
    /\ Ages(e)
    /\ out' = NoCommand
    /\ UNCHANGED <<settings, armed, steps, original>>

\* sustained_ms when Path A returns: reset, although the window may not have
\* decayed it to zero.
KeptByPathA(db) == Accumulated(db)
SpentByPathA(db) == 0

TickRestore(db, e) ==
    /\ armed
    /\ PathA(db) \/ PathB(db, e)
    /\ sustained' = IF PathA(db) THEN SpentByPathA(db) ELSE Accumulated(db)
    /\ state' = "Restoring"
    /\ lastDuck' = Age(e)
    /\ heard' = 0
    /\ Ages(e)
    /\ out' = RestoreOf(original, steps)
    /\ UNCHANGED <<settings, armed, steps, original>>

\* A step is due and fewer than MAX_DUCK_STEPS were taken.
StepUncapped == TRUE
StepAllowed == steps < MaxSteps

TickVolumeDown(db, e) ==
    /\ armed
    /\ Triggered(db, e) /\ DuckDue(db, e) /\ StepAllowed
    /\ sustained' = Accumulated(db)
    /\ state' = "Ducking"
    /\ lastDuck' = 0
    /\ steps' = steps + 1
    /\ Heard(db)
    /\ sinceDown' = 0
    /\ out' = VolumeDown
    /\ UNCHANGED <<settings, armed, original>>

\* Ducking goes on without a command: the interval has not elapsed, or the
\* steps are used up (then last_duck_at still moves).
TickDucking(db, e) ==
    /\ armed
    /\ Triggered(db, e) /\ ~ (DuckDue(db, e) /\ StepAllowed)
    /\ sustained' = Accumulated(db)
    /\ state' = "Ducking"
    /\ lastDuck' = IF DuckDue(db, e) THEN 0 ELSE Age(e)
    /\ Heard(db)
    /\ Ages(e)
    /\ out' = NoCommand
    /\ UNCHANGED <<settings, armed, steps, original>>

\* Neither a restore nor the trigger: Quiet and Watching follow sustained_ms.
TickIdle(db, e) ==
    /\ armed
    /\ ~ PathA(db) /\ ~ PathB(db, e) /\ ~ Triggered(db, e)
    /\ sustained' = Accumulated(db)
    /\ state' = IF state \in {"Ducking", "Restoring"} THEN state
                ELSE IF Accumulated(db) > 0 THEN "Watching" ELSE "Quiet"
    /\ lastDuck' = Age(e)
    /\ Heard(db)
    /\ Ages(e)
    /\ out' = NoCommand
    /\ UNCHANGED <<settings, armed, steps, original>>

Tick(db, e) ==
    \/ TickDisarmed(e)
    \/ TickRestore(db, e)
    \/ TickVolumeDown(db, e)
    \/ TickDucking(db, e)
    \/ TickIdle(db, e)

----------------------------------------------------------------------------
(* Calls of the other tasks.                                               *)

Arm ==
    /\ armed' = TRUE
    /\ out' = NoCommand
    /\ UNCHANGED <<settings, sustained, state, session, heard, sinceDown>>

\* The fields clear_duck_state resets.
ClearedButSteps ==
    /\ state' = "Quiet"
    /\ lastDuck' = None
    /\ original' = None
    /\ UNCHANGED steps
Cleared ==
    /\ state' = "Quiet"
    /\ lastDuck' = None
    /\ original' = None
    /\ steps' = 0

\* disarm forgets the noise heard so far.
KeptByDisarm == sustained
SpentByDisarm == 0

Disarm ==
    /\ out' = IF state = "Ducking" THEN RestoreOf(original, steps) ELSE NoCommand
    /\ armed' = FALSE
    /\ sustained' = SpentByDisarm
    /\ Cleared
    /\ heard' = 0
    /\ UNCHANGED <<settings, sinceDown>>

\* tv_task calls this after a restore; a late answer may come in any state.
ClearDuckState ==
    /\ Cleared
    /\ out' = NoCommand
    /\ UNCHANGED <<settings, armed, sustained, heard, sinceDown>>

\* Only the first volume of a session is kept.
SetOriginalVolume(v) ==
    /\ original' = IF original = None THEN v ELSE original
    /\ out' = NoCommand
    /\ UNCHANGED <<settings, armed, sustained, state, lastDuck, steps, heard,
                   sinceDown>>

----------------------------------------------------------------------------

Init ==
    /\ tripwire = -20 /\ floor = DefaultFloor
    /\ armed = FALSE
    /\ sustained = 0
    /\ state = "Quiet"
    /\ lastDuck = None /\ steps = 0 /\ original = None
    /\ out = NoCommand
    /\ heard = 0
    /\ sinceDown = Hold

SomeTick == \E db \in Reading, e \in Elapsed : Tick(db, e)

Next ==
    \/ SomeTick
    \/ \E e \in Elapsed : TickNotFinite(e)
    \/ \E db \in Setting : CalibrateSilence(db) \/ SetTripwire(db)
    \/ \E f, t \in Setting : LoadCalibration(f, t)
    \/ Arm \/ Disarm \/ ClearDuckState
    \/ \E v \in Volume : SetOriginalVolume(v)

Spec == Init /\ [][Next]_vars

\* audio_task delivers a window every 100 ms and ducking_task waits for
\* nothing else, so ticks go on and time passes between them.
FairSpec ==
    Spec /\ WF_vars(\E db \in Reading, e \in Elapsed \ {0} : Tick(db, e))

----------------------------------------------------------------------------

TypeOK ==
    /\ tripwire \in Int /\ floor \in Int
    /\ armed \in BOOLEAN
    /\ sustained \in 0..MaxSustained
    /\ state \in DuckingState
    /\ lastDuck \in (0..Hold) \cup {None}
    /\ steps \in 0..MaxSteps
    /\ original \in Volume \cup {None}
    /\ out \in DuckCommand
    /\ heard \in 0..Detect
    /\ sinceDown \in 0..Hold

\* Whatever order calibrations, stored settings and slider moves come in, the
\* tripwire stays at least 6 dB above the floor (set_floor, set_tripwire).
TripwireGap == tripwire >= floor + 6

\* A Restore always has something to undo and never asks for more steps than
\* the cap: tick and disarm only return one in state Ducking, which is entered
\* by taking a step and left by whatever resets the steps.
RestoreIsOwed == Restores => out.steps \in 1..MaxSteps

\* While disarmed no session is open: whatever tv_task reports meanwhile, the
\* next arm starts with no steps taken and no hold running.
DisarmedIsClean ==
    ~ armed => state = "Quiet" /\ steps = 0 /\ lastDuck = None /\ sustained = 0

\* The inductive invariant the proofs rest on: a session under way has taken a
\* step and remembers when, last_duck_at is never older than the last step, and
\* noise still counted in sustained_ms was heard since it was last spent.
EngineInv ==
    /\ TypeOK /\ TripwireGap /\ RestoreIsOwed /\ DisarmedIsClean
    /\ state \in {"Ducking", "Restoring"} => lastDuck # None
    /\ lastDuck # None => lastDuck <= sinceDown /\ steps >= 1
    /\ heard < Detect => sustained <= heard

\* Between a restore or a disarm and the next VolumeDown the room has been over
\* the tripwire for the detection time again, although a restore leaves
\* state Ducking with windows already accumulated ("filters brief sounds").
DetectionDelay == [][out' = VolumeDown => heard' >= Detect]_vars

\* The only restore of a room that is not near-silent is Path B's, and it never
\* comes sooner than RESTORE_HOLD_SECS after the last VolumeDown: the branch of
\* tick that restores with no last_duck_at is never the reason.
HoldBeforeRestore ==
    [][\A db \in Reading, e \in Elapsed :
          TickRestore(db, e) /\ ~ NearSilent(db) => sinceDown' >= Hold]_vars

\* If from some time on no window is over the tripwire, ducking ends: the
\* accumulated noise decays, the hold elapses and the volume is restored.
LoudWindow ==
    armed /\ \E db \in Reading, e \in Elapsed : Loud(db) /\ Tick(db, e)
QuietRoomRestores == <>[][~ LoudWindow]_vars => []<>(state # "Ducking")

\* What the LED and the clients are promised (EngineView), who see only whether
\* the engine is armed and ducking: after any history of restores, late answers
\* of tv_task and settings, ducking never starts from a cold sustained_ms.
View == INSTANCE EngineView
        WITH armed <- armed, ducking <- state = "Ducking", warm <- sustained > 0
ImplementsView == View!Spec
================================================================================
