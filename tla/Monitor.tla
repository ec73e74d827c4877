-------------------------------- MODULE Monitor --------------------------------
(***************************************************************************)
(* How what the microphone hears reaches the parent: audio_task measures a *)
(* window and judges it (firmware-rs/src/audio.rs), ducking_task takes     *)
(* both and ticks the engine and the cry tracker (ducking.rs), the LED     *)
(* loop of wifi_task shows the engine's state (net.rs) and websocket_task  *)
(* tells the connected client of a baby cry (ws.rs).  The tasks share      *)
(* nothing but bounded channels, every send is a try_send, and each task   *)
(* is split at its awaits.                                                 *)
(*                                                                         *)
(* The engine and the cry tracker are taken at the level of what they      *)
(* promise, EngineView and CryAlarm; DuckingEngine and CryTracker          *)
(* implement those.                                                        *)
(***************************************************************************)
EXTENDS Naturals, Sequences, SequencesExt

CONSTANTS
    WindowSize,   \* the capacity of DB_CHANNEL and of CRY_CHANNEL
    LedSize,      \* the capacity of LED_CHANNEL
    Cooldown      \* cooldown_windows when crying is confirmed

ASSUME MonitorAssumption ==
    WindowSize \in Nat \ {0} /\ LedSize \in Nat \ {0} /\ Cooldown \in Nat

VARIABLES
    levels,     \* DB_CHANNEL; of a level it only matters which window it is of,
                \* and that is told by the verdict on the same window
    verdicts,   \* CRY_CHANNEL
    armed, ducking, warm,
    crying, held,
    leds,       \* LED_CHANNEL
    shown,      \* current_pattern of the LED loop
    prevLed,    \* prev_led of ducking_task
    stale,      \* history: the LED was told something else than the state of the
                \* engine, or not told of it, since ducking_task last told it
    event,      \* CRY_EVENT_CH is full
    at,         \* where websocket_task waits
    owed        \* history: a client has stayed connected since an alert was
                \* raised, and was not told of it

audio == <<levels, verdicts>>
engine == <<armed, ducking, warm>>
alarm == <<crying, held>>
led == <<leds, shown, prevLed, stale>>
client == <<event, at, owed>>
vars == <<audio, engine, alarm, led, client>>

Engine == INSTANCE EngineView
          WITH armed <- armed, ducking <- ducking, warm <- warm

\* Only the windows of the alarm are used, not its memory of the last verdict.
Alarm == INSTANCE CryAlarm WITH cry <- FALSE, crying <- crying, held <- held,
                                Cooldown <- Cooldown

LedPattern == {"WifiConnecting", "Idle", "Armed", "Ducking", "Error"}

-----------------------------------------------------------------------------
\* audio_task: one window of 1600 samples.

\* evaluate_cry: a window is cry-like if it passes every check.
Checks == {"f0 power", "harmonic", "zero crossings", "tonal energy", "peak"}
Windows == {Checks} \cup {Checks \ {failed} : failed \in Checks}
CryLike(passed) == passed = Checks

\* try_send into a channel of the given capacity.
SentTooOften(channel, size, item) ==
    IF Len(channel) <= size THEN Append(channel, item) ELSE channel
Sent(channel, size, item) ==
    IF Len(channel) < size THEN Append(channel, item) ELSE channel

\* Every window sends its level and its verdict, without an await in between.
CaptureOfCries(passed) ==
    /\ levels' = Sent(levels, WindowSize, CryLike(passed))
    /\ verdicts' = IF "f0 power" \in passed
                   THEN Sent(verdicts, WindowSize, CryLike(passed)) ELSE verdicts
    /\ UNCHANGED <<engine, alarm, led, client>>
Capture(passed) ==
    /\ levels' = Sent(levels, WindowSize, CryLike(passed))
    /\ verdicts' = Sent(verdicts, WindowSize, CryLike(passed))
    /\ UNCHANGED <<engine, alarm, led, client>>

-----------------------------------------------------------------------------
\* ducking_task: one round, which never waits after it has got a level.

\* The verdict that goes with it, unwrap_or(false).
TakeVerdict ==
    IF verdicts = <<>> THEN FALSE ELSE Head(verdicts)

Pattern == IF ducking THEN "Ducking" ELSE IF armed THEN "Armed" ELSE "Idle"

\* The LED is told of a change only.
TellLed ==
    /\ leds' = IF Pattern' # prevLed THEN Sent(leds, LedSize, Pattern') ELSE leds
    /\ stale' = IF Pattern' # prevLed THEN Len(leds) = LedSize ELSE stale
    /\ prevLed' = Pattern'
    /\ UNCHANGED shown

\* CryTracker::tick returns true when the flag goes up.
Onset == ~ crying /\ crying'

Tick ==
    /\ levels # <<>>
    /\ levels' = Tail(levels)
    /\ verdicts' = IF verdicts = <<>> THEN <<>> ELSE Tail(verdicts)
    /\ Engine!Tick /\ Alarm!Window(TakeVerdict)
    /\ TellLed
    /\ event' = (event \/ Onset)
    /\ owed' = (owed \/ (Onset /\ at # "accept"))
    /\ UNCHANGED at

\* tv_task has brought the volume back.
Clear ==
    /\ Engine!Clear
    /\ stale' = (stale \/ ducking)
    /\ UNCHANGED <<audio, alarm, leds, shown, prevLed, client>>

-----------------------------------------------------------------------------
\* wifi_task: the LED loop, and a credential write that failed.

LedLoop ==
    /\ leds # <<>>
    /\ shown' = Head(leds) /\ leds' = Tail(leds)
    /\ UNCHANGED <<audio, engine, alarm, prevLed, stale, client>>

CredentialError ==
    /\ leds' = Sent(leds, LedSize, "Error")
    /\ stale' = TRUE
    /\ UNCHANGED <<audio, engine, alarm, shown, prevLed, client>>

-----------------------------------------------------------------------------
\* websocket_task: one client at a time.

Elsewhere == UNCHANGED <<audio, engine, alarm, led>>

\* accept and the WebSocket handshake.
Accept ==
    /\ at = "accept"
    /\ at' = "wait"
    /\ Elsewhere /\ UNCHANGED <<event, owed>>

\* The client goes, or a write fails: whatever was taken from a channel is gone.
Leave ==
    /\ at \in {"wait", "event", "alert", "frame"}
    /\ at' = "accept" /\ owed' = FALSE
    /\ Elsewhere /\ UNCHANGED event

\* After the Wi-Fi events the cry event is taken, then telemetry is written.
AnnounceWhileCrying ==
    /\ at' = IF event /\ crying THEN "alert" ELSE "frame"
    /\ event' = FALSE /\ UNCHANGED owed
Announce ==
    /\ at' = IF event THEN "alert" ELSE "frame"
    /\ event' = FALSE /\ UNCHANGED owed

\* New telemetry, or 500 ms without any.
Broadcast ==
    /\ at = "wait"
    /\ \/ at' = "event" /\ UNCHANGED <<event, owed>>
       \/ Announce
    /\ Elsewhere

EventWritten == at = "event" /\ Announce /\ Elsewhere

AlertWritten ==
    /\ at = "alert"
    /\ at' = "frame" /\ owed' = event
    /\ Elsewhere /\ UNCHANGED event

FrameWritten ==
    /\ at = "frame"
    /\ at' = "wait"
    /\ Elsewhere /\ UNCHANGED <<event, owed>>

\* {"cmd":"arm"} and {"cmd":"disarm"} tell the LED themselves.
CommandArm ==
    /\ at = "wait"
    /\ Engine!Arm
    /\ leds' = Sent(leds, LedSize, "Armed")
    /\ stale' = (stale \/ ducking \/ Len(leds) = LedSize)
    /\ UNCHANGED <<audio, alarm, shown, prevLed, client>>

CommandDisarm ==
    /\ at = "wait"
    /\ Engine!Disarm
    /\ leds' = Sent(leds, LedSize, "Idle")
    /\ stale' = (Len(leds) = LedSize)
    /\ UNCHANGED <<audio, alarm, shown, prevLed, client>>

\* A command that waits before it is done: a write, a search for TVs, room in a
\* full WIFI_CMD_CH, a check for updates whose requests have no timeout.
CommandLong ==
    /\ at = "wait"
    /\ at' = "command"
    /\ Elsewhere /\ UNCHANGED <<event, owed>>

\* Its writes ignore errors; a client that has gone is noticed by the next read.
CommandDone ==
    /\ at = "command"
    /\ at' = "wait"
    /\ Elsewhere /\ UNCHANGED <<event, owed>>

-----------------------------------------------------------------------------
\* wifi_task tells the LED of the network before it starts the other tasks; in
\* setup mode the LED is left blinking.
Init ==
    /\ levels = <<>> /\ verdicts = <<>>
    /\ Engine!Init
    /\ crying = FALSE /\ held = 0
    /\ \/ leds = <<"WifiConnecting">> /\ stale = TRUE
       \/ leds = Sent(<<"WifiConnecting">>, LedSize, "Idle") /\ stale = (LedSize = 1)
    /\ shown = "Idle" /\ prevLed = "Idle"
    /\ event = FALSE /\ at = "accept" /\ owed = FALSE

Written == EventWritten \/ AlertWritten \/ FrameWritten

Next ==
    \/ \E passed \in Windows : Capture(passed)
    \/ Tick \/ Clear
    \/ LedLoop \/ CredentialError
    \/ Accept \/ Leave \/ Broadcast \/ Written
    \/ CommandArm \/ CommandDisarm \/ CommandLong \/ CommandDone

Spec == Init /\ [][Next]_vars

\* The microphone does not stop and the tasks run.  A write ends, if only by the
\* socket's timeout of 60 s, and telemetry comes before the next command: select
\* polls it first.  That a command ends is not assumed: an update check has no
\* timeout, and a full WIFI_CMD_CH may wait for a download, which has none either.
FairSpec ==
    /\ Spec
    /\ WF_vars(\E passed \in Windows : Capture(passed)) /\ WF_vars(Tick)
    /\ WF_vars(Written \/ (at \in {"event", "alert", "frame"} /\ Leave))
    /\ SF_vars(Broadcast) /\ WF_vars(LedLoop)

-----------------------------------------------------------------------------
TypeOK ==
    /\ levels \in Seq(BOOLEAN) /\ Len(levels) <= WindowSize
    /\ verdicts \in Seq(BOOLEAN) /\ Len(verdicts) <= WindowSize
    /\ armed \in BOOLEAN /\ ducking \in BOOLEAN /\ warm \in BOOLEAN
    /\ crying \in BOOLEAN /\ held \in 0..Cooldown
    /\ leds \in Seq(LedPattern) /\ Len(leds) <= LedSize
    /\ shown \in LedPattern /\ prevLed \in {"Idle", "Armed", "Ducking"}
    /\ stale \in BOOLEAN
    /\ event \in BOOLEAN /\ owed \in BOOLEAN
    /\ at \in {"accept", "wait", "event", "alert", "frame", "command"}

\* ducking_task judges the level and the cry of the same window, also after the
\* channels were full and windows were dropped: nothing in the code ties the two
\* channels together but the order of the calls in audio_task.
Paired == levels = verdicts

\* The LED has been told, or is about to show, what the engine does, although
\* three tasks write to it and ducking_task compares with what it wrote itself:
\* as long as no pattern was dropped or overwritten since its last change.
Latest == IF leds = <<>> THEN shown ELSE Last(leds)
LedAgrees == ~ stale => Latest = Pattern

\* Why it stays so.  Ducking always was told by ducking_task, and when it has
\* ended unnoticed by it, it does not start again before the next tick.
Told == ducking => prevLed = "Ducking"
Cold == ~ stale /\ prevLed = "Ducking" /\ ~ ducking => ~ warm

\* The inductive invariant.
MonitorInv == TypeOK /\ Paired /\ LedAgrees /\ Told /\ Cold

\* An alert owed to a client is still on its way to it: it waits in the channel or
\* is the write in progress, although the channel holds one alert only, is emptied
\* before that write, and may be full of an alert for a client that has gone.
AlertKept == owed => event \/ at = "alert"

\* A client that stays connected is told of every alert, whatever else it is
\* being told when it is raised: an alert is not owed for ever, unless new ones
\* keep being raised while the one before is written, or a command never ends.
AlertsArrive ==
    []<>(at # "command") => []<>(~ owed) \/ []<><<AlertWritten>>_vars
================================================================================
