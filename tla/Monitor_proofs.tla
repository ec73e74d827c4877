----------------------------- MODULE Monitor_proofs -----------------------------
(***************************************************************************)
(* Proofs about Monitor, for channels of any capacity: the level and the   *)
(* verdict ducking_task takes belong together, and the LED is told what    *)
(* the engine does.  The engine is any that keeps the promises of          *)
(* EngineView; DuckingEngine_proofs proves that the real one does.         *)
(***************************************************************************)
EXTENDS Monitor, SequenceTheorems, TLAPS

USE MonitorAssumption DEF MonitorAssumption

\* A full channel keeps what it has; any other ends with what was sent.
LEMMA Sending ==
    ASSUME NEW S, NEW channel \in Seq(S), NEW size \in Nat, NEW item \in S,
           Len(channel) <= size
    PROVE  /\ Sent(channel, size, item) \in Seq(S)
           /\ Len(Sent(channel, size, item)) <= size
           /\ Len(channel) # size =>
                 /\ Sent(channel, size, item) # <<>>
                 /\ Last(Sent(channel, size, item)) = item
  BY DEF Sent, Last

\* Taking the oldest item leaves a shorter channel.
LEMMA Taking ==
    ASSUME NEW S, NEW channel \in Seq(S), channel # <<>>
    PROVE  /\ Tail(channel) \in Seq(S) /\ Head(channel) \in S
           /\ Len(Tail(channel)) = Len(channel) - 1
           /\ Tail(channel) # <<>> => Last(Tail(channel)) = Last(channel)
           /\ Tail(channel) = <<>> => Last(channel) = Head(channel)
  <1>1. Tail(channel) \in Seq(S) /\ Head(channel) \in S
    OBVIOUS
  <1>2. Len(channel) \in Nat \ {0} /\ Len(Tail(channel)) = Len(channel) - 1
    OBVIOUS
  <1>3. ASSUME Tail(channel) # <<>>
        PROVE  Last(Tail(channel)) = Last(channel)
    <2>1. Len(channel) - 1 \in 1..Len(Tail(channel))
      BY <1>1, <1>2, <1>3
    <2>2. Tail(channel)[Len(channel) - 1] = channel[Len(channel)]
      BY <1>2, <2>1
    <2> QED BY <1>2, <2>2 DEF Last
  <1>4. ASSUME Tail(channel) = <<>>
        PROVE  Last(channel) = Head(channel)
    <2>1. Len(Tail(channel)) = 0
      <3>1. Len(<<>>) = 0
        BY EmptySeq
      <3> QED BY <1>4, <3>1, Zenon
    <2>2. PICK n \in Nat : n = Len(channel)
      BY <1>2
    <2>3. 0 = n - 1
      BY <1>2, <2>1, <2>2, Zenon
    <2>4. n = 1
      BY <2>3
    <2>5. Len(channel) = 1
      BY <2>2, <2>4
    <2> QED BY <2>5 DEF Last
  <1> QED BY <1>1, <1>2, <1>3, <1>4

\* What station mode leaves in LED_CHANNEL before the other tasks start.
LEMMA SendingTwice ==
    ASSUME NEW S, NEW size \in Nat \ {0}, NEW one \in S, NEW two \in S
    PROVE  LET both == Sent(<<one>>, size, two)
           IN  /\ both \in Seq(S) /\ Len(both) <= size
               /\ size # 1 => both # <<>> /\ Last(both) = two
  <1>1. <<one>> \in Seq(S) /\ Len(<<one>>) = 1 /\ Len(<<one>>) <= size
    OBVIOUS
  <1>2. CASE size = 1
    <2>1. Sent(<<one>>, size, two) = <<one>>
      BY <1>1, <1>2 DEF Sent
    <2> QED BY <1>1, <1>2, <2>1, Zenon
  <1>3. CASE size # 1
    <2>1. Sent(<<one>>, size, two) = Append(<<one>>, two)
      <3>1. Len(<<one>>) < size
        BY <1>3
      <3> QED BY <3>1, Zenon DEF Sent
    <2>2. PICK first \in Seq(S) : first = <<one>> /\ Len(first) = 1
      BY <1>1
    <2>3. /\ Append(first, two) \in Seq(S) /\ Append(first, two) # <<>>
          /\ Len(Append(first, two)) = 2 /\ Append(first, two)[2] = two
      BY <2>2, AppendProperties
    <2>4. Last(Append(first, two)) = two /\ 2 <= size
      BY <1>3, <2>3 DEF Last
    <2> QED BY <2>1, <2>2, <2>3, <2>4, Zenon
  <1> QED BY <1>2, <1>3

LEMMA PatternType ==
    ASSUME armed \in BOOLEAN, ducking \in BOOLEAN
    PROVE  Pattern \in LedPattern /\ Pattern \in {"Idle", "Armed", "Ducking"}
  BY DEF Pattern, LedPattern

-----------------------------------------------------------------------------
\* The first state: ducking_task has told nothing yet, and what wifi_task told
\* is what an idle engine would show, or the blinking of setup mode.
LEMMA MonitorInit == Init => MonitorInv
  <1> SUFFICES ASSUME Init PROVE MonitorInv
    OBVIOUS
  <1>1. armed = FALSE /\ ducking = FALSE /\ warm = FALSE
    BY DEF Init, Engine!Init
  <1>2. Pattern = "Idle"
    BY <1>1 DEF Pattern
  <1>3. /\ <<"WifiConnecting">> \in Seq(LedPattern) /\ "Idle" \in LedPattern
        /\ Len(<<"WifiConnecting">>) = 1 /\ 1 <= LedSize
    BY DEF LedPattern
  <1> DEFINE both == Sent(<<"WifiConnecting">>, LedSize, "Idle")
  <1>8. /\ both \in Seq(LedPattern) /\ Len(both) <= LedSize
        /\ LedSize # 1 => both # <<>> /\ Last(both) = "Idle"
    BY SendingTwice DEF LedPattern
  <1>4. leds \in Seq(LedPattern) /\ Len(leds) <= LedSize
    BY <1>3, <1>8 DEF Init
  <1>5. LedAgrees
    <2>1. CASE stale = TRUE
      BY <2>1 DEF LedAgrees
    <2>2. CASE leds = Sent(<<"WifiConnecting">>, LedSize, "Idle")
               /\ stale = (LedSize = 1)
      <3>1. ~ stale => leds # <<>> /\ Last(leds) = "Idle"
        BY <1>8, <2>2
      <3> QED BY <1>2, <3>1 DEF LedAgrees, Latest
    <2> QED BY <2>1, <2>2 DEF Init
  <1>6. TypeOK
    <2>1. levels \in Seq(BOOLEAN) /\ Len(levels) <= WindowSize /\ verdicts = levels
      BY DEF Init
    <2>2. stale \in BOOLEAN
      BY DEF Init
    <2>3. shown \in LedPattern /\ held \in 0..Cooldown
      BY DEF Init, LedPattern
    <2> QED BY <1>1, <1>4, <2>1, <2>2, <2>3 DEF Init, TypeOK
  <1>7. Paired /\ Told /\ Cold
    BY <1>1 DEF Init, Paired, Told, Cold
  <1> QED BY <1>5, <1>6, <1>7 DEF MonitorInv

-----------------------------------------------------------------------------
\* audio_task sends two items or, both channels being full, none.
LEMMA CapturePreserves ==
    ASSUME MonitorInv, NEW passed \in Windows, Capture(passed)
    PROVE  MonitorInv'
  <1>1. CryLike(passed) \in BOOLEAN
    BY DEF CryLike
  <1>2. levels' = verdicts' /\ UNCHANGED <<engine, alarm, led, client>>
    BY DEF Capture, MonitorInv, Paired
  <1>3. levels' \in Seq(BOOLEAN) /\ Len(levels') <= WindowSize
    BY <1>1, Sending DEF Capture, MonitorInv, TypeOK
  <1>4. TypeOK'
    BY <1>2, <1>3 DEF MonitorInv, TypeOK, engine, alarm, led, client
  <1>5. LedAgrees' /\ Told' /\ Cold'
    BY <1>2 DEF MonitorInv, LedAgrees, Latest, Pattern, Told, Cold, engine, led
  <1> QED BY <1>2, <1>4, <1>5 DEF MonitorInv, Paired

\* If a tick leaves the pattern as ducking_task last told it, it was that already
\* before the tick: ducking does not come and go unnoticed.
LEMMA TickNotices ==
    ASSUME MonitorInv, Tick, ~ stale, Pattern' = prevLed
    PROVE  Pattern = prevLed
  <1>1. armed' = armed
    BY DEF Tick, Engine!Tick, Engine!TickArmed, Engine!TickDisarmed
  <1>2. CASE ducking
    <2>1. prevLed = "Ducking"
      BY <1>2 DEF MonitorInv, Told
    <2> QED BY <1>2, <2>1 DEF Pattern
  <1>3. CASE ~ ducking /\ ducking'
    <2>1. warm
      BY <1>3 DEF Tick, Engine!Tick, Engine!TickArmed, Engine!TickDisarmed
    <2>2. Pattern' = "Ducking"
      BY <1>3 DEF Pattern
    <2> QED BY <1>3, <2>1, <2>2 DEF MonitorInv, Cold
  <1>4. CASE ~ ducking /\ ~ ducking'
    BY <1>1, <1>4 DEF Pattern
  <1> QED BY <1>2, <1>3, <1>4

\* What a tick does to the engine, the alarm and the channels of audio_task.
LEMMA TickTypes ==
    ASSUME MonitorInv, Tick
    PROVE  /\ armed' \in BOOLEAN /\ ducking' \in BOOLEAN /\ warm' \in BOOLEAN
           /\ crying' \in BOOLEAN /\ held' \in 0..Cooldown
           /\ levels' \in Seq(BOOLEAN) /\ Len(levels') <= WindowSize
           /\ levels' = verdicts'
           /\ event' \in BOOLEAN /\ owed' \in BOOLEAN
  <1>1. armed' \in BOOLEAN /\ ducking' \in BOOLEAN /\ warm' \in BOOLEAN
    BY DEF MonitorInv, TypeOK, Tick, Engine!Tick, Engine!TickArmed,
           Engine!TickDisarmed
  <1>2. Alarm!Window(TakeVerdict)
    BY DEF Tick
  <1>3. crying' \in BOOLEAN
    BY <1>2 DEF MonitorInv, TypeOK, Alarm!Window, Alarm!Rise, Alarm!Renew,
                Alarm!Stay, Alarm!Fall
  <1>4. held' \in 0..Cooldown
    BY <1>2 DEF MonitorInv, TypeOK, Alarm!Window, Alarm!Rise, Alarm!Renew,
                Alarm!Stay, Alarm!Fall
  <1>5. /\ levels # <<>> /\ levels = verdicts
        /\ levels' = Tail(levels) /\ verdicts' = Tail(verdicts)
    BY DEF Tick, MonitorInv, Paired
  <1>6. levels' \in Seq(BOOLEAN) /\ Len(levels') <= WindowSize
    BY <1>5, Taking DEF MonitorInv, TypeOK
  <1>7. event' \in BOOLEAN /\ owed' \in BOOLEAN
    BY <1>3 DEF Tick, Onset, MonitorInv, TypeOK
  <1> QED BY <1>1, <1>3, <1>4, <1>5, <1>6, <1>7

LEMMA TickPreserves ==
    ASSUME MonitorInv, Tick
    PROVE  MonitorInv'
  <1>1. TellLed
    BY DEF Tick
  <1>2. Pattern' \in LedPattern /\ Pattern' \in {"Idle", "Armed", "Ducking"}
    <2>1. armed' \in BOOLEAN /\ ducking' \in BOOLEAN
      BY TickTypes
    <2> QED BY <2>1 DEF Pattern, LedPattern
  <1>3. leds \in Seq(LedPattern) /\ Len(leds) <= LedSize
    BY DEF MonitorInv, TypeOK
  <1>4. leds' \in Seq(LedPattern) /\ Len(leds') <= LedSize
    BY <1>1, <1>2, <1>3, Sending DEF TellLed
  <1>5. TypeOK'
    <2>1. stale' \in BOOLEAN /\ shown' = shown /\ at' = at /\ prevLed' = Pattern'
      BY <1>1 DEF Tick, TellLed, MonitorInv, TypeOK
    <2> QED BY <1>2, <1>4, <2>1, TickTypes DEF MonitorInv, TypeOK
  <1>6. LedAgrees'
    <2> SUFFICES ASSUME ~ stale' PROVE Latest' = Pattern'
      BY DEF LedAgrees
    <2>1. CASE Pattern' # prevLed
      <3>1. leds' = Sent(leds, LedSize, Pattern') /\ Len(leds) # LedSize
        BY <1>1, <2>1 DEF TellLed
      <3>2. leds' # <<>> /\ Last(leds') = Pattern'
        BY <1>2, <1>3, <3>1, Sending
      <3> QED BY <3>2 DEF Latest
    <2>2. CASE Pattern' = prevLed
      <3>1. leds' = leds /\ shown' = shown /\ ~ stale
        BY <1>1, <2>2 DEF TellLed
      <3>2. Pattern = prevLed
        BY <2>2, <3>1, TickNotices
      <3> QED BY <2>2, <3>1, <3>2 DEF MonitorInv, LedAgrees, Latest
    <2> QED BY <2>1, <2>2
  <1>7. Told' /\ Cold'
    <2>1. prevLed' = Pattern'
      BY <1>1 DEF TellLed
    <2>2. prevLed' = "Ducking" <=> ducking'
      BY <2>1 DEF Pattern
    <2> QED BY <2>2 DEF Told, Cold
  <1>8. Paired'
    BY TickTypes DEF Paired
  <1> QED BY <1>5, <1>6, <1>7, <1>8 DEF MonitorInv

-----------------------------------------------------------------------------
\* {"cmd":"arm"}: the LED is right, unless the engine goes on ducking.
LEMMA ArmPreserves ==
    ASSUME MonitorInv, CommandArm
    PROVE  MonitorInv'
  <1>1. /\ armed' = TRUE /\ UNCHANGED <<ducking, warm>>
        /\ leds' = Sent(leds, LedSize, "Armed")
        /\ stale' = (stale \/ ducking \/ Len(leds) = LedSize)
        /\ UNCHANGED <<audio, alarm, shown, prevLed, client>>
    BY DEF CommandArm, Engine!Arm
  <1>2. leds \in Seq(LedPattern) /\ Len(leds) <= LedSize /\ "Armed" \in LedPattern
    BY DEF MonitorInv, TypeOK, LedPattern
  <1>3. leds' \in Seq(LedPattern) /\ Len(leds') <= LedSize
    BY <1>1, <1>2, Sending
  <1>4. TypeOK'
    BY <1>1, <1>3 DEF MonitorInv, TypeOK, audio, alarm, client
  <1>5. LedAgrees'
    <2> SUFFICES ASSUME ~ stale' PROVE Latest' = Pattern'
      BY DEF LedAgrees
    <2>1. ~ ducking' /\ Len(leds) # LedSize
      BY <1>1
    <2>2. Pattern' = "Armed"
      BY <1>1, <2>1 DEF Pattern
    <2>3. leds' # <<>> /\ Last(leds') = "Armed"
      BY <1>1, <1>2, <2>1, Sending
    <2> QED BY <2>2, <2>3 DEF Latest
  <1>6. Paired' /\ Told' /\ Cold'
    BY <1>1 DEF MonitorInv, Paired, Told, Cold, audio
  <1> QED BY <1>4, <1>5, <1>6 DEF MonitorInv

\* {"cmd":"disarm"}: the engine is cold and the LED is told so.
LEMMA DisarmPreserves ==
    ASSUME MonitorInv, CommandDisarm
    PROVE  MonitorInv'
  <1>1. /\ armed' = FALSE /\ ducking' = FALSE /\ warm' = FALSE
        /\ leds' = Sent(leds, LedSize, "Idle")
        /\ stale' = (Len(leds) = LedSize)
        /\ UNCHANGED <<audio, alarm, shown, prevLed, client>>
    BY DEF CommandDisarm, Engine!Disarm
  <1>2. leds \in Seq(LedPattern) /\ Len(leds) <= LedSize /\ "Idle" \in LedPattern
    BY DEF MonitorInv, TypeOK, LedPattern
  <1>3. leds' \in Seq(LedPattern) /\ Len(leds') <= LedSize
    BY <1>1, <1>2, Sending
  <1>4. TypeOK'
    BY <1>1, <1>3 DEF MonitorInv, TypeOK, audio, alarm, client
  <1>5. LedAgrees'
    <2> SUFFICES ASSUME ~ stale' PROVE Latest' = Pattern'
      BY DEF LedAgrees
    <2>1. Pattern' = "Idle"
      BY <1>1 DEF Pattern
    <2>2. Len(leds) # LedSize
      BY <1>1
    <2>3. leds' # <<>> /\ Last(leds') = "Idle"
      BY <1>1, <1>2, <2>2, Sending
    <2> QED BY <2>1, <2>3 DEF Latest
  <1>6. Paired' /\ Told' /\ Cold'
    BY <1>1 DEF MonitorInv, Paired, Told, Cold, audio
  <1> QED BY <1>4, <1>5, <1>6 DEF MonitorInv

\* The LED loop takes one pattern after the other; the last one stays the last.
LEMMA LedLoopPreserves ==
    ASSUME MonitorInv, LedLoop
    PROVE  MonitorInv'
  <1>1. leds \in Seq(LedPattern) /\ Len(leds) <= LedSize /\ leds # <<>>
    BY DEF LedLoop, MonitorInv, TypeOK
  <1>2. /\ leds' \in Seq(LedPattern) /\ shown' \in LedPattern
        /\ Len(leds') <= LedSize
    BY <1>1, Taking DEF LedLoop
  <1>3. Latest' = Latest
    BY <1>1, Taking DEF LedLoop, Latest
  <1>4. UNCHANGED <<audio, engine, alarm, prevLed, stale, client>>
    BY DEF LedLoop
  <1>5. TypeOK'
    BY <1>2, <1>4 DEF MonitorInv, TypeOK, audio, engine, alarm, client
  <1>6. LedAgrees' /\ Paired' /\ Told' /\ Cold'
    BY <1>3, <1>4 DEF MonitorInv, LedAgrees, Pattern, Paired, Told, Cold, audio,
                      engine
  <1> QED BY <1>5, <1>6 DEF MonitorInv

\* A restore reported by tv_task, and a failed credential write, leave the LED
\* behind.
LEMMA OverridePreserves ==
    ASSUME MonitorInv, Clear \/ CredentialError
    PROVE  MonitorInv'
  <1>1. CASE Clear
    <2>1. /\ ducking' = FALSE /\ stale' = (stale \/ ducking)
          /\ UNCHANGED <<armed, warm, audio, alarm, leds, shown, prevLed, client>>
      BY <1>1 DEF Clear, Engine!Clear
    <2>2. TypeOK'
      BY <2>1 DEF MonitorInv, TypeOK, audio, alarm, client
    <2>3. LedAgrees'
      BY <2>1 DEF MonitorInv, LedAgrees, Latest, Pattern
    <2>4. Paired' /\ Told' /\ Cold'
      BY <2>1 DEF MonitorInv, Paired, Told, Cold, audio
    <2> QED BY <2>2, <2>3, <2>4 DEF MonitorInv
  <1>2. CASE CredentialError
    <2>1. leds \in Seq(LedPattern) /\ Len(leds) <= LedSize /\ "Error" \in LedPattern
      BY DEF MonitorInv, TypeOK, LedPattern
    <2>2. leds' \in Seq(LedPattern) /\ Len(leds') <= LedSize
      BY <1>2, <2>1, Sending DEF CredentialError
    <2>3. stale' = TRUE /\ UNCHANGED <<audio, engine, alarm, shown, prevLed, client>>
      BY <1>2 DEF CredentialError
    <2>4. TypeOK'
      BY <2>2, <2>3 DEF MonitorInv, TypeOK, audio, engine, alarm, client
    <2>5. LedAgrees' /\ Paired' /\ Told' /\ Cold'
      BY <2>3 DEF MonitorInv, LedAgrees, Paired, Told, Cold, audio, engine
    <2> QED BY <2>4, <2>5 DEF MonitorInv
  <1> QED BY <1>1, <1>2

\* The other steps of websocket_task concern the client alone.
LEMMA ClientPreserves ==
    ASSUME MonitorInv,
           Accept \/ Leave \/ Broadcast \/ Written \/ CommandLong \/ CommandDone
    PROVE  MonitorInv'
  <1>1. Elsewhere
    BY DEF Accept, Leave, Broadcast, Written, EventWritten, AlertWritten,
           FrameWritten, CommandDone, CommandLong
  <1>2. /\ event' \in BOOLEAN /\ owed' \in BOOLEAN
        /\ at' \in {"accept", "wait", "event", "alert", "frame", "command"}
    BY DEF MonitorInv, TypeOK, Accept, Leave, Broadcast, Written, EventWritten,
           AlertWritten, FrameWritten, CommandDone, CommandLong, Announce
  <1>3. TypeOK'
    BY <1>1, <1>2 DEF MonitorInv, TypeOK, Elsewhere, audio, engine, alarm, led
  <1>4. LedAgrees' /\ Paired' /\ Told' /\ Cold'
    BY <1>1 DEF MonitorInv, LedAgrees, Latest, Pattern, Paired, Told, Cold,
                Elsewhere, audio, engine, led
  <1> QED BY <1>3, <1>4 DEF MonitorInv

LEMMA StepPreserves == MonitorInv /\ [Next]_vars => MonitorInv'
  <1> SUFFICES ASSUME MonitorInv, [Next]_vars PROVE MonitorInv'
    OBVIOUS
  <1>1. CASE UNCHANGED vars
    <2>1. UNCHANGED <<audio, engine, alarm, led, client>>
      BY <1>1 DEF vars
    <2>2. TypeOK'
      BY <2>1 DEF MonitorInv, TypeOK, audio, engine, alarm, led, client
    <2>3. LedAgrees' /\ Paired' /\ Told' /\ Cold'
      BY <2>1 DEF MonitorInv, LedAgrees, Latest, Pattern, Paired, Told, Cold,
                  audio, engine, led
    <2> QED BY <2>2, <2>3 DEF MonitorInv
  <1>2. CASE Next
    BY <1>2, CapturePreserves, TickPreserves, ArmPreserves, DisarmPreserves,
       LedLoopPreserves, OverridePreserves, ClientPreserves DEF Next
  <1> QED BY <1>1, <1>2

-----------------------------------------------------------------------------
\* The invariant holds for channels of any capacity and any cooldown.
THEOREM MonitorCorrect == Spec => []MonitorInv
  BY MonitorInit, StepPreserves, PTL DEF Spec

THEOREM TypeCorrect == Spec => []TypeOK
  <1>1. MonitorInv => TypeOK
    BY DEF MonitorInv
  <1> QED BY <1>1, MonitorCorrect, PTL

\* Dropped windows never pair a level with the verdict on another window.
THEOREM PairedCorrect == Spec => []Paired
  <1>1. MonitorInv => Paired
    BY DEF MonitorInv
  <1> QED BY <1>1, MonitorCorrect, PTL

\* Unless a pattern was dropped or overwritten, the LED shows the engine's state,
\* for every engine that keeps the promises of EngineView.
THEOREM LedCorrect == Spec => []LedAgrees
  <1>1. MonitorInv => LedAgrees
    BY DEF MonitorInv
  <1> QED BY <1>1, MonitorCorrect, PTL

\* An alert owed to a client waits in the channel or is being written.  A round
\* of ducking_task that makes an alert owed fills the channel, and what empties it
\* is followed by the write.
THEOREM AlertsKept == Spec => []AlertKept
  <1>1. Init => AlertKept
    BY DEF Init, AlertKept
  <1>2. TypeOK /\ TypeOK' /\ AlertKept /\ [Next]_vars => AlertKept'
    <2> SUFFICES ASSUME TypeOK, TypeOK', AlertKept, [Next]_vars PROVE AlertKept'
      OBVIOUS
    <2> event \in BOOLEAN /\ event' \in BOOLEAN /\ owed \in BOOLEAN /\ owed' \in BOOLEAN
      BY DEF TypeOK
    <2>1. ASSUME UNCHANGED client PROVE AlertKept'
      BY <2>1 DEF AlertKept, client
    <2>2. CASE Tick
      <3>1. owed' => owed \/ Onset
        BY <2>2 DEF Tick
      <3>2. event' = (event \/ Onset) /\ at' = at
        BY <2>2 DEF Tick
      <3> QED BY <3>1, <3>2 DEF AlertKept
    <2>3. CASE Accept \/ CommandLong \/ CommandDone
      BY <2>3 DEF Accept, CommandLong, CommandDone, AlertKept
    <2>4. CASE Leave
      BY <2>4 DEF Leave, AlertKept
    <2>5. ASSUME Announce, at # "alert" PROVE AlertKept'
      BY <2>5 DEF Announce, AlertKept
    <2>6. CASE Broadcast
      <3>1. at = "wait" /\ at # "alert"
        BY <2>6 DEF Broadcast
      <3>2. CASE at' = "event" /\ UNCHANGED <<event, owed>>
        BY <3>1, <3>2 DEF AlertKept
      <3> QED BY <2>5, <2>6, <3>1, <3>2 DEF Broadcast
    <2>7. CASE EventWritten \/ AlertWritten \/ FrameWritten
      <3>1. CASE EventWritten
        BY <2>5, <3>1 DEF EventWritten
      <3>2. CASE AlertWritten
        BY <3>2 DEF AlertWritten, AlertKept
      <3>3. CASE FrameWritten
        BY <3>3 DEF FrameWritten, AlertKept
      <3> QED BY <2>7, <3>1, <3>2, <3>3
    <2>8. CASE (\E passed \in Windows : Capture(passed)) \/ Clear \/ LedLoop
               \/ CredentialError \/ CommandArm \/ CommandDisarm
               \/ UNCHANGED vars
      BY <2>1, <2>8 DEF Capture, Clear, LedLoop, CredentialError, CommandArm,
                        CommandDisarm, vars
    <2> QED BY <2>2, <2>3, <2>4, <2>6, <2>7, <2>8 DEF Next, Written
  <1> QED BY <1>1, <1>2, TypeCorrect, PTL DEF Spec
================================================================================
