----------------------------- MODULE DuckingSystem -----------------------------
(***************************************************************************)
(* The path from a decision of the ducking engine to the TV: ducking_task  *)
(* and the WebSocket commands (firmware-rs/src/ducking.rs, ws.rs) push     *)
(* commands into DUCK_CHANNEL without waiting, tv_task (tv.rs) takes them  *)
(* out one at a time and talks to the TV.                                  *)
(*                                                                         *)
(* Embassy tasks switch only at an await, so tv_task is split exactly      *)
(* there: waiting for a command, opening the per-command connection of the *)
(* HTTP brands, waiting for the answer to a volume query, to a key press   *)
(* and to each step of a restore ramp.  Everything the other tasks do can  *)
(* happen in between.  The engine is a full DuckingEngine; the levels it   *)
(* was calibrated to do not change here.                                   *)
(***************************************************************************)
EXTENDS Integers, Sequences

CONSTANTS
    None, Reading, Setting, Elapsed, Up, Down, Detect, MaxSustained,
    CrisisInterval, StandardInterval, GentleInterval, Hold, MaxSteps,
    Brand,        \* the TvBrands to consider
    TopVolume,    \* the TV's loudest setting
    HomeVolume,   \* the volumes the viewer may start from
    Capacity,     \* the capacity of DUCK_CHANNEL
    Manual        \* how many vol_up / vol_down test presses a client sends

Volume == 0..TopVolume

VARIABLES
    tripwire, floor, armed, sustained, state, lastDuck, steps, original, out,
    heard, sinceDown,
    brand,      \* the configured TV's brand
    queue,      \* DUCK_CHANNEL
    phase,      \* where tv_task is suspended
    job,        \* the command it is executing, NoCommand between commands
    left,       \* ramp steps that are still to do
    tv,         \* the TV's volume
    presses,    \* test presses sent so far
    home,       \* history: the volume the viewer asked for
    clean,      \* history: no command was dropped or failed
    ignored,    \* history: a key pressed at an end of the scale had no effect
    lost        \* history: a Restore was dropped without being tried

engine == <<tripwire, floor, armed, sustained, state, lastDuck, steps,
            original, out, heard, sinceDown>>
task == <<phase, job, left>>
vars == <<engine, brand, queue, task, tv, presses, home, clean, ignored, lost>>

Engine == INSTANCE DuckingEngine

ASSUME SystemAssumption ==
    /\ Engine!EngineAssumption
    /\ Brand \subseteq {"Lg", "Samsung", "Sony", "Roku"}
    /\ TopVolume \in Nat /\ HomeVolume \subseteq 0..TopVolume
    /\ Capacity \in Nat \ {0} /\ Manual \in Nat

\* TvBrand::supports_absolute_volume and uses_websocket.
Absolute == brand \in {"Lg", "Sony"}
WebSocket == brand \in {"Lg", "Samsung"}

NoCommand == Engine!NoCommand
VolumeDown == Engine!VolumeDown
VolumeUp == [kind |-> "VolumeUp"]
Command == (Engine!DuckCommand \ {NoCommand}) \cup {VolumeUp}

Phase == {"off", "ready", "connect", "query", "press", "ramp"}

----------------------------------------------------------------------------
(* The sending side.                                                       *)

\* send_duck_command: try_send, a command that finds the channel full is gone.
OneTooMany == Len(queue) <= Capacity
HasRoom == Len(queue) < Capacity
Send(cmd) ==
    IF cmd = NoCommand THEN UNCHANGED <<queue, clean, lost>>
    ELSE IF HasRoom
         THEN queue' = Append(queue, cmd) /\ UNCHANGED <<clean, lost>>
         ELSE /\ clean' = FALSE
              /\ lost' = (lost \/ cmd.kind = "Restore")
              /\ UNCHANGED queue

\* One round of ducking_task: tick under the lock, then dispatch.
DuckingTask(db, e) ==
    /\ Engine!Tick(db, e)
    /\ Send(out')
    /\ UNCHANGED <<brand, task, tv, presses, home, ignored>>

\* {"cmd":"arm"} and {"cmd":"disarm"}.
WsArm ==
    /\ Engine!Arm
    /\ UNCHANGED <<brand, queue, task, tv, presses, home, clean, ignored, lost>>

WsDisarm ==
    /\ Engine!Disarm
    /\ Send(out')
    /\ UNCHANGED <<brand, task, tv, presses, home, ignored>>

\* {"cmd":"vol_up"} and {"cmd":"vol_down"}: the viewer asks for another volume,
\* through the same channel and the same command the engine uses.
WsVolume(cmd) ==
    /\ presses < Manual
    /\ presses' = presses + 1
    /\ home' = IF cmd = VolumeUp THEN home + 1 ELSE home - 1
    /\ home' \in Volume
    /\ HasRoom => queue' = Append(queue, cmd)
    /\ ~ HasRoom => UNCHANGED queue
    /\ clean' = (clean /\ HasRoom)
    /\ UNCHANGED <<engine, brand, task, tv, ignored, lost>>

----------------------------------------------------------------------------
(* tv_task's command loop.                                                 *)

\* The TV accepts the connection and the handshake: the loop is entered.
Connect ==
    /\ phase = "off"
    /\ phase' = "ready"
    /\ UNCHANGED <<engine, brand, queue, job, left, tv, presses, home, clean,
                   ignored, lost>>

\* A failed keepalive or a change of the configured address ends the loop;
\* commands stay in the channel.
LeaveLoop ==
    /\ phase = "ready"
    /\ phase' = "off"
    /\ UNCHANGED <<engine, brand, queue, job, left, tv, presses, home, clean,
                   ignored, lost>>

\* After a command: a WebSocket brand drops its connection on failure, an HTTP
\* brand backs off and takes the next command.
AfterCommand(ok) ==
    /\ phase' = IF ok \/ ~ WebSocket THEN "ready" ELSE "off"
    /\ job' = NoCommand
    /\ left' = 0

\* What exec_duck_cmd does to the engine when a restore has ended.
ClearUnlessRestored(ok) ==
    IF ~ ok THEN Engine!ClearDuckState ELSE UNCHANGED engine
OnlyStateCleared(ok) ==
    /\ state' = "Quiet" /\ out' = NoCommand
    /\ UNCHANGED <<tripwire, floor, armed, sustained, lastDuck, steps, original,
                   heard, sinceDown>>
ClearAfterRestore(ok) ==
    IF ~ ok \/ state = "Restoring" THEN Engine!ClearDuckState
    ELSE UNCHANGED engine

\* Steps of a restore ramp: from original - steps, saturating, up to original,
\* or as many key presses as steps were taken.
ByVolume(cmd) == Absolute /\ cmd.original_volume # None
ExclusiveRange(cmd) == cmd.steps - 1
UnsaturatedRange(cmd) == cmd.steps
RampFromBelow(cmd) == cmd.steps + 1
RampLength(cmd) ==
    IF ByVolume(cmd) /\ cmd.original_volume < cmd.steps
    THEN cmd.original_volume ELSE cmd.steps

\* exec_duck_cmd up to its first await.
Begin(cmd) ==
    \/ /\ cmd = VolumeDown
       /\ phase' = IF original = None /\ Absolute THEN "query" ELSE "press"
       /\ job' = cmd /\ left' = 0
       /\ UNCHANGED engine
    \/ /\ cmd = VolumeUp
       /\ phase' = "press"
       /\ job' = cmd /\ left' = 0
       /\ UNCHANGED engine
    \/ /\ cmd.kind = "Restore" /\ RampLength(cmd) > 0
       /\ phase' = "ramp"
       /\ job' = cmd /\ left' = RampLength(cmd)
       /\ UNCHANGED engine
    \/ /\ cmd.kind = "Restore" /\ RampLength(cmd) = 0
       /\ AfterCommand(TRUE)
       /\ ClearAfterRestore(TRUE)

\* LG and Samsung execute over the open connection; Sony and Roku first open
\* a connection for the command.
Receive ==
    /\ phase = "ready" /\ queue # <<>>
    /\ queue' = Tail(queue)
    /\ IF WebSocket THEN Begin(Head(queue))
       ELSE phase' = "connect" /\ job' = Head(queue) /\ UNCHANGED <<engine, left>>
    /\ UNCHANGED <<brand, tv, presses, home, clean, ignored, lost>>

ConnectOk ==
    /\ phase = "connect"
    /\ Begin(job)
    /\ UNCHANGED <<brand, queue, tv, presses, home, clean, ignored, lost>>

\* The connection is refused: the command is not put back.
ConnectFails ==
    /\ phase = "connect"
    /\ phase' = "ready" /\ job' = NoCommand
    /\ clean' = FALSE
    /\ lost' = (lost \/ job.kind = "Restore")
    /\ UNCHANGED <<engine, brand, queue, left, tv, presses, home, ignored>>

\* The TV reports its volume, or the query fails; VolumeDown goes on either way.
QueryAnswered ==
    /\ phase = "query"
    /\ Engine!SetOriginalVolume(tv)
    /\ phase' = "press"
    /\ UNCHANGED <<brand, queue, job, left, tv, presses, home, clean, ignored, lost>>

QueryFails ==
    /\ phase = "query"
    /\ phase' = "press"
    /\ clean' = FALSE
    /\ UNCHANGED <<engine, brand, queue, job, left, tv, presses, home, ignored,
                   lost>>

\* One volume key on the TV; at the end of the scale it does nothing.
Louder(v) == IF v < TopVolume THEN v + 1 ELSE v
Softer(v) == IF v > 0 THEN v - 1 ELSE v
Pressed(cmd) == IF cmd = VolumeDown THEN Softer(tv) ELSE Louder(tv)

KeyPressed ==
    /\ phase = "press"
    /\ tv' = Pressed(job)
    /\ ignored' = (ignored \/ tv' = tv)
    /\ AfterCommand(TRUE)
    /\ UNCHANGED <<engine, brand, queue, presses, home, clean, lost>>

\* The write or the answer is lost: the TV may or may not have seen the key.
KeyFails ==
    /\ phase = "press"
    /\ tv' \in {tv, Pressed(job)}
    /\ clean' = FALSE
    /\ AfterCommand(FALSE)
    /\ UNCHANGED <<engine, brand, queue, presses, home, ignored, lost>>

\* The next volume of a ramp.
RampedTo ==
    IF ByVolume(job) THEN job.original_volume - left + 1 ELSE Louder(tv)

RampStep ==
    /\ phase = "ramp"
    /\ tv' = RampedTo
    /\ ignored' = (ignored \/ (~ ByVolume(job) /\ tv' = tv))
    /\ IF left > 1
       THEN left' = left - 1 /\ UNCHANGED <<engine, phase, job>>
       ELSE AfterCommand(TRUE) /\ ClearAfterRestore(TRUE)
    /\ UNCHANGED <<brand, queue, presses, home, clean, lost>>

RampFails ==
    /\ phase = "ramp"
    /\ tv' \in {tv, RampedTo}
    /\ clean' = FALSE
    /\ AfterCommand(FALSE)
    /\ ClearAfterRestore(FALSE)
    /\ UNCHANGED <<brand, queue, presses, home, ignored, lost>>

----------------------------------------------------------------------------

Init ==
    /\ Engine!Init
    /\ brand \in Brand
    /\ queue = <<>>
    /\ phase = "off" /\ job = NoCommand /\ left = 0
    /\ home \in HomeVolume /\ tv = home
    /\ presses = 0
    /\ clean = TRUE /\ ignored = FALSE /\ lost = FALSE

TvSucceeds ==
    Connect \/ Receive \/ ConnectOk \/ QueryAnswered \/ KeyPressed \/ RampStep
TvFails == LeaveLoop \/ ConnectFails \/ QueryFails \/ KeyFails \/ RampFails

Next ==
    \/ \E db \in Reading, e \in Elapsed : DuckingTask(db, e)
    \/ WsArm \/ WsDisarm
    \/ \E cmd \in {VolumeUp, VolumeDown} : WsVolume(cmd)
    \/ TvSucceeds \/ TvFails

Spec == Init /\ [][Next]_vars

\* The executor runs tv_task when it is ready, every connection attempt and request
\* of it ends (5 s socket timeouts), and one that keeps being retried succeeds in
\* the end.  Of the other tasks nothing is assumed.
FairSpec ==
    /\ Spec
    /\ WF_vars(Connect) /\ SF_vars(Receive)
    /\ WF_vars(ConnectOk \/ ConnectFails)
    /\ WF_vars(QueryAnswered \/ QueryFails)
    /\ WF_vars(KeyPressed \/ KeyFails)
    /\ WF_vars(RampStep \/ RampFails)

----------------------------------------------------------------------------

TvTypeOK ==
    /\ brand \in Brand
    /\ queue \in Seq(Command) /\ Len(queue) <= Capacity
    /\ phase \in Phase
    /\ job \in Command \cup {NoCommand}
    /\ left \in 0..MaxSteps
    /\ tv \in Volume /\ home \in Volume
    /\ presses \in 0..Manual
    /\ clean \in BOOLEAN /\ ignored \in BOOLEAN /\ lost \in BOOLEAN

TypeOK == Engine!TypeOK /\ TvTypeOK

\* What a command will do to the TV's volume.
Effect(cmd) ==
    CASE cmd = VolumeDown -> -1
      [] cmd = VolumeUp -> 1
      [] cmd.kind = "Restore" -> cmd.steps
      [] OTHER -> 0

\* The volume after a command, from v on: on an absolute TV a captured volume, unless
\* its ramp is empty, and else so many keys up or down.  Counted as the engine counts
\* it may get below zero, where the TV stops.
Stop(atZero, v) == IF atZero /\ v < 0 THEN 0 ELSE v
ToCaptured(absolute, cmd) ==
    absolute /\ cmd.kind = "Restore" /\ cmd.original_volume # None
Captured(v, cmd) ==
    IF 0 \in {cmd.steps, cmd.original_volume} THEN v ELSE cmd.original_volume
After(absolute, atZero, v, cmd) ==
    IF ToCaptured(absolute, cmd) THEN Captured(v, cmd)
    ELSE Stop(atZero, v + Effect(cmd))

\* The volumes after each of the commands cmds in turn, v first.
Volumes(absolute, atZero, v, cmds) ==
    LET after[i \in 0..Len(cmds)] ==
            IF i = 0 THEN v ELSE After(absolute, atZero, after[i - 1], cmds[i])
    IN  after

\* The volume once tv_task is done with its command, and with all of the queue.
Underway(atZero) ==
    IF phase = "ramp" /\ ~ ToCaptured(Absolute, job) THEN tv + left
    ELSE After(Absolute, atZero, tv, job)
Levels(atZero) == Volumes(Absolute, atZero, Underway(atZero), queue)
Final(atZero) == Levels(atZero)[Len(queue)]
Destination == Final(FALSE)

\* Steps of a session whose restore has not been asked for yet.
OpenSteps == IF state = "Restoring" THEN 0 ELSE steps

\* Nothing under way: no session, no command queued or executing.
Settled ==
    state = "Quiet" /\ steps = 0 /\ queue = <<>> /\ job = NoCommand

RestoreQueued == \E i \in DOMAIN queue : queue[i].kind = "Restore"
Backed == job.kind = "Restore" \/ RestoreQueued

\* Every interleaving of the tasks only does to the engine what DuckingEngine
\* allows, so what holds of that module holds here.
RefinesEngine == Engine!Spec

\* On a TV that only knows volume keys the books always balance: once all that is
\* on its way has been executed, the TV is where the viewer wants it less the
\* steps of the open session, across disarms, re-arms and test presses that
\* overtake tv_task, as long as no command was dropped or failed and no key was
\* pressed at an end of the scale, where the engine counts it all the same.
VolumeAccounted ==
    clean /\ ~ ignored /\ ~ Absolute => Destination = home - OpenSteps

\* A restore sends as many keys as steps were counted, and those that had no effect
\* at volume 0 bring the TV above where the viewer had it (ducking.rs:290).  That
\* never adds up: over all sessions, disarms and re-arms the TV gets no louder than
\* the steps of one session or, if every key had its effect, than the viewer had
\* it, but for the test presses, while no command was dropped or failed.
Larger(m, n) == IF m > n THEN m ELSE n
Loudest(atZero) == presses + (IF atZero THEN Larger(home, MaxSteps) ELSE home)
OvershootBounded == clean => tv <= Loudest(ignored)

\* State Restoring, in which no noise ducks the TV, is always on its way to an
\* end: a Restore is queued or executing, unless one was thrown away untried.
RestoringBacked == ~ lost => (state = "Restoring" => Backed)

\* The inductive invariant of the hand-over between the tasks: tv_task has a
\* command exactly while it is executing one, waits in the phases its brand
\* has, and a ramp has no more steps left than the restore it executes.
SystemInv ==
    /\ TvTypeOK /\ RestoringBacked
    /\ state \in Engine!DuckingState
    /\ steps \in 0..MaxSteps /\ original \in Volume \cup {None}
    /\ job = NoCommand <=> phase \in {"off", "ready"}
    /\ phase = "connect" => ~ WebSocket
    /\ phase = "query" => Absolute /\ job = VolumeDown
    /\ phase = "press" => job \in {VolumeDown, VolumeUp}
    /\ phase = "ramp" <=> left > 0
    /\ phase = "ramp" => job.kind = "Restore" /\ left <= RampLength(job)

\* The books of one session follow the next: without a session there are no steps
\* to undo.  The bound on the volume is kept twice, as the TV stops at 0 and, while
\* every key has had its effect, as the engine counts: no captured volume is above
\* it, and neither is what the TV gets to on the way.
SessionOpen == state \in {"Ducking", "Restoring"}
AtMost(v, top) == v = None \/ v <= top
CapturedAtMost(top) ==
    /\ AtMost(original, top)
    /\ job.kind = "Restore" => AtMost(job.original_volume, top)
    /\ \A i \in DOMAIN queue :
        queue[i].kind = "Restore" => AtMost(queue[i].original_volume, top)
Bounded(atZero, top) ==
    /\ tv <= top /\ CapturedAtMost(top)
    /\ \A i \in 0..Len(queue) : Levels(atZero)[i] <= top
    /\ Final(atZero) + OpenSteps <= top
NeverAbove ==
    \A atZero \in BOOLEAN :
        clean /\ (ignored => atZero) => Bounded(atZero, Loudest(atZero))
BooksInv ==
    /\ SystemInv
    /\ ~ armed => ~ SessionOpen
    /\ ~ SessionOpen => steps = 0
    /\ VolumeAccounted /\ NeverAbove

\* As long as no Restore is thrown away, restoring ends, whatever else fails.
RestoringEnds ==
    ([]~ lost) => (state = "Restoring" ~> state # "Restoring")

\* Disarming for good brings the TV back to where the viewer had it, if nothing
\* fails, every key has its effect and the TV only knows volume keys.
DisarmRestores ==
    [](clean /\ ~ ignored /\ ~ Absolute) /\ <>[](~ armed) => <>[](tv = home)

\* README.md:142: on restore the volume is ramped back to the original.  With no
\* failure and no key without effect, the TV is where the viewer had it once all is
\* quiet.
VolumeRestored == clean /\ ~ ignored /\ Settled => tv = home

\* ducking.rs:57-60: the cap on the steps "Prevents Samsung/Roku restore overshoot",
\* phantom steps at volume 0: with no failure, the TV is never left louder than the
\* viewer had it.
NoOvershoot == clean /\ Settled => tv <= home
================================================================================
