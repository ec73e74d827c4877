-------------------------- MODULE DuckingSystem_proofs --------------------------
(***************************************************************************)
(* Proofs about DuckingSystem for every channel capacity, number of steps, *)
(* volume scale, set of brands and timing: SystemInv is inductive, so      *)
(* Restoring is backed by a Restore that is still on its way, the composed *)
(* system only does to the engine what DuckingEngine allows, and BooksInv  *)
(* is inductive, so no order of the tasks loses or adds a step of volume.  *)
(***************************************************************************)
EXTENDS DuckingSystem, SequenceTheorems, WellFoundedInduction, TLAPS

USE SystemAssumption DEF Engine!EngineAssumption

\* What a command in DUCK_CHANNEL can be.
LEMMA CommandKinds ==
    /\ NoCommand.kind = "None" /\ VolumeDown.kind = "VolumeDown"
    /\ VolumeUp.kind = "VolumeUp"
    /\ VolumeDown \in Command /\ VolumeUp \in Command
    /\ \A cmd \in Command : cmd # NoCommand
    /\ \A cmd \in Command :
          \/ cmd = VolumeDown
          \/ cmd = VolumeUp
          \/ /\ cmd.kind = "Restore" /\ cmd.steps \in 0..MaxSteps
             /\ cmd.original_volume \in Volume \cup {None}
  BY DEF Command, NoCommand, VolumeDown, VolumeUp, Engine!DuckCommand,
         Engine!NoCommand, Engine!VolumeDown, Engine!RestoreOf

\* The length of a ramp: never more steps than were taken, and on a TV that is
\* set to absolute volumes never more than the captured volume.
LEMMA RampBounds ==
    ASSUME NEW cmd \in Command, cmd.kind = "Restore"
    PROVE  /\ RampLength(cmd) \in 0..MaxSteps
           /\ ByVolume(cmd) => /\ cmd.original_volume \in Volume
                               /\ RampLength(cmd) <= cmd.original_volume
  <1>1. /\ cmd.steps \in 0..MaxSteps
        /\ cmd.original_volume \in Volume \cup {None}
    BY CommandKinds
  <1> QED BY <1>1 DEF RampLength, ByVolume, Volume

----------------------------------------------------------------------------

\* A round of ducking_task and a disarm return a command that fits the channel,
\* and only a Restore moves the engine into state Restoring.
LEMMA TickReturns ==
    ASSUME SystemInv, NEW db, NEW e, Engine!Tick(db, e)
    PROVE  /\ state' \in Engine!DuckingState
           /\ steps' \in 0..MaxSteps /\ original' \in Volume \cup {None}
           /\ out' \in Command \cup {NoCommand}
           /\ state' = "Restoring" => state = "Restoring" \/ out'.kind = "Restore"
  <1> USE DEF SystemInv, Engine!DuckingState
  <1>1. CASE Engine!TickDisarmed(e)
    BY <1>1 DEF Engine!TickDisarmed, NoCommand
  <1>2. CASE Engine!TickRestore(db, e)
    <2>1. out' = Engine!RestoreOf(original, steps)
      BY <1>2 DEF Engine!TickRestore
    <2>2. out' \in Command /\ out'.kind = "Restore"
      BY <2>1 DEF Command, Engine!DuckCommand, Engine!RestoreOf, NoCommand,
                  Engine!NoCommand
    <2> QED BY <1>2, <2>2 DEF Engine!TickRestore
  <1>3. CASE Engine!TickVolumeDown(db, e)
    <2>1. steps' \in 0..MaxSteps
      BY <1>3 DEF Engine!TickVolumeDown, Engine!StepAllowed
    <2> QED BY <1>3, <2>1, CommandKinds DEF Engine!TickVolumeDown, VolumeDown
  <1>4. CASE Engine!TickDucking(db, e)
    BY <1>4 DEF Engine!TickDucking, NoCommand
  <1>5. CASE Engine!TickIdle(db, e)
    BY <1>5 DEF Engine!TickIdle, NoCommand
  <1> QED BY <1>1, <1>2, <1>3, <1>4, <1>5 DEF Engine!Tick

LEMMA DisarmReturns ==
    ASSUME SystemInv, Engine!Disarm
    PROVE  /\ state' = "Quiet" /\ steps' = 0 /\ original' = None
           /\ out' \in Command \cup {NoCommand}
  <1>1. state' = "Quiet" /\ steps' = 0 /\ original' = None
    BY DEF Engine!Disarm, Engine!Cleared
  <1>2. CASE state = "Ducking"
    <2>1. out' = Engine!RestoreOf(original, steps)
      BY <1>2 DEF Engine!Disarm
    <2> QED BY <1>1, <2>1 DEF SystemInv, Command, Engine!DuckCommand,
               Engine!RestoreOf, NoCommand, Engine!NoCommand
  <1>3. CASE state # "Ducking"
    BY <1>1, <1>3 DEF Engine!Disarm, NoCommand
  <1> QED BY <1>2, <1>3

\* A command appended to a channel that has room keeps it well-formed and loses
\* no Restore that is already queued.
LEMMA Appending ==
    ASSUME queue \in Seq(Command), HasRoom, NEW cmd \in Command,
           queue' = Append(queue, cmd)
    PROVE  /\ queue' \in Seq(Command) /\ Len(queue') <= Capacity
           /\ RestoreQueued => RestoreQueued'
           /\ cmd.kind = "Restore" => RestoreQueued'
  <1>1. /\ queue' \in Seq(Command) /\ Len(queue') = Len(queue) + 1
        /\ DOMAIN queue = 1..Len(queue) /\ DOMAIN queue' = 1..Len(queue')
        /\ Len(queue) \in Nat
    OBVIOUS
  <1>2. /\ \A i \in 1..Len(queue) : queue'[i] = queue[i]
        /\ queue'[Len(queue) + 1] = cmd
    OBVIOUS
  <1>3. Len(queue') <= Capacity
    BY <1>1 DEF HasRoom
  <1>4. ASSUME NEW i \in DOMAIN queue, queue[i].kind = "Restore"
        PROVE  RestoreQueued'
    BY <1>1, <1>2, <1>4 DEF RestoreQueued
  <1>5. RestoreQueued => RestoreQueued'
    BY <1>4 DEF RestoreQueued
  <1>6. cmd.kind = "Restore" => RestoreQueued'
    <2>1. Len(queue) + 1 \in DOMAIN queue'
      BY <1>1
    <2> QED BY <1>2, <2>1 DEF RestoreQueued
  <1> QED BY <1>1, <1>3, <1>5, <1>6

\* Sending never takes a command out of the channel, and a Restore that is sent
\* is in it unless it is counted as lost.
LEMMA Sending ==
    ASSUME SystemInv, NEW cmd \in Command \cup {NoCommand}, Send(cmd)
    PROVE  /\ queue' \in Seq(Command) /\ Len(queue') <= Capacity
           /\ clean' \in BOOLEAN /\ lost' \in BOOLEAN
           /\ RestoreQueued => RestoreQueued'
           /\ ~ lost' => ~ lost /\ (cmd.kind = "Restore" => RestoreQueued')
  <1> USE DEF SystemInv, TvTypeOK
  <1>1. CASE cmd = NoCommand
    BY <1>1, CommandKinds DEF Send, RestoreQueued
  <1>2. CASE cmd # NoCommand /\ HasRoom
    <2>1. queue' = Append(queue, cmd) /\ UNCHANGED <<clean, lost>>
      BY <1>2 DEF Send
    <2>2. cmd \in Command /\ queue \in Seq(Command)
      BY <1>2
    <2>3. /\ queue' \in Seq(Command) /\ Len(queue') <= Capacity
          /\ RestoreQueued => RestoreQueued'
          /\ cmd.kind = "Restore" => RestoreQueued'
      BY <1>2, <2>1, <2>2, Appending
    <2> QED BY <2>1, <2>3
  <1>3. CASE cmd # NoCommand /\ ~ HasRoom
    BY <1>3 DEF Send, RestoreQueued
  <1> QED BY <1>1, <1>2, <1>3

----------------------------------------------------------------------------
(* SystemInv, one lemma per group of actions.                              *)

LEMMA SystemInit == Init => SystemInv
  <1> SUFFICES ASSUME Init PROVE SystemInv
    OBVIOUS
  <1>1. TvTypeOK
    <2>1. queue \in Seq(Command) /\ Len(queue) <= Capacity
      BY DEF Init
    <2>2. clean \in BOOLEAN /\ ignored \in BOOLEAN /\ lost \in BOOLEAN
      BY DEF Init
    <2>3. presses \in 0..Manual /\ left \in 0..MaxSteps
      BY DEF Init
    <2>4. home \in Volume /\ tv \in Volume
      BY DEF Init, Volume
    <2> QED BY <2>1, <2>2, <2>3, <2>4 DEF Init, TvTypeOK, Phase
  <1>2. state = "Quiet" /\ steps = 0 /\ original = None
    BY DEF Init, Engine!Init
  <1> QED BY <1>1, <1>2 DEF Init, SystemInv, RestoringBacked, Engine!DuckingState

\* The tasks on the sending side leave tv_task where it is.
LEMMA SendersPreserve ==
    ASSUME SystemInv,
           \/ \E db \in Reading, e \in Elapsed : DuckingTask(db, e)
           \/ WsArm \/ WsDisarm
           \/ \E cmd \in {VolumeUp, VolumeDown} : WsVolume(cmd)
    PROVE  SystemInv'
  <1>1. CASE \E db \in Reading, e \in Elapsed : DuckingTask(db, e)
    <2> PICK db \in Reading, e \in Elapsed : DuckingTask(db, e)
      BY <1>1
    <2>1. /\ state' \in Engine!DuckingState
          /\ steps' \in 0..MaxSteps /\ original' \in Volume \cup {None}
          /\ out' \in Command \cup {NoCommand}
          /\ state' = "Restoring" =>
                state = "Restoring" \/ out'.kind = "Restore"
      BY TickReturns DEF DuckingTask
    <2>2. /\ queue' \in Seq(Command) /\ Len(queue') <= Capacity
          /\ clean' \in BOOLEAN /\ lost' \in BOOLEAN
          /\ RestoreQueued => RestoreQueued'
          /\ ~ lost' => ~ lost /\ (out'.kind = "Restore" => RestoreQueued')
      BY <2>1, Sending DEF DuckingTask
    <2>3. UNCHANGED <<brand, phase, job, left, tv, presses, home, ignored>>
      BY DEF DuckingTask, task
    <2>4. RestoringBacked'
      BY <2>1, <2>2, <2>3 DEF SystemInv, RestoringBacked, Backed
    <2>5. TvTypeOK'
      BY <2>2, <2>3 DEF SystemInv, TvTypeOK
    <2> QED BY <2>1, <2>3, <2>4, <2>5
         DEF SystemInv, Absolute, WebSocket, RampLength, ByVolume
  <1>2. CASE WsArm
    <2>1. UNCHANGED <<state, steps, original, brand, queue, phase, job, left, tv,
                      presses, home, clean, ignored, lost>>
      BY <1>2 DEF WsArm, Engine!Arm, Engine!session, task
    <2> QED BY <2>1 DEF SystemInv, TvTypeOK, RestoringBacked, Backed,
                        RestoreQueued, Absolute, WebSocket, RampLength, ByVolume
  <1>3. CASE WsDisarm
    <2>1. /\ state' = "Quiet" /\ steps' = 0 /\ original' = None
          /\ out' \in Command \cup {NoCommand}
      BY <1>3, DisarmReturns DEF WsDisarm
    <2>2. /\ queue' \in Seq(Command) /\ Len(queue') <= Capacity
          /\ clean' \in BOOLEAN /\ lost' \in BOOLEAN
      BY <1>3, <2>1, Sending DEF WsDisarm
    <2>3. UNCHANGED <<brand, phase, job, left, tv, presses, home, ignored>>
      BY <1>3 DEF WsDisarm, task
    <2>4. RestoringBacked'
      BY <2>1 DEF RestoringBacked
    <2>5. TvTypeOK'
      BY <2>2, <2>3 DEF SystemInv, TvTypeOK
    <2> QED BY <2>1, <2>3, <2>4, <2>5
         DEF SystemInv, Absolute, WebSocket, RampLength, ByVolume,
             Engine!DuckingState
  <1>4. CASE \E cmd \in {VolumeUp, VolumeDown} : WsVolume(cmd)
    <2> PICK cmd \in {VolumeUp, VolumeDown} : WsVolume(cmd)
      BY <1>4
    <2>1. UNCHANGED <<state, steps, original, brand, phase, job, left, tv,
                      ignored, lost>>
      BY DEF WsVolume, engine, task
    <2>2. /\ queue' \in Seq(Command) /\ Len(queue') <= Capacity
          /\ RestoreQueued => RestoreQueued'
      <3>1. CASE HasRoom
        <4>1. queue' = Append(queue, cmd) /\ cmd \in Command
          BY <3>1, CommandKinds DEF WsVolume
        <4>2. queue \in Seq(Command)
          BY DEF SystemInv, TvTypeOK
        <4> QED BY <3>1, <4>1, <4>2, Appending
      <3>2. CASE ~ HasRoom
        BY <3>2 DEF WsVolume, SystemInv, TvTypeOK, RestoreQueued
      <3> QED BY <3>1, <3>2
    <2>3. presses' \in 0..Manual /\ home' \in Volume /\ clean' \in BOOLEAN
      BY DEF WsVolume, SystemInv, TvTypeOK
    <2>4. TvTypeOK'
      BY <2>1, <2>2, <2>3 DEF SystemInv, TvTypeOK
    <2>5. RestoringBacked'
      BY <2>1, <2>2 DEF SystemInv, RestoringBacked, Backed
    <2> QED BY <2>1, <2>4, <2>5
         DEF SystemInv, Absolute, WebSocket, RampLength, ByVolume
  <1> QED BY <1>1, <1>2, <1>3, <1>4

\* Both ways a restore can end leave the engine with an open session and no
\* restore running, or as it was with none.
LEMMA Clearing ==
    ASSUME SystemInv, NEW ok \in BOOLEAN, ClearAfterRestore(ok)
    PROVE  /\ state' \in Engine!DuckingState /\ state' # "Restoring"
           /\ steps' \in 0..MaxSteps /\ original' \in Volume \cup {None}
  BY DEF ClearAfterRestore, Engine!ClearDuckState, Engine!Cleared, engine,
         SystemInv, Engine!DuckingState

\* The conjuncts of SystemInv that a command starting to execute establishes.
LEMMA Beginning ==
    ASSUME SystemInv, NEW cmd \in Command, Begin(cmd)
    PROVE  /\ phase' \in {"ready", "query", "press", "ramp"}
           /\ job' \in Command \cup {NoCommand}
           /\ job' = NoCommand <=> phase' = "ready"
           /\ left' \in 0..MaxSteps
           /\ phase' = "query" => Absolute /\ job' = VolumeDown
           /\ phase' = "press" => job' \in {VolumeDown, VolumeUp}
           /\ phase' = "ramp" <=> left' > 0
           /\ phase' = "ramp" => job'.kind = "Restore" /\ left' <= RampLength(job')
           /\ state' \in Engine!DuckingState
           /\ steps' \in 0..MaxSteps /\ original' \in Volume \cup {None}
           /\ state' = "Restoring" =>
                 state = "Restoring" /\ (cmd.kind = "Restore" => job' = cmd)
  <1>1. CASE cmd = VolumeDown \/ cmd = VolumeUp
    <2>1. /\ phase' \in {"query", "press"}
          /\ phase' = "query" => Absolute /\ cmd = VolumeDown
          /\ job' = cmd /\ left' = 0 /\ UNCHANGED engine
      BY <1>1, CommandKinds DEF Begin
    <2> QED BY <1>1, <2>1, CommandKinds DEF engine, SystemInv
  <1>2. CASE cmd.kind = "Restore" /\ RampLength(cmd) > 0
    <2>0. cmd # VolumeDown /\ cmd # VolumeUp /\ ~ (RampLength(cmd) = 0)
      BY <1>2, CommandKinds
    <2>1. /\ phase' = "ramp" /\ job' = cmd /\ left' = RampLength(cmd)
          /\ UNCHANGED engine
      BY <1>2, <2>0 DEF Begin
    <2>2. left' \in 0..MaxSteps
      BY <1>2, <2>1, RampBounds
    <2> QED BY <1>2, <2>1, <2>2, CommandKinds
         DEF engine, SystemInv
  <1>3. CASE cmd.kind = "Restore" /\ RampLength(cmd) = 0
    <2>0. cmd # VolumeDown /\ cmd # VolumeUp /\ ~ (RampLength(cmd) > 0)
      BY <1>3, CommandKinds
    <2>1. AfterCommand(TRUE) /\ ClearAfterRestore(TRUE)
      BY <1>3, <2>0 DEF Begin
    <2>2. phase' = "ready" /\ job' = NoCommand /\ left' = 0
      BY <2>1 DEF AfterCommand
    <2>3. /\ state' \in Engine!DuckingState /\ state' # "Restoring"
          /\ steps' \in 0..MaxSteps /\ original' \in Volume \cup {None}
      BY <2>1, Clearing
    <2> QED BY <2>2, <2>3
  <1>4. cmd.kind = "Restore" => RampLength(cmd) \in 0..MaxSteps
    BY RampBounds
  <1> QED BY <1>1, <1>2, <1>3, <1>4, CommandKinds

\* What SystemInv asks of tv_task's own variables; the preservation lemmas below
\* establish these conjuncts and combine them with Assembled.
LEMMA Assembled ==
    ASSUME SystemInv, UNCHANGED brand,
           queue' \in Seq(Command), Len(queue') <= Capacity,
           phase' \in Phase, job' \in Command \cup {NoCommand},
           left' \in 0..MaxSteps, tv' \in Volume, UNCHANGED <<presses, home>>,
           clean' \in BOOLEAN, ignored' \in BOOLEAN, lost' \in BOOLEAN,
           state' \in Engine!DuckingState,
           steps' \in 0..MaxSteps, original' \in Volume \cup {None},
           RestoringBacked',
           job' = NoCommand <=> phase' \in {"off", "ready"},
           phase' = "connect" => ~ WebSocket,
           phase' = "query" => Absolute /\ job' = VolumeDown,
           phase' = "press" => job' \in {VolumeDown, VolumeUp},
           phase' = "ramp" <=> left' > 0,
           phase' = "ramp" => job'.kind = "Restore" /\ left' <= RampLength(job')
    PROVE  SystemInv'
  <1>1. TvTypeOK'
    BY DEF SystemInv, TvTypeOK
  <1> QED BY <1>1 DEF SystemInv, Absolute, WebSocket, RampLength, ByVolume

\* Taking a command out of the channel: what is left, and what was taken.
LEMMA Taking ==
    ASSUME SystemInv, queue # <<>>, queue' = Tail(queue)
    PROVE  /\ Head(queue) \in Command
           /\ queue' \in Seq(Command) /\ Len(queue') <= Capacity
           /\ RestoreQueued => RestoreQueued' \/ Head(queue).kind = "Restore"
  <1>1. queue \in Seq(Command) /\ Len(queue) \in Nat /\ Len(queue) > 0
    BY DEF SystemInv, TvTypeOK
  <1>2. /\ Head(queue) = queue[1] /\ Head(queue) \in Command
        /\ queue' \in Seq(Command) /\ Len(queue') = Len(queue) - 1
        /\ \A i \in 1..Len(queue') : queue'[i] = queue[i + 1]
    BY <1>1
  <1>3. ASSUME RestoreQueued, Head(queue).kind # "Restore"
        PROVE  RestoreQueued'
    <2>1. PICK i \in 1..Len(queue) : queue[i].kind = "Restore"
      BY <1>1, <1>3 DEF RestoreQueued
    <2>2. i # 1
      BY <1>2, <1>3, <2>1
    <2>3. i - 1 \in 1..Len(queue') /\ queue'[i - 1].kind = "Restore"
      BY <1>1, <1>2, <2>1, <2>2
    <2>4. i - 1 \in DOMAIN queue'
      BY <1>2, <2>3
    <2> QED BY <2>3, <2>4, Zenon DEF RestoreQueued
  <1> QED BY <1>1, <1>2, <1>3 DEF SystemInv, TvTypeOK

LEMMA LoopPreserves ==
    ASSUME SystemInv, Connect \/ LeaveLoop
    PROVE  SystemInv'
  <1>1. /\ phase \in {"off", "ready"} /\ phase' \in {"off", "ready"}
        /\ UNCHANGED <<state, steps, original, brand, queue, job, left, tv,
                       presses, home, clean, ignored, lost>>
    BY DEF Connect, LeaveLoop, engine
  <1>2. RestoringBacked' /\ ~ (left > 0)
    BY <1>1 DEF SystemInv, RestoringBacked, Backed, RestoreQueued
  <1> QED BY <1>1, <1>2, Assembled DEF SystemInv, TvTypeOK, Phase

LEMMA ReceivePreserves ==
    ASSUME SystemInv, Receive
    PROVE  SystemInv'
  <1>1. /\ phase = "ready" /\ queue # <<>> /\ queue' = Tail(queue)
        /\ UNCHANGED <<brand, tv, presses, home, clean, ignored, lost>>
    BY DEF Receive
  <1>2. /\ Head(queue) \in Command
        /\ queue' \in Seq(Command) /\ Len(queue') <= Capacity
        /\ RestoreQueued => RestoreQueued' \/ Head(queue).kind = "Restore"
    BY <1>1, Taking
  <1>3. job = NoCommand /\ NoCommand.kind # "Restore"
    BY <1>1, CommandKinds DEF SystemInv
  <1>4. CASE WebSocket
    <2>1. Begin(Head(queue))
      BY <1>4 DEF Receive
    <2>2. RestoringBacked'
      BY <1>1, <1>2, <1>3, <2>1, Beginning
         DEF SystemInv, RestoringBacked, Backed
    <2> QED BY <1>1, <1>2, <2>1, <2>2, Beginning, Assembled
         DEF SystemInv, TvTypeOK, Phase
  <1>5. CASE ~ WebSocket
    <2>1. /\ phase' = "connect" /\ job' = Head(queue)
          /\ UNCHANGED <<state, steps, original, left>>
      BY <1>5 DEF Receive, engine
    <2>2. RestoringBacked'
      BY <1>1, <1>2, <1>3, <2>1 DEF SystemInv, RestoringBacked, Backed
    <2>3. job' # NoCommand /\ ~ (left > 0)
      BY <1>1, <1>2, <2>1, CommandKinds DEF SystemInv
    <2> QED BY <1>1, <1>2, <1>5, <2>1, <2>2, <2>3, Assembled
         DEF SystemInv, TvTypeOK, Phase
  <1> QED BY <1>4, <1>5

LEMMA ConnectionPreserves ==
    ASSUME SystemInv, ConnectOk \/ ConnectFails
    PROVE  SystemInv'
  <1>1. /\ phase = "connect" /\ job \in Command
        /\ UNCHANGED <<brand, queue, tv, presses, home, ignored>>
    BY DEF ConnectOk, ConnectFails, SystemInv, TvTypeOK
  <1>2. CASE ConnectOk
    <2>1. Begin(job) /\ UNCHANGED <<clean, ignored, lost>>
      BY <1>2 DEF ConnectOk
    <2>2. RestoringBacked'
      BY <1>1, <2>1, Beginning
         DEF SystemInv, RestoringBacked, Backed, RestoreQueued
    <2> QED BY <1>1, <2>1, <2>2, Beginning, Assembled
         DEF SystemInv, TvTypeOK, Phase
  <1>3. CASE ConnectFails
    <2>1. /\ phase' = "ready" /\ job' = NoCommand
          /\ clean' = FALSE /\ lost' = (lost \/ job.kind = "Restore")
          /\ UNCHANGED <<state, steps, original, left>>
      BY <1>3 DEF ConnectFails, engine
    <2>2. RestoringBacked'
      BY <1>1, <2>1 DEF SystemInv, RestoringBacked, Backed, RestoreQueued
    <2>3. clean' \in BOOLEAN /\ lost' \in BOOLEAN /\ ~ (left > 0)
      BY <1>1, <2>1 DEF SystemInv, TvTypeOK
    <2> QED BY <1>1, <2>1, <2>2, <2>3, Assembled DEF SystemInv, TvTypeOK, Phase
  <1> QED BY <1>2, <1>3

LEMMA QueryPreserves ==
    ASSUME SystemInv, QueryAnswered \/ QueryFails
    PROVE  SystemInv'
  <1>1. /\ phase = "query" /\ phase' = "press" /\ job = VolumeDown
        /\ UNCHANGED <<brand, queue, job, left, tv, presses, home, ignored, lost>>
    BY DEF QueryAnswered, QueryFails, SystemInv
  <1>2. clean' \in BOOLEAN
    BY DEF QueryAnswered, QueryFails, SystemInv, TvTypeOK
  <1>3. UNCHANGED <<state, steps>> /\ original' \in Volume \cup {None}
    BY DEF QueryAnswered, QueryFails, Engine!SetOriginalVolume, engine, SystemInv,
           TvTypeOK
  <1>4. RestoringBacked' /\ ~ (left > 0)
    BY <1>1, <1>3 DEF SystemInv, RestoringBacked, Backed, RestoreQueued
  <1> QED BY <1>1, <1>2, <1>3, <1>4, Assembled DEF SystemInv, TvTypeOK, Phase

LEMMA KeyPreserves ==
    ASSUME SystemInv, KeyPressed \/ KeyFails
    PROVE  SystemInv'
  <1>1. /\ phase = "press" /\ phase' \in {"off", "ready"}
        /\ job' = NoCommand /\ left' = 0
        /\ UNCHANGED <<state, steps, original, brand, queue, presses, home, lost>>
    BY DEF KeyPressed, KeyFails, AfterCommand, engine
  <1>2. tv' \in Volume /\ clean' \in BOOLEAN /\ ignored' \in BOOLEAN
    <2>1. tv \in Volume /\ Pressed(job) \in Volume
      BY DEF Pressed, Louder, Softer, Volume, SystemInv, TvTypeOK
    <2>2. tv' \in {tv, Pressed(job)}
      BY DEF KeyPressed, KeyFails
    <2>3. clean' \in BOOLEAN /\ ignored' \in BOOLEAN
      BY DEF KeyPressed, KeyFails, SystemInv, TvTypeOK
    <2> QED BY <2>1, <2>2, <2>3
  <1>3. job.kind # "Restore"
    BY <1>1, CommandKinds DEF SystemInv
  <1>4. RestoringBacked'
    BY <1>1, <1>3 DEF SystemInv, RestoringBacked, Backed, RestoreQueued
  <1> QED BY <1>1, <1>2, <1>4, Assembled DEF SystemInv, TvTypeOK, Phase

\* A ramp stays on the TV's scale: by keys because the TV stops at its end, by
\* absolute volumes because they end at the captured one.
LEMMA RampOnScale ==
    ASSUME SystemInv, phase = "ramp"
    PROVE  RampedTo \in Volume
  <1>1. CASE ByVolume(job)
    <2>1. job \in Command /\ job.kind = "Restore" /\ left <= RampLength(job)
      BY CommandKinds DEF SystemInv, TvTypeOK
    <2>2. /\ job.original_volume \in Volume
          /\ RampLength(job) <= job.original_volume
          /\ RampLength(job) \in 0..MaxSteps
      BY <1>1, <2>1, RampBounds
    <2>3. left \in 0..MaxSteps /\ left > 0
      BY DEF SystemInv, TvTypeOK
    <2> QED BY <1>1, <2>1, <2>2, <2>3 DEF RampedTo, Volume
  <1>2. CASE ~ ByVolume(job)
    BY <1>2 DEF RampedTo, Louder, Volume, SystemInv, TvTypeOK
  <1> QED BY <1>1, <1>2

LEMMA RampPreserves ==
    ASSUME SystemInv, RampStep \/ RampFails
    PROVE  SystemInv'
  <1>1. /\ phase = "ramp" /\ tv' \in Volume
        /\ clean' \in BOOLEAN /\ ignored' \in BOOLEAN
        /\ UNCHANGED <<brand, queue, presses, home, lost>>
    BY RampOnScale DEF RampStep, RampFails, SystemInv, TvTypeOK
  <1>2. left \in 0..MaxSteps /\ left > 0 /\ left <= RampLength(job)
    BY <1>1 DEF SystemInv, TvTypeOK
  <1>3. CASE RampStep /\ left > 1
    <2>1. /\ left' = left - 1
          /\ UNCHANGED <<state, steps, original, phase, job>>
      BY <1>3 DEF RampStep, engine
    <2>2. RestoringBacked'
      BY <1>1, <2>1 DEF SystemInv, RestoringBacked, Backed, RestoreQueued
    <2>3. job \in Command /\ job.kind = "Restore"
      BY <1>1, CommandKinds DEF SystemInv, TvTypeOK
    <2>4. RampLength(job) \in 0..MaxSteps
      BY <2>3, RampBounds
    <2>5. left' \in 0..MaxSteps /\ left' > 0 /\ left' <= RampLength(job)
      BY <1>2, <1>3, <2>1, <2>4
    <2> QED BY <1>1, <2>1, <2>2, <2>3, <2>5, CommandKinds, Assembled
         DEF SystemInv, TvTypeOK, Phase
  <1>4. CASE RampFails \/ (RampStep /\ ~ (left > 1))
    <2>1. PICK ok \in BOOLEAN : AfterCommand(ok) /\ ClearAfterRestore(ok)
      BY <1>4 DEF RampStep, RampFails
    <2>2. phase' \in {"off", "ready"} /\ job' = NoCommand /\ left' = 0
      BY <2>1 DEF AfterCommand
    <2>3. /\ state' \in Engine!DuckingState /\ state' # "Restoring"
          /\ steps' \in 0..MaxSteps /\ original' \in Volume \cup {None}
      BY <2>1, Clearing
    <2>4. RestoringBacked' /\ lost' \in BOOLEAN
      BY <1>1, <2>3 DEF SystemInv, TvTypeOK, RestoringBacked
    <2> QED BY <1>1, <2>2, <2>3, <2>4, Assembled DEF SystemInv, TvTypeOK, Phase
  <1> QED BY <1>3, <1>4 DEF RampStep, RampFails

LEMMA StepPreserves == SystemInv /\ [Next]_vars => SystemInv'
  <1> SUFFICES ASSUME SystemInv, [Next]_vars
               PROVE  SystemInv'
    OBVIOUS
  <1>1. CASE Next
    BY <1>1, SendersPreserve, LoopPreserves, ReceivePreserves,
       ConnectionPreserves, QueryPreserves, KeyPreserves, RampPreserves
       DEF Next, TvSucceeds, TvFails
  <1>2. CASE UNCHANGED vars
    <2>1. UNCHANGED <<state, steps, original, brand, queue, phase, job, left, tv,
                      presses, home, clean, ignored, lost>>
      BY <1>2 DEF vars, engine, task
    <2> QED BY <2>1 DEF SystemInv, TvTypeOK, RestoringBacked, Backed,
                        RestoreQueued, Absolute, WebSocket, RampLength, ByVolume
  <1> QED BY <1>1, <1>2

----------------------------------------------------------------------------

\* The hand-over between the tasks keeps its invariant.
THEOREM SystemCorrect == Spec => []SystemInv
  BY SystemInit, StepPreserves, PTL DEF Spec

\* The engine is never in Restoring without a Restore queued or executing,
\* unless one was thrown away untried.
THEOREM BackedCorrect == Spec => []RestoringBacked
  <1>1. SystemInv => RestoringBacked
    BY DEF SystemInv
  <1> QED BY <1>1, SystemCorrect, PTL

\* The composed system implements the engine: under every interleaving of
\* ducking_task, the WebSocket commands and tv_task, each step is a step of
\* DuckingEngine or leaves the engine alone.
THEOREM ImplementsEngine == Spec => RefinesEngine
  <1>1. Init => Engine!Init
    BY DEF Init
  <1>2. SystemInv /\ [Next]_vars => [Engine!Next]_(Engine!vars)
    <2> SUFFICES ASSUME SystemInv, [Next]_vars
                 PROVE  Engine!Next \/ UNCHANGED engine
      BY DEF engine, Engine!vars, Engine!settings, Engine!session
    <2>1. CASE \E db \in Reading, e \in Elapsed : DuckingTask(db, e)
      BY <2>1 DEF DuckingTask, Engine!SomeTick, Engine!Next
    <2>2. CASE WsArm \/ WsDisarm
      BY <2>2 DEF WsArm, WsDisarm, Engine!Next
    <2>3. CASE Receive \/ ConnectOk
      <3>1. (\E cmd : Begin(cmd)) \/ UNCHANGED engine
        BY <2>3 DEF Receive, ConnectOk
      <3>2. Engine!ClearDuckState \/ UNCHANGED engine
        BY <3>1 DEF Begin, ClearAfterRestore
      <3> QED BY <3>2 DEF Engine!Next
    <2>4. CASE QueryAnswered
      BY <2>4 DEF QueryAnswered, SystemInv, TvTypeOK, Engine!Next
    <2>5. CASE RampStep \/ RampFails
      <3>1. (\E ok \in BOOLEAN : ClearAfterRestore(ok)) \/ UNCHANGED engine
        BY <2>5 DEF RampStep, RampFails
      <3>2. Engine!ClearDuckState \/ UNCHANGED engine
        BY <3>1 DEF ClearAfterRestore
      <3> QED BY <3>2 DEF Engine!Next
    <2>6. CASE \/ \E cmd \in {VolumeUp, VolumeDown} : WsVolume(cmd)
               \/ Connect \/ LeaveLoop \/ ConnectFails \/ QueryFails
               \/ KeyPressed \/ KeyFails
      BY <2>6 DEF WsVolume, Connect, LeaveLoop, ConnectFails, QueryFails,
                  KeyPressed, KeyFails
    <2>7. CASE UNCHANGED vars
      BY <2>7 DEF vars
    <2> QED BY <2>1, <2>2, <2>3, <2>4, <2>5, <2>6, <2>7
         DEF Next, TvSucceeds, TvFails
  <1> QED BY <1>1, <1>2, SystemCorrect, PTL DEF Spec, RefinesEngine, Engine!Spec

----------------------------------------------------------------------------
(* What DuckingEngine_proofs shows of the engine alone holds of the engine *)
(* inside the composed system.  EngineProofs is a second instance of the   *)
(* engine's module: the lemmas Same... say that it is the same engine.     *)

EngineProofs == INSTANCE DuckingEngine_proofs

LEMMA SameAssumption == EngineProofs!EngineAssumption
  BY DEF EngineProofs!EngineAssumption

LEMMA SameEngine ==
    /\ Engine!Init <=> EngineProofs!Init
    /\ [Engine!Next]_(Engine!vars) <=> [EngineProofs!Next]_(EngineProofs!vars)
  <1> USE DEF Engine!settings, EngineProofs!settings,
              Engine!session, EngineProofs!session,
              Engine!vars, EngineProofs!vars,
              Engine!NoCommand, EngineProofs!NoCommand,
              Engine!RestoreOf, EngineProofs!RestoreOf,
              Engine!DefaultFloor, EngineProofs!DefaultFloor
  <1>1. Engine!Init <=> EngineProofs!Init
    BY DEF Engine!Init, EngineProofs!Init
  <1>2. Engine!SomeTick <=> EngineProofs!SomeTick
    BY DEF Engine!SomeTick, EngineProofs!SomeTick, Engine!Tick, EngineProofs!Tick,
       Engine!TickDisarmed, EngineProofs!TickDisarmed,
       Engine!TickRestore, EngineProofs!TickRestore,
       Engine!TickVolumeDown, EngineProofs!TickVolumeDown,
       Engine!TickDucking, EngineProofs!TickDucking,
       Engine!TickIdle, EngineProofs!TickIdle,
       Engine!VolumeDown, EngineProofs!VolumeDown,
       Engine!Capped, EngineProofs!Capped,
       Engine!Excess, EngineProofs!Excess,
       Engine!Loud, EngineProofs!Loud,
       Engine!NearSilent, EngineProofs!NearSilent,
       Engine!Accumulated, EngineProofs!Accumulated,
       Engine!Age, EngineProofs!Age, Engine!Ages, EngineProofs!Ages,
       Engine!HoldElapsed, EngineProofs!HoldElapsed,
       Engine!Interval, EngineProofs!Interval,
       Engine!DuckDue, EngineProofs!DuckDue,
       Engine!PathA, EngineProofs!PathA, Engine!PathB, EngineProofs!PathB,
       Engine!Triggered, EngineProofs!Triggered,
       Engine!Heard, EngineProofs!Heard,
       Engine!SpentByPathA, EngineProofs!SpentByPathA,
       Engine!StepAllowed, EngineProofs!StepAllowed
  <1>3. Engine!Next <=> EngineProofs!Next
    BY <1>2
       DEF Engine!Next, EngineProofs!Next, Engine!Arm, EngineProofs!Arm,
       Engine!TickNotFinite, EngineProofs!TickNotFinite,
       Engine!Disarm, EngineProofs!Disarm, Engine!Cleared, EngineProofs!Cleared,
       Engine!SpentByDisarm, EngineProofs!SpentByDisarm,
       Engine!ClearDuckState, EngineProofs!ClearDuckState,
       Engine!SetOriginalVolume, EngineProofs!SetOriginalVolume,
       Engine!CalibrateSilence, EngineProofs!CalibrateSilence,
       Engine!SetTripwire, EngineProofs!SetTripwire,
       Engine!LoadCalibration, EngineProofs!LoadCalibration,
       Engine!Calibrate, EngineProofs!Calibrate,
       Engine!FloorFor, EngineProofs!FloorFor, Engine!DeadMic, EngineProofs!DeadMic,
       Engine!TripwireFor, EngineProofs!TripwireFor,
       Engine!Age, EngineProofs!Age, Engine!Ages, EngineProofs!Ages,
       Engine!Capped, EngineProofs!Capped
  <1> QED BY <1>1, <1>3

LEMMA SameInv == Engine!EngineInv <=> EngineProofs!EngineInv
  BY DEF Engine!EngineInv, EngineProofs!EngineInv, Engine!TypeOK, EngineProofs!TypeOK,
     Engine!TripwireGap, EngineProofs!TripwireGap,
     Engine!RestoreIsOwed, EngineProofs!RestoreIsOwed,
     Engine!Restores, EngineProofs!Restores,
     Engine!DisarmedIsClean, EngineProofs!DisarmedIsClean,
     Engine!DuckingState, EngineProofs!DuckingState,
     Engine!DuckCommand, EngineProofs!DuckCommand,
     Engine!NoCommand, EngineProofs!NoCommand,
     Engine!VolumeDown, EngineProofs!VolumeDown,
     Engine!RestoreOf, EngineProofs!RestoreOf

LEMMA SameView ==
    /\ Engine!View!Init <=> EngineProofs!View!Init
    /\ [Engine!View!Next]_(Engine!View!vars)
            <=> [EngineProofs!View!Next]_(EngineProofs!View!vars)
  BY DEF Engine!View!Init, EngineProofs!View!Init,
     Engine!View!vars, EngineProofs!View!vars,
     Engine!View!Next, EngineProofs!View!Next,
     Engine!View!Tick, EngineProofs!View!Tick,
     Engine!View!TickArmed, EngineProofs!View!TickArmed,
     Engine!View!TickDisarmed, EngineProofs!View!TickDisarmed,
     Engine!View!Arm, EngineProofs!View!Arm,
     Engine!View!Disarm, EngineProofs!View!Disarm,
     Engine!View!Clear, EngineProofs!View!Clear

\* The engine keeps its invariant in the composed system: its tripwire gap, nothing
\* owed while disarmed, a Restore only for steps taken, and the ages of its session.
THEOREM EngineKept == Spec => []Engine!EngineInv
  <1>1. Engine!Spec => []Engine!EngineInv
    BY EngineProofs!EngineCorrect, SameAssumption, SameEngine, SameInv, PTL
       DEF Engine!Spec, EngineProofs!Spec
  <1> QED BY <1>1, ImplementsEngine, PTL DEF RefinesEngine

\* Nor do late answers of tv_task, dropped commands and re-arms shorten what the
\* engine waits for: noise for the detection time before the first VolumeDown, and
\* the hold before a restore in a room that is not near-silent.
THEOREM DelaysKept == Spec => Engine!DetectionDelay /\ Engine!HoldBeforeRestore
  <1>1. Engine!Spec => Engine!DetectionDelay
    BY EngineProofs!DetectionCorrect, SameAssumption, SameEngine, PTL
       DEF Engine!Spec, EngineProofs!Spec,
           Engine!DetectionDelay, EngineProofs!DetectionDelay,
           Engine!VolumeDown, EngineProofs!VolumeDown,
           Engine!vars, EngineProofs!vars, Engine!settings, EngineProofs!settings,
           Engine!session, EngineProofs!session
  <1>2. Engine!Spec => Engine!HoldBeforeRestore
    <2>1. [\A db \in Reading, e \in Elapsed :
             Engine!TickRestore(db, e) /\ ~ Engine!NearSilent(db)
                 => sinceDown' >= Hold]_(Engine!vars)
          <=> [\A db \in Reading, e \in Elapsed :
                 EngineProofs!TickRestore(db, e) /\ ~ EngineProofs!NearSilent(db)
                     => sinceDown' >= Hold]_(EngineProofs!vars)
      BY DEF Engine!TickRestore, EngineProofs!TickRestore,
             Engine!NearSilent, EngineProofs!NearSilent,
             Engine!Accumulated, EngineProofs!Accumulated,
             Engine!Loud, EngineProofs!Loud, Engine!Capped, EngineProofs!Capped,
             Engine!Age, EngineProofs!Age, Engine!Ages, EngineProofs!Ages,
             Engine!HoldElapsed, EngineProofs!HoldElapsed,
             Engine!PathA, EngineProofs!PathA, Engine!PathB, EngineProofs!PathB,
             Engine!SpentByPathA, EngineProofs!SpentByPathA,
             Engine!RestoreOf, EngineProofs!RestoreOf,
             Engine!vars, EngineProofs!vars,
             Engine!settings, EngineProofs!settings,
             Engine!session, EngineProofs!session
    <2> QED BY <2>1, EngineProofs!HoldCorrect, SameAssumption, SameEngine, PTL
         DEF Engine!Spec, EngineProofs!Spec,
             Engine!HoldBeforeRestore, EngineProofs!HoldBeforeRestore
  <1> QED BY <1>1, <1>2, ImplementsEngine, PTL DEF RefinesEngine

\* So the composed system implements what the LED and the clients are promised.
THEOREM ViewKept ==
    ASSUME Engine!OneWindowIsNotEnough
    PROVE  Spec => Engine!ImplementsView
  <1>1. EngineProofs!OneWindowIsNotEnough
    BY DEF Engine!OneWindowIsNotEnough, EngineProofs!OneWindowIsNotEnough
  <1>2. EngineProofs!Spec => EngineProofs!ImplementsView
    BY <1>1, EngineProofs!ViewImplemented, SameAssumption
  <1>3. Engine!Spec => Engine!ImplementsView
    BY <1>2, SameEngine, SameView, PTL
       DEF Engine!Spec, EngineProofs!Spec,
           Engine!ImplementsView, EngineProofs!ImplementsView,
           Engine!View!Spec, EngineProofs!View!Spec
  <1> QED BY <1>3, ImplementsEngine, PTL DEF RefinesEngine

\* The variables of the engine, of the channel and of tv_task keep their types
\* when all of them work together.
THEOREM TypeCorrect == Spec => []TypeOK
  <1>1. SystemInv /\ Engine!EngineInv => TypeOK
    BY DEF SystemInv, TypeOK, Engine!EngineInv
  <1> QED BY <1>1, SystemCorrect, EngineKept, PTL

----------------------------------------------------------------------------
(* Induction.  The induction theorems of the library have an operator as   *)
(* their parameter, which no prover here can instantiate; that a non-empty *)
(* set of naturals has a least element has none, and is as good.           *)

LEMMA Smallest ==
    ASSUME NEW S \in SUBSET Nat, S # {}
    PROVE  \E n \in S : \A m \in S : n <= m
  <1>1. PICK n \in S : \A m \in S : <<m, n>> \notin OpToRel(<, Nat)
    <2> DEFINE R == OpToRel(<, Nat)
    <2>1. IsWellFoundedOn(R, Nat)
      BY NatLessThanWellFounded
    <2> HIDE DEF R
    <2>2. \E n \in S : \A m \in S : <<m, n>> \notin R
      BY <2>1, WFMin
    <2> QED BY <2>2 DEF R
  <1>2. \A m \in S : ~ (m < n)
    BY <1>1 DEF OpToRel
  <1> QED BY <1>2

\* A set that has 0, and with each number below n the next, has all up to n.
LEMMA Induction ==
    ASSUME NEW n \in Nat, NEW S, 0 \in S,
           \A i \in 1..n : i - 1 \in S => i \in S
    PROVE  \A i \in 0..n : i \in S
  <1> SUFFICES ASSUME 0..n \ S # {} PROVE FALSE
    OBVIOUS
  <1>1. PICK i \in 0..n \ S : \A j \in 0..n \ S : i <= j
    <2>1. 0..n \ S \in SUBSET Nat
      OBVIOUS
    <2> QED BY <2>1, Smallest
  <1> QED BY <1>1

----------------------------------------------------------------------------
(* What the volumes after a sequence of commands are.                      *)

\* What a captured volume leads to is a volume, and the same from wherever it starts,
\* unless the ramp is empty.
LEMMA CapturedTyped ==
    ASSUME NEW abs \in BOOLEAN, NEW cmd \in Command \cup {NoCommand},
           ToCaptured(abs, cmd)
    PROVE  /\ cmd.original_volume \in Volume /\ cmd.original_volume \in Int
           /\ \A v \in Int : Captured(v, cmd) \in Int
           /\ \A v, w \in Int : v <= w => Captured(v, cmd) <= Captured(w, cmd)
  <1>1. cmd \in Command /\ cmd.kind = "Restore" /\ cmd.original_volume # None
    BY CommandKinds DEF ToCaptured
  <1>2. cmd.original_volume \in Volume
    BY <1>1, CommandKinds
  <1>3. cmd.original_volume \in Int
    BY <1>2 DEF Volume
  <1> QED BY <1>2, <1>3 DEF Captured

LEMMA AfterTyped ==
    ASSUME NEW abs \in BOOLEAN, NEW z \in BOOLEAN, NEW v \in Int,
           NEW cmd \in Command \cup {NoCommand}
    PROVE  Effect(cmd) \in Int /\ After(abs, z, v, cmd) \in Int
  <1>1. Effect(cmd) \in Int
    BY CommandKinds DEF Effect
  <1> QED BY <1>1, CapturedTyped DEF After, Stop

\* The recursion has a solution, so Volumes is one.
LEMMA VolumesDef ==
    ASSUME NEW abs \in BOOLEAN, NEW z \in BOOLEAN, NEW v \in Int,
           NEW cmds \in Seq(Command)
    PROVE  /\ Volumes(abs, z, v, cmds) \in [0..Len(cmds) -> Int]
           /\ Volumes(abs, z, v, cmds)[0] = v
           /\ \A i \in 1..Len(cmds) :
                Volumes(abs, z, v, cmds)[i] =
                    After(abs, z, Volumes(abs, z, v, cmds)[i - 1], cmds[i])
  <1> DEFINE Solves(f, n) ==
               /\ f \in [0..n -> Int] /\ f[0] = v
               /\ \A i \in 1..n : f[i] = After(abs, z, f[i - 1], cmds[i])
             Solved == {n \in 0..Len(cmds) : \E f : Solves(f, n)}
  <1>1. Len(cmds) \in Nat /\ \A i \in 1..Len(cmds) : cmds[i] \in Command
    OBVIOUS
  <1>2. 0 \in Solved
    <2>1. Solves([i \in 0..0 |-> v], 0)
      OBVIOUS
    <2> HIDE DEF Solves
    <2>2. \E f : Solves(f, 0)
      BY <2>1
    <2> QED BY <1>1, <2>2
  <1>3. ASSUME NEW n \in 1..Len(cmds), n - 1 \in Solved
        PROVE  n \in Solved
    <2>1. PICK f : Solves(f, n - 1)
      BY <1>3
    <2> DEFINE g == [i \in 0..n |-> IF i < n THEN f[i]
                                    ELSE After(abs, z, f[n - 1], cmds[n])]
    <2>2. f[n - 1] \in Int
      BY <2>1, <1>1
    <2>3. After(abs, z, f[n - 1], cmds[n]) \in Int
      BY <1>1, <2>2, AfterTyped
    <2>4. g \in [0..n -> Int] /\ g[0] = v
      BY <1>1, <2>1, <2>3
    <2>5. \A i \in 1..n : g[i] = After(abs, z, g[i - 1], cmds[i])
      BY <1>1, <2>1
    <2>6. Solves(g, n)
      BY <2>4, <2>5
    <2> HIDE DEF Solves
    <2>7. \E h : Solves(h, n)
      BY <2>6
    <2> QED BY <2>7
  <1>4. PICK f : Solves(f, Len(cmds))
    <2>1. \A n \in 1..Len(cmds) : n - 1 \in Solved => n \in Solved
      BY <1>3
    <2> HIDE DEF Solved
    <2>2. \A n \in 0..Len(cmds) : n \in Solved
      BY <1>1, <1>2, <2>1, Induction
    <2>3. Len(cmds) \in Solved
      BY <1>1, <2>2
    <2> QED BY <2>3 DEF Solved
  <1> DEFINE Rule(f0) == [i \in 0..Len(cmds) |->
                 IF i = 0 THEN v ELSE After(abs, z, f0[i - 1], cmds[i])]
  <1>5. f = Rule(f)
    BY <1>1, <1>4
  <1>6. Volumes(abs, z, v, cmds) = Rule(Volumes(abs, z, v, cmds))
    <2>1. Volumes(abs, z, v, cmds) = CHOOSE f0 : f0 = Rule(f0)
      BY DEF Volumes
    <2> HIDE DEF Rule
    <2> QED BY <1>5, <2>1
  <1> DEFINE g == Volumes(abs, z, v, cmds)
             Int0 == {i \in 0..Len(cmds) : g[i] \in Int}
  <1> HIDE DEF g
  <1>7. g[0] = v /\ \A i \in 1..Len(cmds) : g[i] = After(abs, z, g[i - 1], cmds[i])
    BY <1>1, <1>6 DEF g
  <1>8. ASSUME NEW i \in 1..Len(cmds), g[i - 1] \in Int
        PROVE  g[i] \in Int
    BY <1>1, <1>7, <1>8, AfterTyped
  <1>9. \A i \in 0..Len(cmds) : i \in Int0
    <2>1. 0 \in Int0
      BY <1>1, <1>7
    <2>2. \A i \in 1..Len(cmds) : i - 1 \in Int0 => i \in Int0
      BY <1>1, <1>8
    <2> HIDE DEF Int0
    <2> QED BY <1>1, <2>1, <2>2, Induction
  <1>10. g \in [0..Len(cmds) -> Int]
    BY <1>6, <1>9 DEF g
  <1> QED BY <1>7, <1>10 DEF g

\* A command at the end of a sequence leaves the volumes before it as they were.
LEMMA VolumesAppend ==
    ASSUME NEW abs \in BOOLEAN, NEW z \in BOOLEAN, NEW v \in Int,
           NEW cmds \in Seq(Command), NEW cmd \in Command
    PROVE  LET more == Volumes(abs, z, v, Append(cmds, cmd))
               last == Volumes(abs, z, v, cmds)[Len(cmds)]
           IN  /\ \A i \in 0..Len(cmds) : more[i] = Volumes(abs, z, v, cmds)[i]
               /\ more[Len(cmds) + 1] = After(abs, z, last, cmd)
  <1> DEFINE new == Append(cmds, cmd)
             f == Volumes(abs, z, v, cmds)
             g == Volumes(abs, z, v, new)
             Same == {i \in 0..Len(cmds) : g[i] = f[i]}
  <1>1. /\ Len(cmds) \in Nat /\ new \in Seq(Command)
        /\ Len(new) = Len(cmds) + 1 /\ new[Len(cmds) + 1] = cmd
        /\ \A i \in 1..Len(cmds) : new[i] = cmds[i]
    OBVIOUS
  <1> HIDE DEF new
  <1>2. /\ f[0] = v
        /\ \A i \in 1..Len(cmds) : f[i] = After(abs, z, f[i - 1], cmds[i])
    BY VolumesDef
  <1>3. /\ g[0] = v
        /\ \A i \in 1..(Len(cmds) + 1) : g[i] = After(abs, z, g[i - 1], new[i])
    <2>0. new \in Seq(Command)
      BY <1>1
    <2>1. /\ g[0] = v
          /\ \A i \in 1..Len(new) : g[i] = After(abs, z, g[i - 1], new[i])
      BY <2>0, VolumesDef
    <2> HIDE DEF g
    <2>2. Len(new) = Len(cmds) + 1
      BY <1>1
    <2> QED BY <2>1, <2>2
  <1> HIDE DEF f, g
  <1>4. \A i \in 0..Len(cmds) : i \in Same
    <2>1. 0 \in Same
      BY <1>1, <1>2, <1>3
    <2>2. \A i \in 1..Len(cmds) : i - 1 \in Same => i \in Same
      BY <1>1, <1>2, <1>3
    <2> HIDE DEF Same
    <2> QED BY <1>1, <2>1, <2>2, Induction
  <1>5. g[Len(cmds) + 1] = After(abs, z, f[Len(cmds)], cmd)
    <2>1. Len(cmds) \in Same /\ Len(cmds) + 1 \in 1..(Len(cmds) + 1)
      BY <1>1, <1>4
    <2> QED BY <1>1, <1>3, <2>1
  <1> QED BY <1>4, <1>5 DEF f, g, new

\* The volumes after the first command are those of the rest from where it leads.
LEMMA VolumesTail ==
    ASSUME NEW abs \in BOOLEAN, NEW z \in BOOLEAN, NEW v \in Int,
           NEW cmds \in Seq(Command),
           cmds # <<>>
    PROVE  LET rest == Volumes(abs, z, After(abs, z, v, Head(cmds)), Tail(cmds))
           IN  \A i \in 0..Len(Tail(cmds)) :
                  rest[i] = Volumes(abs, z, v, cmds)[i + 1]
  <1> DEFINE w == After(abs, z, v, Head(cmds))
             tail == Tail(cmds)
             f == Volumes(abs, z, v, cmds)
             g == Volumes(abs, z, w, tail)
             Same == {i \in 0..Len(tail) : g[i] = f[i + 1]}
  <1>1. /\ Len(cmds) \in Nat \ {0} /\ tail \in Seq(Command)
        /\ Head(cmds) = cmds[1] /\ Head(cmds) \in Command
        /\ Len(tail) = Len(cmds) - 1
        /\ \A i \in 1..Len(tail) : tail[i] = cmds[i + 1]
    OBVIOUS
  <1>2. /\ f[0] = v
        /\ \A i \in 1..Len(cmds) : f[i] = After(abs, z, f[i - 1], cmds[i])
    BY VolumesDef
  <1>3. w \in Int
    BY <1>1, AfterTyped
  <1> HIDE DEF w, tail
  <1>4. /\ g[0] = w
        /\ \A i \in 1..Len(tail) : g[i] = After(abs, z, g[i - 1], tail[i])
    BY <1>1, <1>3, VolumesDef
  <1> HIDE DEF f, g
  <1>5. f[1] = w
    BY <1>1, <1>2 DEF w
  <1>6. 0 \in Same
    BY <1>1, <1>4, <1>5
  <1>7. ASSUME NEW i \in 1..Len(tail), i - 1 \in Same
        PROVE  i \in Same
    <2>1. g[i] = After(abs, z, f[i], cmds[i + 1])
      BY <1>1, <1>4, <1>7
    <2>2. i + 1 \in 1..Len(cmds) /\ (i + 1) - 1 = i
      BY <1>1
    <2> QED BY <1>2, <2>1, <2>2
  <1>8. \A i \in 0..Len(tail) : i \in Same
    <2>1. Len(tail) \in Nat
      BY <1>1
    <2>2. \A i \in 1..Len(tail) : i - 1 \in Same => i \in Same
      BY <1>7
    <2> HIDE DEF Same
    <2> QED BY <1>6, <2>1, <2>2, Induction
  <1> QED BY <1>8 DEF f, g, w, tail

\* From a lower volume no command leads to a higher one.
LEMMA VolumesMonotone ==
    ASSUME NEW abs \in BOOLEAN, NEW z \in BOOLEAN, NEW v \in Int, NEW w \in Int, v <= w,
           NEW cmds \in Seq(Command)
    PROVE  \A i \in 0..Len(cmds) :
              Volumes(abs, z, v, cmds)[i] <= Volumes(abs, z, w, cmds)[i]
  <1> DEFINE f == Volumes(abs, z, v, cmds)
             g == Volumes(abs, z, w, cmds)
             Below == {i \in 0..Len(cmds) : f[i] <= g[i]}
  <1>1. Len(cmds) \in Nat /\ \A i \in 1..Len(cmds) : cmds[i] \in Command
    OBVIOUS
  <1>2. /\ f \in [0..Len(cmds) -> Int] /\ f[0] = v
        /\ \A i \in 1..Len(cmds) : f[i] = After(abs, z, f[i - 1], cmds[i])
    BY VolumesDef
  <1>3. /\ g \in [0..Len(cmds) -> Int] /\ g[0] = w
        /\ \A i \in 1..Len(cmds) : g[i] = After(abs, z, g[i - 1], cmds[i])
    BY VolumesDef
  <1> HIDE DEF f, g
  <1>4. 0 \in Below
    BY <1>1, <1>2, <1>3
  <1>5. ASSUME NEW i \in 1..Len(cmds), i - 1 \in Below
        PROVE  i \in Below
    <2>1. i - 1 \in 0..Len(cmds)
      BY <1>1
    <2>2. /\ f[i - 1] \in Int /\ g[i - 1] \in Int /\ f[i - 1] <= g[i - 1]
          /\ f[i] = After(abs, z, f[i - 1], cmds[i])
          /\ g[i] = After(abs, z, g[i - 1], cmds[i])
      BY <1>2, <1>3, <1>5, <2>1
    <2>3. Effect(cmds[i]) \in Int
      BY <1>1, AfterTyped
    <2>4. f[i] <= g[i]
      <3>1. CASE ToCaptured(abs, cmds[i])
        <4>1. Captured(f[i - 1], cmds[i]) <= Captured(g[i - 1], cmds[i])
          BY <1>1, <2>2, <3>1, CapturedTyped
        <4> QED BY <2>2, <3>1, <4>1 DEF After
      <3>2. CASE ~ ToCaptured(abs, cmds[i])
        BY <2>2, <2>3, <3>2 DEF After, Stop
      <3> QED BY <3>1, <3>2
    <2> QED BY <2>4
  <1>6. \A i \in 0..Len(cmds) : i \in Below
    <2> HIDE DEF Below
    <2> QED BY <1>1, <1>4, <1>5, Induction
  <1> QED BY <1>6 DEF f, g

----------------------------------------------------------------------------
(* BooksInv, the volume's books.  They are kept twice: z says whether the  *)
(* volumes stop at zero, as the TV's do, or go on below as the engine      *)
(* counts them, which is of use only while every key has had its effect.   *)

Counted(z) == clean /\ (ignored => z)
Balanced(z) ==
    Counted(z) => /\ Bounded(z, Loudest(z))
                  /\ ~ z /\ ~ Absolute => Final(z) = home - OpenSteps
SessionKept == (~ armed => ~ SessionOpen) /\ (~ SessionOpen => steps = 0)

LEMMA BooksParts ==
    BooksInv <=> SystemInv /\ SessionKept /\ \A z \in BOOLEAN : Balanced(z)
  <1>1. VolumeAccounted <=> (Counted(FALSE) /\ ~ Absolute =>
                                Final(FALSE) = home - OpenSteps)
    BY DEF VolumeAccounted, Counted, Destination
  <1>2. NeverAbove <=> \A z \in BOOLEAN : Counted(z) => Bounded(z, Loudest(z))
    BY DEF NeverAbove, Counted
  <1>3. (\A z \in BOOLEAN : Balanced(z)) <=> VolumeAccounted /\ NeverAbove
    <2> USE DEF Balanced
    <2> HIDE DEF Counted, Bounded, Loudest, Final
    <2> QED BY <1>1, <1>2
  <1> QED BY <1>3 DEF BooksInv, SessionKept

LEMMA NextBooksParts ==
    BooksInv' <=> SystemInv' /\ SessionKept' /\ \A z \in BOOLEAN : Balanced(z)'
  <1>1. (BooksInv <=> SystemInv /\ SessionKept /\ \A z \in BOOLEAN : Balanced(z))'
    BY BooksParts, PTL
  <1> QED BY <1>1

\* Where tv_task is bound for is a volume, and the levels start there.
LEMMA LevelsTyped ==
    ASSUME SystemInv, NEW z \in BOOLEAN
    PROVE  /\ home \in Nat /\ tv \in Nat /\ presses \in Nat
           /\ OpenSteps \in 0..MaxSteps /\ Absolute \in BOOLEAN
           /\ Loudest(z) \in Int
           /\ Underway(z) \in Int
           /\ Levels(z) \in [0..Len(queue) -> Int] /\ Levels(z)[0] = Underway(z)
           /\ Final(z) \in Int /\ Len(queue) \in Nat /\ queue \in Seq(Command)
  <1>1. /\ home \in Volume /\ tv \in Volume /\ left \in 0..MaxSteps
        /\ job \in Command \cup {NoCommand} /\ queue \in Seq(Command)
        /\ steps \in 0..MaxSteps /\ presses \in 0..Manual
    BY DEF SystemInv, TvTypeOK
  <1>2. /\ home \in Nat /\ tv \in Nat /\ left \in Int /\ presses \in Nat
        /\ OpenSteps \in 0..MaxSteps /\ Absolute \in BOOLEAN
    BY <1>1 DEF Volume, OpenSteps, Absolute
  <1>3. Loudest(z) \in Int
    BY <1>2 DEF Loudest, Larger
  <1>4. After(Absolute, z, tv, job) \in Int
    BY <1>1, <1>2, AfterTyped
  <1>5. Underway(z) \in Int
    BY <1>2, <1>4 DEF Underway
  <1>6. Levels(z) \in [0..Len(queue) -> Int] /\ Levels(z)[0] = Underway(z)
    BY <1>1, <1>2, <1>5, VolumesDef DEF Levels
  <1>7. Len(queue) \in Nat /\ Final(z) \in Int
    BY <1>1, <1>6 DEF Final
  <1> QED BY <1>1, <1>2, <1>3, <1>5, <1>6, <1>7

LEMMA BoundTyped ==
    SystemInv => \A z \in BOOLEAN :
                    Underway(z) \in Int /\ OpenSteps \in 0..MaxSteps
  BY LevelsTyped
LEMMA NextTyped ==
    SystemInv' => \A z \in BOOLEAN :
                    Underway(z)' \in Int /\ OpenSteps' \in 0..MaxSteps
  <1>1. (SystemInv => \A z \in BOOLEAN :
                        Underway(z) \in Int /\ OpenSteps \in 0..MaxSteps)'
    BY BoundTyped, PTL
  <1> QED BY <1>1

\* The bound is one that the steps of a session never exceed, counted as they have
\* an effect, and a test press raises it by as much as the volume at least.
LEMMA LoudestBounds ==
    ASSUME SystemInv, NEW z \in BOOLEAN
    PROVE  z => MaxSteps <= Loudest(z)
  <1>1. home \in Nat /\ presses \in Nat /\ MaxSteps \in Nat
    BY LevelsTyped, SystemAssumption DEF Engine!EngineAssumption
  <1> QED BY <1>1 DEF Loudest, Larger

\* A session opens and closes with its steps, and what the engine asks of the TV
\* is what its own count changes by.
LEMMA TickBooks ==
    ASSUME SystemInv, SessionKept, NEW db, NEW e, Engine!Tick(db, e)
    PROVE  /\ SessionKept'
           /\ original' \in {original, None}
           /\ OpenSteps' = OpenSteps - Effect(out')
           /\ out'.kind = "Restore" =>
                out'.original_volume = original /\ OpenSteps' = 0
  <1> USE DEF SystemInv, SessionKept, SessionOpen, OpenSteps, Engine!DuckingState
  <1>1. Effect(NoCommand) = 0 /\ Effect(VolumeDown) = -1
    BY CommandKinds DEF Effect
  <1>2. CASE Engine!TickDisarmed(e)
    BY <1>1, <1>2, CommandKinds DEF Engine!TickDisarmed, NoCommand
  <1>3. CASE Engine!TickRestore(db, e)
    <2>1. out' = Engine!RestoreOf(original, steps) /\ state = "Ducking"
      BY <1>3 DEF Engine!TickRestore, Engine!PathA, Engine!PathB
    <2>2. Effect(out') = steps
      BY <2>1 DEF Effect, VolumeDown, VolumeUp, Engine!VolumeDown, Engine!RestoreOf
    <2> QED BY <1>3, <2>1, <2>2 DEF Engine!TickRestore, Engine!RestoreOf
  <1>4. CASE Engine!TickVolumeDown(db, e)
    BY <1>1, <1>4, CommandKinds
       DEF Engine!TickVolumeDown, Engine!Triggered, VolumeDown
  <1>5. CASE Engine!TickDucking(db, e)
    BY <1>1, <1>5, CommandKinds
       DEF Engine!TickDucking, Engine!Triggered, NoCommand
  <1>6. CASE Engine!TickIdle(db, e)
    BY <1>1, <1>6, CommandKinds DEF Engine!TickIdle, NoCommand
  <1> QED BY <1>2, <1>3, <1>4, <1>5, <1>6 DEF Engine!Tick

LEMMA DisarmBooks ==
    ASSUME SystemInv, SessionKept, Engine!Disarm
    PROVE  /\ SessionKept'
           /\ original' \in {original, None}
           /\ OpenSteps' = OpenSteps - Effect(out')
           /\ out'.kind = "Restore" =>
                out'.original_volume = original /\ OpenSteps' = 0
  <1>1. state' = "Quiet" /\ steps' = 0 /\ original' = None
    BY DEF Engine!Disarm, Engine!Cleared
  <1>2. CASE state = "Ducking"
    <2>1. out' = Engine!RestoreOf(original, steps)
      BY <1>2 DEF Engine!Disarm
    <2>2. Effect(out') = steps
      BY <2>1 DEF Effect, VolumeDown, VolumeUp, Engine!VolumeDown, Engine!RestoreOf
    <2> QED BY <1>1, <1>2, <2>1, <2>2
         DEF OpenSteps, SessionKept, SessionOpen, Engine!RestoreOf, SystemInv
  <1>3. CASE state # "Ducking"
    <2>1. out' = NoCommand /\ OpenSteps = 0
      BY <1>3 DEF Engine!Disarm, NoCommand, OpenSteps, SessionKept, SessionOpen
    <2>2. Effect(out') = 0
      BY <2>1, CommandKinds DEF Effect
    <2> QED BY <1>1, <2>1, <2>2, CommandKinds
         DEF OpenSteps, SessionKept, SessionOpen
  <1> QED BY <1>2, <1>3

\* A command in the channel adds its effect to where the TV is bound for.
LEMMA AppendBooks ==
    ASSUME SystemInv, NEW z \in BOOLEAN, NEW cmd \in Command,
           queue' = Append(queue, cmd), UNCHANGED <<brand, phase, job, left, tv>>
    PROVE  /\ Final(z)' = After(Absolute, z, Final(z), cmd)
           /\ \A i \in 0..Len(queue') :
                \/ Levels(z)'[i] = Final(z)'
                \/ i \in 0..Len(queue) /\ Levels(z)'[i] = Levels(z)[i]
           /\ \A i \in DOMAIN queue' :
                queue'[i] = cmd \/ (i \in DOMAIN queue /\ queue'[i] = queue[i])
  <1>1. /\ queue \in Seq(Command) /\ Len(queue) \in Nat
        /\ Underway(z) \in Int /\ Absolute \in BOOLEAN
    BY LevelsTyped
  <1>2. /\ Len(queue') = Len(queue) + 1
        /\ DOMAIN queue = 1..Len(queue) /\ DOMAIN queue' = 1..(Len(queue) + 1)
        /\ queue'[Len(queue) + 1] = cmd
        /\ \A i \in 1..Len(queue) : queue'[i] = queue[i]
    BY <1>1
  <1>3. Levels(z)' = Volumes(Absolute, z, Underway(z), Append(queue, cmd))
    BY DEF Levels, Underway, Absolute
  <1>4. /\ \A i \in 0..Len(queue) : Levels(z)'[i] = Levels(z)[i]
        /\ Levels(z)'[Len(queue) + 1] =
              After(Absolute, z, Levels(z)[Len(queue)], cmd)
    BY <1>1, <1>3, VolumesAppend DEF Levels
  <1>5. /\ Final(z)' = Levels(z)'[Len(queue) + 1]
        /\ Final(z) = Levels(z)[Len(queue)]
    BY <1>2 DEF Final
  <1> QED BY <1>1, <1>2, <1>4, <1>5

\* The channel is left alone, and so is where the TV is bound for.
LEMMA StayBooks ==
    ASSUME NEW z \in BOOLEAN, UNCHANGED <<queue, brand, phase, job, left, tv>>
    PROVE  Levels(z)' = Levels(z) /\ Final(z)' = Final(z)
  <1>1. Levels(z)' = Levels(z)
    BY DEF Levels, Underway, Absolute
  <1> QED BY <1>1 DEF Final

\* A captured volume in the channel is one of the engine's or was there before.
LEMMA CapturedSent ==
    ASSUME NEW low \in Int, NEW top \in Int, low <= top, CapturedAtMost(low),
           SystemInv, NEW cmd \in Command \cup {NoCommand},
           original' \in {original, None}, UNCHANGED job,
           \A i \in DOMAIN queue' :
                queue'[i] = cmd \/ (i \in DOMAIN queue /\ queue'[i] = queue[i]),
           cmd.kind = "Restore" => cmd.original_volume = original
    PROVE  CapturedAtMost(top)'
  <1>0. /\ original \in Volume \cup {None}
        /\ queue \in Seq(Command) /\ job \in Command \cup {NoCommand}
    BY DEF SystemInv, TvTypeOK
  <1>1. ASSUME NEW v \in Volume \cup {None}, AtMost(v, low)
        PROVE  AtMost(v, top)
    BY <1>1 DEF AtMost, Volume
  <1>2. AtMost(original, low) /\ AtMost(original', top)
    BY <1>0, <1>1 DEF CapturedAtMost, AtMost
  <1>3. job'.kind = "Restore" => AtMost(job'.original_volume, top)
    BY <1>0, <1>1, CommandKinds DEF CapturedAtMost
  <1>4. ASSUME NEW i \in DOMAIN queue', queue'[i].kind = "Restore"
        PROVE  AtMost(queue'[i].original_volume, top)
    <2>1. CASE queue'[i] = cmd
      BY <1>0, <1>1, <1>2, <1>4, <2>1
    <2>2. CASE i \in DOMAIN queue /\ queue'[i] = queue[i]
      <3>1. queue[i] \in Command
        BY <1>0, <2>2
      <3>2. queue[i].original_volume \in Volume \cup {None}
        BY <1>4, <2>2, <3>1, CommandKinds
      <3> QED BY <1>1, <1>4, <2>2, <3>2 DEF CapturedAtMost
    <2> QED BY <2>1, <2>2
  <1> QED BY <1>2, <1>3, <1>4 DEF CapturedAtMost, AtMost

\* A command of the engine keeps the books: the session's steps are repaid by it.
LEMMA CommandBooks ==
    ASSUME BooksInv, SystemInv', out' \in Command \cup {NoCommand}, Send(out'),
           UNCHANGED <<brand, home, presses, ignored, phase, job, left, tv>>,
           SessionKept', original' \in {original, None},
           OpenSteps' = OpenSteps - Effect(out'),
           out'.kind = "Restore" => out'.original_volume = original /\ OpenSteps' = 0
    PROVE  BooksInv'
  <1> SUFFICES ASSUME NEW z \in BOOLEAN, Counted(z)'
               PROVE  /\ Bounded(z, Loudest(z))'
                      /\ ~ z /\ ~ Absolute' => Final(z)' = home' - OpenSteps'
    BY NextBooksParts DEF Balanced
  <1>1. SystemInv /\ Balanced(z)
    BY BooksParts
  <1>2. Counted(z) /\ (out' = NoCommand \/ (HasRoom /\ queue' = Append(queue, out')))
    BY <1>1 DEF Counted, Send, SystemInv, TvTypeOK
  <1>3. /\ Bounded(z, Loudest(z))
        /\ ~ z /\ ~ Absolute => Final(z) = home - OpenSteps
    BY <1>1, <1>2 DEF Balanced
  <1>4. Absolute' = Absolute /\ Loudest(z)' = Loudest(z)
    BY DEF Absolute, Loudest
  <1>5. /\ home \in Nat /\ OpenSteps \in 0..MaxSteps /\ OpenSteps' \in 0..MaxSteps
        /\ Final(z) \in Int /\ Levels(z) \in [0..Len(queue) -> Int]
        /\ Len(queue) \in Nat /\ Loudest(z) \in Int /\ Absolute \in BOOLEAN
        /\ z => MaxSteps <= Loudest(z)
    BY <1>1, LevelsTyped, NextTyped, LoudestBounds
  <1>6. Effect(out') \in Int
    BY AfterTyped
  <1>7. /\ tv <= Loudest(z) /\ CapturedAtMost(Loudest(z))
        /\ \A i \in 0..Len(queue) : Levels(z)[i] <= Loudest(z)
        /\ Final(z) + OpenSteps <= Loudest(z)
    BY <1>3 DEF Bounded
  <1>10. PICK top \in Int : top = Loudest(z)
    BY <1>5
  <1>11. ASSUME \A i \in DOMAIN queue' :
                    queue'[i] = out' \/ (i \in DOMAIN queue /\ queue'[i] = queue[i])
         PROVE  CapturedAtMost(Loudest(z))'
    <2>1. CapturedAtMost(top)
      BY <1>7, <1>10
    <2> DEFINE cmd == out'
    <2>2. cmd \in Command \cup {NoCommand}
      OBVIOUS
    <2>3. /\ \A i \in DOMAIN queue' :
                    queue'[i] = cmd \/ (i \in DOMAIN queue /\ queue'[i] = queue[i])
          /\ cmd.kind = "Restore" => cmd.original_volume = original
      BY <1>11
    <2> HIDE DEF cmd
    <2>4. CapturedAtMost(top)'
      BY <1>1, <1>10, <2>1, <2>2, <2>3, CapturedSent
    <2>5. top = Loudest(z)'
      BY <1>4, <1>10
    <2> QED BY <2>4, <2>5 DEF CapturedAtMost
  <1>8. CASE out' = NoCommand
    <2>1. queue' = queue /\ Effect(out') = 0
      BY <1>8, CommandKinds DEF Send, Effect
    <2>2. Levels(z)' = Levels(z) /\ Final(z)' = Final(z)
      BY <2>1, StayBooks
    <2>3. OpenSteps' = OpenSteps
      BY <1>5, <2>1
    <2>4. CapturedAtMost(Loudest(z))'
      BY <2>1, <1>8, <1>11
    <2> QED BY <1>3, <1>4, <1>7, <2>1, <2>2, <2>3, <2>4 DEF Bounded
  <1>9. CASE out' # NoCommand
    <2>1. out' \in Command /\ queue' = Append(queue, out')
      BY <1>2, <1>9
    <2>2. /\ Final(z)' = After(Absolute, z, Final(z), out')
          /\ \A i \in 0..Len(queue') :
                \/ Levels(z)'[i] = Final(z)'
                \/ i \in 0..Len(queue) /\ Levels(z)'[i] = Levels(z)[i]
          /\ \A i \in DOMAIN queue' :
                queue'[i] = out' \/ (i \in DOMAIN queue /\ queue'[i] = queue[i])
      BY <1>1, <2>1, AppendBooks
    <2>3. Final(z)' \in Int /\ Final(z)' + OpenSteps' <= Loudest(z)
      <3>1. CASE ToCaptured(Absolute, out')
        <4>1. /\ OpenSteps' = 0 /\ original # None /\ out'.original_volume = original
              /\ out'.original_volume \in Int
          BY <1>5, <2>1, <3>1, CapturedTyped DEF ToCaptured
        <4>2. original <= Loudest(z)
          BY <1>7, <4>1 DEF CapturedAtMost, AtMost
        <4>3. Final(z)' = Captured(Final(z), out')
          BY <2>2, <3>1 DEF After
        <4> QED BY <1>5, <1>7, <4>1, <4>2, <4>3 DEF Captured
      <3>2. CASE ~ ToCaptured(Absolute, out')
        <4>1. Final(z)' = Stop(z, Final(z) + Effect(out'))
          BY <2>2, <3>2 DEF After
        <4> QED BY <1>5, <1>6, <1>7, <4>1 DEF Stop
      <3> QED BY <3>1, <3>2
    <2>4. \A i \in 0..Len(queue') : Levels(z)'[i] <= Loudest(z)
      <3>1. Final(z)' <= Loudest(z)
        BY <1>5, <2>3
      <3> QED BY <1>7, <2>2, <3>1
    <2>5. CapturedAtMost(Loudest(z))'
      BY <2>2, <1>11
    <2>6. ASSUME ~ z, ~ Absolute
          PROVE  Final(z)' = home - OpenSteps'
      <3>1. Final(z)' = Final(z) + Effect(out')
        BY <2>2, <2>6 DEF After, ToCaptured, Stop
      <3> QED BY <1>3, <1>5, <1>6, <2>6, <3>1
    <2> QED BY <1>4, <1>7, <2>3, <2>4, <2>5, <2>6 DEF Bounded
  <1> QED BY <1>8, <1>9

\* A test press moves the books by what it sends: what the viewer wants changes as
\* the volume does, and the bound rises by as much at least.
LEMMA PressBooks ==
    ASSUME BooksInv, SystemInv', NEW cmd \in {VolumeUp, VolumeDown}, WsVolume(cmd)
    PROVE  BooksInv'
  <1>1. SystemInv /\ SessionKept
    BY BooksParts
  <1>2. UNCHANGED <<armed, state, steps, original, brand, ignored, phase, job, left, tv>>
    BY DEF WsVolume, engine, task
  <1>3. SessionKept' /\ OpenSteps' = OpenSteps /\ Absolute' = Absolute
    BY <1>1, <1>2 DEF SessionKept, SessionOpen, OpenSteps, Absolute
  <1>4. /\ cmd \in Command /\ cmd.kind # "Restore"
        /\ ~ ToCaptured(Absolute, cmd)
        /\ \/ cmd = VolumeUp /\ Effect(cmd) = 1 /\ home' = home + 1
           \/ cmd = VolumeDown /\ Effect(cmd) = -1 /\ home' = home - 1
    BY CommandKinds DEF Effect, WsVolume, ToCaptured
  <1> SUFFICES ASSUME NEW z \in BOOLEAN, Counted(z)'
               PROVE  /\ Bounded(z, Loudest(z))'
                      /\ ~ z /\ ~ Absolute' => Final(z)' = home' - OpenSteps'
    BY <1>3, NextBooksParts DEF Balanced
  <1>5. Counted(z) /\ queue' = Append(queue, cmd) /\ presses' = presses + 1
    <2>1. clean \in BOOLEAN /\ clean' /\ ignored' = ignored
      BY <1>1, <1>2 DEF Counted, SystemInv, TvTypeOK
    <2>2. clean' = (clean /\ HasRoom)
      BY DEF WsVolume
    <2>3. clean /\ HasRoom
      BY <2>1, <2>2
    <2> QED BY <2>1, <2>3 DEF Counted, WsVolume
  <1>6. /\ tv <= Loudest(z) /\ CapturedAtMost(Loudest(z))
        /\ \A i \in 0..Len(queue) : Levels(z)[i] <= Loudest(z)
        /\ Final(z) + OpenSteps <= Loudest(z)
        /\ ~ z /\ ~ Absolute => Final(z) = home - OpenSteps
    BY <1>5, BooksParts DEF Balanced, Bounded
  <1>7. /\ home \in Nat /\ presses \in Nat /\ OpenSteps \in 0..MaxSteps
        /\ Final(z) \in Int /\ Levels(z) \in [0..Len(queue) -> Int]
        /\ Len(queue) \in Nat /\ Loudest(z) \in Int /\ tv \in Nat /\ MaxSteps \in Nat
    BY <1>1, LevelsTyped, SystemAssumption DEF Engine!EngineAssumption
  <1>8. /\ Loudest(z)' \in Int /\ Loudest(z)' >= Loudest(z)
        /\ Loudest(z)' >= Loudest(z) + Effect(cmd)
        /\ z => Loudest(z)' >= MaxSteps
    BY <1>4, <1>5, <1>7 DEF Loudest, Larger
  <1>9. /\ Final(z)' = Stop(z, Final(z) + Effect(cmd))
        /\ \A i \in 0..Len(queue') :
              \/ Levels(z)'[i] = Final(z)'
              \/ i \in 0..Len(queue) /\ Levels(z)'[i] = Levels(z)[i]
        /\ \A i \in DOMAIN queue' :
              queue'[i] = cmd \/ (i \in DOMAIN queue /\ queue'[i] = queue[i])
    BY <1>1, <1>2, <1>4, <1>5, AppendBooks DEF After
  <1>10. Final(z)' \in Int /\ Final(z)' + OpenSteps' <= Loudest(z)'
    BY <1>3, <1>4, <1>6, <1>7, <1>8, <1>9 DEF Stop
  <1>11. \A i \in 0..Len(queue') : Levels(z)'[i] <= Loudest(z)'
    <2>1. Final(z)' <= Loudest(z)'
      BY <1>3, <1>7, <1>8, <1>10
    <2>2. \A i \in 0..Len(queue) : Levels(z)[i] <= Loudest(z)'
      BY <1>6, <1>7, <1>8
    <2> QED BY <1>9, <2>1, <2>2
  <1>12. CapturedAtMost(Loudest(z))'
    <2>1. PICK low \in Int : low = Loudest(z)
      BY <1>7
    <2>2. PICK top \in Int : top = Loudest(z)'
      BY <1>8
    <2>3. low <= top /\ CapturedAtMost(low) /\ UNCHANGED job
      BY <1>2, <1>6, <1>8, <2>1, <2>2
    <2>4. CapturedAtMost(top)'
      BY <1>1, <1>2, <1>4, <1>9, <2>3, CapturedSent
    <2> QED BY <2>2, <2>4 DEF CapturedAtMost
  <1>13. ~ z /\ ~ Absolute' => Final(z)' = home' - OpenSteps'
    BY <1>3, <1>4, <1>6, <1>7, <1>9 DEF Stop
  <1>14. tv' <= Loudest(z)'
    BY <1>2, <1>6, <1>7, <1>8
  <1> QED BY <1>10, <1>11, <1>12, <1>13, <1>14 DEF Bounded

LEMMA SendersKeepBooks ==
    ASSUME BooksInv, SystemInv',
           \/ \E db \in Reading, e \in Elapsed : DuckingTask(db, e)
           \/ WsArm \/ WsDisarm
           \/ \E cmd \in {VolumeUp, VolumeDown} : WsVolume(cmd)
    PROVE  BooksInv'
  <1>0. SystemInv /\ SessionKept
    BY BooksParts
  <1>1. CASE \E db \in Reading, e \in Elapsed : DuckingTask(db, e)
    <2> PICK db \in Reading, e \in Elapsed : DuckingTask(db, e)
      BY <1>1
    <2>1. out' \in Command \cup {NoCommand}
      BY <1>0, TickReturns DEF DuckingTask
    <2>2. /\ Engine!Tick(db, e) /\ Send(out')
          /\ UNCHANGED <<brand, home, presses, ignored, phase, job, left, tv>>
      BY DEF DuckingTask, task
    <2> QED BY <1>0, <2>1, <2>2, TickBooks, CommandBooks
  <1>2. CASE WsDisarm
    <2>1. out' \in Command \cup {NoCommand}
      BY <1>0, <1>2, DisarmReturns DEF WsDisarm
    <2>2. /\ Engine!Disarm /\ Send(out')
          /\ UNCHANGED <<brand, home, presses, ignored, phase, job, left, tv>>
      BY <1>2 DEF WsDisarm, task
    <2> QED BY <1>0, <2>1, <2>2, DisarmBooks, CommandBooks
  <1>3. CASE WsArm
    <2>1. /\ UNCHANGED <<state, steps, original, brand, queue, phase, job, left, tv,
                         home, presses, clean, ignored>>
          /\ armed'
      BY <1>3 DEF WsArm, Engine!Arm, Engine!session, task
    <2>2. SessionKept' /\ OpenSteps' = OpenSteps /\ Absolute' = Absolute
      BY <1>0, <2>1 DEF SessionKept, SessionOpen, OpenSteps, Absolute
    <2>3. ASSUME NEW z \in BOOLEAN
          PROVE  Balanced(z)'
      <3>1. Balanced(z)
        BY BooksParts
      <3>2. /\ Levels(z)' = Levels(z) /\ Final(z)' = Final(z)
            /\ Loudest(z)' = Loudest(z) /\ (Counted(z)' <=> Counted(z))
        BY <2>1, StayBooks DEF Loudest, Counted
      <3>3. Bounded(z, Loudest(z)) => Bounded(z, Loudest(z))'
        BY <2>1, <2>2, <3>2 DEF Bounded, CapturedAtMost
      <3> QED BY <2>1, <2>2, <3>1, <3>2, <3>3 DEF Balanced
    <2> QED BY <2>2, <2>3, NextBooksParts
  <1>4. CASE \E cmd \in {VolumeUp, VolumeDown} : WsVolume(cmd)
    BY <1>4, PressBooks
  <1> QED BY <1>1, <1>2, <1>3, <1>4

\* A step of tv_task keeps the books if the commands that are left, from the volume
\* v, lead where they led before, and the TV is bound for v, or at the loud end of
\* the scale for less.
LEMMA TvKeepsBooks ==
    ASSUME SystemInv, SystemInv', NEW z \in BOOLEAN, Balanced(z),
           UNCHANGED <<brand, home, presses>>,
           Counted(z)' => /\ Counted(z) /\ OpenSteps' = OpenSteps
                          /\ tv' <= Loudest(z) /\ CapturedAtMost(Loudest(z))',
           NEW v \in Int,
           Counted(z)' => Underway(z)' <= v /\ (~ z /\ ~ Absolute => Underway(z)' = v),
           Volumes(Absolute, z, v, queue')[Len(queue')] = Final(z),
           \A i \in 0..Len(queue') : \E j \in 0..Len(queue) :
              Volumes(Absolute, z, v, queue')[i] = Levels(z)[j]
    PROVE  Balanced(z)'
  <1> SUFFICES ASSUME Counted(z)'
               PROVE  /\ Bounded(z, Loudest(z))'
                      /\ ~ z /\ ~ Absolute' => Final(z)' = home' - OpenSteps'
    BY DEF Balanced
  <1>1. Absolute' = Absolute /\ Loudest(z)' = Loudest(z)
    BY DEF Absolute, Loudest
  <1>2. /\ home \in Nat /\ OpenSteps \in 0..MaxSteps /\ Final(z) \in Int
        /\ Absolute \in BOOLEAN /\ Loudest(z) \in Int
        /\ Levels(z) \in [0..Len(queue) -> Int]
    BY LevelsTyped
  <1>3. Underway(z)' \in Int
    BY NextTyped
  <1>4. queue' \in Seq(Command) /\ Len(queue') \in Nat
    BY DEF SystemInv, TvTypeOK
  <1>5. /\ \A i \in 0..Len(queue) : Levels(z)[i] <= Loudest(z)
        /\ Final(z) + OpenSteps <= Loudest(z)
        /\ ~ z /\ ~ Absolute => Final(z) = home - OpenSteps
    BY DEF Balanced, Bounded
  <1> DEFINE w == Underway(z)'
             q == queue'
  <1>6. Levels(z)' = Volumes(Absolute, z, w, q)
    BY <1>1 DEF Levels
  <1>7. w \in Int /\ w <= v /\ (~ z /\ ~ Absolute => w = v)
    BY <1>3
  <1>8. q \in Seq(Command) /\ Len(q) \in Nat
    BY <1>4
  <1>9. /\ Volumes(Absolute, z, v, q)[Len(q)] = Final(z)
        /\ \A i \in 0..Len(q) : \E j \in 0..Len(queue) :
              Volumes(Absolute, z, v, q)[i] = Levels(z)[j]
    OBVIOUS
  <1>10. Final(z)' = Levels(z)'[Len(q)]
    BY DEF Final
  <1>11. Len(queue') = Len(q)
    OBVIOUS
  <1> HIDE DEF w, q
  <1>12. \A i \in 0..Len(q) :
           Volumes(Absolute, z, w, q)[i] <= Volumes(Absolute, z, v, q)[i]
    BY <1>2, <1>7, <1>8, VolumesMonotone
  <1>13. /\ Volumes(Absolute, z, w, q) \in [0..Len(q) -> Int]
         /\ Volumes(Absolute, z, v, q) \in [0..Len(q) -> Int]
    BY <1>2, <1>7, <1>8, VolumesDef
  <1>14. \A i \in 0..Len(q) : Volumes(Absolute, z, v, q)[i] <= Loudest(z)
    BY <1>5, <1>9
  <1>15. \A i \in 0..Len(q) : Levels(z)'[i] <= Loudest(z)
    BY <1>2, <1>6, <1>12, <1>13, <1>14
  <1>16. Len(q) \in 0..Len(q)
    BY <1>8
  <1>17. Final(z)' \in Int /\ Final(z)' <= Final(z)
    BY <1>6, <1>9, <1>10, <1>12, <1>13, <1>16
  <1>18. ~ z /\ ~ Absolute => Final(z)' = Final(z)
    BY <1>6, <1>7, <1>9, <1>10
  <1>19. Final(z)' + OpenSteps' <= Loudest(z)'
    BY <1>1, <1>2, <1>5, <1>17
  <1> QED BY <1>1, <1>5, <1>11, <1>15, <1>18, <1>19 DEF Bounded

\* The channel is left alone: where the TV is bound for is all that matters.
LEMMA SameQueueBooks ==
    ASSUME BooksInv, SystemInv', SessionKept',
           UNCHANGED <<brand, home, presses, queue>>,
           clean' => clean /\ OpenSteps' = OpenSteps, ignored => ignored',
           \A z \in BOOLEAN :
              Counted(z)' => /\ tv' <= Loudest(z) /\ CapturedAtMost(Loudest(z))'
                             /\ Underway(z)' <= Underway(z)
                             /\ ~ z /\ ~ Absolute => Underway(z)' = Underway(z)
    PROVE  BooksInv'
  <1> SUFFICES ASSUME NEW z \in BOOLEAN PROVE Balanced(z)'
    BY NextBooksParts
  <1>1. SystemInv /\ Balanced(z)
    BY BooksParts
  <1>2. Underway(z) \in Int
    BY <1>1, LevelsTyped
  <1>3. Volumes(Absolute, z, Underway(z), queue') = Levels(z)
    BY DEF Levels
  <1>4. Levels(z)[Len(queue')] = Final(z)
    BY DEF Final
  <1>5. \A i \in 0..Len(queue') : \E j \in 0..Len(queue) :
           Levels(z)[i] = Levels(z)[j]
    OBVIOUS
  <1>6. Counted(z)' => Counted(z) /\ OpenSteps' = OpenSteps
    BY DEF Counted
  <1>7. PICK v \in Int : v = Underway(z)
    BY <1>2
  <1>8. /\ Volumes(Absolute, z, v, queue')[Len(queue')] = Final(z)
        /\ \A i \in 0..Len(queue') : \E j \in 0..Len(queue) :
              Volumes(Absolute, z, v, queue')[i] = Levels(z)[j]
    BY <1>3, <1>4, <1>5, <1>7
  <1>9. Counted(z)' => /\ Counted(z) /\ OpenSteps' = OpenSteps
                       /\ tv' <= Loudest(z) /\ CapturedAtMost(Loudest(z))'
    BY <1>6
  <1>10. Counted(z)' => Underway(z)' <= v /\ (~ z /\ ~ Absolute => Underway(z)' = v)
    BY <1>7
  <1> QED BY <1>1, <1>8, <1>9, <1>10, TvKeepsBooks

\* A command is taken: the TV is bound for where it leads, as it was before.
LEMMA TakenBooks ==
    ASSUME BooksInv, SystemInv', SessionKept', OpenSteps' = OpenSteps,
           UNCHANGED <<brand, home, presses, clean, ignored, tv>>,
           queue # <<>>, queue' = Tail(queue),
           \A z \in BOOLEAN :
              /\ Underway(z) = tv
              /\ Underway(z)' = After(Absolute, z, tv, Head(queue))
              /\ Counted(z) => CapturedAtMost(Loudest(z))'
    PROVE  BooksInv'
  <1> SUFFICES ASSUME NEW z \in BOOLEAN PROVE Balanced(z)'
    BY NextBooksParts
  <1>1. SystemInv /\ Balanced(z) /\ Absolute \in BOOLEAN /\ tv \in Int
    BY BooksParts, LevelsTyped
  <1>2. /\ queue \in Seq(Command) /\ Len(queue) \in Nat \ {0}
        /\ Head(queue) \in Command /\ Len(Tail(queue)) = Len(queue) - 1
    BY <1>1 DEF SystemInv, TvTypeOK
  <1>3. After(Absolute, z, tv, Head(queue)) \in Int
    BY <1>1, <1>2, AfterTyped
  <1>4. PICK v \in Int : v = After(Absolute, z, tv, Head(queue))
    BY <1>3
  <1>5. \A i \in 0..Len(queue') :
           Volumes(Absolute, z, v, queue')[i] = Levels(z)[i + 1]
    BY <1>1, <1>2, <1>4, VolumesTail DEF Levels
  <1>6. Volumes(Absolute, z, v, queue')[Len(queue')] = Final(z)
    <2>1. Len(queue') \in 0..Len(queue') /\ Len(queue') + 1 = Len(queue)
      BY <1>2
    <2> QED BY <1>5, <2>1 DEF Final
  <1>7. \A i \in 0..Len(queue') : \E j \in 0..Len(queue) :
           Volumes(Absolute, z, v, queue')[i] = Levels(z)[j]
    <2>1. \A i \in 0..Len(queue') : i + 1 \in 0..Len(queue)
      BY <1>2
    <2> QED BY <1>5, <2>1
  <1>8. Underway(z)' = v
    BY <1>4
  <1>9. Counted(z)' => /\ Counted(z) /\ OpenSteps' = OpenSteps
                       /\ tv' <= Loudest(z) /\ CapturedAtMost(Loudest(z))'
    BY <1>1 DEF Counted, Balanced, Bounded
  <1>10. Underway(z)' <= v
    BY <1>8
  <1> QED BY <1>1, <1>6, <1>7, <1>8, <1>9, <1>10, TvKeepsBooks

\* A restore that ends well closes no session but its own, which has no steps left
\* to undo.
LEMMA ClearBooks ==
    ASSUME SessionKept, NEW ok \in BOOLEAN, ClearAfterRestore(ok)
    PROVE  /\ SessionKept' /\ original' \in {original, None}
           /\ ok => OpenSteps' = OpenSteps
  <1> USE DEF SessionKept, SessionOpen, OpenSteps
  <1>1. CASE UNCHANGED engine
    BY <1>1 DEF engine
  <1>2. CASE (~ ok \/ state = "Restoring") /\ Engine!ClearDuckState
    BY <1>2 DEF Engine!ClearDuckState, Engine!Cleared
  <1> QED BY <1>1, <1>2 DEF ClearAfterRestore

LEMMA SameSession ==
    ASSUME SessionKept, UNCHANGED engine
    PROVE  /\ SessionKept' /\ original' \in {original, None}
           /\ OpenSteps' = OpenSteps
  BY DEF engine, SessionKept, SessionOpen, OpenSteps

\* A command that starts is bound for where it leads, also one that is done at once.
LEMMA BeginBooks ==
    ASSUME SystemInv, SessionKept, NEW cmd \in Command, Begin(cmd),
           UNCHANGED <<brand, tv>>, NEW z \in BOOLEAN
    PROVE  /\ SessionKept' /\ original' \in {original, None}
           /\ OpenSteps' = OpenSteps
           /\ job' \in {cmd, NoCommand}
           /\ Underway(z)' = After(Absolute, z, tv, cmd)
  <1>1. Absolute' = Absolute /\ tv' = tv /\ tv \in Nat
    BY LevelsTyped DEF Absolute
  <1>2. CASE cmd = VolumeDown \/ cmd = VolumeUp
    <2>1. phase' \in {"query", "press"} /\ job' = cmd /\ UNCHANGED engine
      BY <1>2, CommandKinds DEF Begin
    <2>2. Underway(z)' = After(Absolute, z, tv, cmd)
      BY <1>1, <2>1 DEF Underway
    <2> QED BY <2>1, <2>2, SameSession
  <1>3. CASE cmd.kind = "Restore" /\ RampLength(cmd) > 0
    <2>1. cmd # VolumeDown /\ cmd # VolumeUp /\ ~ (RampLength(cmd) = 0)
      BY <1>3, CommandKinds
    <2>2. /\ phase' = "ramp" /\ job' = cmd /\ left' = RampLength(cmd)
          /\ UNCHANGED engine
      BY <1>3, <2>1 DEF Begin
    <2>3. Underway(z)' = After(Absolute, z, tv, cmd)
      <3>1. CASE ToCaptured(Absolute, cmd)
        BY <1>1, <2>2, <3>1 DEF Underway
      <3>2. CASE ~ ToCaptured(Absolute, cmd)
        <4>1. RampLength(cmd) = cmd.steps /\ Effect(cmd) = cmd.steps
          BY <1>3, <2>1, <3>2 DEF RampLength, ByVolume, ToCaptured, Effect
        <4>2. cmd.steps \in Nat
          BY <1>3, <4>1, CommandKinds
        <4>3. Underway(z)' = tv + cmd.steps
          BY <1>1, <2>2, <3>2, <4>1 DEF Underway
        <4> QED BY <1>1, <3>2, <4>1, <4>2, <4>3 DEF After, Stop
      <3> QED BY <3>1, <3>2
    <2> QED BY <2>2, <2>3, SameSession
  <1>4. CASE cmd.kind = "Restore" /\ RampLength(cmd) = 0
    <2>1. cmd # VolumeDown /\ cmd # VolumeUp /\ ~ (RampLength(cmd) > 0)
      BY <1>4, CommandKinds
    <2>2. AfterCommand(TRUE) /\ ClearAfterRestore(TRUE)
      BY <1>4, <2>1 DEF Begin
    <2>3. phase' = "ready" /\ job' = NoCommand
      BY <2>2 DEF AfterCommand
    <2>4. Underway(z)' = tv
      <3>1. ~ ToCaptured(Absolute, NoCommand) /\ Effect(NoCommand) = 0
        BY CommandKinds DEF ToCaptured, Effect, NoCommand, VolumeDown, VolumeUp,
           Engine!NoCommand, Engine!VolumeDown
      <3>2. Underway(z)' = Stop(z, tv)
        BY <1>1, <2>3, <3>1 DEF Underway, After
      <3> QED BY <1>1, <3>2 DEF Stop
    <2>5. After(Absolute, z, tv, cmd) = tv
      <3>1. CASE ToCaptured(Absolute, cmd)
        BY <1>4, <3>1 DEF After, Captured, ToCaptured, RampLength, ByVolume
      <3>2. CASE ~ ToCaptured(Absolute, cmd)
        <4>1. Effect(cmd) = 0
          BY <1>4, <2>1, <3>2 DEF RampLength, ByVolume, ToCaptured, Effect
        <4> QED BY <1>1, <3>2, <4>1 DEF After, Stop
      <3> QED BY <3>1, <3>2
    <2> QED BY <2>2, <2>3, <2>4, <2>5, ClearBooks
  <1>5. cmd.kind = "Restore" => RampLength(cmd) \in 0..MaxSteps
    BY RampBounds
  <1> QED BY <1>2, <1>3, <1>4, <1>5, CommandKinds

\* While nothing is executing the TV is bound for where it is.
LEMMA AtRest ==
    ASSUME SystemInv, phase \in {"off", "ready"}
    PROVE  \A z \in BOOLEAN : Underway(z) = tv
  <1>1. job = NoCommand /\ phase # "ramp" /\ tv \in Nat
    BY LevelsTyped DEF SystemInv
  <1>2. ~ ToCaptured(Absolute, job) /\ Effect(job) = 0
    BY <1>1, CommandKinds DEF ToCaptured, Effect, NoCommand, VolumeDown, VolumeUp,
       Engine!NoCommand, Engine!VolumeDown
  <1> QED BY <1>1, <1>2 DEF Underway, After, Stop

LEMMA NextAtRest ==
    SystemInv' /\ phase' \in {"off", "ready"} =>
        \A z \in BOOLEAN : Underway(z)' = tv'
  <1>1. (SystemInv /\ phase \in {"off", "ready"} =>
            \A z \in BOOLEAN : Underway(z) = tv)'
    BY AtRest, PTL
  <1> QED BY <1>1

\* What the books say where tv_task stands.
LEMMA BelowHere ==
    ASSUME BooksInv, NEW z \in BOOLEAN, Counted(z)
    PROVE  /\ tv <= Loudest(z) /\ Underway(z) <= Loudest(z)
           /\ CapturedAtMost(Loudest(z))
  <1>1. SystemInv /\ Bounded(z, Loudest(z))
    BY BooksParts DEF Balanced
  <1>2. Levels(z)[0] = Underway(z) /\ Len(queue) \in Nat
    BY <1>1, LevelsTyped
  <1> QED BY <1>1, <1>2 DEF Bounded

\* A step that leaves the engine's session alone, or only forgets the captured
\* volume, brings no louder volume into the books.
LEMMA StillBelow ==
    ASSUME SystemInv, NEW z \in BOOLEAN, CapturedAtMost(Loudest(z)),
           UNCHANGED <<home, presses, queue>>,
           original' \in {original, None} \/ original' <= Loudest(z),
           job' \in {job, NoCommand}
    PROVE  CapturedAtMost(Loudest(z))'
  <1>1. PICK top \in Int : top = Loudest(z)
    BY LevelsTyped
  <1>2. top = Loudest(z)' /\ CapturedAtMost(top)
    BY <1>1 DEF Loudest
  <1>3. AtMost(original', top)
    BY <1>1, <1>2 DEF CapturedAtMost, AtMost
  <1>4. job'.kind = "Restore" => AtMost(job'.original_volume, top)
    BY <1>2, CommandKinds DEF CapturedAtMost
  <1>5. \A i \in DOMAIN queue' :
          queue'[i].kind = "Restore" => AtMost(queue'[i].original_volume, top)
    BY <1>2 DEF CapturedAtMost
  <1> QED BY <1>2, <1>3, <1>4, <1>5 DEF CapturedAtMost, AtMost

\* A step in which something failed only has the session to keep.
LEMMA FailedBooks ==
    ASSUME BooksInv, SystemInv', SessionKept', ~ clean',
           UNCHANGED <<brand, home, presses, queue, ignored>>
    PROVE  BooksInv'
  BY SameQueueBooks DEF Counted

LEMMA ReceiveKeepsBooks ==
    ASSUME BooksInv, SystemInv', Receive
    PROVE  BooksInv'
  <1>0. SystemInv /\ SessionKept
    BY BooksParts
  <1>1. /\ phase = "ready" /\ queue # <<>> /\ queue' = Tail(queue)
        /\ UNCHANGED <<brand, tv, home, presses, clean, ignored>>
    BY DEF Receive
  <1>2. Head(queue) \in Command
    BY <1>0, <1>1, Taking
  <1>3. /\ SessionKept' /\ original' \in {original, None}
        /\ OpenSteps' = OpenSteps
        /\ job' \in {Head(queue), NoCommand}
        /\ \A z \in BOOLEAN : Underway(z)' = After(Absolute, z, tv, Head(queue))
    <2>1. CASE WebSocket
      <3>1. Begin(Head(queue))
        BY <2>1 DEF Receive
      <3> QED BY <1>0, <1>1, <1>2, <3>1, BeginBooks
    <2>2. CASE ~ WebSocket
      <3>1. phase' = "connect" /\ job' = Head(queue) /\ UNCHANGED engine
        BY <2>2 DEF Receive
      <3>2. \A z \in BOOLEAN : Underway(z)' = After(Absolute, z, tv, Head(queue))
        BY <1>1, <3>1 DEF Underway, Absolute
      <3> QED BY <1>0, <3>1, <3>2, SameSession
    <2> QED BY <2>1, <2>2
  <1>4. ASSUME NEW z \in BOOLEAN, Counted(z)
        PROVE  CapturedAtMost(Loudest(z))'
    <2>1. CapturedAtMost(Loudest(z)) /\ Loudest(z) \in Int
      BY <1>0, <1>4, BelowHere, LevelsTyped
    <2>2. PICK top \in Int : top = Loudest(z)
      BY <2>1
    <2>3. top = Loudest(z)' /\ CapturedAtMost(top)
      BY <1>1, <2>1, <2>2 DEF Loudest
    <2>4. /\ queue \in Seq(Command) /\ Len(queue) \in Nat \ {0}
          /\ DOMAIN queue = 1..Len(queue) /\ Head(queue) = queue[1]
          /\ DOMAIN queue' = 1..(Len(queue) - 1)
          /\ \A i \in 1..(Len(queue) - 1) : queue'[i] = queue[i + 1]
      BY <1>0, <1>1 DEF SystemInv, TvTypeOK
    <2>5. Head(queue).kind = "Restore" => AtMost(Head(queue).original_volume, top)
      BY <2>3, <2>4 DEF CapturedAtMost
    <2>6. job'.kind = "Restore" => AtMost(job'.original_volume, top)
      BY <1>3, <2>5, CommandKinds
    <2>7. AtMost(original', top)
      BY <1>3, <2>3 DEF CapturedAtMost, AtMost
    <2>8. ASSUME NEW i \in DOMAIN queue', queue'[i].kind = "Restore"
          PROVE  AtMost(queue'[i].original_volume, top)
      <3>1. i + 1 \in DOMAIN queue /\ queue'[i] = queue[i + 1]
        BY <2>4
      <3> QED BY <2>3, <2>8, <3>1 DEF CapturedAtMost
    <2> QED BY <2>3, <2>6, <2>7, <2>8 DEF CapturedAtMost, AtMost
  <1>5. \A z \in BOOLEAN : Underway(z) = tv
    BY <1>0, <1>1, AtRest
  <1> QED BY <1>1, <1>3, <1>4, <1>5, TakenBooks

LEMMA LoopKeepsBooks ==
    ASSUME BooksInv, SystemInv', Connect \/ LeaveLoop
    PROVE  BooksInv'
  <1>0. SystemInv /\ SessionKept
    BY BooksParts
  <1>1. /\ phase \in {"off", "ready"} /\ phase' \in {"off", "ready"}
        /\ UNCHANGED <<engine, brand, queue, job, tv, home, presses, clean, ignored>>
    BY DEF Connect, LeaveLoop
  <1>2. SessionKept' /\ original' \in {original, None} /\ OpenSteps' = OpenSteps
    BY <1>0, <1>1, SameSession
  <1>3. ASSUME NEW z \in BOOLEAN, Counted(z)'
        PROVE  /\ tv' <= Loudest(z) /\ CapturedAtMost(Loudest(z))'
               /\ Underway(z)' <= Underway(z)
               /\ ~ z /\ ~ Absolute => Underway(z)' = Underway(z)
    <2>1. Counted(z)
      BY <1>1, <1>3 DEF Counted
    <2>2. Underway(z) = tv /\ Underway(z)' = tv /\ tv \in Nat
      BY <1>0, <1>1, AtRest, NextAtRest, LevelsTyped
    <2>3. CapturedAtMost(Loudest(z))'
      BY <1>0, <1>1, <1>2, <2>1, BelowHere, StillBelow
    <2> QED BY <1>1, <2>1, <2>2, <2>3, BelowHere
  <1> QED BY <1>1, <1>2, <1>3, SameQueueBooks

LEMMA ConnectionKeepsBooks ==
    ASSUME BooksInv, SystemInv', ConnectOk \/ ConnectFails
    PROVE  BooksInv'
  <1>0. SystemInv /\ SessionKept
    BY BooksParts
  <1>1. CASE ConnectOk
    <2>1. /\ phase = "connect" /\ Begin(job)
          /\ UNCHANGED <<brand, queue, tv, home, presses, clean, ignored>>
      BY <1>1 DEF ConnectOk
    <2>2. job \in Command
      BY <1>0, <2>1 DEF SystemInv, TvTypeOK
    <2>3. ASSUME NEW z \in BOOLEAN
          PROVE  /\ SessionKept' /\ original' \in {original, None}
                 /\ OpenSteps' = OpenSteps /\ job' \in {job, NoCommand}
                 /\ Underway(z)' = Underway(z) /\ Underway(z) \in Int
      <3>1. Underway(z) = After(Absolute, z, tv, job)
        BY <2>1 DEF Underway
      <3> QED BY <1>0, <2>1, <2>2, <3>1, BeginBooks, LevelsTyped
    <2>4. /\ SessionKept' /\ original' \in {original, None}
          /\ OpenSteps' = OpenSteps /\ job' \in {job, NoCommand}
      BY <2>3
    <2>5. ASSUME NEW z \in BOOLEAN, Counted(z)'
          PROVE  /\ tv' <= Loudest(z) /\ CapturedAtMost(Loudest(z))'
                 /\ Underway(z)' <= Underway(z)
                 /\ ~ z /\ ~ Absolute => Underway(z)' = Underway(z)
      <3>1. Counted(z)
        BY <2>1, <2>5 DEF Counted
      <3>2. CapturedAtMost(Loudest(z))'
        BY <1>0, <2>1, <2>4, <3>1, BelowHere, StillBelow
      <3> QED BY <2>1, <2>3, <3>1, <3>2, BelowHere
    <2> QED BY <2>1, <2>4, <2>5, SameQueueBooks
  <1>2. CASE ConnectFails
    <2>1. clean' = FALSE /\ UNCHANGED <<engine, brand, queue, home, presses, ignored>>
      BY <1>2 DEF ConnectFails
    <2> QED BY <1>0, <2>1, SameSession, FailedBooks
  <1> QED BY <1>1, <1>2

LEMMA QueryKeepsBooks ==
    ASSUME BooksInv, SystemInv', QueryAnswered \/ QueryFails
    PROVE  BooksInv'
  <1>0. SystemInv /\ SessionKept
    BY BooksParts
  <1>1. CASE QueryAnswered
    <2>1. /\ phase = "query" /\ phase' = "press"
          /\ UNCHANGED <<brand, queue, job, tv, home, presses, clean, ignored>>
          /\ UNCHANGED <<armed, state, steps>>
          /\ original' \in {original, tv}
      BY <1>1 DEF QueryAnswered, Engine!SetOriginalVolume, Engine!settings
    <2>2. SessionKept' /\ OpenSteps' = OpenSteps
      BY <1>0, <2>1 DEF SessionKept, SessionOpen, OpenSteps
    <2>3. ASSUME NEW z \in BOOLEAN, Counted(z)'
          PROVE  /\ tv' <= Loudest(z) /\ CapturedAtMost(Loudest(z))'
                 /\ Underway(z)' <= Underway(z)
                 /\ ~ z /\ ~ Absolute => Underway(z)' = Underway(z)
      <3>1. Counted(z)
        BY <2>1, <2>3 DEF Counted
      <3>2. Underway(z)' = Underway(z) /\ Underway(z) \in Int
        BY <1>0, <2>1, LevelsTyped DEF Underway, Absolute
      <3>3. CapturedAtMost(Loudest(z))'
        BY <1>0, <2>1, <3>1, BelowHere, StillBelow
      <3> QED BY <2>1, <3>1, <3>2, <3>3, BelowHere
    <2> QED BY <2>1, <2>2, <2>3, SameQueueBooks
  <1>2. CASE QueryFails
    <2>1. clean' = FALSE /\ UNCHANGED <<engine, brand, queue, home, presses, ignored>>
      BY <1>2 DEF QueryFails
    <2> QED BY <1>0, <2>1, SameSession, FailedBooks
  <1> QED BY <1>1, <1>2

\* A key that has no effect at volume 0 is one the TV stops at; at the loud end it
\* leaves the TV lower than it was bound for.
LEMMA KeyKeepsBooks ==
    ASSUME BooksInv, SystemInv', KeyPressed \/ KeyFails
    PROVE  BooksInv'
  <1>0. SystemInv /\ SessionKept
    BY BooksParts
  <1>1. CASE KeyPressed
    <2>1. /\ phase = "press" /\ phase' = "ready" /\ job' = NoCommand
          /\ tv' = Pressed(job) /\ ignored' = (ignored \/ tv' = tv)
          /\ UNCHANGED <<engine, brand, queue, home, presses, clean>>
      BY <1>1 DEF KeyPressed, AfterCommand
    <2>2. SessionKept' /\ original' \in {original, None} /\ OpenSteps' = OpenSteps
      BY <1>0, <2>1, SameSession
    <2>3. /\ job \in {VolumeDown, VolumeUp} /\ tv \in Nat
          /\ VolumeUp # VolumeDown /\ ~ ToCaptured(Absolute, job)
          /\ Effect(VolumeDown) = -1 /\ Effect(VolumeUp) = 1
      BY <1>0, <2>1, CommandKinds, LevelsTyped DEF SystemInv, ToCaptured, Effect
    <2>4. ASSUME NEW z \in BOOLEAN, Counted(z)'
          PROVE  /\ tv' <= Loudest(z) /\ CapturedAtMost(Loudest(z))'
                 /\ Underway(z)' <= Underway(z)
                 /\ ~ z /\ ~ Absolute => Underway(z)' = Underway(z)
      <3>1. Counted(z) /\ (~ z => tv' # tv)
        BY <2>1, <2>4 DEF Counted
      <3>2. /\ Underway(z) = Stop(z, tv + Effect(job)) /\ Underway(z) \in Int
            /\ Loudest(z) \in Int
        BY <1>0, <2>1, <2>3, LevelsTyped DEF Underway, After
      <3>3. Underway(z)' = tv'
        BY <2>1, NextAtRest
      <3>4. tv' <= Underway(z) /\ (~ z => tv' = Underway(z)) /\ tv' \in Int
        <4>1. CASE job = VolumeDown
          <5>1. tv' = Softer(tv) /\ Underway(z) = Stop(z, tv - 1)
            BY <2>1, <2>3, <3>2, <4>1 DEF Pressed
          <5> QED BY <2>3, <3>1, <5>1 DEF Softer, Stop
        <4>2. CASE job = VolumeUp
          <5>1. tv' = Louder(tv) /\ Underway(z) = Stop(z, tv + 1)
            BY <2>1, <2>3, <3>2, <4>2 DEF Pressed
          <5> QED BY <2>3, <3>1, <5>1 DEF Louder, Stop
        <4> QED BY <2>3, <4>1, <4>2
      <3>5. CapturedAtMost(Loudest(z))'
        BY <1>0, <2>1, <2>2, <3>1, BelowHere, StillBelow
      <3>6. Underway(z) <= Loudest(z)
        BY <3>1, BelowHere
      <3> QED BY <3>2, <3>3, <3>4, <3>5, <3>6
    <2>5. ignored => ignored'
      BY <2>1
    <2> QED BY <2>1, <2>2, <2>4, <2>5, SameQueueBooks
  <1>2. CASE KeyFails
    <2>1. clean' = FALSE /\ UNCHANGED <<engine, brand, queue, home, presses, ignored>>
      BY <1>2 DEF KeyFails
    <2> QED BY <1>0, <2>1, SameSession, FailedBooks
  <1> QED BY <1>1, <1>2

\* A step of a ramp brings the TV nearer to where it is bound for: by one key that
\* is then no longer to do, or to a volume that is not above the captured one.
LEMMA RampNearer ==
    ASSUME BooksInv, SystemInv', RampStep, NEW z \in BOOLEAN, Counted(z)'
    PROVE  /\ Underway(z)' <= Underway(z) /\ tv' <= Loudest(z)
           /\ ~ z /\ ~ Absolute => Underway(z)' = Underway(z)
  <1>0. SystemInv
    BY BooksParts
  <1>1. /\ phase = "ramp" /\ tv' = RampedTo /\ Counted(z)
        /\ ~ z => ByVolume(job) \/ tv' # tv
        /\ UNCHANGED <<brand, home>>
    BY DEF RampStep, Counted
  <1>2. /\ job.kind = "Restore" /\ job \in Command
        /\ left \in Nat /\ left > 0 /\ left <= RampLength(job)
        /\ job.original_volume \in Volume \cup {None} /\ job.steps \in Nat
    BY <1>0, <1>1, CommandKinds DEF SystemInv, TvTypeOK
  <1>3. /\ tv \in Nat /\ Underway(z) \in Int /\ Loudest(z) \in Int
        /\ Absolute' = Absolute /\ Underway(z) <= Loudest(z)
    BY <1>0, <1>1, LevelsTyped, BelowHere DEF Absolute
  <1>4. left > 1 => left' = left - 1 /\ phase' = "ramp" /\ job' = job
    BY DEF RampStep
  <1>5. ~ (left > 1) => left = 1 /\ Underway(z)' = tv'
    <2>1. ~ (left > 1) => phase' = "ready"
      BY DEF RampStep, AfterCommand
    <2> QED BY <1>2, <2>1, NextAtRest
  <1>6. CASE ByVolume(job)
    <2>1. job.original_volume \in Nat /\ ToCaptured(Absolute, job)
      BY <1>2, <1>6 DEF ByVolume, Volume, ToCaptured
    <2>2. job.steps # 0 /\ job.original_volume # 0
      BY <1>2, <1>6, <2>1 DEF RampLength
    <2>3. Underway(z) = job.original_volume
      BY <2>1, <2>2 DEF Underway, After, Captured
    <2>4. tv' = job.original_volume - left + 1
      BY <1>1, <1>6 DEF RampedTo
    <2>5. left > 1 => Underway(z)' = job.original_volume
      BY <1>3, <1>4, <2>1, <2>2 DEF Underway, After, Captured
    <2>6. tv' <= job.original_volume /\ (left = 1 => tv' = job.original_volume)
      BY <1>2, <2>1, <2>4
    <2>7. tv' \in Int
      BY <1>2, <2>1, <2>4
    <2> QED BY <1>3, <1>5, <2>1, <2>3, <2>5, <2>6, <2>7
  <1>7. CASE ~ ByVolume(job)
    <2>1. ~ ToCaptured(Absolute, job)
      BY <1>7 DEF ByVolume, ToCaptured
    <2>2. Underway(z) = tv + left
      BY <1>1, <2>1 DEF Underway
    <2>3. tv' \in Nat /\ tv' <= tv + 1 /\ (~ z => tv' = tv + 1)
      <3>1. tv' = Louder(tv)
        BY <1>1, <1>7 DEF RampedTo
      <3>2. ~ z => tv' # tv
        BY <1>1, <1>7
      <3> QED BY <1>3, <3>1, <3>2 DEF Louder
    <2>4. left > 1 => Underway(z)' = tv' + left'
      BY <1>3, <1>4, <2>1 DEF Underway
    <2>5. CASE left > 1
      <3>0. /\ tv \in Int /\ tv' \in Int /\ left \in Int /\ left > 1
            /\ tv' <= tv + 1 /\ (~ z => tv' = tv + 1)
            /\ left' \in Int /\ left = left' + 1
        BY <1>2, <1>3, <1>4, <2>3, <2>5
      <3>1. PICK u \in Int, v \in Int, m \in Int, n \in Int :
               u = tv /\ v = tv' /\ m = left' /\ n = left
        BY <3>0
      <3>2. v <= u + 1 /\ n = m + 1 /\ n > 1 /\ (~ z => v = u + 1)
        BY <3>0, <3>1
      <3>3. v + m <= u + n
        BY <3>2
      <3>4. v <= u + n
        BY <3>2
      <3>5. ~ z => v + m = u + n
        BY <3>2
      <3>6. Underway(z) = u + n /\ Underway(z)' = v + m /\ tv' = v
        BY <2>2, <2>4, <2>5, <3>1
      <3> QED BY <1>3, <3>3, <3>4, <3>5, <3>6
    <2>6. CASE ~ (left > 1)
      BY <1>2, <1>3, <1>5, <2>2, <2>3, <2>6
    <2> QED BY <2>5, <2>6
  <1> QED BY <1>6, <1>7

LEMMA RampKeepsBooks ==
    ASSUME BooksInv, SystemInv', RampStep \/ RampFails
    PROVE  BooksInv'
  <1>0. SystemInv /\ SessionKept
    BY BooksParts
  <1>1. CASE RampStep
    <2>1. /\ UNCHANGED <<brand, queue, home, presses, clean>>
          /\ ignored => ignored'
          /\ left > 1 => job' = job /\ UNCHANGED engine
          /\ ~ (left > 1) => job' = NoCommand /\ ClearAfterRestore(TRUE)
      BY <1>1 DEF RampStep, AfterCommand
    <2>2. SessionKept' /\ original' \in {original, None} /\ OpenSteps' = OpenSteps
      BY <1>0, <2>1, SameSession, ClearBooks
    <2>3. ASSUME NEW z \in BOOLEAN, Counted(z)'
          PROVE  /\ tv' <= Loudest(z) /\ CapturedAtMost(Loudest(z))'
                 /\ Underway(z)' <= Underway(z)
                 /\ ~ z /\ ~ Absolute => Underway(z)' = Underway(z)
      <3>1. Counted(z) /\ job' \in {job, NoCommand}
        BY <2>1, <2>3 DEF Counted
      <3>2. CapturedAtMost(Loudest(z))'
        BY <1>0, <2>1, <2>2, <3>1, BelowHere, StillBelow
      <3> QED BY <1>1, <2>3, <3>2, RampNearer
    <2> QED BY <2>1, <2>2, <2>3, SameQueueBooks
  <1>2. CASE RampFails
    <2>1. /\ clean' = FALSE /\ UNCHANGED <<brand, queue, home, presses, ignored>>
          /\ ClearAfterRestore(FALSE)
      BY <1>2 DEF RampFails
    <2> QED BY <1>0, <2>1, ClearBooks, FailedBooks
  <1> QED BY <1>1, <1>2

LEMMA BooksStep == BooksInv /\ [Next]_vars => BooksInv'
  <1> SUFFICES ASSUME BooksInv, [Next]_vars
               PROVE  BooksInv'
    OBVIOUS
  <1>0. SystemInv /\ SessionKept
    BY BooksParts
  <1>1. SystemInv'
    BY <1>0, StepPreserves
  <1>2. CASE Next
    BY <1>1, <1>2, SendersKeepBooks, LoopKeepsBooks, ReceiveKeepsBooks,
       ConnectionKeepsBooks, QueryKeepsBooks, KeyKeepsBooks, RampKeepsBooks
       DEF Next, TvSucceeds, TvFails
  <1>3. CASE UNCHANGED vars
    <2>1. UNCHANGED <<engine, brand, queue, phase, job, left, tv, home, presses,
                      clean, ignored>>
      BY <1>3 DEF vars, task
    <2>2. SessionKept' /\ original' \in {original, None} /\ OpenSteps' = OpenSteps
      BY <1>0, <2>1, SameSession
    <2>3. ASSUME NEW z \in BOOLEAN, Counted(z)'
          PROVE  /\ tv' <= Loudest(z) /\ CapturedAtMost(Loudest(z))'
                 /\ Underway(z)' <= Underway(z)
                 /\ ~ z /\ ~ Absolute => Underway(z)' = Underway(z)
      <3>1. Counted(z)
        BY <2>1, <2>3 DEF Counted
      <3>2. Underway(z)' = Underway(z) /\ Underway(z) \in Int
        BY <1>0, <2>1, LevelsTyped DEF Underway, Absolute
      <3>3. CapturedAtMost(Loudest(z))'
        BY <1>0, <2>1, <2>2, <3>1, BelowHere, StillBelow
      <3> QED BY <2>1, <3>1, <3>2, <3>3, BelowHere
    <2> QED BY <1>1, <2>1, <2>2, <2>3, SameQueueBooks
  <1> QED BY <1>2, <1>3

LEMMA BooksInit == Init => BooksInv
  <1> SUFFICES ASSUME Init PROVE BooksInv
    OBVIOUS
  <1>1. SystemInv
    BY SystemInit
  <1>2. /\ queue = <<>> /\ phase = "off" /\ job = NoCommand /\ tv = home
        /\ state = "Quiet" /\ steps = 0 /\ original = None
    BY DEF Init, Engine!Init
  <1>3. SessionKept /\ OpenSteps = 0
    BY <1>2 DEF SessionKept, SessionOpen, OpenSteps
  <1>4. ASSUME NEW z \in BOOLEAN PROVE Balanced(z)
    <2>1. /\ Underway(z) = home /\ home \in Nat /\ presses \in Nat
          /\ Loudest(z) \in Int /\ MaxSteps \in Nat
      BY <1>1, <1>2, AtRest, LevelsTyped, SystemAssumption
         DEF Engine!EngineAssumption
    <2>2. Len(queue) = 0 /\ Levels(z)[0] = home /\ Final(z) = home
      BY <1>1, <1>2, <2>1, LevelsTyped DEF Final
    <2>3. home <= Loudest(z)
      BY <2>1 DEF Loudest, Larger
    <2>4. CapturedAtMost(Loudest(z))
      BY <1>2, CommandKinds DEF CapturedAtMost, AtMost
    <2> QED BY <1>2, <1>3, <2>1, <2>2, <2>3, <2>4 DEF Balanced, Bounded
  <1> QED BY <1>1, <1>3, <1>4, BooksParts

\* The volume's books hold in every reachable state.
THEOREM BooksCorrect == Spec => []BooksInv
  BY BooksInit, BooksStep, PTL DEF Spec

\* On a TV that only has volume keys nothing is ever lost from the account: whatever
\* the order in which the engine's commands, disarms and test presses meet tv_task,
\* the TV ends up where the viewer wants it less the steps of the open session, as
\* long as no command is dropped or fails and every key has its effect.
THEOREM AccountedCorrect == Spec => []VolumeAccounted
  <1>1. BooksInv => VolumeAccounted
    BY DEF BooksInv
  <1> QED BY <1>1, BooksCorrect, PTL

\* The steps the engine counts at volume 0, which have no effect, never add up: while
\* no command is dropped or fails the TV gets no louder than the steps of one session,
\* or than the viewer had it, but for the test presses.
THEOREM OvershootCorrect == Spec => []OvershootBounded
  <1>1. BooksInv => OvershootBounded
    <2> SUFFICES ASSUME BooksInv, clean PROVE tv <= Loudest(ignored)
      BY DEF OvershootBounded
    <2>1. ignored \in BOOLEAN
      BY DEF BooksInv, SystemInv, TvTypeOK
    <2>2. CASE ignored = TRUE
      <3>1. Counted(TRUE)
        BY DEF Counted
      <3> QED BY <2>2, <3>1, BelowHere
    <2>3. CASE ignored = FALSE
      <3>1. Counted(FALSE)
        BY <2>3 DEF Counted
      <3> QED BY <2>3, <3>1, BelowHere
    <2> QED BY <2>1, <2>2, <2>3
  <1> QED BY <1>1, BooksCorrect, PTL

\* On a TV that only has volume keys, disarms and re-arms do no harm: after any mix of
\* ducking, disarms and test presses in which no command was dropped or failed and
\* every key had its effect, the TV is where the viewer had it once all is quiet.  On
\* TVs that are set to a captured volume it may be quieter (VolumeRestored fails), and
\* after keys without effect at volume 0 louder (NoOvershoot fails).
THEOREM KeysRestored == Spec => [](~ Absolute => VolumeRestored)
  <1>1. BooksInv => (~ Absolute => VolumeRestored)
    <2> SUFFICES ASSUME BooksInv, ~ Absolute, clean, ~ ignored, Settled
                 PROVE  tv = home
      BY DEF VolumeRestored
    <2>1. SystemInv /\ VolumeAccounted
      BY DEF BooksInv
    <2>2. phase \in {"off", "ready"}
      BY <2>1 DEF SystemInv, Settled
    <2>3. /\ home \in Int /\ tv \in Int /\ Underway(FALSE) = tv
          /\ Levels(FALSE)[0] = Underway(FALSE)
      <3>1. PICK z \in BOOLEAN : z = FALSE
        OBVIOUS
      <3>2. /\ home \in Int /\ tv \in Int /\ Underway(z) = tv
            /\ Levels(z)[0] = Underway(z)
        BY <2>1, <2>2, LevelsTyped, AtRest
      <3> QED BY <3>1, <3>2
    <2>4. Destination = tv
      BY <2>3 DEF Settled, Destination, Final
    <2>5. Destination = home - OpenSteps /\ OpenSteps = 0
      BY <2>1 DEF VolumeAccounted, OpenSteps, Settled
    <2> QED BY <2>3, <2>4, <2>5
  <1> QED BY <1>1, BooksCorrect, PTL
================================================================================
