---------------------------------- MODULE Page ----------------------------------
(***************************************************************************)
(* The web page (pwa-wasm/src: main.rs, ws.rs, info.rs) and the firmware's *)
(* websocket_task (firmware-rs/src/ws.rs), joined by a connection that can *)
(* break at any time and is opened again.  The page shows a change at once *)
(* and sends the command after it; what the firmware says later overrides  *)
(* what is shown.  Of the commands there are the arm button's and the two  *)
(* of the update card; the others are sent in the same way.                *)
(*                                                                         *)
(* The page's two ends of the socket are one loop: while a message waits   *)
(* for the connection to open, nothing is read.  The firmware takes what   *)
(* one read of the socket returns for one frame.                           *)
(***************************************************************************)
EXTENDS Naturals, Sequences

CONSTANTS
    None,          \* no message
    MaxCommands,   \* how many commands the parent gives
    FrameSize,     \* frames that fit into the connection before a write waits
    LoadSize,      \* the capacity of WIFI_CMD_CH
    OutcomeSize    \* the capacity of WIFI_EVT_CH

ASSUME PageAssumption ==
    /\ MaxCommands \in Nat /\ FrameSize \in Nat \ {0, 1}
    /\ LoadSize \in Nat /\ OutcomeSize \in Nat

VARIABLES
    link,         \* the page's WebSocket: closed, opening or open
    tx,           \* its queue of outgoing messages
    writing,      \* the message it waits to write
    shown,        \* the armed signal of the page
    ota,          \* ota_status of the page
    checkTimers,  \* timers of 15 s that are running
    loadTimers,   \* timers of 120 s that are running
    issued,       \* commands given so far
    alive,        \* the two ends are those of one connection
    wire,         \* what the page has written and the firmware has not read
    frames,       \* what the firmware has written and the page has not read
    ap,           \* AP_MODE: there is no way to the releases
    at,           \* where websocket_task waits: accept, wait or check
    armed,        \* of the engine
    telemetry,    \* TELEMETRY.armed
    loads,        \* downloads waiting in WIFI_CMD_CH
    loading,      \* wifi_task is downloading
    outcomes,     \* OtaComplete events in WIFI_EVT_CH
    ran           \* history: the last command executed

card == <<ota, checkTimers, loadTimers>>
page == <<link, tx, writing, shown, card, issued>>
updates == <<loads, loading, outcomes>>
device == <<ap, at, armed, telemetry, updates, ran>>
net == <<alive, wire, frames>>
vars == <<page, net, device>>

OtaStatus ==
    {"Idle", "Checking", "Available", "Downloading", "UpToDate", "Done", "Error"}
Busy == {"Checking", "Downloading"}

Kind == {"arm", "disarm", "ota_check", "ota_download"}
Least(a, b) == IF a < b THEN a ELSE b
Command == [kind : Kind, id : 1..MaxCommands]
Frame == [kind : {"telemetry", "ota_status", "ota_done"}, flag : BOOLEAN]

ASSUME NoneAssumption == None \notin Command

-----------------------------------------------------------------------------
\* The page: its buttons.

Send(kind) ==
    /\ issued < MaxCommands
    /\ issued' = issued + 1
    /\ tx' = Append(tx, [kind |-> kind, id |-> issued'])
    /\ UNCHANGED <<link, writing, net, device>>

ArmToggle ==
    /\ Send(IF shown THEN "disarm" ELSE "arm")
    /\ shown' = ~ shown
    /\ UNCHANGED card

OtaCheck ==
    /\ ota \notin Busy
    /\ Send("ota_check")
    /\ ota' = "Checking" /\ checkTimers' = checkTimers + 1
    /\ UNCHANGED <<shown, loadTimers>>

OtaDownloadUntimed ==
    /\ ota = "Available"
    /\ Send("ota_download")
    /\ ota' = "Downloading"
    /\ UNCHANGED <<shown, checkTimers, loadTimers>>
OtaDownload ==
    /\ ota = "Available"
    /\ Send("ota_download")
    /\ ota' = "Downloading" /\ loadTimers' = loadTimers + 1
    /\ UNCHANGED <<shown, checkTimers>>

\* The timers know nothing of the answers that have come meanwhile.
CheckTimer ==
    /\ checkTimers > 0
    /\ checkTimers' = checkTimers - 1
    /\ ota' = IF ota = "Checking" THEN "Idle" ELSE ota
    /\ UNCHANGED <<link, tx, writing, shown, loadTimers, issued, net, device>>

LoadTimer ==
    /\ loadTimers > 0
    /\ loadTimers' = loadTimers - 1
    /\ ota' = IF ota = "Downloading" THEN "Error" ELSE ota
    /\ UNCHANGED <<link, tx, writing, shown, checkTimers, issued, net, device>>

-----------------------------------------------------------------------------
\* The page: use_websocket.

\* WebSocket::open, which does not wait for the connection.
Connect ==
    /\ link = "closed"
    /\ link' = "opening"
    /\ UNCHANGED <<tx, writing, shown, card, issued, net, device>>

\* A message is taken off the queue before it can be written.
Take ==
    /\ link # "closed" /\ writing = None /\ tx # <<>>
    /\ writing' = Head(tx) /\ tx' = Tail(tx)
    /\ UNCHANGED <<link, shown, card, issued, net, device>>

\* A message written to a connection that is gone is gone too.
Write ==
    /\ link = "open" /\ writing # None
    /\ wire' = IF alive THEN Append(wire, writing) ELSE wire
    /\ writing' = None
    /\ UNCHANGED <<link, tx, shown, card, issued, alive, frames, device>>

\* The connection fails or has ended.  An error of write.send is ignored: the
\* message is not put back.
Close ==
    /\ link = "opening" \/ (link = "open" /\ ~ alive)
    /\ link' = "closed" /\ writing' = None
    /\ frames' = <<>>
    /\ UNCHANGED <<tx, shown, card, issued, alive, wire, device>>

\* The message loop and handle_event: telemetry sets the signals, the answers
\* of the update card replace whatever it shows.
ArmedOnlyIfTrue(frame) ==
    shown' = (IF frame.kind = "telemetry" /\ frame.flag THEN TRUE ELSE shown)
Armed(frame) ==
    shown' = (IF frame.kind = "telemetry" THEN frame.flag ELSE shown)

OtaAnswer(frame) ==
    CASE frame.kind = "ota_status" ->
            IF frame.flag THEN "Available" ELSE "UpToDate"
      [] frame.kind = "ota_done" -> IF frame.flag THEN "Done" ELSE "Error"
      [] OTHER -> ota

Read ==
    /\ link = "open" /\ writing = None /\ frames # <<>>
    /\ Armed(Head(frames)) /\ ota' = OtaAnswer(Head(frames))
    /\ frames' = Tail(frames)
    /\ UNCHANGED <<link, tx, writing, checkTimers, loadTimers, issued, alive,
                   wire, device>>

-----------------------------------------------------------------------------
\* The connection.

\* accept, the WebSocket handshake, and the page's open event.
Handshake ==
    /\ link = "opening" /\ at = "accept"
    /\ link' = "open" /\ at' = "wait"
    /\ alive' = TRUE /\ wire' = <<>> /\ frames' = <<>>
    /\ UNCHANGED <<tx, writing, shown, card, issued, ap, armed, telemetry, updates,
                   ran>>

Break ==
    /\ alive
    /\ alive' = FALSE
    /\ UNCHANGED <<page, wire, frames, device>>

\* A write waits for room, and goes nowhere when nobody is there.
WrittenPastSize(new) ==
    /\ alive => Len(frames) <= FrameSize
    /\ frames' = IF alive THEN frames \o new ELSE frames
Written(new) ==
    /\ alive => Len(frames) + Len(new) <= FrameSize
    /\ frames' = IF alive THEN frames \o new ELSE frames

-----------------------------------------------------------------------------
\* The firmware: websocket_task.

\* One read returns n frames; the first is executed, the others are lost.  A
\* download is lost too when other commands fill WIFI_CMD_CH.
UnreadFromLast(n) == SubSeq(wire, n, Len(wire))
Unread(n) == SubSeq(wire, n + 1, Len(wire))
Receive(n) ==
    /\ at = "wait" /\ n \in 1..Len(wire)
    /\ wire' = Unread(n)
    /\ ran' = Head(wire).id
    /\ armed' = CASE Head(wire).kind = "arm" -> TRUE
                  [] Head(wire).kind = "disarm" -> FALSE
                  [] OTHER -> armed
    /\ at' = IF Head(wire).kind = "ota_check" /\ ~ ap THEN "check" ELSE at
    /\ IF Head(wire).kind = "ota_download" /\ ~ ap
       THEN loads' \in loads..Least(loads + 1, LoadSize)
       ELSE UNCHANGED loads
    /\ UNCHANGED <<page, alive, frames, ap, telemetry, loading, outcomes>>
Execute == \E n \in 1..Len(wire) : Receive(n)

\* check_for_update answers within the command: a check that fails finds nothing.
\* Its requests have no timeout; until it ends the client gets nothing else.
CheckAnswer ==
    /\ at = "check"
    /\ at' = "wait"
    /\ \E available \in BOOLEAN :
          Written(<<[kind |-> "ota_status", flag |-> available]>>)
    /\ UNCHANGED <<page, alive, wire, ap, armed, telemetry, updates, ran>>

\* The outcome of a download, if there is one, and telemetry.  An error while
\* the outcome is written is ignored: the event is lost.
Broadcast ==
    /\ at = "wait"
    /\ LET done == IF outcomes = <<>> THEN <<>>
                   ELSE <<[kind |-> "ota_done", flag |-> Head(outcomes)]>>
       IN  Written(Append(done, [kind |-> "telemetry", flag |-> telemetry]))
    /\ outcomes' = IF outcomes = <<>> THEN <<>> ELSE Tail(outcomes)
    /\ UNCHANGED <<page, alive, wire, ap, at, armed, telemetry, loads, loading, ran>>

\* A read or a write of telemetry fails.
Leave ==
    /\ at = "wait" /\ ~ alive
    /\ at' = "accept" /\ wire' = <<>>
    /\ UNCHANGED <<page, alive, frames, ap, armed, telemetry, updates, ran>>

-----------------------------------------------------------------------------
\* The firmware: the other tasks.

\* ducking_task copies the engine's state.
Tick ==
    /\ telemetry' = armed
    /\ UNCHANGED <<page, net, ap, at, armed, updates, ran>>

\* wifi_task: a download, and the event it ends with.
LoadStart ==
    /\ loads > 0 /\ ~ loading
    /\ loads' = loads - 1 /\ loading' = TRUE
    /\ UNCHANGED <<page, net, ap, at, armed, telemetry, outcomes, ran>>

\* Scan results go through the same channel and may fill it.
Reported(success) ==
    \/ Len(outcomes) < OutcomeSize /\ outcomes' = Append(outcomes, success)
    \/ UNCHANGED outcomes

LoadEnd ==
    /\ loading
    /\ loading' = FALSE
    /\ \E success \in BOOLEAN : Reported(success)
    /\ UNCHANGED <<page, net, ap, at, armed, telemetry, loads, ran>>

\* A restart: the engine comes up disarmed, and the hotspot may come up instead.
Reset ==
    /\ ap' \in BOOLEAN /\ at' = "accept" /\ armed' = FALSE /\ telemetry' = FALSE
    /\ loads' = 0 /\ loading' = FALSE /\ outcomes' = <<>>
    /\ alive' = FALSE /\ wire' = <<>>
    /\ UNCHANGED <<page, frames, ran>>

-----------------------------------------------------------------------------
Init ==
    /\ link = "closed" /\ tx = <<>> /\ writing = None
    /\ shown = FALSE /\ ota = "Idle" /\ checkTimers = 0 /\ loadTimers = 0
    /\ issued = 0
    /\ alive = FALSE /\ wire = <<>> /\ frames = <<>>
    /\ ap \in BOOLEAN /\ at = "accept" /\ armed \in BOOLEAN /\ telemetry = armed
    /\ loads = 0 /\ loading = FALSE /\ outcomes = <<>>
    /\ ran = 0

Loop == Take \/ Write \/ Read \/ Close

Socket == Execute \/ Leave
Task == Socket \/ CheckAnswer

Next ==
    \/ ArmToggle \/ OtaCheck \/ OtaDownload
    \/ CheckTimer \/ LoadTimer
    \/ Connect \/ Loop
    \/ Handshake \/ Break
    \/ Task \/ Broadcast
    \/ Tick \/ LoadStart \/ LoadEnd
    \/ Reset

Spec == Init /\ [][Next]_vars

\* The page's timers run out and its loop runs; the firmware reads what arrives, a
\* client that writes nothing gets telemetry, and ducking_task runs.  That a check
\* for updates ends is not assumed: nothing in the code sees to it.
FairSpec ==
    /\ Spec
    /\ WF_vars(CheckTimer) /\ WF_vars(LoadTimer)
    /\ WF_vars(Loop) /\ WF_vars(Socket) /\ WF_vars(Broadcast) /\ WF_vars(Tick)

-----------------------------------------------------------------------------
TypeOK ==
    /\ link \in {"closed", "opening", "open"}
    /\ tx \in Seq(Command) /\ writing \in Command \cup {None}
    /\ shown \in BOOLEAN /\ ota \in OtaStatus
    /\ checkTimers \in Nat /\ loadTimers \in Nat
    /\ issued \in 0..MaxCommands
    /\ alive \in BOOLEAN /\ wire \in Seq(Command)
    /\ frames \in Seq(Frame) /\ Len(frames) <= FrameSize
    /\ ap \in BOOLEAN /\ at \in {"accept", "wait", "check"}
    /\ armed \in BOOLEAN /\ telemetry \in BOOLEAN
    /\ loads \in 0..LoadSize /\ loading \in BOOLEAN
    /\ outcomes \in Seq(BOOLEAN) /\ Len(outcomes) <= OutcomeSize
    /\ ran \in 0..MaxCommands

\* Commands may be lost, by a connection that breaks and by frames that arrive
\* together, but each that is executed is newer than the one executed before it: none
\* is executed twice, and an arm that was overtaken by a disarm does not come back
\* when the page reconnects.
InOrder == [][Execute => ran' > ran]_vars

\* The update card does not stay busy for ever, whichever of its messages is
\* lost and however an answer to an old request mixes with a new one.
NeverStuck == []<>(ota \notin Busy)

\* Once the connection holds, the page shows whether the firmware is armed, also
\* if the command it showed ahead was lost, and after a restart of the firmware: as
\* long as no check for updates waits for ever for a server that went silent.
Converges ==
    <>[](link = "open" /\ alive) /\ []<>(at # "check") => <>[](shown = armed)
================================================================================
