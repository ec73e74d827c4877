--------------------------------- MODULE TvLink ---------------------------------
(***************************************************************************)
(* tv_task's connection to the TV (firmware-rs/src/tv.rs) against the      *)
(* viewer who changes the TV (set_tv in ws.rs), the engine that queues     *)
(* commands, and wifi_task, which writes saved configurations back into    *)
(* the shared TvConfig (net.rs).                                           *)
(*                                                                         *)
(* tv_task works with a clone of the configuration taken when it connects  *)
(* (snap) and looks at the shared one only at the head of its command      *)
(* loop, after a failure, and around the Samsung pairing.  Each value of   *)
(* pc is an await, where the other tasks run.                              *)
(*                                                                         *)
(* A Samsung token, a queried volume and a session's original volume are   *)
(* represented by the address of the TV they came from.  Keys of Sony TVs  *)
(* are left out: whether a TV accepts a request is its own choice here.    *)
(***************************************************************************)
EXTENDS Integers, Sequences, SequencesExt

CONSTANTS
    Address,      \* addresses of TVs
    None,         \* no address: no TV, no token, no volume
    Unparsable,   \* the addresses parse_ip refuses
    Choice,       \* the TVs a viewer picks: records [ip, brand]
    Stored,       \* the TVs that may be in flash when the device starts
    Tokenless,    \* Samsung TVs too old to send a token
    QueueSize,    \* the capacity of DUCK_CHANNEL
    SaveSize,     \* the room for SaveTvConfig in WIFI_CMD_CH
    MaxUnread,    \* bound: answers of an LG TV kept unread
    MaxSteps,     \* the most steps a restore undoes
    MaxChanges    \* bound: how often the viewer uses set_tv

TvBrand == {"Lg", "Samsung", "Sony", "Roku"}
TvConfig == [ip : Address \cup {None}, brand : TvBrand,
             token : Address \cup {None}]

ASSUME LinkAssumption ==
    /\ None \notin Address
    /\ Unparsable \subseteq Address /\ Tokenless \subseteq Address
    /\ Choice \subseteq [ip : Address, brand : TvBrand]
    /\ Stored \subseteq Choice
    /\ QueueSize \in Nat \ {0} /\ SaveSize \in Nat \ {0}
    /\ MaxUnread \in Nat \ {0} /\ MaxSteps \in Nat \ {0}
    /\ MaxChanges \in Nat

VARIABLES
    config,     \* the shared TvConfig
    saves,      \* the SaveTvConfig requests in WIFI_CMD_CH
    status,     \* TV_STATUS
    pc,         \* the await tv_task is suspended in
    snap,       \* the configuration it connected with; active_ip in the loop
    job,        \* the command it executes
    left,       \* ramp steps still to do
    open,       \* the TV has not closed the socket in use
    answers,    \* an LG TV's answers nobody has read, oldest first
    queue,      \* DUCK_CHANNEL
    state,      \* the engine's state
    original,   \* the engine's original volume
    changes,    \* set_tv commands so far
    late,       \* history: commands sent to a TV no longer configured
    chosen,     \* history: the address the viewer chose last
    crossed,    \* history: a pairing ended while its TV or the shared one was
                \* not the chosen one
    dropped     \* history: a SaveTvConfig found WIFI_CMD_CH full

shared == <<config, saves, status>>
task == <<pc, snap, job, left, open, answers>>
engine == <<queue, state, original>>
history == <<late, chosen, crossed, dropped>>
vars == <<shared, task, engine, changes, history>>

NoJob == [kind |-> "None", steps |-> 0]
Key(kind) == [kind |-> kind, steps |-> 0]
Restore(steps) == [kind |-> "Restore", steps |-> steps]
Job == {Key("VolumeDown")} \cup {Restore(n) : n \in 1..MaxSteps}

Absolute == snap.brand \in {"Lg", "Sony"}
WebSocket == snap.brand \in {"Lg", "Samsung"}
InLoop == {"receive", "keepalive", "open", "query", "act", "refused", "backoff"}

\* wifi_task is asked to save; a full channel drops the request.
SaveUnbounded(cfg) == saves' = Append(saves, cfg) /\ UNCHANGED dropped
Save(cfg) ==
    /\ saves' = IF Len(saves) < SaveSize THEN Append(saves, cfg) ELSE saves
    /\ dropped' = (dropped \/ Len(saves) = SaveSize)
NoSave == UNCHANGED <<saves, dropped>>

\* What a queue with room for size elements holds after a try_send.
Sent(q, size, e) == IF Len(q) < size THEN Append(q, e) ELSE q

-----------------------------------------------------------------------------
\* The viewer: set_tv with a TV, and with an empty address.

NewConfigOldToken(choice) ==
    [ip |-> choice.ip, brand |-> choice.brand, token |-> config.token]
NewConfig(choice) == [ip |-> choice.ip, brand |-> choice.brand, token |-> None]
NoConfig == [config EXCEPT !.ip = None, !.token = None]

ChangeTo(cfg, st) ==
    /\ changes < MaxChanges
    /\ changes' = changes + 1
    /\ config' = cfg /\ status' = st /\ chosen' = cfg.ip
    /\ Save(cfg)
    /\ UNCHANGED <<task, engine, late, crossed>>

SetTv == \E choice \in Choice : ChangeTo(NewConfig(choice), "connecting")
Disconnect == ChangeTo(NoConfig, "off")

\* wifi_task handles SaveTvConfig: the saved copy becomes the shared one.
SaveTvConfig ==
    /\ saves # <<>>
    /\ config' = Head(saves) /\ saves' = Tail(saves)
    /\ UNCHANGED <<status, task, engine, changes, history>>

-----------------------------------------------------------------------------
\* The engine, as far as tv_task depends on it: what ducking_task queues, and
\* disarm, which queues the Restore of an open session and forgets its volume.

Duck ==
    /\ state # "Restoring"
    /\ state' = "Ducking"
    /\ queue' = Sent(queue, QueueSize, Key("VolumeDown"))
    /\ UNCHANGED <<original, shared, task, changes, history>>

StartRestore ==
    /\ state = "Ducking"
    /\ state' = "Restoring"
    /\ \E n \in 1..MaxSteps :
        queue' = Sent(queue, QueueSize, Restore(n))
    /\ UNCHANGED <<original, shared, task, changes, history>>

Disarm ==
    /\ state # "Quiet"
    /\ state' = "Quiet" /\ original' = None
    /\ IF state = "Ducking"
       THEN \E n \in 1..MaxSteps :
                queue' = Sent(queue, QueueSize, Restore(n))
       ELSE UNCHANGED queue
    /\ UNCHANGED <<shared, task, changes, history>>

-----------------------------------------------------------------------------
\* tv_task: connecting.

\* The head of the outer loop, reached when a wait is over.
Top ==
    /\ UNCHANGED <<config, job, left, open, answers, engine, changes>>
    /\ NoSave /\ UNCHANGED <<late, chosen, crossed>>
    /\ snap' = config
    /\ CASE config.ip = None -> status' = "off" /\ pc' = "wait"
         [] config.ip \in Unparsable -> status' = "error" /\ pc' = "wait"
         [] OTHER -> status' = "connecting" /\ pc' = "connect"

\* A wait ends by its timer or by the signal set_tv leaves in TV_WAKE_CH, a
\* pause by its timer alone: in a model without durations, at any time.
WaitOver == pc \in {"wait", "pause"} /\ Top

\* A failed attempt is only reported while its TV is still the configured one.
GiveUp ==
    /\ pc' = "wait"
    /\ status' = IF config.ip = snap.ip THEN "error" ELSE status
    /\ UNCHANGED <<snap, job, left, open, answers, engine, changes, late>>

\* The head of the command loop compares the shared address with the active
\* one.  st is the status the task has stored on its way there.
LoopHeadUnchecked(st) ==
    pc' = "receive" /\ status' = st /\ UNCHANGED late
LoopHead(st) ==
    /\ late' = 0
    /\ IF config.ip = snap.ip
       THEN pc' = "receive" /\ status' = st
       ELSE /\ pc' = IF WebSocket THEN "wait" ELSE "pause"
            /\ status' = "connecting"

\* The TV is ready and the socket new.  An LG TV will answer the registration, for
\* which nobody waits.
ReadyOldAnswers ==
    /\ LoopHead("connected")
    /\ open' = TRUE
    /\ UNCHANGED <<answers, snap, job, left, engine, changes>>
Ready ==
    /\ LoopHead("connected")
    /\ open' = TRUE
    /\ answers' = IF snap.brand = "Lg"
                  THEN <<[from |-> snap.ip, volume |-> FALSE]>> ELSE <<>>
    /\ UNCHANGED <<snap, job, left, engine, changes>>

\* The token offered to a Samsung TV is read from the shared configuration now.
ConnectOk ==
    /\ pc = "connect"
    /\ IF snap.brand = "Roku"
       THEN Ready
       ELSE /\ pc' = "handshake" /\ snap' = [snap EXCEPT !.token = config.token]
            /\ UNCHANGED <<status, job, left, open, answers,
                           engine, changes, late>>
    /\ NoSave /\ UNCHANGED <<config, chosen, crossed>>

ConnectFails ==
    /\ pc = "connect"
    /\ GiveUp /\ NoSave /\ UNCHANGED <<config, chosen, crossed>>

\* LG: WebSocket and registration.  Sony: a first volume query.
HandshakeOk ==
    /\ pc = "handshake" /\ snap.brand # "Samsung"
    /\ Ready
    /\ NoSave /\ UNCHANGED <<config, chosen, crossed>>

HandshakeFails ==
    /\ pc = "handshake" /\ snap.brand # "Samsung"
    /\ GiveUp /\ NoSave /\ UNCHANGED <<config, chosen, crossed>>

Crossing ==
    /\ crossed' = (crossed \/ snap.ip # chosen \/ config.ip # chosen)
    /\ UNCHANGED chosen

\* The Samsung pairing succeeds: the token of the TV connected to, if it sends
\* one, goes into the configuration that is current by now.  A TV that was not
\* offered its own token sends it.
Paired ==
    /\ pc = "handshake" /\ snap.brand = "Samsung"
    /\ \/ /\ snap.ip \in Tokenless \/ snap.token = snap.ip
          /\ UNCHANGED <<config, chosen, crossed>> /\ NoSave
       \/ /\ config' = [config EXCEPT !.token = snap.ip]
          /\ Save(config') /\ Crossing
    /\ Ready

PairingFails ==
    /\ pc = "handshake" /\ snap.brand = "Samsung"
    /\ IF config.token # None
       THEN /\ config' = [config EXCEPT !.token = None]
            /\ Save(config') /\ Crossing
       ELSE UNCHANGED <<config, chosen, crossed>> /\ NoSave
    /\ GiveUp

-----------------------------------------------------------------------------
\* tv_task: the command loop.

Untouched == UNCHANGED <<config, saves, snap, changes, chosen, crossed, dropped>>

\* An LG TV answers every request, and nobody reads the answers to commands.
\* A capped number of them is kept.
Asked(volume) ==
    answers' = IF snap.brand = "Lg"
               THEN Sent(answers, MaxUnread, [from |-> snap.ip, volume |-> volume])
               ELSE answers

\* exec_duck_cmd up to its first await.
Execute(cmd) ==
    /\ job' = cmd
    /\ IF cmd.kind = "VolumeDown" /\ original = None /\ Absolute
       THEN pc' = "query" /\ left' = 0 /\ Asked(TRUE)
       ELSE pc' = "act" /\ left' = cmd.steps /\ UNCHANGED answers

Receive ==
    /\ pc = "receive" /\ queue # <<>>
    /\ queue' = Tail(queue)
    /\ late' = IF config.ip = snap.ip THEN late ELSE late + 1
    /\ IF WebSocket
       THEN Execute(Head(queue))
       ELSE pc' = "open" /\ job' = Head(queue) /\ UNCHANGED <<left, answers>>
    /\ Untouched /\ UNCHANGED <<status, open, state, original>>

\* No command for a while: the HTTP brands check the address, the others probe
\* the connection.
ReceiveTimeout ==
    /\ pc = "receive" /\ queue = <<>>
    /\ IF WebSocket
       THEN pc' = "keepalive" /\ Asked(TRUE) /\ UNCHANGED <<status, late>>
       ELSE LoopHead(status) /\ UNCHANGED answers
    /\ Untouched /\ UNCHANGED <<job, left, open, engine>>

Leave == pc' = "wait" /\ status' = "connecting" /\ late' = 0

\* One frame is read, the oldest, whatever it answers.
ReadAnswer == answers # <<>> /\ answers' = Tail(answers)

\* The probe of an LG TV takes the oldest unread answer for its own.
KeepaliveAnswered ==
    /\ pc = "keepalive"
    /\ IF snap.brand = "Lg"
       THEN ReadAnswer /\ IF Head(answers).volume THEN LoopHead(status) ELSE Leave
       ELSE LoopHead(status) /\ UNCHANGED answers
    /\ Untouched /\ UNCHANGED <<job, left, open, engine>>

KeepaliveFails ==
    /\ pc = "keepalive"
    /\ Leave
    /\ Untouched /\ UNCHANGED <<job, left, open, answers, engine>>

OpenOk ==
    /\ pc = "open"
    /\ Execute(job) /\ open' = TRUE
    /\ Untouched /\ UNCHANGED <<status, engine, late>>

\* A refused connection loses the command and shows an error for five seconds.
OpenFails ==
    /\ pc = "open"
    /\ pc' = "refused" /\ status' = "error" /\ job' = NoJob
    /\ Untouched /\ UNCHANGED <<left, open, answers, engine, late>>

RefusedOver ==
    /\ pc = "refused" /\ LoopHead("connected")
    /\ Untouched /\ UNCHANGED <<job, left, open, answers, engine>>

BackoffOver ==
    /\ pc = "backoff" /\ LoopHead(status)
    /\ Untouched /\ UNCHANGED <<job, left, open, answers, engine>>

\* A Sony TV closes the connection after an answer, as the request tells it to.
Posted == open' = (snap.brand # "Sony")

\* The volume query before the first VolumeDown of a session.
Queried ==
    /\ pc = "query" /\ open
    /\ IF snap.brand = "Lg"
       THEN /\ ReadAnswer
            /\ original' = IF original = None /\ Head(answers).volume
                           THEN Head(answers).from ELSE original
       ELSE /\ UNCHANGED answers
            /\ original' = IF original = None THEN snap.ip ELSE original
    /\ pc' = "act" /\ Posted
    /\ Untouched /\ UNCHANGED <<status, job, left, queue, state, late>>

QueryFails ==
    /\ pc = "query"
    /\ pc' = "act"
    /\ Untouched
    /\ UNCHANGED <<status, job, left, open, answers, engine, late>>

\* A command is over: clear_duck_state after a restore, then the loop's head,
\* or, after a failure, the end of the connection or a pause.
Cleared(ok) ==
    IF job.kind = "Restore" /\ (ok => state = "Restoring")
    THEN state' = "Quiet" /\ original' = None
    ELSE UNCHANGED <<state, original>>

Done ==
    /\ Cleared(TRUE) /\ LoopHead(status)
    /\ job' = NoJob /\ left' = 0

\* One key press, or one step of the ramp.
Act ==
    /\ pc = "act" /\ open
    /\ Posted /\ Asked(FALSE)
    /\ IF left > 1
       THEN left' = left - 1 /\ UNCHANGED <<pc, status, job, state, original, late>>
       ELSE Done
    /\ Untouched /\ UNCHANGED queue

\* The request fails: because the TV has closed the connection, or by a fault.
ActFails ==
    /\ pc = "act"
    /\ Cleared(FALSE) /\ job' = NoJob /\ left' = 0
    /\ IF WebSocket
       THEN Leave
       ELSE pc' = "backoff" /\ UNCHANGED <<status, late>>
    /\ Untouched /\ UNCHANGED <<queue, open, answers>>

-----------------------------------------------------------------------------
Init ==
    /\ \/ config = [ip |-> None, brand |-> "Lg", token |-> None]
       \/ \E tv \in Stored, token \in Address \cup {None} :
            /\ token \in {None, tv.ip}
            /\ config = [ip |-> tv.ip, brand |-> tv.brand, token |-> token]
    /\ snap = config
    /\ saves = <<>> /\ status = "off" /\ pc = "pause"
    /\ job = NoJob /\ left = 0 /\ open = FALSE /\ answers = <<>>
    /\ queue = <<>> /\ state = "Quiet" /\ original = None
    /\ changes = 0 /\ late = 0 /\ chosen = config.ip
    /\ crossed = FALSE /\ dropped = FALSE

TvTask ==
    \/ WaitOver \/ ConnectOk \/ ConnectFails
    \/ HandshakeOk \/ HandshakeFails \/ Paired \/ PairingFails
    \/ Receive \/ ReceiveTimeout \/ KeepaliveAnswered \/ KeepaliveFails
    \/ OpenOk \/ OpenFails \/ RefusedOver \/ BackoffOver
    \/ Queried \/ QueryFails \/ Act \/ ActFails

Next ==
    \/ SetTv \/ Disconnect \/ SaveTvConfig
    \/ Duck \/ StartRestore \/ Disarm
    \/ TvTask

Spec == Init /\ [][Next]_vars

\* Timers and socket timeouts end every await of tv_task.  Nothing is assumed of the
\* TV, nor of wifi_task, which a download can keep from its requests for ever.
FairSpec == Spec /\ WF_vars(TvTask)

-----------------------------------------------------------------------------
Status == {"off", "connecting", "connected", "error"}
Answer == [from : Address, volume : BOOLEAN]

TypeOK ==
    /\ config \in TvConfig /\ snap \in TvConfig
    /\ saves \in Seq(TvConfig) /\ Len(saves) <= SaveSize
    /\ status \in Status
    /\ pc \in {"wait", "pause", "connect", "handshake"} \cup InLoop
    /\ job \in Job \cup {NoJob} /\ left \in 0..MaxSteps
    /\ open \in BOOLEAN
    /\ answers \in Seq(Answer) /\ Len(answers) <= MaxUnread
    /\ queue \in Seq(Job) /\ Len(queue) <= QueueSize
    /\ state \in {"Quiet", "Ducking", "Restoring"}
    /\ original \in Address \cup {None}
    /\ changes \in 0..MaxChanges /\ late \in Nat
    /\ chosen \in Address \cup {None}
    /\ crossed \in BOOLEAN /\ dropped \in BOOLEAN

\* After the viewer has replaced or removed a TV at most one more command is
\* sent to it: the one tv_task was waiting for when it last looked.
AtMostOneLate == late <= 1

OwnToken(cfg) == cfg.token \in {None, cfg.ip}

\* A token, in memory or on its way to flash, belongs to the TV it is kept with,
\* as long as no TV was replaced while its pairing was under way.
TokenOfItsTv ==
    ~ crossed => OwnToken(config) /\ \A i \in DOMAIN saves : OwnToken(saves[i])

\* A volume taken for the original one was answered by the TV tv_task is
\* connected to, however many answers were left unread before.
CapturedHere ==
    [][original' \notin {original, None} => original' = snap.ip]_vars

\* The inductive invariant: every await but a wait belongs to a TV, unread
\* answers are those of the TV connected to, and no command is late when
\* tv_task waits for one.
Located == pc \notin {"wait", "pause"} => snap.ip \in Address
AnswersHere ==
    pc \in InLoop => \A i \in DOMAIN answers : answers[i].from = snap.ip
LateCounted == late \in {0, 1} /\ (pc = "receive" => late = 0)

LinkInv == TypeOK /\ Located /\ AnswersHere /\ LateCounted /\ TokenOfItsTv

\* The viewer's last choice is not forgotten, although wifi_task writes older saves
\* back over it: the newest save still waiting is of that choice, or, when none
\* waits, the shared configuration is.
Settling == IF saves = <<>> THEN config ELSE saves[Len(saves)]
ChoiceKept == ~ (crossed \/ dropped) => Settling.ip = chosen

\* When the viewer has made up their mind, tv_task works with the TV they chose,
\* whatever it was doing, and shows "off" if they chose none: older saves, which
\* undo the choice for a while, do not last, if wifi_task gets through them.
ChoiceTakenUp ==
    []~ (crossed \/ dropped) /\ []<>(saves = <<>>) =>
        <>[](/\ config.ip = chosen /\ snap.ip = chosen
             /\ chosen = None => status = "off")
================================================================================
