----------------------------- MODULE TvLink_proofs -----------------------------
(***************************************************************************)
(* Proofs about TvLink for every set of TVs and choices, every capacity    *)
(* of the channels, and any number of changes: LinkInv is inductive, and a *)
(* captured volume is the connected TV's.                                  *)
(***************************************************************************)
EXTENDS TvLink, TLAPS

USE LinkAssumption

\* What a try_send leaves in a queue.
LEMMA Sending ==
    ASSUME NEW S, NEW q \in Seq(S), NEW size \in Nat, Len(q) <= size, NEW e \in S
    PROVE  /\ Sent(q, size, e) \in Seq(S) /\ Len(Sent(q, size, e)) <= size
           /\ \A i \in DOMAIN Sent(q, size, e) :
                  \/ Sent(q, size, e)[i] = e
                  \/ i \in DOMAIN q /\ Sent(q, size, e)[i] = q[i]
  BY DEF Sent

\* Taking the head of a queue.
LEMMA Taking ==
    ASSUME NEW S, NEW q \in Seq(S), q # <<>>
    PROVE  /\ Head(q) \in S /\ Head(q) = q[1] /\ 1 \in DOMAIN q
           /\ Tail(q) \in Seq(S) /\ Len(Tail(q)) = Len(q) - 1
           /\ \A i \in DOMAIN Tail(q) :
                  i + 1 \in DOMAIN q /\ Tail(q)[i] = q[i + 1]
  OBVIOUS

\* A save request keeps the type of the channel and adds at most one element.
LEMMA Saving ==
    ASSUME TypeOK, NEW cfg \in TvConfig, Save(cfg)
    PROVE  /\ saves' \in Seq(TvConfig) /\ Len(saves') <= SaveSize
           /\ dropped' \in BOOLEAN
           /\ \A i \in DOMAIN saves' :
                  saves'[i] = cfg \/ (i \in DOMAIN saves /\ saves'[i] = saves[i])
  <1>1. saves' = Sent(saves, SaveSize, cfg)
    BY DEF Save, Sent
  <1>2. saves \in Seq(TvConfig) /\ Len(saves) <= SaveSize /\ SaveSize \in Nat
    BY DEF TypeOK
  <1>3. dropped' \in BOOLEAN
    BY DEF Save, TypeOK
  <1> QED BY <1>1, <1>2, <1>3, Sending

\* The commands are commands, and the steps of one stay within MaxSteps.
LEMMA Jobs ==
    /\ NoJob.steps = 0 /\ NoJob.kind = "None"
    /\ Key("VolumeDown") \in Job
    /\ \A n \in 1..MaxSteps : Restore(n) \in Job
    /\ \A cmd \in Job : cmd.steps \in 0..MaxSteps
  <1>1. NoJob.steps = 0 /\ NoJob.kind = "None"
    BY DEF NoJob
  <1>2. Key("VolumeDown") \in Job /\ \A n \in 1..MaxSteps : Restore(n) \in Job
    BY DEF Job
  <1>3. ASSUME NEW cmd \in Job
        PROVE  cmd.steps \in 0..MaxSteps
    <2>1. CASE cmd = Key("VolumeDown")
      BY <2>1 DEF Key
    <2>2. ASSUME NEW n \in 1..MaxSteps, cmd = Restore(n)
          PROVE  cmd.steps \in 0..MaxSteps
      BY <2>2 DEF Restore
    <2> QED BY <2>1, <2>2 DEF Job
  <1> QED BY <1>1, <1>2, <1>3

\* An answer of the TV connected to joins the unread ones.
LEMMA Answering ==
    ASSUME TypeOK, snap.ip \in Address, NEW volume \in BOOLEAN, Asked(volume)
    PROVE  /\ answers' \in Seq(Answer) /\ Len(answers') <= MaxUnread
           /\ \A i \in DOMAIN answers' :
                  \/ answers'[i].from = snap.ip
                  \/ i \in DOMAIN answers /\ answers'[i] = answers[i]
  <1> DEFINE e == [from |-> snap.ip, volume |-> volume]
  <1>1. e \in Answer /\ e.from = snap.ip
    BY DEF Answer
  <1>2. /\ answers \in Seq(Answer) /\ Len(answers) <= MaxUnread
        /\ MaxUnread \in Nat
    BY DEF TypeOK
  <1>3. CASE snap.brand = "Lg"
    <2>1. answers' = Sent(answers, MaxUnread, e)
      BY <1>3 DEF Asked
    <2> HIDE DEF e
    <2>2. /\ Sent(answers, MaxUnread, e) \in Seq(Answer)
          /\ Len(Sent(answers, MaxUnread, e)) <= MaxUnread
          /\ \A i \in DOMAIN Sent(answers, MaxUnread, e) :
                \/ Sent(answers, MaxUnread, e)[i] = e
                \/ /\ i \in DOMAIN answers
                   /\ Sent(answers, MaxUnread, e)[i] = answers[i]
      BY <1>1, <1>2, Sending
    <2> QED BY <1>1, <2>1, <2>2
  <1>4. CASE snap.brand # "Lg"
    BY <1>2, <1>4 DEF Asked
  <1> QED BY <1>3, <1>4

\* The head of the command loop waits for a command or leaves.
LEMMA AtLoopHead ==
    ASSUME NEW st \in Status, LoopHead(st)
    PROVE  /\ late' = 0
           /\ pc' \in {"receive", "wait", "pause"}
           /\ status' \in Status
           /\ pc' = "receive" => config.ip = snap.ip
  BY DEF LoopHead, Status

\* exec_duck_cmd's first part asks for the volume or starts to act.
LEMMA Executing ==
    ASSUME TypeOK, snap.ip \in Address, NEW cmd \in Job \cup {NoJob}, Execute(cmd)
    PROVE  /\ job' = cmd /\ pc' \in {"query", "act"} /\ left' \in 0..MaxSteps
           /\ answers' \in Seq(Answer) /\ Len(answers') <= MaxUnread
           /\ \A i \in DOMAIN answers' :
                  \/ answers'[i].from = snap.ip
                  \/ i \in DOMAIN answers /\ answers'[i] = answers[i]
  <1>1. cmd.steps \in 0..MaxSteps
    BY Jobs
  <1>2. CASE cmd.kind = "VolumeDown" /\ original = None /\ Absolute
    <2>1. Asked(TRUE) /\ job' = cmd /\ pc' = "query" /\ left' = 0
      BY <1>2 DEF Execute
    <2>2. 0 \in 0..MaxSteps
      OBVIOUS
    <2> QED BY <2>1, <2>2, Answering
  <1>3. CASE ~ (cmd.kind = "VolumeDown" /\ original = None /\ Absolute)
    BY <1>1, <1>3 DEF Execute, TypeOK
  <1> QED BY <1>2, <1>3

\* A TV that is ready starts with its own answers only.
LEMMA Readying ==
    ASSUME TypeOK, snap.ip \in Address, Ready
    PROVE  /\ late' = 0 /\ status' \in Status /\ open' = TRUE
           /\ pc' \in {"receive", "wait", "pause"}
           /\ pc' = "receive" => config.ip = snap.ip
           /\ UNCHANGED <<snap, job, left, queue, state, original, changes>>
           /\ answers' \in Seq(Answer) /\ Len(answers') <= MaxUnread
           /\ \A i \in DOMAIN answers' : answers'[i].from = snap.ip
  <1>1. LoopHead("connected") /\ "connected" \in Status
    BY DEF Ready, Status
  <1>2. CASE snap.brand = "Lg"
    <2> DEFINE e == [from |-> snap.ip, volume |-> FALSE]
    <2>1. answers' = <<e>> /\ e \in Answer /\ e.from = snap.ip
      BY <1>2 DEF Ready, Answer
    <2> HIDE DEF e
    <2>2. /\ answers' \in Seq(Answer) /\ Len(answers') = 1
          /\ \A i \in DOMAIN answers' : answers'[i] = e
      BY <2>1
    <2> QED BY <1>1, <2>1, <2>2, AtLoopHead DEF Ready, engine
  <1>3. CASE snap.brand # "Lg"
    <2>1. answers' = <<>>
      BY <1>3 DEF Ready
    <2> QED BY <1>1, <2>1, AtLoopHead DEF Ready, engine
  <1> QED BY <1>2, <1>3

\* What the viewer does keeps the types.
LEMMA TypeOfChange ==
    ASSUME TypeOK, Located, NEW cfg \in TvConfig, NEW st, ChangeTo(cfg, st),
           st \in Status
    PROVE  TypeOK' /\ Located'
  <1>1. Save(cfg)
    BY DEF ChangeTo
  <1>2. changes' \in 0..MaxChanges
    BY DEF ChangeTo, TypeOK
  <1>3. chosen' \in Address \cup {None}
    BY DEF ChangeTo, TvConfig
  <1> QED
    BY <1>1, <1>2, <1>3, Saving DEF ChangeTo, TypeOK, Located, task, engine

LEMMA TypeStep ==
    ASSUME TypeOK, Located, LateCounted, [Next]_vars
    PROVE  TypeOK' /\ Located'
  <1>1. CASE SetTv
    BY <1>1, TypeOfChange DEF SetTv, NewConfig, TvConfig, Status
  <1>2. CASE Disconnect
    BY <1>2, TypeOfChange DEF Disconnect, NoConfig, TvConfig, TypeOK, Status
  <1>3. CASE SaveTvConfig
    BY <1>3, Taking DEF SaveTvConfig, TypeOK, Located, task, engine, history
  <1>4. CASE Duck
    BY <1>4, Sending, Jobs DEF Duck, TypeOK, Located, shared, task, history
  <1>5. CASE StartRestore
    BY <1>5, Sending, Jobs DEF StartRestore, TypeOK, Located, shared, task, history
  <1>6. CASE Disarm
    <2>1. queue' \in Seq(Job) /\ Len(queue') <= QueueSize
      <3>1. CASE state = "Ducking"
        <4>1. PICK n \in 1..MaxSteps : queue' = Sent(queue, QueueSize, Restore(n))
          BY <1>6, <3>1 DEF Disarm
        <4> QED BY <4>1, Sending, Jobs DEF TypeOK
      <3>2. CASE state # "Ducking"
        BY <1>6, <3>2 DEF Disarm, TypeOK
      <3> QED BY <3>1, <3>2
    <2> QED BY <1>6, <2>1 DEF Disarm, TypeOK, Located, shared, task, history
  <1>7. CASE WaitOver
    BY <1>7 DEF WaitOver, Top, NoSave, TypeOK, Status, Located, TvConfig, engine
  <1>8. CASE ConnectOk
    <2>1. /\ snap.ip \in Address
          /\ UNCHANGED <<config, chosen, crossed, saves, dropped>>
      BY <1>8 DEF ConnectOk, NoSave, Located
    <2>2. CASE snap.brand = "Roku"
      <3>1. Ready
        BY <1>8, <2>2 DEF ConnectOk
      <3>2. /\ late' = 0 /\ status' \in Status /\ open' = TRUE
            /\ pc' \in {"receive", "wait", "pause"}
            /\ UNCHANGED <<snap, job, left, queue, state, original, changes>>
            /\ answers' \in Seq(Answer) /\ Len(answers') <= MaxUnread
        BY <2>1, <3>1, Readying
      <3> QED BY <2>1, <3>2 DEF TypeOK, Located, InLoop
    <2>3. CASE snap.brand # "Roku"
      <3>1. /\ snap' = [snap EXCEPT !.token = config.token] /\ pc' = "handshake"
            /\ UNCHANGED <<status, job, left, open, answers, engine, changes, late>>
        BY <1>8, <2>3 DEF ConnectOk
      <3>2. snap' \in TvConfig /\ snap'.ip = snap.ip
        BY <3>1 DEF TypeOK, TvConfig
      <3> QED BY <2>1, <3>1, <3>2 DEF TypeOK, Located, engine
    <2> QED BY <2>2, <2>3
  <1>9. CASE ConnectFails
    BY <1>9 DEF ConnectFails, GiveUp, NoSave, TypeOK, Status, Located, engine
  <1>10. CASE HandshakeOk
    <2>1. /\ snap.ip \in Address /\ Ready
          /\ UNCHANGED <<config, chosen, crossed, saves, dropped>>
      BY <1>10 DEF HandshakeOk, NoSave, Located
    <2>2. /\ late' = 0 /\ status' \in Status /\ open' = TRUE
          /\ pc' \in {"receive", "wait", "pause"}
          /\ UNCHANGED <<snap, job, left, queue, state, original, changes>>
          /\ answers' \in Seq(Answer) /\ Len(answers') <= MaxUnread
      BY <2>1, Readying
    <2> QED BY <2>1, <2>2 DEF TypeOK, Located, InLoop
  <1>11. CASE HandshakeFails
    BY <1>11 DEF HandshakeFails, GiveUp, NoSave, TypeOK, Status, Located, engine
  <1>12. CASE Paired
    <2>1. snap.ip \in Address /\ Ready /\ UNCHANGED chosen
      BY <1>12 DEF Paired, Crossing, Located
    <2>2. /\ config' \in TvConfig /\ crossed' \in BOOLEAN /\ dropped' \in BOOLEAN
          /\ saves' \in Seq(TvConfig) /\ Len(saves') <= SaveSize
      <3>1. CASE UNCHANGED <<config, chosen, crossed>> /\ NoSave
        BY <3>1 DEF NoSave, TypeOK
      <3>2. CASE /\ config' = [config EXCEPT !.token = snap.ip]
                 /\ Save(config') /\ Crossing
        <4>1. config' \in TvConfig /\ crossed' \in BOOLEAN
          BY <2>1, <3>2 DEF TypeOK, TvConfig, Crossing
        <4> QED BY <3>2, <4>1, Saving
      <3> QED BY <1>12, <3>1, <3>2 DEF Paired
    <2>3. /\ late' = 0 /\ status' \in Status /\ open' = TRUE
          /\ pc' \in {"receive", "wait", "pause"}
          /\ UNCHANGED <<snap, job, left, queue, state, original, changes>>
          /\ answers' \in Seq(Answer) /\ Len(answers') <= MaxUnread
      BY <2>1, Readying
    <2> QED BY <2>1, <2>2, <2>3 DEF TypeOK, Located, InLoop
  <1>13. CASE PairingFails
    <2>1. /\ config' \in TvConfig /\ crossed' \in BOOLEAN /\ dropped' \in BOOLEAN
          /\ saves' \in Seq(TvConfig) /\ Len(saves') <= SaveSize
          /\ UNCHANGED chosen
      <3>1. CASE UNCHANGED <<config, chosen, crossed>> /\ NoSave
        BY <3>1 DEF NoSave, TypeOK
      <3>2. CASE /\ config' = [config EXCEPT !.token = None]
                 /\ Save(config') /\ Crossing
        <4>1. /\ config' \in TvConfig /\ crossed' \in BOOLEAN
              /\ UNCHANGED chosen
          BY <3>2 DEF TypeOK, TvConfig, Crossing
        <4> QED BY <3>2, <4>1, Saving
      <3> QED BY <1>13, <3>1, <3>2 DEF PairingFails
    <2>2. /\ pc' = "wait" /\ status' \in Status
          /\ UNCHANGED <<snap, job, left, open, answers, queue, state, original,
                         changes, late>>
      BY <1>13 DEF PairingFails, GiveUp, engine, TypeOK, Status
    <2> QED BY <2>1, <2>2 DEF TypeOK, Located
  <1>14. CASE Receive
    BY <1>14, Taking, Executing, Jobs DEF Receive, Untouched, TypeOK, Located, InLoop
  <1>15. CASE ReceiveTimeout
    <2>1. /\ snap.ip \in Address
          /\ UNCHANGED <<config, saves, snap, changes, chosen, crossed, dropped,
                         job, left, open, queue, state, original>>
      BY <1>15 DEF ReceiveTimeout, Untouched, engine, Located
    <2>2. CASE WebSocket
      <3>1. pc' = "keepalive" /\ Asked(TRUE) /\ UNCHANGED <<status, late>>
        BY <1>15, <2>2 DEF ReceiveTimeout
      <3>2. answers' \in Seq(Answer) /\ Len(answers') <= MaxUnread
        BY <2>1, <3>1, Answering
      <3> QED BY <2>1, <3>1, <3>2 DEF TypeOK, Located, InLoop
    <2>3. CASE ~ WebSocket
      <3>1. LoopHead(status) /\ UNCHANGED answers /\ status \in Status
        BY <1>15, <2>3 DEF ReceiveTimeout, TypeOK
      <3> QED BY <2>1, <3>1, AtLoopHead DEF TypeOK, Located, InLoop
    <2> QED BY <2>2, <2>3
  <1>16. CASE KeepaliveAnswered
    <2>1. /\ snap.ip \in Address
          /\ UNCHANGED <<config, saves, snap, changes, chosen, crossed, dropped,
                         job, left, open, queue, state, original>>
      BY <1>16 DEF KeepaliveAnswered, Untouched, engine, Located
    <2>2. answers' \in Seq(Answer) /\ Len(answers') <= MaxUnread
      <3>1. \/ answers # <<>> /\ answers' = Tail(answers)
            \/ UNCHANGED answers
        BY <1>16 DEF KeepaliveAnswered, ReadAnswer
      <3>2. /\ answers \in Seq(Answer) /\ Len(answers) <= MaxUnread
            /\ MaxUnread \in Nat /\ Len(answers) \in Nat
        BY DEF TypeOK
      <3> QED BY <3>1, <3>2, Taking
    <2>3. late' = 0 /\ status' \in Status /\ pc' \in {"receive", "wait", "pause"}
      <3>1. LoopHead(status) \/ Leave
        BY <1>16 DEF KeepaliveAnswered, ReadAnswer
      <3> QED BY <3>1, AtLoopHead DEF Leave, Status, TypeOK
    <2> QED BY <2>1, <2>2, <2>3 DEF TypeOK, Located, InLoop
  <1>17. CASE KeepaliveFails
    BY <1>17 DEF KeepaliveFails, Leave, Untouched, TypeOK, Status, Located,
          InLoop, engine
  <1>18. CASE OpenOk
    <2>1. /\ snap.ip \in Address /\ job \in Job \cup {NoJob} /\ open' = TRUE
          /\ UNCHANGED <<config, saves, snap, changes, chosen, crossed, dropped,
                         status, queue, state, original, late>>
      BY <1>18 DEF OpenOk, Untouched, engine, Located, TypeOK
    <2>2. /\ job' \in Job \cup {NoJob} /\ pc' \in {"query", "act"}
          /\ left' \in 0..MaxSteps
          /\ answers' \in Seq(Answer) /\ Len(answers') <= MaxUnread
      BY <1>18, <2>1, Executing DEF OpenOk
    <2> QED BY <2>1, <2>2 DEF TypeOK, Located, InLoop
  <1>19. CASE OpenFails
    BY <1>19 DEF OpenFails, Untouched, TypeOK, Status, Located, InLoop, engine
  <1>20. CASE RefusedOver
    BY <1>20, AtLoopHead DEF RefusedOver, Untouched, TypeOK, Status, Located,
          InLoop, engine
  <1>21. CASE BackoffOver
    BY <1>21, AtLoopHead DEF BackoffOver, Untouched, TypeOK, Status, Located,
          InLoop, engine
  <1>22. CASE Queried
    <2>1. /\ snap.ip \in Address /\ pc' = "act" /\ open' \in BOOLEAN
          /\ UNCHANGED <<config, saves, snap, changes, chosen, crossed, dropped,
                         status, job, left, queue, state, late>>
      BY <1>22 DEF Queried, Posted, Untouched, Located
    <2>2. /\ answers' \in Seq(Answer) /\ Len(answers') <= MaxUnread
          /\ original' \in Address \cup {None}
      <3>1. CASE snap.brand = "Lg"
        <4>1. /\ answers # <<>> /\ answers' = Tail(answers)
              /\ original' \in {original, Head(answers).from}
          BY <1>22, <3>1 DEF Queried, ReadAnswer
        <4>2. Head(answers) \in Answer /\ answers' \in Seq(Answer)
              /\ Len(answers') <= MaxUnread
          BY <4>1, Taking DEF TypeOK
        <4> QED BY <4>1, <4>2 DEF Answer, TypeOK
      <3>2. CASE snap.brand # "Lg"
        BY <1>22, <2>1, <3>2 DEF Queried, ReadAnswer, TypeOK
      <3> QED BY <3>1, <3>2
    <2> QED BY <2>1, <2>2 DEF TypeOK, Located, InLoop
  <1>23. CASE QueryFails
    BY <1>23 DEF QueryFails, Untouched, TypeOK, Located, InLoop, engine
  <1>24. CASE Act
    <2>1. /\ snap.ip \in Address /\ open' \in BOOLEAN
          /\ UNCHANGED <<config, saves, snap, changes, chosen, crossed, dropped,
                         queue>>
      BY <1>24 DEF Act, Posted, Untouched, Located
    <2>2. answers' \in Seq(Answer) /\ Len(answers') <= MaxUnread
      BY <1>24, <2>1, Answering DEF Act
    <2>3. CASE left > 1
      <3>1. left' = left - 1
            /\ UNCHANGED <<pc, status, job, state, original, late>>
        BY <1>24, <2>3 DEF Act
      <3>2. left' \in 0..MaxSteps
        BY <2>3, <3>1 DEF TypeOK
      <3> QED BY <2>1, <2>2, <3>1, <3>2 DEF TypeOK, Located
    <2>4. CASE ~ left > 1
      <3>1. Cleared(TRUE) /\ LoopHead(status) /\ job' = NoJob /\ left' = 0
        BY <1>24, <2>4 DEF Act, Done
      <3>2. state' \in {"Quiet", "Ducking", "Restoring"}
            /\ original' \in Address \cup {None}
        BY <3>1 DEF Cleared, TypeOK
      <3>3. status \in Status /\ 0 \in 0..MaxSteps
        BY DEF TypeOK
      <3> QED BY <2>1, <2>2, <3>1, <3>2, <3>3, AtLoopHead DEF TypeOK, Located, InLoop
    <2> QED BY <2>3, <2>4
  <1>25. CASE ActFails
    BY <1>25 DEF ActFails, Cleared, Leave, Untouched, TypeOK, Status, Located, InLoop
  <1>26. CASE UNCHANGED vars
    BY <1>26 DEF vars, shared, task, engine, history, TypeOK, Located
  <1> QED BY <1>1, <1>2, <1>3, <1>4, <1>5, <1>6, <1>7, <1>8, <1>9, <1>10, <1>11,
        <1>12, <1>13, <1>14, <1>15, <1>16, <1>17, <1>18, <1>19, <1>20, <1>21,
        <1>22, <1>23, <1>24, <1>25, <1>26 DEF Next, TvTask

\* The command loop never keeps an answer of another TV.
LEMMA AnswersStep ==
    ASSUME TypeOK, Located, AnswersHere, [Next]_vars
    PROVE  AnswersHere'
  <1> DEFINE Here == \A i \in DOMAIN answers : answers[i].from = snap.ip
  <1>1. CASE SetTv \/ Disconnect
    BY <1>1 DEF SetTv, Disconnect, ChangeTo, task, AnswersHere
  <1>2. CASE SaveTvConfig \/ Duck \/ StartRestore \/ Disarm \/ UNCHANGED vars
    <2>1. UNCHANGED task
      BY <1>2 DEF SaveTvConfig, Duck, StartRestore, Disarm, vars
    <2> QED BY <2>1 DEF task, AnswersHere
  <1>3. CASE WaitOver \/ ConnectFails \/ HandshakeFails \/ PairingFails
    <2>1. pc' \in {"wait", "connect"}
      BY <1>3 DEF WaitOver, Top, ConnectFails, HandshakeFails, PairingFails, GiveUp
    <2> QED BY <2>1 DEF AnswersHere, InLoop
  <1>4. CASE ConnectOk \/ HandshakeOk \/ Paired
    <2>1. pc' = "handshake" \/ (Ready /\ snap.ip \in Address)
      BY <1>4 DEF ConnectOk, HandshakeOk, Paired, Located
    <2>2. CASE pc' = "handshake"
      BY <2>2 DEF AnswersHere, InLoop
    <2>3. CASE Ready /\ snap.ip \in Address
      <3>1. snap' = snap /\ \A i \in DOMAIN answers' : answers'[i].from = snap.ip
        BY <2>3, Readying
      <3> QED BY <3>1 DEF AnswersHere
    <2> QED BY <2>1, <2>2, <2>3
  <1>5. CASE Receive \/ ReceiveTimeout \/ OpenOk \/ Act
    <2>1. pc \in InLoop /\ snap' = snap /\ snap.ip \in Address
      BY <1>5 DEF Receive, ReceiveTimeout, OpenOk, Act, Untouched, Located, InLoop
    <2>2. \A i \in DOMAIN answers' :
              \/ answers'[i].from = snap.ip
              \/ i \in DOMAIN answers /\ answers'[i] = answers[i]
      <3>1. CASE UNCHANGED answers
        BY <3>1
      <3>2. CASE \E volume \in BOOLEAN : Asked(volume)
        BY <2>1, <3>2, Answering
      <3>3. CASE Receive /\ queue # <<>> /\ Execute(Head(queue))
        <4>1. Head(queue) \in Job
          BY <3>3, Taking DEF TypeOK
        <4> QED BY <2>1, <3>3, <4>1, Executing
      <3>4. CASE OpenOk
        <4>1. Execute(job) /\ job \in Job \cup {NoJob}
          BY <3>4 DEF OpenOk, TypeOK
        <4> QED BY <2>1, <4>1, Executing
      <3> QED
        BY <1>5, <3>1, <3>2, <3>3, <3>4 DEF Receive, ReceiveTimeout, Act
    <2> QED BY <2>1, <2>2 DEF AnswersHere
  <1>6. CASE KeepaliveAnswered \/ Queried
    <2>1. /\ pc \in InLoop /\ snap' = snap
          /\ (answers # <<>> /\ answers' = Tail(answers)) \/ UNCHANGED answers
      BY <1>6 DEF KeepaliveAnswered, Queried, ReadAnswer, Untouched, InLoop
    <2>2. Here
      BY <2>1 DEF AnswersHere
    <2>3. \A i \in DOMAIN answers' : answers'[i].from = snap.ip
      <3>1. CASE UNCHANGED answers
        BY <2>2, <3>1
      <3>2. CASE answers # <<>> /\ answers' = Tail(answers)
        <4>1. answers \in Seq(Answer)
          BY DEF TypeOK
        <4> QED BY <2>2, <3>2, <4>1, Taking
      <3> QED BY <2>1, <3>1, <3>2
    <2> QED BY <2>1, <2>3 DEF AnswersHere
  <1>7. CASE \/ KeepaliveFails \/ OpenFails \/ RefusedOver \/ BackoffOver
             \/ QueryFails \/ ActFails
    <2>1. pc \in InLoop /\ UNCHANGED <<snap, answers>>
      BY <1>7 DEF KeepaliveFails, OpenFails, RefusedOver, BackoffOver, QueryFails,
                  ActFails, Untouched, InLoop
    <2> QED BY <2>1 DEF AnswersHere
  <1> QED
    BY <1>1, <1>2, <1>3, <1>4, <1>5, <1>6, <1>7 DEF Next, TvTask

\* A command can be late only if tv_task was waiting for it, and it looks at the
\* shared configuration before it waits for another.
LEMMA LateStep ==
    ASSUME TypeOK, LateCounted, [Next]_vars
    PROVE  LateCounted'
  <1>1. CASE \/ SetTv \/ Disconnect \/ SaveTvConfig \/ Duck \/ StartRestore
             \/ Disarm \/ UNCHANGED vars
    <2>1. UNCHANGED <<pc, late>>
      BY <1>1 DEF SetTv, Disconnect, ChangeTo, SaveTvConfig, Duck, StartRestore,
                  Disarm, vars, task, history
    <2> QED BY <2>1 DEF LateCounted
  <1>2. CASE \/ WaitOver \/ ConnectFails \/ HandshakeFails \/ PairingFails
             \/ OpenOk \/ OpenFails \/ Queried \/ QueryFails
    <2>1. late' = late /\ pc' # "receive"
      BY <1>2 DEF WaitOver, Top, ConnectFails, HandshakeFails, PairingFails, GiveUp,
                  OpenOk, Execute, OpenFails, Queried, QueryFails
    <2> QED BY <2>1 DEF LateCounted
  <1>3. CASE Receive
    <2>1. late = 0 /\ pc' # "receive" /\ late' \in {late, late + 1}
      BY <1>3 DEF Receive, Execute, LateCounted
    <2> QED BY <2>1 DEF LateCounted
  <1>4. CASE \/ ConnectOk \/ HandshakeOk \/ Paired \/ ReceiveTimeout
             \/ KeepaliveAnswered \/ KeepaliveFails \/ RefusedOver
             \/ BackoffOver \/ Act \/ ActFails
    <2>1. late' = 0 \/ (late' = late /\ (pc' # "receive" \/ pc' = pc))
      BY <1>4 DEF ConnectOk, HandshakeOk, Paired, Ready, ReceiveTimeout,
                  KeepaliveAnswered, KeepaliveFails, Leave, RefusedOver,
                  BackoffOver, Act, Done, ActFails, LoopHead
    <2> QED BY <2>1 DEF LateCounted
  <1> QED
    BY <1>1, <1>2, <1>3, <1>4 DEF Next, TvTask

\* A request to save a configuration with its own token keeps the tokens in
\* their places.
LEMMA TokenSaved ==
    ASSUME TypeOK, NEW cfg \in TvConfig, Save(cfg), config' = cfg, OwnToken(cfg),
           \A i \in DOMAIN saves : OwnToken(saves[i])
    PROVE  TokenOfItsTv'
  <1>1. \A i \in DOMAIN saves' :
            saves'[i] = cfg \/ (i \in DOMAIN saves /\ saves'[i] = saves[i])
    BY Saving
  <1>2. \A i \in DOMAIN saves' : OwnToken(saves'[i])
    BY <1>1
  <1> QED BY <1>2 DEF TokenOfItsTv, OwnToken

\* Tokens stay with their TVs.
LEMMA TokenStep ==
    ASSUME TypeOK, TokenOfItsTv, [Next]_vars
    PROVE  TokenOfItsTv'
  <1> SUFFICES ASSUME ~ crossed'
               PROVE  TokenOfItsTv'
    BY DEF TokenOfItsTv
  <1>1. CASE SetTv \/ Disconnect
    <2>1. PICK cfg \in TvConfig, st \in Status :
              ChangeTo(cfg, st) /\ cfg.token = None
      <3>1. CASE SetTv
        <4>1. PICK choice \in Choice : ChangeTo(NewConfig(choice), "connecting")
          BY <3>1 DEF SetTv
        <4> QED BY <4>1 DEF NewConfig, TvConfig, Status
      <3>2. CASE Disconnect
        <4>1. ChangeTo(NoConfig, "off") /\ "off" \in Status
          BY <3>2 DEF Disconnect, Status
        <4>2. NoConfig \in TvConfig /\ NoConfig.token = None
          BY DEF NoConfig, TvConfig, TypeOK
        <4> QED BY <4>1, <4>2
      <3> QED BY <1>1, <3>1, <3>2
    <2>2. /\ Save(cfg) /\ config' = cfg /\ OwnToken(cfg)
          /\ crossed' = crossed
      BY <2>1 DEF ChangeTo, OwnToken
    <2> QED BY <2>2, TokenSaved DEF TokenOfItsTv
  <1>2. CASE SaveTvConfig
    <2>1. /\ saves # <<>> /\ config' = Head(saves) /\ saves' = Tail(saves)
          /\ crossed' = crossed /\ saves \in Seq(TvConfig)
      BY <1>2 DEF SaveTvConfig, history, TypeOK
    <2>2. /\ Head(saves) = saves[1] /\ 1 \in DOMAIN saves
          /\ \A i \in DOMAIN Tail(saves) :
                i + 1 \in DOMAIN saves /\ Tail(saves)[i] = saves[i + 1]
      BY <2>1, Taking
    <2>3. /\ OwnToken(saves[1])
          /\ \A i \in DOMAIN saves' : OwnToken(saves'[i])
      BY <2>1, <2>2 DEF TokenOfItsTv
    <2> QED BY <2>1, <2>2, <2>3 DEF TokenOfItsTv, OwnToken
  <1>3. CASE Paired \/ PairingFails
    <2>1. CASE UNCHANGED <<config, chosen, crossed>> /\ NoSave
      BY <2>1 DEF NoSave, TokenOfItsTv, OwnToken
    <2>2. ASSUME NEW token \in {None, snap.ip}, Save(config'), Crossing,
                 config' = [config EXCEPT !.token = token]
          PROVE  TokenOfItsTv'
      <3>1. config' = [config EXCEPT !.token = token] /\ Save(config') /\ Crossing
        BY <2>2
      <3>2. /\ ~ crossed /\ snap.ip = chosen /\ config.ip = chosen
        BY <3>1 DEF Crossing
      <3>3. /\ config' \in TvConfig /\ config'.ip = config.ip
            /\ config'.token = token
        BY <3>1, <3>2 DEF TypeOK, TvConfig
      <3>4. OwnToken(config')
        BY <3>2, <3>3 DEF OwnToken
      <3> QED BY <3>1, <3>2, <3>3, <3>4, TokenSaved DEF TokenOfItsTv
    <2>3. CASE Paired
      BY <2>1, <2>2, <2>3 DEF Paired
    <2>4. CASE PairingFails
      BY <2>1, <2>2, <2>4 DEF PairingFails
    <2> QED BY <1>3, <2>3, <2>4
  <1>4. CASE UNCHANGED <<config, saves, crossed>>
    BY <1>4 DEF TokenOfItsTv, OwnToken
  <1>5. CASE \/ Duck \/ StartRestore \/ Disarm \/ WaitOver \/ ConnectOk
             \/ ConnectFails \/ HandshakeOk \/ HandshakeFails \/ UNCHANGED vars
    <2>1. UNCHANGED <<config, saves, crossed>>
      BY <1>5 DEF Duck, StartRestore, Disarm, WaitOver, Top, ConnectOk, ConnectFails,
                  HandshakeOk, HandshakeFails, NoSave, vars, shared, history
    <2> QED BY <1>4, <2>1
  <1>6. CASE \/ Receive \/ ReceiveTimeout \/ KeepaliveAnswered \/ KeepaliveFails
             \/ OpenOk \/ OpenFails \/ RefusedOver \/ BackoffOver
             \/ Queried \/ QueryFails \/ Act \/ ActFails
    <2>1. Untouched
      BY <1>6 DEF Receive, ReceiveTimeout, KeepaliveAnswered, KeepaliveFails, OpenOk,
                  OpenFails, RefusedOver, BackoffOver, Queried, QueryFails, Act,
                  ActFails
    <2> QED BY <1>4, <2>1 DEF Untouched
  <1> QED
    BY <1>1, <1>2, <1>3, <1>5, <1>6 DEF Next, TvTask

\* Initially there are no answers, no saves and no late commands.
LEMMA LinkInit == Init => LinkInv
  <1> SUFFICES ASSUME Init PROVE LinkInv
    OBVIOUS
  <1>1. config \in TvConfig /\ config.token \in {None, config.ip}
    <2>1. CASE config = [ip |-> None, brand |-> "Lg", token |-> None]
      BY <2>1 DEF TvConfig, TvBrand
    <2>2. ASSUME NEW tv \in Stored, NEW token \in Address \cup {None},
                 token \in {None, tv.ip},
                 config = [ip |-> tv.ip, brand |-> tv.brand, token |-> token]
          PROVE  config \in TvConfig /\ config.token \in {None, config.ip}
      BY <2>2 DEF TvConfig
    <2> QED BY <2>1, <2>2 DEF Init
  <1>2. TypeOK
    <2>1. /\ config \in TvConfig /\ snap \in TvConfig
          /\ saves = <<>> /\ status \in Status /\ chosen \in Address \cup {None}
      BY <1>1 DEF Init, Status, TvConfig
    <2>2. /\ saves \in Seq(TvConfig) /\ Len(saves) = 0
          /\ answers \in Seq(Answer) /\ Len(answers) = 0
          /\ queue \in Seq(Job) /\ Len(queue) = 0
      BY DEF Init
    <2>3. /\ SaveSize \in Nat /\ QueueSize \in Nat /\ MaxUnread \in Nat
          /\ 0 \in 0..MaxSteps /\ 0 \in 0..MaxChanges /\ 0 \in Nat
      OBVIOUS
    <2>4. /\ pc = "pause" /\ job = NoJob /\ left = 0 /\ open = FALSE
          /\ state = "Quiet" /\ original = None /\ changes = 0 /\ late = 0
          /\ crossed = FALSE /\ dropped = FALSE
      BY DEF Init
    <2>5. /\ Len(saves) <= SaveSize
          /\ Len(answers) <= MaxUnread
          /\ Len(queue) <= QueueSize
      BY <2>2, <2>3
    <2>6. /\ job \in Job \cup {NoJob}
          /\ left \in 0..MaxSteps
          /\ changes \in 0..MaxChanges
      BY <2>3, <2>4
    <2> QED BY <2>1, <2>2, <2>4, <2>5, <2>6 DEF TypeOK
  <1> QED
    BY <1>1, <1>2 DEF Init, LinkInv, Located, AnswersHere, InLoop, LateCounted,
                      TokenOfItsTv, OwnToken

\* LinkInv holds in every reachable state.
THEOREM LinkCorrect == Spec => []LinkInv
  <1>1. LinkInv /\ [Next]_vars => LinkInv'
    BY TypeStep, AnswersStep, LateStep, TokenStep DEF LinkInv
  <1> QED
    BY <1>1, LinkInit, PTL DEF Spec

\* Every variable keeps its type: no queue of the model outgrows its channel.
THEOREM TypeCorrect == Spec => []TypeOK
  <1>1. LinkInv => TypeOK
    BY DEF LinkInv
  <1> QED BY <1>1, LinkCorrect, PTL

\* For every number of changes of the TV and every queue: one late command.
THEOREM LateCorrect == Spec => []AtMostOneLate
  <1>1. LinkInv => AtMostOneLate
    BY DEF LinkInv, LateCounted, AtMostOneLate
  <1> QED BY <1>1, LinkCorrect, PTL

\* Tokens stay with their TVs, in the shared configuration and on the way to
\* flash, in any order of changes, pairings and write-backs that do not cross.
THEOREM TokenCorrect == Spec => []TokenOfItsTv
  <1>1. LinkInv => TokenOfItsTv
    BY DEF LinkInv
  <1> QED BY <1>1, LinkCorrect, PTL

\* A volume becomes the original one only in Queried, which reads an answer of
\* the TV connected to.
LEMMA CapturedStep ==
    ASSUME LinkInv, [Next]_vars, original' \notin {original, None}
    PROVE  original' = snap.ip
  <1>1. CASE Queried
    <2>1. pc = "query"
      BY <1>1 DEF Queried, ReadAnswer
    <2>2. CASE snap.brand = "Lg"
      <3>1. answers # <<>> /\ original' = Head(answers).from
        BY <1>1, <2>2 DEF Queried, ReadAnswer
      <3>2. Head(answers) = answers[1] /\ 1 \in DOMAIN answers
        BY <3>1, Taking DEF LinkInv, TypeOK
      <3> QED BY <2>1, <3>1, <3>2 DEF LinkInv, AnswersHere, InLoop
    <2>3. CASE snap.brand # "Lg"
      BY <1>1, <2>3 DEF Queried
    <2> QED BY <2>2, <2>3
  <1>2. CASE SetTv \/ Disconnect \/ SaveTvConfig
    BY <1>2 DEF SetTv, Disconnect, ChangeTo, SaveTvConfig, engine
  <1>3. CASE Duck \/ StartRestore \/ Disarm \/ UNCHANGED vars
    BY <1>3 DEF Duck, StartRestore, Disarm, vars, engine
  <1>4. CASE \/ WaitOver \/ ConnectOk \/ ConnectFails \/ HandshakeOk
             \/ HandshakeFails \/ Paired \/ PairingFails
    BY <1>4 DEF WaitOver, Top, ConnectOk, ConnectFails, HandshakeOk, HandshakeFails,
                Paired, PairingFails, Ready, GiveUp, engine
  <1>5. CASE \/ Receive \/ ReceiveTimeout \/ KeepaliveAnswered \/ KeepaliveFails
             \/ OpenOk \/ OpenFails \/ RefusedOver \/ BackoffOver \/ QueryFails
    BY <1>5 DEF Receive, ReceiveTimeout, KeepaliveAnswered, KeepaliveFails, OpenOk,
                OpenFails, RefusedOver, BackoffOver, QueryFails, engine
  <1>6. CASE Act \/ ActFails
    BY <1>6 DEF Act, Done, ActFails, Cleared
  <1> QED
    BY <1>1, <1>2, <1>3, <1>4, <1>5, <1>6 DEF Next, TvTask

\* No volume of another TV is ever captured, whatever answers are outstanding.
THEOREM CapturedCorrect == Spec => CapturedHere
  <1>1. LinkInv /\ [Next]_vars
            => [original' \notin {original, None} => original' = snap.ip]_vars
    BY CapturedStep
  <1> QED BY <1>1, LinkCorrect, PTL DEF Spec, CapturedHere

\* A save that was not dropped is the newest one.
LEMMA SavedLast ==
    ASSUME TypeOK, NEW cfg \in TvConfig, Save(cfg), ~ dropped'
    PROVE  Settling' = cfg
  <1>1. saves \in Seq(TvConfig) /\ Len(saves) <= SaveSize /\ SaveSize \in Nat
    BY DEF TypeOK
  <1>2. Len(saves) # SaveSize
    BY DEF Save
  <1>3. saves' = Append(saves, cfg)
    BY <1>1, <1>2 DEF Save
  <1>4. saves' # <<>> /\ saves'[Len(saves')] = cfg
    BY <1>1, <1>3
  <1> QED BY <1>4 DEF Settling

\* The oldest save is handled: what everything settles on stays the same.
LEMMA SettlingStays ==
    ASSUME TypeOK, SaveTvConfig
    PROVE  Settling' = Settling
  <1>1. /\ saves \in Seq(TvConfig) /\ saves # <<>>
        /\ config' = saves[1] /\ saves' = Tail(saves)
    BY Taking DEF TypeOK, SaveTvConfig
  <1>2. Settling = saves[Len(saves)] /\ Len(saves) \in Nat \ {0}
    BY <1>1 DEF Settling
  <1>3. saves' \in Seq(TvConfig) /\ Len(saves') = Len(saves) - 1
    BY <1>1, Taking
  <1>4. CASE saves' = <<>>
    <2>1. Len(saves) = 1
      BY <1>2, <1>3, <1>4
    <2> QED BY <1>1, <1>2, <1>4, <2>1 DEF Settling
  <1>5. CASE saves' # <<>>
    <2>1. Len(saves') \in DOMAIN Tail(saves)
      BY <1>1, <1>3, <1>5
    <2>2. saves'[Len(saves')] = saves[Len(saves') + 1]
      BY <1>1, <2>1, Taking
    <2> QED BY <1>2, <1>3, <1>5, <2>2 DEF Settling
  <1> QED BY <1>4, <1>5

LEMMA ChoiceStep ==
    ASSUME TypeOK, Located, ChoiceKept, [Next]_vars
    PROVE  ChoiceKept'
  <1> SUFFICES ASSUME ~ crossed', ~ dropped'
               PROVE  Settling'.ip = chosen'
    BY DEF ChoiceKept
  <1>1. CASE SetTv \/ Disconnect
    <2>1. PICK cfg \in TvConfig : Save(cfg) /\ chosen' = cfg.ip
      <3>1. CASE SetTv
        <4>1. PICK choice \in Choice : ChangeTo(NewConfig(choice), "connecting")
          BY <3>1 DEF SetTv
        <4> QED BY <4>1 DEF NewConfig, TvConfig, ChangeTo
      <3>2. CASE Disconnect
        <4>1. ChangeTo(NoConfig, "off") /\ NoConfig \in TvConfig
          BY <3>2 DEF Disconnect, NoConfig, TvConfig, TypeOK
        <4> QED BY <4>1 DEF ChangeTo
      <3> QED BY <1>1, <3>1, <3>2
    <2> QED BY <2>1, SavedLast
  <1>2. CASE SaveTvConfig
    <2>1. UNCHANGED <<chosen, crossed, dropped>>
      BY <1>2 DEF SaveTvConfig, history
    <2> QED BY <1>2, <2>1, SettlingStays DEF ChoiceKept
  <1>3. CASE UNCHANGED <<config, saves, chosen, crossed, dropped>>
    BY <1>3 DEF ChoiceKept, Settling
  <1>4. CASE Paired \/ PairingFails
    <2>1. ASSUME NEW token \in {None, snap.ip}, Save(config'), Crossing,
                 snap.ip \in Address,
                 config' = [config EXCEPT !.token = token]
          PROVE  Settling'.ip = chosen'
      <3>1. config' = [config EXCEPT !.token = token] /\ Save(config') /\ Crossing
        BY <2>1
      <3>2. config.ip = chosen /\ chosen' = chosen
        BY <3>1 DEF Crossing
      <3>3. config' \in TvConfig /\ config'.ip = config.ip
        BY <2>1, <3>1 DEF TypeOK, TvConfig
      <3> QED BY <3>1, <3>2, <3>3, SavedLast
    <2>2. CASE UNCHANGED <<config, chosen, crossed>> /\ NoSave
      BY <1>3, <2>2 DEF NoSave
    <2> snap.ip \in Address
      BY <1>4 DEF Paired, PairingFails, Located
    <2>3. CASE Paired
      BY <2>1, <2>2, <2>3 DEF Paired
    <2>4. CASE PairingFails
      BY <2>1, <2>2, <2>4 DEF PairingFails
    <2> QED BY <1>4, <2>3, <2>4
  <1>5. CASE \/ Duck \/ StartRestore \/ Disarm \/ WaitOver \/ ConnectOk
             \/ ConnectFails \/ HandshakeOk \/ HandshakeFails \/ UNCHANGED vars
    <2>1. UNCHANGED <<config, saves, chosen, crossed, dropped>>
      BY <1>5 DEF Duck, StartRestore, Disarm, WaitOver, Top, ConnectOk, ConnectFails,
                  HandshakeOk, HandshakeFails, NoSave, vars, shared, history
    <2> QED BY <1>3, <2>1
  <1>6. CASE \/ Receive \/ ReceiveTimeout \/ KeepaliveAnswered \/ KeepaliveFails
             \/ OpenOk \/ OpenFails \/ RefusedOver \/ BackoffOver
             \/ Queried \/ QueryFails \/ Act \/ ActFails
    <2>1. Untouched
      BY <1>6 DEF Receive, ReceiveTimeout, KeepaliveAnswered, KeepaliveFails, OpenOk,
                  OpenFails, RefusedOver, BackoffOver, Queried, QueryFails, Act,
                  ActFails
    <2>2. UNCHANGED <<config, saves, chosen, crossed, dropped>>
      BY <1>6, <2>1 DEF Untouched, Receive, ReceiveTimeout, KeepaliveAnswered,
                  KeepaliveFails, OpenOk, OpenFails, RefusedOver, BackoffOver,
                  Queried, QueryFails, Act, ActFails
    <2> QED BY <1>3, <2>2
  <1> QED
    BY <1>1, <1>2, <1>4, <1>5, <1>6 DEF Next, TvTask

\* However saves, tokens and choices follow each other, the viewer's last choice is
\* what the shared configuration settles on, unless a save was dropped or a pairing
\* crossed the choice: the safety behind ChoiceTakenUp.
THEOREM ChoiceKeptCorrect == Spec => []ChoiceKept
  <1>1. Init => ChoiceKept
    BY DEF Init, ChoiceKept, Settling
  <1>2. LinkInv => TypeOK /\ Located
    BY DEF LinkInv
  <1> QED BY <1>1, <1>2, ChoiceStep, LinkCorrect, PTL DEF Spec
================================================================================
