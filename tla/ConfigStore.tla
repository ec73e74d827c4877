------------------------------ MODULE ConfigStore ------------------------------
(***************************************************************************)
(* What Guardian remembers across restarts: the configuration block of     *)
(* firmware-rs/src/flash_config.rs, and wifi_task of net.rs, the only task *)
(* that touches flash.  At boot it loads the block into the cells the      *)
(* other tasks use, joins the network or opens the setup hotspot, and then *)
(* takes save requests from WIFI_CMD_CH one at a time.                     *)
(*                                                                         *)
(* A save reads the block, changes one section, erases the sector and      *)
(* writes the block back, all without an await: no task runs in between,   *)
(* but the power can fail there, and so can the erase or the write.        *)
(* A TV configuration, credentials and a calibration are values without    *)
(* structure here, but the fields of the block are narrower than the       *)
(* strings in RAM: a Samsung token of 16 characters, which tv.rs accepts,  *)
(* or a password of 64 is cut by one.  Fitted says what is kept of each.   *)
(***************************************************************************)
EXTENDS Integers, Sequences

CONSTANTS
    None,
    Credentials,   \* networks (name and password) a client can send
    TvConfig,      \* configurations of a TV with an address
    Paired,        \* those that hold a Samsung token
    Fitted,        \* what the block keeps of each of these, None if unreadable
    DefaultTv,     \* the TV of GUARDIAN_TV_IP, or None
    Calibration,   \* the floor and tripwire pairs the engine can hold
    Loadable,      \* those flash_load_calibration accepts: both in -96..0 dB
    DefaultCal,    \* the engine's levels before any calibration
    Build,         \* with (TRUE) or without compile-time credentials
    Attempts,      \* joins tried with each set of credentials
    Capacity       \* the capacity of WIFI_CMD_CH

ASSUME StoreAssumption ==
    /\ None \notin Credentials \cup TvConfig \cup Calibration
    /\ \A w \in Credentials : Fitted[w] \in Credentials \cup {None}
    /\ \A t \in TvConfig : Fitted[t] \in TvConfig \cup {None}
    /\ Paired \subseteq TvConfig
    /\ DefaultTv \in TvConfig \cup {None}
    /\ DefaultCal \in Calibration /\ Loadable \subseteq Calibration
    /\ Build \subseteq BOOLEAN
    /\ Attempts \in Nat \ {0} /\ Capacity \in Nat \ {0}

VARIABLES
    sector,    \* the flash sector: a valid block, or Blank
    builtIn,   \* have_compile_creds
    phase,     \* where wifi_task is
    attempt,   \* joins that have failed with the credentials being tried
    hotspot,   \* AP_MODE
    tv,        \* the shared TvConfig, None without an address
    cal,       \* the engine's floor and tripwire
    queue,     \* WIFI_CMD_CH
    waiting,   \* the credentials websocket_task waits to send: one or none
    unsaved    \* history: since boot a save was dropped or failed

boot == <<builtIn, phase, attempt, hotspot>>
cells == <<tv, cal>>
channel == <<queue, waiting>>
vars == <<sector, boot, cells, channel, unsaved>>

\* An erased sector, or one whose magic or CRC does not match.
Blank == [valid |-> FALSE, creds |-> None, tv |-> None, cal |-> None]
FreshBlock == [Blank EXCEPT !.valid = TRUE]

\* The block a save starts from (validate_or_fresh), and what the loads see.
AlwaysFresh == FreshBlock
Block == IF sector.valid THEN sector ELSE FreshBlock

Scan == [kind |-> "Other"]
Reconfigure(w) == [kind |-> "Reconfigure", value |-> w]
SaveTvConfig(t) == [kind |-> "SaveTvConfig", value |-> t]
SaveCalibration(c) == [kind |-> "SaveCalibration", value |-> c]
WifiCmd ==
    {Scan} \cup {Reconfigure(w) : w \in Credentials \cup {None}}
        \cup {SaveTvConfig(t) : t \in TvConfig \cup {None}}
        \cup {SaveCalibration(c) : c \in Calibration}

Pending(kind) == \E i \in DOMAIN queue : queue[i].kind = kind

----------------------------------------------------------------------------
(* Boot.  Every RAM cell starts over and the stored configuration is read. *)

LoadedTv(b) == IF b.tv = None THEN DefaultTv ELSE b.tv
LoadedCal(b) == IF b.cal \in Loadable THEN b.cal ELSE DefaultCal

\* Flash credentials first, then the compiled ones; the hotspot without either.
NoBuiltIn(b) == IF b.creds # None THEN "flashJoin" ELSE "serving"
AlwaysJoin(b) == IF b.creds # None THEN "flashJoin" ELSE "builtInJoin"
FirstPhase(b) ==
    IF b.creds # None THEN "flashJoin"
    ELSE IF builtIn THEN "builtInJoin" ELSE "serving"

StartOver ==
    /\ attempt' = 0
    /\ tv' = LoadedTv(Block') /\ cal' = LoadedCal(Block')
    /\ queue' = <<>> /\ waiting' = {}
    /\ unsaved' = FALSE
    /\ UNCHANGED builtIn

Boot ==
    /\ phase' = FirstPhase(Block')
    /\ hotspot' = (phase' = "serving")
    /\ StartOver

JoinOk ==
    /\ phase \in {"flashJoin", "builtInJoin"}
    /\ phase' = "dhcp"
    /\ UNCHANGED <<sector, builtIn, attempt, hotspot, cells, channel, unsaved>>

\* After the last attempt: the compiled credentials, or give up.
JoinFails ==
    /\ phase \in {"flashJoin", "builtInJoin"}
    /\ IF attempt + 1 < Attempts
       THEN attempt' = attempt + 1 /\ UNCHANGED phase
       ELSE /\ attempt' = 0
            /\ phase' = IF phase = "flashJoin" /\ builtIn
                        THEN "builtInJoin" ELSE "noNetwork"
    /\ UNCHANGED <<sector, builtIn, hotspot, cells, channel, unsaved>>

DhcpOk ==
    /\ phase = "dhcp"
    /\ phase' = "serving"
    /\ UNCHANGED <<sector, builtIn, attempt, hotspot, cells, channel, unsaved>>

DhcpTimeout ==
    /\ phase = "dhcp"
    /\ phase' = "noAddress"
    /\ UNCHANGED <<sector, builtIn, attempt, hotspot, cells, channel, unsaved>>

\* write_config_block: a failing erase leaves the sector alone, a failing write
\* leaves it erased.
Write(b, ok) ==
    \/ ok /\ sector' = b
    \/ ~ ok /\ sector' \in {sector, Blank}

GaveUp == phase \in {"noNetwork", "noAddress"}

\* flash_clear_creds, which keeps the other sections, and the reset after it.
WithoutCreds(b) == [b EXCEPT !.creds = None]
GiveUp(ok) ==
    /\ GaveUp
    /\ IF sector.valid THEN Write(WithoutCreds(sector), ok) ELSE UNCHANGED sector
    /\ Boot

----------------------------------------------------------------------------
(* The other tasks, which run once the network is up and until the reset   *)
(* that follows a change of network.                                       *)

Online == phase \in {"serving", "busy"}
Running == Online \/ phase = "saved"

OneTooMany == Len(queue) <= Capacity
HasRoom == Len(queue) < Capacity

\* try_send: a request that finds the channel full is gone.
TrySend(cmd) ==
    IF HasRoom THEN queue' = Append(queue, cmd) /\ UNCHANGED unsaved
    ELSE unsaved' = (unsaved \/ cmd # Scan) /\ UNCHANGED queue

\* set_tv of websocket_task, which forgets the token, and a token tv_task was
\* given or has dropped.
ChangeTv(t) ==
    /\ tv' = t
    /\ TrySend(SaveTvConfig(t))
    /\ UNCHANGED <<sector, boot, cal, waiting>>
WsSetTv(t) == Running /\ waiting = {} /\ t \notin Paired /\ ChangeTv(t)
TvToken(t) ==
    Running /\ ~ hotspot /\ (t = None <=> tv = None) /\ ChangeTv(t)

\* calibrate_silence, calibrate_max and threshold.
WsCalibrate(c) ==
    /\ Running /\ waiting = {}
    /\ cal' = c
    /\ TrySend(SaveCalibration(c))
    /\ UNCHANGED <<sector, boot, tv, waiting>>

\* scan_wifi and ota_download: requests that do not change the block.
WsScan ==
    /\ Running /\ waiting = {}
    /\ TrySend(Scan)
    /\ UNCHANGED <<sector, boot, cells, waiting>>

\* set_wifi, with or without a network name, waits for room in the channel, and
\* websocket_task with it.
WsSetWifi(w) ==
    /\ Running /\ waiting = {}
    /\ waiting' = {w}
    /\ UNCHANGED <<sector, boot, cells, queue, unsaved>>
SendWaiting ==
    /\ HasRoom
    /\ \E w \in waiting : queue' = Append(queue, Reconfigure(w))
    /\ waiting' = {}
    /\ UNCHANGED <<sector, boot, cells, unsaved>>

----------------------------------------------------------------------------
(* handle_wifi_cmd, for the request at the head of the channel.  A request *)
(* is gone whether or not its write succeeded.                             *)

\* What the fields of the block, of fixed width, keep of a value.
Fit(v) == IF v = None THEN None ELSE Fitted[v]

\* The block each save writes: one section is new, the rest as it was read.
WithCreds(w) == [Block EXCEPT !.creds = Fit(w)]
WithTv(t) == [Block EXCEPT !.tv = Fit(t)]
WithCal(c) == [Block EXCEPT !.cal = c]

RetryUntilWritten(ok) == IF ok THEN queue' = Tail(queue) ELSE UNCHANGED queue
NewestTaken(ok) == queue' = SubSeq(queue, 1, Len(queue) - 1)
Taken(ok) == queue' = Tail(queue)

Handle(kind, ok) ==
    /\ phase = "serving"
    /\ queue # <<>> /\ Head(queue).kind = kind
    /\ Taken(ok)
    /\ UNCHANGED <<builtIn, attempt, hotspot, waiting>>

\* A scan or a download keeps wifi_task from its channel until it ends.
TakeOther ==
    /\ Handle("Other", TRUE)
    /\ phase' = "busy"
    /\ UNCHANGED <<sector, cells, unsaved>>
OtherDone ==
    /\ phase = "busy"
    /\ phase' = "serving"
    /\ UNCHANGED <<sector, builtIn, attempt, hotspot, cells, channel, unsaved>>

HandleReconfigure(ok) ==
    /\ Handle("Reconfigure", ok)
    /\ Write(WithCreds(Head(queue).value), ok)
    /\ phase' = IF ok THEN "saved" ELSE "serving"
    /\ unsaved' = (unsaved \/ ~ ok)
    /\ UNCHANGED cells

\* The saved configuration also becomes the shared one, whatever it is by now.
HandleSaveTvConfig(ok) ==
    /\ Handle("SaveTvConfig", ok)
    /\ Write(WithTv(Head(queue).value), ok)
    /\ tv' = Head(queue).value
    /\ unsaved' = (unsaved \/ ~ ok)
    /\ UNCHANGED <<phase, cal>>

HandleSaveCalibration(ok) ==
    /\ Handle("SaveCalibration", ok)
    /\ Write(WithCal(Head(queue).value), ok)
    /\ unsaved' = (unsaved \/ ~ ok)
    /\ UNCHANGED <<phase, cells>>

\* The reset half a second after new credentials were saved.
Restart ==
    /\ phase = "saved"
    /\ UNCHANGED sector
    /\ Boot

\* The power fails, perhaps between the erase and the write of a save; RAM is
\* as a boot will find it.
Writing ==
    \/ GaveUp
    \/ phase = "serving" /\ queue # <<>> /\ Head(queue) # Scan
PowerCut ==
    /\ phase # "off"
    /\ \/ UNCHANGED sector
       \/ Writing /\ sector' = Blank
    /\ phase' = "off" /\ hotspot' = FALSE
    /\ StartOver
PowerOn ==
    /\ phase = "off"
    /\ UNCHANGED sector
    /\ Boot

----------------------------------------------------------------------------

\* A device from the factory, or one with an older configuration.
Init ==
    /\ sector \in {Blank} \cup
                      {[FreshBlock EXCEPT !.creds = w] : w \in Credentials}
    /\ builtIn \in Build
    /\ phase = FirstPhase(Block) /\ hotspot = (phase = "serving")
    /\ attempt = 0
    /\ tv = LoadedTv(Block) /\ cal = LoadedCal(Block)
    /\ queue = <<>> /\ waiting = {}
    /\ unsaved = FALSE

Clients ==
    \/ \E t \in TvConfig \cup {None} : WsSetTv(t) \/ TvToken(t)
    \/ \E c \in Calibration : WsCalibrate(c)
    \/ \E w \in Credentials \cup {None} : WsSetWifi(w)
    \/ WsScan \/ SendWaiting
Join == JoinOk \/ JoinFails
Dhcp == DhcpOk \/ DhcpTimeout
HandleCmd(ok) ==
    \/ HandleReconfigure(ok) \/ HandleSaveTvConfig(ok)
    \/ HandleSaveCalibration(ok)

Next ==
    \/ Clients
    \/ Join \/ Dhcp
    \/ TakeOther \/ OtherDone \/ Restart \/ PowerCut \/ PowerOn
    \/ \E ok \in BOOLEAN : GiveUp(ok) \/ HandleCmd(ok)

Spec == Init /\ [][Next]_vars

\* wifi_task polls its channel every 100 ms; joins and DHCP end by success,
\* failure or timeout.  Nothing is assumed of OtherDone: the requests of a
\* download have no timeout.
FairSpec ==
    /\ Spec
    /\ WF_vars(Join) /\ WF_vars(Dhcp)
    /\ WF_vars(\E ok \in BOOLEAN : GiveUp(ok))
    /\ WF_vars(TakeOther \/ \E ok \in BOOLEAN : HandleCmd(ok))
    /\ WF_vars(Restart) /\ WF_vars(PowerOn)
    /\ SF_vars(SendWaiting)

----------------------------------------------------------------------------

ConfigBlock ==
    [valid : {TRUE}, creds : Credentials \cup {None}, tv : TvConfig \cup {None},
     cal : Calibration \cup {None}]
Phase == {"off", "flashJoin", "builtInJoin", "dhcp", "noNetwork", "noAddress",
          "serving", "busy", "saved"}

TypeOK ==
    /\ sector \in ConfigBlock \cup {Blank}
    /\ builtIn \in BOOLEAN /\ hotspot \in BOOLEAN
    /\ phase \in Phase /\ attempt \in 0..(Attempts - 1)
    /\ tv \in TvConfig \cup {None} /\ cal \in Calibration
    /\ queue \in Seq(WifiCmd) /\ Len(queue) <= Capacity
    /\ waiting \in {{}} \cup {{w} : w \in Credentials \cup {None}}
    /\ unsaved \in BOOLEAN

\* Once the requests to save have been handled, and unless one was dropped or
\* failed, the stored TvConfig and levels are those the other tasks use, up to
\* what fits the block, or the tasks use what a boot makes of the stored ones,
\* although wifi_task writes an older TvConfig back over a newer one on the way
\* (net.rs:435).
TvSynced ==
    ~ unsaved /\ ~ Pending("SaveTvConfig") =>
        sector.tv = Fit(tv) \/ tv = LoadedTv(sector)
CalSynced ==
    ~ unsaved /\ ~ Pending("SaveCalibration") =>
        cal \in {sector.cal, LoadedCal(sector)}
Synced == TvSynced /\ CalSynced

\* The open hotspot is only ever started by a device that has no network to
\* join, neither stored nor compiled in (README.md:393).
HotspotOnlyFresh ==
    hotspot => ~ builtIn /\ Running /\ (Online => sector.creds = None)

\* The inductive invariant: the levels the engine has are the ones in the last
\* request to save them, since handling it does not touch the engine.
LatestCal ==
    ~ unsaved => \A i \in DOMAIN queue : queue[i].kind = "SaveCalibration" =>
        \/ queue[i].value = cal
        \/ \E j \in DOMAIN queue : j > i /\ queue[j].kind = "SaveCalibration"
StoreInv == TypeOK /\ Synced /\ HotspotOnlyFresh /\ LatestCal

\* README.md:520: a save preserves the other sections, also across failures and
\* power cuts: each step changes at most one of them, or everything is lost.
Sections == {"creds", "tv", "cal"}
Kept == sector' = Blank \/ \E s \in Sections : \A r \in Sections \ {s} :
                              sector'[r] = sector[r]
OneSection == [][Kept]_vars

\* A device without compiled credentials never ends in a loop of failed joins:
\* it joins, or it becomes reachable through its hotspot, once the power stays on
\* and erasing the credentials works.
Reachable ==
    ~ builtIn /\ <>[](phase # "off") /\ <>[][GaveUp => sector'.creds = None]_vars
        => []<>Online

\* websocket_task, blocked by a full channel in set_wifi, gets on again, also
\* when writes go on failing, unless a download never ends.
ClientUnblocked ==
    []<>(phase # "busy") => (waiting # {} ~> waiting = {})
================================================================================
