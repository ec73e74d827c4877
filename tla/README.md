# Guardian sound sensor: TLA+ models and proofs

Guardian is a nursery sound monitor on a Raspberry Pi Pico 2 W. A microphone
feeds a ducking engine, the engine turns the living-room TV down through the
TV's network protocol and back up when the room is quiet, and a phone watches
and controls it over a WebSocket. This directory holds TLA+ modules translated
from the Rust sources, the TLC configurations that check them on small
instances, and TLAPS proofs of the properties that hold for every instance.

Paths below are relative to the repository (`firmware-rs/src/` unless said
otherwise). `PROJECT.json` maps every definition to the lines it models.

## 1. The system

### How the firmware executes

All tasks are Embassy futures on one core and one executor. A task runs until
its next `.await`; nothing interrupts it there (shared cells are
`ThreadModeRawMutex`, channels are bounded). Two tasks therefore interleave
only at awaits, and an await is where a value read earlier becomes stale. The
sending side of every channel is `try_send`: what finds a channel full is
dropped. The one exception is `set_wifi`, which waits for room in `WIFI_CMD_CH`.

| channel or cell | capacity | from | to |
|---|---|---|---|
| `DB_CHANNEL`, `CRY_CHANNEL` | 4, 4 | audio_task | ducking_task |
| `DUCK_CHANNEL` | 8 | ducking_task, websocket_task | tv_task |
| `LED_CHANNEL` | 4 | ducking_task, wifi_task | wifi_task |
| `TELEM_SIGNAL`, `CRY_EVENT_CH` | 1, 1 | ducking_task | websocket_task |
| `WIFI_CMD_CH`, `WIFI_EVT_CH` | 4, 2 | websocket_task, tv_task / wifi_task | wifi_task / websocket_task |
| `TV_WAKE_CH` | 1 | websocket_task | tv_task |
| `DuckingEngine`, `TvConfig`, `TELEMETRY`, `OTA_FILE_OFFSETS` | | shared under a mutex | |

### Inventory

| component | state | operations | interacts through | what is hard, what makes it correct |
|---|---|---|---|---|
| Ducking engine (`ducking.rs` 126-380) | tripwire, floor, armed, sustained_ms, state, last_duck_at, duck_steps_taken, original_volume | tick, arm, disarm, set_floor, set_tripwire, set_original_volume, clear_duck_state | engine mutex | late calls of tv_task in any state; two restore paths; saturation. Detection delay, hold, nothing owed while disarmed, restore comes |
| Cry tracker (`ducking.rs` 55-124) | crying, cycle count, window counters, cooldown | tick | called by ducking_task | rhythm of bursts and gaps; crying is earned, held and dropped |
| ducking_task (`ducking.rs` 382-457) | prev_led | one round per audio window | DB, CRY, LED, DUCK, TELEM, CRY_EVENT | everything is `try_send`; level and verdict are paired by position |
| tv_task (`tv.rs` 425-668) and command execution (764-850) | connection, active_ip, config snapshot | connect, pair, take a command, query, press, ramp, keepalive | DUCK, TV_WAKE, engine, TvConfig, TV_STATUS | five awaits inside one command, failure at each; the engine's Restoring ends only through it |
| TV protocols, SSDP (`tv.rs` 142-424, 850-1214) | none | LG SSAP, Samsung, Sony, Roku messages, discovery | sockets | parsing; answers out of order |
| TV configuration (`tv.rs` 85-92, 440-534, `ws.rs` 358-406, `net.rs` 434-440) | TvConfig and its copies in tv_task, WIFI_CMD_CH and flash | set_tv, Samsung token, SaveTvConfig | TvConfig mutex, WIFI_CMD_CH | older snapshots written back; one TV's token in another's configuration |
| Configuration block (`flash_config.rs`) | one 256-byte block with CRC | load and save of credentials, TV, calibration | wifi_task | erase, then write: power cut; field widths |
| Wi-Fi (`net.rs`, `ap_services.rs`, `setup_html.rs`) | credentials tried, DHCP steps, AP mode | join, DHCP, clear credentials, reset, setup hotspot, command loop | WIFI_CMD, WIFI_EVT, LED | a slow router erases the credentials |
| OTA (`ota.rs`, `flash_fs.rs`) | directory in flash, file table in RAM | check, reset_partition, download, commit_dir, load at boot | WIFI_CMD, WIFI_EVT, OTA_FILE_OFFSETS | partial downloads, power cut, readers of rewritten flash |
| HTTP server (`http.rs`, `pwa_assets.rs`) | copied file table | serve a file from flash or from the binary | OTA_FILE_OFFSETS | stale table while a download erases |
| WebSocket server (`ws.rs`) | one client | broadcast, events, 15 commands | everything | one frame per read; client loss; events for nobody |
| Audio (`audio.rs`) | filter and Goertzel states | one level and one verdict per 100 ms | DB, CRY | floating point |
| Start-up (`main.rs`), log (`dev_log.rs`), mDNS (`net.rs`) | statics | spawn, log queue, answers | | |
| PWA (`pwa-wasm/src`) | signals of the page | pages, reconnecting WebSocket | WebSocket | reconnect with stale page state |
| Host test copy (`guardian-test`) | | the same logic without Embassy | | drifts from the firmware |

The hazards, each at its line and with the properties that watch it, are the
list `hazards` of `PROJECT.json`.

## 2. What is modelled

### DuckingEngine

One variable per field of `DuckingEngine` except `duck_interval_ms`, which tick
writes and reads in the same call (`Interval`). `last_duck_at` is kept as the
time that has passed since (`lastDuck`), capped at `Hold`, since no comparison
in the code can tell larger values apart. `out` is the value the last method
call returned. `Tick` is the disjunction of the early returns of `tick`: not a
finite reading, disarmed, restore (Path A near silence, Path B hold), a
VolumeDown, ducking without a command, idle. Every method that another task can
call is an action: `Arm`, `Disarm`, `ClearDuckState`, `SetOriginalVolume`,
`CalibrateSilence`, `SetTripwire` (also `calibrate_max`), `LoadCalibration`.
tv_task's two calls are enabled in every state, because its answers may be late.

`heard` and `sinceDown` are history variables: they are never read by an action,
and let `DetectionDelay` and `HoldBeforeRestore` be stated without trusting
`sustained_ms` and `last_duck_at`, which late calls reset.

### CryTracker

`Window` is `CryTracker::tick` for one verdict. `Saturation` is `u8::MAX`; the run
lowers it to 18, two above the longest burst. The history variables judge the same
windows by what was really heard: `lastBurst` and `pause` are the lengths of the last
burst and of the pause since, `good` counts the bursts and breaths of the right length in
a row, `since` the windows since a confirmed rhythm broke off. `EnoughRhythm` and `StaysUp`
compare the flag with these, not with the tracker's own counters.

### DuckingSystem

The engine (`INSTANCE DuckingEngine`) with `DUCK_CHANNEL` and tv_task. tv_task is
split at its awaits: `off` (connecting, waiting to retry), `ready` (waiting for a
command), `connect` (per-command connection of Sony and Roku), `query`, `press`,
`ramp`. `Receive` up to the first await is one step (`Begin`), the answer to each
request is another, with a failing twin. `TvBrand` keeps the two facts the control
flow asks of it, absolute volume and WebSocket. The TV is its volume. `home` is the
volume the viewer asked for, `clean` records that no command was dropped or failed,
`ignored` that a key was pressed at an end of the scale and had no effect, `lost` that
a Restore was thrown away untried.

`RefinesEngine == Engine!Spec` states that the composition is an implementation of
the engine's own specification, so the engine's invariants carry over to it.

`Volumes` follows the commands under way, the one being executed first: `Volumes[i]` is where
the volume is once i of them are done, as the TV's scale, the brand and the captured volume
have it, and `Destination` is the last of these. `VolumeAccounted` compares the destination
with `home`. It is a recursive function and not a fold, so that it can be reasoned about.

The engine counts a step whenever it returns a VolumeDown, also when the TV is at 0 and the key
does nothing. So a restore may send more keys up than had an effect, with nothing failed:
`NoOvershoot`, which the comment at `MAX_DUCK_STEPS` promises, is refuted by a run. What holds is
`OvershootBounded`: the excess is at most one session's and does not add up from session to
session, since the volume never gets above the larger of `home` and the cap on the steps
(`Loudest`), and not above `home` as long as no key was without effect.

### ConfigStore

The configuration block and wifi_task, the only task that touches flash. `sector`
is the flash, a block of three sections or `Blank` (erased, or with a wrong magic or
CRC: the code treats them alike). `tv` and `cal` are the RAM cells the block is
loaded into, `queue` is `WIFI_CMD_CH`, `waiting` is websocket_task waiting in
`set_wifi`. `phase` is where wifi_task is: joining with stored or compiled
credentials, waiting for DHCP, giving up, serving its channel, busy with a scan or a download
(`TakeOther`, `OtherDone`), or between a save of credentials and the reset; `off` is a device
without power. A save reads, changes,
erases and writes without an await, so it is one step; `Write` lets the erase or
the write fail, and `PowerCut` falls between any two steps or between the erase and
the write. `Boot` ends every reset and loads the cells. `unsaved` is a history
variable: since boot a save was dropped from the full channel or failed.

The fields of the block are narrower than the strings in RAM. `Fitted` says what the block keeps of
each value and `Fit` is applied to what a save writes; in the run a Samsung configuration with a
token of 16 characters comes back as another one, a character short. `Paired` are the
configurations with a token, which only tv_task makes.

`Synced` is about a detail of `handle_wifi_cmd`: after the flash write it also copies
the request's `TvConfig` into the shared cell, so an older configuration replaces a
newer one that is still queued. The run and the proof show that this heals once no such request
is waiting, unless one was dropped or failed: then flash holds what fits of the configuration in use,
or the one in use is what a boot made of flash. That the two need not be equal is described in section 6.

### OtaUpdate

`download_update` as wifi_task runs it, the flash file store it writes and http_task, which
reads the same flash. `data` and `dir` are the partition: its data pages and its directory
sector. `fsDir` and `writePtr` are `FlashFs` in memory, `table` is `OTA_FILE_OFFSETS`
(files http_task asks it for only: `Served`), `job` is where the download is: waiting for
the release, for the answer to an asset's request (with its redirect), or reading the body.
`reader` is the response http_task sends from flash, with the area it copied from the table
and what it has sent. A page stands for the sector that is erased, the page that is written
and the piece that is sent at once; it holds `Erased`, `Garbage` or the k-th page of a file
of a release, so that a mixture of two releases can be told.

`Start`, `NoUpdate`, `FetchRelease`, `AssetStarts`, `AssetFails`, `BodyPage`, `BodyEnds` are
the stretches between the awaits of `download_update`: `FetchRelease` clears the table,
erases the partition and allocates the first asset in one step, the last `BodyEnds` commits
the directory and fills the table in one. `Request`, `SendPage` and `ResponseEnds` are
`http_task`. Every flash operation may fail, leaving what it had done so far; followed by
`PowerCut` the same step is a cut in the middle of the operation. `PowerCut` ends in the
table that `wifi_task` loads at boot.

Four history variables say what the properties except: `failed` (an erase or a commit failed
since the last boot or erase), `torn` (the directory in flash was cut short), `uneven` (an
asset was not as long as announced, which the code does not notice), and `calm` and `sound` of
a response (no erase has overtaken it; it began with files of the announced length).

A release need not contain the main file `guardian-pwa.js.gz`: the code only checks that it has
assets. Such a release is served after its download (`Stored`), but a boot looks for the main
file before it takes up the rest (`Loaded`), so the restart brings back the built-in site.
`RestartKeepsSite` names this exception.

### EngineView, CryAlarm and Site

What the rest of the system sees of the engine, of the cry tracker and of the flash, as three small
specifications that they implement (`ImplementsView`, `ImplementsAlarm`, `ImplementsSite`, checked
and proved). EngineView keeps `armed`, `ducking` and `warm` (some loud window is still counted):
ducking begins in no other call than a tick and never from a cold counter, and a disarm makes it
cold. CryAlarm keeps the flag and the windows it will still outlast. Monitor is built on these two,
so that what it shows holds for the detailed ones as well. Site is what a browser can see of the
flash: one site, built in, of one release or `Broken`, and the reply in progress. A site is only
ever withdrawn (`Withdraw`, by a download or by a boot that does not take it up, which ends what is
owed of a reply) and published as a whole in the
place of the built-in one (`Publish`); no step changes one site into another, a restart included,
and a reply grows by the pages of the file it was asked for, in their order. In `OtaUpdate` the site
is read off the file table (`ServedSite`), and the replies are those that no erase has overtaken
(`Replies`). Downloads that touch only the partition, failures and power cuts are steps of Site that
change nothing.

### TvLink

tv_task around its connection: the shared `TvConfig`, the copy it works with (`snap`), the
`SaveTvConfig` requests in `WIFI_CMD_CH` (`saves`) that wifi_task writes back into the shared
cell, `TV_STATUS`, `DUCK_CHANNEL`, and as much of the engine as tv_task depends on. `pc` is the
await tv_task is at. `ConnectOk`, `HandshakeOk`, `Paired` and their failing twins end the
awaits of a connection attempt, `Receive` to `ActFails` those of the command loop. `LoopHead`
is the comparison of the shared address with the active one, which the code makes at the head
of its loop only. `answers` are the answers of an LG TV that nobody has read, oldest first, the
one to the registration included: a volume query and a keepalive read whatever is oldest.
`open` is whether the connection can still take a request; a Sony TV closes it after each.

A token of a Samsung TV is represented by the address of the TV that issued it. Four history
variables: `late` counts the commands taken for a TV that is no longer the chosen one, `chosen`
is the viewer's last choice, `crossed` and `dropped` say what `TokenOfItsTv` and
`ChoiceTakenUp` except: a pairing that ended while its TV or the shared one was not the chosen
one, and a save lost in a full channel.

### Monitor

From the microphone to the LED and the parent. `Capture` is one window of `audio_task` with the
set of checks of `evaluate_cry` it passed; `Tick` is one round of `ducking_task`, which never
waits between taking a level and the end of the round; `LedLoop` and `CredentialError` are
wifi_task; the rest is websocket_task, split at each write. A level is known by the window it
belongs to, so that `Paired` can say that levels and verdicts are of the same windows. `stale`
is a history variable: since ducking_task last told the LED something, a pattern was dropped
or overwritten, or tv_task cleared the engine. `owed` says that the client now connected has
not been told of an alert raised while it was. `CommandLong` and `CommandDone` are a command
that waits before it is done; the writes of the broadcast are `Written`.

### Page

The web page and websocket_task at the two ends of a connection. The page is `use_websocket`
(connect, write, read, close, and the queue of messages `tx`), the armed switch and the update
card with its two timers; the firmware is the loop of websocket_task, wifi_task's downloads and
their outcomes in `WIFI_EVT_CH`. `alive` says that both ends belong to the same connection;
`wire` and `frames` are what one end has written and the other not read. `Receive(n)` is a read
that returns n frames, of which the code executes the first (`Execute` for any n). `Close` loses the message being
written, which the code took off its queue before. `Reset` is a restart of the device. `ran` is
a history variable, the number of the last command executed.

## 3. Runs

| run | instance | shows |
|---|---|---|
| `engine` (MCDuckingEngine) | five levels (near silence, below the tripwire, gentle, standard and crisis excess), two settings, two volumes, 0 to 2 time units between ticks, two loud windows trigger, hold 6, cap 3 steps; 11 364 states | `TypeOK`, `TripwireGap`, `DetectionDelay`, `HoldBeforeRestore`, the refinement `ImplementsView` and the liveness `QuietRoomRestores` |
| `cry_tracker` (MCCryTracker) | the firmware's own window counts; 83 037 states | `TypeOK`, `EnoughRhythm`, the refinement `ImplementsAlarm`, the liveness `CryingEnds` |
| `ducking_system` (MCDuckingSystem) | all four brands, channel of two, volumes 0..3 from 1, one loud window triggers, cap 2 steps; 1 082 836 states | `TypeOK`, `VolumeAccounted`, `OvershootBounded`, `RestoringBacked`, the refinement `RefinesEngine` |
| `ducking_system_liveness` | Samsung and Roku, volumes 0..2 from 2, two loud windows trigger, one test press; 189 476 states | `RestoringEnds`, `DisarmRestores` |
| `config_store` (MCConfigStore) | a network, a compiled-in TV and one with a token that does or does not fit the block, levels that can and cannot be loaded, with and without compiled credentials, two joins, channel of two; 605 730 states | `TypeOK`, `Synced`, `HotspotOnlyFresh`, `OneSection`, `Reachable`, `ClientUnblocked` |
| `ota_update` (MCOtaUpdate) | a partition of four data pages, four newer releases with one to three assets in different orders, one without the main file; 540 819 states | `TypeOK`, `OneRelease`, `RestartKeepsSite`, the refinement `ImplementsSite` |
| `tv_link` (MCTvLink) | a WebSocket TV (Samsung or LG) to start with, one change to itself, to another TV of any brand, or to none; room for one command, two saves, two unread answers; 282 084 states | `TypeOK`, `AtMostOneLate`, `TokenOfItsTv`, `CapturedHere`, `ChoiceTakenUp` |
| `monitor` (MCMonitor) | channels of two, every set of cry checks with at most one failing; 260 820 states | `TypeOK`, `Paired`, `LedAgrees`, `AlertsArrive` |
| `page` (MCPage) | three commands of the parent, two frames under way, one download and one outcome waiting, restarts and broken connections without bound; 188 024 states | `TypeOK`, `InOrder`, `NeverStuck`, `Converges` |
| `no_overshoot`, `served_whole`, `volume_restored` | as above (`no_overshoot` with the brands that have volume keys only) | disagreements between code and documentation, section 6 |

The inductive invariants of the proofs (`EngineInv`, `CryInv`, `SystemInv`, `BooksInv`, `StoreInv`,
`OtaInv`, `LinkInv`, `MonitorInv`) imply the invariants of the runs and were checked with the same
instances before they were proved; they are not repeated here, and neither are `WholeResponse`
(which `ImplementsSite` says more of), `AlertKept`, `ChoiceKept` and `Timed`.

Why the bounds are enough for the questions asked: every comparison of `tick` is
reached from both sides with the levels chosen (near silent, over and under the
tripwire, each of the three rates), the counters reach their caps and saturate, a
session can take all its steps and run against `MAX_DUCK_STEPS`, the channel
fills and drops with commands of two sessions in it, and the volume scale is short
enough that a key press at either end has no effect, with a cap on the steps above the viewer's volume. Scaling `Up`, `Down`,
`Detect`, `Hold` and the intervals down keeps their order (interval <= hold,
decay slower than growth); the proofs do not depend on the scale. Two requests in
`WIFI_CMD_CH` are enough for an older save to be handled while a newer one of the
same kind waits, and for a full channel; two joins tell the last one from the others.
Of the four newer releases of `ota_update` the first two order their assets differently, so that
an old area of one file meets a new area of another; one of them has a file of two pages, one
an asset that is not served, the third does not fit into the partition, and the fourth has no
main file. A body may be
shorter or longer than announced, up to the end of the partition and past it. Every download
starts with an erase, so more releases bring no new history, only other sizes.

One change of TV in `tv_link` can fall at every await of the old connection and be followed by
everything tv_task does with the new one; two saves are enough for a token's and a choice's to
cross, two unread answers for a registration and a command's in front of a query's. In
`monitor` two windows make a channel that is full, empty and neither, and the alarm and the
engine have no other counters than the cooldown, whose length no property depends on (the run
takes it as 0, so that alerts follow each other as fast as they can). In `page` three commands
are two that arrive in one read with a third behind them, or a check, a download and a further
check; a frame of each kind fits into the two under way.

`CHECK_DEADLOCK` stays on everywhere. Symmetry is not used: brands and volumes are
not interchangeable.

### Fairness

* Ticks (engine, cry tracker): `audio_task` sends a window every 100 ms and `ducking_task` awaits
  nothing but that channel, so `WF` on a tick with time passing. The properties of DuckingSystem need
  no fairness of ducking_task.
* `Connect`: tv_task retries for ever; `WF` says that the TV is switched on again
  in the end. Without it a Restore may wait in the channel for ever, which the
  code cannot help.
* `Receive`: on entering its loop with a command in the channel tv_task takes it
  before a keepalive can fail, since `with_timeout` polls the channel first. `SF`,
  because the loop may be left and entered again in between.
* `ConnectOk`/`ConnectFails` and the other pairs: every request ends by an answer,
  an error or the five-second socket timeout; nothing says which one, so the
  weak fairness is on the disjunction and failures may go on for ever.

* wifi_task (`ConfigStore`): it polls its channel every 100 ms, and a join or DHCP ends
  by success, an error or the 30-second limit, never which one: `WF` on each pair and on
  taking a request, whether its write succeeds or not. Nothing is assumed of `OtherDone`: the
  requests of a download have no timeout, so `ClientUnblocked` has as its premise that wifi_task is
  not busy for ever, and `Reachable` counts a device busy with a download as reachable. `PowerOn` says that the
  power returns. `SF` on `SendWaiting`, because tv_task may take a freed slot first,
  but sends only around a connection to the TV.

`OtaUpdate` has no liveness property and no fairness.

`Reachable` assumes a device without compiled credentials, that the power stays on in the
end, and that erasing the credentials works from some time on. With compiled
credentials that fail, the code resets for ever; the model has that behaviour too.

`RestoringEnds` assumes that no Restore is thrown away, `DisarmRestores` that
nothing fails (`clean`), that no key is without effect (`ignored`) and that the TV has only
volume keys: a step down that was never sent or did nothing is undone all the same.

* tv_task (`TvLink`): every await ends by an answer, an error, a socket timeout or a timer:
  `WF` on the disjunction of its actions, never on success. Nothing is assumed of
  `SaveTvConfig`, which may wait for a download for ever: `ChoiceTakenUp` has as its premise that the
  saves are got through, and needs no TV that ever answers.
* `Monitor`: the microphone delivers windows and ducking_task takes them. A write to the client
  ends, if only by the socket's timeout (60 s). Nothing is assumed of `CommandDone`: a check for updates
  (`ws.rs:428`) has no timeout, and `set_wifi` may wait for a stalled download (`ws.rs:356`).
  `AlertsArrive` has as its premise that no command lasts for ever; without it the
  client may stay in `command` for ever (section 6). `SF` on `Broadcast`: `select` polls the telemetry signal
  before the socket, so commands that keep coming cannot starve it. That the LED loop runs
  (`WF` on `LedLoop`) is needed by no property.
* `Page`: the page's timers run out, its loop runs (`WF` on the disjunction `Loop`) and
  websocket_task reads what has arrived and broadcasts. Nothing is assumed of the end of a check for
  updates (`CheckAnswer`), of the connection, of connecting again, of wifi_task's downloads or of the
  parent: `NeverStuck` holds with a check and a download that never end, and `Converges` has as its
  premises that the connection holds and that no check lasts for ever.

## 4. Proofs

`tlapm` checks every theorem below from its statement to the last leaf, for every value of the
constants that satisfies the named assumptions (`EngineAssumption`, `CryAssumption`,
`SystemAssumption`, `StoreAssumption`, `OtaAssumption`, `LinkAssumption`, `MonitorAssumption`,
`PageAssumption`, `NoneAssumption`). These say that levels are integers, times and caps naturals,
detection not zero, the duck intervals not longer than the hold, `MaxSteps` at least one, channels
not of capacity zero, and `None` none of the values it stands next to. `ViewImplemented` and
`ViewKept` have a hypothesis of their own, `OneWindowIsNotEnough`: detection takes longer than one
loud window, as in the firmware (3000 ms and 100 ms) and in the run `engine`, whose module assumes
it; `ducking_system` also runs without it. `OtaAssumption` says that the assets of a release have
different names; nothing is assumed of which assets there are, nor, in `StoreAssumption`, of what
the block keeps of a value.

* **DuckingEngine_proofs.** `EngineInv` is inductive: besides the four invariants it
  says that Ducking and Restoring remember their last step, that `lastDuck` is
  never larger than the true time since the last VolumeDown and implies a step
  taken, and that noise still counted in `sustained_ms` has been heard since it was
  last spent. Without the second, Path B could restore early; without the third,
  `DetectionDelay` is not inductive, because a restore by Path A happens with
  windows still accumulated. From it follow `TypeCorrect`, `GapCorrect`, `RestoreCorrect`,
  `DisarmedCorrect`, `DetectionCorrect`, `HoldCorrect`. The last two are action properties.
* **CryTracker_proofs.** `CryInv` says that inside a burst the tracker's counters agree with
  what was heard, that in a pause they do as long as the rhythm can go on and no cycle is
  left once it cannot, so that `cycles` is at most one ahead of `good` (the silence before the
  first burst), and that the cooldown and `since` add up. `EnoughRhythm` and `StaysUp` follow.
* **DuckingSystem_proofs.** `SystemInv` is the hand-over between the tasks: tv_task has a
  command exactly while it executes one, waits only where its brand can wait, and
  has at most the ramp of the restore it executes left. With it, `RestoringBacked`
  (the engine is in Restoring only while a Restore is on its way) and
  `ImplementsEngine` (initial states map to initial states, each step is an engine step
  or leaves the engine alone). Through this refinement the engine's own theorems are carried over
  (`EngineProofs == INSTANCE DuckingEngine_proofs`): `EngineKept`, `DelaysKept` and `ViewKept` say
  that its invariant, its two delays and its view hold among the other tasks too, and `TypeCorrect`
  takes the engine's types from there and the others from `SystemInv`.
* **The books of the volume** (same module). `AccountedCorrect` and `OvershootCorrect` prove
  `VolumeAccounted` and `OvershootBounded`, for every scale, cap and channel. `BooksInv` is inductive: to
  `SystemInv` and the first of the two it adds that a disarmed engine has no session and that
  without a session no step is owed (or a disarm would leave steps that a later restore undoes),
  and `NeverAbove`: neither the volume, nor any captured volume (the engine's, of a Restore queued or
  executing), nor any volume on the way through the queue is above the bound, and the destination
  leaves room for the steps of the open session. `OvershootBounded` alone does not follow from itself:
  the next capture is of a volume in the middle of the queue. The books are kept twice. As the TV has
  them a key at 0 does nothing (`atZero`), and they stay under the larger of the viewer's volume and
  the cap, because a session's steps start from nothing and end at a volume that is not below 0. As
  the engine has them the count goes on below 0, and as long as every key has had its effect the two
  agree and the bound is the viewer's volume itself. Each kind of step is shown to move the destination as much as it moves the books: a
  command appended, taken, executed or thrown away. The facts about `Volumes` (it is what its
  equation says, it only depends on the first i commands, two runs over the same commands that start
  in order stay in order, and shifting the commands by one shifts it) are inductions over the queue.
  The library's induction theorem cannot be used here, since it takes an operator as its parameter;
  they are proved from the set of indices at which the fact fails, whose least element (`Smallest`,
  from the well-foundedness of < on the naturals) is a contradiction. `KeysRestored` draws the
  conclusion: `VolumeRestored`, which a run refutes for TVs with a volume query, holds of TVs that
  only have volume keys. Its premises stay: no command dropped or failed, and no key pressed at an end
  of the scale.
* **ConfigStore_proofs.** `StoreInv` adds `LatestCal` to the invariants of the run: handling
  a `SaveCalibration` does not touch the engine, so `Synced` needs that the last such
  request in the channel holds the engine's levels. The lemmas `Appending`, `Taking` and
  `Latest_*` say what sending and receiving do to the requests in the channel. From it
  follow `TypeCorrect`, `SyncedCorrect`, `HotspotCorrect`, and `OneSectionCorrect`, an action
  property, from the types alone.

* **OtaUpdate_proofs.** `OtaInv` has four parts beside the types and `RestartKeepsSite`.
  `Published`: the table is empty or has what the directory names. `DirBacked`: the directory names files
  of one release, each whole in its area. `DownloadOK`: during a download directory and table are
  empty, the assets allocated so far lie one after the other (`Allocated`), those before the current
  one are whole, of the current one there is what has been received, and the rest of the partition
  is erased (`Written`). `ResponseOK`: what a calm response has sent is what its area still holds.
  The last page of the last asset turns `Written` into `DirBacked` (`Commit_OK`), the erase turns
  everything into nothing (`FetchRelease_OK`), and that a page written lies in no area allocated
  before is `Allocated`. From it follow `TypeCorrect`, `OneReleaseCorrect`, `RestartCorrect`,
  `ResponseCorrect`. `SiteImplemented` is the refinement of `Site`: an erase is a `Withdraw`, the
  last `BodyEnds` a `Publish`, and a reply sends what the site has because `ResponseOK` ties a calm
  response's area to the release it was taken from, which by `DirBacked` is the one served.

* **Refinements.** `ViewImplemented` and `AlarmImplemented` map every step of the engine and of the
  cry tracker to a step of their abstract specifications or to none. The first needs
  `EngineInv`: a tick that starts to duck has the counter at the trigger, so it was warm
  before it, because one window alone does not reach it. The second needs from `CryInv` that a window
  that raises the flag is cry-positive and loads the whole cooldown.
* **TvLink_proofs.** `LinkInv` adds three facts to the invariants of the run. `Located`: in every
  await but a wait there is a TV. `AnswersHere`: in the command loop every unread answer is of the
  TV connected to, because a new connection starts with none and the copy of the configuration only
  changes between connections; this is why `CapturedHere` holds although queries read the wrong
  answers. `LateCounted`: nothing is late while tv_task waits for a command, because it compared the
  address on the way there and only one `Receive` can follow a change. `ChoiceKept`, the safety
  behind `ChoiceTakenUp`, is an induction of its own: the newest save waiting, or the shared
  configuration if none waits, is of the last choice.
* **Monitor_proofs.** `Paired` is inductive by itself: both channels have the same capacity and
  are filled and emptied in the same steps. `LedAgrees` needs `Told` (the engine only ducks
  with the LED told so) and `Cold` (after an unnoticed end of ducking it does not start again
  before the next tick), which rests on EngineView's warm counter. `AlertKept`, the safety behind
  `AlertsArrive`, needs nothing but the types.
* **Page_proofs.** `PageInv` orders all commands that exist: those on the wire before the one being
  written, that before the queue, each in the order given, and all of them after the last one executed.
  The lemmas about appending, taking and cutting sequences carry it through
  the actions that touch it; `InOrder`, whose order is strict, follows since a read executes the head of
  the wire and takes it away.
  `BusyTimed` is the safety behind `NeverStuck`: a busy card has a timer that will end it.

Only model-checked: the liveness properties `QuietRoomRestores`, `CryingEnds`, `RestoringEnds`,
`DisarmRestores`, `Reachable`, `ClientUnblocked`, `ChoiceTakenUp`, `AlertsArrive`, `NeverStuck`,
`Converges` (fairness and ENABLED are outside the prover; `AlertKept`, `Timed` and `ChoiceKept` are
the safety three of them rest on, and are proved).

## 5. Not modelled, and why

* The viewer's own remote control: the volume moves only by Guardian's commands and by
  the two test buttons. With a remote no absolute restore can be right.
* The volumes of two TVs at once: DuckingSystem has one TV and its volume, TvLink two TVs without
  volumes. That the engine's original volume, captured from one TV, would be restored on
  another after a change in the middle of a session is visible in the code and in neither.
* The LG stream after a read that was cut off (an answer longer than the buffer, or a timeout in the
  middle of a frame): framing is lost and what follows is not defined by the protocol.
* SSDP discovery and Wi-Fi scans: a search that changes nothing but the list the page shows.
* Retry delays, the 400 ms between ramp steps, the 25 s keepalive and the arm button's one-second
  debounce are not timed; where a timer and an event race, both orders are in the models.
* Flash reads that fail (the driver refuses only addresses outside the chip) and the byte
  layout of the block; a `TvConfig` is one value in ConfigStore.
* OTA: the text of the release (JSON, URLs, headers), TLS, the version comparison itself (`r >
  BuiltIn`), lengths that differ within the last page only, and a check for updates by
  websocket_task during a download, whose effect is that a request fails (`AssetFails`).
* HTTP requests, the setup page and responses from the firmware image: constant bytes.
* A WebSocket frame that arrives in two reads: the commands are far shorter than a segment.
* Samsung, Sony and Roku message formats, SHA-1, Base64, JSON, DHCP, DNS and
  mDNS packets, and the filters of `audio.rs`: data without control.
* The other cards of the PWA and its layout: their commands go through the same queue as those of Page.

## 6. Where code and documentation disagree

Shown by a run:

1. `VolumeRestored`: a disarm, or a disarm and re-arm during Restoring, makes a queued VolumeDown
   capture an already ducked volume (`ducking.rs:375`, against `README.md:142`). TVs with volume
   keys alone have no volume to capture; there this race does no harm (`KeysRestored`).
2. `NoOvershoot`: a step down is counted also when the volume is 0 and the key does nothing
   (`ducking.rs:290`), and the restore sends all of them up, so a TV with volume keys can end louder
   than the viewer had it, with nothing failed: from volume 10, thirty steps down and thirty up end
   at 30. The comments at `ducking.rs:57-60` and `285-286` say that the cap of 30 steps prevents
   this; what it does is bound it (`OvershootBounded`).
3. `ServedWhole`: a response copies the file table and goes on reading after a download has
   erased the flash; the client gets erased pages, or pages of the new release, with HTTP 200
   (`http.rs:204`, against `flash_fs.rs:232` and `ota.rs:364`).

Visible in the models, and excepted by name in the properties they would break:

* A check for updates has no timeout and is awaited by the task that serves the client (`ws.rs:428`,
  `ota.rs:130`), so a server that goes silent keeps a connected client from being told of crying
  (against `README.md:206`, "parents always get alerted"), and from telemetry; `set_wifi` does so when
  `WIFI_CMD_CH` is full during a download that stalls (`ws.rs:356`, `ota.rs:409`): the premises of
  `AlertsArrive`, `Converges`, `ClientUnblocked` and `ChoiceTakenUp`.
* A Samsung token of 16 characters, which RAM holds (`tv.rs:91`), is cut to 15 when it is saved
  (`flash_config.rs:168`), so that the token after a restart is not the one the TV gave (against
  `README.md:465`; `README.md:510` gives the width of the field). Longer ones are cut before that, and
  passwords and network names of 64 characters in the same way: `Fit` in `Synced`.
* Every request to a Sony TV says `Connection: close` (`tv.rs:1037`), but one socket serves a whole
  command (`tv.rs:650`). A TV that closes it ends a restore of several steps, or the first VolumeDown
  after its query, at the second request (`open` in TvLink, against `README.md:474`, "Restore: Exact").
* VolumeDown goes on below the tripwire until `sustained_ms` has decayed under 3000
  (`ducking.rs:246`, against `README.md:104-110`).
* A release without `guardian-pwa.js.gz` is served until the next boot and not taken up again
  (`net.rs:142`): the second case of `RestartKeepsSite`.
* A Restore that fails late, after a disarm and re-arm, clears the session that has begun meanwhile
  (`tv.rs:833`, `README.md:150`): its steps are not restored, and no property says that they are.
* A Restore dropped from a full channel or lost to a refused HTTP connection does not clear the duck
  state (`tv.rs:130`, `tv.rs:639`, against `README.md:150`): the premise `lost` of `RestoringBacked`.
* The silence before the first burst counts as a breath gap, so two completed burst-gap cycles
  confirm crying (`ducking.rs:82`, against `README.md:199`): `EnoughRhythm` asks for one cycle less.
* When every join has failed the stored credentials are erased and the device resets (`net.rs:264`);
  `README.md:391` says that the cycle is retried.

Behaviour met while modelling that no document speaks of:

* A save or a token that is still queued can undo a `set_tv` for a while, or for good if the save of the
  `set_tv` was dropped (`dropped`) or a pairing crossed it (`crossed`).
* `set_tv` with the same address and another brand or key is not noticed by the command loop.
* The first keepalive of an LG connection without commands reads the answer to the registration,
  finds no volume in it and reconnects.
* A redundant `arm` while the engine ducks makes the LED show Armed; a pattern dropped from the full LED
  channel stays away until the next change (`stale`).
* A cry alert or the outcome of a download that nobody read goes to the next client that connects.
* `WebSocket::open` of the page returns before the connection is made, so the banner says Connected
  and the backoff starts over with every attempt.

## 7. What could come next

* One model of two TVs with volumes, to say what a change of TV in the middle of a session owes to whom.
* A bound on how far failed commands can take the volume: `VolumeAccounted` and `OvershootBounded`
  promise nothing after the first failure.
* What an absolute restore owes after a disarm that overtook queued steps: how much quieter than
  `home` the TV can end.
