-------------------------- MODULE ConfigStore_proofs --------------------------
(***************************************************************************)
(* Proofs about ConfigStore for every set of networks, TVs and levels,     *)
(* every channel capacity and number of joins, working or failing flash:   *)
(* StoreInv is inductive, and a step changes one section of the block.     *)
(***************************************************************************)
EXTENDS ConfigStore, SequenceTheorems, TLAPS

USE StoreAssumption

\* What the sections of a sector can hold; an invalid one holds nothing.
LEMMA Sectors ==
    ASSUME TypeOK
    PROVE  /\ sector.valid \in BOOLEAN
           /\ sector.creds \in Credentials \cup {None}
           /\ sector.tv \in TvConfig \cup {None}
           /\ sector.cal \in Calibration \cup {None}
           /\ sector.valid <=> sector # Blank
           /\ sector.valid <=> sector \in ConfigBlock
           /\ Block \in ConfigBlock
           /\ \A s \in Sections : Block[s] = sector[s]
  <1>1. CASE sector \in ConfigBlock
    <2>1. Block = sector /\ sector.valid = TRUE
      BY <1>1 DEF ConfigBlock, Block
    <2>2. sector # Blank
      BY <2>1 DEF Blank
    <2>3. \A s \in Sections : Block[s] = sector[s]
      BY <2>1
    <2> QED BY <1>1, <2>1, <2>2, <2>3 DEF ConfigBlock
  <1>2. CASE sector = Blank
    <2>1. /\ sector.valid = FALSE /\ sector.creds = None
          /\ sector.tv = None /\ sector.cal = None
      BY <1>2 DEF Blank
    <2>2. Block = [valid |-> TRUE, creds |-> None, tv |-> None, cal |-> None]
      BY <2>1 DEF Block, FreshBlock, Blank
    <2>3. sector \notin ConfigBlock
      BY <2>1 DEF ConfigBlock
    <2>4. Block \in ConfigBlock
      BY <2>2 DEF ConfigBlock
    <2>5. \A s \in Sections : Block[s] = sector[s]
      BY <1>2, <2>2 DEF Sections, Blank
    <2> QED BY <1>2, <2>1, <2>3, <2>4, <2>5
  <1> QED BY <1>1, <1>2 DEF TypeOK

\* The four requests are requests and differ in kind.
LEMMA Requests ==
    /\ Scan \in WifiCmd /\ Scan.kind = "Other"
    /\ \A w \in Credentials \cup {None} :
          /\ Reconfigure(w) \in WifiCmd /\ Reconfigure(w).kind = "Reconfigure"
    /\ \A t \in TvConfig \cup {None} :
          /\ SaveTvConfig(t) \in WifiCmd /\ SaveTvConfig(t).kind = "SaveTvConfig"
          /\ SaveTvConfig(t) # Scan
    /\ \A c \in Calibration :
          /\ SaveCalibration(c) \in WifiCmd
          /\ SaveCalibration(c).kind = "SaveCalibration"
          /\ SaveCalibration(c).value = c
          /\ SaveCalibration(c) # Scan
    /\ \A cmd \in WifiCmd :
          /\ cmd.kind = "Reconfigure" => cmd.value \in Credentials \cup {None}
          /\ cmd.kind = "SaveTvConfig" => cmd.value \in TvConfig \cup {None}
          /\ cmd.kind = "SaveCalibration" => cmd.value \in Calibration
  <1>1. /\ Scan \in WifiCmd /\ Scan.kind = "Other"
        /\ \A w \in Credentials \cup {None} :
              Reconfigure(w) \in WifiCmd /\ Reconfigure(w).kind = "Reconfigure"
    BY DEF WifiCmd, Scan, Reconfigure
  <1>2. \A t \in TvConfig \cup {None} :
              /\ SaveTvConfig(t) \in WifiCmd
              /\ SaveTvConfig(t).kind = "SaveTvConfig"
              /\ SaveTvConfig(t).value = t
    BY DEF WifiCmd, SaveTvConfig
  <1>3. \A c \in Calibration :
              /\ SaveCalibration(c) \in WifiCmd
              /\ SaveCalibration(c).kind = "SaveCalibration"
              /\ SaveCalibration(c).value = c
    BY DEF WifiCmd, SaveCalibration
  <1>4. ASSUME NEW cmd \in WifiCmd
        PROVE  /\ cmd.kind = "Reconfigure" => cmd.value \in Credentials \cup {None}
               /\ cmd.kind = "SaveTvConfig" => cmd.value \in TvConfig \cup {None}
               /\ cmd.kind = "SaveCalibration" => cmd.value \in Calibration
    BY DEF WifiCmd, Scan, Reconfigure, SaveTvConfig, SaveCalibration
  <1> QED BY <1>1, <1>2, <1>3, <1>4

\* What fits the block is of the type of what was to be stored.
LEMMA Fitting ==
    /\ \A w \in Credentials \cup {None} : Fit(w) \in Credentials \cup {None}
    /\ \A t \in TvConfig \cup {None} : Fit(t) \in TvConfig \cup {None}
  BY DEF Fit

\* A request that finds room is pending, beside those that already were.
LEMMA Appending ==
    ASSUME queue \in Seq(WifiCmd), HasRoom, NEW cmd \in WifiCmd,
           queue' = Append(queue, cmd)
    PROVE  /\ queue' \in Seq(WifiCmd) /\ Len(queue') <= Capacity
           /\ \A k : Pending(k) => Pending(k)'
           /\ Pending(cmd.kind)'
  <1>1. /\ queue' \in Seq(WifiCmd) /\ Len(queue') = Len(queue) + 1
        /\ DOMAIN queue = 1..Len(queue) /\ DOMAIN queue' = 1..Len(queue')
        /\ Len(queue) \in Nat
    OBVIOUS
  <1>2. /\ \A i \in 1..Len(queue) : queue'[i] = queue[i]
        /\ queue'[Len(queue) + 1] = cmd
    OBVIOUS
  <1>3. Len(queue') <= Capacity
    BY <1>1 DEF HasRoom
  <1>4. ASSUME NEW k, NEW i \in DOMAIN queue, queue[i].kind = k
        PROVE  Pending(k)'
    <2>1. i \in DOMAIN queue' /\ queue'[i] = queue[i]
      BY <1>1, <1>2
    <2> QED BY <2>1, <1>4 DEF Pending
  <1>5. Pending(cmd.kind)'
    <2>1. Len(queue) + 1 \in DOMAIN queue'
      BY <1>1
    <2> QED BY <1>2, <2>1 DEF Pending
  <1> QED BY <1>1, <1>3, <1>4, <1>5 DEF Pending

\* Taking the head leaves the requests of every other kind pending.
LEMMA Taking ==
    ASSUME queue \in Seq(WifiCmd), Len(queue) <= Capacity, queue # <<>>,
           queue' = Tail(queue)
    PROVE  /\ queue' \in Seq(WifiCmd) /\ Len(queue') <= Capacity
           /\ Head(queue) \in WifiCmd
           /\ \A k : Pending(k) /\ Head(queue).kind # k => Pending(k)'
  <1>1. /\ queue' \in Seq(WifiCmd) /\ Len(queue') = Len(queue) - 1
        /\ DOMAIN queue = 1..Len(queue) /\ DOMAIN queue' = 1..Len(queue')
        /\ Len(queue) \in Nat /\ Len(queue) > 0
        /\ Head(queue) = queue[1] /\ Head(queue) \in WifiCmd
    OBVIOUS
  <1>2. \A i \in 1..Len(queue') : queue'[i] = queue[i + 1]
    OBVIOUS
  <1>3. ASSUME NEW k, NEW i \in DOMAIN queue, queue[i].kind = k,
               Head(queue).kind # k
        PROVE  Pending(k)'
    <2>1. i # 1
      BY <1>1, <1>3
    <2>2. i - 1 \in DOMAIN queue' /\ queue'[i - 1] = queue[i]
      BY <1>1, <1>2, <2>1
    <2> QED BY <2>2, <1>3 DEF Pending
  <1> QED BY <1>1, <1>3 DEF Pending

\* The last request to save levels still holds the engine's, when another kind of
\* request is appended, when new levels are, and when the head is taken.
LEMMA Latest_Append ==
    ASSUME queue \in Seq(WifiCmd), NEW cmd \in WifiCmd, queue' = Append(queue, cmd),
           LatestCal, UNCHANGED unsaved,
           \/ cmd.kind # "SaveCalibration" /\ UNCHANGED cal
           \/ cmd.kind = "SaveCalibration" /\ cmd.value = cal'
    PROVE  LatestCal'
  <1>1. /\ DOMAIN queue = 1..Len(queue) /\ DOMAIN queue' = 1..(Len(queue) + 1)
        /\ Len(queue) \in Nat
    OBVIOUS
  <1>2. /\ \A i \in 1..Len(queue) : queue'[i] = queue[i]
        /\ queue'[Len(queue) + 1] = cmd
    OBVIOUS
  <1>3. CASE cmd.kind = "SaveCalibration" /\ cmd.value = cal'
    <2> SUFFICES ASSUME NEW i \in DOMAIN queue'
                 PROVE  \/ queue'[i].value = cal'
                        \/ \E j \in DOMAIN queue' :
                              j > i /\ queue'[j].kind = "SaveCalibration"
      BY DEF LatestCal
    <2>1. CASE i = Len(queue) + 1
      BY <1>2, <1>3, <2>1
    <2>2. CASE i \in 1..Len(queue)
      <3>1. Len(queue) + 1 \in DOMAIN queue' /\ Len(queue) + 1 > i
        BY <1>1, <2>2
      <3> QED BY <1>2, <1>3, <3>1
    <2> QED BY <1>1, <2>1, <2>2
  <1>4. CASE cmd.kind # "SaveCalibration" /\ UNCHANGED cal
    <2> SUFFICES ASSUME ~ unsaved, NEW i \in DOMAIN queue',
                        queue'[i].kind = "SaveCalibration",
                        queue'[i].value # cal'
                 PROVE  \E j \in DOMAIN queue' :
                              j > i /\ queue'[j].kind = "SaveCalibration"
      BY DEF LatestCal
    <2>1. i \in DOMAIN queue /\ queue[i] = queue'[i]
      BY <1>1, <1>2, <1>4
    <2>2. PICK j \in DOMAIN queue : j > i /\ queue[j].kind = "SaveCalibration"
      BY <1>4, <2>1 DEF LatestCal
    <2>3. j \in DOMAIN queue' /\ queue'[j] = queue[j]
      BY <1>1, <1>2
    <2> QED BY <2>2, <2>3
  <1> QED BY <1>3, <1>4

LEMMA Latest_Take ==
    ASSUME queue \in Seq(WifiCmd), queue # <<>>, queue' = Tail(queue),
           LatestCal, UNCHANGED cal, unsaved => unsaved'
    PROVE  LatestCal'
  <1>1. /\ DOMAIN queue = 1..Len(queue) /\ DOMAIN queue' = 1..(Len(queue) - 1)
        /\ Len(queue) \in Nat /\ Len(queue) > 0
        /\ \A i \in 1..(Len(queue) - 1) : queue'[i] = queue[i + 1]
    OBVIOUS
  <1> SUFFICES ASSUME ~ unsaved', NEW i \in DOMAIN queue',
                      queue'[i].kind = "SaveCalibration", queue'[i].value # cal'
               PROVE  \E j \in DOMAIN queue' :
                            j > i /\ queue'[j].kind = "SaveCalibration"
    BY DEF LatestCal
  <1>2. i + 1 \in DOMAIN queue /\ queue[i + 1] = queue'[i] /\ i \in Nat
    BY <1>1
  <1>3. PICK j \in DOMAIN queue : j > i + 1 /\ queue[j].kind = "SaveCalibration"
    BY <1>2 DEF LatestCal
  <1>4. j - 1 \in DOMAIN queue' /\ j - 1 > i /\ queue'[j - 1] = queue[j]
    BY <1>1, <1>2, <1>3
  <1> QED BY <1>3, <1>4

\* With no other request to save levels behind it, the head holds the engine's.
LEMMA Latest_Last ==
    ASSUME queue \in Seq(WifiCmd), queue # <<>>, queue' = Tail(queue),
           LatestCal, ~ unsaved, Head(queue).kind = "SaveCalibration",
           ~ Pending("SaveCalibration")'
    PROVE  Head(queue).value = cal
  <1>1. /\ DOMAIN queue = 1..Len(queue) /\ DOMAIN queue' = 1..(Len(queue) - 1)
        /\ Len(queue) \in Nat /\ Len(queue) > 0 /\ Head(queue) = queue[1]
        /\ \A i \in 1..(Len(queue) - 1) : queue'[i] = queue[i + 1]
    OBVIOUS
  <1> SUFFICES ASSUME Head(queue).value # cal PROVE FALSE
    OBVIOUS
  <1>2. PICK j \in DOMAIN queue : j > 1 /\ queue[j].kind = "SaveCalibration"
    BY <1>1 DEF LatestCal
  <1>3. j - 1 \in DOMAIN queue' /\ queue'[j - 1] = queue[j]
    BY <1>1, <1>2
  <1> QED BY <1>2, <1>3 DEF Pending

\* A sector keeps its type, whether or not the write succeeds.
LEMMA Writing_Type ==
    ASSUME TypeOK, NEW b \in ConfigBlock, NEW ok \in BOOLEAN, Write(b, ok)
    PROVE  /\ sector' \in ConfigBlock \cup {Blank}
           /\ ok => sector' = b
           /\ sector' \in {b, sector, Blank}
  BY DEF Write, TypeOK

\* Whatever the sector holds after a reset, the cells are loaded from it.
LEMMA Booting ==
    ASSUME TypeOK, sector' \in ConfigBlock \cup {Blank}, StartOver,
           phase' \in Phase, hotspot' \in BOOLEAN
    PROVE  TypeOK' /\ Synced' /\ LatestCal'
  <1>1. Block' = IF sector'.valid THEN sector' ELSE FreshBlock
    BY DEF Block
  <1>2. /\ Block'.tv = sector'.tv /\ Block'.cal = sector'.cal
        /\ sector'.tv \in TvConfig \cup {None}
        /\ sector'.cal \in Calibration \cup {None}
    <2>1. CASE sector' \in ConfigBlock
      BY <1>1, <2>1 DEF ConfigBlock
    <2>2. CASE sector' = Blank
      <3>1. sector'.valid = FALSE /\ sector'.tv = None /\ sector'.cal = None
        BY <2>2 DEF Blank
      <3>2. FreshBlock.tv = None /\ FreshBlock.cal = None
        BY DEF FreshBlock, Blank
      <3> QED BY <1>1, <3>1, <3>2
    <2> QED BY <2>1, <2>2
  <1>3. tv' = LoadedTv(sector') /\ cal' = LoadedCal(sector')
    BY <1>2 DEF StartOver, LoadedTv, LoadedCal
  <1>4. tv' \in TvConfig \cup {None} /\ cal' \in Calibration
    BY <1>2, <1>3 DEF LoadedTv, LoadedCal
  <1>5. TypeOK'
    <2>1. /\ attempt' = 0 /\ queue' = <<>> /\ waiting' = {} /\ unsaved' = FALSE
          /\ UNCHANGED builtIn
      BY DEF StartOver
    <2>2. /\ attempt' \in 0..(Attempts - 1)
          /\ queue' \in Seq(WifiCmd) /\ Len(queue') <= Capacity
      BY <2>1
    <2> QED BY <1>4, <2>1, <2>2 DEF TypeOK
  <1>6. Synced'
    <2>1. /\ tv' = IF sector'.tv = None THEN DefaultTv ELSE sector'.tv
          /\ cal' = IF sector'.cal \in Loadable THEN sector'.cal ELSE DefaultCal
      BY <1>3 DEF LoadedTv, LoadedCal
    <2> QED BY <2>1 DEF Synced, TvSynced, Fit, CalSynced, LoadedTv, LoadedCal
  <1>7. LatestCal'
    BY DEF StartOver, LatestCal
  <1> QED BY <1>5, <1>6, <1>7

LEMMA Boot_Inv ==
    ASSUME StoreInv, sector' \in ConfigBlock \cup {Blank}, Boot
    PROVE  StoreInv'
  <1>1. phase' \in Phase /\ hotspot' \in BOOLEAN
    BY DEF Boot, FirstPhase, Phase
  <1>2. TypeOK' /\ Synced' /\ LatestCal'
    BY <1>1, Booting DEF Boot, StoreInv
  <1>3. HotspotOnlyFresh'
    <2>1. Block'.creds = sector'.creds
      BY DEF Block, ConfigBlock, Blank, FreshBlock
    <2> QED BY <2>1 DEF Boot, StartOver, FirstPhase, HotspotOnlyFresh, Running,
               Online
  <1> QED BY <1>2, <1>3 DEF StoreInv

----------------------------------------------------------------------------

\* The end of a scan or a download changes nothing but where wifi_task is.
LEMMA OtherDone_Inv ==
    ASSUME StoreInv, OtherDone
    PROVE  StoreInv'
  <1>1. /\ UNCHANGED <<sector, builtIn, attempt, hotspot, tv, cal, queue, waiting,
                       unsaved>>
        /\ phase = "busy" /\ phase' = "serving"
    BY DEF OtherDone, cells, channel
  <1>2. TypeOK'
    BY <1>1 DEF StoreInv, TypeOK, Phase
  <1>3. Synced' /\ LatestCal'
    BY <1>1 DEF StoreInv, Synced, TvSynced, Fit, CalSynced, Pending, LoadedTv,
       LoadedCal, LatestCal
  <1>4. HotspotOnlyFresh'
    BY <1>1 DEF StoreInv, HotspotOnlyFresh, Running, Online
  <1> QED BY <1>2, <1>3, <1>4 DEF StoreInv

\* The steps of wifi_task that bring the network up.
LEMMA Network_Inv ==
    ASSUME StoreInv, Join \/ Dhcp
    PROVE  StoreInv'
  <1>1. UNCHANGED <<sector, builtIn, hotspot, tv, cal, queue, waiting, unsaved>>
    BY DEF Join, Dhcp, JoinOk, JoinFails, DhcpOk, DhcpTimeout, cells, channel
  <1>2. phase' \in Phase /\ attempt' \in 0..(Attempts - 1)
    BY DEF Join, Dhcp, JoinOk, JoinFails, DhcpOk, DhcpTimeout, StoreInv, TypeOK,
           Phase
  <1>3. ~ hotspot
    BY DEF Join, Dhcp, JoinOk, JoinFails, DhcpOk, DhcpTimeout, StoreInv,
           HotspotOnlyFresh, Running, Online
  <1>4. TypeOK'
    BY <1>1, <1>2 DEF StoreInv, TypeOK
  <1>5. Synced'
    BY <1>1 DEF StoreInv, Synced, TvSynced, Fit, CalSynced, Pending, LoadedTv,
       LoadedCal
  <1>6. LatestCal'
    BY <1>1 DEF StoreInv, LatestCal
  <1> QED BY <1>1, <1>3, <1>4, <1>5, <1>6 DEF StoreInv, HotspotOnlyFresh,
             Running, Online

\* The requests of the clients and of tv_task.
LEMMA Clients_Inv ==
    ASSUME StoreInv, Clients
    PROVE  StoreInv'
  <1>0. TypeOK /\ queue \in Seq(WifiCmd) /\ LatestCal
    BY DEF StoreInv, TypeOK
  <1>1. ASSUME NEW cmd \in WifiCmd, TrySend(cmd)
        PROVE  /\ queue' \in Seq(WifiCmd) /\ Len(queue') <= Capacity
               /\ \A k : Pending(k) => Pending(k)'
               /\ cmd # Scan => Pending(cmd.kind)' \/ unsaved'
               /\ unsaved' \in BOOLEAN /\ (unsaved => unsaved')
               /\ \/ cmd.kind # "SaveCalibration" /\ UNCHANGED cal
                  \/ cmd.kind = "SaveCalibration" /\ cmd.value = cal'
                  => LatestCal'
    <2>1. CASE HasRoom
      <3>1. queue' = Append(queue, cmd) /\ UNCHANGED unsaved
        BY <1>1, <2>1 DEF TrySend
      <3>2. /\ queue' \in Seq(WifiCmd) /\ Len(queue') <= Capacity
            /\ \A k : Pending(k) => Pending(k)'
            /\ Pending(cmd.kind)'
        BY <1>0, <2>1, <3>1, Appending
      <3>3. ASSUME \/ cmd.kind # "SaveCalibration" /\ UNCHANGED cal
                   \/ cmd.kind = "SaveCalibration" /\ cmd.value = cal'
            PROVE  LatestCal'
        BY <1>0, <3>1, <3>3, Latest_Append
      <3> QED BY <1>0, <3>1, <3>2, <3>3 DEF TypeOK
    <2>2. CASE ~ HasRoom
      <3>1. queue' = queue /\ unsaved' = (unsaved \/ cmd # Scan)
        BY <1>1, <2>2 DEF TrySend
      <3>2. CASE cmd = Scan
        BY <1>0, <3>1, <3>2, Requests DEF TypeOK, Pending, LatestCal
      <3>3. CASE cmd # Scan
        BY <1>0, <3>1, <3>3 DEF TypeOK, Pending, LatestCal
      <3> QED BY <3>2, <3>3
    <2> QED BY <2>1, <2>2
  <1>2. ASSUME NEW t \in TvConfig \cup {None}, ChangeTv(t)
        PROVE  StoreInv'
    <2>1. SaveTvConfig(t) \in WifiCmd /\ SaveTvConfig(t) # Scan
            /\ SaveTvConfig(t).kind = "SaveTvConfig"
      BY Requests
    <2>2. TrySend(SaveTvConfig(t)) /\ tv' = t
            /\ UNCHANGED <<sector, builtIn, phase, attempt, hotspot, cal, waiting>>
      BY <1>2 DEF ChangeTv, boot
    <2>3. /\ queue' \in Seq(WifiCmd) /\ Len(queue') <= Capacity
          /\ Pending("SaveCalibration") => Pending("SaveCalibration")'
          /\ Pending("SaveTvConfig")' \/ unsaved'
          /\ unsaved' \in BOOLEAN /\ (unsaved => unsaved')
          /\ LatestCal'
      BY <1>1, <2>1, <2>2
    <2>4. TypeOK'
      BY <1>0, <2>2, <2>3 DEF TypeOK
    <2>5. Synced'
      BY <2>2, <2>3 DEF StoreInv, Synced, TvSynced, Fit, CalSynced, LoadedCal
    <2> QED BY <2>2, <2>3, <2>4, <2>5 DEF StoreInv, HotspotOnlyFresh, Running,
               Online
  <1>3. ASSUME NEW c \in Calibration, WsCalibrate(c)
        PROVE  StoreInv'
    <2>1. SaveCalibration(c) \in WifiCmd /\ SaveCalibration(c) # Scan
            /\ SaveCalibration(c).kind = "SaveCalibration"
            /\ SaveCalibration(c).value = c
      BY Requests
    <2>2. TrySend(SaveCalibration(c)) /\ cal' = c
            /\ UNCHANGED <<sector, builtIn, phase, attempt, hotspot, tv, waiting>>
      BY <1>3 DEF WsCalibrate, boot
    <2>3. /\ queue' \in Seq(WifiCmd) /\ Len(queue') <= Capacity
          /\ Pending("SaveTvConfig") => Pending("SaveTvConfig")'
          /\ Pending("SaveCalibration")' \/ unsaved'
          /\ unsaved' \in BOOLEAN /\ (unsaved => unsaved')
          /\ LatestCal'
      BY <1>1, <2>1, <2>2
    <2>4. TypeOK'
      BY <1>0, <2>2, <2>3 DEF TypeOK
    <2>5. Synced'
      BY <2>2, <2>3 DEF StoreInv, Synced, TvSynced, Fit, CalSynced, LoadedTv
    <2> QED BY <2>2, <2>3, <2>4, <2>5 DEF StoreInv, HotspotOnlyFresh, Running,
               Online
  <1>4. ASSUME UNCHANGED <<sector, boot, cells>>,
               queue' \in Seq(WifiCmd), Len(queue') <= Capacity,
               \A k : Pending(k) => Pending(k)',
               waiting' \in {{}} \cup {{w} : w \in Credentials \cup {None}},
               unsaved' \in BOOLEAN, unsaved => unsaved', LatestCal'
        PROVE  StoreInv'
    <2>1. UNCHANGED <<sector, builtIn, phase, attempt, hotspot, tv, cal>>
      BY <1>4 DEF boot, cells
    <2>2. TypeOK'
      BY <1>0, <1>4, <2>1 DEF TypeOK
    <2>3. Synced'
      BY <1>4, <2>1 DEF StoreInv, Synced, TvSynced, Fit, CalSynced, LoadedTv,
         LoadedCal
    <2> QED BY <1>4, <2>1, <2>2, <2>3 DEF StoreInv, HotspotOnlyFresh, Running,
               Online
  <1>5. CASE \E t \in TvConfig \cup {None} : WsSetTv(t) \/ TvToken(t)
    BY <1>2, <1>5 DEF WsSetTv, TvToken
  <1>6. CASE \E c \in Calibration : WsCalibrate(c)
    BY <1>3, <1>6
  <1>7. CASE \E w \in Credentials \cup {None} : WsSetWifi(w)
    <2>1. /\ UNCHANGED <<sector, boot, cells, queue, unsaved>>
          /\ waiting' \in {{}} \cup {{w} : w \in Credentials \cup {None}}
      BY <1>7 DEF WsSetWifi
    <2>2. LatestCal' /\ \A k : Pending(k) => Pending(k)'
      BY <1>0, <2>1 DEF LatestCal, Pending, cells
    <2> QED BY <1>0, <1>4, <2>1, <2>2 DEF TypeOK
  <1>8. CASE WsScan
    <2>1. TrySend(Scan) /\ UNCHANGED <<sector, boot, cells, waiting>>
      BY <1>8 DEF WsScan
    <2>2. UNCHANGED cal /\ Scan \in WifiCmd /\ Scan.kind # "SaveCalibration"
      BY <2>1, Requests DEF cells
    <2> QED BY <1>0, <1>1, <1>4, <2>1, <2>2 DEF TypeOK
  <1>9. CASE SendWaiting
    <2> PICK w \in waiting : queue' = Append(queue, Reconfigure(w))
      BY <1>9 DEF SendWaiting
    <2>1. /\ Reconfigure(w) \in WifiCmd
          /\ Reconfigure(w).kind = "Reconfigure"
          /\ queue' = Append(queue, Reconfigure(w)) /\ HasRoom
          /\ waiting' = {} /\ UNCHANGED <<sector, boot, cells, unsaved>>
      BY <1>0, <1>9, Requests DEF SendWaiting, TypeOK
    <2>2. /\ queue' \in Seq(WifiCmd) /\ Len(queue') <= Capacity
          /\ \A k : Pending(k) => Pending(k)'
      BY <1>0, <2>1, Appending
    <2>3. LatestCal'
      BY <1>0, <2>1, Latest_Append DEF cells
    <2> QED BY <1>0, <1>4, <2>1, <2>2, <2>3 DEF TypeOK
  <1> QED BY <1>5, <1>6, <1>7, <1>8, <1>9 DEF Clients

\* wifi_task at work on its channel.
LEMMA Handle_Inv ==
    ASSUME StoreInv, NEW ok \in BOOLEAN, TakeOther \/ HandleCmd(ok)
    PROVE  StoreInv'
  <1>0. TypeOK /\ queue \in Seq(WifiCmd) /\ Len(queue) <= Capacity /\ LatestCal
    BY DEF StoreInv, TypeOK
  <1>1. /\ queue # <<>> /\ queue' = Tail(queue) /\ phase = "serving"
        /\ UNCHANGED <<builtIn, attempt, hotspot, waiting>>
    BY DEF TakeOther, HandleCmd, HandleReconfigure, HandleSaveTvConfig,
           HandleSaveCalibration, Handle, Taken
  <1>2. /\ queue' \in Seq(WifiCmd) /\ Len(queue') <= Capacity
        /\ Head(queue) \in WifiCmd
        /\ \A k : Pending(k) /\ Head(queue).kind # k => Pending(k)'
    BY <1>0, <1>1, Taking
  <1>8. UNCHANGED cal /\ (unsaved => unsaved')
    <2>1. unsaved \in BOOLEAN
      BY <1>0 DEF TypeOK
    <2>2. CASE TakeOther
      BY <2>2 DEF TakeOther, cells
    <2>3. CASE HandleReconfigure(ok)
      BY <2>1, <2>3 DEF HandleReconfigure, cells
    <2>4. CASE HandleSaveTvConfig(ok)
      BY <2>1, <2>4 DEF HandleSaveTvConfig
    <2>5. CASE HandleSaveCalibration(ok)
      BY <2>1, <2>5 DEF HandleSaveCalibration, cells
    <2> QED BY <2>2, <2>3, <2>4, <2>5 DEF HandleCmd
  <1>9. LatestCal'
    BY <1>0, <1>1, <1>8, Latest_Take
  <1>3. CASE TakeOther
    <2>1. /\ Head(queue).kind = "Other"
          /\ phase' = "busy" /\ UNCHANGED <<sector, tv, cal, unsaved>>
      BY <1>3 DEF TakeOther, Handle, cells
    <2>2. TypeOK'
      BY <1>0, <1>1, <1>2, <2>1 DEF TypeOK, Phase
    <2>3. Synced'
      BY <1>2, <2>1 DEF StoreInv, Synced, TvSynced, Fit, CalSynced, LoadedTv,
         LoadedCal
    <2> QED BY <1>1, <1>9, <2>1, <2>2, <2>3 DEF StoreInv, HotspotOnlyFresh,
               Running, Online
  <1>4. CASE HandleReconfigure(ok)
    <2> DEFINE b == [Block EXCEPT !.creds = Fit(Head(queue).value)]
    <2>1. /\ Head(queue).kind = "Reconfigure" /\ Write(b, ok)
          /\ phase' = IF ok THEN "saved" ELSE "serving"
          /\ unsaved' = (unsaved \/ ~ ok) /\ UNCHANGED <<tv, cal>>
      BY <1>4 DEF HandleReconfigure, WithCreds, Handle, cells
    <2>2. Fit(Head(queue).value) \in Credentials \cup {None}
      BY <1>2, <2>1, Requests, Fitting
    <2>3. /\ b \in ConfigBlock /\ b.tv = sector.tv /\ b.cal = sector.cal
      BY <1>0, <2>2, Sectors DEF ConfigBlock, Sections
    <2>4. /\ sector' \in ConfigBlock \cup {Blank} /\ (ok => sector' = b)
          /\ sector' \in {b, sector, Blank} /\ (~ ok => sector' \in {sector, Blank})
      BY <1>0, <2>1, <2>3, Writing_Type DEF Write
    <2>5. TypeOK'
      BY <1>0, <1>1, <1>2, <2>1, <2>4 DEF TypeOK, Phase
    <2>6. ok => sector'.tv = sector.tv /\ sector'.cal = sector.cal
      BY <2>3, <2>4
    <2>7. Synced'
      BY <1>0, <1>2, <2>1, <2>6 DEF StoreInv, Synced, TvSynced, Fit, CalSynced,
         LoadedTv,
         LoadedCal, TypeOK
    <2>8. HotspotOnlyFresh'
      BY <1>1, <2>1, <2>4 DEF StoreInv, HotspotOnlyFresh, Running, Online, Blank
    <2> QED BY <1>9, <2>5, <2>7, <2>8 DEF StoreInv
  <1>5. CASE HandleSaveTvConfig(ok)
    <2> DEFINE b == [Block EXCEPT !.tv = Fit(Head(queue).value)]
    <2>1. /\ Head(queue).kind = "SaveTvConfig" /\ Write(b, ok)
          /\ tv' = Head(queue).value
          /\ unsaved' = (unsaved \/ ~ ok) /\ UNCHANGED <<phase, cal>>
      BY <1>5 DEF HandleSaveTvConfig, WithTv, Handle
    <2>2. /\ Head(queue).value \in TvConfig \cup {None}
          /\ Fit(Head(queue).value) \in TvConfig \cup {None}
      BY <1>2, <2>1, Requests, Fitting
    <2>3. /\ b \in ConfigBlock /\ b.tv = Fit(tv') /\ b.cal = sector.cal
          /\ b.creds = sector.creds
      BY <1>0, <2>1, <2>2, Sectors DEF ConfigBlock, Sections
    <2>4. /\ sector' \in ConfigBlock \cup {Blank} /\ (ok => sector' = b)
          /\ sector' \in {b, sector, Blank}
      BY <1>0, <2>1, <2>3, Writing_Type
    <2>5. TypeOK'
      BY <1>0, <1>1, <1>2, <2>1, <2>2, <2>4 DEF TypeOK
    <2>6. ok => sector'.tv = Fit(tv') /\ sector'.cal = sector.cal
      BY <2>3, <2>4
    <2>7. Synced'
      BY <1>0, <1>2, <2>1, <2>6 DEF StoreInv, Synced, TvSynced, Fit, CalSynced,
         LoadedCal,
         TypeOK
    <2>8. HotspotOnlyFresh'
      <3>1. sector'.creds \in {sector.creds, None}
        <4>1. CASE sector' = b
          BY <2>3, <4>1
        <4>2. CASE sector' = Blank
          BY <4>2 DEF Blank
        <4> QED BY <2>4, <4>1, <4>2
      <3> QED BY <1>1, <2>1, <3>1 DEF StoreInv, HotspotOnlyFresh, Running, Online
    <2> QED BY <1>9, <2>5, <2>7, <2>8 DEF StoreInv
  <1>6. CASE HandleSaveCalibration(ok)
    <2> DEFINE b == [Block EXCEPT !.cal = Head(queue).value]
    <2>1. /\ Head(queue).kind = "SaveCalibration" /\ Write(b, ok)
          /\ unsaved' = (unsaved \/ ~ ok) /\ UNCHANGED <<phase, tv, cal>>
      BY <1>6 DEF HandleSaveCalibration, WithCal, Handle, cells
    <2>2. Head(queue).value \in Calibration
      BY <1>2, <2>1, Requests
    <2>3. /\ b \in ConfigBlock /\ b.cal = Head(queue).value /\ b.tv = sector.tv
          /\ b.creds = sector.creds
      BY <1>0, <2>1, <2>2, Sectors DEF ConfigBlock, Sections
    <2>4. /\ sector' \in ConfigBlock \cup {Blank} /\ (ok => sector' = b)
          /\ sector' \in {b, sector, Blank}
      BY <1>0, <2>1, <2>3, Writing_Type
    <2>5. TypeOK'
      BY <1>0, <1>1, <1>2, <2>1, <2>4 DEF TypeOK
    <2>6. ok => sector'.cal = Head(queue).value /\ sector'.tv = sector.tv
      BY <2>3, <2>4
    <2>7. Synced'
      <3>1. TvSynced'
        BY <1>0, <1>2, <2>1, <2>6 DEF StoreInv, Synced, TvSynced, Fit,
           LoadedTv, TypeOK
      <3>2. ASSUME ~ unsaved', ~ Pending("SaveCalibration")' PROVE cal' = sector'.cal
        <4>1. ok /\ ~ unsaved
          BY <1>0, <2>1, <3>2 DEF TypeOK
        <4>2. Head(queue).value = cal
          BY <1>0, <1>1, <2>1, <3>2, <4>1, Latest_Last
        <4> QED BY <2>1, <2>6, <4>1, <4>2
      <3> QED BY <3>1, <3>2 DEF Synced, CalSynced
    <2>8. HotspotOnlyFresh'
      <3>1. sector'.creds \in {sector.creds, None}
        <4>1. CASE sector' = b
          BY <2>3, <4>1
        <4>2. CASE sector' = Blank
          BY <4>2 DEF Blank
        <4> QED BY <2>4, <4>1, <4>2
      <3> QED BY <1>1, <2>1, <3>1 DEF StoreInv, HotspotOnlyFresh, Running, Online
    <2> QED BY <1>9, <2>5, <2>7, <2>8 DEF StoreInv
  <1> QED BY <1>3, <1>4, <1>5, <1>6 DEF HandleCmd

\* A reset, a power cut and the boot after it.
LEMMA Restart_Inv ==
    ASSUME StoreInv,
           Restart \/ PowerOn \/ PowerCut \/ \E ok \in BOOLEAN : GiveUp(ok)
    PROVE  StoreInv'
  <1>0. TypeOK /\ sector \in ConfigBlock \cup {Blank}
    BY DEF StoreInv, TypeOK
  <1>1. CASE Restart \/ PowerOn
    BY <1>0, <1>1, Boot_Inv DEF Restart, PowerOn
  <1>2. CASE PowerCut
    <2>1. sector' \in ConfigBlock \cup {Blank} /\ StartOver
      BY <1>0, <1>2 DEF PowerCut
    <2>2. phase' = "off" /\ hotspot' = FALSE
      BY <1>2 DEF PowerCut
    <2>3. TypeOK' /\ Synced' /\ LatestCal'
      BY <1>0, <2>1, <2>2, Booting DEF Phase
    <2> QED BY <2>2, <2>3 DEF StoreInv, HotspotOnlyFresh, Running, Online
  <1>3. CASE \E ok \in BOOLEAN : GiveUp(ok)
    <2> PICK ok \in BOOLEAN : GiveUp(ok)
      BY <1>3
    <2>1. sector.valid => WithoutCreds(sector) \in ConfigBlock
      BY <1>0, Sectors DEF WithoutCreds, ConfigBlock
    <2>2. sector' \in ConfigBlock \cup {Blank}
      BY <1>0, <2>1, Writing_Type DEF GiveUp
    <2> QED BY <2>2, Boot_Inv DEF GiveUp
  <1> QED BY <1>1, <1>2, <1>3

----------------------------------------------------------------------------

\* StoreInv holds of every behaviour: once the saves are handled a restart
\* changes nothing, and the hotspot is for devices without a network.
THEOREM StoreCorrect == Spec => []StoreInv
  <1>1. Init => StoreInv
    <2> SUFFICES ASSUME Init PROVE StoreInv
      OBVIOUS
    <2>1. sector \in ConfigBlock \cup {Blank} /\ sector.tv = None /\ sector.cal = None
      <3>1. CASE sector = Blank
        BY <3>1 DEF Blank
      <3>2. ASSUME NEW w \in Credentials, sector = [FreshBlock EXCEPT !.creds = w]
            PROVE  sector \in ConfigBlock /\ sector.tv = None /\ sector.cal = None
        BY <3>2 DEF FreshBlock, Blank, ConfigBlock
      <3> QED BY <3>1, <3>2 DEF Init
    <2>2. Block.tv = None /\ Block.cal = None /\ Block.creds = sector.creds
      BY <2>1 DEF Block, FreshBlock, Blank, Init
    <2>3. tv = LoadedTv(sector) /\ cal = LoadedCal(sector)
      BY <2>1, <2>2 DEF Init, LoadedTv, LoadedCal
    <2>4. tv \in TvConfig \cup {None} /\ cal \in Calibration
      BY <2>1, <2>3 DEF LoadedTv, LoadedCal
    <2>5. phase \in Phase /\ builtIn \in BOOLEAN
            /\ hotspot \in BOOLEAN
      BY DEF Init, FirstPhase, Phase
    <2>6. TypeOK
      <3>1. /\ attempt \in 0..(Attempts - 1) /\ waiting = {} /\ unsaved = FALSE
            /\ queue \in Seq(WifiCmd) /\ Len(queue) <= Capacity
        BY DEF Init
      <3> QED BY <2>1, <2>4, <2>5, <3>1 DEF TypeOK
    <2>7. Synced
      BY <2>3 DEF Synced, TvSynced, Fit, CalSynced
    <2>8. HotspotOnlyFresh
      BY <2>2 DEF Init, HotspotOnlyFresh, Running, Online, FirstPhase
    <2>9. LatestCal
      BY DEF Init, LatestCal
    <2> QED BY <2>6, <2>7, <2>8, <2>9 DEF StoreInv
  <1>2. StoreInv /\ [Next]_vars => StoreInv'
    <2> SUFFICES ASSUME StoreInv, [Next]_vars PROVE StoreInv'
      OBVIOUS
    <2>1. CASE Clients
      BY <2>1, Clients_Inv
    <2>2. CASE Join \/ Dhcp
      BY <2>2, Network_Inv
    <2>3. CASE TakeOther \/ \E ok \in BOOLEAN : HandleCmd(ok)
      BY <2>3, Handle_Inv
    <2>6. CASE OtherDone
      BY <2>6, OtherDone_Inv
    <2>4. CASE Restart \/ PowerOn \/ PowerCut \/ \E ok \in BOOLEAN : GiveUp(ok)
      BY <2>4, Restart_Inv
    <2>5. CASE UNCHANGED vars
      BY <2>5 DEF vars, boot, cells, channel, StoreInv, TypeOK, Synced,
         TvSynced, Fit, CalSynced, LoadedTv, LoadedCal, HotspotOnlyFresh, Running,
         Online, Pending, LatestCal
    <2> QED BY <2>1, <2>2, <2>3, <2>4, <2>5, <2>6 DEF Next
  <1> QED BY <1>1, <1>2, PTL DEF Spec

THEOREM TypeCorrect == Spec => []TypeOK
  BY StoreCorrect, PTL DEF StoreInv

THEOREM SyncedCorrect == Spec => []Synced
  BY StoreCorrect, PTL DEF StoreInv

THEOREM HotspotCorrect == Spec => []HotspotOnlyFresh
  BY StoreCorrect, PTL DEF StoreInv

\* A save with one section replaced keeps the others, if it is written at all.
LEMMA Writing_Kept ==
    ASSUME TypeOK, NEW s \in Sections, NEW v, NEW ok,
           Write([Block EXCEPT ![s] = v], ok)
    PROVE  Kept
  <1>1. CASE sector' = [Block EXCEPT ![s] = v]
    <2>1. \A r \in Sections \ {s} : sector'[r] = Block[r]
      BY <1>1, Sectors DEF ConfigBlock
    <2> QED BY <2>1, Sectors DEF Kept
  <1>2. CASE sector' \in {sector, Blank}
    BY <1>2 DEF Kept
  <1> QED BY <1>1, <1>2 DEF Write

\* README.md:520: a save preserves the other sections, at any moment the power
\* fails or the flash refuses.
THEOREM OneSectionCorrect == Spec => OneSection
  <1>1. TypeOK /\ [Next]_vars => [Kept]_vars
    <2> SUFFICES ASSUME TypeOK, Next PROVE Kept
      BY DEF vars, Kept
    <2>1. CASE UNCHANGED sector
      BY <2>1 DEF Kept, Sections
    <2>2. CASE PowerCut
      BY <2>1, <2>2 DEF PowerCut, Kept
    <2>3. ASSUME NEW ok \in BOOLEAN, GiveUp(ok) PROVE Kept
      <3>1. CASE sector.valid
        <4>1. WithoutCreds(sector) = [Block EXCEPT !["creds"] = None]
          BY <3>1 DEF WithoutCreds, Block
        <4>2. Write([Block EXCEPT !["creds"] = None], ok)
          BY <2>3, <3>1, <4>1 DEF GiveUp
        <4> QED BY <4>2, Writing_Kept DEF Sections
      <3> QED BY <2>1, <2>3, <3>1 DEF GiveUp
    <2>4. ASSUME NEW ok \in BOOLEAN, HandleCmd(ok) PROVE Kept
      BY <2>4, Writing_Kept DEF HandleCmd, HandleReconfigure, HandleSaveTvConfig,
         HandleSaveCalibration, WithCreds, WithTv, WithCal, Sections
    <2>5. CASE Clients \/ Join \/ Dhcp \/ TakeOther \/ OtherDone \/ Restart \/ PowerOn
      BY <2>1, <2>5 DEF Clients, WsSetTv, TvToken, ChangeTv, WsCalibrate, WsScan,
         WsSetWifi, SendWaiting, Join, Dhcp, JoinOk, JoinFails, DhcpOk, DhcpTimeout,
         TakeOther, OtherDone, Restart, PowerOn
    <2> QED BY <2>2, <2>3, <2>4, <2>5 DEF Next
  <1>2. Spec => [][Kept]_vars
    BY <1>1, TypeCorrect, PTL DEF Spec
  <1> QED BY <1>2 DEF OneSection
================================================================================
