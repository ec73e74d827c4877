--------------------------- MODULE OtaUpdate_proofs ---------------------------
(***************************************************************************)
(* Proofs about OtaUpdate for every partition, list of releases and order  *)
(* and size of their assets, whatever fails and wherever the power is cut: *)
(* OtaInv is inductive, and the properties of the site follow from it.     *)
(***************************************************************************)
EXTENDS OtaUpdate, SequenceTheorems, TLAPS

USE OtaAssumption

\* What areas are, and the directories made of them.
LEMMA AreaFacts ==
    /\ Nowhere \in Areas /\ Nowhere.size = 0 /\ Nowhere.at = 0
    /\ \A a \in Areas : /\ a.at \in Nat /\ a.size \in Nat
                        /\ a.size = 0 <=> a = Nowhere
                        /\ a # Nowhere => a.at > 0 /\ a.at + a.size <= Pages + 1
  <1>1. Nowhere \in Areas /\ Nowhere.size = 0 /\ Nowhere.at = 0
    BY DEF Nowhere, Area, Areas
  <1>2. ASSUME NEW a \in Areas, a # Nowhere
        PROVE  a.at \in Nat /\ a.size \in Nat /\ a.size # 0 /\ a.at > 0
               /\ a.at + a.size <= Pages + 1
    BY <1>2 DEF Areas
  <1> QED BY <1>1, <1>2

LEMMA NewArea ==
    ASSUME NEW p \in 1..(Pages + 1), NEW size \in Nat, Fits(p, size)
    PROVE  /\ Area(p, size) \in Areas /\ Area(p, size) # Nowhere
           /\ Area(p, size).at = p /\ Area(p, size).size = size
           /\ End(p, size) \in 1..(Pages + 1) /\ End(p, size) = p + size
  BY DEF Area, Areas, Fits, End, Nowhere

\* The pages of an area are pages of the partition, in a row.
LEMMA PagesOf ==
    ASSUME NEW a \in Areas, NEW k \in 1..a.size
    PROVE  a.at + k - 1 \in 1..Pages /\ a.at + k - 1 < a.at + a.size
  <1>1. a.at \in Nat /\ a.size \in Nat
        /\ (a # Nowhere => a.at > 0 /\ a.at + a.size <= Pages + 1)
    BY AreaFacts
  <1>2. k \in Nat /\ k > 0 /\ k <= a.size
    BY <1>1
  <1>3. a # Nowhere
    BY <1>1, <1>2, AreaFacts
  <1> QED BY <1>1, <1>2, <1>3

LEMMA LoadedFacts ==
    /\ NoFiles \in [Files -> Areas] /\ NoTable \in [Served -> Areas]
    /\ Loaded(NoFiles) = NoTable /\ Stored(NoFiles) = NoTable
    /\ \A d \in [Files -> Areas] : /\ Stored(d) \in [Served -> Areas]
                                   /\ Loaded(d) \in [Served -> Areas]
    /\ \A d : /\ Loaded(d) \in {NoTable, Stored(d)}
              /\ \A f \in Served : Stored(d)[f] = d[f]
  BY AreaFacts DEF NoFiles, NoTable, Loaded, Stored

\* What download_update works on.
AnAsset ==
    /\ job.release \in Newer /\ job.asset \in DOMAIN Assets[job.release]
    /\ job.asset \in Nat /\ job.asset > 0
    /\ job.pos \in 0..Pages
    /\ File \in Files
    /\ job = At(job.phase, job.release, job.asset, job.pos)
JobKnown ==
    /\ job.phase \in {"idle", "release", "asset", "body"}
    /\ job.phase = "idle" <=> job = Idle
    /\ Downloading => AnAsset
    /\ job.phase = "asset" => job.pos = 0

LEMMA JobFacts == JobOK => JobKnown
  <1>1. CASE job \in {Idle, At("release", BuiltIn, 0, 0)}
    BY <1>1 DEF Idle, At, Downloading, JobKnown
  <1>2. ASSUME NEW r \in Newer, NEW i \in DOMAIN Assets[r], NEW pos \in 0..Pages,
               job \in {At("asset", r, i, 0), At("body", r, i, pos)}
        PROVE  JobKnown
    <2>1. i \in Nat /\ i > 0 /\ Assets[r][i] \in Files
      BY DEF Newer
    <2> QED BY <1>2, <2>1 DEF At, Idle, File, Downloading, JobKnown, AnAsset
  <1> QED BY <1>1, <1>2 DEF JobOK

LEMMA NotDownloading ==
    ASSUME job' \in {Idle, At("release", BuiltIn, 0, 0)}
    PROVE  JobOK' /\ DownloadOK' /\ ~ Downloading'
  <1>1. JobOK'
    BY DEF JobOK
  <1>2. ~ Downloading'
    BY DEF Downloading, Idle, At
  <1> QED BY <1>1, <1>2 DEF DownloadOK

THEOREM Initial == Init => OtaInv
  <1> SUFFICES ASSUME Init PROVE OtaInv
    OBVIOUS
  <1>1. JobOK /\ ~ Downloading
    BY DEF Init, JobOK, Downloading, Idle, At
  <1>2. TypeOK
    <2>1. data \in [1..Pages -> Content] /\ writePtr \in 1..(Pages + 1)
      BY DEF Init, Content
    <2>2. /\ dir \in [Files -> Areas] /\ fsDir \in [Files -> Areas]
          /\ table \in [Served -> Areas]
      BY LoadedFacts DEF Init
    <2>3. /\ reader = {}
          /\ failed \in BOOLEAN /\ torn \in BOOLEAN /\ uneven \in BOOLEAN
      BY DEF Init
    <2> QED BY <1>1, <2>1, <2>2, <2>3 DEF TypeOK
  <1>3. RestartKeepsSite /\ Published /\ DirBacked
    BY LoadedFacts DEF Init, RestartKeepsSite, Published, DirBacked
  <1>4. DownloadOK /\ ResponseOK
    BY <1>1 DEF Init, DownloadOK, ResponseOK
  <1> QED BY <1>2, <1>3, <1>4 DEF OtaInv

----------------------------------------------------------------------------
(* Steps that leave flash and the table alone.                             *)

\* Only download_update has moved.
LEMMA JobMoves ==
    ASSUME OtaInv, UNCHANGED <<data, dir, fs, table, reader, history>>,
           JobOK', DownloadOK'
    PROVE  OtaInv'
  <1> USE DEF fs, history
  <1>1. TypeOK'
    BY DEF OtaInv, TypeOK, Content, Response
  <1>2. (RestartKeepsSite /\ Published)'
    BY DEF OtaInv, RestartKeepsSite, Published, Loaded, Stored
  <1>3. DirBacked'
    BY DEF OtaInv, DirBacked, Backed, Holds, Newer
  <1>4. ResponseOK'
    BY DEF OtaInv, ResponseOK
  <1> QED BY <1>1, <1>2, <1>3, <1>4 DEF OtaInv

\* Only http_task has moved.
LEMMA ReaderMoves ==
    ASSUME OtaInv, UNCHANGED <<data, dir, fs, table, job, history>>,
           \A x \in reader' : x \in Response /\ Len(x.sent) <= x.area.size,
           \A x, y \in reader' : x = y,
           ResponseOK'
    PROVE  OtaInv'
  <1> USE DEF fs, history
  <1>1. TypeOK'
    BY DEF OtaInv, TypeOK, Content, Response, JobOK
  <1>2. (RestartKeepsSite /\ Published)'
    BY DEF OtaInv, RestartKeepsSite, Published, Loaded, Stored
  <1>3. DirBacked'
    BY DEF OtaInv, DirBacked, Backed, Holds, Newer
  <1>4. DownloadOK'
    <2>1. UNCHANGED <<File, Downloading>>
      BY DEF File, Downloading
    <2>2. \A i : InMemory(i)' = InMemory(i)
      BY DEF InMemory
    <2>3. Allocated' = Allocated
      BY <2>1, <2>2 DEF Allocated
    <2>4. Written' = Written
      BY <2>1, <2>2 DEF Written, Holds
    <2> QED BY <2>1, <2>3, <2>4 DEF OtaInv, DownloadOK
  <1> QED BY <1>1, <1>2, <1>3, <1>4 DEF OtaInv

LEMMA Start_OK == OtaInv /\ Start => OtaInv'
  BY NotDownloading, JobMoves DEF Start

LEMMA NoUpdate_OK == OtaInv /\ NoUpdate => OtaInv'
  BY NotDownloading, JobMoves DEF NoUpdate

LEMMA AssetFails_OK == OtaInv /\ AssetFails => OtaInv'
  BY NotDownloading, JobMoves DEF AssetFails

LEMMA AssetStarts_OK == OtaInv /\ AssetStarts => OtaInv'
  <1> SUFFICES ASSUME OtaInv, AssetStarts PROVE OtaInv'
    OBVIOUS
  <1>1. AnAsset /\ Downloading /\ job.pos = 0
    BY JobFacts DEF OtaInv, TypeOK, AssetStarts, Downloading, JobKnown
  <1>2. job' = At("body", job.release, job.asset, 0)
    BY <1>1 DEF AnAsset, AssetStarts, At
  <1>3. JobOK'
    BY <1>1, <1>2 DEF JobOK, AnAsset
  <1>4. File' = File /\ job'.pos = job.pos /\ job'.release = job.release
        /\ job'.asset = job.asset
    BY <1>1, <1>2 DEF File, At
  <1>5. DownloadOK'
    BY <1>1, <1>4 DEF OtaInv, AssetStarts, DownloadOK, Allocated, Written,
           InMemory, Holds, fs, history
  <1> QED BY <1>3, <1>5, JobMoves DEF AssetStarts

LEMMA ResponseEnds_OK == OtaInv /\ ResponseEnds => OtaInv'
  <1> SUFFICES ASSUME OtaInv, ResponseEnds PROVE OtaInv'
    OBVIOUS
  <1>1. ResponseOK'
    BY DEF ResponseEnds, ResponseOK
  <1> QED BY <1>1, ReaderMoves DEF ResponseEnds

LEMMA Request_OK ==
    ASSUME OtaInv, NEW f \in Served, Request(f)
    PROVE  OtaInv'
  <1> DEFINE x == [file |-> f, area |-> table[f], sent |-> <<>>,
                   calm |-> TRUE, sound |-> ~ uneven]
  <1>1. reader' = {x} /\ table[f].size > 0
    BY DEF Request
  <1>2. table[f] \in Areas /\ table[f] # Nowhere
    BY <1>1, AreaFacts DEF OtaInv, TypeOK
  <1>3. x \in Response /\ Len(x.sent) <= x.area.size
    BY <1>2, AreaFacts DEF OtaInv, TypeOK, Response
  <1>4. ResponseOK'
    BY <1>1, <1>2 DEF ResponseOK, Request, history
  <1> QED BY <1>1, <1>3, <1>4, ReaderMoves DEF Request

\* A response with one page more.
LEMMA Extended ==
    ASSUME NEW x \in Response, NEW c \in Content
    PROVE  LET y == [x EXCEPT !.sent = Append(@, c)]
           IN  /\ y \in Response /\ y.sent = Append(x.sent, c)
               /\ y.area = x.area /\ y.file = x.file
               /\ y.calm = x.calm /\ y.sound = x.sound
  <1>1. Append(x.sent, c) \in Seq(Content)
    BY DEF Response
  <1>2. ASSUME NEW s \in Seq(Content)
        PROVE  LET y == [x EXCEPT !.sent = s]
               IN  /\ y \in Response /\ y.sent = s
                   /\ y.area = x.area /\ y.file = x.file
                   /\ y.calm = x.calm /\ y.sound = x.sound
    BY DEF Response
  <1> QED BY <1>1, <1>2

LEMMA SendPage_OK == OtaInv /\ SendPage => OtaInv'
  <1> SUFFICES ASSUME OtaInv, SendPage PROVE OtaInv'
    OBVIOUS
  <1>1. PICK x \in reader :
            /\ Len(x.sent) < x.area.size
            /\ reader' = {[x EXCEPT !.sent = Append(@, Piece(x))]}
    BY DEF SendPage
  <1>2. UNCHANGED <<data, dir, fs, table, job, history>>
    BY DEF SendPage
  <1> DEFINE y == [x EXCEPT !.sent = Append(@, Piece(x))]
  <1>3. x \in Response /\ x.area \in Areas /\ x.sent \in Seq(Content)
    BY DEF OtaInv, TypeOK, Response
  <1>4. x.area.at + Len(x.sent) \in 1..Pages
    <2>1. Len(x.sent) \in Nat
      BY <1>3
    <2>2. /\ x.area.at \in Nat /\ x.area.size \in Nat
          /\ x.area # Nowhere => x.area.at > 0 /\ x.area.at + x.area.size <= Pages + 1
      BY <1>3, AreaFacts
    <2>3. x.area # Nowhere
      BY <1>1, <2>1, <2>2, AreaFacts
    <2> QED BY <1>1, <2>1, <2>2, <2>3
  <1>5. Piece(x) \in Content
    BY <1>4 DEF Piece, OtaInv, TypeOK
  <1>6. /\ y \in Response /\ y.sent = Append(x.sent, Piece(x))
        /\ y.area = x.area /\ y.file = x.file /\ y.calm = x.calm /\ y.sound = x.sound
    BY <1>3, <1>5, Extended
  <1> HIDE DEF y
  <1>7. Len(y.sent) = Len(x.sent) + 1 /\ Len(y.sent) <= y.area.size
    BY <1>1, <1>3, <1>5, <1>6, AreaFacts
  <1>8. reader' = {y} /\ table' = table /\ data' = data /\ uneven' = uneven
    BY <1>1, <1>2 DEF y, history
  <1>9. ASSUME x.calm
        PROVE  /\ table[x.file] = x.area /\ x.area # Nowhere
               /\ x.sound = ~ uneven
               /\ \A i \in 1..Len(y.sent) : y.sent[i] = data[x.area.at + i - 1]
    <2>1. /\ table[x.file] = x.area /\ x.area # Nowhere /\ x.sound = ~ uneven
          /\ \A i \in 1..Len(x.sent) : x.sent[i] = data[x.area.at + i - 1]
      BY <1>9 DEF OtaInv, ResponseOK
    <2>2. ASSUME NEW i \in 1..Len(y.sent)
          PROVE  y.sent[i] = data[x.area.at + i - 1]
      <3>1. CASE i = Len(x.sent) + 1
        BY <3>1, <1>3, <1>5, <1>6, AreaFacts DEF Piece
      <3>2. CASE i \in 1..Len(x.sent)
        BY <3>2, <2>1, <1>3, <1>5, <1>6
      <3> QED BY <1>3, <1>7, <3>1, <3>2
    <2> QED BY <2>1, <2>2
  <1>10. ResponseOK'
    <2>1. ASSUME y.calm
          PROVE  /\ table'[y.file] = y.area /\ y.area # Nowhere
                 /\ y.sound = ~ uneven'
                 /\ \A i \in 1..Len(y.sent) : y.sent[i] = data'[y.area.at + i - 1]
      BY <1>6, <1>8, <1>9, <2>1
    <2> QED BY <1>8, <2>1 DEF ResponseOK
  <1> QED BY <1>2, <1>6, <1>7, <1>8, <1>10, ReaderMoves

----------------------------------------------------------------------------
(* Steps of a download that has erased the flash.                          *)

\* Nothing is published, and no response can count on what it reads.
Unpublished ==
    /\ AnAsset
    /\ dir = NoFiles /\ table = NoTable /\ torn = FALSE /\ failed = FALSE
    /\ \A x \in reader : ~ x.calm
    /\ Allocated /\ (uneven \/ Written)
    /\ fsDir[File] \in Areas /\ fsDir[File] # Nowhere
    /\ fsDir[File].at \in Nat /\ fsDir[File].size \in Nat
    /\ fsDir[File].at > 0 /\ fsDir[File].size > 0
    /\ fsDir[File].size = Size[job.release][File]
    /\ writePtr = fsDir[File].at + fsDir[File].size
    /\ writePtr <= Pages + 1

LEMMA InMemoryFacts ==
    ASSUME AnAsset
    PROVE  /\ InMemory(job.asset) \subseteq Files
           /\ InMemory(job.asset) = InMemory(job.asset - 1) \cup {File}
           /\ File \notin InMemory(job.asset - 1)
  <1> DEFINE r == job.release
             i == job.asset
  <1>1. /\ r \in Releases /\ Assets[r] \in Seq(Files) /\ i \in DOMAIN Assets[r]
        /\ i \in Nat /\ i > 0
    BY DEF AnAsset, Newer
  <1>2. \A j \in 1..i : j \in DOMAIN Assets[r] /\ Assets[r][j] \in Files
    BY <1>1
  <1>3. 1..i = (1..(i - 1)) \cup {i} /\ i \notin 1..(i - 1)
        /\ 1..(i - 1) \subseteq 1..i
    BY <1>1
  <1>4. InMemory(i) \subseteq Files
    BY <1>2 DEF InMemory
  <1>5. InMemory(i) = InMemory(i - 1) \cup {File}
    BY <1>3 DEF InMemory, File
  <1>6. File \notin InMemory(i - 1)
    <2>1. \A j \in 1..(i - 1) : j \in DOMAIN Assets[r] /\ j # i
      BY <1>2, <1>3
    <2>2. \A j \in 1..(i - 1) : Assets[r][j] # Assets[r][i]
      BY <1>1, <2>1
    <2> QED BY <2>2 DEF InMemory, File
  <1> QED BY <1>4, <1>5, <1>6

LEMMA DownloadFacts == OtaInv /\ Downloading => Unpublished
  <1> SUFFICES ASSUME OtaInv, Downloading PROVE Unpublished
    OBVIOUS
  <1>1. AnAsset
    BY JobFacts DEF OtaInv, TypeOK, JobKnown
  <1>2. /\ dir = NoFiles /\ table = NoTable /\ torn = FALSE /\ failed = FALSE
        /\ Allocated /\ (uneven \/ Written)
    BY DEF OtaInv, TypeOK, DownloadOK
  <1>3. \A x \in reader : ~ x.calm
    <2>1. ASSUME NEW x \in reader, x.calm PROVE FALSE
      <3>1. table[x.file] # Nowhere
        BY <2>1 DEF OtaInv, ResponseOK
      <3>2. x.file \in Served
        BY DEF OtaInv, TypeOK, Response
      <3> QED BY <1>2, <3>1, <3>2 DEF NoTable
    <2> QED BY <2>1
  <1>4. File \in InMemory(job.asset)
    BY <1>1 DEF AnAsset, InMemory, File
  <1>5. /\ fsDir[File] \in Areas /\ fsDir[File] # Nowhere
        /\ fsDir[File].size = Size[job.release][File]
        /\ writePtr = fsDir[File].at + fsDir[File].size
    BY <1>1, <1>2, <1>4 DEF OtaInv, TypeOK, AnAsset, Allocated
  <1>6. /\ fsDir[File].at \in Nat /\ fsDir[File].size \in Nat
        /\ fsDir[File].at > 0 /\ fsDir[File].size > 0
        /\ fsDir[File].at + fsDir[File].size <= Pages + 1
    BY <1>5, AreaFacts
  <1> QED BY <1>1, <1>2, <1>3, <1>5, <1>6 DEF Unpublished

LEMMA BodyPage_OK == OtaInv /\ BodyPage => OtaInv'
  <1> SUFFICES ASSUME OtaInv, BodyPage PROVE OtaInv'
    OBVIOUS
  <1> DEFINE a == fsDir[File]
             p == a.at + job.pos
             c == Page(job.release, File, job.pos + 1)
  <1>1. Downloading /\ Unpublished /\ UNCHANGED <<dir, fs, table, reader, history>>
    BY DownloadFacts DEF BodyPage, Downloading
  <1>2. /\ a.at \in Nat /\ a.size \in Nat /\ a.at > 0
        /\ job.pos \in 0..Pages /\ p \in Nat /\ p > 0
        /\ job.release \in Newer /\ File \in Files
        /\ data \in [1..Pages -> Content]
    BY <1>1 DEF Unpublished, AnAsset, OtaInv, TypeOK
  <1> HIDE DEF a
  <1>3. ASSUME data' \in [1..Pages -> Content], JobOK', DownloadOK'
        PROVE  OtaInv'
    <2> USE DEF fs, history
    <2>1. TypeOK'
      BY <1>1, <1>3 DEF OtaInv, TypeOK, Content, Response
    <2>2. (RestartKeepsSite /\ Published /\ DirBacked)'
      BY <1>1 DEF OtaInv, RestartKeepsSite, Published, DirBacked, Unpublished,
             Loaded, Stored
    <2>3. ResponseOK'
      BY <1>1 DEF Unpublished, ResponseOK
    <2> QED BY <1>3, <2>1, <2>2, <2>3 DEF OtaInv
  <1>4. CASE p <= Pages /\ data' = Program(p, c) /\ job' = [job EXCEPT !.pos = @ + 1]
    <2>1. p \in 1..Pages /\ job.pos + 1 \in 0..Pages /\ job.pos + 1 \in 1..Pages
      BY <1>2, <1>4
    <2>2. c \in Content
      BY <1>2, <2>1 DEF Content, Page, Newer
    <2>3. /\ data' \in [1..Pages -> Content]
          /\ \A q \in 1..Pages : q # p => data'[q] = data[q]
          /\ data[p] = Erased => data'[p] = c
      BY <1>2, <1>4, <2>1, <2>2 DEF Program, Content
    <2>4. job' = At("body", job.release, job.asset, job.pos + 1)
      BY <1>1, <1>4 DEF Unpublished, AnAsset, At, BodyPage
    <2>5. JobOK'
      BY <1>1, <2>1, <2>4 DEF JobOK, Unpublished, AnAsset
    <2>6. /\ job'.pos = job.pos + 1 /\ job'.release = job.release
          /\ job'.asset = job.asset /\ File' = File /\ fsDir' = fsDir
      BY <1>1, <2>4 DEF At, File, fs
    <2>7. Allocated'
      BY <1>1, <2>6 DEF Unpublished, Allocated, InMemory, fs
    <2>8. ASSUME Written PROVE Written'
      <3>1. ASSUME NEW f \in InMemory(job.asset - 1)
            PROVE  Holds(fsDir[f], job.release, f)'
        <4>1. Holds(fsDir[f], job.release, f) /\ f \in Files
          BY <1>1, <2>8, InMemoryFacts DEF Written, Unpublished
        <4>2. fsDir[f].at + fsDir[f].size <= a.at
          BY <1>1 DEF Unpublished, Allocated, a
        <4>3. fsDir[f] \in Areas /\ fsDir[f].at \in Nat /\ fsDir[f].size \in Nat
          BY <4>1, AreaFacts DEF OtaInv, TypeOK
        <4>4. ASSUME NEW k \in 1..fsDir[f].size
              PROVE  /\ fsDir[f].at + k - 1 \in 1..Pages
                     /\ fsDir[f].at + k - 1 # p
          <5>1. /\ fsDir[f].at + k - 1 \in 1..Pages
                /\ fsDir[f].at + k - 1 < fsDir[f].at + fsDir[f].size
            BY <4>3, PagesOf
          <5> QED BY <1>2, <4>2, <4>3, <5>1
        <4> QED BY <4>1, <4>4, <2>3, <2>6 DEF Holds, Page
      <3>2. ASSUME job.pos + 1 <= a.size
            PROVE  /\ \A k \in 1..(job.pos + 1) :
                        data'[a.at + k - 1] = Page(job.release, File, k)
                   /\ \A q \in (a.at + job.pos + 1)..Pages : data'[q] = Erased
        <4>1. /\ \A k \in 1..job.pos :
                   data[a.at + k - 1] = Page(job.release, File, k)
              /\ \A q \in p..Pages : data[q] = Erased
          <5>1. job.pos <= a.size
            BY <1>2, <3>2
          <5> QED BY <2>8, <5>1 DEF Written, a
        <4>2. data'[p] = c
          BY <2>1, <2>3, <4>1, <1>2
        <4>3. ASSUME NEW k \in 1..(job.pos + 1)
              PROVE  data'[a.at + k - 1] = Page(job.release, File, k)
          <5>1. CASE k = job.pos + 1
            BY <1>2, <4>2, <5>1
          <5>2. CASE k \in 1..job.pos
            <6>1. a.at + k - 1 \in 1..Pages /\ a.at + k - 1 # p
              BY <1>2, <2>1, <5>2
            <6> QED BY <2>3, <4>1, <5>2, <6>1
          <5> QED BY <1>2, <5>1, <5>2
        <4>4. ASSUME NEW q \in (a.at + job.pos + 1)..Pages
              PROVE  data'[q] = Erased
          <5>1. q \in 1..Pages /\ q # p /\ q \in p..Pages
            BY <1>2
          <5> QED BY <2>3, <4>1, <5>1
        <4> QED BY <4>3, <4>4
      <3>3. InMemory(job.asset - 1)' = InMemory(job.asset - 1)
        BY <2>6 DEF InMemory
      <3>4. fsDir'[File'] = a
        BY <2>6 DEF a
      <3>5. a.at + (job.pos + 1) = a.at + job.pos + 1
        BY <1>2
      <3> QED BY <2>6, <3>1, <3>2, <3>3, <3>4, <3>5 DEF Written
    <2>9. DownloadOK'
      BY <1>1, <2>7, <2>8 DEF DownloadOK, Unpublished, history
    <2> QED BY <1>3, <2>3, <2>5, <2>9
  <1>5. CASE /\ p <= Pages
             /\ data' = [data EXCEPT ![p] = Garbage] /\ job' = Idle
    BY <1>2, <1>3, <1>5, NotDownloading DEF Content
  <1>6. CASE UNCHANGED data /\ job' = Idle
    BY <1>2, <1>3, <1>6, NotDownloading DEF Content
  <1> QED BY <1>4, <1>5, <1>6 DEF BodyPage, a

\* Allocating the next asset of a release, behind those that came before it.
Before(r, i) == {Assets[r][j] : j \in 1..(i - 1)}
Laid(r, i, d, p) ==
    \A f \in Files : IF f \in Before(r, i)
                     THEN /\ d[f] # Nowhere /\ d[f].size = Size[r][f]
                          /\ d[f].at + d[f].size <= p
                     ELSE d[f] = Nowhere

LEMMA Allocating ==
    ASSUME NEW r \in Newer, NEW i \in DOMAIN Assets[r],
           NEW d \in [Files -> Areas], NEW p \in 1..(Pages + 1),
           Allocate(r, i, d, p), Laid(r, i, d, p),
           dir' = NoFiles, table' = NoTable, ~ torn', ~ failed',
           \/ uneven'
           \/ /\ \A f \in Before(r, i) : \A k \in 1..d[f].size :
                    data'[d[f].at + k - 1] = Page(r, f, k)
              /\ \A q \in p..Pages : data'[q] = Erased
    PROVE  /\ JobOK' /\ DownloadOK'
           /\ fsDir' \in [Files -> Areas] /\ writePtr' \in 1..(Pages + 1)
  <1> DEFINE g == Assets[r][i]
             size == Size[r][g]
             area == Area(p, size)
  <1>1. /\ r \in Releases /\ i \in Nat /\ i > 0 /\ g \in Files /\ size \in Nat
        /\ \A j \in 1..i : j \in DOMAIN Assets[r] /\ Assets[r][j] \in Files
    BY DEF Newer
  <1>2. CASE ~ Fits(p, size)
    BY <1>2, NotDownloading DEF Allocate
  <1>3. CASE Fits(p, size)
    <2>1. /\ job' = At("asset", r, i, 0) /\ fsDir' = [d EXCEPT ![g] = area]
          /\ writePtr' = p + size
      BY <1>3 DEF Allocate, End
    <2>2. /\ area \in Areas /\ area # Nowhere /\ area.at = p /\ area.size = size
          /\ p + size \in 1..(Pages + 1)
      BY <1>1, <1>3, NewArea
    <2>3. job'.release = r /\ job'.asset = i /\ job'.pos = 0 /\ File' = g
      BY <2>1 DEF At, File
    <2>4. g \notin Before(r, i)
      <3>1. \A j \in 1..(i - 1) : j \in DOMAIN Assets[r] /\ j # i
        BY <1>1
      <3>2. \A j \in 1..(i - 1) : Assets[r][j] # g
        BY <1>1, <3>1
      <3> QED BY <3>2 DEF Before
    <2>5. /\ InMemory(job.asset - 1)' = Before(r, i)
          /\ InMemory(job.asset)' = Before(r, i) \cup {g}
      <3>1. 1..i = (1..(i - 1)) \cup {i}
        BY <1>1
      <3> QED BY <2>3, <3>1 DEF InMemory, Before
    <2>6. Before(r, i) \subseteq Files
      BY <1>1 DEF Before
    <2> HIDE DEF area, g, size
    <2>7. fsDir'[g] = area /\ \A f \in Files : f # g => fsDir'[f] = d[f]
      BY <1>1, <2>1
    <2>8. JobOK'
      BY <2>1 DEF JobOK
    <2>9. Allocated'
      <3>1. ASSUME NEW f \in Files
            PROVE  IF f \in Before(r, i) \cup {g}
                   THEN fsDir'[f] # Nowhere /\ fsDir'[f].size = Size[r][f]
                   ELSE fsDir'[f] = Nowhere
        BY <2>2, <2>7 DEF Laid, size
      <3>2. ASSUME NEW f \in Before(r, i)
            PROVE  fsDir'[f].at + fsDir'[f].size <= fsDir'[g].at
        BY <2>2, <2>4, <2>6, <2>7 DEF Laid
      <3>3. writePtr' = fsDir'[g].at + fsDir'[g].size
        BY <2>1, <2>2, <2>7
      <3> QED BY <2>3, <2>5, <3>1, <3>2, <3>3 DEF Allocated
    <2>10. uneven' \/ Written'
      <3> SUFFICES ASSUME ~ uneven' PROVE Written'
        OBVIOUS
      <3>1. ASSUME NEW f \in Before(r, i)
            PROVE  Holds(fsDir[f], r, f)'
        <4>1. fsDir'[f] = d[f] /\ d[f].size = Size[r][f]
          BY <2>4, <2>6, <2>7 DEF Laid
        <4> QED BY <4>1 DEF Holds, Page
      <3>2. 1..0 = {} /\ area.at + 0 = p
        BY <2>2
      <3>3. \A q \in (area.at + 0)..Pages : data'[q] = Erased
        BY <3>2
      <3> QED BY <2>3, <2>5, <2>7, <3>1, <3>2, <3>3 DEF Written
    <2> QED BY <2>1, <2>2, <2>7, <2>8, <2>9, <2>10 DEF DownloadOK
  <1> QED BY <1>2, <1>3

\* When a body of the announced length ends, all assets so far are in flash.
LEMMA BodyWritten ==
    ASSUME Unpublished, Written, job.pos = fsDir[File].size
    PROVE  \A f \in InMemory(job.asset) : Holds(fsDir[f], job.release, f)
  <1>1. Holds(fsDir[File], job.release, File)
    BY DEF Unpublished, Written, Holds
  <1>2. InMemory(job.asset) = InMemory(job.asset - 1) \cup {File}
    BY InMemoryFacts DEF Unpublished
  <1> QED BY <1>1, <1>2 DEF Written

\* All assets are in memory behind the last one.
LEMMA AllInMemory ==
    ASSUME AnAsset, ~ (job.asset < Len(Assets[job.release]))
    PROVE  InMemory(job.asset) = AssetsOf(job.release)
  <1>1. Assets[job.release] \in Seq(Files) /\ job.asset \in DOMAIN Assets[job.release]
    BY DEF AnAsset, Newer
  <1>2. 1..job.asset = DOMAIN Assets[job.release]
    BY <1>1
  <1> QED BY <1>2 DEF InMemory, AssetsOf

LEMMA NextAsset_OK ==
    ASSUME OtaInv, BodyEnds, job.asset < Len(Assets[job.release])
    PROVE  OtaInv'
  <1> DEFINE r == job.release
             i == job.asset + 1
  <1>1. Unpublished /\ Downloading
    BY DownloadFacts DEF BodyEnds, Downloading
  <1>2. /\ Allocate(r, i, fsDir, writePtr)
        /\ UNCHANGED <<data, reader, dir, table, failed, torn>>
        /\ uneven' = (uneven \/ job.pos # fsDir[File].size)
    BY DEF BodyEnds
  <1>3. /\ r \in Newer /\ i \in DOMAIN Assets[r]
        /\ fsDir \in [Files -> Areas] /\ writePtr \in 1..(Pages + 1)
    BY <1>1 DEF Unpublished, AnAsset, OtaInv, TypeOK, Newer
  <1>4. Before(r, i) = InMemory(job.asset)
    <2>1. i - 1 = job.asset
      BY <1>1 DEF Unpublished, AnAsset
    <2> QED BY <2>1 DEF Before, InMemory
  <1>5. Laid(r, i, fsDir, writePtr)
    <2>1. ASSUME NEW f \in InMemory(job.asset)
          PROVE  fsDir[f].at + fsDir[f].size <= writePtr
      <3>1. CASE f = File
        BY <1>1, <3>1 DEF Unpublished
      <3>2. CASE f \in InMemory(job.asset - 1)
        <4>1. f \in Files /\ fsDir[f].at \in Nat /\ fsDir[f].size \in Nat
          BY <1>1, <1>3, InMemoryFacts, AreaFacts DEF Unpublished
        <4>2. fsDir[f].at + fsDir[f].size <= fsDir[File].at
          BY <1>1, <3>2 DEF Unpublished, Allocated
        <4> QED BY <1>1, <4>1, <4>2 DEF Unpublished
      <3> QED BY <1>1, <3>1, <3>2, InMemoryFacts DEF Unpublished
    <2>2. ASSUME NEW f \in Files
          PROVE  IF f \in InMemory(job.asset)
                 THEN fsDir[f] # Nowhere /\ fsDir[f].size = Size[r][f]
                 ELSE fsDir[f] = Nowhere
      BY <1>1 DEF Unpublished, Allocated
    <2> QED BY <1>4, <2>1, <2>2 DEF Laid
  <1>6. \/ uneven'
        \/ /\ \A f \in Before(r, i) : \A k \in 1..fsDir[f].size :
                 data'[fsDir[f].at + k - 1] = Page(r, f, k)
           /\ \A q \in writePtr..Pages : data'[q] = Erased
    <2> SUFFICES ASSUME ~ uneven'
                 PROVE  /\ \A f \in Before(r, i) : \A k \in 1..fsDir[f].size :
                              data[fsDir[f].at + k - 1] = Page(r, f, k)
                        /\ \A q \in writePtr..Pages : data[q] = Erased
      BY <1>2
    <2>1. Written /\ job.pos = fsDir[File].size
      BY <1>1, <1>2 DEF Unpublished
    <2>2. \A f \in InMemory(job.asset) : Holds(fsDir[f], r, f)
      BY <1>1, <2>1, BodyWritten
    <2>3. fsDir[File].at + job.pos = writePtr /\ job.pos <= fsDir[File].size
      BY <1>1, <2>1 DEF Unpublished
    <2> QED BY <1>4, <2>1, <2>2, <2>3 DEF Written, Holds
  <1>7. dir' = NoFiles /\ table' = NoTable /\ ~ torn' /\ ~ failed'
    BY <1>1, <1>2 DEF Unpublished
  <1> HIDE DEF r, i
  <1>8. /\ JobOK' /\ DownloadOK'
        /\ fsDir' \in [Files -> Areas] /\ writePtr' \in 1..(Pages + 1)
    BY <1>2, <1>3, <1>5, <1>6, <1>7, Allocating
  <1>9. TypeOK'
    BY <1>1, <1>2, <1>8, LoadedFacts
       DEF OtaInv, TypeOK, Unpublished, Content, Response
  <1>10. (RestartKeepsSite /\ Published /\ DirBacked)'
    BY <1>7, LoadedFacts DEF RestartKeepsSite, Published, DirBacked, Loaded
  <1>11. ResponseOK'
    BY <1>1, <1>2 DEF Unpublished, ResponseOK
  <1> QED BY <1>8, <1>9, <1>10, <1>11 DEF OtaInv

LEMMA Commit_OK ==
    ASSUME OtaInv, BodyEnds, ~ (job.asset < Len(Assets[job.release]))
    PROVE  OtaInv'
  <1>1. Unpublished /\ AnAsset /\ fsDir \in [Files -> Areas]
    BY DownloadFacts DEF BodyEnds, Downloading, Unpublished, OtaInv, TypeOK
  <1>2. /\ Commit /\ UNCHANGED <<data, reader, fs>>
        /\ uneven' = (uneven \/ job.pos # fsDir[File].size)
    BY DEF BodyEnds, Commit
  <1>3. job' = Idle /\ JobOK' /\ DownloadOK'
    BY <1>2, NotDownloading DEF Commit
  <1>4. ResponseOK'
    BY <1>1, <1>2 DEF Unpublished, ResponseOK
  <1>5. PICK r \in Newer : /\ r = job.release /\ AssetsOf(r) \subseteq Files
                            /\ InMemory(job.asset) = AssetsOf(r)
    <2>1. /\ job.release \in Newer /\ InMemory(job.asset) = AssetsOf(job.release)
          /\ InMemory(job.asset) \subseteq Files
      BY <1>1, AllInMemory, InMemoryFacts DEF AnAsset, BodyEnds
    <2> QED BY <2>1
  <1>6. /\ \A f \in Files : fsDir[f] # Nowhere <=> f \in AssetsOf(r)
        /\ uneven' \/ \A f \in AssetsOf(r) : Holds(fsDir[f], r, f)
    <2>1. \A f \in Files : fsDir[f] # Nowhere <=> f \in AssetsOf(r)
      BY <1>1, <1>5 DEF Unpublished, Allocated
    <2>2. ASSUME ~ uneven' PROVE \A f \in AssetsOf(r) : Holds(fsDir[f], r, f)
      BY <1>1, <1>2, <1>5, <2>2, BodyWritten DEF Unpublished
    <2> QED BY <2>1, <2>2
  <1>7. CASE dir' = fsDir /\ table' = Named /\ UNCHANGED <<failed, torn>>
    <2>1. Named \in [Served -> Areas]
      BY <1>1, LoadedFacts DEF Named
    <2>2. TypeOK'
      BY <1>1, <1>2, <1>3, <1>7, <2>1 DEF OtaInv, TypeOK, Content, Response, fs
    <2>3. fsDir[Main].size > 0 \/ fsDir[Main] = Nowhere
      BY <1>1, AreaFacts
    <2>4. table' = Stored(dir') /\ (table' = Loaded(dir') \/ dir'[Main] = Nowhere)
      BY <1>7, <2>3 DEF Loaded, Named
    <2>5. (RestartKeepsSite /\ Published)'
      BY <2>4 DEF RestartKeepsSite, Published, Stored, Loaded
    <2>6. uneven' \/ Backed(r)'
      BY <1>2, <1>5, <1>6, <1>7 DEF Backed, Holds, Page
    <2>7. DirBacked'
      BY <1>5, <2>6 DEF DirBacked
    <2> QED BY <1>3, <1>4, <2>2, <2>5, <2>7 DEF OtaInv
  <1>8. CASE /\ \E n \in 0..(job.asset - 1) : dir' = FirstEntries(n)
             /\ torn' = TRUE /\ failed' = TRUE /\ UNCHANGED table
    <2>1. PICK n \in 0..(job.asset - 1) : dir' = FirstEntries(n)
      BY <1>8
    <2>2. /\ dir' \in [Files -> Areas]
          /\ \A f \in Files : dir'[f] \in {fsDir[f], Nowhere}
      BY <1>1, <2>1, AreaFacts DEF FirstEntries
    <2>3. TypeOK'
      BY <1>1, <1>2, <1>3, <1>8, <2>2 DEF OtaInv, TypeOK, Content, Response, fs
    <2>4. (RestartKeepsSite /\ Published)'
      BY <1>1, <1>8 DEF RestartKeepsSite, Published, Unpublished
    <2>5. uneven' \/ Backed(r)'
      BY <1>2, <1>6, <1>8, <2>2 DEF Backed, Holds, Page
    <2>6. DirBacked'
      BY <1>5, <2>5 DEF DirBacked
    <2> QED BY <1>3, <1>4, <2>3, <2>4, <2>6 DEF OtaInv
  <1> QED BY <1>2, <1>7, <1>8 DEF Commit

LEMMA BodyEnds_OK == OtaInv /\ BodyEnds => OtaInv'
  BY NextAsset_OK, Commit_OK

----------------------------------------------------------------------------
(* The erase, and the loss of power.                                       *)

LEMMA FetchRelease_OK ==
    ASSUME OtaInv, NEW r \in Releases, FetchRelease(r)
    PROVE  OtaInv'
  <1>1. /\ r \in Newer /\ table' = NoTable /\ reader' = Overtaken
        /\ 1 \in DOMAIN Assets[r]
    BY DEF FetchRelease, TableCleared, Newer
  <1>2. /\ \A x \in reader' : /\ x \in Response /\ Len(x.sent) <= x.area.size
                              /\ ~ x.calm
        /\ \A x, y \in reader' : x = y
    <2> DEFINE Late(x) == [x EXCEPT !.calm = FALSE]
    <2>1. ASSUME NEW x \in reader
          PROVE  /\ Late(x) \in Response /\ Late(x).calm = FALSE
                 /\ Len(Late(x).sent) <= Late(x).area.size
      <3>1. x \in Response /\ Len(x.sent) <= x.area.size
        BY DEF OtaInv, TypeOK
      <3> QED BY <3>1 DEF Response
    <2>2. \A x, y \in reader : x = y
      BY DEF OtaInv, TypeOK
    <2>3. reader' = {Late(x) : x \in reader}
      BY <1>1 DEF Overtaken
    <2>4. \A y \in reader' : \E x \in reader : y = Late(x)
      BY <2>3
    <2> HIDE DEF Late
    <2>5. ASSUME NEW y \in reader', NEW z \in reader'
          PROVE  /\ y \in Response /\ Len(y.sent) <= y.area.size /\ ~ y.calm
                 /\ y = z
      <3>1. PICK x \in reader : y = Late(x)
        BY <2>4
      <3>2. PICK w \in reader : z = Late(w)
        BY <2>4
      <3> QED BY <2>1, <2>2, <3>1, <3>2
    <2> QED BY <2>5
  <1>3. ResponseOK'
    BY <1>2 DEF ResponseOK
  <1>4. \A n \in 0..Pages : ErasedUpTo(n) \in [1..Pages -> Content]
    BY DEF OtaInv, TypeOK, ErasedUpTo, Content
  <1>5. CASE EraseOk /\ Allocate(r, 1, NoFiles, 1)
    <2>1. data' = ErasedUpTo(Pages) /\ dir' = NoFiles
          /\ failed' = FALSE /\ torn' = FALSE /\ uneven' = FALSE
      BY <1>5 DEF EraseOk
    <2>2. Before(r, 1) = {} /\ Laid(r, 1, NoFiles, 1) /\ 1 \in 1..(Pages + 1)
      BY DEF Before, Laid, NoFiles
    <2>3. \A q \in 1..Pages : data'[q] = Erased
      BY <2>1 DEF ErasedUpTo
    <2>4. /\ JobOK' /\ DownloadOK'
          /\ fsDir' \in [Files -> Areas] /\ writePtr' \in 1..(Pages + 1)
      <3>1. /\ dir' = NoFiles /\ table' = NoTable /\ ~ torn' /\ ~ failed'
            /\ \A f \in Before(r, 1) : \A k \in 1..NoFiles[f].size :
                  data'[NoFiles[f].at + k - 1] = Page(r, f, k)
        BY <1>1, <2>1, <2>2
      <3> QED BY <1>1, <1>5, <2>2, <2>3, <3>1, LoadedFacts, Allocating
    <2>5. TypeOK'
      <3>1. data' \in [1..Pages -> Content]
        BY <1>4, <2>1
      <3> QED BY <1>1, <1>2, <2>1, <2>4, <3>1, LoadedFacts
              DEF TypeOK, Content, Response
    <2>6. (RestartKeepsSite /\ Published /\ DirBacked)'
      BY <1>1, <2>1, LoadedFacts DEF RestartKeepsSite, Published, DirBacked, Loaded
    <2> QED BY <1>3, <2>4, <2>5, <2>6 DEF OtaInv
  <1>6. CASE EraseFails /\ job' = Idle /\ UNCHANGED fs
    <2>1. JobOK' /\ DownloadOK' /\ failed' = TRUE /\ UNCHANGED fs
      BY <1>6, NotDownloading DEF EraseFails
    <2>2. (RestartKeepsSite /\ Published)'
      BY <1>1, <2>1 DEF RestartKeepsSite, Published
    <2>3. CASE UNCHANGED <<data, dir, torn, uneven>>
      <3>1. TypeOK'
        BY <1>1, <1>2, <2>1, <2>3, LoadedFacts
           DEF OtaInv, TypeOK, Content, Response, fs
      <3>2. DirBacked'
        BY <2>3 DEF OtaInv, DirBacked, Backed, Holds, Newer
      <3> QED BY <1>3, <2>1, <2>2, <3>1, <3>2 DEF OtaInv
    <2>4. CASE /\ \E n \in 0..Pages : data' = ErasedUpTo(n)
               /\ dir' = NoFiles /\ torn' = FALSE /\ uneven' = FALSE
      <3>1. TypeOK'
        <4>1. data' \in [1..Pages -> Content]
          BY <1>4, <2>4
        <4>2. fsDir' \in [Files -> Areas] /\ writePtr' \in 1..(Pages + 1)
          BY <2>1 DEF OtaInv, TypeOK, fs
        <4> QED BY <1>1, <1>2, <2>1, <2>4, <4>1, <4>2, LoadedFacts
                DEF TypeOK, Content, Response
      <3>2. DirBacked'
        BY <2>4 DEF DirBacked
      <3> QED BY <1>3, <2>1, <2>2, <3>1, <3>2 DEF OtaInv
    <2> QED BY <1>6, <2>3, <2>4 DEF EraseFails
  <1> QED BY <1>5, <1>6 DEF FetchRelease

LEMMA PowerCut_OK == OtaInv /\ PowerCut => OtaInv'
  <1> SUFFICES ASSUME OtaInv, PowerCut PROVE OtaInv'
    OBVIOUS
  <1>1. JobOK' /\ DownloadOK'
    BY NotDownloading DEF PowerCut
  <1>2. TypeOK'
    <2>1. /\ data' \in [1..Pages -> Content] /\ dir' \in [Files -> Areas]
          /\ torn' \in BOOLEAN /\ uneven' \in BOOLEAN /\ failed' \in BOOLEAN
      BY DEF OtaInv, TypeOK, PowerCut
    <2>2. /\ fsDir' \in [Files -> Areas] /\ writePtr' \in 1..(Pages + 1)
          /\ table' \in [Served -> Areas] /\ reader' = {}
      BY LoadedFacts DEF OtaInv, TypeOK, PowerCut
    <2> QED BY <1>1, <2>1, <2>2 DEF TypeOK, Content
  <1>3. (RestartKeepsSite /\ Published)'
    <2>1. table' = Loaded(dir') /\ table' \in {NoTable, Stored(dir')}
      BY LoadedFacts DEF PowerCut
    <2> QED BY <2>1 DEF RestartKeepsSite, Published, Loaded, Stored
  <1>4. DirBacked'
    BY DEF OtaInv, PowerCut, DirBacked, Backed, Holds, Newer
  <1>5. ResponseOK'
    BY DEF PowerCut, ResponseOK
  <1> QED BY <1>1, <1>2, <1>3, <1>4, <1>5 DEF OtaInv

----------------------------------------------------------------------------

THEOREM Inductive == OtaInv /\ [Next]_vars => OtaInv'
  <1> SUFFICES ASSUME OtaInv, [Next]_vars PROVE OtaInv'
    OBVIOUS
  <1>1. CASE UNCHANGED vars
    <2>1. UNCHANGED <<data, dir, fs, table, reader, history>> /\ job' = job
      BY <1>1 DEF vars
    <2>2. JobOK' /\ DownloadOK'
      BY <2>1 DEF OtaInv, TypeOK, JobOK, DownloadOK, Downloading, Allocated, Written,
             InMemory, File, Holds, fs, history
    <2> QED BY <2>1, <2>2, JobMoves
  <1> QED BY <1>1, Start_OK, NoUpdate_OK, FetchRelease_OK, AssetFails_OK,
             AssetStarts_OK, BodyPage_OK, BodyEnds_OK, Request_OK, SendPage_OK,
             ResponseEnds_OK, PowerCut_OK DEF Next

\* The inductive invariant holds of every behaviour (download_update, flash_fs.rs,
\* http_task).
THEOREM OtaCorrect == Spec => []OtaInv
  BY Initial, Inductive, PTL DEF Spec

\* Offsets and sizes stay inside the partition, and responses inside their file.
THEOREM TypeCorrect == Spec => []TypeOK
  <1>1. OtaInv => TypeOK
    BY DEF OtaInv
  <1> QED BY <1>1, OtaCorrect, PTL

\* A restart at any moment serves what was served before, whatever was in flash; the
\* built-in site again if that was a release without its main file (net.rs:142).
THEOREM RestartCorrect == Spec => []RestartKeepsSite
  <1>1. OtaInv => RestartKeepsSite
    BY DEF OtaInv
  <1> QED BY <1>1, OtaCorrect, PTL

\* http_task serves the built-in site or one complete release.
THEOREM OneReleaseCorrect == Spec => []OneRelease
  <1>1. OtaInv => OneRelease
    <2> SUFFICES ASSUME OtaInv, ~ uneven, ~ torn, table # NoTable
                 PROVE  \E r \in Newer : Serves(r)
      BY DEF OneRelease
    <2>1. /\ table = Stored(dir) /\ dir # NoFiles
          /\ \A f \in Served : table[f] = dir[f]
      BY LoadedFacts DEF OtaInv, Published
    <2>2. PICK r \in Newer : Backed(r)
      BY <2>1 DEF OtaInv, DirBacked
    <2>3. ASSUME NEW f \in Served
          PROVE  IF f \in AssetsOf(r) THEN Holds(table[f], r, f)
                                      ELSE table[f] = Nowhere
      BY <2>1, <2>2 DEF Backed
    <2> QED BY <2>3 DEF Serves
  <1> QED BY <1>1, OtaCorrect, PTL

\* A response that no download overtakes is the file of one release.
THEOREM ResponseCorrect == Spec => []WholeResponse
  <1>1. OtaInv => WholeResponse
    <2> SUFFICES ASSUME OtaInv, NEW x \in reader, x.calm, x.sound PROVE Whole(x)
      BY DEF WholeResponse
    <2>1. /\ x \in Response /\ Len(x.sent) <= x.area.size
          /\ x.file \in Served /\ x.area \in Areas /\ x.sent \in Seq(Content)
      BY DEF OtaInv, TypeOK, Response
    <2>2. /\ table[x.file] = x.area /\ x.area # Nowhere /\ ~ uneven
          /\ \A i \in 1..Len(x.sent) : x.sent[i] = data[x.area.at + i - 1]
      BY DEF OtaInv, ResponseOK
    <2>3. /\ table # NoTable
      BY <2>1, <2>2 DEF NoTable
    <2>4. /\ dir # NoFiles /\ dir[x.file] = x.area
      BY <2>1, <2>2, <2>3, LoadedFacts DEF OtaInv, Published
    <2>5. PICK r \in Newer : Backed(r)
      BY <2>2, <2>4 DEF OtaInv, DirBacked
    <2>6. Holds(x.area, r, x.file)
      BY <2>1, <2>2, <2>4, <2>5 DEF Backed
    <2>7. ASSUME NEW i \in 1..Len(x.sent) PROVE x.sent[i] = Page(r, x.file, i)
      <3>1. i \in 1..x.area.size
        BY <2>1, AreaFacts
      <3> QED BY <2>2, <2>6, <3>1 DEF Holds
    <2> QED BY <2>7 DEF Whole
  <1> QED BY <1>1, OtaCorrect, PTL

----------------------------------------------------------------------------
(* OtaUpdate implements Site.                                              *)

\* What is served is the built-in site, a release, or assets of the wrong length.
LEMMA SiteServed ==
    ASSUME OtaInv
    PROVE  /\ table = NoTable => ServedSite = BuiltIn
           /\ table # NoTable /\ uneven => ServedSite = Garbage
           /\ table # NoTable /\ ~ uneven => ServedSite \in Serving
  <1>1. table # NoTable /\ ~ uneven => Serving # {}
    <2> SUFFICES ASSUME table # NoTable, ~ uneven PROVE Serving # {}
      OBVIOUS
    <2>1. /\ table = Stored(dir) /\ dir # NoFiles
          /\ \A f \in Served : table[f] = dir[f]
      BY LoadedFacts DEF OtaInv, Published
    <2>2. PICK r \in Newer : Backed(r)
      BY <2>1 DEF OtaInv, DirBacked
    <2>3. \A f \in Served : table[f] # Nowhere => Holds(table[f], r, f)
      BY <2>1, <2>2 DEF Backed
    <2> QED BY <2>3 DEF Serving
  <1>2. Serving # {} => (CHOOSE r \in Serving : TRUE) \in Serving
    OBVIOUS
  <1> QED BY <1>1, <1>2 DEF ServedSite

LEMMA SomeSite == OtaInv => ServedSite \in Newer \cup {Garbage, BuiltIn}
  BY SiteServed DEF Serving
LEMMA NextSite == OtaInv' => ServedSite' \in Newer \cup {Garbage, BuiltIn}
  <1>1. (OtaInv => ServedSite \in Newer \cup {Garbage, BuiltIn})'
    BY SomeSite, PTL
  <1> QED BY <1>1

\* The site is what the table and the pages make it.
LEMMA SameSite ==
    ASSUME UNCHANGED <<data, table, uneven>>
    PROVE  ServedSite' = ServedSite
  <1>1. Serving' = Serving
    BY DEF Serving, Holds
  <1> QED BY <1>1 DEF ServedSite

\* While the built-in site is served no reply is owed a file of a release.
LEMMA NothingOwed == OtaInv /\ table = NoTable => Replies = {}
  BY DEF OtaInv, ResponseOK, TypeOK, Response, NoTable, Replies

LEMMA ReplyGoes == reader' = {} => Replies' = {}
  BY DEF Replies

\* The reply owed for the one response in progress.
LEMMA OneReply ==
    \A y : {[file |-> x.file, sent |-> x.sent] :
                x \in {w \in {y} : w.calm /\ w.sound}}
               = IF y.calm /\ y.sound THEN {[file |-> y.file, sent |-> y.sent]}
                                      ELSE {}
  <1> TAKE y
  <1>1. {w \in {y} : w.calm /\ w.sound} = IF y.calm /\ y.sound THEN {y} ELSE {}
    OBVIOUS
  <1>2. CASE y.calm /\ y.sound
    BY <1>1, <1>2
  <1>3. CASE ~ (y.calm /\ y.sound)
    BY <1>1, <1>3
  <1> QED BY <1>2, <1>3

LEMMA RequestImplements ==
    ASSUME OtaInv, NEW f \in Served, Request(f)
    PROVE  [BrowserSite!Next]_(BrowserSite!vars)
  <1>1. ServedSite' = ServedSite /\ Replies = {}
    BY SameSite DEF Request, history, Replies
  <1> DEFINE y == [file |-> f, area |-> table[f], sent |-> <<>>,
                   calm |-> TRUE, sound |-> ~ uneven]
  <1>4. Replies' = IF ~ uneven THEN {[file |-> f, sent |-> <<>>]} ELSE {}
    <2>1. reader' = {y} /\ y.calm /\ y.sound = ~ uneven /\ y.file = f /\ y.sent = <<>>
      BY DEF Request
    <2> HIDE DEF y
    <2> QED BY <2>1, OneReply DEF Replies
  <1>2. CASE uneven
    <2>1. Replies' = {}
      BY <1>2, <1>4
    <2> QED BY <1>1, <2>1 DEF BrowserSite!vars
  <1>3. CASE ~ uneven
    <2>1. Replies' = {[file |-> f, sent |-> <<>>]}
      BY <1>3, <1>4
    <2>2. table # NoTable
      BY AreaFacts DEF Request, NoTable
    <2>3. ServedSite \in Newer
      BY <1>3, <2>2, SiteServed DEF Serving
    <2> QED BY <1>1, <2>1, <2>3 DEF BrowserSite!Next, BrowserSite!Ask
  <1> QED BY <1>2, <1>3

LEMMA SendPageImplements ==
    ASSUME OtaInv, SendPage
    PROVE  [BrowserSite!Next]_(BrowserSite!vars)
  <1>1. PICK x \in reader : /\ Len(x.sent) < x.area.size
                            /\ reader' = {[x EXCEPT !.sent = Append(@, Piece(x))]}
    BY DEF SendPage
  <1>2. ServedSite' = ServedSite
    BY SameSite DEF SendPage, history
  <1>3. reader = {x} /\ x \in Response
    BY DEF OtaInv, TypeOK
  <1>4. x.sent \in Seq(Content) /\ Len(x.sent) \in Nat /\ x.file \in Served
        /\ x.area \in Areas
    BY <1>3 DEF Response
  <1> DEFINE y == [x EXCEPT !.sent = Append(@, Piece(x))]
  <1>5. /\ y.calm = x.calm /\ y.sound = x.sound /\ y.file = x.file
        /\ y.sent = Append(x.sent, Piece(x))
    BY <1>3 DEF Response
  <1>6. reader' = {y}
    BY <1>1
  <1> HIDE DEF y
  <1>7. CASE ~ (x.calm /\ x.sound)
    <2>1. Replies = {} /\ Replies' = {}
      BY <1>3, <1>5, <1>6, <1>7, OneReply DEF Replies
    <2> QED BY <1>2, <2>1 DEF BrowserSite!vars
  <1>8. CASE x.calm /\ x.sound
    <2>1. /\ Replies = {[file |-> x.file, sent |-> x.sent]}
          /\ Replies' = {[file |-> x.file, sent |-> Append(x.sent, Piece(x))]}
      BY <1>3, <1>5, <1>6, <1>8, OneReply DEF Replies
    <2>2. table[x.file] = x.area /\ x.area # Nowhere /\ ~ uneven
      BY <1>3, <1>8 DEF OtaInv, ResponseOK
    <2>3. ServedSite \in Serving
      <3>1. table # NoTable
        BY <1>4, <2>2 DEF NoTable
      <3> QED BY <2>2, <3>1, SiteServed
    <2>4. Holds(x.area, ServedSite, x.file)
      BY <1>4, <2>2, <2>3 DEF Serving
    <2>5. Piece(x) = <<ServedSite, x.file, Len(x.sent) + 1>>
      <3>1. /\ Len(x.sent) + 1 \in 1..x.area.size
            /\ x.area.at + (Len(x.sent) + 1) - 1 = x.area.at + Len(x.sent)
        BY <1>1, <1>4, AreaFacts
      <3> QED BY <2>4, <3>1 DEF Holds, Page, Piece
    <2> DEFINE z == [file |-> x.file, sent |-> x.sent]
    <2>6. [z EXCEPT !.sent = Append(@, <<ServedSite, z.file, Len(@) + 1>>)]
            = [file |-> x.file, sent |-> Append(x.sent, Piece(x))]
      <3> DEFINE s == Append(x.sent, <<ServedSite, x.file, Len(x.sent) + 1>>)
      <3>1. s = Append(x.sent, Piece(x))
        BY <2>5
      <3> HIDE DEF s
      <3>2. [z EXCEPT !.sent = s] = [file |-> x.file, sent |-> s]
        OBVIOUS
      <3> QED BY <3>1, <3>2 DEF s
    <2>7. BrowserSite!Send
      BY <1>2, <2>1, <2>6 DEF BrowserSite!Send
    <2> QED BY <2>7 DEF BrowserSite!Next
  <1> QED BY <1>7, <1>8

LEMMA BodyEndsImplements ==
    ASSUME OtaInv, OtaInv', BodyEnds
    PROVE  [BrowserSite!Next]_(BrowserSite!vars)
  <1>1. table = NoTable /\ UNCHANGED reader
    BY DEF BodyEnds, OtaInv, DownloadOK, Downloading
  <1>2. ServedSite = BuiltIn /\ Replies = {} /\ Replies' = {}
    BY <1>1, SiteServed, NothingOwed DEF Replies
  <1> QED BY <1>2, NextSite
       DEF BrowserSite!vars, BrowserSite!Next, BrowserSite!Publish

LEMMA PowerCutImplements ==
    ASSUME OtaInv, OtaInv', PowerCut
    PROVE  [BrowserSite!Next]_(BrowserSite!vars)
  <1>1. /\ Replies' = {} /\ UNCHANGED <<data, uneven>>
        /\ table' \in {NoTable, Stored(dir)}
    BY ReplyGoes, LoadedFacts DEF PowerCut
  <1>2. CASE table = NoTable
    <2>1. ServedSite = BuiltIn /\ Replies = {}
      BY <1>2, SiteServed, NothingOwed
    <2> QED BY <1>1, <2>1, NextSite
         DEF BrowserSite!vars, BrowserSite!Next, BrowserSite!Publish
  <1>3. CASE table # NoTable /\ table' = table
    <2>1. ServedSite' = ServedSite
      BY <1>1, <1>3, SameSite
    <2> QED BY <1>1, <2>1 DEF BrowserSite!Next, BrowserSite!End
  <1>4. CASE table' = NoTable
    <2>1. ServedSite' = BuiltIn
      BY <1>4 DEF ServedSite, NoTable
    <2> QED BY <1>1, <2>1 DEF BrowserSite!Next, BrowserSite!Withdraw
  <1> QED BY <1>1, <1>2, <1>3, <1>4 DEF OtaInv, Published

LEMMA StepImplements ==
    ASSUME OtaInv, OtaInv', [Next]_vars
    PROVE  [BrowserSite!Next]_(BrowserSite!vars)
  <1>1. CASE Start \/ NoUpdate \/ AssetFails \/ AssetStarts \/ UNCHANGED vars
    <2>1. UNCHANGED <<data, table, uneven, reader>>
      BY <1>1 DEF Start, NoUpdate, AssetFails, AssetStarts, vars, history
    <2> QED BY <2>1, SameSite DEF Replies, BrowserSite!vars
  <1>2. CASE BodyPage
    <2>1. table = NoTable /\ table' = NoTable /\ UNCHANGED reader
      BY <1>2 DEF BodyPage, OtaInv, DownloadOK, Downloading
    <2>2. ServedSite = BuiltIn /\ ServedSite' = BuiltIn
      BY <2>1 DEF ServedSite, NoTable
    <2> QED BY <2>1, <2>2 DEF Replies, BrowserSite!vars
  <1>3. CASE \E r \in Releases : FetchRelease(r)
    <2>1. table' = NoTable /\ reader' = Overtaken
      BY <1>3 DEF FetchRelease, TableCleared
    <2>2. ServedSite' = BuiltIn
      BY <2>1 DEF ServedSite, NoTable
    <2>3. Replies' = {}
      <3>1. \A x \in reader : [x EXCEPT !.calm = FALSE].calm = FALSE
        BY DEF OtaInv, TypeOK, Response
      <3>2. \A y \in Overtaken : ~ y.calm
        BY <3>1 DEF Overtaken
      <3>3. {y \in Overtaken : y.calm /\ y.sound} = {}
        BY <3>2
      <3> QED BY <2>1, <3>3 DEF Replies
    <2> QED BY <2>2, <2>3 DEF BrowserSite!Next, BrowserSite!Withdraw
  <1>4. CASE ResponseEnds
    BY <1>4, SameSite, ReplyGoes
       DEF ResponseEnds, history, BrowserSite!Next, BrowserSite!End
  <1> QED BY <1>1, <1>2, <1>3, <1>4, BodyEndsImplements, PowerCutImplements,
             RequestImplements, SendPageImplements DEF Next

\* Whatever fails and wherever the power is cut, a browser sees a store that replaces
\* a site as a whole and sends the files of the site it was asked of: the directory,
\* the table, the erases and the single pages are not to be seen.
THEOREM SiteImplemented == Spec => ImplementsSite
  <1>1. Init => BrowserSite!Init
    BY DEF Init, ServedSite, Replies, BrowserSite!Init
  <1> QED BY <1>1, StepImplements, Inductive, OtaCorrect, PTL
       DEF Spec, ImplementsSite, BrowserSite!Spec
================================================================================
