------------------------------- MODULE OtaUpdate -------------------------------
(***************************************************************************)
(* The update of the PWA over the air: download_update of firmware-rs/src/ *)
(* ota.rs, which wifi_task runs for a WifiCmd::OtaDownload, the flash file *)
(* store of flash_fs.rs it writes, and http_task (http.rs), which serves   *)
(* the files through the table OTA_FILE_OFFSETS and from the firmware      *)
(* image where the table names none.                                       *)
(*                                                                         *)
(* The tasks share one executor, so they interleave at awaits only: the    *)
(* download at each request, answer and piece of a body, http_task after   *)
(* each piece it sends.  A page stands for the unit of flash that is       *)
(* erased, written and sent at once; what it holds is who wrote it.  That  *)
(* a flash operation fails also stands for a power cut in the middle of    *)
(* it: PowerCut may follow.                                                *)
(***************************************************************************)
EXTENDS Integers, Sequences

CONSTANTS
    Files,     \* names of release assets
    Served,    \* those http_task asks the table for
    Main,      \* guardian-pwa.js.gz
    Releases,  \* versions that can be the latest release
    BuiltIn,   \* PWA_VERSION
    Assets,    \* the .gz assets of a release, at most 8, in the order of its JSON;
               \* nothing checks that Main is among them
    Size,      \* the size a release announces for an asset, in pages
    Pages,     \* the data pages of the partition
    Erased, Garbage

ASSUME OtaAssumption ==
    /\ Main \in Served /\ Served \subseteq Files
    /\ Releases \subseteq Nat /\ BuiltIn \in Nat /\ Pages \in Nat
    /\ Assets \in [Releases -> Seq(Files)]
    /\ \A r \in Releases : \A i, j \in DOMAIN Assets[r] :
        Assets[r][i] = Assets[r][j] => i = j
    /\ Size \in [Releases -> [Files -> Nat]]

VARIABLES
    data,    \* flash: what each data page holds
    dir,     \* flash: the directory
    fsDir,   \* FlashFs: the directory in memory
    writePtr,\* FlashFs: the first page that is not allocated
    table,   \* OTA_FILE_OFFSETS
    job,     \* where download_update is
    reader,  \* the response http_task is sending from flash: one or none
    failed,  \* history: since boot or erase, an erase or the commit failed
    torn,    \* history: the commit of this directory was cut short
    uneven   \* history: an asset was not as long as announced

fs == <<fsDir, writePtr>>
history == <<failed, torn, uneven>>
vars == <<data, dir, fs, table, job, reader, history>>

Area(at, size) == [at |-> at, size |-> size]
Nowhere == Area(0, 0)
NoFiles == [f \in Files |-> Nowhere]
NoTable == [f \in Served |-> Nowhere]

Page(r, f, k) == <<r, f, k>>

\* Writing only clears bits: a page written twice holds neither content.
Program(p, content) ==
    [data EXCEPT ![p] = IF data[p] = Erased THEN content ELSE Garbage]
ErasedUpTo(n) == [p \in 1..Pages |-> IF p <= n THEN Erased ELSE data[p]]

\* Writing page pos + 1 of asset i of release r, or not that far.
At(phase, r, i, pos) ==
    [phase |-> phase, release |-> r, asset |-> i, pos |-> pos]
Idle == At("idle", BuiltIn, 0, 0)

File == Assets[job.release][job.asset]

----------------------------------------------------------------------------
(* download_update.                                                        *)

Start ==
    /\ job = Idle
    /\ job' = At("release", BuiltIn, 0, 0)
    /\ UNCHANGED <<data, dir, fs, table, reader, history>>

\* No answer, no newer release, or none with assets.
NoUpdate ==
    /\ job.phase = "release"
    /\ job' = Idle
    /\ UNCHANGED <<data, dir, fs, table, reader, history>>

\* alloc_file for asset i of release r, into a directory d with space from p;
\* the download ends if the file is empty or does not fit.
FitsNearly(p, size) == size > 0 /\ p + size <= Pages + 2
Fits(p, size) == size > 0 /\ p + size <= Pages + 1
End(p, size) == p + size
Allocate(r, i, d, p) ==
    LET f == Assets[r][i]
        size == Size[r][f]
    IN  IF Fits(p, size)
        THEN /\ job' = At("asset", r, i, 0)
             /\ fsDir' = [d EXCEPT ![f] = Area(p, size)]
             /\ writePtr' = End(p, size)
        ELSE job' = Idle /\ fsDir' = d /\ writePtr' = p

\* The table is cleared, the partition erased, directory first, and the first
\* asset allocated, without an await.  A failing erase has erased the directory
\* and n pages, or nothing.
TableKept == table
TableCleared == NoTable

EraseOk ==
    /\ data' = ErasedUpTo(Pages) /\ dir' = NoFiles
    /\ failed' = FALSE /\ torn' = FALSE /\ uneven' = FALSE
EraseFails ==
    /\ failed' = TRUE
    /\ \/ UNCHANGED <<data, dir, torn, uneven>>
       \/ /\ \E n \in 0..Pages : data' = ErasedUpTo(n)
          /\ dir' = NoFiles /\ torn' = FALSE /\ uneven' = FALSE

\* A response from before the erase goes on with whatever is there from now on;
\* calm and sound only record that, and that the file was received as announced.
Overtaken == {[x EXCEPT !.calm = FALSE] : x \in reader}

FetchRelease(r) ==
    /\ job.phase = "release" /\ r > BuiltIn /\ Assets[r] # <<>>
    /\ table' = TableCleared
    /\ \/ EraseOk /\ Allocate(r, 1, NoFiles, 1)
       \/ EraseFails /\ job' = Idle /\ UNCHANGED fs
    /\ reader' = Overtaken

\* The request, a redirect or the body of an asset fails, and the download ends.
AssetFails ==
    /\ job.phase \in {"asset", "body"}
    /\ job' = Idle
    /\ UNCHANGED <<data, dir, fs, table, reader, history>>

AssetStarts ==
    /\ job.phase = "asset"
    /\ job' = [job EXCEPT !.phase = "body"]
    /\ UNCHANGED <<data, dir, fs, table, reader, history>>

\* PageWriter fills a page.  write_chunk refuses one behind the end of the
\* partition, but not one behind the end of the asset's own area.
BodyPage ==
    LET p == fsDir[File].at + job.pos
        page == Page(job.release, File, job.pos + 1)
    IN  /\ job.phase = "body"
        /\ \/ /\ p <= Pages
              /\ data' = Program(p, page)
              /\ job' = [job EXCEPT !.pos = @ + 1]
           \/ /\ p <= Pages
              /\ data' = [data EXCEPT ![p] = Garbage]
              /\ job' = Idle
           \/ /\ p > Pages
              /\ job' = Idle
              /\ UNCHANGED data
        /\ UNCHANGED <<dir, fs, table, reader, history>>

\* commit_dir, then the table.  What is left of the directory if that fails is a
\* prefix of its entries, none if the erase at its beginning is what failed.
Stored(d) == [f \in Served |-> d[f]]
NamedMain == [f \in Served |-> IF f = Main THEN fsDir[f] ELSE Nowhere]
Named == Stored(fsDir)
FirstEntries(n) ==
    [f \in Files |-> IF \E i \in 1..n : Assets[job.release][i] = f
                     THEN fsDir[f] ELSE Nowhere]
Commit ==
    /\ job' = Idle
    /\ \/ dir' = fsDir /\ table' = Named /\ UNCHANGED <<failed, torn>>
       \/ /\ \E n \in 0..(job.asset - 1) : dir' = FirstEntries(n)
          /\ torn' = TRUE /\ failed' = TRUE
          /\ UNCHANGED table
    /\ UNCHANGED fs

\* The body ends, early or late perhaps; the length is not compared with the
\* announced one.  (An empty redirect target is a body of no pages.)
BodyEnds ==
    /\ job.phase = "body"
    /\ IF job.asset < Len(Assets[job.release])
       THEN /\ Allocate(job.release, job.asset + 1, fsDir, writePtr)
            /\ UNCHANGED <<dir, table, failed, torn>>
       ELSE Commit
    /\ uneven' = (uneven \/ job.pos # fsDir[File].size)
    /\ UNCHANGED <<data, reader>>

----------------------------------------------------------------------------
(* http_task, one connection and one response at a time.  It copies the    *)
(* table once per request and goes on with what it copied.                 *)

Request(f) ==
    /\ reader = {}
    /\ table[f].size > 0
    /\ reader' = {[file |-> f, area |-> table[f], sent |-> <<>>,
                   calm |-> TRUE, sound |-> ~ uneven]}
    /\ UNCHANGED <<data, dir, fs, table, job, history>>

FirstPiece(x) == data[x.area.at]
Piece(x) == data[x.area.at + Len(x.sent)]
SendPage ==
    /\ \E x \in reader :
        /\ Len(x.sent) < x.area.size
        /\ reader' = {[x EXCEPT !.sent = Append(@, Piece(x))]}
    /\ UNCHANGED <<data, dir, fs, table, job, history>>

\* All is sent, or the client is gone.
ResponseEnds ==
    /\ reader # {}
    /\ reader' = {}
    /\ UNCHANGED <<data, dir, fs, table, job, history>>

----------------------------------------------------------------------------

\* wifi_task at boot takes the files in flash when the main one is there.
Loaded(d) == IF d[Main].size > 0 THEN Stored(d) ELSE NoTable

PowerCut ==
    /\ fsDir' = NoFiles /\ writePtr' = 1
    /\ table' = Loaded(dir)
    /\ job' = Idle /\ reader' = {}
    /\ failed' = FALSE
    /\ UNCHANGED <<data, dir, torn, uneven>>

Init ==
    /\ data = [p \in 1..Pages |-> Erased] /\ dir = NoFiles
    /\ fsDir = NoFiles /\ writePtr = 1
    /\ table = NoTable
    /\ job = Idle /\ reader = {}
    /\ failed = FALSE /\ torn = FALSE /\ uneven = FALSE

Next ==
    \/ Start \/ NoUpdate
    \/ \E r \in Releases : FetchRelease(r)
    \/ AssetFails \/ AssetStarts \/ BodyPage \/ BodyEnds
    \/ \E f \in Served : Request(f)
    \/ SendPage \/ ResponseEnds
    \/ PowerCut

Spec == Init /\ [][Next]_vars

----------------------------------------------------------------------------

Newer == {r \in Releases : r > BuiltIn}
AssetsOf(r) == {Assets[r][i] : i \in DOMAIN Assets[r]}
Areas ==
    {a \in [at : 1..Pages, size : 1..Pages] : a.at + a.size <= Pages + 1}
        \cup {Nowhere}
Content == {Erased, Garbage} \cup (Releases \X Files \X (1..Pages))

JobOK ==
    \/ job \in {Idle, At("release", BuiltIn, 0, 0)}
    \/ \E r \in Newer : \E i \in DOMAIN Assets[r], pos \in 0..Pages :
        job \in {At("asset", r, i, 0), At("body", r, i, pos)}
Response ==
    [file : Served, area : Areas, sent : Seq(Content),
     calm : BOOLEAN, sound : BOOLEAN]

TypeOK ==
    /\ data \in [1..Pages -> Content]
    /\ dir \in [Files -> Areas] /\ fsDir \in [Files -> Areas]
    /\ table \in [Served -> Areas]
    /\ writePtr \in 1..(Pages + 1)
    /\ JobOK
    /\ \A x \in reader : x \in Response /\ Len(x.sent) <= x.area.size
    /\ \A x, y \in reader : x = y
    /\ failed \in BOOLEAN /\ torn \in BOOLEAN /\ uneven \in BOOLEAN

\* Release r is in area a as file f, whole and of the announced size.
Holds(a, r, f) ==
    /\ a.size = Size[r][f]
    /\ \A k \in 1..a.size : data[a.at + k - 1] = Page(r, f, k)

\* http_task serves the built-in site or one release, all its files and every page
\* of them, also while a download runs, fails or has failed.
Serves(r) ==
    \A f \in Served : IF f \in AssetsOf(r) THEN Holds(table[f], r, f)
                                           ELSE table[f] = Nowhere
OneRelease == uneven \/ torn \/ table = NoTable \/ \E r \in Newer : Serves(r)

\* A restart at any moment leaves the site as it was: the table in memory is what
\* a boot would read, although the directory goes before the table is filled.  Only a
\* release without guardian-pwa.js.gz is served until then and not taken up again.
RestartKeepsSite ==
    ~ failed => \/ table = Loaded(dir)
                \/ dir[Main] = Nowhere /\ table = Stored(dir)

\* What a client has received is the beginning of the file of one release, if no
\* download erased the flash in the meantime.  Part of the invariant: ImplementsSite
\* says so of every page as it is sent, and that the release is the one served.
Whole(x) ==
    \E r \in Newer : \A i \in 1..Len(x.sent) : x.sent[i] = Page(r, x.file, i)
WholeResponse == \A x \in reader : x.calm /\ x.sound => Whole(x)

\* What a browser sees (Site).  A site of which some file is cut short is still of
\* its release (OneRelease says when); one that mixes releases or shows erased pages
\* is none at all, and nothing is said of assets of the wrong length.
Serving ==
    {r \in Newer : \A f \in Served : table[f] # Nowhere => Holds(table[f], r, f)}
ServedSite ==
    IF table = NoTable THEN BuiltIn
    ELSE IF uneven THEN Garbage
    ELSE IF Serving = {} THEN Erased
    ELSE CHOOSE r \in Serving : TRUE
Replies ==
    {[file |-> x.file, sent |-> x.sent] : x \in {y \in reader : y.calm /\ y.sound}}

\* Directory, table, erases and page writes, with failures and power cuts anywhere
\* among them, amount to a store that replaces a site as a whole.
BrowserSite == INSTANCE Site
               WITH Releases <- Newer, Broken <- Garbage,
                    site <- ServedSite, replies <- Replies
ImplementsSite == BrowserSite!Spec

\* The inductive invariant.  What the table has is what the directory has.
Published == table \in {NoTable, Stored(dir)}

\* The directory names files of one release that have been written, all of them
\* unless its commit was cut short.
Backed(r) ==
    /\ \A f \in Files : dir[f] # Nowhere => f \in AssetsOf(r) /\ Holds(dir[f], r, f)
    /\ ~ torn => \A f \in AssetsOf(r) : dir[f] # Nowhere
DirBacked == uneven \/ dir = NoFiles \/ \E r \in Newer : Backed(r)

\* During a download nothing is published, and the assets so far lie one after the
\* other, the current one last.
InMemory(i) == {Assets[job.release][j] : j \in 1..i}
Allocated ==
    /\ \A f \in Files : IF f \in InMemory(job.asset)
                        THEN fsDir[f] # Nowhere /\ fsDir[f].size = Size[job.release][f]
                        ELSE fsDir[f] = Nowhere
    /\ \A f \in InMemory(job.asset - 1) :
        fsDir[f].at + fsDir[f].size <= fsDir[File].at
    /\ writePtr = fsDir[File].at + fsDir[File].size

\* Those before are in flash; of the current one there is what has been received.
Written ==
    /\ \A f \in InMemory(job.asset - 1) : Holds(fsDir[f], job.release, f)
    /\ job.pos <= fsDir[File].size =>
        /\ \A k \in 1..job.pos :
            data[fsDir[File].at + k - 1] = Page(job.release, File, k)
        /\ \A p \in (fsDir[File].at + job.pos)..Pages : data[p] = Erased

Downloading == job.phase \in {"asset", "body"}
DownloadOK ==
    Downloading => /\ dir = NoFiles /\ table = NoTable /\ ~ torn /\ ~ failed
                   /\ Allocated
                   /\ uneven \/ Written

\* A response nothing has overtaken is made of pages the table still names.
ResponseOK ==
    \A x \in reader : x.calm =>
        /\ table[x.file] = x.area /\ x.area # Nowhere /\ x.sound = ~ uneven
        /\ \A i \in 1..Len(x.sent) : x.sent[i] = data[x.area.at + i - 1]

OtaInv ==
    /\ TypeOK /\ RestartKeepsSite /\ Published
    /\ DirBacked /\ DownloadOK /\ ResponseOK

\* flash_fs.rs:232 and ota.rs:364: reading flash is safe from any task, and clearing
\* the table first prevents serving garbage.
ServedWhole == \A x \in reader : x.sound => Whole(x)
================================================================================
