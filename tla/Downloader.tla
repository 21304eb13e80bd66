----------------------------- MODULE Downloader -----------------------------
(***************************************************************************)
(* HistoricalDownloader: one run fetches the closed klines of a half-open  *)
(* range, slice by slice and page by page, writes one file per slice and   *)
(* keeps a manifest beside them.  Runs follow one another in one           *)
(* directory: with any range, with or without --resume, after failures and *)
(* after crashes.                                                          *)
(*                                                                         *)
(* A slice is a symbol with an interval, in the order of their file names. *)
(* Of the rows it has fetched the downloader uses only the times at which  *)
(* they open, so rows are sets of these.  The ghost field "of" of a file   *)
(* remembers the requests whose runs have put klines into it; the code     *)
(* keeps no such record.                                                   *)
(***************************************************************************)
EXTENDS KlineRow

CONSTANTS
    Slices,         \* number of (symbol, interval) pairs of a request
    Monthly,        \* those of them with the interval 1M
    Horizon,        \* bound: the time at which the exchange's clock stops
    PageLimit,
    MaxAttempts,    \* MAX_REQUEST_ATTEMPTS
    MaxFaults       \* bound: failed or blocked requests and writes, crashes

ASSUME DownloaderAssumption ==
    /\ Slices \in Nat \ {0} /\ Monthly \subseteq 1..Slices
    /\ Horizon \in Nat \ {0} /\ MaxFaults \in Nat
    /\ PageLimit \in Nat \ {0} /\ MaxAttempts \in Nat \ {0}

VARIABLES
    history,    \* klines of each slice at the exchange
    server,     \* the exchange's clock
    file,       \* the file of each slice
    manifest,
    at,         \* what the run does next
    run,        \* the locals of download()
    cursor,     \* cursor_ms
    held,       \* the rows of the current slice
    attempts,   \* of the current request, no more than MaxAttempts
    faults      \* only for the bound

remote == <<history, server>>
disk == <<file, manifest>>
locals == <<run, cursor, held, attempts>>
downloaderVars == <<remote, disk, at, locals, faults>>

-----------------------------------------------------------------------------
(* Requests, files and manifests *)

Opens == 0..(Horizon - 1)
IntervalOf(s) == IF s \in Monthly THEN "1M" ELSE "fixed"
After(s, open) == Boundary(open, IntervalOf(s))
OpensOf(s) == {t \in Opens : HasBoundary(t, IntervalOf(s))}
\* What an exchange has of a slice: no two klines of it overlap.
Histories(s) == {h \in SUBSET OpensOf(s) : \A t, u \in h : t < u => After(s, t) <= u}

\* HistoricalDownloadRequest: the end follows the start.
Requests == {r \in [start : Opens, end : 1..Horizon] : r.start < r.end}

\* derive_dataset_id(): of one exchange and one set of slices, the range alone.
DatasetId(request) == <<request.start, request.end>>

Nothing == [opens |-> {}, of |-> {}]
NoManifest == [status |-> "none"]

\* Mutant of FileInfo: the range ends where the last kline opens.
FileInfoOpens(s, opens) ==
    [records |-> Cardinality(opens), first |-> Min(opens), end |-> Max(opens)]

\* _output_files(): one entry for each slice collected by this run.
FileInfo(s, opens) ==
    [records |-> Cardinality(opens), first |-> Min(opens), end |-> After(s, Max(opens))]
OutputFiles(collected) == [s \in DOMAIN collected |-> FileInfo(s, collected[s])]

RecordCount(files) == MapThenSumSet(LAMBDA s : files[s].records, DOMAIN files)

\* _build_manifest(): the actual range is that of the first and the last file.
Manifest(files, status, failed) ==
    [status |-> status, request |-> run.request, files |-> files, failed |-> failed,
     count |-> RecordCount(files), serverTime |-> run.serverTime,
     actual |-> IF DOMAIN files = {} THEN <<>>
                ELSE <<files[Min(DOMAIN files)].first, files[Max(DOMAIN files)].end>>]

NoRun == [request |-> [start |-> 0, end |-> 1], resume |-> FALSE, slice |-> 1,
          serverTime |-> 0, collected |-> <<>>]

Complete == manifest.status = "complete"

DownloaderInit ==
    /\ history \in {h \in [1..Slices -> SUBSET Opens] : \A s \in 1..Slices : h[s] \in Histories(s)}
    /\ server \in 0..Horizon
    /\ file = [s \in 1..Slices |-> Nothing] /\ manifest = NoManifest
    /\ at = "idle" /\ run = NoRun /\ cursor = 0 /\ held = Nothing
    /\ attempts = 0 /\ faults = 0

\* The end of download(): its locals are gone.
Return == at' = "idle" /\ run' = NoRun /\ cursor' = 0 /\ held' = Nothing /\ attempts' = 0

-----------------------------------------------------------------------------
(* download() *)

\* A complete manifest is returned or refused, and a run that resumes an
\* incomplete one of another identity is refused: neither changes anything.
Start(request, resume) ==
    /\ at = "idle" /\ ~Complete
    /\ resume /\ manifest # NoManifest => DatasetId(manifest.request) = DatasetId(request)
    /\ at' = "time"
    /\ run' = [NoRun EXCEPT !.request = request, !.resume = resume]
    /\ UNCHANGED <<remote, disk, cursor, held, attempts, faults>>

Requesting == at \in {"time", "page"} /\ (at = "page" => cursor < run.request.end)
Fault == faults < MaxFaults /\ faults' = faults + 1

\* _request_once(): an attempt the limiter blocks counts, but ends nothing.
RequestBlocked ==
    /\ Requesting /\ Fault
    /\ attempts' = IF attempts < MaxAttempts THEN attempts + 1 ELSE attempts
    /\ UNCHANGED <<remote, disk, at, run, cursor, held>>

\* A network error, 429 or 418 with attempts left.
RequestRetried ==
    /\ Requesting /\ Fault
    /\ attempts + 1 < MaxAttempts
    /\ attempts' = attempts + 1
    /\ UNCHANGED <<remote, disk, at, run, cursor, held>>

\* No attempts left, another status, or an answer that makes no sense.
RequestFails ==
    /\ Requesting /\ Fault
    /\ at' = "abort"
    /\ UNCHANGED <<remote, disk, locals>>

\* The rows the run begins the slice with, and where it begins to ask.
Existing(s, resume) == IF resume THEN file[s] ELSE Nothing
Watermark(s, opens) == IF opens = {} THEN 0 ELSE After(s, Max(opens))
BeginSlice(s) ==
    LET rows == Existing(s, run.resume)
    IN  /\ held' = rows
        /\ cursor' = IF Watermark(s, rows.opens) > run.request.start
                     THEN Watermark(s, rows.opens) ELSE run.request.start

ReceiveTime ==
    /\ at = "time" /\ at' = "page"
    /\ run' = [run EXCEPT !.serverTime = server]
    /\ BeginSlice(1)
    /\ attempts' = 0
    /\ UNCHANGED <<remote, disk, faults>>

\* The first klines of the exchange from startTime on, the open one included.
Page == LET asked == {t \in history[run.slice] :
                         cursor <= t /\ t < run.request.end /\ t <= server}
        IN  {t \in asked : Cardinality({u \in asked : u < t}) < PageLimit}

\* Mutant of Closed: the clock is not looked at.
ClosedByEndOnly(page) == {t \in page : After(run.slice, t) <= run.request.end}

\* _decode_klines(): what was not closed at the server time of the run is cut.
\* A row that is not Bounded fails the request.
Closed(page) ==
    {t \in page : After(run.slice, t) <= run.request.end /\ After(run.slice, t) <= run.serverTime}

ReceivePage ==
    /\ at = "page" /\ cursor < run.request.end
    /\ \E page \in {Closed(Page)} :
          /\ held' = [held EXCEPT !.opens = @ \union page]
          /\ cursor' = IF page = {} THEN cursor ELSE After(run.slice, Max(page))
          /\ at' = IF Cardinality(page) < PageLimit THEN "write" ELSE "page"
    /\ attempts' = 0
    /\ UNCHANGED <<remote, disk, run, faults>>

RangeFetched ==
    /\ at = "page" /\ cursor >= run.request.end
    /\ at' = "write"
    /\ UNCHANGED <<remote, disk, locals, faults>>

\* _write_kline_file_atomic(), unless there are no rows.
WriteFile ==
    /\ at = "write" /\ at' = "record"
    /\ IF held.opens = {} THEN UNCHANGED <<file, run>>
       ELSE /\ file' = [file EXCEPT ![run.slice] =
                          [opens |-> held.opens, of |-> held.of \union {run.request}]]
            /\ run' = [run EXCEPT !.collected =
                         [s \in DOMAIN @ \union {run.slice} |->
                            IF s = run.slice THEN held.opens ELSE @[s]]]
    /\ UNCHANGED <<remote, manifest, cursor, held, attempts, faults>>

WriteFileFails ==
    /\ at = "write" /\ Fault
    /\ at' = "abort"
    /\ UNCHANGED <<remote, disk, locals>>

\* After every slice an incomplete manifest without a failure.
RecordProgress ==
    /\ at = "record"
    /\ manifest' = Manifest(OutputFiles(run.collected), "incomplete", FALSE)
    /\ IF run.slice < Slices
       THEN /\ run' = [run EXCEPT !.slice = @ + 1]
            /\ BeginSlice(run.slice + 1)
            /\ at' = "page"
       ELSE /\ at' = "finish"
            /\ UNCHANGED <<run, cursor, held>>
    /\ attempts' = 0
    /\ UNCHANGED <<remote, file, faults>>

RecordFailure ==
    /\ at = "abort"
    /\ manifest' = Manifest(OutputFiles(run.collected), "incomplete", TRUE)
    /\ Return
    /\ UNCHANGED <<remote, file, faults>>

Finish ==
    /\ at = "finish"
    /\ manifest' = Manifest(OutputFiles(run.collected), "complete", FALSE)
    /\ Return
    /\ UNCHANGED <<remote, file, faults>>

\* _write_manifest_atomic() raises, which download() does not catch.
WriteManifestFails ==
    /\ at \in {"record", "abort", "finish"} /\ Fault
    /\ Return
    /\ UNCHANGED <<remote, disk>>

CrashDownload ==
    /\ at \in {"time", "page", "write", "record", "abort", "finish"} /\ Fault
    /\ Return
    /\ UNCHANGED <<remote, disk>>

\* A day ends.
ExchangeAdvances ==
    /\ server < Horizon
    /\ server' = server + 1
    /\ UNCHANGED <<history, disk, at, locals, faults>>

DownloadStep ==
    \/ ReceiveTime \/ ReceivePage \/ RangeFetched \/ WriteFile
    \/ RecordProgress \/ RecordFailure \/ Finish
DownloadFault ==
    \/ RequestBlocked \/ RequestRetried \/ RequestFails
    \/ WriteFileFails \/ WriteManifestFails \/ CrashDownload

-----------------------------------------------------------------------------
(* Properties *)

\* Every kline in a listed file was put there by runs of one request.
Unmixed == \A s \in DOMAIN manifest.files : file[s].of = {manifest.request}

\* The klines of a request that were closed at a time.
ClosedOf(s, request, time) ==
    {t \in history[s] : request.start <= t /\ After(s, t) <= request.end /\ After(s, t) <= time}

\* A manifest that says complete lists exactly the slices that have closed
\* klines in its range, and their files hold exactly these, whatever runs
\* failed, crashed and resumed before; unless a resumed run has taken over
\* klines of another request.
Exact ==
    \A s \in 1..Slices :
         LET closed == ClosedOf(s, manifest.request, manifest.serverTime)
         IN  /\ s \in DOMAIN manifest.files <=> closed # {}
             /\ s \in DOMAIN manifest.files =>
                  file[s].opens = closed /\ manifest.files[s] = FileInfo(s, closed)
CompleteIsExact == Complete /\ Unmixed => Exact

\* What the module says of the downloader, of every complete manifest.
OnlyClosedInRange ==
    Complete => \A s \in DOMAIN manifest.files :
                  \A t \in file[s].opens :
                    /\ manifest.request.start <= t /\ After(s, t) <= manifest.request.end
                    /\ After(s, t) <= manifest.serverTime
=============================================================================
