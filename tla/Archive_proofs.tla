--------------------------- MODULE Archive_proofs ---------------------------
(***************************************************************************)
(* Proofs about the archive, for any number of slices, any range, page and *)
(* history, any number of failures, crashes and resumed runs, and any      *)
(* raw file that the conversion may find.                                  *)
(*                                                                         *)
(* The invariant has three parts.  Of the downloader it says that every    *)
(* file of one request holds a beginning of the closed klines of that      *)
(* request, and a run all klines before its cursor; the rest follows,      *)
(* since the klines of a slice do not overlap.  Of the conversion it says  *)
(* what is in the files for the lines dealt with so far, which are all     *)
(* when it reports.  Of the work it says that the artifacts of untouched   *)
(* files count every kline, which is what the contracts ask for.           *)
(***************************************************************************)
EXTENDS Archive, TLAPS, FiniteSetTheorems, SequenceTheorems, WellFoundedInduction

USE DownloaderAssumption, RowAssumption, ConversionAssumption

-----------------------------------------------------------------------------
(* Least and greatest numbers, and the times of klines *)

\* A nonempty set of numbers has a least one.
LEMMA MinOf ==
    ASSUME NEW S, S \subseteq Nat, S # {}
    PROVE  Min(S) \in S /\ \A k \in S : Min(S) <= k
<1> DEFINE R == OpToRel(<, Nat)
<1>1. \E m \in S : \A k \in S : <<k, m>> \notin R
  BY NatLessThanWellFounded, WFMin
<1>2. \A k, m \in Nat : <<k, m>> \notin R => m <= k
  BY DEF OpToRel
<1>3. \E m \in S : \A k \in S : m <= k
  BY <1>1, <1>2
<1> QED
  BY <1>3 DEF Min

\* A nonempty and bounded one has a greatest.
LEMMA MaxOf ==
    ASSUME NEW S, NEW n \in Nat, S \subseteq 0..n, S # {}
    PROVE  Max(S) \in S /\ \A k \in S : k <= Max(S)
<1> DEFINE B == {b \in Nat : \A k \in S : k <= b}
<1>1. n \in B
  OBVIOUS
<1>2. Min(B) \in B /\ \A b \in B : Min(B) <= b
  <2>1. B \subseteq Nat /\ B # {}
    BY <1>1
  <2> HIDE DEF B
  <2> QED
    BY <2>1, MinOf
<1>3. PICK b \in B : \A c \in B : b <= c
  BY <1>2
<1>4. b \in S
  <2> SUFFICES ASSUME b \notin S PROVE FALSE
    OBVIOUS
  <2>1. \A k \in S : k < b
    <3> TAKE k \in S
    <3>1. k <= b /\ k # b /\ k \in Nat /\ b \in Nat
      BY <1>3
    <3> QED
      BY <3>1
  <2>2. PICK k \in S : TRUE
    OBVIOUS
  <2>3. b - 1 \in Nat
    BY <2>1, <2>2
  <2>4. \A j \in S : j <= b - 1
    <3> TAKE j \in S
    <3>1. j < b /\ j \in Nat /\ b \in Nat
      BY <2>1
    <3> QED
      BY <3>1
  <2>5. b - 1 \in B
    BY <2>3, <2>4
  <2> QED
    BY <1>3, <2>5
<1>5. \E m \in S : \A k \in S : m >= k
  BY <1>3, <1>4
<1>6. Max(S) \in S /\ \A k \in S : Max(S) >= k
  BY <1>5 DEF Max
<1> QED
  BY <1>6

\* A kline ends after it opens.
LEMMA BoundaryFollows ==
    ASSUME NEW interval, NEW t, HasBoundary(t, interval)
    PROVE  t \in Nat /\ Boundary(t, interval) \in Nat /\ t < Boundary(t, interval)
<1>1. t \in Nat
  BY DEF HasBoundary
<1>2. CASE interval = "1M"
  <2> DEFINE later == {m \in MonthStarts : m > t}
  <2>1. later \subseteq Nat /\ later # {}
    BY <1>1, <1>2 DEF HasBoundary
  <2>2. Boundary(t, interval) = Min(later)
    BY <1>2 DEF Boundary
  <2>3. Min(later) \in later
    BY <2>1, MinOf
  <2> QED
    BY <1>1, <2>1, <2>2, <2>3
<1>3. CASE interval # "1M"
  BY <1>1, <1>3 DEF Boundary
<1> QED
  BY <1>2, <1>3

LEMMA AfterFollows ==
    ASSUME NEW s \in 1..Slices, NEW t \in OpensOf(s)
    PROVE  t \in Nat /\ After(s, t) \in Nat /\ t < After(s, t)
  BY BoundaryFollows DEF OpensOf, After

\* What is asked of the klines of a slice: they are some of the times before
\* the horizon, and none overlaps another.
LEMMA HistoryHas ==
    ASSUME NEW s \in 1..Slices, NEW h \in Histories(s)
    PROVE  /\ h \subseteq Nat /\ h \subseteq Opens /\ h \subseteq 0..Horizon /\ IsFiniteSet(h)
           /\ \A t \in h : After(s, t) \in Nat /\ t < After(s, t)
           /\ \A t, u \in h : t < u => After(s, t) <= u
           /\ \A t, u \in h : t <= u => After(s, t) <= After(s, u)
<1>1. h \subseteq OpensOf(s) /\ \A t, u \in h : t < u => After(s, t) <= u
  BY DEF Histories
<1>2. h \subseteq Opens /\ Opens \subseteq 0..Horizon /\ 0..Horizon \subseteq Nat
  BY <1>1 DEF OpensOf, Opens
<1>3. IsFiniteSet(h)
  <2>1. IsFiniteSet(0..Horizon)
    BY FS_Interval
  <2> QED
    BY <1>2, <2>1, FS_Subset
<1>4. \A t \in h : After(s, t) \in Nat /\ t < After(s, t)
  BY <1>1, AfterFollows
<1>5. ASSUME NEW t \in h, NEW u \in h, t <= u PROVE After(s, t) <= After(s, u)
  <2>1. t \in Nat /\ u \in Nat /\ After(s, t) \in Nat /\ After(s, u) \in Nat /\ u < After(s, u)
    BY <1>2, <1>4
  <2>2. CASE t = u
    BY <2>1, <2>2
  <2>3. CASE t < u
    <3>1. After(s, t) <= u
      BY <1>1, <2>3
    <3> QED
      BY <2>1, <3>1
  <2> QED
    BY <1>5, <2>1, <2>2, <2>3
<1> QED
  BY <1>1, <1>2, <1>3, <1>4, <1>5

-----------------------------------------------------------------------------
(* The invariant of the downloader *)

\* Only the status of a manifest on the disk has to have its type.
Collections == UNION {[S -> SUBSET Opens] : S \in SUBSET (1..Slices)}
DownloaderTyped ==
    /\ history \in [1..Slices -> SUBSET Opens]
    /\ \A s \in 1..Slices : history[s] \in Histories(s)
    /\ server \in 0..Horizon
    /\ file \in [1..Slices -> [opens : SUBSET Opens, of : SUBSET Requests]]
    /\ at \in {"idle", "time", "page", "write", "record", "finish", "abort"}
    /\ run \in [request : Requests, resume : BOOLEAN, slice : 1..Slices,
                serverTime : 0..Horizon, collected : Collections]
    /\ cursor \in Nat
    /\ held \in [opens : SUBSET Opens, of : SUBSET Requests]
    /\ run.serverTime <= server

\* A run that knows the time of the exchange.
Fetching == {"page", "write", "record", "finish"}
Known == IF at \in Fetching THEN run.serverTime ELSE server

\* The klines are the first of the closed ones of a request.
Beginning(s, request, time, opens) ==
    /\ opens \subseteq ClosedOf(s, request, time)
    /\ \A t \in opens, u \in history[s] : request.start <= u /\ u < t => u \in opens

\* A file holds klines once a run has put them into it, and only then; if
\* the runs were of one request, these are the first of that request.
SoundFile(s) ==
    /\ file[s].opens \subseteq history[s]
    /\ file[s].opens = {} <=> file[s].of = {}
    /\ \A request \in Requests :
          file[s].of \subseteq {request} => Beginning(s, request, Known, file[s].opens)

\* A run has asked for all klines before its cursor, and has all when it writes.
SoundRows ==
    LET opens == held.opens
        closed == ClosedOf(run.slice, run.request, run.serverTime)
    IN  /\ opens \subseteq history[run.slice]
        /\ opens = {} => held.of = {}
        /\ run.request.start <= cursor
        /\ held.of \subseteq {run.request} =>
             /\ opens \subseteq closed
             /\ \A u \in history[run.slice] : run.request.start <= u /\ u < cursor => u \in opens
             /\ at = "write" => closed \subseteq opens

\* The slices that the run has dealt with.
Past == {s \in 1..Slices : s < run.slice \/ (s = run.slice /\ at \in {"record", "finish"})}
SoundSlice(s) ==
    LET closed == ClosedOf(s, run.request, run.serverTime)
    IN  IF s \in DOMAIN run.collected
        THEN /\ run.collected[s] = file[s].opens /\ file[s].opens # {}
             /\ file[s].of \subseteq {run.request} => file[s].opens = closed
        ELSE closed = {}
SoundRun ==
    /\ DOMAIN run.collected \subseteq Past
    /\ \A s \in Past : SoundSlice(s)
    /\ at = "finish" => run.slice = Slices

\* What a complete manifest says agrees with itself.
Agrees(m) ==
    /\ m.request \in Requests /\ m.failed = FALSE /\ DOMAIN m.files \subseteq 1..Slices
    /\ m.count = RecordCount(m.files)
    /\ ActualContract(m)

SoundArchive ==
    /\ at = "idle" /\ Agrees(manifest)
    /\ \A s \in 1..Slices :
         LET closed == ClosedOf(s, manifest.request, manifest.serverTime)
         IN  IF s \in DOMAIN manifest.files
             THEN /\ manifest.files[s] = FileInfo(s, file[s].opens) /\ file[s].opens # {}
                  /\ file[s].of \subseteq {manifest.request} => file[s].opens = closed
             ELSE closed = {}

DownloaderInv ==
    /\ DownloaderTyped
    /\ at = "time" => run.slice = 1 /\ DOMAIN run.collected = {}
    /\ \A s \in 1..Slices : SoundFile(s)
    /\ at \in {"page", "write"} => SoundRows
    /\ at \in Fetching => SoundRun
    /\ Complete => SoundArchive

DownloaderState == <<history, server, file, manifest, at, run, cursor, held>>

\* As time goes on more klines are closed.
LEMMA ClosedGrow ==
    ASSUME DownloaderTyped, NEW s \in 1..Slices, NEW request \in Requests,
           NEW a \in Nat, NEW b \in Nat, a <= b
    PROVE  /\ ClosedOf(s, request, a) \subseteq ClosedOf(s, request, b)
           /\ \A opens : Beginning(s, request, a, opens) => Beginning(s, request, b, opens)
<1>1. \A t \in history[s] : After(s, t) \in Nat
  BY HistoryHas DEF DownloaderTyped
<1>2. \A t \in history[s] : After(s, t) <= a => After(s, t) <= b
  BY <1>1
<1>3. ClosedOf(s, request, a) \subseteq ClosedOf(s, request, b)
  BY <1>2 DEF ClosedOf
<1> QED
  BY <1>3 DEF Beginning

LEMMA KnownTyped ==
    ASSUME DownloaderTyped
    PROVE  /\ Known \in Nat /\ server \in Nat /\ run.serverTime \in Nat
           /\ Known <= server /\ run.serverTime <= Known
<1>1. server \in Nat /\ run.serverTime \in Nat /\ run.serverTime <= server
  BY DEF DownloaderTyped
<1> QED
  BY <1>1 DEF Known

\* A step that leaves the files alone and knows no earlier time.
LEMMA FilesStaySound ==
    ASSUME DownloaderInv, DownloaderTyped', UNCHANGED <<history, file>>, Known <= Known'
    PROVE  \A s \in 1..Slices : SoundFile(s)'
<1>1. Known \in Nat /\ Known' \in Nat
  BY DEF DownloaderInv, DownloaderTyped, Known
<1> SUFFICES ASSUME NEW s \in 1..Slices PROVE SoundFile(s)'
  OBVIOUS
<1>2. SoundFile(s) /\ DownloaderTyped
  BY DEF DownloaderInv
<1>3. PICK a \in Nat : a = Known
  BY <1>1
<1>4. PICK b \in Nat : b = Known'
  BY <1>1
<1>5. \A request \in Requests : ClosedOf(s, request, b)' = ClosedOf(s, request, b)
  BY DEF ClosedOf
<1>6. ASSUME NEW request \in Requests, file[s].of \subseteq {request}
      PROVE  Beginning(s, request, Known, file[s].opens)'
  <2>1. Beginning(s, request, a, file[s].opens)
    BY <1>2, <1>3, <1>6 DEF SoundFile
  <2>2. Beginning(s, request, b, file[s].opens)
    BY <1>2, <1>3, <1>4, <2>1, ClosedGrow
  <2> QED
    BY <1>4, <1>5, <2>2 DEF Beginning
<1> QED
  BY <1>2, <1>6 DEF SoundFile

\* A step that changes nothing the invariant speaks of.
LEMMA DownloaderKept == ASSUME DownloaderInv, UNCHANGED DownloaderState PROVE DownloaderInv'
<1> USE DEF DownloaderState
<1>1. DownloaderTyped'
  <2>1. \A s \in 1..Slices : Histories(s)' = Histories(s)
    BY DEF Histories
  <2> QED
    BY <2>1 DEF DownloaderInv, DownloaderTyped
<1>2. Known' = Known
  BY DEF Known
<1>3. Known \in Nat
  BY KnownTyped DEF DownloaderInv
<1>4. \A s \in 1..Slices : SoundFile(s)'
  BY <1>1, <1>2, <1>3, FilesStaySound
<1>5. ASSUME at \in {"page", "write"} PROVE SoundRows'
  BY <1>5 DEF DownloaderInv, SoundRows, ClosedOf
<1>6. ASSUME at \in Fetching PROVE SoundRun'
  <2>1. Past' = Past
    BY DEF Past
  <2>2. ASSUME NEW s \in 1..Slices, SoundSlice(s) PROVE SoundSlice(s)'
    BY <2>2 DEF SoundSlice, ClosedOf
  <2> QED
    BY <1>6, <2>1, <2>2 DEF DownloaderInv, SoundRun, Past
<1>7. ASSUME Complete PROVE SoundArchive'
  BY <1>7 DEF DownloaderInv, SoundArchive, ClosedOf, FileInfo
<1> QED
  BY <1>1, <1>4, <1>5, <1>6, <1>7 DEF DownloaderInv, Complete

LEMMA NoRunTyped ==
    NoRun \in [request : Requests, resume : BOOLEAN, slice : 1..Slices,
               serverTime : 0..Horizon, collected : Collections]
<1>1. <<>> \in Collections
  <2>1. <<>> \in [{} -> SUBSET Opens] /\ {} \in SUBSET (1..Slices)
    OBVIOUS
  <2> QED
    BY <2>1 DEF Collections
<1>2. [start |-> 0, end |-> 1] \in Requests
  BY DEF Requests, Opens
<1> QED
  BY <1>1, <1>2 DEF NoRun

\* The end of a run.
LEMMA ReturnKeeps ==
    ASSUME DownloaderInv, Return, UNCHANGED <<history, server, file>>,
           Complete' => SoundArchive'
    PROVE  DownloaderInv'
<1>1. DownloaderTyped /\ run' = NoRun /\ at' = "idle"
  BY DEF DownloaderInv, Return
<1>2. DownloaderTyped'
  <2>1. \A s \in 1..Slices : Histories(s)' = Histories(s)
    BY DEF Histories
  <2>3. 0 <= server /\ NoRun.serverTime = 0
    BY <1>1 DEF DownloaderTyped, NoRun
  <2>4. cursor' \in Nat /\ held' \in [opens : SUBSET Opens, of : SUBSET Requests]
    BY DEF Return, Nothing
  <2> QED
    BY <1>1, NoRunTyped, <2>1, <2>3, <2>4 DEF DownloaderTyped
<1>3. Known' = server
  BY <1>1 DEF Known, Fetching
<1>4. \A s \in 1..Slices : SoundFile(s)'
  BY <1>1, <1>2, <1>3, KnownTyped, FilesStaySound
<1> QED
  BY <1>1, <1>2, <1>4 DEF DownloaderInv, Fetching

LEMMA DownloaderStart == DownloaderInit => DownloaderInv
<1> SUFFICES ASSUME DownloaderInit PROVE DownloaderInv
  OBVIOUS
<1>1. DownloaderTyped
  <2>2. NoRun.serverTime = 0
    BY DEF NoRun
  <2> QED
    BY <2>2, NoRunTyped DEF DownloaderInit, DownloaderTyped, Nothing
<1>2. ASSUME NEW s \in 1..Slices PROVE SoundFile(s)
  BY DEF DownloaderInit, Nothing, SoundFile, Beginning
<1> QED
  BY <1>1, <1>2 DEF DownloaderInit, DownloaderInv, Complete, NoManifest, Fetching

-----------------------------------------------------------------------------
(* One slice *)

\* What the run begins a slice with.
LEMMA RowsAtFirst ==
    ASSUME DownloaderInv, NEW s \in 1..Slices, BeginSlice(s)
    PROVE  /\ held' \in [opens : SUBSET Opens, of : SUBSET Requests] /\ cursor' \in Nat
           /\ held'.opens \subseteq history[s] /\ (held'.opens = {} => held'.of = {})
           /\ run.request.start <= cursor'
           /\ held'.of \subseteq {run.request} =>
                /\ held'.opens \subseteq ClosedOf(s, run.request, Known)
                /\ \A u \in history[s] :
                      run.request.start <= u /\ u < cursor' => u \in held'.opens
<1> USE DEF DownloaderInv
<1>1. DownloaderTyped /\ SoundFile(s) /\ run.request \in Requests
  BY DEF DownloaderTyped
<1>2. PICK start \in Nat : start = run.request.start
  BY <1>1 DEF Requests, Opens
<1>3. PICK h \in Histories(s) : h = history[s]
  BY <1>1 DEF DownloaderTyped
<1>4. /\ held' \in [opens : SUBSET Opens, of : SUBSET Requests]
      /\ held'.opens \subseteq h /\ (held'.opens = {} => held'.of = {})
      /\ held'.of \subseteq {run.request} => Beginning(s, run.request, Known, held'.opens)
  <2>1. CASE held' = file[s]
    BY <1>1, <1>3, <2>1 DEF DownloaderTyped, SoundFile
  <2>2. CASE held' = Nothing
    BY <2>2 DEF Nothing, Beginning
  <2> QED
    BY <2>1, <2>2 DEF BeginSlice, Existing
<1>5. PICK rows \in SUBSET h : rows = held'.opens
  BY <1>4
<1>6. cursor' = IF Watermark(s, rows) > start THEN Watermark(s, rows) ELSE start
  BY <1>2, <1>5 DEF BeginSlice
<1>7. CASE rows = {}
  <2>1. cursor' = start
    BY <1>2, <1>6, <1>7 DEF Watermark
  <2>2. \A u \in h : ~(start <= u /\ u < cursor')
    BY <1>2, <2>1, HistoryHas
  <2> QED
    BY <1>2, <1>3, <1>4, <1>5, <1>7, <2>1, <2>2 DEF Beginning
<1>8. CASE rows # {}
  <2>1. PICK last \in rows : last = Max(rows) /\ \A t \in rows : t <= last
    <3>1. rows \subseteq 0..Horizon
      BY HistoryHas
    <3> QED
      BY <1>8, <3>1, MaxOf
  <2>2. /\ last \in Nat /\ After(s, last) \in Nat /\ last < After(s, last)
        /\ \A u \in h : u \in Nat /\ (last < u => After(s, last) <= u)
    BY HistoryHas
  <2>3. Watermark(s, rows) = After(s, last)
    BY <1>8, <2>1 DEF Watermark
  <2>4. cursor' \in Nat /\ start <= cursor'
    BY <1>2, <1>6, <2>2, <2>3
  <2>5. ASSUME Beginning(s, run.request, Known, rows)
        PROVE  \A u \in h : start <= u /\ u < cursor' => u \in rows
    <3>1. start <= last
      BY <1>2, <2>5 DEF Beginning, ClosedOf
    <3>2. cursor' = After(s, last)
      BY <1>2, <1>6, <2>2, <2>3, <3>1
    <3> SUFFICES ASSUME NEW u \in h, start <= u, u < After(s, last) PROVE u \in rows
      BY <3>2
    <3>3. u < last \/ u = last
      BY <2>2
    <3> QED
      BY <1>2, <1>3, <2>5, <3>3 DEF Beginning
  <2> QED
    BY <1>2, <1>3, <1>4, <1>5, <2>4, <2>5 DEF Beginning
<1> QED
  BY <1>7, <1>8

\* What a page brings: no kline up to its last is missing, and a short page
\* brings all that are closed.
LEMMA PageBrings ==
    ASSUME DownloaderInv, at = "page", NEW page, page = Closed(Page)
    PROVE  /\ page \subseteq ClosedOf(run.slice, run.request, run.serverTime)
           /\ page # {} =>
                /\ After(run.slice, Max(page)) \in Nat /\ cursor < After(run.slice, Max(page))
                /\ \A u \in history[run.slice] :
                      cursor <= u /\ u < After(run.slice, Max(page)) => u \in page
           /\ Cardinality(page) < PageLimit =>
                \A u \in ClosedOf(run.slice, run.request, run.serverTime) :
                   cursor <= u => u \in page
<1> USE DEF DownloaderInv
<1>1. DownloaderTyped /\ SoundRows /\ cursor \in Nat
  BY DEF DownloaderTyped
<1>2. PICK s \in 1..Slices : s = run.slice
  BY <1>1 DEF DownloaderTyped
<1>3. PICK start \in Nat, end \in Nat, time \in Nat :
         start = run.request.start /\ end = run.request.end /\ time = run.serverTime
  BY <1>1 DEF DownloaderTyped, Requests, Opens
<1>4. start <= cursor /\ server \in Nat /\ time <= server
  BY <1>1, <1>3 DEF SoundRows, DownloaderTyped
<1>5. PICK h \in Histories(s) : h = history[s]
  BY <1>1 DEF DownloaderTyped
<1>6. /\ h \subseteq 0..Horizon /\ IsFiniteSet(h)
      /\ \A t \in h : t \in Nat /\ After(s, t) \in Nat /\ t < After(s, t)
      /\ \A t, u \in h : t < u => After(s, t) <= u
      /\ \A t, u \in h : t <= u => After(s, t) <= After(s, u)
  BY HistoryHas
<1> DEFINE asked == {t \in h : cursor <= t /\ t < end /\ t <= server}
           before(t) == {u \in asked : u < t}
<1>7. page = {t \in asked : /\ Cardinality(before(t)) < PageLimit
                            /\ After(s, t) <= end /\ After(s, t) <= time}
  BY <1>2, <1>3, <1>5 DEF Closed, Page
<1>8. asked \subseteq h /\ asked \subseteq Nat /\ IsFiniteSet(asked)
  BY <1>6, FS_Subset
<1>9. ASSUME NEW t \in asked, NEW u \in asked, t <= u
      PROVE  /\ IsFiniteSet(before(u)) /\ Cardinality(before(u)) \in Nat
             /\ Cardinality(before(t)) \in Nat
             /\ Cardinality(before(t)) <= Cardinality(before(u))
  <2>1. before(t) \subseteq before(u)
    BY <1>8, <1>9
  <2>2. IsFiniteSet(before(t)) /\ IsFiniteSet(before(u))
    BY <1>8, FS_Subset
  <2> QED
    BY <2>1, <2>2, FS_Subset, FS_CardinalityType
<1>10. page \subseteq ClosedOf(s, run.request, time)
  <2> SUFFICES ASSUME NEW t \in page PROVE t \in ClosedOf(s, run.request, time)
    OBVIOUS
  <2>1. t \in h /\ cursor <= t /\ After(s, t) <= end /\ After(s, t) <= time
    BY <1>7
  <2>2. start <= t
    BY <1>1, <1>4, <1>6, <2>1
  <2> QED
    BY <1>3, <1>5, <2>1, <2>2 DEF ClosedOf
<1>11. ASSUME page # {}
       PROVE  /\ After(s, Max(page)) \in Nat /\ cursor < After(s, Max(page))
              /\ \A u \in h : cursor <= u /\ u < After(s, Max(page)) => u \in page
  <2>1. page \subseteq 0..Horizon
    BY <1>6, <1>7
  <2>2. PICK last \in page : last = Max(page)
    BY <1>11, <2>1, MaxOf
  <2>3. /\ last \in asked /\ last \in h /\ last \in Nat /\ cursor <= last /\ last < end
        /\ last <= server /\ Cardinality(before(last)) < PageLimit
        /\ After(s, last) <= end /\ After(s, last) <= time
        /\ After(s, last) \in Nat /\ last < After(s, last)
    BY <1>6, <1>7
  <2>4. ASSUME NEW u \in h, cursor <= u, u < After(s, last) PROVE u \in page
    <3>1. u \in Nat /\ After(s, u) \in Nat /\ ~(last < u)
      BY <1>6, <2>3, <2>4
    <3>2. u <= last
      BY <2>3, <3>1
    <3>3. u \in asked
      BY <1>4, <2>3, <2>4, <3>1, <3>2
    <3>4. Cardinality(before(u)) < PageLimit
      <4>1. /\ Cardinality(before(u)) \in Nat /\ Cardinality(before(last)) \in Nat
            /\ Cardinality(before(u)) <= Cardinality(before(last))
        BY <1>9, <2>3, <3>2, <3>3
      <4> HIDE DEF before
      <4> QED
        BY <2>3, <4>1
    <3>5. After(s, u) <= After(s, last)
      BY <1>6, <2>3, <3>2
    <3>6. After(s, u) <= end /\ After(s, u) <= time
      BY <1>3, <2>3, <3>1, <3>5
    <3> QED
      BY <1>7, <3>3, <3>4, <3>6
  <2> QED
    BY <1>1, <2>2, <2>3, <2>4
<1>12. ASSUME Cardinality(page) < PageLimit,
              NEW u \in ClosedOf(s, run.request, time), cursor <= u
       PROVE  u \in page
  <2>1. u \in h /\ u \in Nat /\ After(s, u) \in Nat /\ u < After(s, u)
        /\ After(s, u) <= end /\ After(s, u) <= time
    BY <1>3, <1>5, <1>6, <1>12 DEF ClosedOf
  <2>2. u \in asked
    BY <1>3, <1>4, <1>12, <2>1
  <2> DEFINE missing == asked \ page
  <2> SUFFICES ASSUME u \notin page PROVE FALSE
    OBVIOUS
  <2>3. PICK t \in missing : \A v \in missing : t <= v
    <3>1. missing \subseteq Nat /\ u \in missing
      BY <1>8, <2>2
    <3> HIDE DEF missing
    <3> QED
      BY <3>1, MinOf
  <2>4. /\ t \in asked /\ t \notin page /\ t \in h /\ t \in Nat /\ t <= u
        /\ After(s, t) \in Nat
    BY <1>6, <1>8, <2>2, <2>3
  <2>5. After(s, t) <= end /\ After(s, t) <= time
    <3>1. After(s, t) <= After(s, u)
      BY <1>6, <2>1, <2>4
    <3> QED
      BY <1>3, <2>1, <2>4, <3>1
  <2>6. before(t) \subseteq page
    <3> SUFFICES ASSUME NEW v \in asked, v < t, v \notin page PROVE FALSE
      OBVIOUS
    <3>1. v \in missing /\ v \in Nat
      BY <1>8
    <3>2. t <= v
      BY <2>3, <3>1
    <3> QED
      BY <2>4, <3>1, <3>2
  <2>7. Cardinality(before(t)) < PageLimit
    <3>1. IsFiniteSet(page)
      BY <1>7, <1>8, FS_Subset
    <3>2. Cardinality(before(t)) <= Cardinality(page) /\ Cardinality(page) \in Nat
      BY <2>6, <3>1, FS_Subset, FS_CardinalityType
    <3>3. Cardinality(before(t)) \in Nat
      BY <1>9, <2>4
    <3> HIDE DEF before
    <3> QED
      BY <1>12, <3>2, <3>3
  <2> QED
    BY <1>7, <2>4, <2>5, <2>7
<1> QED
  BY <1>2, <1>3, <1>5, <1>10, <1>11, <1>12

-----------------------------------------------------------------------------
(* One step of the downloader *)

LEMMA StartKeeps ==
    ASSUME DownloaderInv, NEW request \in Requests, NEW resume \in BOOLEAN,
           Start(request, resume)
    PROVE  DownloaderInv'
<1> USE DEF DownloaderInv
<1>1. /\ at = "idle" /\ at' = "time" /\ ~Complete /\ manifest' = manifest
      /\ run' = [NoRun EXCEPT !.request = request, !.resume = resume]
      /\ UNCHANGED <<history, server, file, cursor, held>>
  BY DEF Start, remote, disk
<1>2. run'.slice = 1 /\ run'.collected = <<>> /\ run'.serverTime = 0
  BY <1>1 DEF NoRun
<1>3. DownloaderTyped'
  <2>1. \A s \in 1..Slices : Histories(s)' = Histories(s)
    BY DEF Histories
  <2>2. run' \in [request : Requests, resume : BOOLEAN, slice : 1..Slices,
                  serverTime : 0..Horizon, collected : Collections]
    BY <1>1, NoRunTyped
  <2> QED
    BY <1>1, <1>2, <2>1, <2>2 DEF DownloaderTyped
<1>4. Known' = Known /\ Known \in Nat
  BY <1>1, KnownTyped DEF Known, Fetching
<1>5. \A s \in 1..Slices : SoundFile(s)'
  BY <1>1, <1>3, <1>4, FilesStaySound
<1> QED
  BY <1>1, <1>2, <1>3, <1>5 DEF Complete, Fetching

LEMMA ReceiveTimeKeeps == ASSUME DownloaderInv, ReceiveTime PROVE DownloaderInv'
<1> USE DEF DownloaderInv
<1>1. /\ at = "time" /\ at' = "page" /\ run' = [run EXCEPT !.serverTime = server]
      /\ BeginSlice(1) /\ UNCHANGED <<history, server, file, manifest>>
  BY DEF ReceiveTime, remote, disk
<1>2. /\ run'.slice = 1 /\ DOMAIN run'.collected = {} /\ run'.serverTime = server
      /\ run'.request = run.request /\ run'.collected = run.collected
  BY <1>1 DEF DownloaderTyped
<1>3. /\ held' \in [opens : SUBSET Opens, of : SUBSET Requests] /\ cursor' \in Nat
      /\ held'.opens \subseteq history[1] /\ (held'.opens = {} => held'.of = {})
      /\ run.request.start <= cursor'
      /\ held'.of \subseteq {run.request} =>
           /\ held'.opens \subseteq ClosedOf(1, run.request, Known)
           /\ \A u \in history[1] :
                 run.request.start <= u /\ u < cursor' => u \in held'.opens
  BY <1>1, RowsAtFirst
<1>4. DownloaderTyped'
  <2>1. \A s \in 1..Slices : Histories(s)' = Histories(s)
    BY DEF Histories
  <2>2. server <= server
    BY DEF DownloaderTyped
  <2> QED
    BY <1>1, <1>2, <1>3, <2>1, <2>2 DEF DownloaderTyped
<1>5. Known = server /\ Known' = server /\ Known \in Nat
  BY <1>1, <1>2, KnownTyped DEF Known, Fetching
<1>6. \A s \in 1..Slices : SoundFile(s)'
  BY <1>1, <1>4, <1>5, FilesStaySound
<1>7. SoundRows'
  <2>1. ClosedOf(1, run.request, Known) =
          {t \in history'[1] : /\ run'.request.start <= t /\ After(1, t) <= run'.request.end
                               /\ After(1, t) <= run'.serverTime}
    BY <1>1, <1>2, <1>5 DEF ClosedOf
  <2> QED
    BY <1>1, <1>2, <1>3, <2>1 DEF SoundRows, ClosedOf
<1>8. SoundRun'
  <2>1. Past' = {}
    BY <1>1, <1>2 DEF Past
  <2> QED
    BY <1>1, <1>2, <2>1 DEF SoundRun
<1>9. ~Complete'
  BY <1>1 DEF Complete, SoundArchive
<1> QED
  BY <1>1, <1>4, <1>6, <1>7, <1>8, <1>9

\* Between the steps that write a slice, the past stays what it was.
LEMMA PastStays ==
    ASSUME DownloaderInv, at \in Fetching, at' \in Fetching,
           UNCHANGED <<history, file, run>>, Past' = Past, at' = "finish" => run.slice = Slices
    PROVE  SoundRun'
<1>1. SoundRun
  BY DEF DownloaderInv
<1>2. ASSUME NEW s \in 1..Slices, SoundSlice(s) PROVE SoundSlice(s)'
  BY <1>2 DEF SoundSlice, ClosedOf
<1> QED
  BY <1>1, <1>2 DEF SoundRun, Past

LEMMA ReceivePageKeeps == ASSUME DownloaderInv, ReceivePage PROVE DownloaderInv'
<1> USE DEF DownloaderInv
<1> DEFINE s == run.slice
           closed == ClosedOf(s, run.request, run.serverTime)
<1>1. PICK page : /\ at = "page" /\ page = Closed(Page)
                  /\ held' = [held EXCEPT !.opens = @ \union page]
                  /\ cursor' = IF page = {} THEN cursor ELSE After(run.slice, Max(page))
                  /\ at' = IF Cardinality(page) < PageLimit THEN "write" ELSE "page"
                  /\ UNCHANGED <<history, server, file, manifest, run>>
  BY DEF ReceivePage, remote, disk
<1>2. DownloaderTyped /\ SoundRows /\ s \in 1..Slices /\ run.request.start \in Nat /\ cursor \in Nat
  BY <1>1 DEF DownloaderTyped, Requests, Opens
<1>3. /\ page \subseteq closed
      /\ page # {} =>
           /\ After(s, Max(page)) \in Nat /\ cursor < After(s, Max(page))
           /\ \A u \in history[s] : cursor <= u /\ u < After(s, Max(page)) => u \in page
      /\ Cardinality(page) < PageLimit => \A u \in closed : cursor <= u => u \in page
  BY <1>1, PageBrings
<1>4. /\ history[s] \subseteq Opens
      /\ \A u \in history[s] : u \in Nat /\ After(s, u) \in Nat /\ u < After(s, u)
  BY <1>2, HistoryHas DEF DownloaderTyped
<1>5. closed \subseteq history[s] /\ \A u \in closed : run.request.start <= u
  BY DEF ClosedOf
<1>6. held'.opens = held.opens \union page /\ held'.of = held.of
  BY <1>1, <1>2 DEF DownloaderTyped
<1>7. /\ held' \in [opens : SUBSET Opens, of : SUBSET Requests] /\ cursor' \in Nat
      /\ cursor <= cursor'
  <2>1. page \subseteq Opens
    BY <1>3, <1>4, <1>5
  <2>2. held' \in [opens : SUBSET Opens, of : SUBSET Requests]
    BY <1>1, <1>2, <2>1 DEF DownloaderTyped
  <2>3. CASE page = {}
    BY <1>1, <1>2, <2>2, <2>3
  <2>4. CASE page # {}
    <3>1. cursor' = After(s, Max(page))
      BY <1>1, <2>4
    <3>2. After(s, Max(page)) \in Nat /\ cursor < After(s, Max(page))
      BY <1>3, <2>4
    <3>3. cursor' \in Nat /\ cursor <= cursor'
      BY <1>2, <3>1, <3>2
    <3> QED
      BY <2>2, <3>3
  <2> QED
    BY <2>3, <2>4
<1>8. DownloaderTyped'
  <2>1. \A z \in 1..Slices : Histories(z)' = Histories(z)
    BY DEF Histories
  <2>2. at' \in {"page", "write"}
    BY <1>1
  <2> QED
    BY <1>1, <1>2, <1>7, <2>1, <2>2 DEF DownloaderTyped
<1>9. Known' = Known /\ Known \in Nat
  BY <1>1, KnownTyped DEF Known, Fetching
<1>10. \A z \in 1..Slices : SoundFile(z)'
  BY <1>1, <1>8, <1>9, FilesStaySound
<1>11. SoundRows'
  <2>1. held'.opens \subseteq history[s] /\ (held'.opens = {} => held'.of = {})
    BY <1>2, <1>3, <1>5, <1>6 DEF SoundRows
  <2>2. run.request.start <= cursor'
    BY <1>2, <1>7 DEF SoundRows
  <2>3. ASSUME held.of \subseteq {run.request}
        PROVE  /\ held'.opens \subseteq closed
               /\ \A u \in history[s] :
                     run.request.start <= u /\ u < cursor' => u \in held'.opens
               /\ at' = "write" => closed \subseteq held'.opens
    <3>1. /\ held.opens \subseteq closed
          /\ \A u \in history[s] : run.request.start <= u /\ u < cursor => u \in held.opens
      BY <1>2, <2>3 DEF SoundRows
    <3>2. ASSUME NEW u \in history[s], run.request.start <= u, u < cursor'
          PROVE  u \in held'.opens
      <4>1. CASE u < cursor
        BY <1>6, <3>1, <3>2, <4>1
      <4>2. CASE ~(u < cursor)
        <5>1. cursor <= u
          BY <1>2, <1>4, <4>2
        <5>2. page # {}
          BY <1>1, <3>2, <4>2
        <5>3. u < After(s, Max(page))
          BY <1>1, <3>2, <5>2
        <5> QED
          BY <1>3, <1>6, <5>1, <5>2, <5>3
      <4> QED
        BY <4>1, <4>2
    <3>3. ASSUME at' = "write", NEW u \in closed PROVE u \in held'.opens
      <4>1. Cardinality(page) < PageLimit
        BY <1>1, <3>3
      <4>2. CASE u < cursor
        BY <1>5, <1>6, <3>1, <4>2
      <4>3. CASE ~(u < cursor)
        <5>1. cursor <= u
          BY <1>2, <1>4, <1>5, <4>3
        <5> QED
          BY <1>3, <1>6, <4>1, <5>1
      <4> QED
        BY <4>2, <4>3
    <3> QED
      BY <1>3, <1>6, <3>1, <3>2, <3>3
  <2>4. ClosedOf(run.slice, run.request, run.serverTime)' = closed
    BY <1>1 DEF ClosedOf
  <2> QED
    BY <1>1, <1>6, <2>1, <2>2, <2>3, <2>4 DEF SoundRows
<1>12. SoundRun'
  <2>1. Past' = Past
    BY <1>1 DEF Past
  <2> QED
    BY <1>1, <2>1, PastStays DEF Fetching
<1>13. ~Complete'
  BY <1>1 DEF Complete, SoundArchive
<1> QED
  BY <1>1, <1>8, <1>10, <1>11, <1>12, <1>13

LEMMA RangeFetchedKeeps == ASSUME DownloaderInv, RangeFetched PROVE DownloaderInv'
<1> USE DEF DownloaderInv
<1>1. /\ at = "page" /\ cursor >= run.request.end /\ at' = "write"
      /\ UNCHANGED <<history, server, file, manifest, run, cursor, held>>
  BY DEF RangeFetched, remote, disk, locals
<1>2. DownloaderTyped /\ SoundRows
  BY <1>1
<1>3. DownloaderTyped'
  <2>1. \A z \in 1..Slices : Histories(z)' = Histories(z)
    BY DEF Histories
  <2> QED
    BY <1>1, <1>2, <2>1 DEF DownloaderTyped
<1>4. Known' = Known /\ Known \in Nat
  BY <1>1, KnownTyped DEF Known, Fetching
<1>5. \A z \in 1..Slices : SoundFile(z)'
  BY <1>1, <1>3, <1>4, FilesStaySound
<1>6. SoundRows'
  <2> DEFINE s == run.slice
             closed == ClosedOf(s, run.request, run.serverTime)
  <2>1. s \in 1..Slices /\ run.request.end \in Nat /\ cursor \in Nat
    BY <1>2 DEF DownloaderTyped, Requests
  <2>2. \A u \in history[s] : u \in Nat /\ After(s, u) \in Nat /\ u < After(s, u)
    BY <1>2, <2>1, HistoryHas DEF DownloaderTyped
  <2>3. ASSUME NEW u \in closed PROVE u \in history[s] /\ run.request.start <= u /\ u < cursor
    <3>1. u \in history[s] /\ run.request.start <= u /\ After(s, u) <= run.request.end
      BY DEF ClosedOf
    <3> QED
      BY <1>1, <2>1, <2>2, <3>1
  <2>4. held.of \subseteq {run.request} => closed \subseteq held.opens
    BY <1>2, <2>3 DEF SoundRows
  <2>5. ClosedOf(run.slice, run.request, run.serverTime)' = closed
    BY <1>1 DEF ClosedOf
  <2> QED
    BY <1>1, <1>2, <2>4, <2>5 DEF SoundRows
<1>7. SoundRun'
  <2>1. Past' = Past
    BY <1>1 DEF Past
  <2> QED
    BY <1>1, <2>1, PastStays DEF Fetching
<1>8. ~Complete'
  BY <1>1 DEF Complete, SoundArchive
<1> QED
  BY <1>1, <1>3, <1>5, <1>6, <1>7, <1>8

\* The file of a slice is replaced when the run has all of its closed klines.
LEMMA WriteFileKeeps == ASSUME DownloaderInv, WriteFile PROVE DownloaderInv'
<1> USE DEF DownloaderInv
<1>1. /\ at = "write" /\ at' = "record"
      /\ UNCHANGED <<history, server, manifest, cursor, held>>
  BY DEF WriteFile, remote
<1>2. DownloaderTyped /\ SoundRows /\ SoundRun
  BY <1>1 DEF Fetching
<1>3. PICK s \in 1..Slices : s = run.slice
  BY <1>2 DEF DownloaderTyped
<1>4. PICK closed : closed = ClosedOf(s, run.request, run.serverTime)
  OBVIOUS
<1>5. /\ held.opens \subseteq history[s] /\ (held.opens = {} => held.of = {})
      /\ held.of \subseteq {run.request} => held.opens = closed
  BY <1>1, <1>2, <1>3, <1>4 DEF SoundRows
<1>6. \A z \in 1..Slices : Histories(z)' = Histories(z)
  BY DEF Histories
<1>7. Known = run.serverTime /\ Known \in Nat
  BY <1>1, KnownTyped DEF Known, Fetching
<1>8. ~Complete'
  BY <1>1 DEF Complete, SoundArchive
<1>9. DOMAIN run.collected \subseteq Past /\ s \notin Past /\ s \notin DOMAIN run.collected
  BY <1>1, <1>2, <1>3 DEF SoundRun, Past
<1>10. CASE held.opens = {}
  <2>1. file' = file /\ run' = run
    BY <1>10 DEF WriteFile
  <2>2. DownloaderTyped'
    BY <1>1, <1>2, <1>6, <2>1 DEF DownloaderTyped
  <2>3. Known' = Known
    BY <1>1, <1>7, <2>1 DEF Known, Fetching
  <2>4. \A z \in 1..Slices : SoundFile(z)'
    BY <1>1, <1>7, <2>1, <2>2, <2>3, FilesStaySound
  <2>5. Past' = Past \union {s}
    BY <1>1, <1>3, <2>1 DEF Past
  <2>6. closed = {}
    BY <1>5, <1>10
  <2>7. SoundSlice(s)'
    BY <1>1, <1>4, <1>9, <2>1, <2>6 DEF SoundSlice, ClosedOf
  <2>8. ASSUME NEW z \in Past PROVE SoundSlice(z)'
    BY <1>1, <1>2, <2>1 DEF SoundRun, SoundSlice, ClosedOf
  <2>9. SoundRun'
    <3>1. DOMAIN run'.collected \subseteq Past'
      BY <1>9, <2>1, <2>5
    <3>2. \A z \in Past' : SoundSlice(z)'
      BY <2>5, <2>7, <2>8
    <3> QED
      BY <1>1, <3>1, <3>2 DEF SoundRun
  <2> QED
    BY <1>1, <1>8, <2>2, <2>4, <2>9
<1>11. CASE held.opens # {}
  <2> DEFINE entry == [opens |-> held.opens, of |-> held.of \union {run.request}]
             new == [z \in DOMAIN run.collected \union {s} |->
                       IF z = s THEN held.opens ELSE run.collected[z]]
  <2>1. file' = [file EXCEPT ![s] = entry] /\ run' = [run EXCEPT !.collected = new]
    BY <1>3, <1>11 DEF WriteFile
  <2>2. /\ run'.collected = new /\ run'.request = run.request /\ run'.slice = s
        /\ run'.serverTime = run.serverTime
    BY <1>2, <1>3, <2>1 DEF DownloaderTyped
  <2>3. new \in Collections
    <3>1. PICK S \in SUBSET (1..Slices) : run.collected \in [S -> SUBSET Opens]
      BY <1>2 DEF DownloaderTyped, Collections
    <3>2. held.opens \in SUBSET Opens
      BY <1>2 DEF DownloaderTyped
    <3>3. new \in [S \union {s} -> SUBSET Opens]
      BY <3>1, <3>2
    <3>4. S \union {s} \in SUBSET (1..Slices)
      OBVIOUS
    <3> QED
      BY <3>3, <3>4 DEF Collections
  <2> HIDE DEF new
  <2>4. entry \in [opens : SUBSET Opens, of : SUBSET Requests]
    BY <1>2 DEF DownloaderTyped
  <2>5. DownloaderTyped'
    <3>1. file' \in [1..Slices -> [opens : SUBSET Opens, of : SUBSET Requests]]
      BY <1>2, <2>1, <2>4 DEF DownloaderTyped
    <3>2. run' \in [request : Requests, resume : BOOLEAN, slice : 1..Slices,
                    serverTime : 0..Horizon, collected : Collections]
      BY <1>2, <2>1, <2>3 DEF DownloaderTyped
    <3> QED
      BY <1>1, <1>2, <1>6, <2>2, <3>1, <3>2 DEF DownloaderTyped
  <2>6. Known' = Known
    BY <1>1, <1>7, <2>2 DEF Known, Fetching
  <2>7. file'[s] = entry /\ \A z \in 1..Slices : z # s => file'[z] = file[z]
    BY <1>2, <2>1 DEF DownloaderTyped
  <2>8. \A z \in 1..Slices, request \in Requests :
           ClosedOf(z, request, run.serverTime)' = ClosedOf(z, request, run.serverTime)
    BY <1>1, <2>2 DEF ClosedOf
  <2>9. ASSUME NEW z \in 1..Slices PROVE SoundFile(z)'
    <3>1. CASE z = s
      <4>1. ASSUME NEW request \in Requests, file'[s].of \subseteq {request}
            PROVE  Beginning(s, request, Known, file[s].opens)'
        <5>1. request = run.request /\ held.of \subseteq {run.request}
          BY <2>7, <4>1
        <5>2. file'[s].opens = closed
          BY <1>5, <2>7, <5>1
        <5>3. ClosedOf(s, request, Known)' = closed
          BY <1>1, <1>4, <1>7, <2>2, <2>6, <5>1 DEF ClosedOf
        <5>4. PICK start \in Nat, end \in Nat, time \in Nat :
                 start = run.request.start /\ end = run.request.end /\ time = run.serverTime
          BY <1>2 DEF DownloaderTyped, Requests, Opens
        <5>5. \A u \in history[s] : u \in Nat /\ After(s, u) \in Nat /\ u < After(s, u)
          BY <1>2, HistoryHas DEF DownloaderTyped
        <5>6. \A t, u \in history[s] : t < u => After(s, t) <= u
          BY <1>2, HistoryHas DEF DownloaderTyped
        <5>7. ASSUME NEW t \in closed, NEW u \in history[s], start <= u, u < t
              PROVE  u \in closed
          <6>1. t \in history[s] /\ After(s, t) <= end /\ After(s, t) <= time
            BY <1>4, <5>4 DEF ClosedOf
          <6>2. After(s, u) <= t
            BY <5>6, <5>7, <6>1
          <6>3. After(s, u) <= end /\ After(s, u) <= time
            BY <5>4, <5>5, <6>1, <6>2
          <6> QED
            BY <1>4, <5>4, <5>7, <6>3 DEF ClosedOf
        <5> QED
          BY <1>1, <5>1, <5>2, <5>3, <5>4, <5>7 DEF Beginning
      <4>2. file'[s].opens \subseteq history'[s] /\ file'[s].opens # {} /\ file'[s].of # {}
        BY <1>1, <1>5, <1>11, <2>7
      <4> QED
        BY <3>1, <4>1, <4>2 DEF SoundFile
    <3>2. CASE z # s
      <4>1. SoundFile(z) /\ file'[z] = file[z] /\ history' = history
        BY <1>1, <2>7, <3>2
      <4>2. ASSUME NEW request \in Requests, Beginning(z, request, Known, file[z].opens)
            PROVE  Beginning(z, request, Known, file[z].opens)'
        BY <2>6, <4>1, <4>2 DEF Beginning, ClosedOf
      <4> QED
        BY <4>1, <4>2 DEF SoundFile
    <3> QED
      BY <3>1, <3>2
  <2>10. SoundRun'
    <3>1. Past' = Past \union {s}
      BY <1>1, <1>3, <2>2 DEF Past
    <3>2. /\ DOMAIN new = DOMAIN run.collected \union {s} /\ new[s] = held.opens
          /\ \A z \in DOMAIN run.collected : z # s => new[z] = run.collected[z]
      BY DEF new
    <3>3. SoundSlice(s)'
      <4>1. ClosedOf(s, run.request, run.serverTime)' = closed
        BY <1>1, <1>4, <2>2 DEF ClosedOf
      <4> QED
        BY <1>5, <1>11, <2>2, <2>7, <3>2, <4>1 DEF SoundSlice
    <3>4. ASSUME NEW z \in Past PROVE SoundSlice(z)'
      <4>1. z \in 1..Slices /\ z # s /\ SoundSlice(z)
        BY <1>2, <1>9 DEF SoundRun, Past
      <4>2. ClosedOf(z, run.request, run.serverTime)' = ClosedOf(z, run.request, run.serverTime)
        BY <1>1, <2>2 DEF ClosedOf
      <4>3. z \in DOMAIN run'.collected <=> z \in DOMAIN run.collected
        BY <2>2, <3>2, <4>1
      <4> QED
        BY <2>2, <2>7, <3>2, <4>1, <4>2, <4>3 DEF SoundSlice
    <3>5. DOMAIN run'.collected \subseteq Past'
      BY <1>9, <2>2, <3>1, <3>2
    <3> QED
      BY <1>1, <3>1, <3>3, <3>4, <3>5 DEF SoundRun
  <2> QED
    BY <1>1, <1>8, <2>5, <2>9, <2>10
<1> QED
  BY <1>10, <1>11

LEMMA RecordProgressKeeps == ASSUME DownloaderInv, RecordProgress PROVE DownloaderInv'
<1> USE DEF DownloaderInv
<1>1. /\ at = "record" /\ UNCHANGED <<history, server, file>>
      /\ manifest' = Manifest(OutputFiles(run.collected), "incomplete", FALSE)
  BY DEF RecordProgress, remote
<1>2. DownloaderTyped /\ SoundRun
  BY <1>1 DEF Fetching
<1>3. ~Complete'
  BY <1>1 DEF Complete, Manifest
<1>4. \A z \in 1..Slices : Histories(z)' = Histories(z)
  BY DEF Histories
<1>5. Known = run.serverTime /\ Known \in Nat
  BY <1>1, KnownTyped DEF Known, Fetching
<1>6. PICK s \in 1..Slices : s = run.slice
  BY <1>2 DEF DownloaderTyped
<1>7. CASE s < Slices
  <2>1. run' = [run EXCEPT !.slice = s + 1] /\ BeginSlice(s + 1) /\ at' = "page"
    BY <1>6, <1>7 DEF RecordProgress
  <2>2. PICK z \in 1..Slices : z = s + 1
    BY <1>7
  <2>3. /\ run'.slice = z /\ run'.request = run.request /\ run'.serverTime = run.serverTime
        /\ run'.collected = run.collected
    BY <1>2, <2>1, <2>2 DEF DownloaderTyped
  <2>4. /\ held' \in [opens : SUBSET Opens, of : SUBSET Requests] /\ cursor' \in Nat
        /\ held'.opens \subseteq history[z] /\ (held'.opens = {} => held'.of = {})
        /\ run.request.start <= cursor'
        /\ held'.of \subseteq {run.request} =>
             /\ held'.opens \subseteq ClosedOf(z, run.request, Known)
             /\ \A u \in history[z] :
                   run.request.start <= u /\ u < cursor' => u \in held'.opens
    BY <2>1, <2>2, RowsAtFirst
  <2>5. DownloaderTyped'
    <3>1. run' \in [request : Requests, resume : BOOLEAN, slice : 1..Slices,
                    serverTime : 0..Horizon, collected : Collections]
      BY <1>2, <2>1, <2>2 DEF DownloaderTyped
    <3> QED
      BY <1>1, <1>2, <1>4, <2>1, <2>3, <2>4, <3>1 DEF DownloaderTyped
  <2>6. Known' = Known
    BY <1>5, <2>1, <2>3 DEF Known, Fetching
  <2>7. \A y \in 1..Slices : SoundFile(y)'
    BY <1>1, <1>5, <2>5, <2>6, FilesStaySound
  <2>8. SoundRows'
    <3>1. ClosedOf(z, run.request, Known) =
            {t \in history'[z] : /\ run'.request.start <= t /\ After(z, t) <= run'.request.end
                                 /\ After(z, t) <= run'.serverTime}
      BY <1>1, <1>5, <2>3 DEF ClosedOf
    <3> QED
      BY <1>1, <2>1, <2>3, <2>4, <3>1 DEF SoundRows, ClosedOf
  <2>9. SoundRun'
    <3>1. Past' = Past
      BY <1>1, <1>6, <2>1, <2>2, <2>3 DEF Past
    <3>2. ASSUME NEW y \in 1..Slices, SoundSlice(y) PROVE SoundSlice(y)'
      BY <1>1, <2>3, <3>2 DEF SoundSlice, ClosedOf
    <3> QED
      BY <1>2, <2>1, <2>3, <3>1, <3>2 DEF SoundRun, Past
  <2> QED
    BY <1>3, <2>1, <2>5, <2>7, <2>8, <2>9
<1>8. CASE ~(s < Slices)
  <2>1. at' = "finish" /\ UNCHANGED <<run, cursor, held>> /\ s = Slices
    BY <1>6, <1>8 DEF RecordProgress
  <2>2. DownloaderTyped'
    BY <1>1, <1>2, <1>4, <2>1 DEF DownloaderTyped
  <2>3. Known' = Known
    BY <1>1, <2>1 DEF Known, Fetching
  <2>4. \A y \in 1..Slices : SoundFile(y)'
    BY <1>1, <1>5, <2>2, <2>3, FilesStaySound
  <2>5. Past' = Past
    BY <1>1, <2>1 DEF Past
  <2>6. SoundRun'
    BY <1>1, <1>6, <2>1, <2>5, PastStays DEF Fetching
  <2> QED
    BY <1>3, <2>1, <2>2, <2>4, <2>6
<1> QED
  BY <1>7, <1>8

\* The manifest that says complete is written when every slice is past.
LEMMA FinishKeeps == ASSUME DownloaderInv, Finish PROVE DownloaderInv'
<1> USE DEF DownloaderInv
<1>1. /\ at = "finish" /\ Return /\ UNCHANGED <<history, server, file>>
      /\ manifest' = Manifest(OutputFiles(run.collected), "complete", FALSE)
  BY DEF Finish, remote
<1>2. /\ manifest'.files = OutputFiles(run.collected) /\ manifest'.request = run.request
      /\ manifest'.serverTime = run.serverTime
  BY <1>1 DEF Manifest
<1>3. SoundRun /\ Past = 1..Slices
  BY <1>1 DEF Fetching, SoundRun, Past
<1>4. ASSUME NEW s \in 1..Slices
      PROVE LET closed == ClosedOf(s, manifest.request, manifest.serverTime)'
            IN  IF s \in DOMAIN manifest'.files
                THEN /\ manifest'.files[s] = FileInfo(s, file'[s].opens) /\ file'[s].opens # {}
                     /\ file'[s].of \subseteq {manifest'.request} => file'[s].opens = closed
                ELSE closed = {}
  <2>1. SoundSlice(s)
    BY <1>3 DEF SoundRun
  <2>2. ClosedOf(s, manifest.request, manifest.serverTime)' =
          ClosedOf(s, run.request, run.serverTime)
    BY <1>1, <1>2 DEF ClosedOf
  <2>3. /\ DOMAIN manifest'.files = DOMAIN run.collected
        /\ s \in DOMAIN run.collected => manifest'.files[s] = FileInfo(s, run.collected[s])
    BY <1>2 DEF OutputFiles
  <2> QED
    BY <1>1, <1>2, <2>1, <2>2, <2>3 DEF SoundSlice
<1>5. SoundArchive'
  <2>1. at' = "idle"
    BY <1>1 DEF Return
  <2>2. \A s \in 1..Slices : FileInfo(s, file[s].opens)' = FileInfo(s, file'[s].opens)
    BY DEF FileInfo
  <2>3. PICK m : m = manifest'
    OBVIOUS
  <2>4. PICK files : files = OutputFiles(run.collected)
    OBVIOUS
  <2>5. m.request \in Requests /\ DOMAIN m.files \subseteq 1..Slices
    BY <1>2, <1>3, <2>3 DEF DownloaderTyped, OutputFiles, SoundRun
  <2>6. /\ m.failed = FALSE /\ m.files = files /\ m.count = RecordCount(files)
        /\ m.actual = IF DOMAIN files = {} THEN <<>>
                      ELSE <<files[Min(DOMAIN files)].first, files[Max(DOMAIN files)].end>>
    BY <1>1, <2>3, <2>4 DEF Manifest
  <2>7. Agrees(m)
    BY <2>5, <2>6 DEF Agrees, ActualContract
  <2> QED
    BY <1>4, <2>1, <2>2, <2>3, <2>7 DEF SoundArchive
<1> QED
  BY <1>1, <1>5, ReturnKeeps

\* A run that gives up, at once or in an orderly way.
LEMMA GivingUpKeeps ==
    ASSUME DownloaderInv,
           RequestFails \/ WriteFileFails \/ RecordFailure \/ WriteManifestFails \/ CrashDownload
    PROVE  DownloaderInv'
<1> USE DEF DownloaderInv
<1>1. CASE RequestFails \/ WriteFileFails
  <2>1. /\ at \in {"time", "page", "write"} /\ at' = "abort"
        /\ UNCHANGED <<history, server, file, manifest, run, cursor, held>>
    BY <1>1 DEF RequestFails, WriteFileFails, Requesting, remote, disk, locals
  <2>2. DownloaderTyped'
    <3>1. \A z \in 1..Slices : Histories(z)' = Histories(z)
      BY DEF Histories
    <3> QED
      BY <2>1, <3>1 DEF DownloaderTyped
  <2>3. Known' = server
    BY <2>1 DEF Known, Fetching
  <2>4. \A s \in 1..Slices : SoundFile(s)'
    BY <2>1, <2>2, <2>3, KnownTyped, FilesStaySound
  <2>5. ~Complete'
    BY <2>1 DEF Complete, SoundArchive
  <2> QED
    BY <2>1, <2>2, <2>4, <2>5 DEF Fetching
<1>2. CASE RecordFailure
  <2>1. /\ Return /\ UNCHANGED <<history, server, file>>
        /\ manifest' = Manifest(OutputFiles(run.collected), "incomplete", TRUE)
    BY <1>2 DEF RecordFailure, remote
  <2>2. ~Complete'
    BY <2>1 DEF Complete, Manifest
  <2> QED
    BY <2>1, <2>2, ReturnKeeps
<1>3. CASE WriteManifestFails \/ CrashDownload
  <2>1. at # "idle" /\ Return /\ UNCHANGED <<history, server, file, manifest>>
    BY <1>3 DEF WriteManifestFails, CrashDownload, remote, disk
  <2>2. ~Complete'
    BY <2>1 DEF Complete, SoundArchive
  <2> QED
    BY <2>1, <2>2, ReturnKeeps
<1> QED
  BY <1>1, <1>2, <1>3

LEMMA ExchangeAdvancesKeeps == ASSUME DownloaderInv, ExchangeAdvances PROVE DownloaderInv'
<1> USE DEF DownloaderInv
<1>1. /\ server < Horizon /\ server' = server + 1
      /\ UNCHANGED <<history, file, manifest, at, run, cursor, held>>
  BY DEF ExchangeAdvances, disk, locals
<1>2. server' \in 0..Horizon /\ server <= server' /\ run.serverTime <= server'
  BY <1>1 DEF DownloaderTyped
<1>3. DownloaderTyped'
  <2>1. \A z \in 1..Slices : Histories(z)' = Histories(z)
    BY DEF Histories
  <2> QED
    BY <1>1, <1>2, <2>1 DEF DownloaderTyped
<1>4. Known <= Known'
  <2>1. Known \in Nat
    BY KnownTyped
  <2> QED
    BY <1>1, <1>2, <2>1 DEF Known
<1>5. \A s \in 1..Slices : SoundFile(s)'
  BY <1>1, <1>3, <1>4, FilesStaySound
<1>6. ASSUME at \in {"page", "write"} PROVE SoundRows'
  BY <1>1, <1>6 DEF SoundRows, ClosedOf
<1>7. ASSUME at \in Fetching PROVE SoundRun'
  <2>1. Past' = Past
    BY <1>1 DEF Past
  <2>2. at = "finish" => run.slice = Slices
    BY <1>7 DEF SoundRun
  <2> QED
    BY <1>1, <1>7, <2>1, <2>2, PastStays
<1>8. ASSUME Complete PROVE SoundArchive'
  BY <1>1, <1>8 DEF SoundArchive, ClosedOf, FileInfo
<1> QED
  BY <1>1, <1>3, <1>5, <1>6, <1>7, <1>8 DEF Complete

-----------------------------------------------------------------------------
(* The downloader in the archive *)

LEMMA DownloaderStep == ASSUME DownloaderInv, [Next]_vars PROVE DownloaderInv'
<1>1. CASE AnyStart
  BY <1>1, StartKeeps DEF AnyStart
<1>2. CASE DownloadStep
  BY <1>2, ReceiveTimeKeeps, ReceivePageKeeps, RangeFetchedKeeps, WriteFileKeeps,
     RecordProgressKeeps, GivingUpKeeps, FinishKeeps DEF DownloadStep
<1>3. CASE RequestBlocked \/ RequestRetried
  <2>1. UNCHANGED DownloaderState
    BY <1>3 DEF RequestBlocked, RequestRetried, DownloaderState, remote, disk
  <2> QED
    BY <2>1, DownloaderKept
<1>4. CASE RequestFails \/ WriteFileFails \/ WriteManifestFails \/ CrashDownload
  BY <1>4, GivingUpKeeps
<1>5. CASE ExchangeAdvances
  BY <1>5, ExchangeAdvancesKeeps
<1>6. CASE Converting \/ ConvertFails \/ UNCHANGED vars
  <2>1. UNCHANGED DownloaderState
    BY <1>6 DEF Converting, Plan, OpenItem, Convert, FinishItem, BuildManifest, ConvertFails,
                vars, downloaderVars, remote, disk, locals, DownloaderState
  <2> QED
    BY <2>1, DownloaderKept
<1> QED
  BY <1>1, <1>2, <1>3, <1>4, <1>5, <1>6 DEF Next, Downloading, Elsewhere, DownloadFault

THEOREM DownloaderInvariance == Spec => []DownloaderInv
<1>1. Init => DownloaderInv
  BY DownloaderStart DEF Init
<1>2. DownloaderInv /\ [Next]_vars => DownloaderInv'
  BY DownloaderStep
<1> QED
  BY <1>1, <1>2, PTL DEF Spec

\* A manifest that says complete lists exactly the slices with closed klines
\* in its range, and their files hold exactly these, whatever runs failed,
\* crashed and resumed before, unless a resumed run took over klines of
\* another request: download() and what it calls.
THEOREM CompleteArchiveIsExact == Spec => []CompleteIsExact
<1>1. DownloaderInv => CompleteIsExact
  <2> SUFFICES ASSUME DownloaderInv, Complete, Unmixed, NEW s \in 1..Slices
               PROVE  LET closed == ClosedOf(s, manifest.request, manifest.serverTime)
                      IN  /\ s \in DOMAIN manifest.files <=> closed # {}
                          /\ s \in DOMAIN manifest.files =>
                               file[s].opens = closed /\ manifest.files[s] = FileInfo(s, closed)
    BY DEF CompleteIsExact, Exact
  <2> QED
    BY DEF DownloaderInv, SoundArchive, Unmixed
<1> QED
  BY <1>1, DownloaderInvariance, PTL

-----------------------------------------------------------------------------
(* Sets of numbers in their order *)

InOrderOf(f, S) ==
    /\ f \in [1..Cardinality(S) -> S]
    /\ \A i, j \in 1..Cardinality(S) : i < j => f[i] < f[j]

LEMMA BoundedIsFinite ==
    ASSUME NEW n \in Nat, NEW S \in SUBSET (0..n)
    PROVE  IsFiniteSet(S) /\ Cardinality(S) \in Nat /\ S \subseteq Nat
<1>1. IsFiniteSet(0..n) /\ 0..n \subseteq Nat
  BY FS_Interval
<1> QED
  BY <1>1, FS_Subset, FS_CardinalityType

\* Who lists as many as there are in their order lists all.
LEMMA OrderListsAll ==
    ASSUME NEW n \in Nat, NEW S \in SUBSET (0..n), NEW f, InOrderOf(f, S)
    PROVE  \A x \in S : \E i \in 1..Cardinality(S) : f[i] = x
<1>1. IsFiniteSet(S) /\ Cardinality(S) \in Nat /\ S \subseteq Nat
  BY BoundedIsFinite
<1>2. PICK m \in Nat : m = Cardinality(S)
  BY <1>1
<1>3. IsFiniteSet(1..m) /\ Cardinality(1..m) = m
  BY <1>2, FS_Interval
<1>4. f \in Injection(1..m, S)
  <2>1. f \in [1..m -> S] /\ \A i, j \in 1..m : i < j => f[i] < f[j]
    BY <1>2 DEF InOrderOf
  <2>2. ASSUME NEW i \in 1..m, NEW j \in 1..m, f[i] = f[j] PROVE i = j
    <3>1. f[i] \in Nat /\ f[j] \in Nat
      BY <1>1, <2>1
    <3>2. ~(f[i] < f[j]) /\ ~(f[j] < f[i])
      BY <2>2, <3>1
    <3>3. ~(i < j) /\ ~(j < i)
      BY <2>1, <3>2
    <3> QED
      BY <3>3
  <2> QED
    BY <2>1, <2>2 DEF Injection, IsInjective
<1>5. f \in Surjection(1..m, S)
  BY <1>1, <1>2, <1>3, <1>4, FS_Injection
<1> QED
  BY <1>2, <1>5 DEF Surjection

\* Every bounded set has an order: by the least size of one that has none.
LEMMA OrderExists ==
    ASSUME NEW n \in Nat
    PROVE  \A S \in SUBSET (0..n) : \E f : InOrderOf(f, S)
<1> DEFINE sizes == {Cardinality(S) : S \in {T \in SUBSET (0..n) : ~\E f : InOrderOf(f, T)}}
<1> SUFFICES ASSUME sizes # {} PROVE FALSE
  OBVIOUS
<1>1. sizes \subseteq Nat
  <2>1. \A S \in SUBSET (0..n) : Cardinality(S) \in Nat
    BY BoundedIsFinite
  <2> QED
    BY <2>1
<1>2. PICK m \in sizes : \A k \in sizes : m <= k
  <2> HIDE DEF sizes
  <2> QED
    BY <1>1, MinOf
<1>3. PICK S \in SUBSET (0..n) : m = Cardinality(S) /\ ~\E f : InOrderOf(f, S)
  OBVIOUS
<1>4. m \in Nat /\ IsFiniteSet(S) /\ S \subseteq Nat
  BY <1>3, BoundedIsFinite
<1>5. S # {}
  <2> SUFFICES ASSUME S = {} PROVE FALSE
    OBVIOUS
  <2>1. Cardinality(S) = 0
    BY FS_EmptySet
  <2>2. InOrderOf([i \in 1..0 |-> 0], S)
    BY <2>1 DEF InOrderOf
  <2> QED
    BY <1>3, <2>2
<1>6. PICK x \in S : \A k \in S : k <= x
  BY <1>5, MaxOf
<1> DEFINE T == S \ {x}
<1>7. Cardinality(T) = m - 1 /\ Cardinality(T) \in Nat /\ T \in SUBSET (0..n)
  <2>1. T \in SUBSET (0..n) /\ Cardinality(T) \in Nat
    BY BoundedIsFinite
  <2> QED
    BY <1>3, <1>4, <2>1, FS_RemoveElement
<1>8. PICK f : InOrderOf(f, T)
  <2> SUFFICES ASSUME ~\E f : InOrderOf(f, T) PROVE FALSE
    OBVIOUS
  <2>1. Cardinality(T) \in sizes
    BY <1>7
  <2>2. m <= Cardinality(T)
    BY <1>2, <2>1
  <2> QED
    BY <1>4, <1>7, <2>2
<1> DEFINE g == [i \in 1..m |-> IF i = m THEN x ELSE f[i]]
<1>9. f \in [1..(m - 1) -> T] /\ \A i, j \in 1..(m - 1) : i < j => f[i] < f[j]
  BY <1>7, <1>8 DEF InOrderOf
<1>10. g \in [1..m -> S]
  <2> SUFFICES ASSUME NEW i \in 1..m PROVE g[i] \in S
    OBVIOUS
  <2>1. i = m \/ i \in 1..(m - 1)
    BY <1>4
  <2> QED
    BY <1>9, <2>1
<1>11. ASSUME NEW i \in 1..m, NEW j \in 1..m, i < j PROVE g[i] < g[j]
  <2>1. i \in 1..(m - 1) /\ g[i] = f[i] /\ f[i] \in T
    BY <1>4, <1>9, <1>11
  <2>2. CASE j = m
    <3>1. f[i] <= x /\ f[i] # x /\ f[i] \in Nat /\ x \in Nat
      BY <1>4, <1>6, <2>1
    <3> QED
      BY <2>1, <2>2, <3>1
  <2>3. CASE j # m
    <3>1. j \in 1..(m - 1) /\ g[j] = f[j]
      BY <1>4, <2>3
    <3> QED
      BY <1>9, <1>11, <2>1, <3>1
  <2> QED
    BY <2>2, <2>3
<1>12. InOrderOf(g, S)
  BY <1>3, <1>10, <1>11 DEF InOrderOf
<1> QED
  BY <1>3, <1>12

LEMMA AscendingOrders ==
    ASSUME NEW n \in Nat, NEW S \in SUBSET (0..n)
    PROVE  InOrderOf(Ascending(S), S)
<1>1. \E f \in [1..Cardinality(S) -> S] :
         \A i, j \in 1..Cardinality(S) : i < j => f[i] < f[j]
  BY OrderExists DEF InOrderOf
<1> QED
  BY <1>1 DEF Ascending, InOrderOf

\* There is only one order.
LEMMA OrderIsOne ==
    ASSUME NEW n \in Nat, NEW S \in SUBSET (0..n), NEW f, NEW g,
           InOrderOf(f, S), InOrderOf(g, S)
    PROVE  f = g
<1>1. PICK m \in Nat : m = Cardinality(S)
  BY BoundedIsFinite
<1>2. /\ f \in [1..m -> S] /\ \A i, j \in 1..m : i < j => f[i] < f[j]
      /\ g \in [1..m -> S] /\ \A i, j \in 1..m : i < j => g[i] < g[j]
      /\ \A x \in S : \E i \in 1..m : f[i] = x
      /\ \A x \in S : \E i \in 1..m : g[i] = x
      /\ S \subseteq Nat
  <2>1. /\ \A x \in S : \E i \in 1..m : f[i] = x
        /\ \A x \in S : \E i \in 1..m : g[i] = x
    <3>1. \A x \in S : \E i \in 1..Cardinality(S) : f[i] = x
      BY OrderListsAll
    <3>2. \A x \in S : \E i \in 1..Cardinality(S) : g[i] = x
      BY OrderListsAll
    <3> QED
      BY <1>1, <3>1, <3>2
  <2> QED
    BY <1>1, <2>1 DEF InOrderOf
<1> DEFINE differ == {i \in 1..m : f[i] # g[i]}
<1> SUFFICES ASSUME differ # {} PROVE FALSE
  BY <1>2
<1>3. PICK k \in differ : \A i \in differ : k <= i
  <2>1. differ \subseteq Nat
    OBVIOUS
  <2> HIDE DEF differ
  <2> QED
    BY <2>1, MinOf
<1>4. k \in 1..m /\ f[k] # g[k] /\ f[k] \in S /\ g[k] \in S /\ f[k] \in Nat /\ g[k] \in Nat
  BY <1>2
<1>5. \A i \in 1..m : i < k => f[i] = g[i]
  <2> SUFFICES ASSUME NEW i \in 1..m, i < k, f[i] # g[i] PROVE FALSE
    OBVIOUS
  <2>1. k <= i
    BY <1>3
  <2> QED
    BY <1>4, <2>1
<1>6. CASE f[k] < g[k]
  <2>1. PICK i \in 1..m : g[i] = f[k]
    BY <1>2, <1>4
  <2>2. ~(k < i) /\ i # k
    <3>1. k < i => g[k] < g[i]
      BY <1>2, <1>4
    <3> QED
      BY <1>4, <1>6, <2>1, <3>1
  <2>3. i < k
    BY <1>4, <2>2
  <2>4. f[i] = f[k] /\ f[i] < f[k]
    BY <1>2, <1>4, <1>5, <2>1, <2>3
  <2> QED
    BY <1>4, <2>4
<1>7. CASE g[k] < f[k]
  <2>1. PICK i \in 1..m : f[i] = g[k]
    BY <1>2, <1>4
  <2>2. ~(k < i) /\ i # k
    <3>1. k < i => f[k] < f[i]
      BY <1>2, <1>4
    <3> QED
      BY <1>4, <1>7, <2>1, <3>1
  <2>3. i < k
    BY <1>4, <2>2
  <2>4. g[i] = g[k] /\ g[i] < g[k]
    BY <1>2, <1>4, <1>5, <2>1, <2>3
  <2> QED
    BY <1>4, <2>4
<1> QED
  BY <1>4, <1>6, <1>7

OrderGoesOn(S, T, x) ==
    \E m \in Nat :
       /\ DOMAIN Ascending(S) = 1..m /\ DOMAIN Ascending(T) = 1..(m + 1)
       /\ Ascending(T)[m + 1] = x
       /\ \A i \in 1..m : Ascending(T)[i] = Ascending(S)[i]

\* A greater member comes last.
LEMMA GreatestComesLast ==
    ASSUME NEW n \in Nat, NEW S \in SUBSET (0..n), NEW x \in 0..n, \A k \in S : k < x,
           NEW T, T = S \union {x}
    PROVE  OrderGoesOn(S, T, x)
<1>1. IsFiniteSet(S) /\ Cardinality(S) \in Nat /\ S \subseteq Nat
  BY BoundedIsFinite
<1>2. PICK m \in Nat : m = Cardinality(S)
  BY <1>1
<1>3. T \in SUBSET (0..n)
  OBVIOUS
<1>4. Cardinality(T) = m + 1
  <2>1. x \notin S
    BY <1>1
  <2> QED
    BY <1>1, <1>2, <1>3, <2>1, FS_AddElement
<1>5. PICK f : f = Ascending(S) /\ InOrderOf(f, S)
  BY AscendingOrders
<1>6. f \in [1..m -> S] /\ \A i, j \in 1..m : i < j => f[i] < f[j]
  BY <1>2, <1>5 DEF InOrderOf
<1> DEFINE g == [i \in 1..(m + 1) |-> IF i = m + 1 THEN x ELSE f[i]]
<1>7. g \in [1..(m + 1) -> T]
  <2> SUFFICES ASSUME NEW i \in 1..(m + 1) PROVE g[i] \in T
    OBVIOUS
  <2>1. i = m + 1 \/ i \in 1..m
    OBVIOUS
  <2> QED
    BY <1>3, <1>6, <2>1
<1>8. ASSUME NEW i \in 1..(m + 1), NEW j \in 1..(m + 1), i < j PROVE g[i] < g[j]
  <2>1. i \in 1..m /\ g[i] = f[i] /\ f[i] \in S
    BY <1>6, <1>8
  <2>2. CASE j = m + 1
    BY <2>1, <2>2
  <2>3. CASE j # m + 1
    <3>1. j \in 1..m /\ g[j] = f[j]
      BY <2>3
    <3> QED
      BY <1>6, <1>8, <2>1, <3>1
  <2> QED
    BY <2>2, <2>3
<1>9. InOrderOf(g, T)
  BY <1>4, <1>7, <1>8 DEF InOrderOf
<1>10. g = Ascending(T)
  <2>1. PICK h : h = Ascending(T) /\ InOrderOf(h, T)
    BY <1>3, AscendingOrders
  <2> HIDE DEF g
  <2> QED
    BY <1>3, <1>9, <2>1, OrderIsOne
<1>12. DOMAIN g = 1..(m + 1) /\ g[m + 1] = x /\ \A i \in 1..m : g[i] = f[i]
  OBVIOUS
<1> HIDE DEF g
<1>13. DOMAIN f = 1..m
  BY <1>6
<1> QED
  BY <1>2, <1>5, <1>10, <1>12, <1>13 DEF OrderGoesOn

-----------------------------------------------------------------------------
(* The invariant of the conversion *)

LineShape(line) ==
    /\ line = [form |-> line.form, slice |-> line.slice, open |-> line.open,
               close |-> line.close, row |-> line.row, size |-> line.size, ended |-> line.ended]
    /\ line.form \in {"bytes", "text", "JSON", "envelope"} /\ line.size \in Nat
IsLines(lines) ==
    /\ lines \in Seq({lines[i] : i \in DOMAIN lines})
    /\ \A i \in DOMAIN lines : LineShape(lines[i])

Verdicts == {"invalid_utf8", "malformed_json", "invalid_envelope", "invalid_candle",
             "out_of_range", "ordering_violation", "line_too_large", "candle"}

Reports == [seen : Nat, written : Nat, quarantined : Nat, first : Nat, end : Nat, previous : Nat]
Outputs == [research : Seq(Nat), failures : Seq(Nat \X Verdicts), units : Nat]
Pendings == [to : Verdicts \union {"none"}, left : Nat, chunk : Nat]

StreamTyped ==
    /\ IsLines(raw)
    /\ context.range.start \in Nat /\ context.range.end \in Nat
    /\ step \in {"none", "read", "drain", "write", "reported", "failed"}
    /\ report \in Reports
    /\ output \in Outputs
    /\ pending \in Pendings

\* The lines that have been dealt with, and those of them that become candles.
Dealt == IF step \in {"read", "reported"} THEN report.seen ELSE report.seen - 1
Found(n) == {i \in Candles : i <= n}

\* What is in the files: the candles in their order and the other lines.
Written ==
    LET found == Ascending(Found(Dealt))
    IN  /\ output.research = [k \in DOMAIN found |-> raw[found[k]].open]
        /\ {output.failures[k][1] : k \in DOMAIN output.failures} = (1..Dealt) \ Candles

\* All lines have been written to the last unit.
WholeUnits ==
    output.units = Dealt * OutputUnits
                     + IF step = "write" THEN OutputUnits - pending.left ELSE 0

\* The counters are those of the files.
CountedAsWritten ==
    /\ report.written = Len(output.research) /\ report.quarantined = Len(output.failures)
    /\ report.written + report.quarantined = Dealt

\* The last candle opens latest of all lines that fit; the coverage is in range.
Covered ==
    /\ \A j \in 1..Dealt :
          Fits(raw[j]) => report.written > 0 /\ raw[j].open <= report.previous
    /\ IF report.written = 0 THEN report.first = 0 /\ report.end = 0
       ELSE /\ \E j \in Found(Dealt) : raw[j].open = report.previous
            /\ context.range.start <= report.first /\ report.first < report.end
            /\ report.end <= context.range.end

\* What the conversion is about to do with the line it has read.
Underway ==
    /\ report.seen <= Len(raw)
    /\ step \in {"drain", "write"} => report.seen > 0
    /\ step = "drain" => raw[report.seen].size > MaxLine
    /\ step = "write" =>
         /\ pending.to \in Verdicts /\ (pending.to = "candle" <=> report.seen \in Candles)
         /\ pending.left \in 1..OutputUnits
    /\ step = "reported" => report.seen = Len(raw)

StreamInv ==
    /\ StreamTyped
    /\ step \in {"read", "drain", "write", "reported"} =>
         Written /\ WholeUnits /\ CountedAsWritten /\ Covered /\ Underway

Running == {"read", "drain", "write", "reported"}

LEMMA FittingLines ==
    ASSUME NEW line, Fits(line)
    PROVE  /\ line.open \in Nat /\ line.close \in Nat /\ line.open < line.close
           /\ context.range.start <= line.open /\ line.close <= context.range.end
           /\ line.size <= MaxLine
<1>1. HasBoundary(line.row.open, context.interval)
      /\ line.row.close = Boundary(line.row.open, context.interval)
  BY DEF Fits, Convertible, Bounded
<1>2. line.open = line.row.open /\ line.close = line.row.close
  BY DEF Fits, RecordLine, Line
<1> QED
  BY <1>1, <1>2, BoundaryFollows DEF Fits, InRange

\* A line fits if it is the record of a sound row of its file and in range.
LEMMA FitsIs ==
    ASSUME NEW line, LineShape(line), line.size <= MaxLine
    PROVE  Fits(line) <=> /\ line.form = "envelope" /\ line.slice = context.slice
                          /\ Convertible(line.row, context.interval)
                          /\ line.open = line.row.open /\ line.close = line.row.close
                          /\ InRange(line)
<1>1. ASSUME line.form = "envelope", line.slice = context.slice,
             Convertible(line.row, context.interval),
             line.open = line.row.open, line.close = line.row.close, InRange(line)
      PROVE  Fits(line)
  <2>1. line = [RecordLine(context.slice, line.row) EXCEPT !.size = line.size, !.ended = line.ended]
    <3>1. [RecordLine(context.slice, line.row) EXCEPT !.size = line.size, !.ended = line.ended]
            = [form |-> "envelope", slice |-> context.slice, open |-> line.row.open,
               close |-> line.row.close, row |-> line.row, size |-> line.size,
               ended |-> line.ended]
      <4>1. PICK yes, slice, open, close, row, size, ended :
               /\ yes = TRUE /\ slice = context.slice /\ open = line.row.open
               /\ close = line.row.close /\ row = line.row /\ size = line.size
               /\ ended = line.ended
        OBVIOUS
      <4>2. PICK form : form = "envelope"
        OBVIOUS
      <4>3. RecordLine(context.slice, line.row)
              = [form |-> form, slice |-> slice, open |-> open, close |-> close,
                 row |-> row, size |-> 1, ended |-> yes]
        BY <4>1, <4>2 DEF RecordLine, Line
      <4>4. [[form |-> form, slice |-> slice, open |-> open, close |-> close, row |-> row,
              size |-> 1, ended |-> yes] EXCEPT !.size = size]
              = [form |-> form, slice |-> slice, open |-> open, close |-> close,
                 row |-> row, size |-> size, ended |-> yes]
        OBVIOUS
      <4>5. [[form |-> form, slice |-> slice, open |-> open, close |-> close, row |-> row,
              size |-> size, ended |-> yes] EXCEPT !.ended = ended]
              = [form |-> form, slice |-> slice, open |-> open, close |-> close,
                 row |-> row, size |-> size, ended |-> ended]
        OBVIOUS
      <4> QED
        BY <4>1, <4>2, <4>3, <4>4, <4>5
    <3>2. line = [form |-> line.form, slice |-> line.slice, open |-> line.open,
                  close |-> line.close, row |-> line.row, size |-> line.size,
                  ended |-> line.ended]
      BY DEF LineShape
    <3>3. /\ line.form = "envelope" /\ line.slice = context.slice
          /\ line.open = line.row.open /\ line.close = line.row.close
      BY <1>1
    <3> QED
      BY <3>1, <3>2, <3>3
  <2> QED
    BY <1>1, <2>1 DEF Fits
<1>2. ASSUME Fits(line)
      PROVE  /\ line.form = "envelope" /\ line.slice = context.slice
             /\ Convertible(line.row, context.interval)
             /\ line.open = line.row.open /\ line.close = line.row.close
             /\ InRange(line)
  <2>1. line = [RecordLine(context.slice, line.row) EXCEPT !.size = line.size, !.ended = line.ended]
    BY <1>2 DEF Fits
  <2>2. line.form = "envelope" /\ line.slice = context.slice
        /\ line.open = line.row.open /\ line.close = line.row.close
    BY <2>1 DEF RecordLine, Line
  <2> QED
    BY <1>2, <2>2 DEF Fits
<1> QED
  BY <1>1, <1>2

\* The verdict on a line that is not too large.
LEMMA VerdictIs ==
    ASSUME NEW line, LineShape(line), line.size <= MaxLine
    PROVE  /\ Verdict(line) \in Verdicts
           /\ Verdict(line) = "candle" <=> Fits(line) /\ InOrder(line)
<1> DEFINE failure == Failure(line, context.slice, context.interval)
<1>1. /\ failure \in {"invalid_utf8", "malformed_json", "invalid_envelope", "invalid_candle", "none"}
      /\ failure = "none" <=>
           /\ line.form = "envelope" /\ line.slice = context.slice
           /\ Convertible(line.row, context.interval)
           /\ line.open = line.row.open /\ line.close = line.row.close
  BY DEF Failure, LineShape
<1>2. failure = "none" /\ InRange(line) <=> Fits(line)
  BY <1>1, FitsIs
<1> HIDE DEF failure
<1>3. Verdict(line) = CASE failure # "none" -> failure
                        [] failure = "none" /\ ~InRange(line) -> "out_of_range"
                        [] failure = "none" /\ InRange(line) /\ ~InOrder(line) -> "ordering_violation"
                        [] OTHER -> "candle"
  BY DEF Verdict, failure
<1>4. CASE failure # "none"
  <2>1. Verdict(line) = failure
    BY <1>3, <1>4
  <2>2. Verdict(line) \in Verdicts /\ Verdict(line) # "candle"
    BY <1>1, <1>4, <2>1 DEF Verdicts
  <2> QED
    BY <1>2, <1>4, <2>2
<1>5. CASE failure = "none" /\ ~InRange(line)
  <2>1. Verdict(line) = "out_of_range"
    BY <1>3, <1>5
  <2>2. Verdict(line) \in Verdicts /\ Verdict(line) # "candle"
    BY <2>1 DEF Verdicts
  <2> QED
    BY <1>2, <1>5, <2>2
<1>6. CASE failure = "none" /\ InRange(line) /\ ~InOrder(line)
  <2>1. Verdict(line) = "ordering_violation"
    BY <1>3, <1>6
  <2>2. Verdict(line) \in Verdicts /\ Verdict(line) # "candle"
    BY <2>1 DEF Verdicts
  <2> QED
    BY <1>2, <1>6, <2>2
<1>7. CASE failure = "none" /\ InRange(line) /\ InOrder(line)
  <2>1. Verdict(line) = "candle"
    BY <1>3, <1>7
  <2>2. Verdict(line) \in Verdicts
    BY <2>1 DEF Verdicts
  <2> QED
    BY <1>2, <1>7, <2>1, <2>2
<1> QED
  BY <1>4, <1>5, <1>6, <1>7

\* The places of the candles.
LEMMA Places ==
    ASSUME StreamTyped
    PROVE  /\ Len(raw) \in Nat /\ DOMAIN raw = 1..Len(raw)
           /\ \A i \in 1..Len(raw) : LineShape(raw[i])
           /\ \A n : Found(n) \in SUBSET (0..Len(raw))
           /\ \A i \in Candles : i \in 1..Len(raw) /\ Fits(raw[i])
<1>1. Len(raw) \in Nat /\ DOMAIN raw = 1..Len(raw)
  BY DEF StreamTyped, IsLines
<1>2. Candles \subseteq 1..Len(raw)
  BY <1>1 DEF Candles
<1>3. \A n : Found(n) \in SUBSET (0..Len(raw))
  <2> TAKE n
  <2>1. Found(n) \subseteq Candles
    BY DEF Found
  <2>2. Candles \subseteq 0..Len(raw)
    BY <1>1, <1>2
  <2> QED
    BY <2>1, <2>2
<1> QED
  BY <1>1, <1>2, <1>3 DEF StreamTyped, IsLines, Candles

LEMMA SameLines ==
    ASSUME UNCHANGED <<raw, context>>
    PROVE  /\ Candles' = Candles /\ \A n : Found(n)' = Found(n)
           /\ \A i : Fits(raw[i])' <=> Fits(raw[i])
<1>1. \A line : InRange(line)' <=> InRange(line)
  BY DEF InRange
<1>2. \A line : Fits(line)' <=> Fits(line)
  BY <1>1 DEF Fits
<1>3. Candles' = Candles
  BY <1>2 DEF Candles
<1> QED
  BY <1>2, <1>3 DEF Found

\* How many lines have been dealt with.
LEMMA DealtTyped ==
    ASSUME StreamInv, step \in Running
    PROVE  /\ Dealt \in Nat /\ report.seen \in Nat
           /\ step \in {"read", "reported"} => Dealt = report.seen
           /\ step \in {"drain", "write"} => report.seen \in 1..Len(raw) /\ Dealt = report.seen - 1
<1>1. report.seen \in Nat /\ Underway /\ Len(raw) \in Nat
  BY Places DEF StreamInv, StreamTyped, Running, Reports
<1> QED
  BY <1>1 DEF Underway, Dealt, Running

LEMMA StreamStaysTyped ==
    ASSUME StreamTyped, UNCHANGED <<raw, context>>,
           step' \in {"none", "read", "drain", "write", "reported", "failed"},
           report' \in Reports, output' \in Outputs, pending' \in Pendings
    PROVE  StreamTyped'
<1>1. IsLines(raw)'
  <2>1. IsLines(raw) /\ raw' = raw
    BY DEF StreamTyped
  <2> QED
    BY <2>1 DEF IsLines
<1> QED
  BY <1>1 DEF StreamTyped

\* A step that deals with no line and leaves the files alone.
LEMMA WrittenStays ==
    ASSUME StreamInv, step \in Running, step' \in Running, UNCHANGED <<raw, context>>,
           Dealt' = Dealt, output'.research = output.research,
           output'.failures = output.failures,
           report' = [report EXCEPT !.seen = report'.seen]
    PROVE  Written' /\ CountedAsWritten' /\ Covered'
<1>1. StreamTyped /\ Written /\ CountedAsWritten /\ Covered
  BY DEF StreamInv, Running
<1>2. /\ report'.written = report.written /\ report'.quarantined = report.quarantined
      /\ report'.first = report.first /\ report'.end = report.end
      /\ report'.previous = report.previous
  BY <1>1 DEF StreamTyped, Reports
<1>3. PICK n : n = Dealt
  OBVIOUS
<1>4. Candles' = Candles /\ Found(n)' = Found(n) /\ \A i : Fits(raw[i])' <=> Fits(raw[i])
  BY SameLines
<1>5. PICK found : found = Found(n)
  OBVIOUS
<1>6. Found(Dealt)' = found /\ Found(Dealt) = found /\ Dealt' = n
  BY <1>3, <1>4, <1>5 DEF Found
<1>7. Written'
  BY <1>1, <1>3, <1>4, <1>6 DEF Written
<1>8. CountedAsWritten'
  BY <1>1, <1>2, <1>3, <1>6 DEF CountedAsWritten
<1>9. Covered'
  BY <1>1, <1>2, <1>3, <1>4, <1>6 DEF Covered
<1> QED
  BY <1>7, <1>8, <1>9

-----------------------------------------------------------------------------
(* One step of the conversion *)

LEMMA ReadLineKeeps == ASSUME StreamInv, ReadLine PROVE StreamInv'
<1> USE DEF StreamInv
<1>1. /\ step = "read" /\ report.seen < Len(raw)
      /\ report' = [report EXCEPT !.seen = @ + 1] /\ UNCHANGED <<raw, context, output>>
  BY DEF ReadLine
<1>2. StreamTyped /\ Written /\ WholeUnits /\ Covered /\ Underway
  BY <1>1
<1>3. PICK n \in Nat : n = report.seen /\ n = Dealt /\ n < Len(raw)
  BY <1>1, DealtTyped DEF Running
<1>4. PICK line : line = raw[n + 1]
  OBVIOUS
<1>5. n + 1 \in 1..Len(raw) /\ LineShape(line) /\ Len(raw) \in Nat
  BY <1>2, <1>3, <1>4, Places
<1>6. report'.seen = n + 1
  BY <1>1, <1>2, <1>3 DEF StreamTyped
<1>7. \/ /\ line.size > MaxLine /\ Write("line_too_large")
      \/ /\ line.size > MaxLine /\ step' = "drain" /\ UNCHANGED pending
      \/ /\ ~(line.size > MaxLine) /\ Write(Verdict(line))
  BY <1>3, <1>4 DEF ReadLine
<1>8. step' \in {"drain", "write"}
  BY <1>7 DEF Write
<1>9. Dealt' = n
  BY <1>6, <1>8 DEF Dealt
<1>10. StreamTyped'
  <2>1. report' \in Reports
    <3>1. report \in Reports
      BY <1>2 DEF StreamTyped
    <3>2. report.seen + 1 \in Nat
      BY <3>1 DEF Reports
    <3> QED
      BY <1>1, <3>1, <3>2 DEF Reports
  <2>2. pending' \in Pendings
    <3>1. ASSUME NEW v \in Verdicts, Write(v)
          PROVE  pending' \in Pendings
      BY <3>1 DEF Write, Pendings
    <3>2. ~(line.size > MaxLine) => Verdict(line) \in Verdicts
      <4>1. ~(line.size > MaxLine) => line.size <= MaxLine
        BY <1>5 DEF LineShape
      <4> QED
        BY <1>5, <4>1, VerdictIs
    <3>3. "line_too_large" \in Verdicts
      BY DEF Verdicts
    <3> QED
      BY <1>2, <1>7, <3>1, <3>2, <3>3 DEF StreamTyped
  <2> QED
    BY <1>1, <1>2, <1>8, <2>1, <2>2, StreamStaysTyped DEF StreamTyped
<1>11. Written' /\ CountedAsWritten' /\ Covered'
  <2>1. report' = [report EXCEPT !.seen = report'.seen]
    BY <1>1, <1>2 DEF StreamTyped, Reports
  <2> QED
    BY <1>1, <1>3, <1>8, <1>9, <2>1, WrittenStays DEF Running
<1>12. n + 1 \in Candles <=> Fits(line) /\ InOrder(line)
  <2>1. ASSUME Fits(line), InOrder(line) PROVE n + 1 \in Candles
    <3>1. ASSUME NEW j \in 1..((n + 1) - 1), Fits(raw[j]) PROVE raw[j].open <= line.open
      <4>1. report.written > 0 /\ raw[j].open <= report.previous
        BY <1>2, <1>3, <3>1 DEF Covered
      <4>2. report.previous <= line.open
        <5>1. report.previous \in Nat /\ line.open \in Nat
          BY <1>2, <2>1, FittingLines DEF StreamTyped, Reports
        <5> QED
          BY <2>1, <4>1, <5>1 DEF InOrder
      <4>3. raw[j].open \in Nat /\ report.previous \in Nat /\ line.open \in Nat
        BY <1>2, <2>1, <3>1, FittingLines DEF StreamTyped, Reports
      <4> QED
        BY <4>1, <4>2, <4>3
    <3> QED
      BY <1>2, <1>4, <1>5, <2>1, <3>1, Places DEF Candles
  <2>2. ASSUME n + 1 \in Candles PROVE Fits(line) /\ InOrder(line)
    <3>1. Fits(line)
      BY <1>4, <2>2 DEF Candles
    <3>2. ASSUME report.written > 0 PROVE line.open >= report.previous
      <4>1. report.written # 0
        BY <1>2, <3>2 DEF StreamTyped
      <4>2. PICK j \in Found(n) : raw[j].open = report.previous
        BY <1>2, <1>3, <4>1 DEF Covered
      <4>3. j \in 1..Len(raw) /\ Fits(raw[j]) /\ j <= n
        BY <1>2, Places DEF Found
      <4>4. j \in 1..((n + 1) - 1)
        BY <1>3, <1>5, <4>3
      <4>5. raw[j].open <= line.open
        BY <1>4, <2>2, <4>3, <4>4 DEF Candles
      <4>6. line.open \in Nat /\ raw[j].open \in Nat
        BY <3>1, <4>3, FittingLines
      <4> QED
        BY <4>2, <4>5, <4>6
    <3> QED
      BY <3>1, <3>2 DEF InOrder
  <2> QED
    BY <2>1, <2>2
<1>13. Underway'
  <2>1. step' = "drain" => line.size > MaxLine
    BY <1>7 DEF Write
  <2>2. step' = "write" => (pending'.to = "candle" <=> n + 1 \in Candles)
                           /\ pending'.left = OutputUnits /\ pending'.to \in Verdicts
    <3>1. CASE line.size > MaxLine /\ Write("line_too_large")
      <4>1. /\ pending'.to = "line_too_large" /\ pending'.left = OutputUnits
            /\ pending'.to \in Verdicts
        BY <3>1 DEF Write, Verdicts
      <4>2. ~Fits(line)
        <5>1. Fits(line) => line.size <= MaxLine
          BY FittingLines
        <5> QED
          BY <1>5, <3>1, <5>1 DEF LineShape
      <4> QED
        BY <1>12, <4>1, <4>2
    <3>2. CASE ~(line.size > MaxLine) /\ Write(Verdict(line))
      <4>1. line.size <= MaxLine
        BY <1>5, <3>2 DEF LineShape
      <4>2. Verdict(line) \in Verdicts /\ (Verdict(line) = "candle" <=> Fits(line) /\ InOrder(line))
        BY <1>5, <4>1, VerdictIs
      <4>3. pending'.to = Verdict(line) /\ pending'.left = OutputUnits
        BY <3>2 DEF Write
      <4> QED
        BY <1>12, <4>2, <4>3
    <3> QED
      BY <1>7, <3>1, <3>2
  <2>3. Candles' = Candles
    BY <1>1, SameLines
  <2>4. raw' = raw /\ raw'[n + 1] = line
    BY <1>1, <1>4
  <2> QED
    BY <1>5, <1>6, <1>8, <2>1, <2>2, <2>3, <2>4 DEF Underway
<1>14. WholeUnits'
  <2>1. output.units = n * OutputUnits + 0
    BY <1>1, <1>2, <1>3 DEF WholeUnits
  <2>2. step' = "write" => OutputUnits - pending'.left = 0
    BY <1>7 DEF Write
  <2>3. (IF step' = "write" THEN OutputUnits - pending'.left ELSE 0) = 0
    BY <2>2
  <2> QED
    BY <1>1, <1>9, <2>1, <2>3 DEF WholeUnits
<1> QED
  BY <1>10, <1>11, <1>13, <1>14

LEMMA DrainKeeps == ASSUME StreamInv, Drain PROVE StreamInv'
<1> USE DEF StreamInv
<1>1. step = "drain" /\ UNCHANGED <<raw, context, report, output>>
  BY DEF Drain
<1>2. StreamTyped /\ WholeUnits /\ Underway
  BY <1>1
<1>3. PICK n \in Nat : n = Dealt
  BY <1>1, DealtTyped DEF Running
<1>4. Write("line_too_large") \/ UNCHANGED <<step, pending>>
  BY DEF Drain
<1>5. step' \in {"drain", "write"} /\ Dealt' = n
  BY <1>1, <1>3, <1>4 DEF Write, Dealt
<1>6. StreamTyped'
  <2>1. pending' \in Pendings
    BY <1>2, <1>4 DEF Write, Verdicts, StreamTyped, Pendings
  <2> QED
    BY <1>1, <1>2, <1>5, <2>1, StreamStaysTyped DEF StreamTyped
<1>7. Written' /\ CountedAsWritten' /\ Covered'
  <2>1. report' = [report EXCEPT !.seen = report'.seen]
    BY <1>1, <1>2 DEF StreamTyped, Reports
  <2> QED
    BY <1>1, <1>3, <1>5, <2>1, WrittenStays DEF Running
<1>8. Underway'
  <2>1. report.seen \notin Candles
    <3>1. report.seen \in 1..Len(raw) /\ LineShape(raw[report.seen])
      BY <1>1, <1>2, DealtTyped, Places DEF Running
    <3>2. raw[report.seen].size > MaxLine
      BY <1>1, <1>2 DEF Underway
    <3>3. report.seen \in Candles => raw[report.seen].size <= MaxLine
      BY <1>2, Places, FittingLines
    <3> QED
      BY <3>1, <3>2, <3>3 DEF LineShape
  <2>2. Candles' = Candles
    BY <1>1, SameLines
  <2> QED
    BY <1>1, <1>2, <1>4, <2>1, <2>2 DEF Write, Underway, Verdicts
<1>9. WholeUnits'
  <2>1. output.units = n * OutputUnits + 0
    BY <1>1, <1>2, <1>3 DEF WholeUnits
  <2>2. step' = "write" => OutputUnits - pending'.left = 0
    BY <1>1, <1>4 DEF Write
  <2>3. (IF step' = "write" THEN OutputUnits - pending'.left ELSE 0) = 0
    BY <2>2
  <2> QED
    BY <1>1, <1>5, <2>1, <2>3 DEF WholeUnits
<1> QED
  BY <1>6, <1>7, <1>8, <1>9

\* A part of a payload that is not its last.
LEMMA WritePartKeeps ==
    ASSUME StreamInv, WritePiece \/ \E n \in 1..(OutputUnits - 1) : WriteSome(n)
    PROVE  StreamInv'
<1> USE DEF StreamInv
<1>1. StreamTyped /\ WholeUnits /\ Underway /\ step = "write" /\ pending.left \in Nat
      /\ UNCHANGED <<raw, context, step, report>>
  BY DEF WritePiece, WriteSome, StreamTyped, Pendings
<1>2. pending \in Pendings /\ output \in Outputs /\ pending.chunk \in Nat
  BY <1>1 DEF StreamTyped, Pendings
<1>3. PICK n \in Nat : n = Dealt
  BY <1>1, DealtTyped DEF Running
<1>4. Dealt' = n
  BY <1>1, <1>3 DEF Dealt
<1>5. PICK p \in Nat, chunk \in Nat :
         /\ p < pending.left
         /\ output' = [output EXCEPT !.units = @ + p]
         /\ pending' = [pending EXCEPT !.left = @ - p, !.chunk = chunk]
  <2>1. CASE WritePiece
    <3>1. pending' = [pending EXCEPT !.left = @ - pending.chunk, !.chunk = pending.chunk]
      BY <1>2, <2>1 DEF WritePiece, Pendings
    <3> QED
      BY <1>2, <2>1, <3>1 DEF WritePiece
  <2>2. ASSUME NEW q \in 1..(OutputUnits - 1), WriteSome(q)
        PROVE  /\ q < pending.left /\ q \in Nat
               /\ output' = [output EXCEPT !.units = @ + q]
               /\ pending' = [pending EXCEPT !.left = @ - q, !.chunk = q]
    <3>6. q \in Nat
      OBVIOUS
    <3>1. q < Smaller(pending.left, pending.chunk)
      BY <2>2 DEF WriteSome
    <3>4. /\ output' = [output EXCEPT !.units = @ + q]
          /\ pending' = [pending EXCEPT !.left = @ - q, !.chunk = q]
      BY <2>2 DEF WriteSome
    <3>2. Smaller(pending.left, pending.chunk) <= pending.left
      BY <1>1, <1>2 DEF Smaller
    <3>3. Smaller(pending.left, pending.chunk) \in Nat
      BY <1>1, <1>2 DEF Smaller
    <3>5. q < pending.left
      BY <1>1, <3>6, <3>1, <3>2, <3>3
    <3> QED
      BY <3>6, <3>4, <3>5
  <2> QED
    BY <2>1, <2>2
<1>12. /\ pending'.left = pending.left - p /\ pending'.to = pending.to
      /\ pending'.left \in Nat /\ pending'.left > 0 /\ pending'.left <= pending.left
  <2>1. pending'.left = pending.left - p /\ pending'.to = pending.to
    BY <1>2, <1>5 DEF Pendings
  <2> QED
    BY <1>1, <1>5, <2>1
<1>6. /\ output'.units = output.units + p /\ output'.research = output.research
      /\ output'.failures = output.failures /\ output.units \in Nat
  BY <1>2, <1>5 DEF Outputs
<1>7. StreamTyped'
  <2>1. pending' \in Pendings
    <3>1. pending.left - p \in Nat
      BY <1>1, <1>5
    <3> QED
      BY <1>2, <1>5, <3>1 DEF Pendings
  <2>2. output' \in Outputs
    <3>1. output.units + p \in Nat
      BY <1>6
    <3> QED
      BY <1>2, <1>5, <3>1 DEF Outputs
  <2> QED
    BY <1>1, <2>1, <2>2, StreamStaysTyped DEF StreamTyped
<1>8. Written' /\ CountedAsWritten' /\ Covered'
  <2>1. report' = [report EXCEPT !.seen = report'.seen]
    BY <1>1, <1>2 DEF StreamTyped, Reports
  <2> QED
    BY <1>1, <1>3, <1>4, <1>6, <2>1, WrittenStays DEF Running
<1>9. Underway'
  <2>1. Candles' = Candles
    BY <1>1, SameLines
  <2>2. pending'.left \in 1..OutputUnits
    BY <1>1, <1>12 DEF Underway
  <2> QED
    BY <1>1, <1>12, <2>1, <2>2 DEF Underway
<1>10. WholeUnits'
  <2>1. PICK whole \in Nat : whole = n * OutputUnits
    <3>1. n * OutputUnits \in Nat
      BY SMT
    <3> QED
      BY <3>1
  <2>2. output.units = whole + (OutputUnits - pending.left)
    BY <1>1, <1>2, <1>3, <2>1 DEF WholeUnits
  <2>3. output'.units = whole + (OutputUnits - pending'.left)
    BY <1>1, <1>5, <1>12, <1>6, <2>2
  <2> QED
    BY <1>1, <1>4, <2>1, <2>3 DEF WholeUnits
<1> QED
  BY <1>7, <1>8, <1>9, <1>10

LEMMA EndOfFileKeeps == ASSUME StreamInv, EndOfFile PROVE StreamInv'
<1> USE DEF StreamInv
<1>1. /\ step = "read" /\ report.seen = Len(raw) /\ step' = "reported"
      /\ UNCHANGED <<raw, context, report, output, pending>>
  BY DEF EndOfFile
<1>2. StreamTyped /\ WholeUnits /\ Underway
  BY <1>1
<1>3. Dealt' = Dealt
  BY <1>1 DEF Dealt
<1>4. StreamTyped'
  BY <1>1, <1>2, StreamStaysTyped DEF StreamTyped
<1>5. Written' /\ CountedAsWritten' /\ Covered'
  <2>1. report' = [report EXCEPT !.seen = report'.seen]
    BY <1>1, <1>2 DEF StreamTyped, Reports
  <2> QED
    BY <1>1, <1>3, <2>1, WrittenStays DEF Running
<1>6. Underway'
  BY <1>1, <1>2 DEF Underway
<1>7. WholeUnits'
  BY <1>1, <1>2, <1>3 DEF WholeUnits
<1> QED
  BY <1>4, <1>5, <1>6, <1>7

\* The line that is dealt with next.
LEMMA FoundGrows ==
    ASSUME StreamTyped, NEW n \in Nat, n + 1 \in 1..Len(raw)
    PROVE  Found(n + 1) = IF n + 1 \in Candles THEN Found(n) \union {n + 1} ELSE Found(n)
<1>1. \A i \in Candles : i \in Nat /\ (i <= n + 1 <=> i <= n \/ i = n + 1)
  BY Places
<1>2. CASE n + 1 \in Candles
  BY <1>1, <1>2 DEF Found
<1>3. CASE n + 1 \notin Candles
  BY <1>1, <1>3 DEF Found
<1> QED
  BY <1>2, <1>3

\* The last units of a candle.
LEMMA CandleWritten ==
    ASSUME StreamInv, WriteRest, pending.to = "candle"
    PROVE  StreamInv'
<1> USE DEF StreamInv
<1>1. /\ step = "write" /\ step' = "read" /\ pending' = NoPending
      /\ output' = [output EXCEPT !.research = Append(@, Current.open), !.units = @ + pending.left]
      /\ report' = [report EXCEPT
              !.written = @ + 1,
              !.first = IF report.written = 0 THEN Current.open ELSE Smaller(@, Current.open),
              !.end = IF report.written = 0 \/ Current.close > @ THEN Current.close ELSE @,
              !.previous = Current.open]
      /\ UNCHANGED <<raw, context>>
  BY DEF WriteRest, WrittenLine
<1>2. StreamTyped /\ Written /\ WholeUnits /\ CountedAsWritten /\ Covered /\ Underway
  BY <1>1
<1>3. PICK n \in Nat : n = Dealt /\ n + 1 = report.seen /\ n + 1 \in 1..Len(raw)
  BY <1>1, DealtTyped DEF Running
<1>4. n + 1 \in Candles /\ pending.left \in 1..OutputUnits
  BY <1>1, <1>2, <1>3 DEF Underway
<1>5. PICK line : line = raw[n + 1] /\ Current = line
  BY <1>3 DEF Current
<1>6. PICK open \in Nat, close \in Nat :
         /\ open = line.open /\ close = line.close /\ open < close
         /\ context.range.start <= open /\ close <= context.range.end
  BY <1>2, <1>4, <1>5, Places, FittingLines
<1>7. report \in Reports /\ output \in Outputs /\ context.range.start \in Nat
      /\ context.range.end \in Nat
  BY <1>2 DEF StreamTyped
<1>8. /\ report.written \in Nat /\ report.first \in Nat /\ report.end \in Nat
      /\ report.quarantined \in Nat /\ report.previous \in Nat /\ output.units \in Nat
      /\ output.research \in Seq(Nat) /\ pending.left \in Nat
  BY <1>4, <1>7 DEF Reports, Outputs
<1>9. PICK first \in Nat, end \in Nat :
         /\ first = (IF report.written = 0 THEN open ELSE Smaller(report.first, open))
         /\ end = (IF report.written = 0 \/ close > report.end THEN close ELSE report.end)
         /\ context.range.start <= first /\ first < end /\ end <= context.range.end
  <2>1. report.written # 0 => /\ context.range.start <= report.first
                              /\ report.first < report.end /\ report.end <= context.range.end
    BY <1>2 DEF Covered
  <2>2. CASE report.written = 0
    BY <1>6, <2>2
  <2>3. CASE report.written # 0
    <3>1. PICK a \in Nat : a = Smaller(report.first, open) /\ a <= report.first
                           /\ context.range.start <= a
      BY <1>6, <1>8, <2>1, <2>3 DEF Smaller
    <3>2. PICK b \in Nat : b = (IF close > report.end THEN close ELSE report.end)
                           /\ report.end <= b /\ b <= context.range.end
      <4>1. CASE close > report.end
        BY <1>6, <1>8, <4>1
      <4>2. CASE ~(close > report.end)
        BY <1>8, <2>1, <2>3, <4>2
      <4> QED
        BY <4>1, <4>2
    <3>3. a < b
      BY <1>8, <2>1, <2>3, <3>1, <3>2
    <3> QED
      BY <2>3, <3>1, <3>2, <3>3
  <2> QED
    BY <2>2, <2>3
<1>10. report' = [report EXCEPT !.written = @ + 1, !.first = first, !.end = end,
                                !.previous = open]
  BY <1>1, <1>5, <1>6, <1>9
<1>11. /\ report' \in Reports /\ report'.seen = n + 1 /\ report'.written = report.written + 1
       /\ report'.quarantined = report.quarantined /\ report'.first = first
       /\ report'.end = end /\ report'.previous = open
  <2>1. report.written + 1 \in Nat
    BY <1>8
  <2> QED
    BY <1>3, <1>7, <1>10, <2>1 DEF Reports
<1>12. /\ output'.research = Append(output.research, open)
       /\ output'.failures = output.failures /\ output'.units = output.units + pending.left
       /\ output' \in Outputs
  <2>1. Append(output.research, open) \in Seq(Nat)
    BY <1>8, AppendProperties
  <2>2. output.units + pending.left \in Nat
    BY <1>8
  <2> QED
    BY <1>1, <1>5, <1>6, <1>7, <2>1, <2>2 DEF Outputs
<1>13. Dealt' = n + 1
  BY <1>1, <1>11 DEF Dealt
<1>14. StreamTyped'
  <2>1. pending' \in Pendings
    BY <1>1 DEF NoPending, Pendings
  <2> QED
    BY <1>1, <1>2, <1>11, <1>12, <2>1, StreamStaysTyped
<1>15. /\ Candles' = Candles /\ Found(n + 1)' = Found(n + 1)
       /\ \A i : Fits(raw[i])' <=> Fits(raw[i])
  BY <1>1, SameLines
<1>16. Found(n + 1) = Found(n) \union {n + 1}
  BY <1>2, <1>3, <1>4, FoundGrows
<1>17. Written'
  <2>1. /\ Found(n) \in SUBSET (0..Len(raw)) /\ Len(raw) \in Nat /\ n + 1 \in 0..Len(raw)
        /\ \A k \in Found(n) : k < n + 1
    <3>1. \A k \in Found(n) : k \in Nat /\ k <= n
      BY <1>2, Places DEF Found
    <3> QED
      BY <1>2, <1>3, <3>1, Places
  <2>2. PICK m \in Nat :
           /\ DOMAIN Ascending(Found(n)) = 1..m
           /\ DOMAIN Ascending(Found(n + 1)) = 1..(m + 1)
           /\ Ascending(Found(n + 1))[m + 1] = n + 1
           /\ \A i \in 1..m : Ascending(Found(n + 1))[i] = Ascending(Found(n))[i]
    <3>1. Found(n) \in SUBSET (0..Len(raw)) /\ Len(raw) \in Nat /\ n + 1 \in 0..Len(raw)
      BY <2>1
    <3>2. \A k \in Found(n) : k < n + 1
      BY <2>1
    <3>6. PICK size \in Nat : size = Len(raw)
      BY <3>1
    <3>3. PICK S \in SUBSET (0..size), x \in 0..size : S = Found(n) /\ x = n + 1
      BY <3>1, <3>6
    <3>7. PICK T : T = Found(n + 1)
      OBVIOUS
    <3>4. T = S \union {x} /\ \A k \in S : k < x
      BY <1>16, <3>2, <3>3, <3>7
    <3>5. OrderGoesOn(S, T, x)
      <4>1. /\ size \in Nat /\ S \in SUBSET (0..size) /\ x \in 0..size
            /\ \A k \in S : k < x
            /\ T = S \union {x}
        BY <3>3, <3>4, <3>6
      <4> HIDE DEF StreamInv
      <4> QED
        BY <4>1, GreatestComesLast
    <3> QED
      BY <3>3, <3>5, <3>7 DEF OrderGoesOn
  <2>3. PICK old, new : old = Ascending(Found(n)) /\ new = Ascending(Found(n + 1))
    OBVIOUS
  <2>4. output.research = [k \in 1..m |-> raw[old[k]].open]
    BY <1>2, <1>3, <2>2, <2>3 DEF Written
  <2>5. Len(output.research) = m /\ \A k \in 1..m : output.research[k] = raw[old[k]].open
    BY <1>8, <2>4
  <2>6. output'.research = [k \in 1..(m + 1) |-> raw[new[k]].open]
    <3>1. PICK more \in Seq(Nat) : more = output'.research
      BY <1>8, <1>12, AppendProperties
    <3>2. /\ Len(more) = m + 1 /\ more[m + 1] = open
          /\ \A k \in 1..m : more[k] = output.research[k]
      <4>1. PICK before \in Seq(Nat) : before = output.research /\ Len(before) = m
        BY <1>8, <2>5
      <4>2. more = Append(before, open)
        BY <1>12, <3>1, <4>1
      <4>3. /\ Len(Append(before, open)) = m + 1 /\ Append(before, open)[m + 1] = open
            /\ \A k \in 1..m : Append(before, open)[k] = before[k]
        BY <4>1, AppendProperties
      <4> QED
        BY <4>1, <4>2, <4>3
    <3>3. more = [k \in 1..(m + 1) |-> more[k]]
      <4>1. more = [k \in 1..Len(more) |-> more[k]]
        BY <3>1
      <4> QED
        BY <3>2, <4>1
    <3>4. ASSUME NEW k \in 1..(m + 1) PROVE more[k] = raw[new[k]].open
      <4>1. CASE k = m + 1
        BY <1>5, <1>6, <2>2, <2>3, <3>2, <4>1
      <4>2. CASE k # m + 1
        <5>1. k \in 1..m
          BY <4>2
        <5> QED
          BY <2>2, <2>3, <2>5, <3>2, <5>1
      <4> QED
        BY <4>1, <4>2
    <3>5. more = [k \in 1..(m + 1) |-> raw[new[k]].open]
      BY <3>3, <3>4
    <3> QED
      BY <3>1, <3>5
  <2>7. (1..(n + 1)) \ Candles = (1..n) \ Candles
    BY <1>4
  <2>8. {output.failures[k][1] : k \in DOMAIN output.failures} = (1..n) \ Candles
    BY <1>2, <1>3 DEF Written
  <2>9. PICK f : f = Found(n + 1)
    OBVIOUS
  <2>10. Found(Dealt)' = f
    BY <1>13, <1>15, <2>9 DEF Found
  <2>11. DOMAIN Ascending(f) = 1..(m + 1) /\ Ascending(f) = new
    BY <2>2, <2>3, <2>9
  <2> QED
    <3>1. LET found == Ascending(Found(Dealt)')
          IN  output'.research = [k \in DOMAIN found |-> raw'[found[k]].open]
      BY <1>1, <2>6, <2>10, <2>11
    <3>2. {output'.failures[k][1] : k \in DOMAIN output'.failures} = (1..Dealt') \ Candles'
      BY <1>12, <1>13, <1>15, <2>7, <2>8
    <3> QED
      BY <3>1, <3>2 DEF Written
<1>18. WholeUnits'
  <2>1. (n + 1) * OutputUnits = n * OutputUnits + OutputUnits /\ n * OutputUnits \in Nat
    BY SMT
  <2>2. output.units = n * OutputUnits + (OutputUnits - pending.left)
    BY <1>1, <1>2, <1>3 DEF WholeUnits
  <2>3. output'.units = (n + 1) * OutputUnits + 0
    BY <1>8, <1>12, <2>1, <2>2
  <2> QED
    BY <1>1, <1>13, <2>3 DEF WholeUnits
<1>19. CountedAsWritten'
  <2>1. Len(output'.research) = Len(output.research) + 1 /\ Len(output.research) \in Nat
    BY <1>6, <1>8, <1>12, AppendProperties
  <2>2. /\ report.written = Len(output.research) /\ report.quarantined = Len(output.failures)
        /\ report.written + report.quarantined = n
    BY <1>2, <1>3 DEF CountedAsWritten
  <2>3. (report.written + 1) + report.quarantined = n + 1
    <3>1. PICK a \in Nat, b \in Nat : a = report.written /\ b = report.quarantined /\ a + b = n
      BY <1>8, <2>2
    <3> QED
      BY <3>1
  <2> QED
    BY <1>11, <1>12, <1>13, <2>1, <2>2, <2>3 DEF CountedAsWritten
<1>20. Covered'
  <2>1. ASSUME NEW j \in 1..(n + 1), Fits(raw[j]) PROVE raw[j].open <= open
    <3>1. CASE j = n + 1
      BY <1>5, <1>6, <3>1
    <3>2. CASE j # n + 1
      <4>1. j \in 1..((n + 1) - 1)
        BY <3>2
      <4> QED
        BY <1>4, <1>5, <1>6, <2>1, <4>1 DEF Candles
    <3> QED
      BY <3>1, <3>2
  <2>2. report'.written > 0 /\ report'.written # 0
    BY <1>8, <1>11
  <2>3. n + 1 \in Found(n + 1) /\ raw[n + 1].open = open
    BY <1>4, <1>5, <1>6 DEF Found
  <2>4. PICK f : f = Found(n + 1)
    OBVIOUS
  <2>5. Found(Dealt)' = f
    BY <1>13, <1>15, <2>4 DEF Found
  <2>6. \A j \in 1..Dealt' : Fits(raw[j])' => report'.written > 0 /\ raw'[j].open <= report'.previous
    BY <1>1, <1>11, <1>13, <1>15, <2>1, <2>2
  <2>7. \E j \in f : raw'[j].open = report'.previous
    BY <1>1, <1>11, <2>3, <2>4
  <2> QED
    BY <1>1, <1>9, <1>11, <2>2, <2>5, <2>6, <2>7 DEF Covered
<1>21. Underway'
  <2>1. n + 1 <= Len(raw)
    BY <1>3, <1>2, Places
  <2> QED
    BY <1>1, <1>11, <2>1 DEF Underway
<1> QED
  BY <1>14, <1>17, <1>18, <1>19, <1>20, <1>21

\* The last units of the record of a failure.
LEMMA FailureWritten ==
    ASSUME StreamInv, WriteRest, pending.to # "candle"
    PROVE  StreamInv'
<1> USE DEF StreamInv
<1>1. /\ step = "write" /\ step' = "read" /\ pending' = NoPending
      /\ output' = [output EXCEPT !.failures = Append(@, <<report.seen, pending.to>>),
                                  !.units = @ + pending.left]
      /\ report' = [report EXCEPT !.quarantined = @ + 1]
      /\ UNCHANGED <<raw, context>>
  BY DEF WriteRest, WrittenLine
<1>2. StreamTyped /\ Written /\ WholeUnits /\ CountedAsWritten /\ Covered /\ Underway
  BY <1>1
<1>3. PICK n \in Nat : n = Dealt /\ n + 1 = report.seen /\ n + 1 \in 1..Len(raw)
  BY <1>1, DealtTyped DEF Running
<1>4. n + 1 \notin Candles /\ pending.left \in 1..OutputUnits
  BY <1>1, <1>2, <1>3 DEF Underway
<1>5. report \in Reports /\ output \in Outputs /\ pending \in Pendings /\ pending.left \in Nat
  BY <1>2, <1>4 DEF StreamTyped
<1>6. /\ report.written \in Nat /\ report.quarantined \in Nat /\ output.units \in Nat
      /\ output.failures \in Seq(Nat \X Verdicts)
  BY <1>5 DEF Reports, Outputs
<1>7. PICK to \in Verdicts : to = pending.to
  BY <1>1, <1>2 DEF Underway
<1>8. PICK more : more = Append(output.failures, <<n + 1, to>>)
  OBVIOUS
<1>9. /\ more \in Seq(Nat \X Verdicts) /\ Len(more) = Len(output.failures) + 1
      /\ \A k \in 1..Len(output.failures) : more[k] = output.failures[k]
      /\ more[Len(output.failures) + 1] = <<n + 1, to>>
      /\ Len(output.failures) \in Nat
  BY <1>6, <1>8, AppendProperties
<1>10. /\ report' \in Reports /\ report'.seen = n + 1 /\ report'.written = report.written
       /\ report'.quarantined = report.quarantined + 1 /\ report'.first = report.first
       /\ report'.end = report.end /\ report'.previous = report.previous
  <2>1. report.quarantined + 1 \in Nat
    BY <1>6
  <2> QED
    BY <1>1, <1>3, <1>5, <2>1 DEF Reports
<1>11. /\ output'.failures = more /\ output'.research = output.research
       /\ output'.units = output.units + pending.left /\ output' \in Outputs
  <2>1. output.units + pending.left \in Nat
    BY <1>5, <1>6
  <2> QED
    BY <1>1, <1>3, <1>5, <1>7, <1>8, <1>9, <2>1 DEF Outputs
<1>12. Dealt' = n + 1
  BY <1>1, <1>10 DEF Dealt
<1>13. StreamTyped'
  <2>1. pending' \in Pendings
    BY <1>1 DEF NoPending, Pendings
  <2> QED
    BY <1>1, <1>2, <1>10, <1>11, <2>1, StreamStaysTyped
<1>14. /\ Candles' = Candles /\ Found(n + 1)' = Found(n + 1)
       /\ \A i : Fits(raw[i])' <=> Fits(raw[i])
  BY <1>1, SameLines
<1>15. PICK f : f = Found(n) /\ f = Found(n + 1)
  BY <1>2, <1>3, <1>4, FoundGrows
<1>16. Found(Dealt)' = f /\ Found(Dealt) = f
  BY <1>3, <1>12, <1>14, <1>15 DEF Found
<1>17. Written'
  <2>1. LET found == Ascending(f)
        IN  output'.research = [k \in DOMAIN found |-> raw[found[k]].open]
    BY <1>2, <1>11, <1>16 DEF Written
  <2>2. {more[k][1] : k \in DOMAIN more}
          = {output.failures[k][1] : k \in DOMAIN output.failures} \union {n + 1}
    <3>1. PICK len \in Nat : len = Len(output.failures)
      BY <1>9
    <3>2. DOMAIN more = 1..(len + 1) /\ DOMAIN output.failures = 1..len
      BY <1>6, <1>9, <3>1
    <3>3. \A k \in 1..(len + 1) : k \in 1..len \/ k = len + 1
      OBVIOUS
    <3>4. more[len + 1][1] = n + 1 /\ len + 1 \in 1..(len + 1) /\ 1..len \subseteq 1..(len + 1)
      BY <1>9, <3>1
    <3>5. \A k \in 1..len : more[k][1] = output.failures[k][1]
      BY <1>9, <3>1
    <3>6. ASSUME NEW i
          PROVE  (\E k \in 1..(len + 1) : i = more[k][1])
                   <=> (\E k \in 1..len : i = output.failures[k][1]) \/ i = n + 1
      BY <3>3, <3>4, <3>5
    <3>7. \A i : i \in {more[k][1] : k \in 1..(len + 1)}
                   <=> i \in {output.failures[k][1] : k \in 1..len} \union {n + 1}
      BY <3>6
    <3>8. {more[k][1] : k \in 1..(len + 1)}
            = {output.failures[k][1] : k \in 1..len} \union {n + 1}
      BY <3>7
    <3> QED
      BY <3>2, <3>8
  <2>3. (1..(n + 1)) \ Candles = ((1..n) \ Candles) \union {n + 1}
    BY <1>4
  <2>4. {output.failures[k][1] : k \in DOMAIN output.failures} = (1..n) \ Candles
    BY <1>2, <1>3 DEF Written
  <2>5. {output'.failures[k][1] : k \in DOMAIN output'.failures} = (1..Dealt') \ Candles'
    BY <1>11, <1>12, <1>14, <2>2, <2>3, <2>4
  <2> QED
    BY <1>1, <1>16, <2>1, <2>5 DEF Written
<1>18. WholeUnits'
  <2>1. (n + 1) * OutputUnits = n * OutputUnits + OutputUnits /\ n * OutputUnits \in Nat
    BY SMT
  <2>2. output.units = n * OutputUnits + (OutputUnits - pending.left)
    BY <1>1, <1>2, <1>3 DEF WholeUnits
  <2>3. output'.units = (n + 1) * OutputUnits + 0
    BY <1>5, <1>6, <1>11, <2>1, <2>2
  <2> QED
    BY <1>1, <1>12, <2>3 DEF WholeUnits
<1>19. CountedAsWritten'
  <2>1. /\ report.written = Len(output.research) /\ report.quarantined = Len(output.failures)
        /\ report.written + report.quarantined = n
    BY <1>2, <1>3 DEF CountedAsWritten
  <2>2. report.written + (report.quarantined + 1) = n + 1
    <3>1. PICK a \in Nat, b \in Nat : a = report.written /\ b = report.quarantined /\ a + b = n
      BY <1>6, <2>1
    <3> QED
      BY <3>1
  <2> QED
    BY <1>9, <1>10, <1>11, <1>12, <2>1, <2>2 DEF CountedAsWritten
<1>20. Covered'
  <2>1. ASSUME NEW j \in 1..(n + 1), Fits(raw[j])
        PROVE  report.written > 0 /\ raw[j].open <= report.previous
    <3>1. ASSUME NEW i \in 1..n, Fits(raw[i])
          PROVE  report.written > 0 /\ raw[i].open <= report.previous
      BY <1>2, <1>3, <3>1 DEF Covered
    <3>2. CASE j = n + 1
      <4>1. PICK i \in 1..((n + 1) - 1) : Fits(raw[i]) /\ ~(raw[i].open <= raw[n + 1].open)
        <5>1. n + 1 \in DOMAIN raw /\ Fits(raw[n + 1])
          BY <1>2, <1>3, <2>1, <3>2, Places
        <5> QED
          BY <1>4, <5>1 DEF Candles
      <4>2. i \in 1..n
        OBVIOUS
      <4>3. /\ raw[i].open \in Nat /\ raw[n + 1].open \in Nat /\ report.previous \in Nat
        BY <1>5, <2>1, <3>2, <4>1, FittingLines DEF Reports
      <4>4. raw[n + 1].open <= report.previous
        BY <3>1, <4>1, <4>2, <4>3
      <4> QED
        BY <3>1, <3>2, <4>1, <4>2, <4>4
    <3>3. CASE j # n + 1
      BY <3>1, <2>1, <3>3
    <3> QED
      BY <3>2, <3>3
  <2>2. IF report.written = 0 THEN report.first = 0 /\ report.end = 0
        ELSE /\ \E j \in f : raw[j].open = report.previous
             /\ context.range.start <= report.first /\ report.first < report.end
             /\ report.end <= context.range.end
    BY <1>2, <1>16 DEF Covered
  <2>3. \A j \in 1..Dealt' : Fits(raw[j])' => report'.written > 0 /\ raw'[j].open <= report'.previous
    BY <1>1, <1>10, <1>12, <1>14, <2>1
  <2> QED
    BY <1>1, <1>10, <1>16, <2>2, <2>3 DEF Covered
<1>21. Underway'
  <2>1. n + 1 <= Len(raw)
    BY <1>3, <1>2, Places
  <2> QED
    BY <1>1, <1>10, <2>1 DEF Underway
<1> QED
  BY <1>13, <1>17, <1>18, <1>19, <1>20, <1>21

LEMMA StreamStepKeeps == ASSUME StreamInv, StreamStep PROVE StreamInv'
  BY ReadLineKeeps, DrainKeeps, CandleWritten, FailureWritten, WritePartKeeps, EndOfFileKeeps
     DEF StreamStep

LEMMA StreamFailsKeeps == ASSUME StreamInv, StreamFails PROVE StreamInv'
<1>1. step' = "failed" /\ UNCHANGED <<raw, context, report, output, pending>> /\ StreamTyped
  BY DEF StreamFails, StreamInv
<1>2. StreamTyped'
  BY <1>1, StreamStaysTyped DEF StreamTyped
<1> QED
  BY <1>1, <1>2 DEF StreamInv

\* Nothing has been dealt with when a stream is opened.
LEMMA StreamOpens ==
    ASSUME NEW lines, NEW of, IsLines(lines), of.range.start \in Nat, of.range.end \in Nat,
           raw' = lines, context' = of, report' = NoReport, output' = NoOutput,
           pending' = NoPending, step' \in {"none", "read"}
    PROVE  StreamInv'
<1>1. Len(lines) \in Nat /\ DOMAIN lines = 1..Len(lines)
  BY DEF IsLines
<1>2. StreamTyped'
  <2>1. NoReport \in Reports
    BY DEF NoReport, Reports
  <2>2. NoOutput \in Outputs
    <3>1. <<>> \in Seq(Nat) /\ <<>> \in Seq(Nat \X Verdicts)
      OBVIOUS
    <3> QED
      BY <3>1 DEF NoOutput, Outputs
  <2>3. NoPending \in Pendings
    BY DEF NoPending, Pendings
  <2>4. IsLines(raw)'
    BY DEF IsLines
  <2> QED
    BY <2>1, <2>2, <2>3, <2>4 DEF StreamTyped
<1>3. ASSUME step' = "read"
      PROVE  (Written /\ WholeUnits /\ CountedAsWritten /\ Covered /\ Underway)'
  <2>1. report'.seen = 0 /\ report'.written = 0 /\ report'.quarantined = 0
        /\ report'.first = 0 /\ report'.end = 0
    BY DEF NoReport
  <2>2. output'.research = <<>> /\ output'.failures = <<>> /\ output'.units = 0
    BY DEF NoOutput
  <2>3. Dealt' = 0
    BY <1>3, <2>1 DEF Dealt
  <2>4. Candles' \subseteq 1..Len(lines)
    BY <1>1 DEF Candles
  <2>5. Found(Dealt)' = {}
    <3>1. \A i \in 1..Len(lines) : ~(i <= 0)
      OBVIOUS
    <3>2. Found(Dealt)' = {i \in Candles' : i <= Dealt'}
      BY DEF Found
    <3> QED
      BY <2>3, <2>4, <3>1, <3>2
  <2>6. Written'
    <3>1. PICK f : f = Ascending({})
      OBVIOUS
    <3>2. DOMAIN f = {}
      <4>1. InOrderOf(f, {}) /\ Cardinality({}) = 0
        BY <3>1, AscendingOrders, FS_EmptySet
      <4> QED
        BY <4>1 DEF InOrderOf
    <3>3. output'.research = [k \in DOMAIN f |-> raw'[f[k]].open]
      BY <2>2, <3>2
    <3>4. {output'.failures[k][1] : k \in DOMAIN output'.failures} = (1..Dealt') \ Candles'
      BY <2>2, <2>3
    <3> QED
      BY <2>5, <3>1, <3>3, <3>4 DEF Written
  <2>7. WholeUnits'
    BY <1>3, <2>2, <2>3 DEF WholeUnits
  <2>8. CountedAsWritten'
    BY <2>1, <2>2, <2>3 DEF CountedAsWritten
  <2>9. Covered'
    BY <2>1, <2>3 DEF Covered
  <2>10. Underway'
    BY <1>1, <1>3, <2>1 DEF Underway
  <2> QED
    BY <2>6, <2>7, <2>8, <2>9, <2>10
<1> QED
  BY <1>2, <1>3 DEF StreamInv

-----------------------------------------------------------------------------
(* The invariant of the conversions *)

\* No other program has touched the files, nor has another request.
Clean == Unmixed /\ ~damaged

OddOf(s) == {t \in file[s].opens : <<s, t>> \in Odd}
SoundArtifact(s) ==
    LET a == artifacts[s]
    IN  /\ a.seen = Cardinality(file[s].opens)
        /\ a.quarantined = Cardinality(OddOf(s))
        /\ a.written = Cardinality(file[s].opens \ OddOf(s))
        /\ a.first \in Nat /\ a.end \in Nat
        /\ a.written > 0 => /\ manifest.request.start <= a.first /\ a.first < a.end
                            /\ a.end <= manifest.request.end

InWork ==
    /\ item \in DOMAIN manifest.files
    /\ context = [slice |-> item, interval |-> IntervalOf(item), range |-> manifest.request]
    /\ ~damaged => raw = LinesOf(item, file[item].opens)

WorkInv ==
    IF work = "none" THEN DOMAIN artifacts = {}
    ELSE /\ Complete
         /\ DOMAIN artifacts \subseteq DOMAIN manifest.files
         /\ work = "converting" => InWork
         /\ Clean => work # "rejected" /\ \A s \in DOMAIN artifacts : SoundArtifact(s)

-----------------------------------------------------------------------------
(* The lines of a raw file *)

LEMMA FunctionIsSeq == ASSUME NEW n \in Nat, NEW T, NEW f \in [1..n -> T] PROVE f \in Seq(T)
  OBVIOUS

LEMMA LinesIf ==
    ASSUME NEW n \in Nat, NEW f, f = [i \in 1..n |-> f[i]], \A i \in 1..n : LineShape(f[i])
    PROVE  IsLines(f) /\ Len(f) = n
<1>1. f \in [1..n -> {f[i] : i \in 1..n}]
  OBVIOUS
<1>2. DOMAIN f = 1..n
  BY <1>1
<1>3. PICK T : T = {f[i] : i \in 1..n} /\ f \in [1..n -> T]
  BY <1>1
<1>4. f \in Seq(T) /\ Len(f) = n
  <2>1. f \in Seq(T)
    BY <1>3, FunctionIsSeq
  <2> QED
    BY <1>2, <2>1, LenProperties
<1> QED
  BY <1>2, <1>3, <1>4 DEF IsLines

LEMMA RecordLineShape == \A s, row : LineShape(RecordLine(s, row)) /\ RecordLine(s, row).size = 1
<1> TAKE s, row
<1>1. PICK form, yes, open, close, line :
         /\ form = "envelope" /\ yes = TRUE /\ open = row.open /\ close = row.close
         /\ line = RecordLine(s, row)
  OBVIOUS
<1>2. line = [form |-> form, slice |-> s, open |-> open, close |-> close, row |-> row,
              size |-> 1, ended |-> yes]
  BY <1>1 DEF RecordLine, Line
<1>3. /\ line = [form |-> line.form, slice |-> line.slice, open |-> line.open,
                 close |-> line.close, row |-> line.row, size |-> line.size,
                 ended |-> line.ended]
      /\ line.form = form /\ line.size = 1
  BY <1>2
<1> QED
  BY <1>1, <1>3 DEF LineShape

LEMMA LinesAre ==
    ASSUME NEW s, NEW n \in Nat, NEW opens \in SUBSET (0..n)
    PROVE  /\ Cardinality(opens) \in Nat
           /\ \A i \in 1..Cardinality(opens) :
                LinesOf(s, opens)[i] = RecordLine(s, RowAt(s, Ascending(opens)[i]))
           /\ IsLines(LinesOf(s, opens)) /\ Len(LinesOf(s, opens)) = Cardinality(opens)
<1>1. PICK m \in Nat : m = Cardinality(opens)
  BY BoundedIsFinite
<1>2. PICK sorted : sorted = Ascending(opens)
  OBVIOUS
<1>3. DOMAIN sorted = 1..m
  BY <1>1, <1>2, AscendingOrders DEF InOrderOf
<1>4. PICK f : f = LinesOf(s, opens)
  OBVIOUS
<1>5. f = [i \in 1..m |-> RecordLine(s, RowAt(s, sorted[i]))]
  BY <1>2, <1>3, <1>4 DEF LinesOf
<1>6. f = [i \in 1..m |-> f[i]] /\ \A i \in 1..m : LineShape(f[i])
  BY <1>5, RecordLineShape
<1>7. IsLines(f) /\ Len(f) = m
  BY <1>6, LinesIf
<1> QED
  BY <1>1, <1>2, <1>4, <1>5, <1>7

\* One field of a line is another.
LEMMA ChangedLine ==
    ASSUME NEW line, LineShape(line)
    PROVE  /\ \A form \in {"bytes", "text", "JSON"} : LineShape([line EXCEPT !.form = form])
           /\ \A slice : LineShape([line EXCEPT !.slice = slice])
           /\ \A open : LineShape([line EXCEPT !.open = open])
           /\ \A row : LineShape([line EXCEPT !.row = row])
           /\ \A size \in Nat : LineShape([line EXCEPT !.size = size])
           /\ \A ended : LineShape([line EXCEPT !.ended = ended])
<1>1. PICK form, slice, open, close, row, size, ended :
         /\ line = [form |-> form, slice |-> slice, open |-> open, close |-> close,
                    row |-> row, size |-> size, ended |-> ended]
         /\ form \in {"bytes", "text", "JSON", "envelope"} /\ size \in Nat
  BY DEF LineShape
<1>2. ASSUME NEW f \in {"bytes", "text", "JSON"} PROVE LineShape([line EXCEPT !.form = f])
  <2>1. [line EXCEPT !.form = f] = [form |-> f, slice |-> slice, open |-> open,
           close |-> close, row |-> row, size |-> size, ended |-> ended]
    BY <1>1
  <2> QED
    BY <1>1, <1>2, <2>1 DEF LineShape
<1>3. ASSUME NEW x PROVE LineShape([line EXCEPT !.slice = x])
  <2>1. [line EXCEPT !.slice = x] = [form |-> form, slice |-> x, open |-> open,
           close |-> close, row |-> row, size |-> size, ended |-> ended]
    BY <1>1
  <2> QED
    BY <1>1, <2>1 DEF LineShape
<1>4. ASSUME NEW x PROVE LineShape([line EXCEPT !.open = x])
  <2>1. [line EXCEPT !.open = x] = [form |-> form, slice |-> slice, open |-> x,
           close |-> close, row |-> row, size |-> size, ended |-> ended]
    BY <1>1
  <2> QED
    BY <1>1, <2>1 DEF LineShape
<1>5. ASSUME NEW x PROVE LineShape([line EXCEPT !.row = x])
  <2>1. [line EXCEPT !.row = x] = [form |-> form, slice |-> slice, open |-> open,
           close |-> close, row |-> x, size |-> size, ended |-> ended]
    BY <1>1
  <2> QED
    BY <1>1, <2>1 DEF LineShape
<1>6. ASSUME NEW x \in Nat PROVE LineShape([line EXCEPT !.size = x])
  <2>1. [line EXCEPT !.size = x] = [form |-> form, slice |-> slice, open |-> open,
           close |-> close, row |-> row, size |-> x, ended |-> ended]
    BY <1>1
  <2> QED
    BY <1>1, <1>6, <2>1 DEF LineShape
<1>7. ASSUME NEW x PROVE LineShape([line EXCEPT !.ended = x])
  <2>1. [line EXCEPT !.ended = x] = [form |-> form, slice |-> slice, open |-> open,
           close |-> close, row |-> row, size |-> size, ended |-> x]
    BY <1>1
  <2> QED
    BY <1>1, <2>1 DEF LineShape
<1> QED
  BY <1>2, <1>3, <1>4, <1>5, <1>6, <1>7

\* Whatever has happened to a file, it is lines.
LEMMA DamagedLines ==
    ASSUME NEW s, NEW lines, IsLines(lines), Len(lines) > 0, NEW found \in Damaged(s, lines)
    PROVE  IsLines(found)
<1>1. PICK n \in Nat : n = Len(lines) /\ DOMAIN lines = 1..n /\ n > 0
  BY DEF IsLines
<1>2. \A i \in 1..n : LineShape(lines[i])
  BY <1>1 DEF IsLines
<1>3. lines = [i \in 1..n |-> lines[i]]
  BY <1>1 DEF IsLines
<1>4. ASSUME NEW i \in 1..n, NEW line, LineShape(line) PROVE IsLines([lines EXCEPT ![i] = line])
  <2>1. PICK f : f = [lines EXCEPT ![i] = line]
    OBVIOUS
  <2>2. f = [j \in 1..n |-> f[j]] /\ \A j \in 1..n : f[j] = IF j = i THEN line ELSE lines[j]
    BY <1>1, <1>3, <2>1
  <2>3. \A j \in 1..n : LineShape(f[j])
    BY <1>2, <1>4, <2>2
  <2> QED
    BY <2>1, <2>2, <2>3, LinesIf
<1>5. CASE \E i \in 1..n : \E line \in FaultyLines(lines[i]) : found = [lines EXCEPT ![i] = line]
  <2>1. PICK i \in 1..n :
           \E line \in FaultyLines(lines[i]) : found = [lines EXCEPT ![i] = line]
    BY <1>5
  <2>2. PICK line : line \in FaultyLines(lines[i]) /\ found = [lines EXCEPT ![i] = line]
    BY <2>1
  <2>3. PICK old : old = lines[i] /\ LineShape(old)
    BY <1>2
  <2>4. \/ \E form \in {"bytes", "text", "JSON"} : line = [old EXCEPT !.form = form]
        \/ line = [old EXCEPT !.slice = NaN]
        \/ line = [old EXCEPT !.open = @ + 1]
        \/ \E row : line = [old EXCEPT !.row = row]
    BY <2>2, <2>3 DEF FaultyLines
  <2>5. LineShape(line)
    <3>1. PICK next : next = old.open + 1
      OBVIOUS
    <3>2. line = [old EXCEPT !.open = @ + 1] => line = [old EXCEPT !.open = next]
      BY <2>3, <3>1 DEF LineShape
    <3>3. \A form \in {"bytes", "text", "JSON"} : LineShape([old EXCEPT !.form = form])
      BY <2>3, ChangedLine
    <3>4. LineShape([old EXCEPT !.slice = NaN])
      BY <2>3, ChangedLine
    <3>5. LineShape([old EXCEPT !.open = next])
      BY <2>3, ChangedLine
    <3>6. \A row : LineShape([old EXCEPT !.row = row])
      BY <2>3, ChangedLine
    <3>7. CASE \E form \in {"bytes", "text", "JSON"} : line = [old EXCEPT !.form = form]
      BY <3>3, <3>7
    <3>8. CASE line = [old EXCEPT !.slice = NaN]
      BY <3>4, <3>8
    <3>9. CASE line = [old EXCEPT !.open = @ + 1]
      BY <3>2, <3>5, <3>9
    <3>10. CASE \E row : line = [old EXCEPT !.row = row]
      BY <3>6, <3>10
    <3> QED
      BY <2>4, <3>7, <3>8, <3>9, <3>10
  <2> QED
    BY <1>4, <2>2, <2>5
<1>6. CASE \E i \in 1..n, size \in Nat, ended \in BOOLEAN :
             found = [lines EXCEPT ![i].size = size, ![n].ended = ended]
  <2>1. PICK i \in 1..n, size \in Nat, ended \in BOOLEAN :
             found = [lines EXCEPT ![i].size = size, ![n].ended = ended]
    BY <1>6
  <2>2. PICK first : first = [lines[i] EXCEPT !.size = size] /\ LineShape(first)
    BY <1>2, ChangedLine
  <2>3. PICK f : f = [lines EXCEPT ![i] = first]
    OBVIOUS
  <2>4. IsLines(f) /\ DOMAIN f = 1..n /\ LineShape(f[n])
    <3>1. IsLines(f)
      BY <1>4, <2>2, <2>3
    <3>2. DOMAIN f = 1..n
      BY <1>1, <2>3
    <3> QED
      BY <1>1, <3>1, <3>2 DEF IsLines
  <2>5. PICK last : last = [f[n] EXCEPT !.ended = ended] /\ LineShape(last)
    BY <2>4, ChangedLine
  <2>6. found = [f EXCEPT ![n] = last]
    BY <2>1, <2>2, <2>3, <2>5
  <2>7. found = [j \in 1..n |-> found[j]] /\ \A j \in 1..n : found[j] = IF j = n THEN last ELSE f[j]
    BY <2>4, <2>6, <1>1
  <2>8. \A j \in 1..n : LineShape(found[j])
    BY <2>4, <2>5, <2>7 DEF IsLines
  <2> QED
    BY <2>7, <2>8, LinesIf
<1>7. CASE found = Reverse(lines)
  <2>1. found = [i \in 1..n |-> lines[(n - i) + 1]]
    BY <1>1, <1>7 DEF Reverse
  <2>2. \A i \in 1..n : (n - i) + 1 \in 1..n
    OBVIOUS
  <2>3. found = [i \in 1..n |-> found[i]] /\ \A i \in 1..n : LineShape(found[i])
    BY <1>2, <2>1, <2>2
  <2> QED
    BY <2>3, LinesIf
<1>8. CASE found = SubSeq(lines, 1, n - 1)
  <2>1. n - 1 \in Nat /\ \A i \in 1..(n - 1) : i \in 1..n
    BY <1>1
  <2>2. found = [i \in 1..(n - 1) |-> lines[i]]
    BY <1>1, <1>3, <1>8, <2>1
  <2>3. found = [i \in 1..(n - 1) |-> found[i]] /\ \A i \in 1..(n - 1) : LineShape(found[i])
    BY <1>2, <2>1, <2>2
  <2> QED
    BY <2>1, <2>3, LinesIf
<1>9. CASE \E row : found = Append(lines, RecordLine(s, row))
  <2>1. PICK line : LineShape(line) /\ found = Append(lines, line)
    BY <1>9, RecordLineShape
  <2>2. found = [i \in 1..(n + 1) |-> IF i = n + 1 THEN line ELSE lines[i]]
    <3>1. lines \in Seq({lines[i] : i \in DOMAIN lines})
      BY DEF IsLines
    <3> QED
      BY <1>1, <1>3, <2>1, <3>1
  <2>3. \A i \in 1..(n + 1) : i = n + 1 \/ i \in 1..n
    OBVIOUS
  <2>4. found = [i \in 1..(n + 1) |-> found[i]] /\ \A i \in 1..(n + 1) : LineShape(found[i])
    BY <1>2, <2>1, <2>2, <2>3
  <2>5. n + 1 \in Nat
    OBVIOUS
  <2> QED
    BY <2>4, <2>5, LinesIf
<1>10. {1, MaxLine, ReadSize, ReadSize + 1, 2 * ReadSize} \subseteq Nat
  BY DEF ReadSize
<1>11. \/ \E i \in 1..n : \E line \in FaultyLines(lines[i]) : found = [lines EXCEPT ![i] = line]
       \/ \E i \in 1..n, size \in {1, MaxLine, ReadSize, ReadSize + 1, 2 * ReadSize},
             ended \in BOOLEAN :
            found = [lines EXCEPT ![i].size = size, ![n].ended = ended]
       \/ found = Reverse(lines)
       \/ found = SubSeq(lines, 1, n - 1)
       \/ \E t \in OpensOf(s) : found = Append(lines, RecordLine(s, Row(t, After(s, t))))
  <2> DEFINE faulty == UNION {{[lines EXCEPT ![i] = line] : line \in FaultyLines(lines[i])}
                              : i \in 1..n}
             Stretched(i, size, ended) == [lines EXCEPT ![i].size = size, ![n].ended = ended]
             long == {Stretched(i, size, ended) :
                        i \in 1..n, size \in {1, MaxLine, ReadSize, ReadSize + 1, 2 * ReadSize},
                        ended \in BOOLEAN}
             moved == {Reverse(lines), SubSeq(lines, 1, n - 1)}
             more == {Append(lines, RecordLine(s, Row(t, After(s, t)))) : t \in OpensOf(s)}
  <2>1. Damaged(s, lines) = UNION {faulty, long, moved, more}
    BY <1>1 DEF Damaged
  <2>2. found \in faulty =>
          \E i \in 1..n : \E line \in FaultyLines(lines[i]) : found = [lines EXCEPT ![i] = line]
    OBVIOUS
  <2>3. found \in long =>
          \E i \in 1..n, size \in {1, MaxLine, ReadSize, ReadSize + 1, 2 * ReadSize},
             ended \in BOOLEAN : found = Stretched(i, size, ended)
    <3> HIDE DEF Stretched
    <3> QED
      OBVIOUS
  <2>4. found \in moved => found = Reverse(lines) \/ found = SubSeq(lines, 1, n - 1)
    OBVIOUS
  <2>5. found \in more =>
          \E t \in OpensOf(s) : found = Append(lines, RecordLine(s, Row(t, After(s, t))))
    OBVIOUS
  <2> HIDE DEF faulty, long, moved, more
  <2>6. found \in faulty \/ found \in long \/ found \in moved \/ found \in more
    BY <2>1
  <2> QED
    BY <2>2, <2>3, <2>4, <2>5, <2>6
<1> QED
  BY <1>5, <1>6, <1>7, <1>8, <1>9, <1>10, <1>11

-----------------------------------------------------------------------------
(* The conversions in the archive *)

ArchiveInv == DownloaderInv /\ StreamInv /\ WorkInv

\* What a complete manifest lists.
LEMMA ListedFiles ==
    ASSUME DownloaderInv, Complete
    PROVE  /\ manifest.request \in Requests
           /\ manifest.request.start \in Nat /\ manifest.request.end \in Nat
           /\ manifest.request.start < manifest.request.end
           /\ \A s \in DOMAIN manifest.files :
                /\ s \in 1..Slices /\ s \in Nat
                /\ file[s].opens \subseteq history[s] /\ file[s].opens \in SUBSET (0..Horizon)
                /\ file[s].opens # {}
                /\ \A t \in file[s].opens : t \in OpensOf(s)
<1>1. SoundArchive /\ DownloaderTyped
  BY DEF DownloaderInv
<1>2. manifest.request \in Requests /\ DOMAIN manifest.files \subseteq 1..Slices
  BY <1>1 DEF SoundArchive, Agrees
<1>3. /\ manifest.request.start \in Nat /\ manifest.request.end \in Nat
      /\ manifest.request.start < manifest.request.end
  BY <1>2 DEF Requests, Opens
<1>4. ASSUME NEW s \in DOMAIN manifest.files
      PROVE  /\ s \in 1..Slices /\ s \in Nat
             /\ file[s].opens \subseteq history[s] /\ file[s].opens \in SUBSET (0..Horizon)
             /\ file[s].opens # {}
             /\ \A t \in file[s].opens : t \in OpensOf(s)
  <2>1. s \in 1..Slices
    BY <1>2
  <2>2. file[s].opens # {} /\ file[s].opens \subseteq history[s]
    BY <1>1, <2>1 DEF SoundArchive, DownloaderInv, SoundFile
  <2>3. history[s] \in Histories(s)
    BY <1>1, <2>1 DEF DownloaderTyped
  <2>4. history[s] \subseteq OpensOf(s) /\ history[s] \subseteq 0..Horizon
    BY <2>1, <2>3, HistoryHas DEF Histories
  <2> QED
    BY <2>1, <2>2, <2>4
<1> QED
  BY <1>2, <1>3, <1>4

\* What is opened: the first file that waits, as it was written or damaged.
LEMMA ItemOpened ==
    ASSUME DownloaderInv, WorkInv, OpenItem
    PROVE  StreamInv' /\ InWork'
<1>1. /\ work = "ready" /\ Waiting # {} /\ item' = Min({w.slice : w \in Waiting})
      /\ UNCHANGED <<file, manifest>>
  BY DEF OpenItem, downloaderVars, disk
<1>2. Complete
  BY <1>1 DEF WorkInv
<1>3. item' \in DOMAIN manifest.files
  <2>1. PICK waiting : waiting = {w.slice : w \in Waiting}
    OBVIOUS
  <2>2. waiting \subseteq DOMAIN manifest.files /\ waiting # {}
    BY <1>1, <2>1 DEF Waiting, WorkItems, WorkItem
  <2>3. DOMAIN manifest.files \subseteq Nat
    BY <1>2, ListedFiles
  <2>4. Min(waiting) \in waiting
    BY <2>2, <2>3, MinOf
  <2> QED
    BY <1>1, <2>1, <2>2, <2>4
<1>4. PICK s : s = item'
  OBVIOUS
<1>5. s \in DOMAIN manifest.files
  BY <1>3, <1>4
<1>6. PICK opens \in SUBSET (0..Horizon) : opens = file'[s].opens /\ opens # {}
  BY <1>1, <1>2, <1>5, ListedFiles
<1>7. PICK written : written = LinesOf(s, opens)
  OBVIOUS
<1>8. PICK of : of = [slice |-> s, interval |-> IntervalOf(s), range |-> manifest.request]
  OBVIOUS
<1>9. PICK lines :
         /\ lines = written \/ (~damaged /\ lines \in Damaged(s, written))
         /\ Open(lines, of) /\ damaged' = (damaged \/ lines # written)
  <2>1. file'[s].opens = file[item'].opens
    BY <1>1, <1>4
  <2>2. \E lines \in {written} \union (IF damaged THEN {} ELSE Damaged(s, written)) :
          Open(lines, of) /\ damaged' = (damaged \/ lines # written)
    BY <1>4, <1>6, <1>7, <1>8, <2>1 DEF OpenItem, WorkItem
  <2> QED
    BY <2>2
<1>10. IsLines(written) /\ Len(written) > 0
  <2>1. /\ IsLines(LinesOf(s, opens)) /\ Len(LinesOf(s, opens)) = Cardinality(opens)
        /\ Cardinality(opens) \in Nat
    BY LinesAre
  <2>2. IsFiniteSet(opens)
    BY BoundedIsFinite
  <2>3. Cardinality(opens) # 0
    BY <1>6, <2>2, FS_EmptySet
  <2> QED
    BY <1>7, <2>1, <2>3
<1>11. IsLines(lines)
  BY <1>9, <1>10, DamagedLines
<1>12. of.range.start \in Nat /\ of.range.end \in Nat
  BY <1>2, <1>8, ListedFiles
<1>13. StreamInv'
  BY <1>9, <1>11, <1>12, StreamOpens DEF Open
<1>14. InWork'
  <2>1. context' = of /\ raw' = lines
    BY <1>9 DEF Open
  <2>2. ~damaged' => raw' = written
    BY <1>9, <2>1
  <2> QED
    BY <1>1, <1>4, <1>5, <1>6, <1>7, <1>8, <2>1, <2>2 DEF InWork
<1> QED
  BY <1>13, <1>14

LEMMA StreamKept == ASSUME StreamInv, UNCHANGED streamVars PROVE StreamInv'
<1>1. UNCHANGED <<raw, context, step, report, output, pending>>
  BY DEF streamVars
<1>2. StreamTyped'
  BY <1>1, StreamStaysTyped DEF StreamInv, StreamTyped
<1>3. Dealt' = Dealt
  BY <1>1 DEF Dealt
<1>4. ASSUME step \in Running
      PROVE  Written' /\ WholeUnits' /\ CountedAsWritten' /\ Covered' /\ Underway'
  <2>1. report' = [report EXCEPT !.seen = report'.seen]
    BY <1>1 DEF StreamInv, StreamTyped, Reports
  <2>2. Written' /\ CountedAsWritten' /\ Covered'
    BY <1>1, <1>3, <1>4, <2>1, WrittenStays
  <2>3. WholeUnits /\ Underway /\ Candles' = Candles
    BY <1>1, <1>4, SameLines DEF StreamInv, Running
  <2>4. WholeUnits'
    BY <1>1, <1>3, <2>3 DEF WholeUnits
  <2>5. Underway'
    BY <1>1, <2>3 DEF Underway
  <2> QED
    BY <2>2, <2>4, <2>5
<1> QED
  BY <1>1, <1>2, <1>4 DEF StreamInv, Running

LEMMA NoLines == IsLines(<<>>)
<1>1. PICK f : f = <<>>
  OBVIOUS
<1>2. f = [i \in 1..0 |-> f[i]] /\ \A i \in 1..0 : LineShape(f[i])
  BY <1>1
<1>3. IsLines(f)
  BY <1>2, LinesIf
<1> QED
  BY <1>1, <1>3

LEMMA StreamStarts == ASSUME StreamInit PROVE StreamInv
<1>1. NoReport \in Reports
  BY DEF NoReport, Reports
<1>2. NoOutput \in Outputs
  <2>1. <<>> \in Seq(Nat) /\ <<>> \in Seq(Nat \X Verdicts)
    OBVIOUS
  <2> QED
    BY <2>1 DEF NoOutput, Outputs
<1>3. NoPending \in Pendings
  BY DEF NoPending, Pendings
<1>4. context.range.start \in Nat /\ context.range.end \in Nat
  BY DEF StreamInit, NoContext
<1> QED
  BY <1>1, <1>2, <1>3, <1>4, NoLines DEF StreamInit, StreamInv, StreamTyped

LEMMA StreamInArchive == ASSUME ArchiveInv, [Next]_vars PROVE StreamInv'
<1>1. DownloaderInv /\ StreamInv /\ WorkInv
  BY DEF ArchiveInv
<1>2. CASE OpenItem
  BY <1>1, <1>2, ItemOpened
<1>3. CASE Convert
  BY <1>1, <1>3, StreamStepKeeps DEF Convert
<1>4. CASE ConvertFails
  BY <1>1, <1>4, StreamFailsKeeps DEF ConvertFails
<1>5. CASE FinishItem
  <2>1. /\ raw' = <<>> /\ context' = NoContext /\ step' = "none" /\ report' = NoReport
        /\ output' = NoOutput /\ pending' = NoPending
    BY <1>5 DEF FinishItem
  <2>2. NoContext.range.start \in Nat /\ NoContext.range.end \in Nat
    BY DEF NoContext
  <2> QED
    BY <2>1, <2>2, NoLines, StreamOpens
<1>6. CASE Downloading \/ Elsewhere \/ Plan \/ BuildManifest \/ UNCHANGED vars
  <2>1. UNCHANGED streamVars
    BY <1>6 DEF Downloading, Elsewhere, Plan, BuildManifest, vars
  <2> QED
    BY <1>1, <2>1, StreamKept
<1> QED
  BY <1>2, <1>3, <1>4, <1>5, <1>6 DEF Next, Converting

\* As many units as lines, when every line takes one.
LEMMA SizeOfLines ==
    ASSUME NEW n \in Nat, DOMAIN raw = 1..n, \A i \in 1..n : raw[i].size = 1
    PROVE  RawSize = n
<1> DEFINE First(T) == CHOOSE i \in T : TRUE
           Sums(F) == F = [T \in SUBSET DOMAIN raw |->
                             IF T = {} THEN 0 ELSE raw[First(T)].size + F[T \ {First(T)}]]
           sum == CHOOSE F : Sums(F)
           lines == [T \in SUBSET DOMAIN raw |-> Cardinality(T)]
<1>1. RawSize = sum[DOMAIN raw]
  BY DEF RawSize, FoldSeq, FoldFunction, FoldFunctionOnSet, MapThenFoldSet
<1>2. \A T \in SUBSET DOMAIN raw : IsFiniteSet(T) /\ Cardinality(T) \in Nat
  <2>1. IsFiniteSet(1..n)
    BY FS_Interval
  <2> QED
    BY <2>1, FS_Subset, FS_CardinalityType
<1>3. ASSUME NEW T \in SUBSET DOMAIN raw, T # {}
      PROVE  /\ First(T) \in T /\ raw[First(T)].size = 1
             /\ T \ {First(T)} \in SUBSET DOMAIN raw
             /\ Cardinality(T) = 1 + Cardinality(T \ {First(T)})
  <2>1. PICK i \in T : i = First(T)
    BY <1>3
  <2>2. Cardinality(T \ {i}) = Cardinality(T) - 1
    BY <1>2, FS_RemoveElement
  <2>3. Cardinality(T) \in Nat /\ T \ {i} \in SUBSET DOMAIN raw
    BY <1>2
  <2> QED
    BY <2>1, <2>2, <2>3
<1>4. Cardinality({}) = 0
  BY FS_EmptySet
<1> HIDE DEF First
<1>5. \A T \in SUBSET DOMAIN raw :
         lines[T] = IF T = {} THEN 0 ELSE raw[First(T)].size + lines[T \ {First(T)}]
  BY <1>3, <1>4
<1>6. Sums(lines)
  BY <1>5
<1>7. Sums(sum)
  <2>1. \E F : Sums(F)
    BY <1>6
  <2> HIDE DEF Sums
  <2> QED
    BY <2>1
<1>8. PICK F : F = sum
  OBVIOUS
<1>9. \A T \in SUBSET DOMAIN raw :
         F[T] = IF T = {} THEN 0 ELSE raw[First(T)].size + F[T \ {First(T)}]
  BY <1>7, <1>8
<1> HIDE DEF sum, Sums, lines
<1> DEFINE wrong == {Cardinality(T) : T \in {U \in SUBSET DOMAIN raw : F[U] # Cardinality(U)}}
<1>10. wrong = {}
  <2> SUFFICES ASSUME wrong # {} PROVE FALSE
    OBVIOUS
  <2>1. wrong \subseteq Nat
    BY <1>2
  <2>2. PICK m \in wrong : \A k \in wrong : m <= k
    <3> HIDE DEF wrong
    <3> QED
      BY <2>1, MinOf
  <2>3. PICK T \in SUBSET DOMAIN raw : m = Cardinality(T) /\ F[T] # Cardinality(T)
    OBVIOUS
  <2>4. T # {}
    BY <1>4, <1>9, <2>3
  <2>5. PICK U \in SUBSET DOMAIN raw : U = T \ {First(T)}
    BY <1>3, <2>4
  <2>6. Cardinality(T) = 1 + Cardinality(U) /\ F[T] = 1 + F[U]
    BY <1>3, <1>9, <2>4, <2>5
  <2>7. F[U] # Cardinality(U)
    BY <2>3, <2>6
  <2>8. Cardinality(U) \in wrong
    BY <2>7
  <2>9. m <= Cardinality(U) /\ Cardinality(U) \in Nat
    BY <1>2, <2>2, <2>8
  <2> QED
    BY <2>3, <2>6, <2>9
<1>11. F[DOMAIN raw] = Cardinality(DOMAIN raw)
  BY <1>10
<1>12. Cardinality(1..n) = n
  <2>1. Cardinality(1..n) = IF 1 > n THEN 0 ELSE n - 1 + 1
    BY FS_Interval
  <2> QED
    BY <2>1
<1> QED
  BY <1>1, <1>8, <1>11, <1>12

-----------------------------------------------------------------------------
(* What the downloader writes and what the conversion accepts *)

\* The klines of a file of one request are in its range.
LEMMA CleanKlines ==
    ASSUME DownloaderInv, Complete, Unmixed, NEW s \in DOMAIN manifest.files,
           NEW t \in file[s].opens
    PROVE  /\ HasBoundary(t, IntervalOf(s))
           /\ t \in Nat /\ After(s, t) \in Nat /\ t < After(s, t)
           /\ manifest.request.start <= t /\ After(s, t) <= manifest.request.end
<1>1. /\ s \in 1..Slices /\ t \in OpensOf(s) /\ t \in file[s].opens
  BY ListedFiles
<1>2. file[s].opens = ClosedOf(s, manifest.request, manifest.serverTime)
  BY <1>1 DEF DownloaderInv, SoundArchive, Unmixed
<1>3. manifest.request.start <= t /\ After(s, t) <= manifest.request.end
  BY <1>2 DEF ClosedOf
<1> QED
  BY <1>1, <1>3, AfterFollows DEF OpensOf

\* The conversion accepts a row of a kline unless it is odd.
LEMMA RowsConvert ==
    ASSUME NEW s \in 1..Slices, NEW t, HasBoundary(t, IntervalOf(s))
    PROVE  /\ RowAt(s, t).open = t /\ RowAt(s, t).close = After(s, t)
           /\ Convertible(RowAt(s, t), IntervalOf(s)) <=> <<s, t>> \notin Odd
<1>1. PICK close \in Nat : close = After(s, t) /\ close = Boundary(t, IntervalOf(s)) /\ t \in Nat
  BY BoundaryFollows DEF After
<1>2. PICK row : row = Row(t, close)
  OBVIOUS
<1>3. PICK price : price = [open |-> 1, high |-> 2, low |-> 1, close |-> 2]
  OBVIOUS
<1>4. PICK amount : amount = <<1, 0, 1, 0>>
  OBVIOUS
<1>5. row = [open |-> t, close |-> close, trades |-> 1, price |-> price, amount |-> amount]
  BY <1>2, <1>3, <1>4 DEF Row
<1>6. CASE <<s, t>> \in Odd
  <2>1. PICK odd : odd = RowAt(s, t) /\ odd = [row EXCEPT !.price.high = 0]
    BY <1>1, <1>2, <1>6 DEF RowAt
  <2>2. odd.open = t /\ odd.close = close /\ odd.price = [price EXCEPT !.high = 0]
    BY <1>5, <2>1
  <2>3. odd.price.high = 0 /\ odd.price.low = 1
    BY <1>3, <2>2
  <2>4. ~Priced(odd.price)
    BY <2>3 DEF Priced
  <2> QED
    BY <1>1, <1>6, <2>1, <2>2, <2>4 DEF Convertible, Candle
<1>7. CASE <<s, t>> \notin Odd
  <2>1. RowAt(s, t) = row
    BY <1>1, <1>2, <1>7 DEF RowAt
  <2>2. row # NaN
    <3>1. price \in [open : Int, high : Int, low : Int, close : Int]
      BY <1>3
    <3>2. amount \in Seq(Int)
      BY <1>4
    <3>3. row \in TypedRows
      BY <1>1, <1>5, <3>1, <3>2 DEF TypedRows
    <3> QED
      BY <3>3, NaNAssumption
  <2>3. /\ row.open = t /\ row.close = close /\ row.trades = 1
        /\ row.price = price /\ row.amount = amount
    BY <1>5
  <2>4. Priced(price)
    <3>1. DOMAIN price = {"open", "high", "low", "close"}
      BY <1>3
    <3>2. price.open = 1 /\ price.high = 2 /\ price.low = 1 /\ price.close = 2
      BY <1>3
    <3>3. Decimal(1) /\ Decimal(2)
      BY DEF Decimal
    <3>4. \A f \in DOMAIN price : Decimal(price[f])
      BY <3>1, <3>2, <3>3
    <3>5. price.low <= price.high
      BY <3>2
    <3>6. \A f \in {"open", "close"} : price.low <= price[f] /\ price[f] <= price.high
      BY <3>2
    <3> QED
      BY <3>4, <3>5, <3>6 DEF Priced
  <2>5. \A i \in DOMAIN amount : NonNegative(amount[i])
    BY <1>4 DEF NonNegative, Decimal
  <2>6. NonNegative(1)
    BY DEF NonNegative, Decimal
  <2>7. Candle(row, IntervalOf(s))
    BY <1>1, <2>3, <2>4, <2>5, <2>6 DEF Candle
  <2>8. Bounded(row, IntervalOf(s))
    BY <1>1, <2>2, <2>3 DEF Bounded
  <2> QED
    BY <1>1, <1>7, <2>1, <2>3, <2>7, <2>8 DEF Convertible
<1> QED
  BY <1>6, <1>7

\* Of an untouched file of one request the conversion makes candles of all
\* rows that are not odd.
LEMMA CleanCandles ==
    ASSUME ArchiveInv, work = "converting", Clean
    PROVE  LET opens == file[item].opens
           IN  /\ item \in DOMAIN manifest.files /\ Cardinality(opens) \in Nat
               /\ Len(raw) = Cardinality(opens) /\ Cardinality(opens) > 0
               /\ \A i \in 1..Len(raw) : raw[i].size = 1
               /\ Cardinality(Candles) = Cardinality(opens \ OddOf(item))
<1>1. /\ Complete /\ Unmixed /\ DownloaderInv /\ StreamTyped
      /\ item \in DOMAIN manifest.files
      /\ context = [slice |-> item, interval |-> IntervalOf(item), range |-> manifest.request]
      /\ raw = LinesOf(item, file[item].opens)
  BY DEF ArchiveInv, WorkInv, InWork, Clean, StreamInv
<1>2. PICK s : s = item
  OBVIOUS
<1>3. PICK opens \in SUBSET (0..Horizon) : opens = file[s].opens /\ opens # {}
  BY <1>1, <1>2, ListedFiles
<1>4. PICK sorted : sorted = Ascending(opens)
  OBVIOUS
<1>5. PICK n \in Nat : n = Cardinality(opens)
  BY <1>3, LinesAre
<1>6. /\ \A i \in 1..n : raw[i] = RecordLine(s, RowAt(s, sorted[i]))
      /\ Len(raw) = n /\ DOMAIN raw = 1..n
  <2>1. /\ \A i \in 1..Cardinality(opens) :
             LinesOf(s, opens)[i] = RecordLine(s, RowAt(s, Ascending(opens)[i]))
        /\ Len(LinesOf(s, opens)) = Cardinality(opens)
    BY LinesAre
  <2>2. Len(raw) = n /\ DOMAIN raw = 1..n
    BY <1>1, <1>2, <1>3, <1>5, <2>1, Places
  <2> QED
    BY <1>1, <1>2, <1>3, <1>4, <1>5, <2>1, <2>2
<1>7. /\ sorted \in [1..n -> opens] /\ \A i, j \in 1..n : i < j => sorted[i] < sorted[j]
      /\ \A t \in opens : \E i \in 1..n : sorted[i] = t
  <2>1. InOrderOf(sorted, opens)
    BY <1>4, AscendingOrders
  <2>2. \A t \in opens : \E i \in 1..Cardinality(opens) : sorted[i] = t
    BY <2>1, OrderListsAll
  <2> QED
    BY <1>5, <2>1, <2>2 DEF InOrderOf
<1>8. ASSUME NEW i \in 1..n
      PROVE  /\ raw[i] = RecordLine(s, RowAt(s, sorted[i])) /\ raw[i].size = 1
             /\ raw[i].open = sorted[i] /\ sorted[i] \in Nat
             /\ Fits(raw[i]) <=> <<s, sorted[i]>> \notin Odd
  <2>1. PICK t \in opens : t = sorted[i]
    BY <1>7
  <2>2. PICK row : row = RowAt(s, t)
    OBVIOUS
  <2>3. PICK line : line = raw[i] /\ line = RecordLine(s, row)
    BY <1>6, <2>1, <2>2
  <2>4. LineShape(line) /\ line.size = 1
    BY <2>3, RecordLineShape
  <2>5. /\ line.form = "envelope" /\ line.slice = s /\ line.open = row.open
        /\ line.close = row.close /\ line.row = row
    BY <2>3 DEF RecordLine, Line
  <2>6. /\ HasBoundary(t, IntervalOf(s))
        /\ t \in Nat /\ After(s, t) \in Nat /\ t < After(s, t)
        /\ manifest.request.start <= t /\ After(s, t) <= manifest.request.end
    BY <1>1, <1>2, <1>3, <2>1, CleanKlines
  <2>7. s \in 1..Slices
    BY <1>1, <1>2, ListedFiles
  <2>8. /\ row.open = t /\ row.close = After(s, t)
        /\ Convertible(row, IntervalOf(s)) <=> <<s, t>> \notin Odd
    BY <2>2, <2>6, <2>7, RowsConvert
  <2>9. InRange(line)
    <3>1. context.range.start <= t /\ After(s, t) <= context.range.end
      BY <1>1, <2>6
    <3>2. t < context.range.end
      <4>1. context.range.end \in Nat
        BY <1>1 DEF StreamTyped
      <4> QED
        BY <2>6, <3>1, <4>1
    <3> QED
      BY <2>5, <2>8, <3>1, <3>2 DEF InRange
  <2>10. line.size <= MaxLine
    BY <2>4
  <2>11. Fits(line) <=> Convertible(row, IntervalOf(s))
    <3>1. context.slice = s /\ context.interval = IntervalOf(s)
      BY <1>1, <1>2
    <3> QED
      BY <2>4, <2>5, <2>8, <2>9, <2>10, <3>1, FitsIs
  <2> QED
    BY <2>1, <2>2, <2>3, <2>4, <2>5, <2>6, <2>8, <2>11
<1>9. Candles = {i \in 1..n : <<s, sorted[i]>> \notin Odd}
  <2>1. DOMAIN raw = 1..n
    BY <1>6
  <2>2. ASSUME NEW i \in 1..n, NEW j \in 1..(i - 1) PROVE raw[j].open <= raw[i].open
    <3>1. j \in 1..n /\ j < i
      OBVIOUS
    <3>2. sorted[j] < sorted[i]
      BY <1>7, <3>1
    <3>3. raw[i].open = sorted[i] /\ sorted[i] \in Nat
      BY <1>8
    <3>4. raw[j].open = sorted[j] /\ sorted[j] \in Nat
      BY <1>8, <3>1
    <3> QED
      BY <3>2, <3>3, <3>4
  <2>3. \A i \in 1..n : i \in Candles <=> Fits(raw[i])
    BY <2>1, <2>2 DEF Candles
  <2>4. Candles \subseteq 1..n
    BY <2>1 DEF Candles
  <2> QED
    BY <1>8, <2>3, <2>4
<1>10. PICK even : even = opens \ OddOf(s)
  OBVIOUS
<1>11. even = {t \in opens : <<s, t>> \notin Odd}
  BY <1>3, <1>10 DEF OddOf
<1>12. Cardinality(Candles) = Cardinality(even)
  <2>1. PICK places : places = Candles
    OBVIOUS
  <2>2. IsFiniteSet(places)
    <3>1. IsFiniteSet(1..n)
      BY FS_Interval
    <3>2. places \subseteq 1..n
      BY <1>9, <2>1
    <3> QED
      BY <3>1, <3>2, FS_Subset
  <2>3. ExistsBijection(places, even)
    <3>1. PICK f : f = [i \in places |-> sorted[i]]
      OBVIOUS
    <3>2. \A i \in places : i \in 1..n /\ f[i] = sorted[i] /\ f[i] \in even
      BY <1>7, <1>9, <1>11, <2>1, <3>1
    <3>3. f \in [places -> even]
      BY <3>1, <3>2
    <3>4. ASSUME NEW i \in places, NEW j \in places, f[i] = f[j] PROVE i = j
      <4>1. sorted[i] = sorted[j] /\ i \in 1..n /\ j \in 1..n
        BY <3>2, <3>4
      <4>2. sorted[i] \in Nat /\ sorted[j] \in Nat
        BY <1>8, <4>1
      <4>3. ~(i < j) /\ ~(j < i)
        BY <1>7, <4>1, <4>2
      <4> QED
        BY <4>1, <4>3
    <3>5. ASSUME NEW t \in even PROVE \E i \in places : f[i] = t
      <4>1. PICK i \in 1..n : sorted[i] = t
        BY <1>7, <1>11
      <4>2. i \in places
        BY <1>9, <1>11, <2>1, <4>1
      <4> QED
        BY <3>2, <4>1, <4>2
    <3>6. f \in Injection(places, even)
      BY <3>3, <3>4 DEF Injection, IsInjective
    <3>7. f \in Surjection(places, even)
      BY <3>3, <3>5 DEF Surjection
    <3> QED
      BY <3>6, <3>7 DEF Bijection, ExistsBijection
  <2> QED
    BY <2>1, <2>2, <2>3, FS_Bijection
<1>13. n > 0
  <2>1. IsFiniteSet(opens)
    BY BoundedIsFinite
  <2>2. n # 0
    BY <1>3, <1>5, <2>1, FS_EmptySet
  <2> QED
    BY <2>2
<1> QED
  BY <1>1, <1>2, <1>3, <1>5, <1>6, <1>8, <1>10, <1>12, <1>13

\* What the report on a file says.
LEMMA ReportIs ==
    ASSUME StreamInv, step = "reported"
    PROVE  /\ report.seen = Len(raw) /\ report.written = Cardinality(Candles)
           /\ report.seen = report.written + report.quarantined
           /\ report.written \in Nat /\ report.quarantined \in Nat
           /\ report.first \in Nat /\ report.end \in Nat
           /\ IF report.written = 0 THEN report.first = 0 /\ report.end = 0
              ELSE /\ context.range.start <= report.first /\ report.first < report.end
                   /\ report.end <= context.range.end
<1>1. StreamTyped /\ Written /\ CountedAsWritten /\ Covered /\ Underway
  BY DEF StreamInv
<1>2. /\ report.written \in Nat /\ report.quarantined \in Nat
      /\ report.first \in Nat /\ report.end \in Nat
  BY <1>1 DEF StreamTyped, Reports
<1>3. PICK n \in Nat : n = Len(raw) /\ n = report.seen /\ n = Dealt
  BY <1>1, Places DEF Underway, Dealt
<1>4. PICK candles \in SUBSET (0..n) : candles = Candles /\ candles = Found(n)
  <2>1. Found(n) = Candles
    BY <1>1, <1>3, Places DEF Found
  <2>2. Found(n) \in SUBSET (0..n)
    BY <1>1, <1>3, Places
  <2> QED
    BY <2>1, <2>2
<1>5. PICK order : order = Ascending(candles)
  OBVIOUS
<1>6. PICK m \in Nat : m = Cardinality(candles) /\ DOMAIN order = 1..m
  BY <1>5, AscendingOrders, BoundedIsFinite DEF InOrderOf
<1>7. Len(output.research) = m
  <2>1. output.research = [k \in 1..m |-> raw[order[k]].open]
    BY <1>1, <1>3, <1>4, <1>5, <1>6 DEF Written
  <2> QED
    BY <2>1
<1>8. report.written = m /\ report.written + report.quarantined = n
  BY <1>1, <1>3, <1>7 DEF CountedAsWritten
<1> QED
  BY <1>1, <1>2, <1>3, <1>4, <1>6, <1>8 DEF Covered

\* An untouched file of one request makes a sound artifact.
LEMMA ArtifactIsSound ==
    ASSUME ArchiveInv, work = "converting", step = "reported", Clean,
           NEW a, a = Artifact(report, RawSize)
    PROVE  /\ ArtifactContract(a)
           /\ a.seen = Cardinality(file[item].opens)
           /\ a.quarantined = Cardinality(OddOf(item))
           /\ a.written = Cardinality(file[item].opens \ OddOf(item))
           /\ a.first \in Nat /\ a.end \in Nat
           /\ a.written > 0 => /\ manifest.request.start <= a.first /\ a.first < a.end
                               /\ a.end <= manifest.request.end
<1>1. /\ report.seen = Len(raw) /\ report.written = Cardinality(Candles)
      /\ report.seen = report.written + report.quarantined
      /\ report.written \in Nat /\ report.quarantined \in Nat
      /\ report.first \in Nat /\ report.end \in Nat
      /\ IF report.written = 0 THEN report.first = 0 /\ report.end = 0
         ELSE /\ context.range.start <= report.first /\ report.first < report.end
              /\ report.end <= context.range.end
  BY ReportIs DEF ArchiveInv
<1>2. PICK opens : opens = file[item].opens
  OBVIOUS
<1>3. /\ item \in DOMAIN manifest.files /\ Cardinality(opens) \in Nat
      /\ Len(raw) = Cardinality(opens) /\ Cardinality(opens) > 0
      /\ \A i \in 1..Len(raw) : raw[i].size = 1
      /\ Cardinality(Candles) = Cardinality(opens \ OddOf(item))
  BY <1>2, CleanCandles
<1>4. PICK n \in Nat : n = Len(raw) /\ n > 0 /\ DOMAIN raw = 1..n
  BY <1>3, Places DEF ArchiveInv, StreamInv
<1>5. RawSize = n
  BY <1>3, <1>4, SizeOfLines
<1>6. /\ a.seen = n /\ a.written = report.written /\ a.quarantined = report.quarantined
      /\ a.first = report.first /\ a.end = report.end /\ a.rawSize = n
  BY <1>1, <1>4, <1>5 DEF Artifact
<1>7. ArtifactContract(a)
  BY <1>1, <1>4, <1>6 DEF ArtifactContract, ReportContract
<1>8. Complete /\ DownloaderInv /\ context.range = manifest.request
  BY DEF ArchiveInv, WorkInv, InWork
<1>9. Cardinality(OddOf(item)) = report.quarantined
  <2>1. IsFiniteSet(opens)
    BY <1>2, <1>3, <1>8, ListedFiles, BoundedIsFinite
  <2>2. opens \intersect OddOf(item) = OddOf(item)
    BY <1>2 DEF OddOf
  <2>3. PICK odd \in Nat : odd = Cardinality(OddOf(item))
    <3>1. OddOf(item) \subseteq opens
      BY <1>2 DEF OddOf
    <3> QED
      BY <2>1, <3>1, FS_Subset, FS_CardinalityType
  <2>4. Cardinality(opens \ OddOf(item)) = Cardinality(opens) - odd
    BY <2>1, <2>2, <2>3, FS_Difference
  <2>5. PICK all \in Nat, even \in Nat, bad \in Nat :
           /\ all = Cardinality(opens) /\ even = report.written /\ bad = report.quarantined
           /\ all = even + bad /\ even = Cardinality(opens \ OddOf(item))
    BY <1>1, <1>3
  <2>6. odd = bad
    BY <2>4, <2>5
  <2> QED
    BY <2>3, <2>5, <2>6
<1>10. a.written > 0 => /\ manifest.request.start <= a.first /\ a.first < a.end
                        /\ a.end <= manifest.request.end
  BY <1>1, <1>6, <1>8
<1> QED
  BY <1>1, <1>2, <1>3, <1>4, <1>6, <1>7, <1>9, <1>10

-----------------------------------------------------------------------------
(* The contracts of the manifests *)

\* A complete manifest of untouched files keeps the contract of the conversion.
LEMMA RawContractHolds ==
    ASSUME DownloaderInv, Complete, Unmixed
    PROVE  RawContract(manifest)
<1>1. SoundArchive
  BY DEF DownloaderInv
<1>2. /\ manifest.failed = FALSE /\ manifest.count = RecordCount(manifest.files)
      /\ ActualContract(manifest)
  BY <1>1 DEF SoundArchive, Agrees
<1>3. manifest.request.start < manifest.request.end
  BY ListedFiles
<1>4. ASSUME NEW s \in DOMAIN manifest.files
      PROVE  FileContract(manifest.files[s], manifest.request)
  <2>1. PICK opens \in SUBSET (0..Horizon) : opens = file[s].opens /\ opens # {}
    BY ListedFiles
  <2>2. manifest.files[s] = FileInfo(s, opens)
    BY <1>1, <2>1, ListedFiles DEF SoundArchive
  <2>3. PICK first \in opens : first = Min(opens) /\ \A t \in opens : first <= t
    BY <2>1, MinOf
  <2>4. PICK last \in opens : last = Max(opens) /\ \A t \in opens : t <= last
    BY <2>1, MaxOf
  <2>5. /\ first \in Nat /\ manifest.request.start <= first
    BY <2>1, CleanKlines
  <2>6. /\ last \in Nat /\ After(s, last) \in Nat /\ last < After(s, last)
        /\ After(s, last) <= manifest.request.end
    BY <2>1, CleanKlines
  <2>7. first <= last
    BY <2>3
  <2>8. first < After(s, last)
    BY <2>5, <2>6, <2>7
  <2>9. manifest.files[s].first = first /\ manifest.files[s].end = After(s, last)
    BY <2>2, <2>3, <2>4 DEF FileInfo
  <2> QED
    BY <2>5, <2>6, <2>8, <2>9 DEF FileContract
<1>5. manifest.count = Total(LAMBDA s : manifest.files[s].records, DOMAIN manifest.files)
  BY <1>2 DEF RecordCount, Total, MapThenSumSet, MapThenFoldSet
<1> QED
  BY <1>2, <1>3, <1>4, <1>5 DEF RawContract, Complete

\* And the artifacts of all its files that of the research manifest.
LEMMA DatasetContractHolds ==
    ASSUME ArchiveInv, work = "ready", Clean, DOMAIN artifacts = DOMAIN manifest.files
    PROVE  DatasetContract(manifest, artifacts)
<1>1. /\ DownloaderInv /\ Complete /\ Unmixed /\ SoundArchive
      /\ \A s \in DOMAIN artifacts : SoundArtifact(s)
  BY DEF ArchiveInv, WorkInv, Clean, DownloaderInv
<1>2. RawContract(manifest)
  BY <1>1, RawContractHolds
<1>3. ASSUME NEW s \in DOMAIN artifacts PROVE artifacts[s].seen = manifest.files[s].records
  <2>1. s \in DOMAIN manifest.files /\ s \in 1..Slices
    BY <1>1, <1>3, ListedFiles
  <2>2. manifest.files[s] = FileInfo(s, file[s].opens)
    BY <1>1, <2>1 DEF SoundArchive
  <2>3. manifest.files[s].records = Cardinality(file[s].opens)
    BY <2>2 DEF FileInfo
  <2> QED
    BY <1>1, <1>3, <2>3 DEF SoundArtifact
<1>4. CoverageContract(artifacts, manifest.request)
  <2> DEFINE accepted == {s \in DOMAIN artifacts : artifacts[s].written > 0}
             firsts == {artifacts[s].first : s \in accepted}
             ends == {artifacts[s].end : s \in accepted}
  <2> SUFFICES ASSUME accepted # {}
               PROVE  /\ manifest.request.start <= Min(firsts)
                      /\ Max(ends) <= manifest.request.end /\ Min(firsts) < Max(ends)
    BY DEF CoverageContract
  <2>1. PICK low \in Nat, high \in Nat :
           low = manifest.request.start /\ high = manifest.request.end
    BY <1>1, ListedFiles
  <2>2. \A s \in accepted : /\ artifacts[s].first \in Nat /\ artifacts[s].end \in Nat
                            /\ low <= artifacts[s].first /\ artifacts[s].first < artifacts[s].end
                            /\ artifacts[s].end <= high
    BY <1>1, <2>1 DEF SoundArtifact
  <2>3. firsts \subseteq Nat /\ firsts # {}
    BY <2>2
  <2>4. ends \subseteq 0..high /\ ends # {}
    BY <2>2
  <2>5. PICK first \in firsts : first = Min(firsts) /\ \A k \in firsts : first <= k
    <3> HIDE DEF firsts
    <3> QED
      BY <2>3, MinOf
  <2>6. PICK end \in ends : end = Max(ends) /\ \A k \in ends : k <= end
    <3> HIDE DEF ends
    <3> QED
      BY <2>4, MaxOf
  <2>7. PICK s \in accepted : first = artifacts[s].first
    BY <2>5
  <2>8. low <= first /\ first < artifacts[s].end /\ artifacts[s].end <= end
    BY <2>2, <2>6, <2>7
  <2>9. first \in Nat /\ end \in 0..high /\ artifacts[s].end \in Nat
    BY <2>2, <2>3, <2>4, <2>7
  <2>10. first < end /\ end <= high
    BY <2>8, <2>9
  <2> QED
    BY <2>1, <2>5, <2>6, <2>8, <2>10
<1> QED
  BY <1>2, <1>3, <1>4 DEF DatasetContract

-----------------------------------------------------------------------------
(* The work *)

\* A step that leaves the files, the manifest and the work alone.
LEMMA WorkKept ==
    ASSUME WorkInv, UNCHANGED <<file, manifest, work, item, artifacts, damaged>>,
           work = "converting" => UNCHANGED <<raw, context>>
    PROVE  WorkInv'
<1>1. Complete' = Complete /\ Clean' = Clean
  BY DEF Complete, Clean, Unmixed
<1>2. \A s : LinesOf(s, file[s].opens)' = LinesOf(s, file[s].opens)
  BY DEF LinesOf, RowAt
<1>3. work = "converting" /\ InWork => InWork'
  BY <1>2 DEF InWork
<1>4. \A s : SoundArtifact(s)' <=> SoundArtifact(s)
  BY DEF SoundArtifact, OddOf
<1> QED
  BY <1>1, <1>3, <1>4 DEF WorkInv

\* Once the manifest is complete the downloader does nothing.
LEMMA DownloaderIsDone ==
    ASSUME DownloaderInv, Complete, Downloading \/ Elsewhere
    PROVE  UNCHANGED <<file, manifest>>
<1>1. at = "idle"
  BY DEF DownloaderInv, SoundArchive
<1>2. ~AnyStart
  BY DEF AnyStart, Start
<1>3. ~DownloadStep
  BY <1>1 DEF DownloadStep, ReceiveTime, ReceivePage, RangeFetched, WriteFile, RecordProgress,
              RecordFailure, Finish
<1>4. ~DownloadFault
  BY <1>1 DEF DownloadFault, RequestBlocked, RequestRetried, RequestFails, WriteFileFails,
              WriteManifestFails, CrashDownload, Requesting
<1> QED
  BY <1>2, <1>3, <1>4 DEF Downloading, Elsewhere, ExchangeAdvances, disk

LEMMA DownloadingKeepsWork ==
    ASSUME ArchiveInv, Downloading \/ Elsewhere
    PROVE  WorkInv'
<1>1. UNCHANGED <<work, item, artifacts, damaged, raw, context>>
  BY DEF Downloading, Elsewhere, workVars, streamVars
<1>2. CASE work = "none"
  BY <1>1, <1>2 DEF ArchiveInv, WorkInv
<1>3. CASE work # "none"
  <2>1. UNCHANGED <<file, manifest>>
    BY <1>3, DownloaderIsDone DEF ArchiveInv, WorkInv
  <2> QED
    BY <1>1, <2>1, WorkKept DEF ArchiveInv
<1> QED
  BY <1>2, <1>3

LEMMA ConvertingKeepsWork ==
    ASSUME ArchiveInv, Convert \/ ConvertFails
    PROVE  WorkInv'
<1>1. /\ work = "converting" /\ WorkInv
      /\ UNCHANGED <<file, manifest, item, artifacts, damaged, raw, context>>
  BY DEF Convert, ConvertFails, ArchiveInv, StreamStep, StreamFails, ReadLine, Drain, WriteRest,
         WritePiece, EndOfFile, WriteSome, downloaderVars, disk, workVars
<1>2. CASE Convert
  <2>1. UNCHANGED work
    BY <1>2 DEF Convert, workVars
  <2> QED
    BY <1>1, <2>1, WorkKept
<1>3. CASE ConvertFails
  <2>1. work' = "ready"
    BY <1>3 DEF ConvertFails
  <2>2. Complete' = Complete /\ Clean' = Clean
    BY <1>1 DEF Complete, Clean, Unmixed
  <2>3. \A s : SoundArtifact(s)' <=> SoundArtifact(s)
    BY <1>1 DEF SoundArtifact, OddOf
  <2> QED
    BY <1>1, <2>1, <2>2, <2>3 DEF WorkInv
<1> QED
  BY <1>2, <1>3

\* The two contracts decide of the whole.
LEMMA ContractsKeepWork ==
    ASSUME ArchiveInv, Plan \/ BuildManifest
    PROVE  WorkInv'
<1>1. WorkInv /\ DownloaderInv /\ UNCHANGED <<file, manifest, item, artifacts, damaged>>
  BY DEF Plan, BuildManifest, ArchiveInv, downloaderVars, disk
<1>2. Complete' = Complete /\ Clean' = Clean
  BY <1>1 DEF Complete, Clean, Unmixed
<1>3. \A s : SoundArtifact(s)' <=> SoundArtifact(s)
  BY <1>1 DEF SoundArtifact, OddOf
<1>4. CASE Plan
  <2>1. Complete /\ work = "none" /\ DOMAIN artifacts = {}
        /\ work' = IF RawContract(manifest) THEN "ready" ELSE "rejected"
    BY <1>1, <1>4 DEF Plan, WorkInv
  <2>2. Clean => work' = "ready"
    BY <1>1, <2>1, RawContractHolds DEF Clean
  <2> QED
    BY <1>1, <1>2, <2>1, <2>2 DEF WorkInv
<1>5. CASE BuildManifest
  <2>1. /\ work = "ready" /\ DOMAIN artifacts = DOMAIN manifest.files
        /\ work' = IF DatasetContract(manifest, artifacts) THEN "published" ELSE "rejected"
    BY <1>5 DEF BuildManifest
  <2>2. Clean => work' = "published"
    BY <2>1, DatasetContractHolds
  <2> QED
    BY <1>1, <1>2, <1>3, <2>1, <2>2 DEF WorkInv
<1> QED
  BY <1>4, <1>5

LEMMA OpeningKeepsWork == ASSUME ArchiveInv, OpenItem PROVE WorkInv'
<1>1. /\ work = "ready" /\ work' = "converting" /\ WorkInv /\ DownloaderInv
      /\ UNCHANGED <<file, manifest, artifacts>>
  BY DEF OpenItem, ArchiveInv, downloaderVars, disk
<1>2. InWork'
  BY <1>1, ItemOpened
<1>3. damaged => damaged'
  BY DEF OpenItem
<1>4. Complete' = Complete /\ (Clean' => Clean)
  BY <1>1, <1>3 DEF Complete, Clean, Unmixed
<1>5. \A s : SoundArtifact(s)' <=> SoundArtifact(s)
  BY <1>1 DEF SoundArtifact, OddOf
<1> QED
  BY <1>1, <1>2, <1>4, <1>5 DEF WorkInv

LEMMA FinishingKeepsWork == ASSUME ArchiveInv, FinishItem PROVE WorkInv'
<1>1. /\ work = "converting" /\ step = "reported" /\ WorkInv /\ DownloaderInv
      /\ UNCHANGED <<file, manifest, item, damaged>>
  BY DEF FinishItem, ArchiveInv, downloaderVars, disk
<1>2. Complete /\ InWork /\ DOMAIN artifacts \subseteq DOMAIN manifest.files
      /\ (Clean => \A s \in DOMAIN artifacts : SoundArtifact(s))
  BY <1>1 DEF WorkInv
<1>3. Complete' = Complete /\ Clean' = Clean
  BY <1>1 DEF Complete, Clean, Unmixed
<1>4. PICK a : a = Artifact(report, RawSize)
  OBVIOUS
<1>5. IF ArtifactContract(a)
      THEN /\ artifacts' = [s \in DOMAIN artifacts \union {item} |->
                              IF s = item THEN a ELSE artifacts[s]]
           /\ work' = "ready"
      ELSE work' = "rejected" /\ UNCHANGED artifacts
  BY <1>4 DEF FinishItem
<1>6. CASE ArtifactContract(a)
  <2>1. /\ work' = "ready" /\ DOMAIN artifacts' = DOMAIN artifacts \union {item}
        /\ \A s \in DOMAIN artifacts' : artifacts'[s] = IF s = item THEN a ELSE artifacts[s]
    BY <1>5, <1>6
  <2>2. DOMAIN artifacts' \subseteq DOMAIN manifest.files
    BY <1>2, <2>1 DEF InWork
  <2>3. ASSUME Clean, NEW s \in DOMAIN artifacts' PROVE SoundArtifact(s)'
    <3>1. CASE s = item
      <4>1. /\ a.seen = Cardinality(file[item].opens)
            /\ a.quarantined = Cardinality(OddOf(item))
            /\ a.written = Cardinality(file[item].opens \ OddOf(item))
            /\ a.first \in Nat /\ a.end \in Nat
            /\ a.written > 0 => /\ manifest.request.start <= a.first /\ a.first < a.end
                                /\ a.end <= manifest.request.end
        BY <1>1, <1>4, <2>3, ArtifactIsSound
      <4>2. artifacts'[s] = a
        BY <2>1, <2>3, <3>1
      <4> QED
        BY <1>1, <3>1, <4>1, <4>2 DEF SoundArtifact, OddOf
    <3>2. CASE s # item
      <4>1. s \in DOMAIN artifacts /\ artifacts'[s] = artifacts[s]
        BY <2>1, <2>3, <3>2
      <4>2. SoundArtifact(s)
        BY <1>2, <2>3, <4>1
      <4> QED
        BY <1>1, <4>1, <4>2 DEF SoundArtifact, OddOf
    <3> QED
      BY <3>1, <3>2
  <2> QED
    BY <1>1, <1>2, <1>3, <2>1, <2>2, <2>3 DEF WorkInv
<1>7. CASE ~ArtifactContract(a)
  <2>1. work' = "rejected" /\ artifacts' = artifacts
    BY <1>5, <1>7
  <2>2. ~Clean
    BY <1>1, <1>4, <1>7, ArtifactIsSound
  <2> QED
    BY <1>1, <1>2, <1>3, <2>1, <2>2 DEF WorkInv
<1> QED
  BY <1>6, <1>7

THEOREM ArchiveInvariance == Spec => []ArchiveInv
<1>1. Init => ArchiveInv
  <2> SUFFICES ASSUME Init PROVE ArchiveInv
    OBVIOUS
  <2>1. DownloaderInv
    BY DownloaderStart DEF Init
  <2>2. StreamInv
    BY StreamStarts DEF Init
  <2>3. WorkInv
    BY DEF Init, WorkInv
  <2> QED
    BY <2>1, <2>2, <2>3 DEF ArchiveInv
<1>2. ArchiveInv /\ [Next]_vars => ArchiveInv'
  <2> SUFFICES ASSUME ArchiveInv, [Next]_vars PROVE ArchiveInv'
    OBVIOUS
  <2>1. DownloaderInv'
    BY DownloaderStep DEF ArchiveInv
  <2>2. StreamInv'
    BY StreamInArchive
  <2>3. WorkInv'
    <3>1. CASE UNCHANGED vars
      <4>1. UNCHANGED <<file, manifest, work, item, artifacts, damaged, raw, context>>
        BY <3>1 DEF vars, downloaderVars, disk, streamVars, workVars
      <4> QED
        BY <4>1, WorkKept DEF ArchiveInv
    <3> QED
      BY <3>1, DownloadingKeepsWork, ConvertingKeepsWork, ContractsKeepWork, OpeningKeepsWork,
         FinishingKeepsWork DEF Next, Converting
  <2> QED
    BY <2>1, <2>2, <2>3 DEF ArchiveInv
<1> QED
  BY <1>1, <1>2, PTL DEF Spec

\* Of whatever lines a raw file has, the report is about all of them: the
\* research file holds the candles in their order, the failure file names
\* every other line, and all was written to the last unit, over any number of
\* short writes: convert_raw_archive_stream().
THEOREM ConversionIsAsDefined == Spec => []ConvertedAsDefined
<1>1. ArchiveInv => ConvertedAsDefined
  <2> SUFFICES ASSUME ArchiveInv, step = "reported" PROVE ConvertedAsDefined
    BY DEF ConvertedAsDefined
  <2>1. StreamInv /\ StreamTyped /\ Written /\ WholeUnits /\ CountedAsWritten /\ Underway
    BY DEF ArchiveInv, StreamInv
  <2>2. PICK n \in Nat : n = Len(raw) /\ n = report.seen /\ n = Dealt /\ DOMAIN raw = 1..n
    BY <2>1, Places DEF Underway, Dealt
  <2>3. Found(n) = Candles
    BY <2>1, <2>2, Places DEF Found
  <2>4. output.units = n * OutputUnits + 0
    BY <2>1, <2>2 DEF WholeUnits
  <2>5. output.units = n * OutputUnits
    <3>1. n * OutputUnits \in Nat
      BY SMT
    <3> QED
      BY <2>4, <3>1
  <2>6. report.written > 0 => report.first < report.end
    BY <2>1, ReportIs
  <2>7. /\ LET candles == Ascending(Candles)
           IN  output.research = [k \in DOMAIN candles |-> raw[candles[k]].open]
        /\ {output.failures[k][1] : k \in DOMAIN output.failures} = (1..n) \ Candles
    BY <2>1, <2>2, <2>3 DEF Written
  <2> QED
    BY <2>1, <2>2, <2>5, <2>6, <2>7 DEF ConvertedAsDefined, CountedAsWritten
<1> QED
  BY <1>1, ArchiveInvariance, PTL

\* A complete archive that no other program and no other request has touched
\* is never refused, and its artifacts count every row: what the downloader
\* writes and what the conversion asks of a manifest, of a file and of the
\* artifacts agree.
THEOREM CompleteArchiveConverts == Spec => []CompleteIsConvertible
<1>1. ArchiveInv => CompleteIsConvertible
  <2> SUFFICES ASSUME ArchiveInv, Complete, Unmixed, ~damaged
               PROVE  /\ work # "rejected"
                      /\ \A s \in DOMAIN artifacts :
                           LET odd == {t \in file[s].opens : <<s, t>> \in Odd}
                           IN  /\ artifacts[s].quarantined = Cardinality(odd)
                               /\ artifacts[s].written = Cardinality(file[s].opens \ odd)
    BY DEF CompleteIsConvertible
  <2>1. WorkInv /\ Clean
    BY DEF ArchiveInv, Clean
  <2> QED
    BY <2>1 DEF WorkInv, SoundArtifact, OddOf
<1> QED
  BY <1>1, ArchiveInvariance, PTL
=============================================================================
