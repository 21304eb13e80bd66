------------------------------ MODULE Archive ------------------------------
(***************************************************************************)
(* From the exchange to a research dataset: runs of the downloader until   *)
(* its manifest is complete, then one conversion for each raw file, then   *)
(* the research manifest.  Between the two the raw files lie on a disk     *)
(* that other programs can write to; the manifest has no checksum of them. *)
(* The exchange may also send a row that the downloader accepts and the    *)
(* conversion does not: then one line of a sound file is quarantined.      *)
(***************************************************************************)
EXTENDS Downloader, ConversionStream, ResearchManifest

CONSTANT Odd        \* slices with opens whose rows the exchange fills with an odd price

VARIABLES
    work,       \* none, ready, converting, published or rejected
    item,       \* the slice that is being converted
    artifacts,  \* of the slices that have been
    damaged     \* ghost: a raw file was not as the downloader had left it

workVars == <<work, item, artifacts, damaged>>
vars == <<downloaderVars, streamVars, workVars>>

Init ==
    /\ DownloaderInit /\ StreamInit
    /\ work = "none" /\ item = 0 /\ artifacts = <<>> /\ damaged = FALSE

-----------------------------------------------------------------------------
(* The raw files *)

RowAt(s, open) ==
    IF <<s, open>> \in Odd THEN [Row(open, After(s, open)) EXCEPT !.price.high = 0]
                    ELSE Row(open, After(s, open))

\* One line for each row, by the time it opens.
LinesOf(s, opens) ==
    LET sorted == Ascending(opens)
    IN  [i \in DOMAIN sorted |-> RecordLine(s, RowAt(s, sorted[i]))]

\* What may be found in the place of the lines that were written.
Damaged(s, lines) ==
    LET n == Len(lines)
    IN  UNION {
          UNION {{[lines EXCEPT ![i] = line] : line \in FaultyLines(lines[i])} : i \in 1..n},
          {[lines EXCEPT ![i].size = size, ![n].ended = ended] :
             i \in 1..n, size \in {1, MaxLine, ReadSize, ReadSize + 1, 2 * ReadSize},
             ended \in BOOLEAN},
          {Reverse(lines), SubSeq(lines, 1, n - 1)},
          {Append(lines, RecordLine(s, Row(t, After(s, t)))) : t \in OpensOf(s)}}

-----------------------------------------------------------------------------
(* The conversion *)

\* build_research_dataset_conversion_plan()
Plan ==
    /\ at = "idle" /\ Complete /\ work = "none"
    /\ work' = IF RawContract(manifest) THEN "ready" ELSE "rejected"
    /\ UNCHANGED <<downloaderVars, streamVars, item, artifacts, damaged>>

\* The next work item, in the order of the file names.
Waiting == {w \in WorkItems(manifest) : w.slice \notin DOMAIN artifacts}
OpenItem ==
    /\ work = "ready" /\ Waiting # {}
    /\ work' = "converting" /\ item' = Min({w.slice : w \in Waiting})
    /\ \E written \in {LinesOf(item', file[item'].opens)} :
          \E lines \in {written} \union IF damaged THEN {} ELSE Damaged(item', written) :
             /\ Open(lines, [slice |-> item', interval |-> IntervalOf(item'),
                             range |-> WorkItem(manifest, item').range])
             /\ damaged' = (damaged \/ lines # written)
    /\ UNCHANGED <<downloaderVars, artifacts>>

Convert ==
    /\ work = "converting" /\ StreamStep
    /\ UNCHANGED <<downloaderVars, workVars>>

\* What has been staged is cleared away and the item is converted again.
ConvertFails ==
    /\ work = "converting" /\ StreamFails /\ Fault
    /\ work' = "ready"
    /\ UNCHANGED <<history, server, file, manifest, at, locals, item, artifacts, damaged>>

\* _build_artifact()
RawSize == FoldSeq(LAMBDA line, sum : line.size + sum, 0, raw)
FinishItem ==
    /\ work = "converting" /\ step = "reported"
    /\ LET a == Artifact(report, RawSize)
       IN  IF ArtifactContract(a)
           THEN /\ artifacts' = [s \in DOMAIN artifacts \union {item} |->
                                   IF s = item THEN a ELSE artifacts[s]]
                /\ work' = "ready"
           ELSE work' = "rejected" /\ UNCHANGED artifacts
    /\ raw' = <<>> /\ context' = NoContext /\ step' = "none" /\ offset' = 0
    /\ report' = NoReport /\ output' = NoOutput /\ pending' = NoPending
    /\ UNCHANGED <<downloaderVars, item, damaged>>

BuildManifest ==
    /\ work = "ready" /\ DOMAIN artifacts = DOMAIN manifest.files
    /\ work' = IF DatasetContract(manifest, artifacts) THEN "published" ELSE "rejected"
    /\ UNCHANGED <<downloaderVars, streamVars, item, artifacts, damaged>>

-----------------------------------------------------------------------------

AnyStart == \E request \in Requests, resume \in BOOLEAN : Start(request, resume)

Downloading == (AnyStart \/ DownloadStep) /\ UNCHANGED <<streamVars, workVars>>
Elsewhere == (ExchangeAdvances \/ DownloadFault) /\ UNCHANGED <<streamVars, workVars>>
Converting == Plan \/ OpenItem \/ Convert \/ FinishItem \/ BuildManifest

Next == Downloading \/ Elsewhere \/ Converting \/ ConvertFails

\* Runs are repeated until one completes, and nothing waits for ever.
Spec == Init /\ [][Next]_vars /\ WF_vars(Downloading) /\ WF_vars(Converting)

-----------------------------------------------------------------------------
(* Properties *)

\* The contracts of the conversion agree with what the downloader writes: a
\* dataset is refused only if its files were changed after they had been
\* written or hold klines of another request; and an unchanged one becomes a
\* research dataset in which only the odd rows of the exchange are quarantined.
CompleteIsConvertible ==
    Complete /\ Unmixed /\ ~damaged =>
        /\ work # "rejected"
        /\ \A s \in DOMAIN artifacts :
             LET odd == {t \in file[s].opens : <<s, t>> \in Odd}
             IN  /\ artifacts[s].quarantined = Cardinality(odd)
                 /\ artifacts[s].written = Cardinality(file[s].opens \ odd)

\* If only finitely many requests, writes and runs fail, the archive is
\* downloaded in the end, and then converted or refused: no manifest, no file
\* and no line stops the work.
EventuallyDecided == <>(work \in {"published", "rejected"})
=============================================================================
