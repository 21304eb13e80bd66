-------------------------- MODULE ResearchManifest --------------------------
(***************************************************************************)
(* The contracts of the archive conversion: which raw manifests a research *)
(* dataset may be planned from, what an artifact must look like, and which *)
(* artifacts make a research manifest.  The downloader writes the first    *)
(* and the conversion the second; nothing but these contracts ties them    *)
(* together.  Digests are left out, and so is the form of every field.     *)
(***************************************************************************)
EXTENDS Naturals, FiniteSetsExt

Total(of(_), S) == MapThenSumSet(of, S)

\* _validate_raw_manifest()
FileContract(info, request) ==
    /\ info.first < info.end
    /\ request.start <= info.first /\ info.end <= request.end
ActualContract(m) ==
    LET slices == DOMAIN m.files
    IN  m.actual = IF slices = {} THEN <<>>
                   ELSE <<m.files[Min(slices)].first, m.files[Max(slices)].end>>
RawContract(m) ==
    /\ m.status = "complete" /\ ~m.failed
    /\ m.request.start < m.request.end
    /\ \A s \in DOMAIN m.files : FileContract(m.files[s], m.request)
    /\ m.count = Total(LAMBDA s : m.files[s].records, DOMAIN m.files)
    /\ ActualContract(m)

\* _derive_work_items(): every file is converted in the range of the request.
WorkItem(m, s) == [slice |-> s, range |-> m.request, expected |-> m.files[s].records]
WorkItems(m) == {WorkItem(m, s) : s \in DOMAIN m.files}

\* StreamConversionReport
ReportContract(r) ==
    /\ r.seen = r.written + r.quarantined
    /\ IF r.written = 0 THEN r.first = 0 /\ r.end = 0 ELSE r.first < r.end

\* ResearchFileArtifact: no bytes exactly when there are no lines.
Artifact(r, rawSize) ==
    [seen |-> r.seen, written |-> r.written, quarantined |-> r.quarantined,
     first |-> r.first, end |-> r.end, rawSize |-> rawSize]
ArtifactContract(a) == (a.seen = 0 <=> a.rawSize = 0) /\ ReportContract(a)

\* ResearchDatasetManifest: the coverage of all artifacts is in the range.
CoverageContract(artifacts, request) ==
    LET accepted == {s \in DOMAIN artifacts : artifacts[s].written > 0}
    IN  accepted # {} =>
          /\ request.start <= Min({artifacts[s].first : s \in accepted})
          /\ Max({artifacts[s].end : s \in accepted}) <= request.end
          /\ Min({artifacts[s].first : s \in accepted}) < Max({artifacts[s].end : s \in accepted})

\* build_research_manifest() of a complete dataset.
DatasetContract(m, artifacts) ==
    /\ RawContract(m)
    /\ DOMAIN artifacts = DOMAIN m.files
    /\ \A s \in DOMAIN artifacts : artifacts[s].seen = m.files[s].records
    /\ CoverageContract(artifacts, m.request)
=============================================================================
