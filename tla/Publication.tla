---------------------------- MODULE Publication ----------------------------
(***************************************************************************)
(* Publication of one research artifact: each publisher is one process     *)
(* that prepares an exclusive pair of staged entries, converts the raw     *)
(* file into them, and renames them to their final names, the failure      *)
(* sidecar first.  Publishers and outsiders share the file system; every   *)
(* inspection is out of date as soon as it has been made.                  *)
(*                                                                         *)
(* A step is one call that changes the file system, or the inspections     *)
(* between two of them.  An entry remembers what its readers cannot see:   *)
(* who made it, which versions of the raw file went into it, whether it is *)
(* whole and whether it has reached the disk.  Renaming is that of         *)
(* Windows, which the code requires: it never replaces an entry and fails  *)
(* on one that is open.                                                    *)
(***************************************************************************)
EXTENDS Naturals, FiniteSets, Sequences

CONSTANTS
    Publishers,     \* processes, each of which publishes once
    Nobody,
    Chunks,         \* reads it takes to consume the raw file
    MaxRewrites,    \* bound: times the raw file is written over
    MaxMishaps      \* bound: redirections, power failures and crashes

ASSUME PublicationAssumption ==
    /\ Nobody \notin Publishers
    /\ Chunks \in Nat \ {0} /\ MaxRewrites \in Nat /\ MaxMishaps \in Nat

VARIABLES
    directory,  \* output, research, failures, .staging and its two directories
    staged,     \* the two entries in .staging
    final,      \* the two entries under their final names
    manifest,   \* a research manifest or its staged form is there
    raw,        \* the raw file
    at,         \* what each publisher does next
    count,      \* directories it has passed, then chunks it has read
    known,      \* the raw file as it was when the conversion bound it
    source,     \* the maker of the entry it is about to rename
    undone,     \* history: whose renames a power failure has taken back
    mishaps     \* only for the bound

disk == <<directory, staged, final, manifest, raw>>
vars == <<disk, at, count, known, source, undone, mishaps>>

-----------------------------------------------------------------------------
(* The layout and the entries *)

Kinds == {"failure", "research"}
\* _create_directory_tree() goes through them in this order.
Tree == <<"output", "research", "failures", ".staging", "staged research", "staged failures">>
Directories == {Tree[i] : i \in DOMAIN Tree}
StagingOf(k) == IF k = "failure" THEN "staged failures" ELSE "staged research"
FinalOf(k) == IF k = "failure" THEN "failures" ELSE "research"

Versions == 0..MaxRewrites
Raws == [version : Versions, size : 1..2]
NoEntry == [by |-> Nobody, of |-> {}, whole |-> FALSE, synced |-> FALSE, open |-> FALSE]
Entries ==
    [by : Publishers \union {Nobody}, of : SUBSET Versions, whole : BOOLEAN,
     synced : BOOLEAN, open : BOOLEAN]

Working ==
    {"new", "targets", "tree", "mkdir", "clear", "check research", "create research",
     "verify research", "check failure", "create failure", "verify failure", "verify pair",
     "inspect raw", "open raw", "bind raw", "read", "recheck", "sync research",
     "sync failure", "close", "inspect staged",
     "inspect failure", "reinspect failure", "rename failure", "confirm failure",
     "reinspect research", "inspect research", "rename research", "confirm research"}
Ended == {"published", "failed", "dead"}

\* Steps that are taken for each of the two entries.
CreateAt(k) == IF k = "failure" THEN "create failure" ELSE "create research"
VerifyAt(k) == IF k = "failure" THEN "verify failure" ELSE "verify research"
SyncAt(k) == IF k = "failure" THEN "sync failure" ELSE "sync research"
AfterSync(k) == IF k = "failure" THEN "close" ELSE "sync failure"
InspectAt(k) == IF k = "failure" THEN "inspect failure" ELSE "inspect research"
ReinspectAt(k) == IF k = "failure" THEN "reinspect failure" ELSE "reinspect research"
RenameAt(k) == IF k = "failure" THEN "rename failure" ELSE "rename research"
ConfirmAt(k) == IF k = "failure" THEN "confirm failure" ELSE "confirm research"
AfterConfirm(k) == IF k = "failure" THEN "inspect research" ELSE "published"

TypeOK ==
    /\ directory \in [Directories -> {"missing", "there", "redirected"}]
    /\ staged \in [Kinds -> Entries] /\ final \in [Kinds -> Entries]
    /\ manifest \in BOOLEAN /\ raw \in Raws
    /\ at \in [Publishers -> Working \union Ended]
    /\ count \in [Publishers -> Nat]
    /\ known \in [Publishers -> Raws]
    /\ source \in [Publishers -> Publishers \union {Nobody}]
    /\ undone \in [Kinds -> SUBSET Publishers]
    /\ mishaps \in 0..MaxMishaps

Init ==
    /\ directory = [d \in Directories |-> "missing"]
    /\ staged = [k \in Kinds |-> NoEntry] /\ final = [k \in Kinds |-> NoEntry]
    /\ manifest = FALSE /\ raw = [version |-> 0, size |-> 1]
    /\ at = [p \in Publishers |-> "new"] /\ count = [p \in Publishers |-> 0]
    /\ known = [p \in Publishers |-> raw]
    /\ source = [p \in Publishers |-> Nobody]
    /\ undone = [k \in Kinds |-> {}] /\ mishaps = 0

-----------------------------------------------------------------------------
(* Inspections.  What they find fault with besides the presence of entries *)
(* (links, devices, sizes, unreadable metadata) is in Refuse.              *)

\* _inspect_core(): the paths lead where they led at the first inspection.
Sound == \A d \in Directories : directory[d] # "redirected"
Absent(kinds, entries) == \A k \in kinds : entries[k] = NoEntry
Mine(p, k) == staged[k].by = p

Go(p, from, to) == at[p] = from /\ at' = [at EXCEPT ![p] = to]

\* An inspection that finds everything in order and changes nothing.
Inspect(p, from, finding, to) ==
    /\ Go(p, from, to) /\ Sound /\ finding
    /\ UNCHANGED <<disk, count, known, source, undone, mishaps>>

\* The entries of p with its streams closed; they are never removed.
Released(p) ==
    [k \in Kinds |-> IF Mine(p, k) THEN [staged[k] EXCEPT !.open = FALSE] ELSE staged[k]]

\* Any call and any inspection of p may raise: the code closes its streams
\* and reports the failure.
Refuse(p) ==
    /\ at[p] \in Working
    /\ at' = [at EXCEPT ![p] = "failed"]
    /\ staged' = Released(p)
    /\ UNCHANGED <<directory, final, manifest, raw, count, known, source, undone, mishaps>>

-----------------------------------------------------------------------------
(* prepare_exclusive_staging_pair() *)

\* The raw archive is complete and the roots are what they should be.
Preflight(p) == Inspect(p, "new", TRUE, "targets")

\* The six targets that must be absent.
Begin(p) ==
    Inspect(p, "targets", Absent(Kinds, staged) /\ Absent(Kinds, final) /\ ~manifest, "tree")

There(d) == directory[d] = "there"

\* _ensure_directory(): what is there is used, what is missing is made.
PassDirectory(p) ==
    /\ at[p] = "tree" /\ count[p] < Len(Tree) /\ Sound
    /\ IF There(Tree[count[p] + 1])
       THEN count' = [count EXCEPT ![p] = @ + 1] /\ UNCHANGED at
       ELSE Go(p, "tree", "mkdir") /\ UNCHANGED count
    /\ UNCHANGED <<disk, known, source, undone, mishaps>>

\* mkdir(exist_ok=False): nobody else may have made it since the inspection.
MakeDirectory(p) ==
    LET d == Tree[count[p] + 1]
    IN  /\ Go(p, "mkdir", "tree") /\ Sound
        /\ directory[d] = "missing"
        /\ directory' = [directory EXCEPT ![d] = "there"]
        /\ count' = [count EXCEPT ![p] = @ + 1]
        /\ UNCHANGED <<staged, final, manifest, raw, known, source, undone, mishaps>>

TreeComplete(p) == Inspect(p, "tree", count[p] = Len(Tree), "clear")

StillClear(p) ==
    Inspect(p, "clear", Absent(Kinds, staged) /\ Absent(Kinds, final) /\ ~manifest,
            "check research")

\* _create_one_staging() up to the open: the other staged entry must be
\* absent for the first, and still be the publisher's own for the second.
CheckResearch(p) ==
    Inspect(p, "check research", ~manifest /\ Absent(Kinds, staged) /\ Absent(Kinds, final),
            "create research")
CheckFailure(p) ==
    Inspect(p, "check failure",
            /\ ~manifest /\ Absent(Kinds, final)
            /\ Absent({"failure"}, staged) /\ Mine(p, "research"),
            "create failure")

\* Mutant of Create: opened with "wb" rather than "xb".
CreateOver(p, k) ==
    /\ Go(p, CreateAt(k), VerifyAt(k))
    /\ staged' = [staged EXCEPT ![k] = [NoEntry EXCEPT !.by = p, !.open = TRUE]]
    /\ UNCHANGED <<directory, final, manifest, raw, count, known, source, undone, mishaps>>

\* open(path, "xb")
Create(p, k) ==
    /\ Go(p, CreateAt(k), VerifyAt(k))
    /\ staged[k] = NoEntry /\ There(StagingOf(k))
    /\ staged' = [staged EXCEPT ![k] = [NoEntry EXCEPT !.by = p, !.open = TRUE]]
    /\ UNCHANGED <<directory, final, manifest, raw, count, known, source, undone, mishaps>>

VerifyResearch(p) ==
    Inspect(p, "verify research", Mine(p, "research") /\ ~manifest /\ Absent({"research"}, final),
            "check failure")
VerifyFailure(p) ==
    Inspect(p, "verify failure", Mine(p, "failure") /\ ~manifest /\ Absent({"failure"}, final),
            "verify pair")
VerifyPair(p) ==
    Inspect(p, "verify pair",
            (\A k \in Kinds : Mine(p, k)) /\ ~manifest /\ Absent(Kinds, final), "inspect raw")

Prepare(p) ==
    \/ Preflight(p) \/ Begin(p) \/ PassDirectory(p) \/ MakeDirectory(p) \/ TreeComplete(p)
    \/ StillClear(p)
    \/ CheckResearch(p) \/ Create(p, "research") \/ VerifyResearch(p)
    \/ CheckFailure(p) \/ Create(p, "failure") \/ VerifyFailure(p) \/ VerifyPair(p)

-----------------------------------------------------------------------------
(* materialize_durable_staged_artifact() *)

\* The first inspection keeps the identity and the size of the raw file.
InspectRaw(p) ==
    /\ Go(p, "inspect raw", "open raw") /\ Sound
    /\ known' = [known EXCEPT ![p] = raw]
    /\ UNCHANGED <<disk, count, source, undone, mishaps>>

OpenRaw(p) == Inspect(p, "open raw", TRUE, "bind raw")

\* _revalidate_owned_staging_pair()
OwnedPair(p) == \A k \in Kinds : Mine(p, k) /\ staged[k].open

\* _RawFingerprint.capture() also keeps the times, and the pair is validated.
BindRaw(p) ==
    /\ Go(p, "bind raw", "read") /\ Sound
    /\ raw.size = known[p].size
    /\ OwnedPair(p)
    /\ ~manifest /\ Absent(Kinds, final)
    /\ known' = [known EXCEPT ![p] = raw]
    /\ count' = [count EXCEPT ![p] = 0]
    /\ UNCHANGED <<disk, source, undone, mishaps>>

\* convert_raw_archive_stream() reads on and writes to both streams.
ReadChunk(p) ==
    /\ at[p] = "read" /\ count[p] < Chunks
    /\ count' = [count EXCEPT ![p] = @ + 1]
    /\ staged' = [k \in Kinds |->
          IF Mine(p, k) THEN [staged[k] EXCEPT !.of = @ \union {raw.version}] ELSE staged[k]]
    /\ at' = [at EXCEPT ![p] = IF count[p] + 1 = Chunks THEN "recheck" ELSE "read"]
    /\ UNCHANGED <<directory, final, manifest, raw, known, source, undone, mishaps>>

\* Mutant of Unchanged: only the size is compared.
UnchangedSize(p) == raw.size = known[p].size

\* require_descriptor_and_path(): identity, size and times are unchanged.
Unchanged(p) == raw = known[p]

Recheck(p) == Inspect(p, "recheck", Unchanged(p), "sync research")

\* Mutant of Sync: flush() without fsync().
SyncNothing(p, k) ==
    /\ Go(p, SyncAt(k), AfterSync(k))
    /\ Mine(p, k)
    /\ staged' = [staged EXCEPT ![k].whole = TRUE]
    /\ UNCHANGED <<directory, final, manifest, raw, count, known, source, undone, mishaps>>

\* flush(), the size of the descriptor, fsync().
Sync(p, k) ==
    /\ Go(p, SyncAt(k), AfterSync(k))
    /\ Mine(p, k)
    /\ staged' = [staged EXCEPT ![k].whole = TRUE, ![k].synced = TRUE]
    /\ UNCHANGED <<directory, final, manifest, raw, count, known, source, undone, mishaps>>

CloseAll(p) ==
    /\ Go(p, "close", "inspect staged") /\ Sound /\ Unchanged(p)
    /\ staged' = Released(p)
    /\ UNCHANGED <<directory, final, manifest, raw, count, known, source, undone, mishaps>>

\* Mutant of InspectStaged: the research file is promoted without its sidecar.
InspectStagedAlone(p) ==
    Inspect(p, "inspect staged", \A k \in Kinds : Mine(p, k), "inspect research")

\* After this the artifact with its digests exists.
InspectStaged(p) ==
    Inspect(p, "inspect staged",
            /\ \A k \in Kinds : Mine(p, k) /\ staged[k].whole
            /\ Unchanged(p) /\ ~manifest /\ Absent(Kinds, final),
            "inspect failure")

Materialize(p) ==
    \/ InspectRaw(p) \/ OpenRaw(p) \/ BindRaw(p) \/ ReadChunk(p) \/ Recheck(p)
    \/ Sync(p, "research") \/ Sync(p, "failure") \/ CloseAll(p) \/ InspectStaged(p)

-----------------------------------------------------------------------------
(* promote_staged_artifact_pair(): the failure sidecar, then the research  *)
(* file, by promote_staged_entry_no_clobber()                              *)

\* _inspect_core(): the raw file still has its size, and the directories are there.
CoreKept(p, k) == There(StagingOf(k)) /\ There(FinalOf(k)) /\ raw.size = known[p].size

\* _require_absent(), of the final file and the manifest.
Vacant(k) == final[k] = NoEntry /\ ~manifest

\* _inspect_promotion_state(): sizes and identities, never contents or times.
Promotable(p, k) == CoreKept(p, k) /\ staged[k] # NoEntry /\ staged[k].whole /\ Vacant(k)

InspectEntry(p, k) ==
    /\ Go(p, InspectAt(k), ReinspectAt(k)) /\ Sound /\ Promotable(p, k)
    /\ source' = [source EXCEPT ![p] = staged[k].by]
    /\ UNCHANGED <<disk, count, known, undone, mishaps>>

ReinspectEntry(p, k) ==
    Inspect(p, ReinspectAt(k), Promotable(p, k) /\ staged[k].by = source[p], RenameAt(k))

\* os.rename(): through a redirected directory the entry ends up elsewhere.
Rename(p, k) ==
    /\ Go(p, RenameAt(k), ConfirmAt(k))
    /\ staged[k] # NoEntry /\ ~staged[k].open /\ final[k] = NoEntry
    /\ staged' = [staged EXCEPT ![k] = NoEntry]
    /\ final' = IF Sound THEN [final EXCEPT ![k] = staged[k]] ELSE final
    /\ UNCHANGED <<directory, manifest, raw, count, known, source, undone, mishaps>>

\* Mutant of ConfirmEntry: the rename returned, so the entry is published.
ConfirmUnseen(p, k) ==
    /\ Go(p, ConfirmAt(k), AfterConfirm(k))
    /\ UNCHANGED <<disk, count, known, source, undone, mishaps>>

\* _verify_post_rename()
ConfirmEntry(p, k) ==
    Inspect(p, ConfirmAt(k),
            /\ final[k].by = source[p] /\ final[k].whole
            /\ staged[k] = NoEntry /\ ~manifest,
            AfterConfirm(k))

PromoteEntry(p, k) ==
    InspectEntry(p, k) \/ ReinspectEntry(p, k) \/ Rename(p, k) \/ ConfirmEntry(p, k)
Promote(p) == \E k \in Kinds : PromoteEntry(p, k)

-----------------------------------------------------------------------------
(* Everybody else *)

\* Another program writes the raw file in place, at any time.
RewriteRaw(size) ==
    /\ raw.version < MaxRewrites
    /\ raw' = [version |-> raw.version + 1, size |-> size]
    /\ UNCHANGED <<directory, staged, final, manifest, at, count, known, source, undone, mishaps>>

\* A later phase writes a manifest.
WriteManifest ==
    /\ ~manifest /\ manifest' = TRUE
    /\ UNCHANGED <<directory, staged, final, raw, at, count, known, source, undone, mishaps>>

\* The staged entries of a publisher that failed or died are removed by hand,
\* while no publisher is at work.
ClearStaging ==
    /\ \A p \in Publishers : at[p] \in Ended \union {"new"}
    /\ staged' = [k \in Kinds |-> NoEntry]
    /\ UNCHANGED <<directory, final, manifest, raw, at, count, known, source, undone, mishaps>>

Mishap == mishaps < MaxMishaps /\ mishaps' = mishaps + 1

\* A directory is replaced by a link.
Redirect(d) ==
    /\ Mishap /\ directory[d] = "there"
    /\ directory' = [directory EXCEPT ![d] = "redirected"]
    /\ UNCHANGED <<staged, final, manifest, raw, at, count, known, source, undone>>

Crash(p) ==
    /\ Mishap /\ at[p] \in Working
    /\ at' = [at EXCEPT ![p] = "dead"]
    /\ staged' = Released(p)
    /\ UNCHANGED <<directory, final, manifest, raw, count, known, source, undone>>

\* Nobody survives, and what has not been synchronised is torn.  The code never
\* synchronises a directory: a rename may be undone, and a staged entry be gone.
OnDisk(e) == [e EXCEPT !.open = FALSE, !.whole = @ /\ e.synced]
PowerFailure ==
    /\ Mishap
    /\ at' = [p \in Publishers |-> IF at[p] \in Working \ {"new"} THEN "dead" ELSE at[p]]
    /\ \E back, gone \in SUBSET Kinds :
          /\ staged' = [k \in Kinds |->
                CASE k \in gone -> NoEntry
                  [] k \in back \ gone /\ staged[k] = NoEntry -> OnDisk(final[k])
                  [] OTHER -> OnDisk(staged[k])]
          /\ final' = [k \in Kinds |-> IF k \in back THEN NoEntry ELSE OnDisk(final[k])]
          /\ undone' = [k \in Kinds |->
                undone[k] \union {p \in Publishers : k \in back /\ final[k].by = p}]
    /\ UNCHANGED <<directory, manifest, raw, count, known, source>>

Publisher(p) == Prepare(p) \/ Materialize(p) \/ Promote(p) \/ Refuse(p)
Others ==
    \/ \E size \in 1..2 : RewriteRaw(size)
    \/ WriteManifest \/ ClearStaging \/ PowerFailure
    \/ \E d \in Directories : Redirect(d)
    \/ \E p \in Publishers : Crash(p)

Next == (\E p \in Publishers : Publisher(p)) \/ Others

Spec == Init /\ [][Next]_vars

-----------------------------------------------------------------------------
(* Properties *)

\* An entry under its final name is whole and has reached the disk, whatever
\* crashes and power failures happen afterwards: the code synchronises both
\* streams long before it renames anything.
PublishedIsDurable ==
    \A k \in Kinds : final[k] # NoEntry => final[k].whole /\ final[k].synced

\* A published entry was converted from one version of the raw file, the one
\* whose digest is in its artifact, although the file can be written over
\* between any two reads.
PublishedIsOfOneVersion ==
    \A k \in Kinds :
        final[k] # NoEntry => final[k].of = {known[final[k].by].version}

\* A publisher that returns without an error has published both entries and
\* they are its own.  Only a power failure takes one away, or both: no directory
\* is synchronised after a rename.
SuccessIsWhole ==
    \A p \in Publishers :
        at[p] = "published" => \A k \in Kinds : final[k].by = p \/ p \in undone[k]

\* As long as a publisher is between the creation of its pair and the first
\* rename, both staged entries are there and are its own.
PairIsExclusive ==
    \A p \in Publishers :
        at[p] \in {"verify pair", "inspect raw", "open raw", "bind raw", "read", "recheck",
                   "sync research", "sync failure", "close", "inspect staged",
                   "inspect failure", "reinspect failure", "rename failure"}
            => \A k \in Kinds : Mine(p, k)

\* The output directory shows what PairPublication promises.
Promise ==
    INSTANCE PairPublication
        WITH Origins <- Publishers, sidecar <- final["failure"].by, research <- final["research"].by,
             lostSidecars <- undone["failure"], lostResearch <- undone["research"]
ImplementsPairPublication == Promise!Ordered
=============================================================================
