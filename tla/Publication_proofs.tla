-------------------------- MODULE Publication_proofs --------------------------
(***************************************************************************)
(* Proofs about the publication of an artifact pair, for any number of     *)
(* publishers, chunks, rewrites and mishaps.                               *)
(*                                                                         *)
(* The invariant follows an entry through the stages of its maker: who     *)
(* holds it, what has been read into it, and whether it is on the disk.    *)
(* All else follows from the exclusive creation of the staged entries.     *)
(***************************************************************************)
EXTENDS Publication, TLAPS

\* The stages in which a publisher has a staged entry of each kind.
BothHeld ==
    {"verify failure", "verify pair", "inspect raw", "open raw", "bind raw", "read", "recheck",
     "sync research", "sync failure", "close", "inspect staged",
     "inspect failure", "reinspect failure", "rename failure"}
Holding(k) ==
    IF k = "failure" THEN BothHeld
    ELSE BothHeld \union
            {"verify research", "check failure", "create failure",
             "confirm failure", "inspect research", "reinspect research", "rename research"}

\* Those after the raw file was found unchanged, and after the entry was synchronised.
Converted(k) ==
    {"sync research", "sync failure", "close", "inspect staged",
     "inspect failure", "reinspect failure", "rename failure"}
    \union (IF k = "failure" THEN {}
            ELSE {"confirm failure", "inspect research", "reinspect research", "rename research"})
Durable(k) ==
    IF k = "failure" THEN Converted(k) \ {"sync research", "sync failure"}
    ELSE Converted(k) \ {"sync research"}

\* Those after the entry was found under its final name.
Confirmed(k) ==
    {"published"} \union
    (IF k = "failure"
     THEN {"inspect research", "reinspect research", "rename research", "confirm research"}
     ELSE {})

\* Those in which an entry of the publisher may be under its final name.
Renamed ==
    {"confirm failure", "inspect research", "reinspect research", "rename research",
     "confirm research"} \union Ended

\* How the work of a publisher and the entries of one kind belong together.
WorkInv(p, k) ==
    /\ at[p] \in Holding(k) => staged[k].by = p
    /\ at[p] \in Holding(k) \ (Converted(k) \union {"read", "recheck"}) => staged[k].of = {}
    /\ at[p] \in {"read", "recheck"} => staged[k].of \subseteq known[p].version .. raw.version
    /\ at[p] = "recheck" => staged[k].of # {}
    /\ at[p] \in Converted(k) => staged[k].of = {known[p].version}
    /\ at[p] \in Durable(k) => staged[k].whole /\ staged[k].synced
    /\ at[p] \in {ReinspectAt(k), RenameAt(k), ConfirmAt(k)} => source[p] = p
    /\ at[p] \in Confirmed(k) => final[k].by = p \/ (at[p] = "published" /\ p \in undone[k])

EntryInv(k) ==
    /\ staged[k].by = Nobody => staged[k] = NoEntry
    /\ final[k].by = Nobody => final[k] = NoEntry
    /\ final[k] # NoEntry =>
          /\ final[k].whole /\ final[k].synced
          /\ at[final[k].by] \in Renamed
          /\ final[k].of = {known[final[k].by].version}

IInv ==
    /\ TypeOK
    /\ \A p \in Publishers : known[p].version <= raw.version
    /\ \A p \in Publishers, k \in Kinds : WorkInv(p, k)
    /\ \A k \in Kinds : EntryInv(k)

-----------------------------------------------------------------------------
(* Steps seen from one publisher and one kind of entry *)

\* Two entries that differ at most in whether they are open.
SameEntry(e, f) == e.by = f.by /\ e.of = f.of /\ e.whole = f.whole /\ e.synced = f.synced

\* A publisher that stays where it is, or gives up, keeps its relation to the
\* entries while nobody touches what it holds.
LEMMA WorkKept ==
  ASSUME IInv, NEW p \in Publishers, NEW k \in Kinds,
         at'[p] = at[p] \/ at'[p] \in {"failed", "dead", "new"},
         known'[p] = known[p], source'[p] = source[p],
         raw' \in Raws, raw.version <= raw'.version,
         at[p] \in Holding(k) => SameEntry(staged'[k], staged[k]),
         final[k].by # Nobody => final'[k].by = final[k].by, undone' = undone
  PROVE  WorkInv(p, k)'
<1> USE DEF IInv, TypeOK, Raws, Versions, Kinds
<1>1. WorkInv(p, k) /\ p # Nobody /\ known[p] \in Raws /\ raw.version \in Nat /\ raw'.version \in Nat
      /\ known[p].version \in Nat
  BY PublicationAssumption
<1>2. CASE at'[p] \in {"failed", "dead", "new"}
  BY <1>2 DEF WorkInv, Holding, BothHeld, Converted, Durable, Confirmed, ReinspectAt, RenameAt, ConfirmAt
<1>3. CASE at'[p] = at[p]
  <2>1. /\ (at[p] \in Holding(k) => staged[k].by = p)'
        /\ (at[p] \in Holding(k) \ (Converted(k) \union {"read", "recheck"})
                => staged[k].of = {})'
    BY <1>1, <1>3 DEF WorkInv, SameEntry
  <2>2. /\ at[p] \in {"read", "recheck"} => at[p] \in Holding(k)
        /\ at[p] \in Converted(k) => at[p] \in Holding(k)
        /\ at[p] \in Durable(k) => at[p] \in Holding(k)
    BY DEF Holding, BothHeld, Converted, Durable
  <2>3. (at[p] \in {"read", "recheck"} =>
            staged[k].of \subseteq known[p].version .. raw.version)'
    <3> SUFFICES ASSUME at[p] \in {"read", "recheck"}
                 PROVE  staged'[k].of \subseteq known[p].version .. raw'.version
      BY <1>3
    <3>1. staged'[k].of = staged[k].of
      BY <2>2 DEF SameEntry
    <3>2. staged[k].of \subseteq known[p].version .. raw.version
      BY <1>1 DEF WorkInv
    <3>3. known[p].version .. raw.version \subseteq known[p].version .. raw'.version
      BY <1>1
    <3> QED
      BY <3>1, <3>2, <3>3
  <2>4. /\ (at[p] = "recheck" => staged[k].of # {})'
        /\ (at[p] \in Converted(k) => staged[k].of = {known[p].version})'
        /\ (at[p] \in Durable(k) => staged[k].whole /\ staged[k].synced)'
    BY <1>1, <1>3, <2>2 DEF WorkInv, SameEntry
  <2>5. (at[p] \in {ReinspectAt(k), RenameAt(k), ConfirmAt(k)} => source[p] = p)'
    BY <1>1, <1>3 DEF WorkInv
  <2>6. (at[p] \in Confirmed(k) =>
            final[k].by = p \/ (at[p] = "published" /\ p \in undone[k]))'
    BY <1>1, <1>3 DEF WorkInv
  <2> QED
    BY <2>1, <2>3, <2>4, <2>5, <2>6 DEF WorkInv
<1> QED
  BY <1>2, <1>3

\* The same of the entries of one kind.
LEMMA EntryKept ==
  ASSUME IInv, NEW k \in Kinds,
         final'[k] = final[k],
         staged'[k].by = Nobody => staged'[k] = NoEntry,
         \A p \in Publishers : at[p] \in Renamed => at'[p] \in Renamed /\ known'[p] = known[p]
  PROVE  EntryInv(k)'
<1>1. EntryInv(k) /\ final[k] \in Entries
  BY DEF IInv, TypeOK
<1>2. CASE final[k] = NoEntry
  BY <1>1, <1>2 DEF EntryInv
<1>3. CASE final[k] # NoEntry
  <2>1. final[k].by \in Publishers /\ at[final[k].by] \in Renamed
    BY <1>1, <1>3 DEF EntryInv, Entries
  <2>2. at'[final[k].by] \in Renamed /\ known'[final[k].by] = known[final[k].by]
    BY <2>1
  <2> QED
    BY <1>1, <1>3, <2>2 DEF EntryInv
<1> QED
  BY <1>2, <1>3

\* A step of one publisher has to be looked at only where that publisher is.
LEMMA StepOfOne ==
  ASSUME IInv, TypeOK', NEW p \in Publishers,
         \A q \in Publishers \ {p} :
            at'[q] = at[q] /\ known'[q] = known[q] /\ source'[q] = source[q],
         raw' = raw, undone' = undone, known'[p].version <= raw.version,
         \A k \in Kinds : WorkInv(p, k)' /\ EntryInv(k)',
         \A k \in Kinds, q \in Publishers \ {p} :
            at[q] \in Holding(k) => SameEntry(staged'[k], staged[k]),
         \A k \in Kinds : final[k].by # Nobody => final'[k].by = final[k].by
  PROVE  IInv'
<1>1. raw \in Raws /\ raw.version \in Nat
  BY DEF IInv, TypeOK, Raws, Versions
<1>2. ASSUME NEW q \in Publishers, NEW k \in Kinds PROVE WorkInv(q, k)'
  <2>1. CASE q = p
    BY <2>1
  <2>2. CASE q # p
    BY <1>1, <2>2, WorkKept
  <2> QED
    BY <2>1, <2>2
<1>3. \A q \in Publishers : known'[q].version <= raw'.version
  BY DEF IInv
<1> QED
  BY <1>2, <1>3 DEF IInv

\* An inspection, and whatever else changes nothing but the stage of p.
LEMMA StageStep ==
  ASSUME IInv, NEW p \in Publishers, NEW to \in Working \union Ended,
         at' = [at EXCEPT ![p] = to],
         UNCHANGED <<disk, count, known, source, undone, mishaps>>,
         at[p] \in Renamed => to \in Renamed,
         \A k \in Kinds : WorkInv(p, k)'
  PROVE  IInv'
<1>1. TypeOK'
  BY DEF IInv, TypeOK, disk
<1>2. at'[p] = to /\ \A q \in Publishers \ {p} : at'[q] = at[q]
  BY DEF IInv, TypeOK
<1>3. ASSUME NEW k \in Kinds PROVE EntryInv(k)'
  <2>1. EntryInv(k)
    BY DEF IInv
  <2> QED
    BY <1>2, <2>1, EntryKept DEF disk, EntryInv
<1>4. known'[p].version <= raw.version
  BY DEF IInv, disk
<1>5. \A k \in Kinds : SameEntry(staged'[k], staged[k]) /\ final'[k].by = final[k].by
  BY DEF SameEntry, disk
<1> QED
  BY <1>1, <1>2, <1>3, <1>4, <1>5, StepOfOne DEF disk

LEMMA InitIInv == Init => IInv
<1> SUFFICES ASSUME Init PROVE IInv
  OBVIOUS
<1>1. NoEntry \in Entries /\ NoEntry.by = Nobody
  BY DEF NoEntry, Entries
<1>2. raw \in Raws /\ raw.version = 0
  BY PublicationAssumption DEF Init, Raws, Versions
<1>3. TypeOK
  <2>1. directory \in [Directories -> {"missing", "there", "redirected"}]
    BY DEF Init
  <2>2. staged \in [Kinds -> Entries] /\ final \in [Kinds -> Entries]
    BY <1>1 DEF Init
  <2>3. at \in [Publishers -> Working \union Ended] /\ count \in [Publishers -> Nat]
    BY DEF Init, Working
  <2>4. known \in [Publishers -> Raws]
    BY <1>2 DEF Init
  <2>5. manifest \in BOOLEAN /\ source \in [Publishers -> Publishers \union {Nobody}]
    BY DEF Init
  <2>6. mishaps \in 0..MaxMishaps /\ undone \in [Kinds -> SUBSET Publishers]
    BY PublicationAssumption DEF Init
  <2> QED
    BY <1>2, <2>1, <2>2, <2>3, <2>4, <2>5, <2>6 DEF TypeOK
<1>4. \A p \in Publishers : known[p].version <= raw.version
  BY <1>2 DEF Init
<1>5. \A p \in Publishers, k \in Kinds : WorkInv(p, k)
  BY DEF Init, WorkInv, Kinds, Holding, BothHeld, Converted, Durable, Confirmed, ReinspectAt,
         RenameAt, ConfirmAt
<1>6. \A k \in Kinds : EntryInv(k)
  BY DEF Init, EntryInv
<1> QED
  BY <1>3, <1>4, <1>5, <1>6 DEF IInv

-----------------------------------------------------------------------------
(* The steps of a publisher *)

\* Before it creates anything a publisher is related to no entry.
LEMMA EarlyWork ==
  ASSUME NEW p \in Publishers, NEW k \in Kinds,
         at'[p] \in {"targets", "tree", "mkdir", "clear", "check research", "create research"}
  PROVE  WorkInv(p, k)'
  BY DEF WorkInv, Kinds, Holding, BothHeld, Converted, Durable, Confirmed, ReinspectAt,
         RenameAt, ConfirmAt

\* What opening a staged entry exclusively leaves in it.
LEMMA FreshEntry ==
  ASSUME NEW p \in Publishers
  PROVE  LET e == [NoEntry EXCEPT !.by = p, !.open = TRUE]
         IN  e \in Entries /\ e.by = p /\ e.of = {} /\ e # NoEntry
  BY PublicationAssumption DEF NoEntry, Entries

LEMMA StepEarly ==
  ASSUME IInv, NEW p \in Publishers,
         Preflight(p) \/ Begin(p) \/ PassDirectory(p) \/ MakeDirectory(p) \/ TreeComplete(p)
            \/ StillClear(p) \/ CheckResearch(p)
  PROVE  IInv'
<1> DEFINE Early == {"targets", "tree", "mkdir", "clear", "check research", "create research"}
<1>1. /\ at[p] \in {"new", "targets", "tree", "mkdir", "clear", "check research"}
      /\ UNCHANGED <<staged, final, manifest, raw, known, source, undone, mishaps>>
  BY DEF Preflight, Begin, PassDirectory, MakeDirectory, TreeComplete, StillClear,
         CheckResearch, Inspect, Go, disk
<1>2. count' \in [Publishers -> Nat]
  <2>1. count \in [Publishers -> Nat]
    BY DEF IInv, TypeOK
  <2>2. UNCHANGED count \/ count' = [count EXCEPT ![p] = @ + 1]
    BY DEF Preflight, Begin, PassDirectory, MakeDirectory, TreeComplete, StillClear,
           CheckResearch, Inspect
  <2> QED
    BY <2>1, <2>2
<1>3. PICK to \in Early : at' = [at EXCEPT ![p] = to]
  <2>1. CASE PassDirectory(p)
    <3>1. at[p] = "tree" /\ (UNCHANGED at \/ at' = [at EXCEPT ![p] = "mkdir"])
      BY <2>1 DEF PassDirectory, Go
    <3> QED
      BY <3>1 DEF IInv, TypeOK
  <2> QED
    BY <2>1 DEF Preflight, Begin, MakeDirectory, TreeComplete, StillClear, CheckResearch,
                Inspect, Go
<1>4. TypeOK'
  <2>1. directory' \in [Directories -> {"missing", "there", "redirected"}]
    BY DEF IInv, TypeOK, Preflight, Begin, PassDirectory, MakeDirectory, TreeComplete,
           StillClear, CheckResearch, Inspect, disk
  <2>3. at' \in [Publishers -> Working \union Ended]
    BY <1>3 DEF IInv, TypeOK, Working
  <2> QED
    BY <1>1, <1>2, <2>1, <2>3 DEF IInv, TypeOK
<1>5. at'[p] = to /\ \A q \in Publishers \ {p} : at'[q] = at[q]
  BY <1>3 DEF IInv, TypeOK
<1>6. \A k \in Kinds : WorkInv(p, k)'
  BY <1>5, EarlyWork
<1>7. ASSUME NEW k \in Kinds PROVE EntryInv(k)'
  <2>1. EntryInv(k) /\ at[p] \notin Renamed
    BY <1>1 DEF IInv, Renamed, Ended
  <2> QED
    BY <1>1, <1>5, <2>1, EntryKept DEF EntryInv
<1>8. \A k \in Kinds : SameEntry(staged'[k], staged[k]) /\ final'[k].by = final[k].by
  BY <1>1 DEF SameEntry
<1>9. known'[p].version <= raw.version
  BY <1>1 DEF IInv
<1> QED
  BY <1>1, <1>4, <1>5, <1>6, <1>7, <1>8, <1>9, StepOfOne

LEMMA StepCreate == ASSUME IInv, NEW p \in Publishers, NEW k \in Kinds, Create(p, k) PROVE IInv'
<1> DEFINE e == [NoEntry EXCEPT !.by = p, !.open = TRUE]
<1>1. e \in Entries /\ e.by = p /\ e.of = {} /\ e # NoEntry /\ NoEntry.by = Nobody
      /\ p # Nobody
  BY FreshEntry, PublicationAssumption DEF NoEntry
<1> HIDE DEF e
<1>2. /\ staged' = [staged EXCEPT ![k] = e] /\ staged[k] = NoEntry
      /\ at[p] = CreateAt(k) /\ at' = [at EXCEPT ![p] = VerifyAt(k)]
      /\ UNCHANGED <<directory, final, manifest, raw, count, known, source, undone, mishaps>>
  BY DEF Create, Go, e
<1>3. TypeOK'
  BY <1>1, <1>2 DEF IInv, TypeOK, VerifyAt, Working
<1>4. /\ at'[p] = VerifyAt(k) /\ \A q \in Publishers \ {p} : at'[q] = at[q]
      /\ staged'[k] = e /\ \A j \in Kinds \ {k} : staged'[j] = staged[j]
  BY <1>2 DEF IInv, TypeOK
<1>5. ASSUME NEW j \in Kinds PROVE WorkInv(p, j)'
  <2>1. WorkInv(p, j)
    BY DEF IInv
  <2>2. CASE j = k
    <3>1. staged'[j].by = p /\ staged'[j].of = {}
      BY <1>1, <1>4, <2>2
    <3>2. at'[p] \in {"verify research", "verify failure"}
      BY <1>4 DEF VerifyAt
    <3> QED
      BY <3>1, <3>2 DEF WorkInv, Kinds, Holding, BothHeld, Converted, Durable, Confirmed,
         ReinspectAt, RenameAt, ConfirmAt
  <2>3. CASE j # k /\ j = "failure"
    <3>1. at'[p] = "verify research"
      BY <1>4, <2>3 DEF VerifyAt
    <3> QED
      BY <2>3, <3>1 DEF WorkInv, Holding, BothHeld, Converted, Durable, Confirmed,
         ReinspectAt, RenameAt, ConfirmAt
  <2>4. CASE j # k /\ j = "research"
    <3>1. at[p] = "create failure" /\ at'[p] = "verify failure"
      BY <1>2, <1>4, <2>4 DEF CreateAt, VerifyAt, Kinds
    <3>2. staged'[j] = staged[j]
      BY <1>4, <2>4
    <3>3. staged[j].by = p /\ staged[j].of = {}
      BY <2>1, <2>4, <3>1 DEF WorkInv, Holding, Converted
    <3> QED
      BY <2>4, <3>1, <3>2, <3>3 DEF WorkInv, Holding, BothHeld, Converted, Durable, Confirmed,
         ReinspectAt, RenameAt, ConfirmAt
  <2> QED
    BY <2>2, <2>3, <2>4 DEF Kinds
<1>6. ASSUME NEW j \in Kinds PROVE EntryInv(j)'
  <2>1. EntryInv(j) /\ at[p] \notin Renamed
    BY <1>2 DEF IInv, Renamed, Ended, CreateAt
  <2>2. staged'[j].by = Nobody => staged'[j] = NoEntry
    BY <1>1, <1>4, <2>1 DEF EntryInv
  <2> QED
    BY <1>2, <1>4, <2>1, <2>2, EntryKept
<1>7. ASSUME NEW j \in Kinds, NEW q \in Publishers \ {p}, at[q] \in Holding(j)
      PROVE  SameEntry(staged'[j], staged[j])
  <2>1. WorkInv(q, j) /\ q # Nobody
    BY PublicationAssumption DEF IInv
  <2>2. j # k
    BY <1>1, <1>2, <1>7, <2>1 DEF WorkInv
  <2> QED
    BY <1>4, <2>2 DEF SameEntry
<1>8. known'[p].version <= raw.version
  BY <1>2 DEF IInv
<1> QED
  BY <1>2, <1>3, <1>4, <1>5, <1>6, <1>7, <1>8, StepOfOne

LEMMA StepVerify ==
  ASSUME IInv, NEW p \in Publishers,
         VerifyResearch(p) \/ CheckFailure(p) \/ VerifyFailure(p) \/ VerifyPair(p)
  PROVE  IInv'
<1>1. /\ UNCHANGED <<disk, count, known, source, undone, mishaps>>
      /\ \A k \in Kinds : WorkInv(p, k)
      /\ at \in [Publishers -> Working \union Ended]
  BY DEF VerifyResearch, CheckFailure, VerifyFailure, VerifyPair, Inspect, IInv, TypeOK
<1>2. PICK to \in {"check failure", "create failure", "verify pair", "inspect raw"} :
         at' = [at EXCEPT ![p] = to]
  BY DEF VerifyResearch, CheckFailure, VerifyFailure, VerifyPair, Inspect, Go
<1>3. /\ at[p] \in Holding("research") /\ to # "verify failure"
      /\ to \in {"verify pair", "inspect raw"} => at[p] \in Holding("failure")
      /\ at[p] \in {"verify research", "check failure", "verify failure", "verify pair"}
      /\ at'[p] = to
  BY <1>1, <1>2 DEF VerifyResearch, CheckFailure, VerifyFailure, VerifyPair, Inspect, Go,
                    Holding, BothHeld
<1>4. \A k \in Kinds : WorkInv(p, k)'
  BY <1>1, <1>3 DEF disk, WorkInv, Kinds, Holding, BothHeld, Converted, Durable, Confirmed,
                    ReinspectAt, RenameAt, ConfirmAt
<1> QED
  BY <1>1, <1>2, <1>3, <1>4, StageStep DEF Working, Renamed, Ended

LEMMA StepPrepare == ASSUME IInv, NEW p \in Publishers, Prepare(p) PROVE IInv'
<1>1. "research" \in Kinds /\ "failure" \in Kinds
  BY DEF Kinds
<1> QED
  BY <1>1, StepEarly, StepCreate, StepVerify DEF Prepare


\* Closing the streams changes nothing its readers could see.
LEMMA ReleasedEntry ==
  ASSUME TypeOK, NEW p \in Publishers, NEW k \in Kinds
  PROVE  /\ Released(p)[k] \in Entries /\ SameEntry(Released(p)[k], staged[k])
         /\ staged[k] = NoEntry => Released(p)[k] = NoEntry
<1>1. staged[k] \in Entries
  BY DEF TypeOK
<1>2. CASE Mine(p, k)
  <2>1. Released(p)[k] = [staged[k] EXCEPT !.open = FALSE]
    BY <1>2 DEF Released
  <2>2. staged[k] # NoEntry
    BY <1>2, PublicationAssumption DEF Mine, NoEntry
  <2> QED
    BY <1>1, <2>1, <2>2 DEF Entries, SameEntry
<1>3. CASE ~Mine(p, k)
  BY <1>1, <1>3 DEF Released, SameEntry
<1> QED
  BY <1>2, <1>3

\* What is known of both entries while the raw file is read.
LEMMA BothEntries ==
  ASSUME IInv, NEW p \in Publishers, NEW k \in Kinds
  PROVE  /\ at[p] \in BothHeld => staged[k].by = p
         /\ at[p] \in {"inspect raw", "open raw", "bind raw"} => staged[k].of = {}
         /\ at[p] \in {"read", "recheck"} =>
               staged[k].of \subseteq known[p].version .. raw.version
         /\ at[p] = "recheck" => staged[k].of # {}
         /\ at[p] \in {"sync research", "sync failure", "close", "inspect staged"} =>
               staged[k].of = {known[p].version}
<1>1. WorkInv(p, k)
  BY DEF IInv
<1>2. BothHeld \subseteq Holding(k)
  BY DEF Holding
<1>3. \A stage \in {"inspect raw", "open raw", "bind raw"} :
         stage \in Holding(k) \ (Converted(k) \union {"read", "recheck"})
  BY DEF Holding, BothHeld, Converted
<1>4. {"sync research", "sync failure", "close", "inspect staged"} \subseteq Converted(k)
  BY DEF Converted
<1> QED
  BY <1>1, <1>2, <1>3, <1>4 DEF WorkInv

\* What has to be shown of them.
LEMMA BoundWork ==
  ASSUME NEW p \in Publishers, NEW k \in Kinds,
         at'[p] \in {"verify pair", "inspect raw", "open raw", "bind raw", "read", "recheck"},
         staged'[k].by = p,
         at'[p] \notin {"read", "recheck"} => staged'[k].of = {},
         at'[p] \in {"read", "recheck"} =>
            staged'[k].of \subseteq known'[p].version .. raw'.version,
         at'[p] = "recheck" => staged'[k].of # {}
  PROVE  WorkInv(p, k)'
<1>1. at'[p] \notin Converted(k) /\ at'[p] \notin Durable(k) /\ at'[p] \notin Confirmed(k)
      /\ at'[p] \notin {ReinspectAt(k), RenameAt(k), ConfirmAt(k)}
  BY DEF Kinds, Converted, Durable, Confirmed, ReinspectAt, RenameAt, ConfirmAt
<1> QED
  BY <1>1 DEF WorkInv

LEMMA ConvertedWork ==
  ASSUME NEW p \in Publishers, NEW k \in Kinds,
         at'[p] \in {"sync research", "sync failure", "close", "inspect staged",
                     "inspect failure"},
         staged'[k].by = p, staged'[k].of = {known'[p].version},
         at'[p] \in Durable(k) => staged'[k].whole /\ staged'[k].synced
  PROVE  WorkInv(p, k)'
<1>1. at'[p] \in Converted(k) /\ at'[p] \notin Confirmed(k) /\ at'[p] \notin {"read", "recheck"}
      /\ at'[p] \notin {ReinspectAt(k), RenameAt(k), ConfirmAt(k)}
  BY DEF Kinds, Converted, Confirmed, ReinspectAt, RenameAt, ConfirmAt
<1> QED
  BY <1>1 DEF WorkInv

\* The inspections of the conversion, and the two that bind the raw file.
LEMMA StepOpenRaw == ASSUME IInv, NEW p \in Publishers, OpenRaw(p) PROVE IInv'
<1>1. /\ at[p] = "open raw" /\ at' = [at EXCEPT ![p] = "bind raw"]
      /\ UNCHANGED <<disk, count, known, source, undone, mishaps>>
      /\ at'[p] = "bind raw"
  BY DEF OpenRaw, Inspect, Go, IInv, TypeOK
<1>2. \A k \in Kinds : WorkInv(p, k)'
  BY <1>1, BothEntries, BoundWork DEF disk, BothHeld
<1> QED
  BY <1>1, <1>2, StageStep DEF Working, Renamed, Ended

LEMMA StepBind ==
  ASSUME IInv, NEW p \in Publishers, InspectRaw(p) \/ BindRaw(p) PROVE IInv'
<1>1. /\ UNCHANGED <<disk, source, undone, mishaps>>
      /\ known' = [known EXCEPT ![p] = raw]
      /\ UNCHANGED count \/ count' = [count EXCEPT ![p] = 0]
      /\ \/ at[p] = "inspect raw" /\ at' = [at EXCEPT ![p] = "open raw"]
         \/ at[p] = "bind raw" /\ at' = [at EXCEPT ![p] = "read"]
  BY DEF InspectRaw, BindRaw, Go
<1>2. /\ known'[p] = raw /\ at'[p] \in {"open raw", "read"}
      /\ \A q \in Publishers \ {p} : at'[q] = at[q] /\ known'[q] = known[q]
  BY <1>1 DEF IInv, TypeOK
<1>3. TypeOK'
  <2>1. at' \in [Publishers -> Working \union Ended] /\ known' \in [Publishers -> Raws]
    BY <1>1 DEF IInv, TypeOK, Working
  <2>2. count' \in [Publishers -> Nat]
    <3>1. count \in [Publishers -> Nat] /\ 0 \in Nat
      BY DEF IInv, TypeOK
    <3>2. UNCHANGED count \/ count' = [count EXCEPT ![p] = 0]
      BY <1>1
    <3> QED
      BY <3>1, <3>2
  <2> QED
    BY <1>1, <2>1, <2>2 DEF IInv, TypeOK, disk
<1>4. raw.version \in Nat
  BY DEF IInv, TypeOK, Raws, Versions
<1>5. ASSUME NEW k \in Kinds PROVE WorkInv(p, k)'
  <2>1. staged'[k].by = p /\ staged'[k].of = {}
    BY <1>1, BothEntries DEF BothHeld, disk
  <2> QED
    BY <1>2, <2>1, BoundWork
<1>6. ASSUME NEW k \in Kinds PROVE EntryInv(k)'
  <2>1. EntryInv(k) /\ at[p] \notin Renamed
    BY <1>1 DEF IInv, Renamed, Ended
  <2> QED
    BY <1>1, <1>2, <2>1, EntryKept DEF EntryInv, disk
<1>7. \A k \in Kinds : SameEntry(staged'[k], staged[k]) /\ final'[k].by = final[k].by
  BY <1>1 DEF SameEntry, disk
<1>8. raw' = raw /\ UNCHANGED <<source, undone>> /\ known'[p].version <= raw.version
  <2>1. known'[p] = raw /\ raw' = raw /\ UNCHANGED <<source, undone>>
    BY <1>1, <1>2 DEF disk
  <2> QED
    BY <1>4, <2>1
<1> QED
  BY <1>2, <1>3, <1>5, <1>6, <1>7, <1>8, StepOfOne

LEMMA StepReadChunk == ASSUME IInv, NEW p \in Publishers, ReadChunk(p) PROVE IInv'
<1>1. raw.version \in Nat /\ raw.version \in Versions /\ known[p].version \in Nat
      /\ known[p].version <= raw.version
  BY DEF IInv, TypeOK, Raws, Versions
<1>2. count' \in [Publishers -> Nat]
  <2>1. count \in [Publishers -> Nat] /\ count' = [count EXCEPT ![p] = @ + 1]
    BY DEF ReadChunk, IInv, TypeOK
  <2> QED
    BY <2>1
<1>3. /\ at[p] = "read" /\ at'[p] \in {"read", "recheck"}
      /\ at' \in [Publishers -> Working \union Ended]
      /\ \A q \in Publishers \ {p} : at'[q] = at[q]
      /\ UNCHANGED <<directory, final, manifest, raw, known, source, undone, mishaps>>
  BY DEF ReadChunk, IInv, TypeOK, Working
<1>4. \A k \in Kinds : staged[k].by = p /\ staged[k].of \subseteq known[p].version .. raw.version
  BY <1>3, BothEntries DEF BothHeld
<1>5. ASSUME NEW k \in Kinds
      PROVE  /\ staged'[k] \in Entries /\ staged'[k].by = p
             /\ staged'[k].of = staged[k].of \union {raw.version}
  <2>1. staged'[k] = [staged[k] EXCEPT !.of = @ \union {raw.version}]
    BY <1>4 DEF ReadChunk, Mine
  <2>2. staged[k] \in Entries
    BY DEF IInv, TypeOK
  <2> QED
    BY <1>1, <1>4, <2>1, <2>2 DEF Entries
<1>6. TypeOK'
  <2>1. staged' \in [Kinds -> Entries]
    <3>1. staged' = [k \in Kinds |-> staged'[k]]
      BY DEF ReadChunk
    <3> QED
      BY <1>5, <3>1
  <2> QED
    BY <1>2, <1>3, <2>1 DEF IInv, TypeOK
<1>7. ASSUME NEW k \in Kinds PROVE WorkInv(p, k)'
  <2>1. staged'[k].of \subseteq known[p].version .. raw.version
    BY <1>1, <1>4, <1>5
  <2>2. staged'[k].of # {}
    BY <1>5
  <2> QED
    BY <1>3, <1>5, <2>1, <2>2, BoundWork
<1>8. ASSUME NEW k \in Kinds PROVE EntryInv(k)'
  <2>1. at[p] \notin Renamed /\ p # Nobody
    BY <1>3, PublicationAssumption DEF Renamed, Ended
  <2> QED
    BY <1>3, <1>5, <2>1, EntryKept
<1>9. ASSUME NEW k \in Kinds, NEW q \in Publishers \ {p}, at[q] \in Holding(k)
      PROVE  SameEntry(staged'[k], staged[k])
  BY <1>4, <1>9 DEF IInv, WorkInv
<1> QED
  BY <1>1, <1>3, <1>6, <1>7, <1>8, <1>9, StepOfOne

LEMMA StepRecheck == ASSUME IInv, NEW p \in Publishers, Recheck(p) PROVE IInv'
<1>1. /\ at[p] = "recheck" /\ at' = [at EXCEPT ![p] = "sync research"]
      /\ UNCHANGED <<disk, count, known, source, undone, mishaps>>
      /\ raw = known[p] /\ at'[p] = "sync research"
  BY DEF Recheck, Inspect, Go, Unchanged, IInv, TypeOK
<1>2. raw.version \in Nat
  BY DEF IInv, TypeOK, Raws, Versions
<1>3. ASSUME NEW k \in Kinds PROVE WorkInv(p, k)'
  <2>1. /\ staged[k].by = p /\ staged[k].of # {}
        /\ staged[k].of \subseteq raw.version .. raw.version
    BY <1>1, BothEntries DEF BothHeld
  <2>2. staged[k].of = {raw.version}
    BY <1>2, <2>1
  <2>3. "sync research" \notin Durable(k)
    BY DEF Kinds, Durable, Converted
  <2> QED
    BY <1>1, <2>1, <2>2, <2>3, ConvertedWork DEF disk
<1> QED
  BY <1>1, <1>3, StageStep DEF Working, Renamed, Ended

LEMMA StepSync == ASSUME IInv, NEW p \in Publishers, NEW k \in Kinds, Sync(p, k) PROVE IInv'
<1>1. /\ at[p] = SyncAt(k) /\ at' = [at EXCEPT ![p] = AfterSync(k)]
      /\ staged[k].by = p
      /\ UNCHANGED <<directory, final, manifest, raw, count, known, source, undone, mishaps>>
  BY DEF Sync, Go, Mine
<1>2. /\ at'[p] = AfterSync(k) /\ \A q \in Publishers \ {p} : at'[q] = at[q]
      /\ at' \in [Publishers -> Working \union Ended]
  BY <1>1 DEF IInv, TypeOK, AfterSync, Working
<1>3. /\ staged'[k] \in Entries /\ staged'[k].by = staged[k].by /\ staged'[k].of = staged[k].of
      /\ staged'[k].whole /\ staged'[k].synced
      /\ staged' \in [Kinds -> Entries] /\ \A j \in Kinds \ {k} : staged'[j] = staged[j]
  <2>1. staged \in [Kinds -> Entries] /\ staged[k] \in Entries
    BY DEF IInv, TypeOK
  <2>2. staged' = [staged EXCEPT ![k] = [staged[k] EXCEPT !.whole = TRUE, !.synced = TRUE]]
    BY <2>1 DEF Sync
  <2> QED
    BY <2>1, <2>2 DEF Entries
<1>4. TypeOK'
  BY <1>1, <1>2, <1>3 DEF IInv, TypeOK
<1>5. \A j \in Kinds : staged[j].by = p /\ staged[j].of = {known[p].version}
  BY <1>1, BothEntries DEF SyncAt, BothHeld
<1>6. ASSUME NEW j \in Kinds PROVE WorkInv(p, j)'
  <2>1. staged'[j].by = p /\ staged'[j].of = {known'[p].version}
    BY <1>1, <1>3, <1>5
  <2>2. at'[p] \in Durable(j) => staged'[j].whole /\ staged'[j].synced
    <3>1. CASE j = k
      BY <1>3, <3>1
    <3>2. CASE j # k /\ k = "research"
      BY <1>2, <3>2 DEF Kinds, AfterSync, Durable
    <3>3. CASE j # k /\ k = "failure"
      <4>1. at[p] \in Durable(j) /\ WorkInv(p, j)
        BY <1>1, <3>3 DEF Kinds, SyncAt, Durable, Converted, IInv
      <4> QED
        BY <1>3, <3>3, <4>1 DEF WorkInv
    <3> QED
      BY <3>1, <3>2, <3>3 DEF Kinds
  <2> QED
    BY <1>2, <2>1, <2>2, ConvertedWork DEF AfterSync
<1>7. ASSUME NEW j \in Kinds PROVE EntryInv(j)'
  <2>1. at[p] \notin Renamed /\ p # Nobody
    BY <1>1, PublicationAssumption DEF Renamed, Ended, SyncAt
  <2>2. staged'[j].by # Nobody
    BY <1>3, <1>5, <2>1
  <2> QED
    BY <1>1, <1>2, <2>1, <2>2, EntryKept
<1>8. ASSUME NEW j \in Kinds, NEW q \in Publishers \ {p}, at[q] \in Holding(j)
      PROVE  SameEntry(staged'[j], staged[j])
  BY <1>5, <1>8 DEF IInv, WorkInv
<1>9. known'[p].version <= raw.version
  BY <1>1 DEF IInv
<1> QED
  BY <1>1, <1>2, <1>4, <1>6, <1>7, <1>8, <1>9, StepOfOne

LEMMA StepCloseAll == ASSUME IInv, NEW p \in Publishers, CloseAll(p) PROVE IInv'
<1>1. /\ at[p] = "close" /\ at' = [at EXCEPT ![p] = "inspect staged"]
      /\ UNCHANGED <<directory, final, manifest, raw, count, known, source, undone, mishaps>>
  BY DEF CloseAll, Go
<1>2. /\ at'[p] = "inspect staged" /\ \A q \in Publishers \ {p} : at'[q] = at[q]
      /\ at' \in [Publishers -> Working \union Ended]
  BY <1>1 DEF IInv, TypeOK, Working
<1>3. \A k \in Kinds : /\ staged'[k] \in Entries /\ SameEntry(staged'[k], staged[k])
                       /\ staged[k] = NoEntry => staged'[k] = NoEntry
  BY ReleasedEntry DEF CloseAll, IInv
<1>4. TypeOK'
  <2>1. staged' = [k \in Kinds |-> staged'[k]]
    BY DEF CloseAll, Released
  <2>2. staged' \in [Kinds -> Entries]
    BY <1>3, <2>1
  <2> QED
    BY <1>1, <1>2, <2>2 DEF IInv, TypeOK
<1>5. ASSUME NEW k \in Kinds PROVE WorkInv(p, k)'
  <2>1. at[p] \in Durable(k) /\ WorkInv(p, k)
    BY <1>1 DEF Kinds, Durable, Converted, IInv
  <2>2. staged[k].whole /\ staged[k].synced /\ staged[k].by = p
        /\ staged[k].of = {known[p].version}
    BY <1>1, <2>1, BothEntries DEF WorkInv, BothHeld
  <2> QED
    BY <1>1, <1>2, <1>3, <2>2, ConvertedWork DEF SameEntry
<1>6. ASSUME NEW k \in Kinds PROVE EntryInv(k)'
  <2>1. at[p] \notin Renamed /\ EntryInv(k)
    BY <1>1 DEF Renamed, Ended, IInv
  <2>2. staged'[k].by = Nobody => staged'[k] = NoEntry
    BY <1>3, <2>1 DEF SameEntry, EntryInv
  <2> QED
    BY <1>1, <1>2, <2>1, <2>2, EntryKept
<1>7. known'[p].version <= raw.version
  BY <1>1 DEF IInv
<1> QED
  BY <1>1, <1>2, <1>3, <1>4, <1>5, <1>6, <1>7, StepOfOne

LEMMA StepInspectStaged == ASSUME IInv, NEW p \in Publishers, InspectStaged(p) PROVE IInv'
<1>1. /\ at[p] = "inspect staged" /\ at' = [at EXCEPT ![p] = "inspect failure"]
      /\ UNCHANGED <<disk, count, known, source, undone, mishaps>>
      /\ at'[p] = "inspect failure"
  BY DEF InspectStaged, Inspect, Go, IInv, TypeOK
<1>2. ASSUME NEW k \in Kinds PROVE WorkInv(p, k)'
  <2>1. at[p] \in Durable(k) /\ WorkInv(p, k)
    BY <1>1 DEF Kinds, Durable, Converted, IInv
  <2>2. staged[k].whole /\ staged[k].synced /\ staged[k].by = p
        /\ staged[k].of = {known[p].version}
    BY <1>1, <2>1, BothEntries DEF WorkInv, BothHeld
  <2> QED
    BY <1>1, <2>2, ConvertedWork DEF disk
<1> QED
  BY <1>1, <1>2, StageStep DEF Working, Renamed, Ended

LEMMA StepMaterialize == ASSUME IInv, NEW p \in Publishers, Materialize(p) PROVE IInv'
<1>1. "research" \in Kinds /\ "failure" \in Kinds
  BY DEF Kinds
<1> QED
  BY <1>1, StepBind, StepOpenRaw, StepReadChunk, StepRecheck, StepSync, StepCloseAll,
     StepInspectStaged DEF Materialize

-----------------------------------------------------------------------------
(* The promotion *)

\* The stages in which an entry is promoted: the entry is held until it is
\* renamed, and the failure sidecar is in place before the research file moves.
LEMMA PromotionStages ==
  ASSUME NEW k \in Kinds
  PROVE  /\ {InspectAt(k), ReinspectAt(k), RenameAt(k)}
               \subseteq Holding(k) \intersect Durable(k) \intersect Converted(k)
         /\ ConfirmAt(k) \notin Holding(k) /\ AfterConfirm(k) \notin Holding(k)
         /\ {InspectAt(k), ReinspectAt(k), RenameAt(k), ConfirmAt(k), AfterConfirm(k)}
               \subseteq (Working \union Ended) \ {"read", "recheck", "failed", "dead"}
         /\ {InspectAt(k), ReinspectAt(k), RenameAt(k), ConfirmAt(k)} \intersect Confirmed(k) = {}
         /\ "published" \notin {InspectAt(k), ReinspectAt(k), RenameAt(k), ConfirmAt(k)}
         /\ {ConfirmAt(k), AfterConfirm(k)} \subseteq Renamed
         /\ AfterConfirm(k) \notin {ReinspectAt(k), RenameAt(k), ConfirmAt(k)}
         /\ InspectAt(k) \in Renamed =>
               {ReinspectAt(k), RenameAt(k), ConfirmAt(k), AfterConfirm(k)} \subseteq Renamed
         /\ ReinspectAt(k) \in Renamed =>
               {RenameAt(k), ConfirmAt(k), AfterConfirm(k)} \subseteq Renamed
<1>1. CASE k = "failure"
  BY <1>1 DEF Kinds, InspectAt, ReinspectAt, RenameAt, ConfirmAt, AfterConfirm, Holding, BothHeld,
         Converted, Durable, Confirmed, Working, Ended, Renamed
<1>2. CASE k = "research"
  BY <1>2 DEF Kinds, InspectAt, ReinspectAt, RenameAt, ConfirmAt, AfterConfirm, Holding, BothHeld,
         Converted, Durable, Confirmed, Working, Ended, Renamed
<1> QED
  BY <1>1, <1>2 DEF Kinds

\* The stages of one entry seen from the other.
LEMMA OtherStages ==
  ASSUME NEW k \in Kinds, NEW j \in Kinds, j # k
  PROVE  /\ {InspectAt(k), ReinspectAt(k), RenameAt(k), ConfirmAt(k)}
               \subseteq Holding(j) \intersect Durable(j) \intersect Converted(j)
            \/ /\ {InspectAt(k), ReinspectAt(k), RenameAt(k), ConfirmAt(k), AfterConfirm(k)}
                     \intersect Holding(j) = {}
               /\ {InspectAt(k), ReinspectAt(k), RenameAt(k), ConfirmAt(k)} \subseteq Confirmed(j)
         /\ {InspectAt(k), ReinspectAt(k), RenameAt(k), ConfirmAt(k), AfterConfirm(k)}
               \intersect {ReinspectAt(j), RenameAt(j), ConfirmAt(j)} = {}
         /\ AfterConfirm(k) \in Holding(j) => ConfirmAt(k) \in Holding(j)
<1>1. (k = "failure" /\ j = "research") \/ (k = "research" /\ j = "failure")
  BY DEF Kinds
<1>2. CASE k = "failure" /\ j = "research"
  BY <1>2 DEF InspectAt, ReinspectAt, RenameAt, ConfirmAt, AfterConfirm, Holding, BothHeld,
         Converted, Durable, Confirmed
<1>3. CASE k = "research" /\ j = "failure"
  BY <1>3 DEF InspectAt, ReinspectAt, RenameAt, ConfirmAt, AfterConfirm, Holding, BothHeld,
         Converted, Durable, Confirmed
<1> QED
  BY <1>1, <1>2, <1>3

\* A publisher that promotes keeps its relation to the entries of kind k.
LEMMA PromotingWork ==
  ASSUME IInv, NEW p \in Publishers, NEW k \in Kinds,
         known'[p] = known[p], raw' = raw,
         at'[p] \notin {"read", "recheck"},
         at'[p] \in Holding(k) =>
            /\ at[p] \in Holding(k) \intersect Durable(k) \intersect Converted(k)
            /\ at'[p] \in Converted(k) /\ staged'[k] = staged[k],
         at'[p] \in {ReinspectAt(k), RenameAt(k), ConfirmAt(k)} => source'[p] = p,
         at'[p] \in Confirmed(k) => final'[k].by = p
  PROVE  WorkInv(p, k)'
<1>1. WorkInv(p, k)
  BY DEF IInv
<1>2. /\ at'[p] \in Converted(k) => at'[p] \in Holding(k)
      /\ at'[p] \in Durable(k) => at'[p] \in Holding(k)
      /\ at'[p] # "recheck"
  BY DEF Holding, BothHeld, Converted, Durable
<1> QED
  BY <1>1, <1>2 DEF WorkInv

LEMMA StepInspectEntry ==
  ASSUME IInv, NEW p \in Publishers, NEW k \in Kinds, InspectEntry(p, k) \/ ReinspectEntry(p, k)
  PROVE  IInv'
<1>1. /\ UNCHANGED <<disk, count, known, undone, mishaps>>
      /\ \/ /\ at[p] = InspectAt(k) /\ at' = [at EXCEPT ![p] = ReinspectAt(k)]
            /\ source' = [source EXCEPT ![p] = staged[k].by]
         \/ /\ at[p] = ReinspectAt(k) /\ at' = [at EXCEPT ![p] = RenameAt(k)]
            /\ UNCHANGED source
  BY DEF InspectEntry, ReinspectEntry, Inspect, Go
<1>2. \A q \in Publishers \ {p} : at'[q] = at[q] /\ source'[q] = source[q]
  BY <1>1 DEF IInv, TypeOK
<1>3. /\ at'[p] \in {ReinspectAt(k), RenameAt(k)} /\ source'[p] = p
      /\ at[p] \in {InspectAt(k), ReinspectAt(k)}
      /\ source' \in [Publishers -> Publishers \union {Nobody}]
  <2>1. WorkInv(p, k) /\ at[p] \in Holding(k)
    BY <1>1, PromotionStages DEF IInv
  <2>2. staged[k].by = p /\ (at[p] = ReinspectAt(k) => source[p] = p)
    BY <2>1 DEF WorkInv
  <2> QED
    BY <1>1, <2>2 DEF IInv, TypeOK
<1>4. TypeOK'
  <2>1. at' \in [Publishers -> Working \union Ended]
    BY <1>1, PromotionStages DEF IInv, TypeOK
  <2> QED
    BY <1>1, <1>3, <2>1 DEF IInv, TypeOK, disk
<1>5. ASSUME NEW j \in Kinds PROVE WorkInv(p, j)'
  <2>1. /\ staged'[j] = staged[j] /\ final'[j] = final[j] /\ known'[p] = known[p] /\ raw' = raw
        /\ WorkInv(p, j)
    BY <1>1 DEF disk, IInv
  <2>2. CASE j = k
    <3>1. /\ at'[p] \notin {"read", "recheck"} /\ at'[p] \notin Confirmed(k)
          /\ at[p] \in Holding(k) \intersect Durable(k) \intersect Converted(k)
          /\ at'[p] \in Converted(k)
      BY <1>3, PromotionStages
    <3> QED
      BY <1>3, <2>1, <2>2, <3>1, PromotingWork
  <2>3. CASE j # k
    <3>1. /\ at'[p] \notin {"read", "recheck"}
          /\ at'[p] \notin {ReinspectAt(j), RenameAt(j), ConfirmAt(j)}
      BY <1>3, <2>3, PromotionStages, OtherStages
    <3>2. CASE {InspectAt(k), ReinspectAt(k), RenameAt(k), ConfirmAt(k)}
                  \subseteq Holding(j) \intersect Durable(j) \intersect Converted(j)
      <4>1. at'[p] \in Converted(j) /\ at'[p] \notin Confirmed(j)
        BY <1>3, <3>2 DEF Converted, Confirmed, Kinds
      <4> QED
        BY <1>3, <2>1, <3>1, <3>2, <4>1, PromotingWork
    <3>3. CASE /\ {InspectAt(k), ReinspectAt(k), RenameAt(k), ConfirmAt(k), AfterConfirm(k)}
                     \intersect Holding(j) = {}
               /\ {InspectAt(k), ReinspectAt(k), RenameAt(k), ConfirmAt(k)} \subseteq Confirmed(j)
      <4>1. final[j].by = p /\ at'[p] \notin Holding(j)
        BY <1>3, <2>1, <3>3, PromotionStages DEF WorkInv
      <4> QED
        BY <2>1, <3>1, <4>1, PromotingWork
    <3> QED
      BY <2>3, <3>2, <3>3, OtherStages
  <2> QED
    BY <2>2, <2>3
<1>6. ASSUME NEW j \in Kinds PROVE EntryInv(j)'
  <2>1. EntryInv(j) /\ (at[p] \in Renamed => at'[p] \in Renamed)
    BY <1>1, <1>3, PromotionStages DEF IInv, TypeOK
  <2> QED
    BY <1>1, <1>2, <2>1, EntryKept DEF EntryInv, disk
<1>7. /\ \A j \in Kinds : SameEntry(staged'[j], staged[j]) /\ final'[j].by = final[j].by
      /\ UNCHANGED <<known, raw, undone>> /\ known'[p].version <= raw.version
  BY <1>1 DEF SameEntry, disk, IInv
<1> QED
  BY <1>2, <1>4, <1>5, <1>6, <1>7, StepOfOne

LEMMA StepConfirmEntry ==
  ASSUME IInv, NEW p \in Publishers, NEW k \in Kinds, ConfirmEntry(p, k)
  PROVE  IInv'
<1>1. /\ UNCHANGED <<disk, count, known, source, undone, mishaps>>
      /\ at[p] = ConfirmAt(k) /\ at' = [at EXCEPT ![p] = AfterConfirm(k)]
      /\ final[k].by = source[p]
  BY DEF ConfirmEntry, Inspect, Go
<1>2. at'[p] = AfterConfirm(k) /\ AfterConfirm(k) \in Working \union Ended
  BY <1>1, PromotionStages DEF IInv, TypeOK
<1>3. final[k].by = p
  BY <1>1 DEF IInv, WorkInv
<1>4. ASSUME NEW j \in Kinds PROVE WorkInv(p, j)'
  <2>1. /\ staged'[j] = staged[j] /\ final'[j] = final[j] /\ known'[p] = known[p] /\ raw' = raw
        /\ WorkInv(p, j)
    BY <1>1 DEF disk, IInv
  <2>2. CASE j = k
    <3>1. /\ at'[p] \notin {"read", "recheck"} /\ at'[p] \notin Holding(k)
          /\ at'[p] \notin {ReinspectAt(k), RenameAt(k), ConfirmAt(k)}
      BY <1>2, PromotionStages
    <3> QED
      BY <1>3, <2>1, <2>2, <3>1, PromotingWork
  <2>3. CASE j # k
    <3>1. /\ at'[p] \notin {"read", "recheck"}
          /\ at'[p] \notin {ReinspectAt(j), RenameAt(j), ConfirmAt(j)}
      BY <1>2, <2>3, PromotionStages, OtherStages
    <3>2. CASE k = "failure"
      <4>1. j = "research" /\ at[p] = "confirm failure" /\ at'[p] = "inspect research"
        BY <1>1, <1>2, <2>3, <3>2 DEF Kinds, ConfirmAt, AfterConfirm
      <4>2. /\ at'[p] \in Converted(j) /\ at'[p] \notin Confirmed(j)
            /\ at[p] \in Holding(j) \intersect Durable(j) \intersect Converted(j)
        BY <4>1 DEF Converted, Confirmed, Holding, Durable
      <4> QED
        BY <2>1, <3>1, <4>2, PromotingWork
    <3>3. CASE k = "research"
      <4>1. j = "failure" /\ at[p] = "confirm research" /\ at'[p] = "published"
        BY <1>1, <1>2, <2>3, <3>3 DEF Kinds, ConfirmAt, AfterConfirm
      <4>2. at[p] \in Confirmed(j) /\ at'[p] \notin Holding(j)
        BY <4>1 DEF Confirmed, Holding, BothHeld
      <4>3. final'[j].by = p
        BY <2>1, <4>1, <4>2 DEF WorkInv
      <4> QED
        BY <2>1, <3>1, <4>2, <4>3, PromotingWork
    <3> QED
      BY <3>2, <3>3 DEF Kinds
  <2> QED
    BY <2>2, <2>3
<1> QED
  BY <1>1, <1>2, <1>4, PromotionStages, StageStep

\* os.rename() moves an entry with all that is known of it, or loses it.
LEMMA StepRename ==
  ASSUME IInv, NEW p \in Publishers, NEW k \in Kinds, Rename(p, k)
  PROVE  IInv'
<1>1. /\ UNCHANGED <<directory, manifest, raw, count, known, source, undone, mishaps>>
      /\ at[p] = RenameAt(k) /\ at' = [at EXCEPT ![p] = ConfirmAt(k)]
      /\ staged[k] # NoEntry /\ final[k] = NoEntry
      /\ staged' = [staged EXCEPT ![k] = NoEntry]
      /\ final' = final \/ final' = [final EXCEPT ![k] = staged[k]]
  BY DEF Rename, Go
<1>2. /\ at'[p] = ConfirmAt(k) /\ \A q \in Publishers \ {p} : at'[q] = at[q]
      /\ at' \in [Publishers -> Working \union Ended]
  BY <1>1, PromotionStages DEF IInv, TypeOK
<1>3. /\ staged'[k] = NoEntry /\ final'[k] \in {NoEntry, staged[k]}
      /\ \A j \in Kinds \ {k} : staged'[j] = staged[j] /\ final'[j] = final[j]
  BY <1>1 DEF IInv, TypeOK
<1>4. NoEntry \in Entries /\ NoEntry.by = Nobody
  BY DEF NoEntry, Entries
<1>5. TypeOK'
  BY <1>1, <1>2, <1>4 DEF IInv, TypeOK
<1>6. /\ staged[k].by = p /\ staged[k].of = {known[p].version}
      /\ staged[k].whole /\ staged[k].synced
      /\ source[p] = p
  BY <1>1, PromotionStages DEF IInv, WorkInv
<1>7. ASSUME NEW j \in Kinds PROVE WorkInv(p, j)'
  <2>1. WorkInv(p, j) /\ known'[p] = known[p] /\ raw' = raw /\ source'[p] = p
    BY <1>1, <1>6 DEF IInv
  <2>2. CASE j = k
    <3>1. /\ at'[p] \notin {"read", "recheck"} /\ at'[p] \notin Holding(k)
          /\ at'[p] \notin Confirmed(k)
      BY <1>2, PromotionStages
    <3> QED
      BY <2>1, <2>2, <3>1, PromotingWork
  <2>3. CASE j # k
    <3>1. /\ at'[p] \notin {"read", "recheck"}
          /\ at'[p] \notin {ReinspectAt(j), RenameAt(j), ConfirmAt(j)}
          /\ staged'[j] = staged[j] /\ final'[j] = final[j]
      BY <1>2, <1>3, <2>3, PromotionStages, OtherStages
    <3>2. CASE k = "failure"
      <4>1. /\ at'[p] \in Converted(j) /\ at'[p] \notin Confirmed(j)
            /\ at[p] \in Holding(j) \intersect Durable(j) \intersect Converted(j)
        BY <1>1, <1>2, <2>3, <3>2 DEF Converted, Confirmed, Kinds, ConfirmAt, RenameAt,
           Holding, Durable, BothHeld
      <4> QED
        BY <2>1, <3>1, <4>1, PromotingWork
    <3>3. CASE k = "research"
      <4>1. at[p] \in Confirmed(j) /\ at'[p] \notin Holding(j)
        BY <1>1, <1>2, <2>3, <3>3 DEF Confirmed, Kinds, ConfirmAt, RenameAt, Holding, BothHeld
      <4>2. final'[j].by = p
        BY <1>1, <2>1, <3>1, <4>1, PromotionStages DEF WorkInv
      <4> QED
        BY <2>1, <3>1, <4>1, <4>2, PromotingWork
    <3> QED
      BY <3>2, <3>3 DEF Kinds
  <2> QED
    BY <2>2, <2>3
<1>8. ASSUME NEW j \in Kinds PROVE EntryInv(j)'
  <2>1. EntryInv(j) /\ known' = known /\ at'[p] \in Renamed
        /\ \A q \in Publishers : at[q] \in Renamed => at'[q] \in Renamed /\ known'[q] = known[q]
    BY <1>1, <1>2, PromotionStages DEF IInv
  <2>2. staged'[j].by = Nobody => staged'[j] = NoEntry
    BY <1>3, <2>1 DEF EntryInv
  <2>3. CASE j = k /\ final'[k] = staged[k]
    BY <1>6, <2>1, <2>2, <2>3, PublicationAssumption DEF EntryInv
  <2>4. CASE final'[j] = final[j]
    BY <2>1, <2>2, <2>4, EntryKept
  <2> QED
    BY <1>1, <1>3, <2>3, <2>4
<1>9. ASSUME NEW j \in Kinds, NEW q \in Publishers \ {p}, at[q] \in Holding(j)
      PROVE  SameEntry(staged'[j], staged[j])
  <2>1. staged[j].by = q
    BY <1>9 DEF IInv, WorkInv
  <2>2. j # k
    BY <1>6, <2>1
  <2> QED
    BY <1>3, <2>2 DEF SameEntry
<1>10. /\ \A j \in Kinds : final[j].by # Nobody => final'[j].by = final[j].by
       /\ UNCHANGED <<known, raw, source, undone>> /\ known'[p].version <= raw.version
  BY <1>1, <1>3, <1>4 DEF IInv
<1> QED
  BY <1>2, <1>5, <1>7, <1>8, <1>9, <1>10, StepOfOne

LEMMA StepPromote == ASSUME IInv, NEW p \in Publishers, Promote(p) PROVE IInv'
  BY StepInspectEntry, StepRename, StepConfirmEntry DEF Promote, PromoteEntry

-----------------------------------------------------------------------------
(* Failures, crashes and everybody else *)

\* A publisher that gives up, by itself or not, closes its streams.
LEMMA StepGivesUp == ASSUME IInv, NEW p \in Publishers, Refuse(p) \/ Crash(p) PROVE IInv'
<1>1. /\ UNCHANGED <<directory, final, manifest, raw, count, known, source, undone>>
      /\ staged' = Released(p)
  BY DEF Refuse, Crash
<1>2. mishaps' \in 0..MaxMishaps
  BY PublicationAssumption DEF Refuse, Crash, Mishap, IInv, TypeOK
<1>3. /\ at'[p] \in {"failed", "dead"} /\ \A q \in Publishers \ {p} : at'[q] = at[q]
      /\ at' \in [Publishers -> Working \union Ended]
  BY DEF Refuse, Crash, IInv, TypeOK, Ended
<1>4. \A k \in Kinds : /\ staged'[k] \in Entries /\ SameEntry(staged'[k], staged[k])
                       /\ staged[k] = NoEntry => staged'[k] = NoEntry
  BY <1>1, ReleasedEntry DEF IInv
<1>5. TypeOK'
  <2>1. staged' = [k \in Kinds |-> staged'[k]]
    BY <1>1 DEF Released
  <2>2. staged' \in [Kinds -> Entries]
    BY <1>4, <2>1
  <2> QED
    BY <1>1, <1>2, <1>3, <2>2 DEF IInv, TypeOK
<1>6. raw \in Raws /\ raw.version \in Nat /\ known'[p].version <= raw.version
  BY <1>1 DEF IInv, TypeOK, Raws, Versions
<1>7. ASSUME NEW k \in Kinds PROVE WorkInv(p, k)'
  BY <1>1, <1>3, <1>4, <1>6, WorkKept
<1>8. ASSUME NEW k \in Kinds PROVE EntryInv(k)'
  <2>1. at'[p] \in Renamed /\ EntryInv(k)
    BY <1>3 DEF Renamed, Ended, IInv
  <2>2. staged'[k].by = Nobody => staged'[k] = NoEntry
    BY <1>4, <2>1 DEF SameEntry, EntryInv
  <2> QED
    BY <1>1, <1>3, <2>1, <2>2, EntryKept
<1> QED
  BY <1>1, <1>3, <1>4, <1>5, <1>6, <1>7, <1>8, StepOfOne

\* Steps that leave every publisher where it is, or out of work.
LEMMA StepOfOthers ==
  ASSUME IInv, TypeOK',
         \A p \in Publishers : at'[p] = at[p] \/ at'[p] \in {"dead", "new"},
         UNCHANGED <<known, source, undone>>,
         raw' \in Raws, raw.version <= raw'.version,
         \A k \in Kinds, p \in Publishers :
            at'[p] \in Holding(k) => SameEntry(staged'[k], staged[k]),
         \A k \in Kinds : EntryInv(k)' /\ final'[k].by = final[k].by
  PROVE  IInv'
<1>1. ASSUME NEW p \in Publishers, NEW k \in Kinds PROVE WorkInv(p, k)'
  <2>1. CASE at'[p] \in {"dead", "new"}
    BY <2>1 DEF WorkInv, Kinds, Holding, BothHeld, Converted, Durable, Confirmed, ReinspectAt,
       RenameAt, ConfirmAt
  <2>2. CASE at'[p] = at[p]
    BY <2>2, WorkKept
  <2> QED
    BY <2>1, <2>2
<1>2. ASSUME NEW p \in Publishers PROVE known'[p].version <= raw'.version
  <2>1. raw.version \in Nat /\ raw'.version \in Nat /\ known[p].version \in Nat
        /\ known[p].version <= raw.version
    BY DEF IInv, TypeOK, Raws, Versions
  <2> QED
    BY <2>1
<1> QED
  BY <1>1, <1>2 DEF IInv

LEMMA StepRewriteRaw == ASSUME IInv, NEW size \in 1..2, RewriteRaw(size) PROVE IInv'
<1>1. raw' \in Raws /\ raw.version <= raw'.version
  BY PublicationAssumption DEF RewriteRaw, IInv, TypeOK, Raws, Versions
<1>2. UNCHANGED <<directory, staged, final, manifest, at, count, known, source, undone, mishaps>>
  BY DEF RewriteRaw
<1>3. TypeOK'
  BY <1>1, <1>2 DEF IInv, TypeOK
<1>4. ASSUME NEW k \in Kinds
      PROVE  /\ SameEntry(staged'[k], staged[k]) /\ final'[k].by = final[k].by
             /\ EntryInv(k)'
  <2>1. EntryInv(k)
    BY DEF IInv
  <2> QED
    BY <1>2, <2>1, EntryKept DEF SameEntry, EntryInv
<1>5. \A p \in Publishers : at'[p] = at[p]
  BY <1>2
<1> QED
  BY <1>1, <1>2, <1>3, <1>4, <1>5, StepOfOthers

\* A manifest, a link in the place of a directory, and a staging area emptied
\* while nobody is at work.
LEMMA StepSurroundings ==
  ASSUME IInv, WriteManifest \/ ClearStaging \/ \E d \in Directories : Redirect(d)
  PROVE  IInv'
<1>1. UNCHANGED <<final, raw, at, count, known, source, undone>>
  BY DEF WriteManifest, ClearStaging, Redirect
<1>2. mishaps' \in 0..MaxMishaps
  BY PublicationAssumption DEF WriteManifest, ClearStaging, Redirect, Mishap, IInv, TypeOK
<1>3. directory' \in [Directories -> {"missing", "there", "redirected"}]
  BY DEF WriteManifest, ClearStaging, Redirect, IInv, TypeOK
<1>4. manifest' \in BOOLEAN
  BY DEF WriteManifest, ClearStaging, Redirect, IInv, TypeOK
<1>5. NoEntry \in Entries
  BY DEF NoEntry, Entries
<1>6. \/ staged' = staged
      \/ ClearStaging /\ staged' = [k \in Kinds |-> NoEntry]
  BY DEF WriteManifest, ClearStaging, Redirect
<1>7. TypeOK'
  BY <1>1, <1>2, <1>3, <1>4, <1>5, <1>6 DEF IInv, TypeOK
<1>8. ASSUME NEW k \in Kinds PROVE EntryInv(k)' /\ final'[k].by = final[k].by
  <2>1. EntryInv(k)
    BY DEF IInv
  <2> QED
    BY <1>1, <1>6, <2>1, EntryKept DEF EntryInv
<1>9. ASSUME NEW k \in Kinds, NEW p \in Publishers, at'[p] \in Holding(k)
      PROVE  SameEntry(staged'[k], staged[k])
  <2>1. CASE staged' = staged
    BY <2>1 DEF SameEntry
  <2>2. CASE ClearStaging
    <3>1. at[p] \in Ended \union {"new"}
      BY <2>2 DEF ClearStaging
    <3>2. at[p] \notin Holding(k)
      BY <3>1 DEF Ended, Holding, BothHeld, Kinds
    <3> QED
      BY <1>1, <1>9, <3>2
  <2> QED
    BY <1>6, <2>1, <2>2
<1>10. raw' \in Raws /\ raw.version <= raw'.version
  BY <1>1 DEF IInv, TypeOK, Raws, Versions
<1> QED
  BY <1>1, <1>7, <1>8, <1>9, <1>10, StepOfOthers

\* What a power failure does to the entries of one kind: they are torn unless
\* synchronised, come back from their final name, or are gone.
LEMMA OnDiskEntry ==
  ASSUME NEW e \in Entries
  PROVE  /\ OnDisk(e) \in Entries /\ OnDisk(e).by = e.by /\ OnDisk(e).of = e.of
         /\ e.whole /\ e.synced => OnDisk(e).whole /\ OnDisk(e).synced
         /\ e = NoEntry => OnDisk(e) = NoEntry
<1>1. e = NoEntry => OnDisk(e) = NoEntry
  <2> SUFFICES ASSUME e = NoEntry PROVE OnDisk(e) = e
    OBVIOUS
  <2>1. e.open = FALSE /\ e.whole = FALSE /\ (e.whole /\ e.synced) = FALSE
    BY DEF NoEntry
  <2>2. OnDisk(e) = [e EXCEPT !.open = FALSE, !.whole = FALSE]
    BY <2>1 DEF OnDisk
  <2> QED
    BY <2>1, <2>2 DEF Entries
<1>2. OnDisk(e) \in Entries /\ OnDisk(e).by = e.by /\ OnDisk(e).of = e.of
  BY DEF OnDisk, Entries
<1>3. e.whole /\ e.synced => OnDisk(e).whole /\ OnDisk(e).synced
  BY DEF OnDisk, Entries
<1> QED
  BY <1>1, <1>2, <1>3

LEMMA PowerFailureEntries ==
  ASSUME IInv, PowerFailure, NEW k \in Kinds
  PROVE  /\ staged'[k] \in {NoEntry, OnDisk(staged[k]), OnDisk(final[k])}
         /\ \/ final'[k] = OnDisk(final[k]) /\ undone'[k] = undone[k]
            \/ final'[k] = NoEntry
               /\ undone'[k] = undone[k] \union {p \in Publishers : final[k].by = p}
<1>1. PICK back, gone \in SUBSET Kinds :
         /\ staged' = [j \in Kinds |->
               CASE j \in gone -> NoEntry
                 [] j \in back \ gone /\ staged[j] = NoEntry -> OnDisk(final[j])
                 [] OTHER -> OnDisk(staged[j])]
         /\ final' = [j \in Kinds |-> IF j \in back THEN NoEntry ELSE OnDisk(final[j])]
         /\ undone' = [j \in Kinds |->
               undone[j] \union {p \in Publishers : j \in back /\ final[j].by = p}]
  BY DEF PowerFailure
<1>2. staged'[k] \in {NoEntry, OnDisk(staged[k]), OnDisk(final[k])}
  <2>1. staged'[k] = CASE k \in gone -> NoEntry
                       [] k \in back \ gone /\ staged[k] = NoEntry -> OnDisk(final[k])
                       [] OTHER -> OnDisk(staged[k])
    BY <1>1
  <2>2. CASE k \in gone
    BY <2>1, <2>2
  <2>3. CASE k \notin gone /\ k \in back /\ staged[k] = NoEntry
    BY <2>1, <2>3
  <2>4. CASE k \notin gone /\ ~(k \in back /\ staged[k] = NoEntry)
    BY <2>1, <2>4
  <2> QED
    BY <2>2, <2>3, <2>4
<1>3. undone[k] \in SUBSET Publishers
  BY DEF IInv, TypeOK
<1>4. CASE k \in back
  BY <1>1, <1>2, <1>4
<1>5. CASE k \notin back
  <2>1. {p \in Publishers : k \in back /\ final[k].by = p} = {}
    BY <1>5
  <2> QED
    BY <1>1, <1>2, <1>3, <1>5, <2>1
<1> QED
  BY <1>4, <1>5

\* Everybody at work dies with it; who has published may lose an entry.
LEMMA StepPowerFailure == ASSUME IInv, PowerFailure PROVE IInv'
<1>1. UNCHANGED <<directory, manifest, raw, count, known, source>>
  BY DEF PowerFailure
<1>2. mishaps' \in 0..MaxMishaps
  BY PublicationAssumption DEF PowerFailure, Mishap, IInv, TypeOK
<1>3. \A p \in Publishers :
         at'[p] = IF at[p] \in Working \ {"new"} THEN "dead" ELSE at[p]
  BY DEF PowerFailure
<1>4. at' \in [Publishers -> Working \union Ended]
  BY DEF PowerFailure, IInv, TypeOK, Ended
<1>5. NoEntry \in Entries /\ NoEntry.by = Nobody
  BY DEF NoEntry, Entries
<1>6. ASSUME NEW k \in Kinds
      PROVE  /\ staged[k] \in Entries /\ final[k] \in Entries /\ undone[k] \in SUBSET Publishers
             /\ staged'[k] \in Entries /\ final'[k] \in Entries
             /\ undone'[k] \in SUBSET Publishers
  <2>1. staged[k] \in Entries /\ final[k] \in Entries /\ undone[k] \in SUBSET Publishers
    BY DEF IInv, TypeOK
  <2>2. OnDisk(staged[k]) \in Entries /\ OnDisk(final[k]) \in Entries
    BY <2>1, OnDiskEntry
  <2> QED
    BY <1>5, <2>1, <2>2, PowerFailureEntries
<1>7. TypeOK'
  <2>1. /\ staged' = [k \in Kinds |-> staged'[k]] /\ final' = [k \in Kinds |-> final'[k]]
        /\ undone' = [k \in Kinds |-> undone'[k]]
    BY DEF PowerFailure
  <2>2. /\ staged' \in [Kinds -> Entries] /\ final' \in [Kinds -> Entries]
        /\ undone' \in [Kinds -> SUBSET Publishers]
    BY <1>6, <2>1
  <2> QED
    BY <1>1, <1>2, <1>4, <2>2 DEF IInv, TypeOK
<1>8. ASSUME NEW p \in Publishers
      PROVE  /\ at'[p] \in Ended \union {"new"}
             /\ at[p] \in Renamed => at'[p] \in Renamed
             /\ at'[p] = "published" => at[p] = "published"
  <2>1. at[p] \in Working \union Ended
    BY DEF IInv, TypeOK
  <2>2. at'[p] \in Ended \union {"new"} /\ (at'[p] = at[p] \/ at'[p] = "dead")
    BY <1>3, <2>1 DEF Ended
  <2> QED
    BY <2>2 DEF Ended, Renamed
<1>9. ASSUME NEW p \in Publishers, NEW k \in Kinds PROVE WorkInv(p, k)'
  <2>1. /\ at'[p] \notin Holding(k) /\ at'[p] \notin Converted(k) /\ at'[p] \notin Durable(k)
        /\ at'[p] \notin {"read", "recheck", ReinspectAt(k), RenameAt(k), ConfirmAt(k)}
        /\ at'[p] \in Confirmed(k) => at'[p] = "published"
    BY <1>8 DEF Kinds, Ended, Holding, BothHeld, Converted, Durable, Confirmed, ReinspectAt,
       RenameAt, ConfirmAt
  <2>2. ASSUME at'[p] = "published" PROVE final'[k].by = p \/ p \in undone'[k]
    <3>1. final[k].by = p \/ p \in undone[k]
      BY <1>8, <2>2 DEF IInv, WorkInv, Confirmed
    <3>2. OnDisk(final[k]).by = final[k].by
      BY <1>6, OnDiskEntry
    <3> QED
      BY <3>1, <3>2, PowerFailureEntries
  <2> QED
    BY <2>1, <2>2 DEF WorkInv
<1>10. ASSUME NEW k \in Kinds PROVE EntryInv(k)'
  <2>1. EntryInv(k)
    BY DEF IInv
  <2>2. staged'[k].by = Nobody => staged'[k] = NoEntry
    BY <1>6, <2>1, PowerFailureEntries, OnDiskEntry DEF EntryInv
  <2>3. CASE final'[k] = NoEntry
    BY <2>2, <2>3 DEF EntryInv
  <2>4. CASE final'[k] # NoEntry
    <3>1. final'[k] = OnDisk(final[k]) /\ final[k] # NoEntry
      BY <1>6, <2>4, PowerFailureEntries, OnDiskEntry
    <3>2. /\ final[k].by \in Publishers /\ final'[k].by = final[k].by /\ final'[k].of = final[k].of
          /\ final'[k].whole /\ final'[k].synced
      BY <1>6, <2>1, <3>1, OnDiskEntry DEF EntryInv, Entries
    <3>3. at'[final[k].by] \in Renamed
      BY <1>8, <2>1, <3>1, <3>2 DEF EntryInv
    <3> QED
      BY <1>1, <2>1, <2>2, <3>1, <3>2, <3>3, PublicationAssumption DEF EntryInv
  <2> QED
    BY <2>3, <2>4
<1>11. \A p \in Publishers : known'[p].version <= raw'.version
  BY <1>1 DEF IInv
<1> QED
  BY <1>7, <1>9, <1>10, <1>11 DEF IInv

LEMMA StepIInv == IInv /\ [Next]_vars => IInv'
<1> SUFFICES ASSUME IInv, [Next]_vars PROVE IInv'
  OBVIOUS
<1>1. ASSUME NEW p \in Publishers, Publisher(p) PROVE IInv'
  BY <1>1, StepPrepare, StepMaterialize, StepPromote, StepGivesUp DEF Publisher
<1>2. CASE Others
  BY <1>2, StepRewriteRaw, StepSurroundings, StepPowerFailure, StepGivesUp DEF Others
<1>3. CASE UNCHANGED vars
  BY <1>3 DEF vars, disk, IInv, TypeOK, WorkInv, EntryInv
<1> QED
  BY <1>1, <1>2, <1>3 DEF Next

-----------------------------------------------------------------------------
(* What publication promises *)

THEOREM PublicationInvariance == Spec => []IInv
  BY InitIInv, StepIInv, PTL DEF Spec

\* Every reachable state of the file system and of its publishers has its type.
THEOREM PublicationTyped == Spec => []TypeOK
<1>1. IInv => TypeOK
  BY DEF IInv
<1> QED
  BY <1>1, PublicationInvariance, PTL

\* materialize_durable_staged_artifact() synchronises both streams before any
\* rename: nothing under a final name is ever torn.
THEOREM PublishedStaysDurable == Spec => []PublishedIsDurable
<1>1. IInv => PublishedIsDurable
  BY DEF IInv, EntryInv, PublishedIsDurable
<1> QED
  BY <1>1, PublicationInvariance, PTL

\* _RawFingerprint: what is published was converted from one version of the raw
\* file, however often it is written over.
THEOREM PublishedMatchesItsDigest == Spec => []PublishedIsOfOneVersion
<1>1. IInv => PublishedIsOfOneVersion
  BY DEF IInv, EntryInv, PublishedIsOfOneVersion
<1> QED
  BY <1>1, PublicationInvariance, PTL

\* promote_staged_artifact_pair(): a publisher that returns has published both
\* entries, whatever the others do; only a power failure takes one from it.
THEOREM SuccessMeansBoth == Spec => []SuccessIsWhole
<1>1. IInv => SuccessIsWhole
  BY DEF IInv, WorkInv, Confirmed, SuccessIsWhole
<1> QED
  BY <1>1, PublicationInvariance, PTL

\* prepare_exclusive_staging_pair(): exclusive creation is all the exclusion the
\* publishers have, and it suffices for any number of them.
THEOREM StagedPairIsExclusive == Spec => []PairIsExclusive
<1>1. ASSUME IInv, NEW p \in Publishers,
             at[p] \in {"verify pair", "inspect raw", "open raw", "bind raw", "read", "recheck",
                        "sync research", "sync failure", "close", "inspect staged",
                        "inspect failure", "reinspect failure", "rename failure"},
             NEW k \in Kinds
      PROVE  Mine(p, k)
  BY <1>1, BothEntries DEF BothHeld, Mine
<1>2. IInv => PairIsExclusive
  BY <1>1 DEF PairIsExclusive
<1> QED
  BY <1>2, PublicationInvariance, PTL

-----------------------------------------------------------------------------
(* The output directory implements PairPublication *)

\* The stages in which the output directory is known to be empty: the pair is
\* held and was found complete, and nothing has been renamed yet.
Clear ==
    {"inspect raw", "open raw", "bind raw", "read", "recheck", "sync research", "sync failure",
     "close", "inspect staged", "inspect failure", "reinspect failure", "rename failure"}
ClearInv == \A p \in Publishers : at[p] \in Clear => \A k \in Kinds : final[k] = NoEntry

\* Only a rename adds an entry to the output directory; only a power failure
\* takes one away.
LEMMA OutputChanges ==
  ASSUME Next, ~PowerFailure, \A p \in Publishers, k \in Kinds : ~Rename(p, k)
  PROVE  UNCHANGED <<final, undone>>
<1>1. ASSUME NEW p \in Publishers, Prepare(p) PROVE UNCHANGED <<final, undone>>
  BY <1>1 DEF Prepare, Preflight, Begin, PassDirectory, MakeDirectory, TreeComplete, StillClear,
     CheckResearch, Create, VerifyResearch, CheckFailure, VerifyFailure, VerifyPair, Inspect, disk
<1>2. ASSUME NEW p \in Publishers, Materialize(p) PROVE UNCHANGED <<final, undone>>
  BY <1>2 DEF Materialize, InspectRaw, OpenRaw, BindRaw, ReadChunk, Recheck, Sync, CloseAll,
     InspectStaged, Inspect, disk
<1>3. ASSUME NEW p \in Publishers, Promote(p) PROVE UNCHANGED <<final, undone>>
  BY <1>3 DEF Promote, PromoteEntry, InspectEntry, ReinspectEntry, ConfirmEntry, Inspect, disk
<1>4. CASE Others
  BY <1>4 DEF Others, RewriteRaw, WriteManifest, ClearStaging, Redirect, Crash
<1>5. ASSUME NEW p \in Publishers, Publisher(p) PROVE UNCHANGED <<final, undone>>
  BY <1>1, <1>2, <1>3, <1>5 DEF Publisher, Refuse
<1> QED
  BY <1>4, <1>5 DEF Next

\* A publisher comes into these stages by finding the whole pair in order.
LEMMA ClearEntered ==
  ASSUME IInv, Next, NEW q \in Publishers, at'[q] \in Clear
  PROVE  at[q] \in Clear \/ VerifyPair(q)
<1>1. ASSUME NEW p \in Publishers, Prepare(p) PROVE at[q] \in Clear \/ VerifyPair(q)
  <2>1. CASE VerifyPair(p)
    BY <2>1 DEF VerifyPair, Inspect, Go, IInv, TypeOK
  <2>2. CASE ~VerifyPair(p)
    <3>1. \/ at' = at
          \/ \E to \in (Working \union Ended) \ Clear : at' = [at EXCEPT ![p] = to]
      BY <1>1, <2>2 DEF Prepare, Preflight, Begin, PassDirectory, MakeDirectory, TreeComplete,
         StillClear, CheckResearch, Create, VerifyResearch, CheckFailure, VerifyFailure, Inspect,
         Go, VerifyAt, Clear, Working
    <3> QED
      BY <3>1 DEF IInv, TypeOK
  <2> QED
    BY <2>1, <2>2
<1>2. ASSUME NEW p \in Publishers, Materialize(p) \/ Promote(p)
      PROVE  at[q] \in Clear
  <2>1. CASE Materialize(p)
    <3>1. at[p] \in Clear /\ \E to \in Working : at' = [at EXCEPT ![p] = to]
      BY <2>1 DEF Materialize, InspectRaw, OpenRaw, BindRaw, ReadChunk, Recheck, Sync, CloseAll,
         InspectStaged, Inspect, Go, Clear, SyncAt, AfterSync, Working
    <3> QED
      BY <3>1 DEF IInv, TypeOK
  <2>2. CASE Promote(p)
    <3>1. PICK k \in Kinds : PromoteEntry(p, k)
      BY <2>2 DEF Promote
    <3>2. \E to \in Working \union Ended :
             at' = [at EXCEPT ![p] = to] /\ (to \in Clear => at[p] \in Clear)
      BY <3>1 DEF PromoteEntry, InspectEntry, ReinspectEntry, Rename, ConfirmEntry, Inspect, Go,
         Kinds, InspectAt, ReinspectAt, RenameAt, ConfirmAt, AfterConfirm, Clear, Working, Ended
    <3> QED
      BY <3>2 DEF IInv, TypeOK
  <2> QED
    BY <1>2, <2>1, <2>2
<1>3. ASSUME NEW p \in Publishers, Refuse(p) \/ Crash(p) PROVE at[q] \in Clear
  BY <1>3 DEF Refuse, Crash, IInv, TypeOK, Clear
<1>4. ASSUME PowerFailure PROVE at[q] \in Clear
  <2>1. at'[q] = at[q] \/ at'[q] = "dead"
    BY <1>4 DEF PowerFailure
  <2> QED
    BY <2>1 DEF Clear
<1>5. CASE Others
  BY <1>3, <1>4, <1>5 DEF Others, RewriteRaw, WriteManifest, ClearStaging, Redirect
<1>6. ASSUME NEW p \in Publishers, Publisher(p) PROVE at[q] \in Clear \/ VerifyPair(q)
  BY <1>1, <1>2, <1>3, <1>6 DEF Publisher
<1> QED
  BY <1>5, <1>6 DEF Next

\* Who holds the pair holds the only entries that could be renamed.
LEMMA StaysClear == IInv /\ ClearInv /\ [Next]_vars => ClearInv'
<1> SUFFICES ASSUME IInv, ClearInv, [Next]_vars, NEW q \in Publishers, at'[q] \in Clear,
                    NEW k \in Kinds
             PROVE  final'[k] = NoEntry
  BY DEF ClearInv
<1>1. CASE UNCHANGED vars
  BY <1>1 DEF vars, disk, ClearInv
<1>2. CASE Next
  <2>1. at[q] \in Clear \/ VerifyPair(q)
    BY <1>2, ClearEntered
  <2>2. at[q] \in BothHeld /\ final[k] = NoEntry
    <3>1. CASE at[q] \in Clear
      BY <3>1 DEF ClearInv, Clear, BothHeld
    <3>2. CASE VerifyPair(q)
      BY <3>2 DEF VerifyPair, Inspect, Go, Absent, BothHeld
    <3> QED
      BY <2>1, <3>1, <3>2
  <2>3. CASE PowerFailure
    <3>1. at[q] \in Working \ {"new"}
      BY <2>2 DEF BothHeld, Working
    <3> QED
      BY <2>3, <3>1 DEF PowerFailure, Clear
  <2>4. ASSUME NEW p \in Publishers, NEW j \in Kinds, Rename(p, j) PROVE FALSE
    <3>1. at[p] = RenameAt(j) /\ at'[p] = ConfirmAt(j)
      BY <2>4 DEF Rename, Go, IInv, TypeOK
    <3>2. staged[j].by = p
      BY <3>1, PromotionStages DEF IInv, WorkInv
    <3>3. staged[j].by = q
      BY <2>2, BothEntries
    <3> QED
      BY <3>1, <3>2, <3>3 DEF ConfirmAt, Clear
  <2> QED
    BY <1>2, <2>2, <2>3, <2>4, OutputChanges
<1> QED
  BY <1>1, <1>2

\* From the check of its staged pair (_revalidate_owned_staging_pair) to the rename
\* of its sidecar, a publisher has an output directory without either entry.
THEOREM OutputIsClear == Spec => []ClearInv
<1>1. Init => ClearInv
  BY DEF Init, ClearInv
<1> QED
  BY <1>1, StaysClear, PublicationInvariance, PTL DEF Spec

\* A power failure is one of the abstract specification.
LEMMA PowerFailureTakes ==
  ASSUME IInv, PowerFailure PROVE Promise!PowerFailure
<1>1. ASSUME NEW k \in Kinds
      PROVE  \/ final'[k].by = final[k].by /\ undone'[k] = undone[k]
             \/ /\ final[k].by # Nobody /\ final'[k].by = Nobody
                /\ undone'[k] = undone[k] \union {final[k].by}
  <2>1. final[k] \in Entries /\ OnDisk(final[k]).by = final[k].by /\ NoEntry.by = Nobody
    BY OnDiskEntry DEF IInv, TypeOK, NoEntry
  <2>2. undone[k] \subseteq Publishers
    BY DEF IInv, TypeOK
  <2>3. CASE final[k].by = Nobody
    <3>1. {p \in Publishers : final[k].by = p} = {}
      BY <2>3, PublicationAssumption
    <3> QED
      BY <2>1, <2>2, <2>3, <3>1, PowerFailureEntries
  <2>4. CASE final[k].by # Nobody
    <3>1. {p \in Publishers : final[k].by = p} = {final[k].by}
      BY <2>1, <2>4 DEF Entries
    <3> QED
      BY <2>1, <2>4, <3>1, PowerFailureEntries
  <2> QED
    BY <2>3, <2>4
<1>2. "failure" \in Kinds /\ "research" \in Kinds
  BY DEF Kinds
<1>3. \/ Promise!LoseSidecar
      \/ final'["failure"].by = final["failure"].by /\ undone'["failure"] = undone["failure"]
  <2>1. \/ final'["failure"].by = final["failure"].by /\ undone'["failure"] = undone["failure"]
        \/ /\ final["failure"].by # Nobody /\ final'["failure"].by = Nobody
           /\ undone'["failure"] = undone["failure"] \union {final["failure"].by}
    BY <1>1, <1>2
  <2> QED
    BY <2>1 DEF Promise!LoseSidecar
<1>4. \/ Promise!LoseResearch
      \/ final'["research"].by = final["research"].by /\ undone'["research"] = undone["research"]
  <2>1. \/ final'["research"].by = final["research"].by /\ undone'["research"] = undone["research"]
        \/ /\ final["research"].by # Nobody /\ final'["research"].by = Nobody
           /\ undone'["research"] = undone["research"] \union {final["research"].by}
    BY <1>1, <1>2
  <2> QED
    BY <2>1 DEF Promise!LoseResearch
<1> QED
  BY <1>3, <1>4 DEF Promise!PowerFailure

\* The steps of Publication are those that PairPublication allows.
LEMMA StepsAreOrdered ==
  IInv /\ ClearInv /\ [Next]_vars => [Promise!Next]_(Promise!vars)
<1> SUFFICES ASSUME IInv, ClearInv, [Next]_vars
             PROVE  Promise!Next \/ UNCHANGED Promise!vars
  OBVIOUS
<1>1. "failure" \in Kinds /\ "research" \in Kinds
  BY DEF Kinds
<1>2. CASE UNCHANGED vars
  BY <1>2 DEF vars, disk, Promise!vars
<1>3. CASE Next /\ ~PowerFailure /\ \A p \in Publishers, k \in Kinds : ~Rename(p, k)
  BY <1>3, OutputChanges DEF Promise!vars
<1>4. CASE PowerFailure
  BY <1>4, PowerFailureTakes DEF Promise!Next
<1>5. ASSUME NEW p \in Publishers, NEW k \in Kinds, Rename(p, k)
      PROVE  Promise!Next \/ UNCHANGED Promise!vars
  <2>1. /\ staged[k].by = p /\ final[k].by = Nobody
        /\ final' = final \/ final' = [final EXCEPT ![k] = staged[k]]
        /\ at[p] = RenameAt(k) /\ WorkInv(p, "failure") /\ undone' = undone
    <3>1. at[p] = RenameAt(k) /\ final[k] = NoEntry /\ WorkInv(p, k) /\ WorkInv(p, "failure")
      BY <1>1, <1>5 DEF Rename, Go, IInv
    <3>2. staged[k].by = p
      BY <3>1, PromotionStages DEF WorkInv
    <3> QED
      BY <1>5, <3>1, <3>2 DEF Rename, NoEntry
  <2>2. CASE final' = final
    BY <2>1, <2>2 DEF Promise!vars
  <2>3. CASE k = "failure" /\ final' = [final EXCEPT ![k] = staged[k]]
    <3>1. final'["failure"].by = p /\ final'["research"].by = final["research"].by
      BY <1>1, <2>1, <2>3 DEF IInv, TypeOK
    <3>2. final["research"].by = Nobody
      BY <1>1, <2>1, <2>3 DEF ClearInv, Clear, RenameAt, NoEntry
    <3> QED
      BY <2>1, <2>3, <3>1, <3>2 DEF Promise!Next, Promise!PublishSidecar
  <2>4. CASE k = "research" /\ final' = [final EXCEPT ![k] = staged[k]]
    <3>1. final'["research"].by = p /\ final'["failure"].by = final["failure"].by
      BY <1>1, <2>1, <2>4 DEF IInv, TypeOK
    <3>2. final["failure"].by = p
      BY <2>1, <2>4 DEF RenameAt, WorkInv, Confirmed
    <3> QED
      BY <2>1, <2>4, <3>1, <3>2 DEF Promise!Next, Promise!PublishResearch
  <2> QED
    BY <2>1, <2>2, <2>3, <2>4 DEF Kinds
<1> QED
  BY <1>2, <1>3, <1>4, <1>5

\* Readers of the output directory see the failure sidecar first and then the
\* research file of the same publisher.  Neither is replaced, neither goes but
\* in a power failure, and no sidecar comes to a research file left without one.
THEOREM PublicationIsOrdered == Spec => ImplementsPairPublication
<1>1. Init => Promise!Init
  BY DEF Init, Promise!Init, Kinds, NoEntry
<1> QED
  BY <1>1, StepsAreOrdered, PublicationInvariance, OutputIsClear, PTL
     DEF Spec, ImplementsPairPublication, Promise!Ordered

=============================================================================
