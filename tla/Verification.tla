---------------------------- MODULE Verification -----------------------------
(***************************************************************************)
(* The verification of the files of a dataset directory against a checksum *)
(* file, while the directory changes: files appear, are removed, and are   *)
(* replaced by a rename, as the downloader replaces them.  A file is read  *)
(* chunk by chunk from the handle that open() gave; a step is one call of  *)
(* the file system.  One file can also be verified alone.  A chunk is TRUE *)
(* when it is as the checksum wants it.                                    *)
(***************************************************************************)
EXTENDS Naturals, Sequences

CONSTANTS
    Listed,         \* how many files the checksum file names; numbered as sorted
    Chunks,         \* of a file
    MaxChanges      \* bound: changes of the directory during a verification

ASSUME VerificationAssumption ==
    Listed \in Nat \ {0} /\ Chunks \in Nat \ {0} /\ MaxChanges \in Nat

Names == 1..Listed
Contents == [1..Chunks -> BOOLEAN]
AsExpected == [k \in 1..Chunks |-> TRUE]

\* A link that leads out of the directory has a content too.
Entries ==
    [kind : {"absent", "directory"}, content : {<<>>}]
    \union [kind : {"file"}, content : Contents] \union [kind : {"outside"}, content : {AsExpected}]

Statuses == {"verified", "mismatch", "missing", "invalid", "read_failure"}

VARIABLES
    directory,      \* the entry of each expected name
    alone,          \* whether only the first file is verified
    reading,        \* the step _verify_one() is at, "idle", or "done"
    handle,         \* what open() opened
    digest,         \* the chunks the digest was updated with
    statuses,       \* of the reports so far, in the order of the names
    exitCode,
    held,           \* the entries of a name since the verification began: history
    changes

verificationVars == <<directory, alone, reading, handle, digest, statuses, exitCode, held, changes>>

VerificationInit ==
    /\ directory \in [Names -> Entries]
    /\ alone = FALSE /\ reading = "idle" /\ handle = <<>> /\ digest = <<>> /\ statuses = <<>>
    /\ exitCode = 0 /\ held = [n \in Names |-> {directory[n]}] /\ changes = 0

Replace(n, entry) ==
    /\ reading \notin {"idle", "done"} /\ changes < MaxChanges /\ entry # directory[n]
    /\ directory' = [directory EXCEPT ![n] = entry]
    /\ held' = [held EXCEPT ![n] = @ \union {entry}]
    /\ changes' = changes + 1
    /\ UNCHANGED <<alone, reading, handle, digest, statuses, exitCode>>

-----------------------------------------------------------------------------
\* A malformed checksum file, or no directory: nothing is read.
Reject ==
    /\ reading = "idle" /\ reading' = "done" /\ exitCode' = 2
    /\ UNCHANGED <<directory, alone, handle, digest, statuses, held, changes>>

Begin ==
    /\ reading = "idle" /\ reading' = "exists" /\ alone' \in BOOLEAN
    /\ UNCHANGED <<directory, handle, digest, statuses, exitCode, held, changes>>

This == Len(statuses) + 1
Last == IF alone THEN 1 ELSE Listed

Overall(found) ==
    IF "invalid" \in found THEN "invalid"
    ELSE IF "missing" \in found THEN "missing"
    ELSE IF "read_failure" \in found THEN "read_failure"
    ELSE IF "mismatch" \in found THEN "mismatch" ELSE "verified"

\* The report on this file, and after the last one that on the directory; who
\* asks for one file alone is told its status.
Report(status) ==
    /\ statuses' = Append(statuses, status)
    /\ handle' = <<>> /\ digest' = <<>>
    /\ IF This = Last
       THEN /\ reading' = "done"
            /\ exitCode' = IF Overall({statuses'[n] : n \in 1..Last}) = "verified" THEN 0 ELSE 1
       ELSE reading' = "exists" /\ UNCHANGED exitCode

GoOn(step) == reading' = step /\ UNCHANGED <<handle, digest, statuses, exitCode>>

LookFor ==
    /\ reading = "exists"
    /\ IF directory[This].kind = "absent" THEN Report("missing")
       ELSE GoOn(IF alone THEN "kind" ELSE "resolve")
    /\ UNCHANGED <<directory, alone, held, changes>>

\* Mutant of Resolve: the path is not compared with the directory.
ResolveAnywhere ==
    /\ reading = "resolve"
    /\ Report("invalid") \/ GoOn("kind")
    /\ UNCHANGED <<directory, alone, held, changes>>

\* Resolving may fail, and a path that is gone resolves to itself.
Resolve ==
    /\ reading = "resolve"
    /\ \/ Report("invalid")
       \/ directory[This].kind # "outside" /\ GoOn("kind")
    /\ UNCHANGED <<directory, alone, held, changes>>

LookAtKind ==
    /\ reading = "kind"
    /\ IF directory[This].kind = "directory" THEN Report("invalid") ELSE GoOn("open")
    /\ UNCHANGED <<directory, alone, held, changes>>

\* The path is looked up again: a link made meanwhile is followed.
Open ==
    /\ reading = "open"
    /\ \/ Report("read_failure")
       \/ /\ directory[This].kind \in {"file", "outside"}
          /\ handle' = directory[This].content /\ reading' = "read"
          /\ UNCHANGED <<digest, statuses, exitCode>>
    /\ UNCHANGED <<directory, alone, held, changes>>

\* Mutant of NextChunk: the file is opened anew for every chunk.
NextChunkAnew ==
    IF directory[This].content = <<>> THEN FALSE ELSE directory[This].content[Len(digest) + 1]

NextChunk == handle[Len(digest) + 1]

Read ==
    /\ reading = "read"
    /\ \/ Report("read_failure")
       \/ /\ Len(digest) < Chunks
          /\ digest' = Append(digest, NextChunk)
          /\ UNCHANGED <<reading, handle, statuses, exitCode>>
       \/ /\ Len(digest) = Chunks
          /\ Report(IF digest = AsExpected THEN "verified" ELSE "mismatch")
    /\ UNCHANGED <<directory, alone, held, changes>>

\* verify_file_checksum() follows a link wherever it leads.
AloneStep == alone /\ (LookFor \/ LookAtKind \/ Open \/ Read)
\* _verify_one()
DirectoryStep == ~alone /\ (LookFor \/ Resolve \/ LookAtKind \/ Open \/ Read)

VerificationNext ==
    \/ Reject \/ Begin \/ AloneStep \/ DirectoryStep
    \/ \E n \in Names, entry \in Entries : Replace(n, entry)

VerificationSpec == VerificationInit /\ [][VerificationNext]_verificationVars

-----------------------------------------------------------------------------
\* A directory's verification hashes nothing that led out of the directory all
\* along.  A link made after the path was resolved it does follow.
WasInside(n) == alone \/ \E entry \in held[n] : entry.kind # "outside"

\* "Never as a false PASS": however the files change under it, a verification
\* says of a file only what was true of it at some moment since it began, and
\* it succeeds only if that was, of every file, that its content is as expected;
\* in a directory, only of what was not a link out of it at some moment.
VerdictsWereTrue ==
    /\ \A n \in DOMAIN statuses :
         /\ statuses[n] = "verified" => \E entry \in held[n] : entry.content = AsExpected
         /\ statuses[n] = "mismatch" =>
              \E entry \in held[n] : entry.content \in Contents \ {AsExpected}
         /\ statuses[n] = "missing" => \E entry \in held[n] : entry.kind = "absent"
         /\ statuses[n] \in {"verified", "mismatch"} => WasInside(n)
    /\ reading = "done" /\ exitCode = 0 =>
         \A n \in 1..Last :
           WasInside(n) /\ \E entry \in held[n] : entry.content = AsExpected
=============================================================================
