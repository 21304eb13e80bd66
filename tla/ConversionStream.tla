-------------------------- MODULE ConversionStream --------------------------
(***************************************************************************)
(* convert_raw_archive_stream(): one pass over a raw file in bounded       *)
(* memory.  Every line of it becomes a line of the research file or a      *)
(* failure record, and the report counts them.                             *)
(*                                                                         *)
(* Each line that is written takes OutputUnits units, of which a stream    *)
(* may accept only some at a time.                                         *)
(***************************************************************************)
EXTENDS KlineRow, SequencesExt

CONSTANTS
    MaxLine,        \* max_line_bytes, in units
    OutputUnits

ASSUME ConversionAssumption == MaxLine \in Nat \ {0} /\ OutputUnits \in Nat \ {0}

VARIABLES
    raw,        \* the lines of the raw file
    context,    \* slice, interval and range of the file
    step,       \* what the conversion does next
    offset,     \* units read of the current line
    report,     \* the counters, the coverage and what they are about
    output,     \* lines of the research and of the failure file, and units
    pending     \* what is being written, and how much of it at a time

streamVars == <<raw, context, step, offset, report, output, pending>>

ReadSize == MaxLine + 1

NoReport == [seen |-> 0, written |-> 0, quarantined |-> 0, first |-> 0, end |-> 0,
             previous |-> 0]
NoOutput == [research |-> <<>>, failures |-> <<>>, units |-> 0]
NoPending == [to |-> "none", left |-> 0, chunk |-> 0]

NoContext == [slice |-> 0, interval |-> "none", range |-> [start |-> 0, end |-> 1]]

StreamInit ==
    /\ raw = <<>> /\ context = NoContext /\ step = "none" /\ offset = 0
    /\ report = NoReport /\ output = NoOutput /\ pending = NoPending

Smaller(a, b) == IF a < b THEN a ELSE b

\* The stream is opened on some lines, for one context.
Open(lines, of) ==
    /\ raw' = lines /\ context' = of /\ step' = "read" /\ offset' = 0
    /\ report' = NoReport /\ output' = NoOutput /\ pending' = NoPending

-----------------------------------------------------------------------------
(* Reading *)

Current == raw[report.seen]

InRange(line) ==
    /\ context.range.start <= line.open /\ line.open < context.range.end
    /\ line.close <= context.range.end
InOrder(line) == report.written > 0 => line.open >= report.previous

\* Mutant of Verdict: the order is not looked at.
VerdictUnordered(line) ==
    LET failure == Failure(line, context.slice, context.interval)
    IN  CASE failure # "none" -> failure
          [] failure = "none" /\ ~InRange(line) -> "out_of_range"
          [] OTHER -> "candle"

\* convert_raw_archive_line(): the first thing that is wrong with a line.
Verdict(line) ==
    LET failure == Failure(line, context.slice, context.interval)
    IN  CASE failure # "none" -> failure
          [] failure = "none" /\ ~InRange(line) -> "out_of_range"
          [] failure = "none" /\ InRange(line) /\ ~InOrder(line) -> "ordering_violation"
          [] OTHER -> "candle"

\* _write_all() begins with the whole payload.
Write(verdict) ==
    /\ step' = "write"
    /\ pending' = [to |-> verdict, left |-> OutputUnits, chunk |-> OutputUnits]

\* A chunk of max_line_bytes + 1 units at most, which ends with the line.
ReadLine ==
    /\ step = "read" /\ report.seen < Len(raw)
    /\ report' = [report EXCEPT !.seen = @ + 1]
    /\ LET line == raw[report.seen + 1]
       IN  IF line.size > MaxLine
           THEN /\ offset' = ReadSize
                /\ IF line.size = ReadSize /\ line.ended
                   THEN Write("line_too_large")
                   ELSE step' = "drain" /\ UNCHANGED pending
           ELSE /\ offset' = 0
                /\ Write(Verdict(line))
    /\ UNCHANGED <<raw, context, output>>

\* Mutant of Drain: it goes on until there is a line ending.
DrainToNewline ==
    /\ step = "drain"
    /\ LET chunk == Smaller(ReadSize, Current.size - offset)
       IN  /\ offset' = offset + chunk
           /\ IF offset + chunk = Current.size /\ Current.ended
              THEN Write("line_too_large")
              ELSE UNCHANGED <<step, pending>>
    /\ UNCHANGED <<raw, context, report, output>>

\* _oversized_failure(): on to the end of the line or of the file.
Drain ==
    /\ step = "drain"
    /\ LET chunk == Smaller(ReadSize, Current.size - offset)
       IN  /\ offset' = offset + chunk
           /\ IF chunk = 0 \/ (offset + chunk = Current.size /\ Current.ended)
              THEN Write("line_too_large")
              ELSE UNCHANGED <<step, pending>>
    /\ UNCHANGED <<raw, context, report, output>>

-----------------------------------------------------------------------------
(* Writing *)

WrittenLine(to) ==
    IF to = "candle"
    THEN /\ output' = [output EXCEPT !.research = Append(@, Current.open),
                                     !.units = @ + pending.left]
         /\ report' = [report EXCEPT
              !.written = @ + 1,
              !.first = IF report.written = 0 THEN Current.open ELSE Smaller(@, Current.open),
              !.end = IF report.written = 0 \/ Current.close > @ THEN Current.close ELSE @,
              !.previous = Current.open]
    ELSE /\ output' = [output EXCEPT !.failures = Append(@, <<report.seen, to>>),
                                     !.units = @ + pending.left]
         /\ report' = [report EXCEPT !.quarantined = @ + 1]

\* The last units of the payload: the counters and the coverage follow.
WriteRest ==
    /\ step = "write" /\ pending.left <= pending.chunk
    /\ WrittenLine(pending.to)
    /\ step' = "read" /\ offset' = 0 /\ pending' = NoPending
    /\ UNCHANGED <<raw, context>>

\* A short write: the rest goes on in pieces of that size.
WriteSome(n) ==
    /\ step = "write" /\ n < Smaller(pending.left, pending.chunk)
    /\ output' = [output EXCEPT !.units = @ + n]
    /\ pending' = [pending EXCEPT !.left = @ - n, !.chunk = n]
    /\ UNCHANGED <<raw, context, step, offset, report>>

\* A full piece that is not the last one.
WritePiece ==
    /\ step = "write" /\ pending.chunk < pending.left
    /\ output' = [output EXCEPT !.units = @ + pending.chunk]
    /\ pending' = [pending EXCEPT !.left = @ - pending.chunk]
    /\ UNCHANGED <<raw, context, step, offset, report>>

\* The end of the file: the report is made.
EndOfFile ==
    /\ step = "read" /\ report.seen = Len(raw)
    /\ step' = "reported"
    /\ UNCHANGED <<raw, context, offset, report, output, pending>>

\* read_raw, write_research or write_failure: ConversionStreamError.
StreamFails ==
    /\ step \in {"read", "drain", "write"}
    /\ step' = "failed"
    /\ UNCHANGED <<raw, context, offset, report, output, pending>>

StreamStep ==
    \/ ReadLine \/ Drain \/ WriteRest \/ WritePiece \/ EndOfFile
    \/ \E n \in 1..(OutputUnits - 1) : WriteSome(n)

-----------------------------------------------------------------------------
(* Properties *)

\* What the conversion is to do, without its state: a line becomes a candle
\* if it fits, is the record of a sound row of this file and in range, and no
\* such line before it opens later.
Fits(line) ==
    /\ line.size <= MaxLine
    /\ Convertible(line.row, context.interval)
    /\ line = [RecordLine(context.slice, line.row) EXCEPT !.size = line.size, !.ended = line.ended]
    /\ InRange(line)
Candles == {i \in DOMAIN raw :
              Fits(raw[i]) /\ \A j \in 1..(i - 1) : Fits(raw[j]) => raw[j].open <= raw[i].open}

\* A report is about the whole file: the research file holds its candles in
\* their order, the failure file names every other line, all lines have been
\* written to the last unit, and the report satisfies its own contract.
ConvertedAsDefined ==
    step = "reported" =>
        /\ LET candles == Ascending(Candles)
           IN  output.research = [k \in DOMAIN candles |-> raw[candles[k]].open]
        /\ {output.failures[k][1] : k \in DOMAIN output.failures} = DOMAIN raw \ Candles
        /\ output.units = Len(raw) * OutputUnits
        /\ report.written = Len(output.research) /\ report.quarantined = Len(output.failures)
        /\ report.written + report.quarantined = report.seen
        /\ report.written > 0 => report.first < report.end
=============================================================================
