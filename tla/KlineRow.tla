------------------------------ MODULE KlineRow ------------------------------
(***************************************************************************)
(* One kline on its way from a page of the exchange to a candle of a       *)
(* research file: which rows the downloader accepts, the line it writes of *)
(* a row, and the first thing the conversion finds wrong with a line.  The *)
(* two look at a row with different eyes: the downloader only at the two   *)
(* times, the conversion at every field.                                   *)
(*                                                                         *)
(* A time is a number of days, of which the starts of the months are       *)
(* given.  A number is what its text stands for, and NaN is everything     *)
(* that is not of the type, or not a decimal, that is asked for.  The last *)
(* millisecond of a kline, its raw close time, is the time that follows it.*)
(***************************************************************************)
EXTENDS Integers, Sequences, FiniteSetsExt

CONSTANTS
    Duration,       \* of a kline of fixed length
    MonthStarts,
    NaN             \* a model value

\* The rows in which every field is of the type that is asked for.
TypedRows ==
    [open : Int, close : Int, trades : Int,
     price : [open : Int, high : Int, low : Int, close : Int], amount : Seq(Int)]

ASSUME RowAssumption ==
    /\ Duration \in Nat \ {0} /\ MonthStarts \subseteq Nat /\ IsFiniteSet(MonthStarts)
ASSUME NaNAssumption == NaN \notin Int /\ NaN \notin TypedRows

-----------------------------------------------------------------------------
(* interval_boundary_after() *)

HasBoundary(open, interval) ==
    /\ open \in Nat
    /\ interval = "1M" =>
         open \in MonthStarts /\ \E m \in MonthStarts : m > open

Boundary(open, interval) ==
    IF interval = "1M" THEN Min({m \in MonthStarts : m > open}) ELSE open + Duration

-----------------------------------------------------------------------------
(* Rows *)

\* The twelve fields, but for the last, of which only the type is looked at.
\* A row is NaN when it is not a list of twelve.
Row(open, close) ==
    [open |-> open, close |-> close, trades |-> 1,
     price |-> [open |-> 1, high |-> 2, low |-> 1, close |-> 2],
     amount |-> <<1, 0, 1, 0>>]

\* What a row may be instead: the faults that the checks of either side name.
Faulty(row) ==
    {NaN,
     [row EXCEPT !.close = @ + 1], [row EXCEPT !.open = NaN], [row EXCEPT !.trades = -1],
     [row EXCEPT !.price.high = 0], [row EXCEPT !.price.open = NaN],
     [row EXCEPT !.amount[2] = -1]}

\* _validated_kline_boundary()
Bounded(row, interval) ==
    /\ row # NaN
    /\ row.open \in Int /\ row.close \in Int
    /\ HasBoundary(row.open, interval) /\ row.close = Boundary(row.open, interval)

\* canonical_decimal() has one text for each number; a text that would be too
\* long is NaN too.
Decimal(number) == number \in Int
NonNegative(number) == Decimal(number) /\ number >= 0

\* The contract of a ResearchCandle, of what a row says.
Priced(price) ==
    /\ \A f \in DOMAIN price : Decimal(price[f])
    /\ price.low <= price.high
    /\ \A f \in {"open", "close"} : price.low <= price[f] /\ price[f] <= price.high

Candle(row, interval) ==
    /\ HasBoundary(row.open, interval) /\ row.close = Boundary(row.open, interval)
    /\ NonNegative(row.trades)
    /\ Priced(row.price)
    /\ \A i \in DOMAIN row.amount : NonNegative(row.amount[i])

\* research_candle_from_binance_kline()
Convertible(row, interval) ==
    /\ Bounded(row, interval) /\ row.trades \in Int
    /\ Candle(row, interval)

-----------------------------------------------------------------------------
(* Lines *)

\* The members of a set of times or of places, in their order.
Ascending(S) ==
    CHOOSE f \in [1..Cardinality(S) -> S] :
        \A i, j \in 1..Cardinality(S) : i < j => f[i] < f[j]

\* A line, what it is up to (its bytes, a text, JSON, the envelope of a
\* record), the units of memory it takes with its line ending, and whether it
\* has one.  The source, the symbol and the interval of the envelope are those
\* of one slice.
Line(slice, open, close, row) ==
    [form |-> "envelope", slice |-> slice, open |-> open, close |-> close, row |-> row,
     size |-> 1, ended |-> TRUE]

\* _record_line()
RecordLine(slice, row) == Line(slice, row.open, row.close, row)

\* What else may stand in a line.
FaultyLines(line) ==
    {[line EXCEPT !.form = form] : form \in {"bytes", "text", "JSON"}}
    \union {[line EXCEPT !.slice = NaN], [line EXCEPT !.open = @ + 1]}
    \union {[line EXCEPT !.row = row] : row \in Faulty(line.row)}

\* convert_raw_archive_line() up to the candle: what is wrong, if anything.
Failure(line, slice, interval) ==
    CASE line.form = "bytes" -> "invalid_utf8"
      [] line.form = "text" -> "malformed_json"
      [] line.form = "JSON" \/ (line.form = "envelope" /\ line.slice # slice) -> "invalid_envelope"
      [] OTHER -> IF ~Convertible(line.row, interval) THEN "invalid_candle"
                  ELSE IF <<line.open, line.close>> # <<line.row.open, line.row.close>>
                  THEN "invalid_envelope"
                  ELSE "none"
=============================================================================
