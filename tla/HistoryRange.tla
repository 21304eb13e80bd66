----------------------------- MODULE HistoryRange -----------------------------
(***************************************************************************)
(* The range of candles a repair asks for and the pages in which it comes: *)
(* GapRecoveryService.recover() for one subscription, with                 *)
(* BinanceSpotRestAdapter.get_closed_klines().  Time is counted in ticks   *)
(* since the epoch; a candle is the tick at which it opens.                *)
(***************************************************************************)
EXTENDS Integers, Sequences, FiniteSets

CONSTANTS
    Widths,         \* the lengths of the fixed intervals
    MonthCounts,    \* the lengths of the others, in months
    PageLimit,      \* page_limit
    MaxTime,        \* bound: the exchange's clock
    MaxMissing      \* bound: candles the exchange does not have

ASSUME RangeAssumption ==
    /\ Widths \subseteq Nat \ {0} /\ MonthCounts \subseteq Nat \ {0}
    /\ PageLimit \in Nat \ {0} /\ MaxTime \in Nat /\ MaxMissing \in Nat

VARIABLES
    interval,       \* of the subscription, and where the exchange's grid begins
    outages,        \* the candles the exchange does not have
    serverTime,     \* the exchange's clock
    watermark,      \* the newest candle stored
    range           \* the repair: stage, server time and bounds, pages, history

rangeVars == <<interval, outages, serverTime, watermark, range>>

Intervals ==
    (UNION {{[months |-> FALSE, length |-> w, phase |-> p] : p \in 0..(w - 1)} : w \in Widths})
        \union {[months |-> TRUE, length |-> n, phase |-> 0] : n \in MonthCounts}

-----------------------------------------------------------------------------
(* The arithmetic of candle boundaries *)

\* The calendar of the model: months are of uneven length.
MonthStart(m) == (5 * m) \div 2
MonthOf(t) == CHOOSE m \in 0..t : MonthStart(m) <= t /\ t < MonthStart(m + 1)

\* _latest_closed_boundary(): fixed intervals are counted from the epoch.
LatestClosedBoundary(t) ==
    LET unit == IF interval.months THEN MonthOf(t) ELSE t
        boundary == unit - (unit % interval.length)
    IN  IF interval.months THEN MonthStart(boundary) ELSE boundary

NextCandleOpen(open) ==
    IF interval.months THEN MonthStart(MonthOf(open) + interval.length)
    ELSE open + interval.length

\* What the exchange has: the candles of its grid, of which the last is open.
OnGrid(t) ==
    IF interval.months THEN MonthOf(t) % interval.length = 0 /\ t = MonthStart(MonthOf(t))
    ELSE t % interval.length = interval.phase
Available == {t \in 0..serverTime : OnGrid(t)} \ outages

-----------------------------------------------------------------------------
NoRange == [stage |-> "idle", asked |-> 0, after |-> 0, start |-> 0, end |-> 0, fetched |-> <<>>]

RangeInit ==
    /\ interval \in Intervals
    /\ outages \in {s \in SUBSET (0..MaxTime) : Cardinality(s) <= MaxMissing}
    /\ serverTime \in 0..MaxTime /\ watermark \in Available
    /\ NextCandleOpen(watermark) <= serverTime
    /\ range = NoRange

\* The server's time is asked first, and the range does not follow it.
Ask ==
    LET start == NextCandleOpen(watermark)
        end == LatestClosedBoundary(serverTime)
    IN  /\ range.stage \in {"idle", "returned"}
        /\ range' = [stage |-> IF start >= end THEN "returned" ELSE "paging",
                     asked |-> serverTime, after |-> watermark,
                     start |-> start, end |-> end, fetched |-> <<>>]
        /\ UNCHANGED <<interval, outages, serverTime, watermark>>

Candidates(start, end) == {t \in Available : start <= t /\ t < end}

Ascending(page) == \A i, j \in DOMAIN page : i < j => page[i] < page[j]

\* The page the exchange answers with: the oldest candles of the range, in
\* order.  One that is not on it is behind a full page.
Pages(start, end) ==
    {page \in UNION {[1..n -> Candidates(start, end)] : n \in 0..PageLimit} :
        /\ Ascending(page)
        /\ \A t \in Candidates(start, end) :
             (\A i \in DOMAIN page : page[i] # t) =>
                 Len(page) = PageLimit /\ \A i \in DOMAIN page : page[i] < t}

\* The rows that were closed at the end of the range are the first n.
ClosedBy(page, n, end) == \A i \in DOMAIN page : NextCandleOpen(page[i]) <= end <=> i <= n

\* Mutant of NextStart: the next page begins with the last candle of this one.
NextStartAgain(open) == open

NextStart(open) == open + 1

\* One answer.  A full page is followed by another request unless the range is
\* exhausted; a page that was asked for before, which a cache on the way may
\* repeat, is refused.
Answered(page, n) ==
    LET last == Len(page) < PageLimit \/ n = 0
        repeated == ~last /\ page[n] < range.start
        next == IF last THEN range.end ELSE NextStart(page[n])
    IN  range' = IF repeated THEN NoRange
                 ELSE [range EXCEPT !.fetched = @ \o SubSeq(page, 1, n), !.start = next,
                                    !.stage = IF next < range.end THEN "paging" ELSE "returned"]

Page ==
    /\ range.stage = "paging"
    /\ \E start \in {range.start, NextCandleOpen(range.after)} :
       \E page \in Pages(start, range.end) :
       \E n \in 0..Len(page) : ClosedBy(page, n, range.end) /\ Answered(page, n)
    /\ UNCHANGED <<interval, outages, serverTime, watermark>>

\* A request or one of its rows is refused, and what was fetched is lost.
PageRaises ==
    /\ range.stage = "paging"
    /\ range' = NoRange
    /\ UNCHANGED <<interval, outages, serverTime, watermark>>

\* The caller has stored what a pass returned, and asks for the next.
RangeStored ==
    /\ range.stage = "returned" /\ range.fetched # <<>>
    /\ watermark' = range.fetched[Len(range.fetched)]
    /\ range' = NoRange
    /\ UNCHANGED <<interval, outages, serverTime>>

ServerTick ==
    /\ serverTime < MaxTime
    /\ serverTime' = serverTime + 1
    /\ UNCHANGED <<interval, outages, watermark, range>>

RangeNext == Ask \/ Page \/ PageRaises \/ RangeStored \/ ServerTick

RangeSpec == RangeInit /\ [][RangeNext]_rangeVars

-----------------------------------------------------------------------------
Fetched == {range.fetched[i] : i \in DOMAIN range.fetched}
ClosedAfter(time) ==
    {t \in Available : t > range.after /\ NextCandleOpen(t) <= time}

\* A repair that returns has brought each candle of the exchange between the
\* watermark and the boundary once and in order, over any number of pages and
\* while new candles open, and none that was not closed when it asked.
RangeIsRepaired ==
    range.stage = "returned" =>
        /\ Ascending(range.fetched)
        /\ Fetched = ClosedAfter(range.end)
        /\ interval.phase = 0 => Fetched = ClosedAfter(range.asked)

\* The same for weeks, which begin on a Monday while the epoch was a Thursday.
ClosedIsRepaired == range.stage = "returned" => Fetched = ClosedAfter(range.asked)
=============================================================================
