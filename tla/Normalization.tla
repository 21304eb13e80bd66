---------------------------- MODULE Normalization ----------------------------
(***************************************************************************)
(* The canonical path of NormalizationPipeline for the closed candles of   *)
(* one kline stream: deduplication with a bounded memory, and detection of *)
(* missing slots.  Slots are the open times, numbered.  A candle's content *)
(* stands for _candle_signature(); it differs between WebSocket and REST   *)
(* for the slots the provider revised in between, is "unusable" where the  *)
(* payload gives no event: an open kline, or a faulty one; and "raising"   *)
(* where a time in it is out of range, and process() raises.               *)
(***************************************************************************)
EXTENDS Payload, Naturals, Sequences

CONSTANTS
    MaxSlot,    \* the last slot considered
    DedupeSize, \* max_candle_dedupe
    Revised,    \* the slots whose REST candle differs from the streamed one
    Mistimed    \* bound: the sources that may send a time out of range

ASSUME NormalizationAssumption ==
    MaxSlot \in Nat \ {0} /\ DedupeSize \in Nat \ {0} /\ Revised \subseteq 1..MaxSlot

Slots == 1..MaxSlot
Sources == {"websocket", "rest_gap_recovery"}
Contents == Sources \cup {"agreed", "unusable", "raising"}
Candles == [slot : Slots, content : Contents]
Gaps == [from : Slots, to : Slots]      \* from gap_start_at, before gap_end_at

VARIABLES
    seen,       \* the ordered dict of accepted candles, oldest first
    last        \* slot of the last candle, 0 while there is none

\* Of what gives no event nothing is told apart, the slot neither.
Unusable == [slot |-> 1, content |-> "unusable"]
Raising == [slot |-> 1, content |-> "raising"]
NoEvent == {Unusable, Raising}

\* What is normalized from the payload a source sends for a slot.
CandleOf(slot, source, payload) ==
    IF Raises(payload) THEN Raising
    ELSE IF ~KlineIsSound(payload) THEN Unusable
    ELSE [slot |-> slot, content |-> IF slot \in Revised THEN source ELSE "agreed"]

PayloadsOf(slot, source) ==
    LET kline == IF source = "websocket" THEN StreamedKline(slot) ELSE RestKline(slot)
    IN  {kline} \cup {other \in FaultyKlines(kline) : Raises(other) => source \in Mistimed}

\* The candles that the payloads of a slot can turn out to be.
Readings ==
    [slot \in Slots |-> [source \in Sources |->
        {CandleOf(slot, source, payload) : payload \in PayloadsOf(slot, source)}]]

SlotsOf(gap) == gap.from..(gap.to - 1)

\* Mutant of Accepts: a conflicting candle is not quarantined.
AcceptsConflicting(candle) ==
    candle \notin NoEvent /\ \A i \in DOMAIN seen : seen[i] # candle

\* An open kline is ignored and a faulty one quarantined; a candle whose slot
\* is remembered is a duplicate, or an integrity conflict that is quarantined.
\* None of them leaves a trace in the pipeline.
Accepts(candle) ==
    candle \notin NoEvent /\ \A i \in DOMAIN seen : seen[i].slot # candle.slot

\* The while loop evicts one entry, because at most one is too many.
Remembered(candle) ==
    LET grown == Append(seen, candle)
    IN  IF Len(grown) > DedupeSize THEN Tail(grown) ELSE grown

Evicts == Len(seen) >= DedupeSize

NewestWith(candle) == IF candle.slot > last THEN candle.slot ELSE last

\* Mutant of SkipsSlots: a gap of one slot is not noticed.
SkipsSlotsLate(candle) == last # 0 /\ candle.slot > last + 2

SkipsSlots(candle) == last # 0 /\ candle.slot > last + 1

\* What an accepted candle emits: the gap it reveals, then the candle.
Emitted(candle) ==
    IF SkipsSlots(candle)
    THEN <<[from |-> last + 1, to |-> candle.slot], candle>>
    ELSE <<candle>>

Remember(candle) == seen' = Remembered(candle) /\ last' = NewestWith(candle)
=============================================================================
