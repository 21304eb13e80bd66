----------------------------- MODULE CandleStore -----------------------------
(***************************************************************************)
(* SqliteMarketDataStore for one kline stream, with the relay that         *)
(* publishes its outbox.  Each method is one SQLite transaction and does   *)
(* not suspend; a crash comes between transactions and leaves the tables.  *)
(* A row of the outbox is identified by its event, and the event by the    *)
(* slot of its candle: uuid5 of symbol, interval and open time.            *)
(***************************************************************************)
EXTENDS Normalization

CONSTANTS
    RawCapacity     \* raw_capacity

ASSUME StoreAssumption == RawCapacity \in Nat \ {0}

VARIABLES
    candles,    \* table candles: content by slot
    watermark,  \* table watermarks: last_open_time, 0 without a row
    gaps,       \* table gaps: recovery_state and recovered_open_times by gap
    outbox,     \* table outbox in rowid order
    relayed,    \* slots whose outbox row has relayed_at
    raw,        \* table raw_messages in order of id
    refused,    \* number of raw messages refused for lack of room: history
    listed,     \* the rowids a relay pass has listed and not finished: memory
    published,  \* whether the first of them is published: memory
    delivered   \* what the relay has published: history

tables == <<candles, watermark, gaps, outbox, relayed>>
archive == <<raw, refused>>
relay == <<listed, published, delivered>>

StoreInit ==
    /\ candles = <<>> /\ watermark = 0 /\ gaps = <<>>
    /\ outbox = <<>> /\ relayed = {}
    /\ raw = <<>> /\ refused = 0
    /\ listed = {} /\ published = FALSE /\ delivered = <<>>

\* INSERT OR IGNORE by natural key.
WithCandle(candle) ==
    [s \in DOMAIN candles \cup {candle.slot} |->
        IF s \in DOMAIN candles THEN candles[s] ELSE candle.content]

InOutbox(slot) == \E i \in DOMAIN outbox : outbox[i].slot = slot

\* Mutant of PersistCandle: INSERT OR REPLACE.
PersistCandleReplacing(candle) ==
    /\ candles' = [s \in DOMAIN candles \cup {candle.slot} |->
                      IF s = candle.slot THEN candle.content ELSE candles[s]]
    /\ watermark' = IF candle.slot > watermark THEN candle.slot ELSE watermark
    /\ outbox' = IF InOutbox(candle.slot) THEN outbox ELSE Append(outbox, candle)
    /\ UNCHANGED <<gaps, relayed>>

\* persist_closed_candle_and_outbox: candle, watermark and event in one
\* transaction.
PersistCandle(candle) ==
    /\ candles' = WithCandle(candle)
    /\ watermark' = IF candle.slot > watermark THEN candle.slot ELSE watermark
    /\ outbox' = IF InOutbox(candle.slot) THEN outbox ELSE Append(outbox, candle)
    /\ UNCHANGED <<gaps, relayed>>

\* create_or_update_gap: an existing row keeps its recovery state.
RecordGap(gap) ==
    /\ gaps' = [g \in DOMAIN gaps \cup {gap} |->
                   IF g \in DOMAIN gaps THEN gaps[g] ELSE [state |-> "pending", restored |-> {}]]
    /\ UNCHANGED <<candles, watermark, outbox, relayed>>

\* mark_gap_recovery
MarkGap(gap, outcome, slots) ==
    /\ gaps' = [g \in DOMAIN gaps |->
                   IF g = gap THEN [state |-> outcome, restored |-> slots] ELSE gaps[g]]
    /\ UNCHANGED <<candles, watermark, outbox, relayed>>

Archived(id) == \E i \in DOMAIN raw : raw[i].id = id

\* capture: a known message ID is accepted without being stored.
Capture(id, candle) ==
    IF Archived(id) THEN UNCHANGED archive
    ELSE IF Len(raw) >= RawCapacity
    THEN refused' = refused + 1 /\ UNCHANGED raw
    ELSE raw' = Append(raw, [id |-> id, candle |-> candle]) /\ UNCHANGED refused

\* list_undelivered_outbox, by rowid
Undelivered == {row \in DOMAIN outbox : outbox[row].slot \notin relayed}

RelayLists ==
    /\ listed = {} /\ Undelivered # {}
    /\ listed' = Undelivered
    /\ UNCHANGED <<published, delivered, tables, archive>>

First(rows) == CHOOSE row \in rows : \A other \in rows : row <= other

RelayPublishes ==
    /\ listed # {} /\ ~published
    /\ published' = TRUE
    /\ delivered' = Append(delivered, outbox[First(listed)])
    /\ UNCHANGED <<listed, tables, archive>>

\* Mutant of RelayMarks: the row is marked before it is published.
RelayMarksFirst ==
    /\ listed # {}
    /\ relayed' = relayed \cup {outbox[First(listed)].slot}
    /\ listed' = listed \ {First(listed)} /\ published' = FALSE
    /\ UNCHANGED <<delivered, candles, watermark, gaps, outbox, archive>>

\* mark_outbox_relayed, after the row is published
RelayMarks ==
    /\ listed # {} /\ published
    /\ relayed' = relayed \cup {outbox[First(listed)].slot}
    /\ listed' = listed \ {First(listed)} /\ published' = FALSE
    /\ UNCHANGED <<delivered, candles, watermark, gaps, outbox, archive>>

Relay == RelayLists \/ RelayPublishes \/ RelayMarks
=============================================================================
