----------------------------- MODULE CandleIngest -----------------------------
(***************************************************************************)
(* The way of the closed candles of one kline stream from the provider to  *)
(* the consumers: the receive loop with its gate, REST repair, the         *)
(* pipeline and the store, across crashes of the process.  The composition *)
(* is the one of tests/soak/market_data_soak.py: the receive loop persists *)
(* what a frame emits before it takes the next one, and the events of a    *)
(* repair are persisted when recover() has returned.                       *)
(***************************************************************************)
EXTENDS CandleStore, FiniteSets

CONSTANTS
    MaxFrames,      \* bound: frames the stream delivers
    MaxUnusable,    \* bound: archived messages after which nothing unusable comes any more
    MaxRepairs,     \* bound: repairs started
    MaxCrashes      \* bound: crashes of the process

ASSUME IngestAssumption ==
    MaxFrames \in Nat /\ MaxUnusable \in Nat /\ MaxRepairs \in Nat /\ MaxCrashes \in Nat

VARIABLES
    closed,     \* the provider's clock: slots closed so far
    frames,     \* frames delivered so far; numbers them, as connection id and sequence do
    repairs,    \* repairs started so far
    crashes,    \* crashes so far
    buffer,     \* frames behind the gate
    repair,     \* phase of recover(), its watermark, and the gap it is for
    sequence,   \* receive_sequence of the REST adapter
    work,       \* messages recover() has still to process
    emitted,    \* events still to be persisted, by who does it
    accepted,   \* slots accepted from REST in this repair
    since,      \* first slot accepted by this process, 0 before: history
    forgotten,  \* slots of the events that an exception has discarded since: history
    evicted     \* whether a candle was ever evicted from `seen`: history

pipeline == <<seen, last, since, forgotten, evicted>>
memory == <<pipeline, buffer, repair, sequence, work, emitted, accepted>>
bounds == <<frames, repairs, crashes>>
vars == <<tables, archive, relay, memory, closed, bounds>>

NoGap == [from |-> 1, to |-> 1]
Idle == [phase |-> "idle", from |-> 0, gap |-> NoGap]
Phases == {"idle", "asking", "processing", "storing"}
Messages == [id : Sources \X Nat, candle : Candles]

IsGap(event) == event \in Gaps
SlotsIn(event) == IF IsGap(event) THEN SlotsOf(event) ELSE {event.slot}

Rows == [state : {"pending", "recovered"}, restored : SUBSET Slots]

TablesTypeOK ==
    /\ DOMAIN candles \subseteq Slots /\ candles \in [DOMAIN candles -> Contents]
    /\ watermark \in 0..MaxSlot
    /\ DOMAIN gaps \subseteq Gaps /\ gaps \in [DOMAIN gaps -> Rows]
    /\ outbox \in Seq(Candles) /\ relayed \subseteq Slots

ArchiveTypeOK == raw \in Seq(Messages) /\ Len(raw) <= RawCapacity /\ refused \in Nat

RelayTypeOK ==
    listed \subseteq DOMAIN outbox /\ published \in BOOLEAN /\ delivered \in Seq(Candles)

PipelineTypeOK ==
    /\ seen \in Seq(Candles) /\ Len(seen) <= DedupeSize
    /\ last \in 0..MaxSlot /\ since \in 0..MaxSlot
    /\ forgotten \subseteq Slots /\ evicted \in BOOLEAN
    /\ emitted \in [{"live", "repair"} -> Seq(Gaps \cup Candles)]
    /\ accepted \subseteq Slots

RepairTypeOK ==
    /\ buffer \in Seq(Messages) /\ work \in Seq(Messages) /\ sequence \in Nat
    /\ repair \in [phase : Phases, from : 0..MaxSlot, gap : Gaps]
    /\ repair.phase = "processing" => work # <<>>

BoundsTypeOK == closed \in 0..MaxSlot /\ frames \in Nat /\ repairs \in Nat /\ crashes \in Nat

TypeOK ==
    /\ TablesTypeOK /\ ArchiveTypeOK /\ RelayTypeOK
    /\ PipelineTypeOK /\ RepairTypeOK /\ BoundsTypeOK

MemoryInit ==
    /\ seen = <<>> /\ last = 0 /\ since = 0 /\ forgotten = {}
    /\ buffer = <<>> /\ repair = Idle /\ sequence = 0 /\ work = <<>>
    /\ emitted = [who \in {"live", "repair"} |-> <<>>] /\ accepted = {}

Init ==
    /\ StoreInit /\ MemoryInit /\ evicted = FALSE
    /\ closed = 0 /\ frames = 0 /\ repairs = 0 /\ crashes = 0

-----------------------------------------------------------------------------
(* The pipeline *)

\* process(): raw capture first, then normalization and deduplication.  An
\* exception leaves it as a payload without an event does.
Process(message, who) ==
    LET candle == message.candle
    IN  /\ Capture(message.id, candle)
        /\ \/ /\ Accepts(candle)
              /\ Remember(candle)
              /\ since' = IF since = 0 THEN candle.slot ELSE since
              /\ evicted' = (evicted \/ Evicts) /\ UNCHANGED forgotten
              /\ emitted' = [emitted EXCEPT ![who] = @ \o Emitted(candle)]
              /\ accepted' = IF message.id[1] = "rest_gap_recovery"
                             THEN accepted \cup {candle.slot} ELSE accepted
           \/ /\ ~Accepts(candle)
              /\ UNCHANGED <<pipeline, emitted, accepted>>

\* record_result() persists the emitted events one by one.
PersistFirst(who) ==
    /\ emitted[who] # <<>>
    /\ LET event == Head(emitted[who])
       IN  IF IsGap(event) THEN RecordGap(event) ELSE PersistCandle(event)
    /\ emitted' = [emitted EXCEPT ![who] = Tail(@)]
    /\ UNCHANGED <<archive, relay, pipeline, buffer, repair, sequence, work, accepted,
                   closed, bounds>>

-----------------------------------------------------------------------------
(* The receive loop *)

CloseSlot ==
    /\ closed < MaxSlot /\ closed' = closed + 1
    /\ UNCHANGED <<tables, archive, relay, memory, bounds>>

UnusableMayCome == Cardinality({i \in DOMAIN raw : raw[i].candle \in NoEvent}) < MaxUnusable

Gated == repair.phase \in {"asking", "processing"}

\* A frame of any closed slot: frames may be missed, repeated or late.  The
\* steps from the answer of a repair to its end do not suspend, nor do those
\* from a frame to the last event it emits.
Receive(slot, candle) ==
    /\ frames < MaxFrames /\ slot <= closed
    /\ candle \in NoEvent => UnusableMayCome
    /\ repair.phase # "processing" /\ emitted["live"] = <<>>
    /\ frames' = frames + 1
    /\ LET message == [id |-> <<"websocket", frames + 1>>, candle |-> candle]
       IN  IF Gated
           THEN /\ buffer' = Append(buffer, message)
                /\ UNCHANGED <<archive, pipeline, emitted, accepted>>
           ELSE Process(message, "live") /\ UNCHANGED buffer
    /\ UNCHANGED <<tables, relay, repair, sequence, work, closed, repairs, crashes>>

Frame == \E slot \in Slots : \E candle \in Readings[slot]["websocket"] : Receive(slot, candle)

-----------------------------------------------------------------------------
(* Repair *)

\* recover(), from the durable watermark or for a gap.
StartRepair(from, gap) ==
    /\ repairs < MaxRepairs /\ repair.phase = "idle"
    /\ repairs' = repairs + 1
    /\ repair' = [phase |-> "asking", from |-> from, gap |-> gap]
    /\ accepted' = {}
    /\ UNCHANGED <<tables, archive, relay, pipeline, buffer, sequence, work, emitted,
                   closed, frames, crashes>>

StartRecovery ==
    \/ StartRepair(watermark, NoGap)
    \/ \E gap \in DOMAIN gaps :
          gaps[gap].state = "pending" /\ StartRepair(gap.from - 1, gap)

\* Nothing is asked without a watermark, or when no slot has closed since.
Asked == IF repair.from = 0 \/ repair.from >= closed THEN 0 ELSE closed - repair.from

\* get_closed_klines() numbers what it returns, which may end before the last
\* slot asked for.
Numbered(read) ==
    [k \in DOMAIN read |-> [id |-> <<"rest_gap_recovery", sequence + k>>, candle |-> read[k]]]

\* What the rows of an answer can be read as; only the first may give no event,
\* which is a bound.  A row without its two times fails the request instead.
Answers(count) ==
    LET rest(k) == Readings[repair.from + k]["rest_gap_recovery"]
    IN  {read \in [1..count -> UNION {rest(k) : k \in 1..count}] :
            \A k \in 1..count :
                read[k] \in rest(k) /\ (read[k] \in NoEvent => k = 1 /\ UnusableMayCome)}

RepairAnswered(count) ==
    /\ repair.phase = "asking" /\ count <= Asked
    /\ \E read \in Answers(count) : work' = Numbered(read) \o buffer
    /\ buffer' = <<>>
    /\ sequence' = sequence + count
    /\ repair' = [repair EXCEPT !.phase = IF work' = <<>> THEN "storing" ELSE "processing"]
    /\ UNCHANGED <<tables, archive, relay, pipeline, emitted, accepted, closed, bounds>>

\* The exception leaves through the finally of the gate; the buffer stays.
RepairFails ==
    /\ repair.phase = "asking"
    /\ repair' = Idle
    /\ UNCHANGED <<tables, archive, relay, pipeline, buffer, sequence, work, emitted,
                   accepted, closed, bounds>>

RepairProcesses ==
    /\ repair.phase = "processing" /\ Head(work).candle # Raising
    /\ Process(Head(work), "repair")
    /\ work' = Tail(work)
    /\ repair' = [repair EXCEPT !.phase = IF Tail(work) = <<>> THEN "storing" ELSE @]
    /\ UNCHANGED <<tables, relay, buffer, sequence, closed, bounds>>

\* process() raises out of recover(), and with it go what is left of the rows and
\* of the drained buffer, and the results that the caller has not seen.
RepairRaises ==
    /\ repair.phase = "processing" /\ Head(work).candle = Raising
    /\ Capture(Head(work).id, Raising)
    /\ work' = <<>> /\ repair' = Idle /\ accepted' = {}
    /\ emitted' = [emitted EXCEPT !["repair"] = <<>>]
    /\ forgotten' = forgotten \cup
                       UNION {SlotsIn(emitted["repair"][i]) : i \in DOMAIN emitted["repair"]}
    /\ UNCHANGED <<tables, relay, seen, last, since, evicted, buffer, sequence, closed, bounds>>

\* Only the first missing slot of the gap is looked for.
Repaired(gap) == gap.from \in accepted

\* Mutant of RepairEnds: the gap row is settled before the results are persisted.
RepairEndsEarly ==
    /\ repair.phase = "storing"
    /\ repair' = Idle
    /\ IF repair.gap # NoGap /\ Repaired(repair.gap)
       THEN MarkGap(repair.gap, "recovered", accepted)
       ELSE UNCHANGED tables
    /\ UNCHANGED <<archive, relay, pipeline, buffer, sequence, work, emitted, accepted,
                   closed, bounds>>

\* The caller of recover() has persisted its results and settles the gap row,
\* which names every slot that was accepted from REST.
RepairEnds ==
    /\ repair.phase = "storing" /\ emitted["repair"] = <<>>
    /\ repair' = Idle
    /\ IF repair.gap # NoGap /\ Repaired(repair.gap)
       THEN MarkGap(repair.gap, "recovered", accepted)
       ELSE UNCHANGED tables
    /\ UNCHANGED <<archive, relay, pipeline, buffer, sequence, work, emitted, accepted,
                   closed, bounds>>

PersistLive == PersistFirst("live")
PersistRepair == repair.phase = "storing" /\ PersistFirst("repair")

-----------------------------------------------------------------------------
(* Crash: memory is lost, the database is not. *)

Crash ==
    /\ crashes < MaxCrashes
    /\ crashes' = crashes + 1
    /\ seen' = <<>> /\ last' = 0 /\ since' = 0 /\ forgotten' = {}
    /\ buffer' = <<>> /\ repair' = Idle /\ sequence' = 0 /\ work' = <<>>
    /\ emitted' = [who \in {"live", "repair"} |-> <<>>] /\ accepted' = {}
    /\ listed' = {} /\ published' = FALSE
    /\ UNCHANGED <<tables, archive, delivered, evicted, closed, frames, repairs>>

RelayStep == Relay /\ UNCHANGED <<memory, closed, bounds>>

Next ==
    \/ CloseSlot
    \/ Frame
    \/ PersistLive \/ PersistRepair
    \/ StartRecovery \/ RepairFails \/ RepairProcesses \/ RepairRaises \/ RepairEnds
    \/ \E count \in 0..MaxSlot : RepairAnswered(count)
    \/ RelayStep
    \/ Crash

Spec == Init /\ [][Next]_vars

\* The relay keeps running; crashes are bounded.
FairSpec == Spec /\ WF_vars(RelayStep)

-----------------------------------------------------------------------------
(* Properties *)

\* The tables never contradict each other: the outbox holds exactly the stored
\* candles, each once and with the content stored, and the watermark is the
\* newest of them.
TablesAgree ==
    /\ {outbox[i].slot : i \in DOMAIN outbox} = DOMAIN candles
    /\ \A i \in DOMAIN outbox : outbox[i].content = candles[outbox[i].slot]
    /\ \A i, j \in DOMAIN outbox : outbox[i].slot = outbox[j].slot => i = j
    /\ watermark \in DOMAIN candles \cup {0}
    /\ \A s \in DOMAIN candles : s <= watermark

Committed(s) ==
    \/ s \in DOMAIN candles
    \/ \E gap \in DOMAIN gaps : s \in SlotsOf(gap)

OnItsWay(s) ==
    \E who \in {"live", "repair"} : \E i \in DOMAIN emitted[who] : s \in SlotsIn(emitted[who][i])

\* A slot this process has passed is forgotten only by an exception out of
\* recover(): otherwise it is stored, or missing in a gap row, or about to become
\* one of the two.
MissingIsRecorded ==
    since # 0 => \A s \in since..last : Committed(s) \/ OnItsWay(s) \/ s \in forgotten

\* A row of a recovered gap names slots that are stored, the first one missing
\* among them.  Of the others that were missing it says nothing.
RecoveredIsStored ==
    \A gap \in DOMAIN gaps : gaps[gap].state = "recovered" =>
        gap.from \in gaps[gap].restored /\ gaps[gap].restored \subseteq DOMAIN candles

Usable(i, s) == raw[i].candle.slot = s /\ raw[i].candle \notin NoEvent

Replayed(s) ==
    LET first == CHOOSE i \in DOMAIN raw :
                     Usable(i, s) /\ \A j \in 1..(i - 1) : ~Usable(j, s)
    IN  raw[first].candle.content

\* Replaying the archive reproduces the stored series, as long as the process
\* has not crashed and no bound was met.
ReplayReproduces ==
    crashes = 0 /\ refused = 0 /\ ~evicted =>
        \A s \in DOMAIN candles :
            /\ \E i \in DOMAIN raw : raw[i].candle.slot = s
            /\ Replayed(s) = candles[s]

\* Whatever is stored is archived, as long as nothing was refused for lack of
\* room: "unique message ID for deduplication".
StoredIsArchived ==
    refused = 0 => \A s \in DOMAIN candles : \E i \in DOMAIN raw : raw[i].candle.slot = s

\* What consumers get is what the layer promises them.
Promise == INSTANCE AtLeastOnce WITH Events <- Candles, committed <- outbox

ImplementsAtLeastOnce == Promise!AtLeastOnceInOrder
=============================================================================
