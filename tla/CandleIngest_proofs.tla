-------------------------- MODULE CandleIngest_proofs --------------------------
(***************************************************************************)
(* Theorems about CandleIngest, for every number of slots, size of the     *)
(* deduplication memory and set of revised slots.  Only PersistCandle      *)
(* writes candles, watermark and outbox, so TablesAgree is inductive with  *)
(* the types; the other properties need RecoveryInv, MissingInv,           *)
(* PublishInv and ReplayInv, each stated where it is used.                 *)
(***************************************************************************)
EXTENDS CandleIngest, TLAPS, WellFoundedInduction

USE NormalizationAssumption, StoreAssumption, IngestAssumption

\* The initial state is well typed.
LEMMA InitTyped == Init => TypeOK
<1> SUFFICES ASSUME Init PROVE TypeOK
  OBVIOUS
<1> USE DEF Init, StoreInit, MemoryInit
<1>1. TablesTypeOK
  BY DEF TablesTypeOK
<1>2. ArchiveTypeOK
  BY DEF ArchiveTypeOK
<1>3. RelayTypeOK
  <2>1. listed \subseteq DOMAIN outbox /\ delivered \in Seq(Candles)
    OBVIOUS
  <2>2. published \in BOOLEAN
    OBVIOUS
  <2> QED
    BY <2>1, <2>2 DEF RelayTypeOK
<1>4. PipelineTypeOK
  <2>1. /\ seen \in Seq(Candles) /\ Len(seen) <= DedupeSize
        /\ last \in 0..MaxSlot /\ since \in 0..MaxSlot /\ accepted \subseteq Slots
        /\ forgotten \subseteq Slots
    OBVIOUS
  <2>2. evicted \in BOOLEAN
    OBVIOUS
  <2>3. emitted \in [{"live", "repair"} -> Seq(Gaps \cup Candles)]
    OBVIOUS
  <2> QED
    BY <2>1, <2>2, <2>3 DEF PipelineTypeOK
<1>5. RepairTypeOK
  BY DEF RepairTypeOK, Idle, NoGap, Phases, Gaps, Slots
<1>6. BoundsTypeOK
  BY DEF BoundsTypeOK
<1> QED
  BY <1>1, <1>2, <1>3, <1>4, <1>5, <1>6 DEF TypeOK

\* A gap and a candle are never the same event.
LEMMA EventKinds == \A event : event \in Candles => ~IsGap(event)
<1> SUFFICES ASSUME NEW event \in Candles, event \in Gaps PROVE FALSE
  BY DEF IsGap
<1>1. "from" \in DOMAIN event
  BY DEF Gaps
<1>2. DOMAIN event = {"slot", "content"}
  BY DEF Candles
<1> QED
  BY <1>1, <1>2

\* What gives no event is counted among the candles.
LEMMA NoEventIsTyped == NoEvent \subseteq Candles
BY NormalizationAssumption DEF NoEvent, Unusable, Raising, Candles, Contents, Slots

\* Whatever either source sends for a slot is read as a candle.
LEMMA CandlesOfSlots ==
    \A slot \in Slots, source \in Sources : Readings[slot][source] \subseteq Candles
<1> SUFFICES ASSUME NEW slot \in Slots, NEW source \in Sources,
                    NEW payload \in PayloadsOf(slot, source)
             PROVE  CandleOf(slot, source, payload) \in Candles
  BY DEF Readings
<1>1. Unusable \in Candles /\ Raising \in Candles
  BY NoEventIsTyped DEF NoEvent
<1> QED
  BY <1>1 DEF CandleOf, Candles, Contents

\* What the pipeline remembers and emits.
LEMMA PipelineValues ==
    ASSUME PipelineTypeOK, NEW candle \in Candles
    PROVE  /\ Remembered(candle) \in Seq(Candles) /\ Len(Remembered(candle)) <= DedupeSize
           /\ NewestWith(candle) \in 0..MaxSlot
           /\ Emitted(candle) \in Seq(Gaps \cup Candles)
<1> USE DEF PipelineTypeOK
<1>1. candle.slot \in 1..MaxSlot
  BY DEF Candles, Slots
<1>2. Remembered(candle) \in Seq(Candles) /\ Len(Remembered(candle)) <= DedupeSize
  <2> DEFINE grown == Append(seen, candle)
  <2>1. grown \in Seq(Candles) /\ Len(grown) = Len(seen) + 1 /\ grown # <<>>
    OBVIOUS
  <2>2. Tail(grown) \in Seq(Candles) /\ Len(Tail(grown)) = Len(grown) - 1
    BY <2>1
  <2> QED
    BY <2>1, <2>2 DEF Remembered
<1>3. NewestWith(candle) \in 0..MaxSlot
  BY <1>1 DEF NewestWith
<1>4. Emitted(candle) \in Seq(Gaps \cup Candles)
  <2> DEFINE event == Gaps \cup Candles
             gap == [from |-> last + 1, to |-> candle.slot]
  <2>1. CASE SkipsSlots(candle)
    <3>1. gap \in event
      BY <1>1, <2>1 DEF SkipsSlots, Gaps, Slots
    <3> HIDE DEF event, gap
    <3>2. candle \in event
      BY DEF event
    <3>3. <<gap, candle>> \in Seq(event)
      BY <3>1, <3>2
    <3>4. Emitted(candle) = <<gap, candle>>
      BY <2>1 DEF Emitted, gap
    <3> QED
      BY <3>3, <3>4 DEF event
  <2>2. CASE ~SkipsSlots(candle)
    <3> HIDE DEF event
    <3>1. <<candle>> \in Seq(event)
      BY DEF event
    <3> QED
      BY <2>2, <3>1 DEF Emitted, event
  <2> QED
    BY <2>1, <2>2
<1> QED
  BY <1>2, <1>3, <1>4

\* The pipeline keeps the types of what it writes: archive, memory and queues.
LEMMA ProcessTyped ==
    ASSUME TypeOK, NEW message \in Messages, NEW who \in {"live", "repair"},
           Process(message, who)
    PROVE  ArchiveTypeOK' /\ PipelineTypeOK'
<1> DEFINE candle == message.candle
<1>1. candle \in Candles /\ message.id \in Sources \X Nat
  BY DEF Messages
<1>2. candle.slot \in 1..MaxSlot
  BY <1>1 DEF Candles, Slots
<1>3. ArchiveTypeOK'
  <2> DEFINE entry == [id |-> message.id, candle |-> candle]
  <2>1. entry \in Messages
    BY <1>1 DEF Messages
  <2>2. raw \in Seq(Messages) /\ Len(raw) <= RawCapacity /\ refused \in Nat
    BY DEF TypeOK, ArchiveTypeOK
  <2>3. \/ raw' = raw /\ refused' = refused
        \/ raw' = raw /\ refused' = refused + 1
        \/ ~(Len(raw) >= RawCapacity) /\ raw' = Append(raw, entry) /\ refused' = refused
    BY DEF Process, Capture, archive
  <2> HIDE DEF entry
  <2>4. Append(raw, entry) \in Seq(Messages) /\ Len(Append(raw, entry)) = Len(raw) + 1
    BY <2>1, <2>2
  <2> QED
    BY <2>2, <2>3, <2>4 DEF ArchiveTypeOK
<1>4. PipelineTypeOK'
  <2> USE DEF PipelineTypeOK
  <2>1. PipelineTypeOK
    BY DEF TypeOK
  <2>2. since' \in 0..MaxSlot /\ forgotten' \subseteq Slots
    <3>1. (since' = since \/ since' = candle.slot) /\ forgotten' = forgotten
      BY DEF Process, pipeline
    <3> QED
      BY <1>2, <2>1, <3>1
  <2>3. CASE Accepts(candle)
    <3>1. seen' = Remembered(candle) /\ last' = NewestWith(candle)
      BY <2>3 DEF Process, Remember
    <3>2. evicted' \in BOOLEAN
      <4>1. evicted' = (evicted \/ Evicts)
        BY <2>3 DEF Process
      <4> QED
        BY <4>1
    <3>3. accepted' \subseteq Slots
      BY <1>2, <2>1, <2>3 DEF Process, Slots
    <3>4. emitted' \in [{"live", "repair"} -> Seq(Gaps \cup Candles)]
      <4> DEFINE Event == Gaps \cup Candles
                 emits == Emitted(candle)
      <4>1. emits \in Seq(Event) /\ emitted[who] \in Seq(Event)
        BY <1>1, <2>1, PipelineValues
      <4>2. emitted' = [emitted EXCEPT ![who] = @ \o emits]
        BY <2>3 DEF Process
      <4>3. emitted \in [{"live", "repair"} -> Seq(Event)]
        BY <2>1
      <4> HIDE DEF Event, emits
      <4>4. emitted[who] \o emits \in Seq(Event)
        BY <4>1
      <4>5. emitted' \in [{"live", "repair"} -> Seq(Event)]
        BY <4>2, <4>3, <4>4
      <4> QED
        BY <4>5 DEF Event
    <3> QED
      BY <1>1, <2>1, <2>2, <3>1, <3>2, <3>3, <3>4, PipelineValues
  <2>4. CASE ~Accepts(candle)
    <3>1. UNCHANGED <<seen, last, evicted, emitted, accepted>>
      BY <2>4 DEF Process, pipeline
    <3> QED
      BY <2>1, <2>2, <3>1
  <2> QED
    BY <2>3, <2>4
<1> QED
  BY <1>3, <1>4

\* An event waiting to be persisted is a gap or a candle.
LEMMA HeadIsEvent ==
    ASSUME PipelineTypeOK, NEW who \in {"live", "repair"}, emitted[who] # <<>>
    PROVE  /\ Head(emitted[who]) \in Gaps \cup Candles
           /\ Tail(emitted[who]) \in Seq(Gaps \cup Candles)
<1> DEFINE Event == Gaps \cup Candles
<1>1. emitted[who] \in Seq(Event)
  BY DEF PipelineTypeOK
<1> HIDE DEF Event
<1>2. Head(emitted[who]) \in Event /\ Tail(emitted[who]) \in Seq(Event)
  BY <1>1
<1> QED
  BY <1>2 DEF Event

\* The transaction that stores a candle keeps the tables well-formed, and the
\* outbox only grows.
LEMMA PersistCandleTyped ==
    ASSUME TablesTypeOK, NEW candle \in Candles, PersistCandle(candle)
    PROVE  TablesTypeOK' /\ DOMAIN outbox \subseteq DOMAIN outbox'
<1>1. candle.slot \in Slots /\ candle.content \in Contents
  BY DEF Candles
<1>2. candles' \in [DOMAIN candles' -> Contents] /\ DOMAIN candles' \subseteq Slots
  <2>1. candles \in [DOMAIN candles -> Contents] /\ DOMAIN candles \subseteq Slots
    BY DEF TablesTypeOK
  <2>2. candles' = WithCandle(candle)
    BY DEF PersistCandle
  <2> QED
    BY <1>1, <2>1, <2>2 DEF WithCandle
<1>3. watermark' \in 0..MaxSlot
  BY <1>1 DEF PersistCandle, TablesTypeOK, Slots
<1>4. outbox' \in Seq(Candles) /\ DOMAIN outbox \subseteq DOMAIN outbox'
  BY DEF PersistCandle, TablesTypeOK
<1> QED
  BY <1>2, <1>3, <1>4 DEF PersistCandle, TablesTypeOK

\* A new gap row starts as "pending"; the others keep their state.
LEMMA RecordGapTyped ==
    ASSUME TablesTypeOK, NEW gap \in Gaps, RecordGap(gap)
    PROVE  TablesTypeOK'
<1>1. DOMAIN gaps \subseteq Gaps /\ gaps \in [DOMAIN gaps -> Rows]
  BY DEF TablesTypeOK
<1>2. DOMAIN gaps' \subseteq Gaps /\ gaps' \in [DOMAIN gaps' -> Rows]
  BY <1>1 DEF RecordGap, Rows
<1> QED
  BY <1>2 DEF RecordGap, TablesTypeOK

\* Persisting an event keeps every type, whichever kind of event it is.
LEMMA PersistFirstTyped ==
    ASSUME TypeOK, NEW who \in {"live", "repair"}, PersistFirst(who)
    PROVE  TypeOK'
<1> DEFINE event == Head(emitted[who])
<1> USE DEF TypeOK
<1>1. TablesTypeOK' /\ DOMAIN outbox \subseteq DOMAIN outbox'
  <2>1. CASE IsGap(event)
    <3>1. RecordGap(event)
      BY <2>1 DEF PersistFirst
    <3> QED
      BY <2>1, <3>1, RecordGapTyped DEF IsGap, RecordGap
  <2>2. CASE ~IsGap(event)
    <3>1. PersistCandle(event) /\ event \in Candles
      BY <2>2, HeadIsEvent DEF PersistFirst, IsGap
    <3> QED
      BY <3>1, PersistCandleTyped
  <2> QED
    BY <2>1, <2>2
<1>2. ArchiveTypeOK'
  BY DEF PersistFirst, archive, ArchiveTypeOK
<1>3. RelayTypeOK'
  <2>1. UNCHANGED <<listed, published, delivered>>
    BY DEF PersistFirst, relay
  <2> QED
    BY <1>1, <2>1 DEF RelayTypeOK
<1>4. PipelineTypeOK'
  <2>1. emitted' \in [{"live", "repair"} -> Seq(Gaps \cup Candles)]
    <3>1. emitted' = [emitted EXCEPT ![who] = Tail(@)]
      BY DEF PersistFirst
    <3>2. Tail(emitted[who]) \in Seq(Gaps \cup Candles)
      BY HeadIsEvent DEF PersistFirst
    <3>3. emitted \in [{"live", "repair"} -> Seq(Gaps \cup Candles)]
      BY DEF PipelineTypeOK
    <3> QED
      BY <3>1, <3>2, <3>3
  <2>2. UNCHANGED <<seen, last, since, forgotten, evicted, accepted>>
    BY DEF PersistFirst, pipeline
  <2> QED
    BY <2>1, <2>2 DEF PipelineTypeOK
<1>5. RepairTypeOK' /\ BoundsTypeOK'
  BY DEF PersistFirst, RepairTypeOK, BoundsTypeOK, bounds
<1> QED
  BY <1>1, <1>2, <1>3, <1>4, <1>5

\* The record of a gate without a repair is well typed.
LEMMA RepairRecords ==
    /\ NoGap \in Gaps /\ Idle \in [phase : Phases, from : 0..MaxSlot, gap : Gaps]
    /\ Idle.phase = "idle"
BY DEF NoGap, Idle, Phases, Gaps, Slots

\* A frame keeps every type, behind the gate or not.
LEMMA ReceiveTyped ==
    ASSUME TypeOK, NEW slot \in Slots, NEW candle \in Readings[slot]["websocket"],
           Receive(slot, candle)
    PROVE  TypeOK'
<1> DEFINE message == [id |-> <<"websocket", frames + 1>>, candle |-> candle]
<1>1. message \in Messages
  <2>1. candle \in Candles
    BY CandlesOfSlots DEF Sources
  <2>2. <<"websocket", frames + 1>> \in Sources \X Nat
    BY DEF TypeOK, BoundsTypeOK, Sources
  <2> QED
    BY <2>1, <2>2 DEF Messages
<1>2. TablesTypeOK' /\ RelayTypeOK' /\ BoundsTypeOK'
  <2>1. /\ UNCHANGED <<tables, relay>> /\ UNCHANGED <<closed, repairs, crashes>>
        /\ frames' = frames + 1
    BY DEF Receive
  <2>2. TablesTypeOK' /\ RelayTypeOK'
    BY <2>1 DEF TypeOK, TablesTypeOK, RelayTypeOK, tables, relay
  <2>3. BoundsTypeOK'
    BY <2>1 DEF TypeOK, BoundsTypeOK
  <2> QED
    BY <2>2, <2>3
<1>3. UNCHANGED <<repair, sequence, work>>
  BY DEF Receive
<1>4. CASE Gated
  <2>1. buffer' = Append(buffer, message) /\ UNCHANGED <<archive, pipeline, emitted, accepted>>
    BY <1>4 DEF Receive
  <2> HIDE DEF message
  <2>2. ArchiveTypeOK' /\ PipelineTypeOK'
    BY <2>1 DEF TypeOK, ArchiveTypeOK, PipelineTypeOK, archive, pipeline
  <2>3. RepairTypeOK'
    BY <1>1, <1>3, <2>1 DEF TypeOK, RepairTypeOK
  <2> QED
    BY <1>2, <2>2, <2>3 DEF TypeOK
<1>5. CASE ~Gated
  <2>1. Process(message, "live") /\ UNCHANGED buffer
    BY <1>5 DEF Receive
  <2> HIDE DEF message
  <2>2. ArchiveTypeOK' /\ PipelineTypeOK'
    BY <1>1, <2>1, ProcessTyped
  <2>3. RepairTypeOK'
    BY <1>3, <2>1 DEF TypeOK, RepairTypeOK
  <2> QED
    BY <1>2, <2>2, <2>3 DEF TypeOK
<1> QED
  BY <1>4, <1>5

\* A repair starts from a slot, whether from the watermark or for a gap.
LEMMA StartRecoveryTyped ==
    ASSUME TypeOK, StartRecovery
    PROVE  TypeOK'
<1>1. PICK from \in 0..MaxSlot, gap \in Gaps : StartRepair(from, gap)
  <2>1. CASE StartRepair(watermark, NoGap)
    BY <2>1, RepairRecords DEF TypeOK, TablesTypeOK
  <2>2. CASE \E gap \in DOMAIN gaps : gaps[gap].state = "pending" /\ StartRepair(gap.from - 1, gap)
    <3>1. PICK gap \in DOMAIN gaps : StartRepair(gap.from - 1, gap)
      BY <2>2, Zenon
    <3>2. gap \in Gaps /\ gap.from - 1 \in 0..MaxSlot
      BY DEF TypeOK, TablesTypeOK, Gaps, Slots
    <3> QED
      BY <3>1, <3>2
  <2> QED
    BY <2>1, <2>2 DEF StartRecovery
<1>2. RepairTypeOK'
  BY <1>1 DEF StartRepair, TypeOK, RepairTypeOK, Phases
<1>3. PipelineTypeOK'
  BY <1>1 DEF StartRepair, TypeOK, PipelineTypeOK, pipeline
<1> QED
  BY <1>1, <1>2, <1>3 DEF StartRepair, TypeOK, TablesTypeOK, ArchiveTypeOK, RelayTypeOK,
     BoundsTypeOK, tables, archive, relay

\* A REST answer ends at the last closed slot, so its rows are candles.
LEMMA RowsTyped ==
    ASSUME RepairTypeOK, BoundsTypeOK, NEW count \in 0..MaxSlot, count <= Asked,
           NEW read \in Answers(count)
    PROVE  Numbered(read) \in Seq(Messages)
<1>1. Asked \in Nat /\ (Asked > 0 => repair.from + Asked <= closed)
  BY DEF Asked, RepairTypeOK, BoundsTypeOK
<1> DEFINE row(k) == [id |-> <<"rest_gap_recovery", sequence + k>>, candle |-> read[k]]
<1>2. ASSUME NEW k \in 1..count PROVE row(k) \in Messages
  <2>1. repair.from + k \in Slots
    BY <1>1 DEF RepairTypeOK, BoundsTypeOK, Slots
  <2>2. read[k] \in Candles
    BY <2>1, CandlesOfSlots DEF Sources, Answers
  <2>3. <<"rest_gap_recovery", sequence + k>> \in Sources \X Nat
    BY DEF RepairTypeOK, Sources
  <2> QED
    BY <2>2, <2>3 DEF Messages
<1>3. Numbered(read) = [k \in 1..count |-> row(k)]
  BY DEF Numbered, Answers
<1> HIDE DEF row
<1> QED
  BY <1>2, <1>3

\* The answer of a repair keeps every type: its rows come before the buffer.
LEMMA RepairAnsweredTyped ==
    ASSUME TypeOK, NEW count \in 0..MaxSlot, RepairAnswered(count)
    PROVE  TypeOK'
<1> PICK read \in Answers(count) : work' = Numbered(read) \o buffer
  BY DEF RepairAnswered
<1>1. Numbered(read) \in Seq(Messages) /\ buffer \in Seq(Messages)
  BY RowsTyped DEF RepairAnswered, TypeOK, RepairTypeOK
<1>2. work' \in Seq(Messages)
  BY <1>1
<1>3. /\ repair' \in [phase : Phases, from : 0..MaxSlot, gap : Gaps]
      /\ repair'.phase = "processing" => work' # <<>>
  BY DEF RepairAnswered, TypeOK, RepairTypeOK, Phases
<1>4. buffer' \in Seq(Messages) /\ sequence' \in Nat
  BY DEF RepairAnswered, TypeOK, RepairTypeOK
<1>5. PipelineTypeOK'
  BY DEF RepairAnswered, TypeOK, PipelineTypeOK, pipeline
<1> QED
  BY <1>2, <1>3, <1>4, <1>5 DEF RepairAnswered, TypeOK, TablesTypeOK, ArchiveTypeOK,
     RelayTypeOK, RepairTypeOK, BoundsTypeOK, tables, archive, relay, bounds

\* A processed message keeps every type; the phase ends with the work.
LEMMA RepairProcessesTyped ==
    ASSUME TypeOK, RepairProcesses
    PROVE  TypeOK'
<1>1. Head(work) \in Messages /\ Tail(work) \in Seq(Messages)
  BY DEF RepairProcesses, TypeOK, RepairTypeOK
<1>2. ArchiveTypeOK' /\ PipelineTypeOK'
  BY <1>1, ProcessTyped DEF RepairProcesses
<1>3. RepairTypeOK'
  BY <1>1 DEF RepairProcesses, TypeOK, RepairTypeOK, Phases
<1> QED
  BY <1>2, <1>3 DEF RepairProcesses, TypeOK, TablesTypeOK, RelayTypeOK, BoundsTypeOK,
     tables, relay, bounds

\* The slots of an event are slots.
LEMMA EventsHaveSlots ==
    \A event \in Gaps \cup Candles : SlotsIn(event) \subseteq Slots
BY EventKinds DEF SlotsIn, SlotsOf, IsGap, Gaps, Candles, Slots

\* An exception out of a repair keeps every type.
LEMMA RepairRaisesTyped ==
    ASSUME TypeOK, RepairRaises
    PROVE  TypeOK'
<1> DEFINE Event == Gaps \cup Candles
           queue == emitted["repair"]
<1>1. Head(work).id \in Sources \X Nat /\ Raising \in Candles
  <2>1. Head(work) \in Messages
    BY DEF RepairRaises, TypeOK, RepairTypeOK
  <2> QED
    BY <2>1, NoEventIsTyped DEF Messages, NoEvent
<1>2. ArchiveTypeOK'
  <2> DEFINE entry == [id |-> Head(work).id, candle |-> Raising]
  <2>1. entry \in Messages
    BY <1>1 DEF Messages
  <2>2. raw \in Seq(Messages) /\ Len(raw) <= RawCapacity /\ refused \in Nat
    BY DEF TypeOK, ArchiveTypeOK
  <2>3. \/ raw' = raw /\ refused' = refused
        \/ raw' = raw /\ refused' = refused + 1
        \/ ~(Len(raw) >= RawCapacity) /\ raw' = Append(raw, entry) /\ refused' = refused
    BY DEF RepairRaises, Capture, archive
  <2> HIDE DEF entry
  <2>4. Append(raw, entry) \in Seq(Messages) /\ Len(Append(raw, entry)) = Len(raw) + 1
    BY <2>1, <2>2
  <2> QED
    BY <2>2, <2>3, <2>4 DEF ArchiveTypeOK
<1>3. PipelineTypeOK'
  <2>1. emitted \in [{"live", "repair"} -> Seq(Event)] /\ forgotten \subseteq Slots
    BY DEF TypeOK, PipelineTypeOK
  <2>2. UNION {SlotsIn(queue[i]) : i \in DOMAIN queue} \subseteq Slots
    <3>1. queue \in Seq(Event)
      BY <2>1
    <3> HIDE DEF queue, Event
    <3>2. \A i \in DOMAIN queue : queue[i] \in Event
      BY <3>1
    <3> QED
      BY <3>2, EventsHaveSlots DEF Event
  <2>3. forgotten' \subseteq Slots
    BY <2>1, <2>2 DEF RepairRaises
  <2>4. emitted' \in [{"live", "repair"} -> Seq(Event)]
    <3>1. emitted' = [emitted EXCEPT !["repair"] = <<>>]
      BY DEF RepairRaises
    <3>2. <<>> \in Seq(Event)
      OBVIOUS
    <3> HIDE DEF Event
    <3> QED
      BY <2>1, <3>1, <3>2
  <2>5. UNCHANGED <<seen, last, since, evicted>> /\ accepted' = {}
    BY DEF RepairRaises
  <2> QED
    BY <2>3, <2>4, <2>5 DEF TypeOK, PipelineTypeOK
<1>4. RepairTypeOK'
  BY RepairRecords DEF RepairRaises, TypeOK, RepairTypeOK
<1>5. TablesTypeOK' /\ RelayTypeOK' /\ BoundsTypeOK'
  BY DEF RepairRaises, TypeOK, TablesTypeOK, RelayTypeOK, BoundsTypeOK, tables, relay, bounds
<1> QED
  BY <1>2, <1>3, <1>4, <1>5 DEF TypeOK

\* The end of a repair keeps every type.
LEMMA RepairEndsTyped ==
    ASSUME TypeOK, RepairEnds
    PROVE  TypeOK'
<1>1. TablesTypeOK' /\ outbox' = outbox
  <2>1. accepted \subseteq Slots
    BY DEF TypeOK, PipelineTypeOK
  <2> QED
    BY <2>1 DEF RepairEnds, MarkGap, TypeOK, TablesTypeOK, tables, Rows
<1>2. RepairTypeOK'
  BY RepairRecords DEF RepairEnds, TypeOK, RepairTypeOK
<1>3. PipelineTypeOK'
  BY DEF RepairEnds, TypeOK, PipelineTypeOK, pipeline
<1> QED
  BY <1>1, <1>2, <1>3 DEF RepairEnds, TypeOK, ArchiveTypeOK, RelayTypeOK, BoundsTypeOK,
     archive, relay, bounds

\* A non-empty set of rows has a first one.
LEMMA FirstRow ==
    ASSUME NEW rows \in SUBSET Nat, rows # {}
    PROVE  First(rows) \in rows /\ \A other \in rows : First(rows) <= other
<1> DEFINE less == OpToRel(<, Nat)
<1>1. IsWellFoundedOn(less, Nat)
  BY NatLessThanWellFounded
<1>2. \A x, y \in Nat : <<x, y>> \in less <=> x < y
  BY DEF OpToRel
<1> HIDE DEF less
<1>3. PICK row \in rows : \A other \in rows : <<other, row>> \notin less
  BY <1>1, WFMin
<1> DEFINE IsFirst(r) == \A other \in rows : r <= other
<1>4. IsFirst(row)
  <2>1. ASSUME NEW other \in rows PROVE row <= other
    <3>1. row \in Nat /\ other \in Nat
      OBVIOUS
    <3>2. ~(other < row)
      BY <1>2, <1>3, <3>1
    <3> QED
      BY <3>1, <3>2
  <2> QED
    BY <2>1
<1>5. First(rows) = CHOOSE r \in rows : IsFirst(r)
  BY DEF First
<1> HIDE DEF IsFirst
<1>6. First(rows) \in rows /\ IsFirst(First(rows))
  BY <1>4, <1>5
<1> QED
  BY <1>6 DEF IsFirst

\* A step of the relay keeps every type.
LEMMA RelayStepTyped ==
    ASSUME TypeOK, RelayStep
    PROVE  TypeOK'
<1>1. UNCHANGED <<candles, watermark, gaps, outbox, archive, memory, closed, bounds>>
  BY DEF RelayStep, Relay, RelayLists, RelayPublishes, RelayMarks, tables
<1>2. RelayTypeOK
  BY DEF TypeOK
<1>3. relayed' \subseteq Slots /\ RelayTypeOK'
  <2>1. outbox \in Seq(Candles) /\ relayed \subseteq Slots
    BY DEF TypeOK, TablesTypeOK
  <2>2. CASE RelayLists
    <3>1. listed' \subseteq DOMAIN outbox' /\ relayed' = relayed
      BY <1>1, <2>2 DEF RelayLists, Undelivered, tables
    <3>2. UNCHANGED <<published, delivered>>
      BY <2>2 DEF RelayLists
    <3> QED
      BY <1>2, <2>1, <3>1, <3>2 DEF RelayTypeOK
  <2>3. listed # {} => outbox[First(listed)] \in Candles
    BY <1>2, <2>1, FirstRow DEF RelayTypeOK
  <2>4. CASE RelayPublishes
    <3>1. delivered' \in Seq(Candles)
      BY <1>2, <2>3, <2>4 DEF RelayPublishes, RelayTypeOK
    <3>2. published' \in BOOLEAN
      BY <2>4 DEF RelayPublishes
    <3>3. UNCHANGED <<listed, relayed>>
      BY <2>4 DEF RelayPublishes, tables
    <3> QED
      BY <1>1, <1>2, <2>1, <3>1, <3>2, <3>3 DEF RelayTypeOK
  <2>5. CASE RelayMarks
    <3>1. relayed' \subseteq Slots
      BY <2>1, <2>3, <2>5 DEF RelayMarks, Candles
    <3>2. listed' \subseteq DOMAIN outbox'
      BY <1>1, <1>2, <2>5 DEF RelayMarks, RelayTypeOK
    <3>3. published' \in BOOLEAN
      BY <2>5 DEF RelayMarks
    <3>4. UNCHANGED delivered
      BY <2>5 DEF RelayMarks
    <3> QED
      BY <1>2, <3>1, <3>2, <3>3, <3>4 DEF RelayTypeOK
  <2> QED
    BY <2>2, <2>4, <2>5 DEF RelayStep, Relay
<1>4. TablesTypeOK'
  BY <1>1, <1>3 DEF TypeOK, TablesTypeOK
<1>5. PipelineTypeOK' /\ RepairTypeOK'
  BY <1>1 DEF TypeOK, PipelineTypeOK, RepairTypeOK, memory, pipeline
<1>6. ArchiveTypeOK' /\ BoundsTypeOK'
  BY <1>1 DEF TypeOK, ArchiveTypeOK, BoundsTypeOK, archive, bounds
<1> QED
  BY <1>3, <1>4, <1>5, <1>6 DEF TypeOK

\* A crash leaves a well-typed state.
LEMMA CrashTyped ==
    ASSUME TypeOK, Crash
    PROVE  TypeOK'
<1>1. TablesTypeOK' /\ ArchiveTypeOK' /\ BoundsTypeOK'
  BY DEF Crash, TypeOK, TablesTypeOK, ArchiveTypeOK, BoundsTypeOK, tables, archive
<1>2. RelayTypeOK'
  <2>1. listed' \subseteq DOMAIN outbox' /\ delivered' \in Seq(Candles)
    BY DEF Crash, TypeOK, RelayTypeOK
  <2>2. published' \in BOOLEAN
    BY DEF Crash
  <2> QED
    BY <2>1, <2>2 DEF RelayTypeOK
<1>3. PipelineTypeOK'
  <2>1. evicted' \in BOOLEAN
    BY DEF Crash, TypeOK, PipelineTypeOK
  <2>2. /\ seen' \in Seq(Candles) /\ Len(seen') <= DedupeSize
        /\ last' \in 0..MaxSlot /\ since' \in 0..MaxSlot /\ accepted' \subseteq Slots
        /\ forgotten' \subseteq Slots
    BY DEF Crash
  <2>3. emitted' \in [{"live", "repair"} -> Seq(Gaps \cup Candles)]
    BY DEF Crash
  <2> QED
    BY <2>1, <2>2, <2>3 DEF PipelineTypeOK
<1>4. RepairTypeOK'
  BY RepairRecords DEF Crash, RepairTypeOK
<1> QED
  BY <1>1, <1>2, <1>3, <1>4 DEF TypeOK

\* Every variable keeps its type.
THEOREM TypeCorrect == Spec => []TypeOK
<1>1. Init => TypeOK
  BY InitTyped
<1>2. TypeOK /\ [Next]_vars => TypeOK'
  <2> SUFFICES ASSUME TypeOK, [Next]_vars PROVE TypeOK'
    OBVIOUS
  <2>1. CASE CloseSlot
    <3>1. closed' \in 0..MaxSlot
      BY <2>1 DEF CloseSlot, TypeOK, BoundsTypeOK
    <3>2. TablesTypeOK' /\ ArchiveTypeOK' /\ RelayTypeOK'
      BY <2>1 DEF CloseSlot, TypeOK, TablesTypeOK, ArchiveTypeOK, RelayTypeOK,
         tables, archive, relay
    <3>3. PipelineTypeOK' /\ RepairTypeOK'
      BY <2>1 DEF CloseSlot, TypeOK, PipelineTypeOK, RepairTypeOK, memory, pipeline
    <3> QED
      BY <2>1, <3>1, <3>2, <3>3 DEF CloseSlot, TypeOK, BoundsTypeOK, bounds
  <2>2. CASE Frame
    BY <2>2, ReceiveTyped DEF Frame
  <2>3. CASE PersistLive \/ PersistRepair
    BY <2>3, PersistFirstTyped DEF PersistLive, PersistRepair
  <2>4. CASE StartRecovery
    BY <2>4, StartRecoveryTyped
  <2>5. CASE RepairFails
    <3>1. RepairTypeOK'
      BY <2>5, RepairRecords DEF RepairFails, TypeOK, RepairTypeOK
    <3>2. PipelineTypeOK'
      BY <2>5 DEF RepairFails, TypeOK, PipelineTypeOK, pipeline
    <3> QED
      BY <2>5, <3>1, <3>2 DEF RepairFails, TypeOK, TablesTypeOK, ArchiveTypeOK,
         RelayTypeOK, BoundsTypeOK, tables, archive, relay, bounds
  <2>6. CASE RepairProcesses \/ RepairRaises
    BY <2>6, RepairProcessesTyped, RepairRaisesTyped
  <2>7. CASE RepairEnds
    BY <2>7, RepairEndsTyped
  <2>8. CASE \E count \in 0..MaxSlot : RepairAnswered(count)
    BY <2>8, RepairAnsweredTyped
  <2>9. CASE RelayStep
    BY <2>9, RelayStepTyped
  <2>10. CASE Crash
    BY <2>10, CrashTyped
  <2>11. CASE UNCHANGED vars
    <3>1. TablesTypeOK' /\ ArchiveTypeOK' /\ RelayTypeOK'
      BY <2>11 DEF vars, TypeOK, TablesTypeOK, ArchiveTypeOK, RelayTypeOK,
         tables, archive, relay
    <3>2. PipelineTypeOK' /\ RepairTypeOK' /\ BoundsTypeOK'
      BY <2>11 DEF vars, TypeOK, PipelineTypeOK, RepairTypeOK, BoundsTypeOK, memory,
         pipeline, bounds
    <3> QED
      BY <3>1, <3>2 DEF TypeOK
  <2> QED
    BY <2>1, <2>2, <2>3, <2>4, <2>5, <2>6, <2>7, <2>8, <2>9, <2>10, <2>11 DEF Next
<1> QED
  BY <1>1, <1>2, PTL DEF Spec

-----------------------------------------------------------------------------
(* The tables *)

\* What only the transaction that stores a candle writes.
LEMMA OnlyPersistCandleStores ==
    ASSUME TypeOK, [Next]_vars
    PROVE  \/ UNCHANGED <<candles, watermark, outbox>>
           \/ \E candle \in Candles, who \in {"live", "repair"} :
                 /\ PersistFirst(who) /\ PersistCandle(candle)
                 /\ emitted[who] # <<>> /\ candle = Head(emitted[who])
<1> USE DEF tables
<1>1. ASSUME NEW who \in {"live", "repair"}, PersistFirst(who)
      PROVE  \/ UNCHANGED <<candles, watermark, outbox>>
             \/ \E candle \in Candles :
                   /\ PersistFirst(who) /\ PersistCandle(candle)
                   /\ emitted[who] # <<>> /\ candle = Head(emitted[who])
  <2> DEFINE event == Head(emitted[who])
  <2>1. CASE IsGap(event)
    BY <1>1, <2>1 DEF PersistFirst, RecordGap
  <2>2. CASE ~IsGap(event)
    <3>1. PersistCandle(event) /\ event \in Candles /\ emitted[who] # <<>>
      BY <1>1, <2>2, HeadIsEvent DEF PersistFirst, IsGap, TypeOK
    <3> QED
      BY <1>1, <3>1
  <2> QED
    BY <2>1, <2>2
<1>2. CASE PersistLive \/ PersistRepair
  BY <1>1, <1>2 DEF PersistLive, PersistRepair
<1>3. CASE CloseSlot
  BY <1>3 DEF CloseSlot
<1>4. CASE Frame
  BY <1>4 DEF Frame, Receive
<1>5. CASE StartRecovery
  BY <1>5 DEF StartRecovery, StartRepair
<1>6. CASE RepairFails
  BY <1>6 DEF RepairFails
<1>7. CASE RepairProcesses \/ RepairRaises
  BY <1>7 DEF RepairProcesses, RepairRaises
<1>8. CASE RepairEnds
  BY <1>8 DEF RepairEnds, MarkGap
<1>9. CASE \E count \in 0..MaxSlot : RepairAnswered(count)
  BY <1>9 DEF RepairAnswered
<1>10. CASE RelayStep
  BY <1>10 DEF RelayStep, Relay, RelayLists, RelayPublishes, RelayMarks
<1>11. CASE Crash
  BY <1>11 DEF Crash
<1>12. CASE UNCHANGED vars
  BY <1>12 DEF vars
<1> QED
  BY <1>2, <1>3, <1>4, <1>5, <1>6, <1>7, <1>8, <1>9, <1>10, <1>11, <1>12 DEF Next

\* A repeated candle changes nothing; a new one is written to all three tables.
LEMMA PersistCandleAgrees ==
    ASSUME TablesTypeOK, TablesAgree, NEW candle \in Candles, PersistCandle(candle)
    PROVE  TablesAgree'
<1> DEFINE s == candle.slot
<1>1. s \in Nat /\ watermark \in Nat /\ \A t \in DOMAIN candles : t \in Nat
  BY DEF Candles, Slots, TablesTypeOK
<1>2. InOutbox(s) <=> s \in DOMAIN candles
  BY DEF InOutbox, TablesAgree
<1>3. CASE s \in DOMAIN candles
  <2>1. candles' = candles
    <3>1. candles' = [t \in DOMAIN candles |-> candles[t]]
      BY <1>3 DEF PersistCandle, WithCandle
    <3> QED
      BY <3>1 DEF TablesTypeOK
  <2>2. watermark' = watermark /\ outbox' = outbox
    BY <1>1, <1>2, <1>3 DEF PersistCandle, TablesAgree
  <2> QED
    BY <2>1, <2>2 DEF TablesAgree
<1>4. CASE s \notin DOMAIN candles
  <2> DEFINE n == Len(outbox)
  <2>1. outbox \in Seq(Candles) /\ outbox' = Append(outbox, candle)
    BY <1>2, <1>4 DEF PersistCandle, TablesTypeOK
  <2>2. /\ n \in Nat /\ DOMAIN outbox = 1..n /\ DOMAIN outbox' = 1..(n + 1)
        /\ outbox'[n + 1] = candle /\ \A i \in 1..n : outbox'[i] = outbox[i]
    BY <2>1
  <2>3. /\ DOMAIN candles' = DOMAIN candles \cup {s} /\ candles'[s] = candle.content
        /\ \A t \in DOMAIN candles : candles'[t] = candles[t]
    BY <1>4 DEF PersistCandle, WithCandle
  <2>4. \A i \in 1..n : outbox[i].slot \in DOMAIN candles
    BY <2>2 DEF TablesAgree
  <2>5. {outbox'[i].slot : i \in DOMAIN outbox'} = DOMAIN candles'
    <3>1. DOMAIN candles = {outbox[i].slot : i \in 1..n}
      BY <2>2 DEF TablesAgree
    <3>2. 1..(n + 1) = (1..n) \cup {n + 1}
      BY <2>2
    <3> QED
      BY <2>2, <2>3, <3>1, <3>2
  <2>6. \A i \in DOMAIN outbox' : outbox'[i].content = candles'[outbox'[i].slot]
    <3>1. \A i \in 1..n : outbox[i].content = candles[outbox[i].slot]
      BY <2>2 DEF TablesAgree
    <3> QED
      BY <2>2, <2>3, <2>4, <3>1
  <2>7. \A i, j \in DOMAIN outbox' : outbox'[i].slot = outbox'[j].slot => i = j
    <3>1. \A i, j \in 1..n : outbox[i].slot = outbox[j].slot => i = j
      BY <2>2 DEF TablesAgree
    <3> QED
      BY <1>4, <2>2, <2>4, <3>1
  <2>8. watermark' \in DOMAIN candles' \cup {0} /\ \A t \in DOMAIN candles' : t <= watermark'
    <3>1. watermark' = IF s > watermark THEN s ELSE watermark
      BY DEF PersistCandle
    <3>2. watermark \in DOMAIN candles \cup {0} /\ \A t \in DOMAIN candles : t <= watermark
      BY DEF TablesAgree
    <3> QED
      BY <1>1, <2>3, <3>1, <3>2
  <2> QED
    BY <2>5, <2>6, <2>7, <2>8 DEF TablesAgree
<1> QED
  BY <1>3, <1>4

\* Empty tables agree.
LEMMA InitAgrees == Init => TablesAgree
BY DEF Init, StoreInit, TablesAgree

\* No step makes the tables disagree.
LEMMA StepAgrees == TypeOK /\ TablesAgree /\ [Next]_vars => TablesAgree'
<1> SUFFICES ASSUME TypeOK, TablesAgree, [Next]_vars PROVE TablesAgree'
  OBVIOUS
<1>1. CASE UNCHANGED <<candles, watermark, outbox>>
  BY <1>1 DEF TablesAgree
<1>2. CASE \E candle \in Candles : PersistCandle(candle)
  BY <1>2, PersistCandleAgrees DEF TypeOK
<1> QED
  BY <1>1, <1>2, OnlyPersistCandleStores

\* The outbox holds exactly the stored candles, each once, and the watermark is
\* the newest of them, whatever the order of live frames, repairs and crashes.
THEOREM TablesAlwaysAgree == Spec => []TablesAgree
BY InitAgrees, StepAgrees, TypeCorrect, PTL DEF Spec

-----------------------------------------------------------------------------
(* Recovered gaps *)

Covers(event, s) == s \in SlotsIn(event)

Coming(who, s) == \E i \in DOMAIN emitted[who] : Covers(emitted[who][i], s)

\* Slots that a repair has accepted are stored, or are still to be.  Needed
\* because recover() reports them before its caller has stored them.
AcceptedIsComing ==
    \A s \in accepted :
        \/ s \in DOMAIN candles
        \/ \E i \in DOMAIN emitted["repair"] :
              ~IsGap(emitted["repair"][i]) /\ emitted["repair"][i].slot = s

RecoveryInv == RecoveredIsStored /\ AcceptedIsComing

\* What the pipeline emits comes after what is waiting already.
LEMMA ProcessEmits ==
    ASSUME TypeOK, NEW message \in Messages, NEW who \in {"live", "repair"},
           Process(message, who), Accepts(message.candle)
    PROVE  LET emits == Emitted(message.candle) IN
           /\ \A other \in {"live", "repair"} : other # who => emitted'[other] = emitted[other]
           /\ Len(emitted'[who]) = Len(emitted[who]) + Len(emits)
           /\ Len(emitted[who]) \in Nat /\ Len(emits) \in Nat \ {0}
           /\ DOMAIN emitted[who] = 1..Len(emitted[who])
           /\ DOMAIN emitted'[who] = 1..(Len(emitted[who]) + Len(emits))
           /\ \A i \in 1..Len(emitted[who]) : emitted'[who][i] = emitted[who][i]
           /\ \A i \in 1..Len(emits) : emitted'[who][Len(emitted[who]) + i] = emits[i]
           /\ emits[Len(emits)] = message.candle
<1> DEFINE Event == Gaps \cup Candles
           emits == Emitted(message.candle)
<1>1. message.candle \in Candles
  BY DEF Messages
<1>2. emits \in Seq(Event) /\ emitted \in [{"live", "repair"} -> Seq(Event)]
  BY <1>1, PipelineValues DEF TypeOK, PipelineTypeOK
<1>3. emitted' = [emitted EXCEPT ![who] = @ \o emits]
  BY DEF Process
<1>4. Len(emits) \in {1, 2} /\ emits[Len(emits)] = message.candle
  <2>1. CASE SkipsSlots(message.candle)
    BY <2>1 DEF Emitted
  <2>2. CASE ~SkipsSlots(message.candle)
    BY <2>2 DEF Emitted
  <2> QED
    BY <2>1, <2>2
<1> HIDE DEF Event, emits
<1>5. emitted'[who] = emitted[who] \o emits /\ emitted[who] \in Seq(Event)
  BY <1>2, <1>3
<1>6. \A other \in {"live", "repair"} : other # who => emitted'[other] = emitted[other]
  BY <1>2, <1>3
<1>7. /\ Len(emitted[who]) \in Nat /\ DOMAIN emitted[who] = 1..Len(emitted[who])
      /\ Len(emitted'[who]) = Len(emitted[who]) + Len(emits)
      /\ DOMAIN emitted'[who] = 1..(Len(emitted[who]) + Len(emits))
  BY <1>2, <1>5
<1>8. /\ \A i \in 1..Len(emitted[who]) : emitted'[who][i] = emitted[who][i]
      /\ \A i \in 1..Len(emits) : emitted'[who][Len(emitted[who]) + i] = emits[i]
  BY <1>2, <1>4, <1>5
<1>9. Len(emits) \in Nat \ {0}
  BY <1>4
<1> QED
  BY <1>4, <1>6, <1>7, <1>8, <1>9 DEF emits

\* A slot accepted from REST is emitted by the same step.
LEMMA ProcessKeepsAccepted ==
    ASSUME TypeOK, AcceptedIsComing, NEW message \in Messages,
           Process(message, "repair"), UNCHANGED candles
    PROVE  AcceptedIsComing'
<1> DEFINE candle == message.candle
<1>1. candle \in Candles
  BY DEF Messages
<1>2. CASE Accepts(candle)
  <2> DEFINE emits == Emitted(candle)
             n == Len(emitted["repair"])
  <2>1. /\ n \in Nat /\ Len(emits) \in Nat \ {0} /\ DOMAIN emitted["repair"] = 1..n
        /\ DOMAIN emitted'["repair"] = 1..(n + Len(emits))
        /\ \A i \in 1..n : emitted'["repair"][i] = emitted["repair"][i]
        /\ emitted'["repair"][n + Len(emits)] = candle
    <3>1. LET e == Emitted(candle) IN
             /\ n \in Nat /\ Len(e) \in Nat \ {0} /\ DOMAIN emitted["repair"] = 1..n
             /\ DOMAIN emitted'["repair"] = 1..(n + Len(e))
             /\ \A i \in 1..n : emitted'["repair"][i] = emitted["repair"][i]
             /\ \A i \in 1..Len(e) : emitted'["repair"][n + i] = e[i]
             /\ e[Len(e)] = candle
      BY <1>2, ProcessEmits
    <3> HIDE DEF n, candle
    <3>2. Len(emits) \in 1..Len(emits)
      BY <3>1
    <3> QED
      BY <3>1, <3>2
  <2>2. ~IsGap(candle)
    BY <1>1, EventKinds
  <2>3. accepted' \subseteq accepted \cup {candle.slot}
    BY <1>2 DEF Process
  <2>4. SUFFICES ASSUME NEW s \in accepted', s \notin DOMAIN candles
                 PROVE  \E i \in DOMAIN emitted'["repair"] :
                           ~IsGap(emitted'["repair"][i]) /\ emitted'["repair"][i].slot = s
    BY DEF AcceptedIsComing, IsGap
  <2> HIDE DEF emits, n, candle
  <2>5. CASE s = candle.slot
    <3>1. n + Len(emits) \in DOMAIN emitted'["repair"]
      BY <2>1
    <3> QED
      BY <2>1, <2>2, <2>5, <3>1
  <2>6. CASE s \in accepted
    <3>1. PICK i \in DOMAIN emitted["repair"] :
              ~IsGap(emitted["repair"][i]) /\ emitted["repair"][i].slot = s
      BY <2>4, <2>6 DEF AcceptedIsComing
    <3>2. i \in DOMAIN emitted'["repair"] /\ emitted'["repair"][i] = emitted["repair"][i]
      BY <2>1, <3>1
    <3> QED
      BY <3>1, <3>2
  <2> QED
    BY <2>3, <2>5, <2>6
<1>3. CASE ~Accepts(candle)
  BY <1>3 DEF Process, pipeline, AcceptedIsComing, IsGap
<1> QED
  BY <1>2, <1>3

\* Only the head of a queue of events leaves it, and is stored or recorded.
LEMMA PersistFirstEvents ==
    ASSUME TypeOK, NEW who \in {"live", "repair"}, PersistFirst(who)
    PROVE  /\ \A other \in {"live", "repair"} : other # who => emitted'[other] = emitted[other]
           /\ \A i \in DOMAIN emitted[who] :
                 \/ i = 1
                 \/ i - 1 \in DOMAIN emitted'[who] /\ emitted'[who][i - 1] = emitted[who][i]
           /\ DOMAIN candles \subseteq DOMAIN candles' /\ DOMAIN gaps \subseteq DOMAIN gaps'
           /\ \/ IsGap(emitted[who][1]) /\ emitted[who][1] \in DOMAIN gaps'
              \/ ~IsGap(emitted[who][1]) /\ emitted[who][1].slot \in DOMAIN candles'
<1> DEFINE Event == Gaps \cup Candles
           event == Head(emitted[who])
<1>1. emitted \in [{"live", "repair"} -> Seq(Event)] /\ emitted[who] # <<>>
  BY DEF TypeOK, PipelineTypeOK, PersistFirst
<1>2. emitted' = [emitted EXCEPT ![who] = Tail(@)]
  BY DEF PersistFirst
<1>3. DOMAIN candles \subseteq DOMAIN candles' /\ DOMAIN gaps \subseteq DOMAIN gaps'
  <2>1. CASE IsGap(event)
    BY <2>1 DEF PersistFirst, RecordGap
  <2>2. CASE ~IsGap(event)
    BY <2>2 DEF PersistFirst, PersistCandle, WithCandle
  <2> QED
    BY <2>1, <2>2
<1>4. \/ IsGap(event) /\ event \in DOMAIN gaps'
      \/ ~IsGap(event) /\ event.slot \in DOMAIN candles'
  BY DEF PersistFirst, RecordGap, PersistCandle, WithCandle
<1> HIDE DEF Event
<1>5. event = emitted[who][1] /\ emitted[who] \in Seq(Event)
  BY <1>1
<1>6. emitted'[who] = Tail(emitted[who])
  BY <1>1, <1>2
<1>7. \A other \in {"live", "repair"} : other # who => emitted'[other] = emitted[other]
  BY <1>1, <1>2
<1>8. \A i \in DOMAIN emitted[who] :
          \/ i = 1
          \/ i - 1 \in DOMAIN emitted'[who] /\ emitted'[who][i - 1] = emitted[who][i]
  BY <1>1, <1>5, <1>6
<1> QED
  BY <1>3, <1>4, <1>5, <1>7, <1>8

\* A candle that leaves the queue of a repair is stored by the same step.
LEMMA PersistKeepsAccepted ==
    ASSUME TypeOK, AcceptedIsComing, NEW who \in {"live", "repair"}, PersistFirst(who)
    PROVE  AcceptedIsComing'
<1>1. accepted' = accepted
  BY DEF PersistFirst
<1>2. SUFFICES ASSUME NEW s \in accepted, s \notin DOMAIN candles'
               PROVE  \E i \in DOMAIN emitted'["repair"] :
                         ~IsGap(emitted'["repair"][i]) /\ emitted'["repair"][i].slot = s
  BY <1>1 DEF AcceptedIsComing, IsGap
<1>3. s \notin DOMAIN candles
  BY <1>2, PersistFirstEvents
<1>4. PICK i \in DOMAIN emitted["repair"] :
          ~IsGap(emitted["repair"][i]) /\ emitted["repair"][i].slot = s
  BY <1>2, <1>3 DEF AcceptedIsComing
<1>5. CASE who = "repair"
  <2>1. i # 1
    BY <1>2, <1>4, <1>5, PersistFirstEvents
  <2>2. i - 1 \in DOMAIN emitted'["repair"] /\ emitted'["repair"][i - 1] = emitted["repair"][i]
    BY <1>4, <1>5, <2>1, PersistFirstEvents
  <2> QED
    BY <1>4, <2>2
<1>6. CASE who # "repair"
  BY <1>4, <1>6, PersistFirstEvents
<1> QED
  BY <1>5, <1>6

\* No step loses a slot that the repair in progress has accepted.
LEMMA StepKeepsAccepted ==
    ASSUME TypeOK, AcceptedIsComing, [Next]_vars
    PROVE  AcceptedIsComing'
<1>1. ASSUME UNCHANGED <<candles, emitted, accepted>> PROVE AcceptedIsComing'
  BY <1>1 DEF AcceptedIsComing, IsGap
<1>2. CASE Frame
  <2>0. PICK slot \in Slots : \E candle \in Readings[slot]["websocket"] : Receive(slot, candle)
    BY <1>2 DEF Frame
  <2>1. PICK candle \in Readings[slot]["websocket"] : Receive(slot, candle)
    BY <2>0
  <2>2. UNCHANGED <<candles, accepted>>
    BY <2>1 DEF Receive, Process, tables
  <2>3. UNCHANGED emitted \/ emitted'["repair"] = emitted["repair"]
    BY <2>1 DEF Receive, Process, TypeOK, PipelineTypeOK, pipeline
  <2> QED
    BY <2>2, <2>3 DEF AcceptedIsComing, IsGap
<1>3. CASE PersistLive \/ PersistRepair
  BY <1>3, PersistKeepsAccepted DEF PersistLive, PersistRepair
<1>4. CASE RepairProcesses
  <2>1. Head(work) \in Messages
    BY <1>4 DEF RepairProcesses, TypeOK, RepairTypeOK
  <2> QED
    BY <1>4, <2>1, ProcessKeepsAccepted DEF RepairProcesses, tables
<1>5. CASE StartRecovery
  BY <1>5 DEF StartRecovery, StartRepair, AcceptedIsComing
<1>6. CASE Crash \/ RepairRaises
  BY <1>6 DEF Crash, RepairRaises, AcceptedIsComing
<1>7. CASE CloseSlot \/ RepairFails \/ RepairEnds
  BY <1>1, <1>7 DEF CloseSlot, RepairFails, RepairEnds, MarkGap, tables, memory
<1>8. CASE \E count \in 0..MaxSlot : RepairAnswered(count)
  BY <1>1, <1>8 DEF RepairAnswered, tables
<1>9. CASE RelayStep
  BY <1>1, <1>9 DEF RelayStep, Relay, RelayLists, RelayPublishes, RelayMarks, tables, memory
<1>10. CASE UNCHANGED vars
  BY <1>1, <1>10 DEF vars, tables, memory
<1> QED
  BY <1>2, <1>3, <1>4, <1>5, <1>6, <1>7, <1>8, <1>9, <1>10 DEF Next

\* Only the end of a repair settles a gap row, when its results are stored.
LEMMA StepKeepsRecovered ==
    ASSUME TypeOK, RecoveryInv, [Next]_vars
    PROVE  RecoveredIsStored'
<1>1. DOMAIN candles \subseteq DOMAIN candles'
  <2>1. CASE UNCHANGED candles
    BY <2>1
  <2>2. CASE \E candle \in Candles : PersistCandle(candle)
    BY <2>2 DEF PersistCandle, WithCandle
  <2> QED
    BY <2>1, <2>2, OnlyPersistCandleStores
<1>2. ASSUME UNCHANGED gaps PROVE RecoveredIsStored'
  BY <1>1, <1>2 DEF RecoveryInv, RecoveredIsStored
<1>3. CASE PersistLive \/ PersistRepair
  <2>1. PICK who \in {"live", "repair"} : PersistFirst(who)
    BY <1>3 DEF PersistLive, PersistRepair
  <2>2. CASE RecordGap(Head(emitted[who]))
    <3>1. \A gap \in DOMAIN gaps' : gaps'[gap].state = "recovered" =>
              gap \in DOMAIN gaps /\ gaps'[gap] = gaps[gap]
      BY <2>2 DEF RecordGap
    <3> QED
      BY <1>1, <3>1 DEF RecoveryInv, RecoveredIsStored
  <2>3. CASE PersistCandle(Head(emitted[who]))
    BY <1>2, <2>3 DEF PersistCandle
  <2> QED
    BY <2>1, <2>2, <2>3 DEF PersistFirst
<1>4. CASE RepairEnds
  <2>1. CASE repair.gap # NoGap /\ Repaired(repair.gap)
    <3>1. accepted \subseteq DOMAIN candles
      BY <1>4 DEF RepairEnds, RecoveryInv, AcceptedIsComing
    <3>2. repair.gap.from \in accepted
      BY <2>1 DEF Repaired
    <3>3. MarkGap(repair.gap, "recovered", accepted)
      BY <1>4, <2>1 DEF RepairEnds
    <3>4. \A gap \in DOMAIN gaps' : gap \in DOMAIN gaps
              /\ \/ gap = repair.gap /\ gaps'[gap].restored = accepted
                 \/ gaps'[gap] = gaps[gap]
      BY <3>3 DEF MarkGap
    <3> QED
      BY <1>1, <3>1, <3>2, <3>4 DEF RecoveryInv, RecoveredIsStored
  <2>2. CASE ~(repair.gap # NoGap /\ Repaired(repair.gap))
    BY <1>2, <1>4, <2>2 DEF RepairEnds, tables
  <2> QED
    BY <2>1, <2>2
<1>5. CASE CloseSlot \/ RepairFails \/ RepairProcesses \/ RepairRaises \/ Crash
  BY <1>2, <1>5 DEF CloseSlot, RepairFails, RepairProcesses, RepairRaises, Crash, tables
<1>6. CASE Frame
  BY <1>2, <1>6 DEF Frame, Receive, tables
<1>7. CASE StartRecovery
  BY <1>2, <1>7 DEF StartRecovery, StartRepair, tables
<1>8. CASE \E count \in 0..MaxSlot : RepairAnswered(count)
  BY <1>2, <1>8 DEF RepairAnswered, tables
<1>9. CASE RelayStep
  BY <1>2, <1>9 DEF RelayStep, Relay, RelayLists, RelayPublishes, RelayMarks, tables
<1>10. CASE UNCHANGED vars
  BY <1>2, <1>10 DEF vars, tables
<1> QED
  BY <1>3, <1>4, <1>5, <1>6, <1>7, <1>8, <1>9, <1>10 DEF Next

\* A row of a recovered gap names slots that are stored, the first one that was
\* missing among them (market_data_soak.py, _recover_detected_gap).
THEOREM RecoveredGapsAreStored == Spec => []RecoveredIsStored
<1>1. Init => RecoveryInv
  BY DEF Init, StoreInit, MemoryInit, RecoveryInv, RecoveredIsStored, AcceptedIsComing
<1>2. TypeOK /\ RecoveryInv /\ [Next]_vars => RecoveryInv'
  <2>1. ASSUME TypeOK, RecoveryInv, [Next]_vars PROVE RecoveryInv'
    BY <2>1, StepKeepsAccepted, StepKeepsRecovered DEF RecoveryInv
  <2> QED
    BY <2>1
<1>3. RecoveryInv => RecoveredIsStored
  BY DEF RecoveryInv
<1> QED
  BY <1>1, <1>2, <1>3, TypeCorrect, PTL DEF Spec

-----------------------------------------------------------------------------
(* Missing slots *)

Known(s) == Committed(s) \/ s \in forgotten \/ \E who \in {"live", "repair"} : Coming(who, s)

\* A process that has seen no candle remembers none: the first one it sees
\* starts the range it answers for.
StartsEmpty ==
    /\ since = 0 <=> last = 0
    /\ since = 0 => seen = <<>>

MissingInv == MissingIsRecorded /\ StartsEmpty

\* Known restates the conclusion of MissingIsRecorded, event by event.
LEMMA KnownIsOnItsWay == \A s : Known(s) <=> Committed(s) \/ OnItsWay(s) \/ s \in forgotten
BY DEF Known, Coming, Covers, SlotsIn, OnItsWay

\* Persisting an event moves its slots from the queue into the tables.
LEMMA PersistKeepsKnown ==
    ASSUME TypeOK, NEW who \in {"live", "repair"}, PersistFirst(who), NEW s, Known(s)
    PROVE  Known(s)'
<1>1. CASE Committed(s)
  BY <1>1, PersistFirstEvents DEF Known, Committed, SlotsOf
<1>2. ASSUME NEW other \in {"live", "repair"}, other # who, Coming(other, s)
      PROVE  Known(s)'
  BY <1>2, PersistFirstEvents DEF Known, Coming, Covers, SlotsIn, SlotsOf, IsGap
<1>3. CASE Coming(who, s)
  <2>1. PICK i \in DOMAIN emitted[who] : Covers(emitted[who][i], s)
    BY <1>3 DEF Coming
  <2>2. CASE i = 1
    <3>1. Committed(s)'
      BY <2>1, <2>2, PersistFirstEvents DEF Covers, SlotsIn, Committed, SlotsOf
    <3> QED
      BY <3>1 DEF Known
  <2>3. CASE i # 1
    <3>1. i - 1 \in DOMAIN emitted'[who] /\ emitted'[who][i - 1] = emitted[who][i]
      BY <2>1, <2>3, PersistFirstEvents
    <3> QED
      BY <2>1, <3>1 DEF Known, Coming, Covers, SlotsIn, SlotsOf, IsGap
  <2> QED
    BY <2>2, <2>3
<1>4. forgotten' = forgotten
  BY DEF PersistFirst, pipeline
<1> QED
  BY <1>1, <1>2, <1>3, <1>4 DEF Known

\* What the pipeline emits covers every slot between the last and the new one.
LEMMA EmittedCovers ==
    ASSUME PipelineTypeOK, NEW candle \in Candles, last # 0,
           NEW s \in (last + 1)..candle.slot
    PROVE  \E i \in 1..Len(Emitted(candle)) : Covers(Emitted(candle)[i], s)
<1>1. last \in Nat /\ candle.slot \in Slots /\ s \in Nat
  BY DEF PipelineTypeOK, Candles, Slots
<1>2. ~IsGap(candle)
  BY EventKinds
<1>3. CASE SkipsSlots(candle)
  <2> DEFINE gap == [from |-> last + 1, to |-> candle.slot]
  <2>1. gap \in Gaps
    BY <1>1, <1>3 DEF SkipsSlots, Gaps, Slots, PipelineTypeOK
  <2>2. Emitted(candle) = <<gap, candle>>
    BY <1>3 DEF Emitted
  <2>3. s \in SlotsOf(gap) \/ s = candle.slot
    BY <1>1 DEF SlotsOf, Slots
  <2>4. Covers(gap, s) \/ Covers(candle, s)
    BY <1>2, <2>1, <2>3 DEF Covers, SlotsIn, IsGap
  <2> HIDE DEF gap
  <2> QED
    BY <2>2, <2>4
<1>4. CASE ~SkipsSlots(candle)
  <2>1. Emitted(candle) = <<candle>> /\ s = candle.slot
    BY <1>1, <1>4 DEF Emitted, SkipsSlots, Slots
  <2>2. Covers(candle, s)
    BY <1>2, <2>1 DEF Covers, SlotsIn
  <2> QED
    BY <2>1, <2>2
<1> QED
  BY <1>3, <1>4

\* A processed message leaves no slot behind: what the pipeline emits covers
\* the whole range it has moved over.
LEMMA ProcessKeepsMissing ==
    ASSUME TypeOK, MissingInv, NEW message \in Messages, NEW who \in {"live", "repair"},
           Process(message, who), UNCHANGED tables
    PROVE  MissingInv'
<1> DEFINE candle == message.candle
           n == Len(emitted[who])
           emits == Emitted(candle)
<1>1. candle \in Candles /\ candle.slot \in Nat \ {0} /\ last \in Nat /\ since \in Nat
  BY DEF Messages, Candles, Slots, TypeOK, PipelineTypeOK
<1>3. CASE ~Accepts(candle)
  <2>1. UNCHANGED <<seen, last, since, forgotten, emitted>>
    BY <1>3 DEF Process, pipeline
  <2>2. MissingIsRecorded'
    BY <2>1 DEF MissingInv, MissingIsRecorded, Committed, OnItsWay, SlotsIn, SlotsOf, IsGap, tables
  <2> QED
    BY <2>1, <2>2 DEF MissingInv, StartsEmpty
<1>4. CASE Accepts(candle)
  <2>0. since' = IF since = 0 THEN candle.slot ELSE since
    BY <1>4 DEF Process
  <2>1. last' = IF candle.slot > last THEN candle.slot ELSE last
    BY <1>4 DEF Process, Remember, NewestWith
  <2>2. StartsEmpty'
    BY <1>1, <2>0, <2>1 DEF MissingInv, StartsEmpty
  <2>3. /\ n \in Nat /\ Len(emits) \in Nat \ {0}
        /\ DOMAIN emitted[who] = 1..n
        /\ DOMAIN emitted'[who] = 1..(n + Len(emits))
        /\ \A other \in {"live", "repair"} : other # who => emitted'[other] = emitted[other]
        /\ \A i \in 1..n : emitted'[who][i] = emitted[who][i]
        /\ \A i \in 1..Len(emits) : emitted'[who][n + i] = emits[i]
        /\ emits[Len(emits)] = candle
    BY <1>4, ProcessEmits
  <2>4. ASSUME NEW s, Known(s) PROVE Known(s)'
    <3>1. CASE Committed(s)
      BY <3>1 DEF Known, Committed, SlotsOf, tables
    <3>2. ASSUME NEW other \in {"live", "repair"}, Coming(other, s) PROVE Known(s)'
      <4>1. PICK i \in DOMAIN emitted[other] : Covers(emitted[other][i], s)
        BY <3>2 DEF Coming
      <4>2. i \in DOMAIN emitted'[other] /\ emitted'[other][i] = emitted[other][i]
        <5> HIDE DEF emits, n
        <5>1. CASE other = who
          BY <2>3, <5>1
        <5>2. CASE other # who
          BY <2>3, <5>2
        <5> QED
          BY <5>1, <5>2
      <4> QED
        BY <4>1, <4>2 DEF Known, Coming, Covers, SlotsIn, SlotsOf, IsGap
    <3>3. forgotten' = forgotten
      BY <1>4 DEF Process
    <3> QED
      BY <2>4, <3>1, <3>2, <3>3 DEF Known
  <2>5. ASSUME NEW s, NEW i \in 1..Len(emits), Covers(emits[i], s) PROVE Known(s)'
    <3> HIDE DEF emits, n
    <3>1. n + i \in DOMAIN emitted'[who] /\ emitted'[who][n + i] = emits[i]
      BY <2>3
    <3> QED
      BY <2>5, <3>1 DEF Known, Coming, Covers, SlotsIn, SlotsOf, IsGap
  <2>6. ASSUME NEW s \in since'..last' PROVE Known(s)'
    <3>1. CASE since = 0
      <4>1. s = candle.slot
        <5>1. last = 0
          BY <3>1 DEF MissingInv, StartsEmpty
        <5>2. since' = candle.slot /\ last' = candle.slot
          BY <1>1, <2>0, <2>1, <3>1, <5>1
        <5> HIDE DEF candle
        <5> QED
          BY <1>1, <2>6, <5>2
      <4>2. Covers(candle, s)
        BY <1>1, <4>1, EventKinds DEF Covers, SlotsIn
      <4> QED
        BY <2>3, <2>5, <4>2
    <3>2. CASE since # 0 /\ s <= last
      <4>1. Known(s)
        BY <1>1, <2>0, <2>6, <3>2, KnownIsOnItsWay DEF MissingInv, MissingIsRecorded
      <4> QED
        BY <2>4, <4>1
    <3>3. CASE since # 0 /\ s > last
      <4>1. last # 0 /\ s \in (last + 1)..candle.slot
        BY <1>1, <2>0, <2>1, <2>6, <3>3 DEF MissingInv, StartsEmpty
      <4>2. PipelineTypeOK
        BY DEF TypeOK
      <4>3. \E i \in 1..Len(Emitted(candle)) : Covers(Emitted(candle)[i], s)
        <5> HIDE DEF candle
        <5> QED
          BY <1>1, <4>1, <4>2, EmittedCovers
      <4> QED
        BY <2>5, <4>3
    <3>4. s <= last \/ s > last
      BY <1>1, <2>0, <2>1, <2>6
    <3> QED
      BY <3>1, <3>2, <3>3, <3>4
  <2>7. MissingIsRecorded'
    <3>1. \A s : Known(s)' => Committed(s)' \/ OnItsWay(s)' \/ s \in forgotten'
      BY DEF Known, Coming, Covers, SlotsIn, OnItsWay, Committed, SlotsOf, IsGap
    <3> QED
      BY <2>6, <3>1 DEF MissingIsRecorded
  <2> QED
    BY <2>2, <2>7 DEF MissingInv
<1> QED
  BY <1>3, <1>4

\* Persisting an event leaves no slot behind.
LEMMA PersistKeepsMissing ==
    ASSUME TypeOK, MissingInv, NEW who \in {"live", "repair"}, PersistFirst(who)
    PROVE  MissingInv'
<1>1. UNCHANGED <<seen, last, since, forgotten>>
  BY DEF PersistFirst, pipeline
<1>2. ASSUME since # 0, NEW s \in since..last PROVE Known(s)'
  BY <1>2, PersistKeepsKnown, KnownIsOnItsWay DEF MissingInv, MissingIsRecorded
<1>3. \A s : Known(s)' => Committed(s)' \/ OnItsWay(s)' \/ s \in forgotten'
  BY DEF Known, Coming, Covers, SlotsIn, OnItsWay, Committed, SlotsOf, IsGap
<1> QED
  BY <1>1, <1>2, <1>3 DEF MissingInv, MissingIsRecorded, StartsEmpty

\* The slots an exception discards are remembered as forgotten.
LEMMA RaisingForgets ==
    ASSUME TypeOK, MissingInv, RepairRaises
    PROVE  MissingInv'
<1>1. /\ UNCHANGED <<seen, last, since, candles, gaps>>
      /\ emitted' = [emitted EXCEPT !["repair"] = <<>>]
      /\ forgotten' = forgotten \cup
                         UNION {SlotsIn(emitted["repair"][i]) : i \in DOMAIN emitted["repair"]}
  BY DEF RepairRaises, tables
<1>2. emitted'["live"] = emitted["live"]
  BY <1>1 DEF TypeOK, PipelineTypeOK
<1>3. ASSUME NEW s, Known(s) PROVE Known(s)'
  <2>1. CASE Committed(s) \/ s \in forgotten
    BY <1>1, <2>1 DEF Known, Committed, SlotsOf
  <2>2. CASE Coming("live", s)
    BY <1>2, <2>2 DEF Known, Coming, Covers, SlotsIn, SlotsOf, IsGap
  <2>3. CASE Coming("repair", s)
    <3>1. s \in forgotten'
      BY <1>1, <2>3 DEF Coming, Covers, SlotsIn
    <3> QED
      BY <3>1 DEF Known
  <2> QED
    BY <1>3, <2>1, <2>2, <2>3 DEF Known
<1>4. \A s : Known(s)' => Committed(s)' \/ OnItsWay(s)' \/ s \in forgotten'
  BY DEF Known, Coming, Covers, OnItsWay, SlotsIn, Committed, SlotsOf, IsGap
<1>5. ASSUME since # 0, NEW s \in since..last PROVE Known(s)'
  BY <1>3, <1>5, KnownIsOnItsWay DEF MissingInv, MissingIsRecorded
<1> QED
  BY <1>1, <1>4, <1>5 DEF MissingInv, MissingIsRecorded, StartsEmpty

\* No step leaves a slot behind.
LEMMA StepKeepsMissing ==
    ASSUME TypeOK, MissingInv, [Next]_vars
    PROVE  MissingInv'
<1>1. ASSUME UNCHANGED <<candles, gaps, seen, last, since, forgotten, emitted>> PROVE MissingInv'
  BY <1>1 DEF MissingInv, MissingIsRecorded, StartsEmpty, Committed, OnItsWay, SlotsIn, SlotsOf, IsGap
<1>2. CASE Frame
  <2>0. PICK slot \in Slots : \E candle \in Readings[slot]["websocket"] : Receive(slot, candle)
    BY <1>2 DEF Frame
  <2>1. PICK candle \in Readings[slot]["websocket"] : Receive(slot, candle)
    BY <2>0
  <2>2. CASE Gated
    BY <1>1, <2>1, <2>2 DEF Receive, pipeline, tables
  <2>3. CASE ~Gated
    <3> DEFINE message == [id |-> <<"websocket", frames + 1>>, candle |-> candle]
    <3>1. message \in Messages
      <4>1. candle \in Candles
        BY CandlesOfSlots DEF Sources
      <4>2. <<"websocket", frames + 1>> \in Sources \X Nat
        BY DEF TypeOK, BoundsTypeOK, Sources
      <4> QED
        BY <4>1, <4>2 DEF Messages
    <3>2. Process(message, "live") /\ UNCHANGED tables
      BY <2>1, <2>3 DEF Receive
    <3> QED
      BY <3>1, <3>2, ProcessKeepsMissing
  <2> QED
    BY <2>2, <2>3
<1>3. CASE PersistLive \/ PersistRepair
  BY <1>3, PersistKeepsMissing DEF PersistLive, PersistRepair
<1>4. CASE RepairProcesses
  <2>1. Head(work) \in Messages
    BY <1>4 DEF RepairProcesses, TypeOK, RepairTypeOK
  <2> QED
    BY <1>4, <2>1, ProcessKeepsMissing DEF RepairProcesses
<1>5. CASE Crash
  BY <1>5 DEF Crash, MissingInv, MissingIsRecorded, StartsEmpty
<1>6. CASE RepairEnds
  <2>1. DOMAIN gaps' = DOMAIN gaps /\ UNCHANGED <<candles, seen, last, since, forgotten, emitted>>
    BY <1>6 DEF RepairEnds, MarkGap, tables, pipeline
  <2> QED
    BY <2>1 DEF MissingInv, MissingIsRecorded, StartsEmpty, Committed, OnItsWay, SlotsIn, SlotsOf, IsGap
<1>7. CASE CloseSlot \/ RepairFails
  BY <1>1, <1>7 DEF CloseSlot, RepairFails, tables, memory, pipeline
<1>8. CASE \E count \in 0..MaxSlot : RepairAnswered(count)
  BY <1>1, <1>8 DEF RepairAnswered, tables, pipeline
<1>9. CASE StartRecovery
  BY <1>1, <1>9 DEF StartRecovery, StartRepair, tables, pipeline
<1>10. CASE RelayStep
  BY <1>1, <1>10 DEF RelayStep, Relay, RelayLists, RelayPublishes, RelayMarks, tables, memory,
     pipeline
<1>11. CASE UNCHANGED vars
  BY <1>1, <1>11 DEF vars, tables, memory, pipeline
<1>12. CASE RepairRaises
  BY <1>12, RaisingForgets
<1> QED
  BY <1>2, <1>3, <1>4, <1>5, <1>6, <1>7, <1>8, <1>9, <1>10, <1>11, <1>12 DEF Next

\* A slot this process has passed is stored, or missing in a gap row, or about
\* to become one of the two, unless an exception out of recover() discarded it.
THEOREM NoSlotIsForgotten == Spec => []MissingIsRecorded
<1>1. Init => MissingInv
  BY DEF Init, MemoryInit, MissingInv, MissingIsRecorded, StartsEmpty
<1>2. TypeOK /\ MissingInv /\ [Next]_vars => MissingInv'
  <2>1. ASSUME TypeOK, MissingInv, [Next]_vars PROVE MissingInv'
    BY <2>1, StepKeepsMissing
  <2> QED
    BY <2>1
<1>3. MissingInv => MissingIsRecorded
  BY DEF MissingInv
<1> QED
  BY <1>1, <1>2, <1>3, TypeCorrect, PTL DEF Spec

-----------------------------------------------------------------------------
(* Publication *)

Reached(i) == \E k \in DOMAIN delivered : delivered[k] = outbox[i]

\* A row counts as relayed only when it has reached the consumers, a pass works
\* through its rows in order and leaves none before them out, and no row is
\* relayed before it is there.
PublishInv ==
    /\ \A i \in DOMAIN outbox : outbox[i].slot \in relayed => Reached(i)
    /\ \A row \in listed : \A j \in 1..(row - 1) : j \in listed \/ outbox[j].slot \in relayed
    /\ published => listed # {} /\ Reached(First(listed))
    /\ relayed \subseteq DOMAIN candles

\* Before anything is stored, nothing is relayed.
LEMMA InitPublishes == Init => PublishInv
BY DEF Init, StoreInit, PublishInv

\* A new row goes to the end, and is neither listed nor relayed.
LEMMA CommitKeepsPublished ==
    ASSUME TypeOK, TablesAgree, PublishInv, NEW candle \in Candles, PersistCandle(candle),
           UNCHANGED relay
    PROVE  PublishInv' /\ [Promise!Next]_<<outbox, delivered>>
<1> USE DEF relay
<1>1. outbox \in Seq(Candles) /\ listed \subseteq DOMAIN outbox
  BY DEF TypeOK, TablesTypeOK, RelayTypeOK
<1>2. relayed' = relayed /\ relayed' \subseteq DOMAIN candles'
  BY DEF PersistCandle, WithCandle, PublishInv
<1>3. CASE InOutbox(candle.slot)
  <2>1. UNCHANGED <<outbox, relayed, listed, published, delivered>>
    BY <1>2, <1>3 DEF PersistCandle
  <2> QED
    BY <1>2, <2>1 DEF PublishInv, Reached
<1>4. CASE ~InOutbox(candle.slot)
  <2> DEFINE n == Len(outbox)
  <2>1. outbox' = Append(outbox, candle)
    BY <1>4 DEF PersistCandle
  <2>2. /\ n \in Nat /\ DOMAIN outbox = 1..n /\ DOMAIN outbox' = 1..(n + 1)
        /\ outbox'[n + 1] = candle /\ \A i \in 1..n : outbox'[i] = outbox[i]
    BY <1>1, <2>1
  <2>3. candle.slot \notin relayed
    <3>1. \A i \in DOMAIN outbox : outbox[i].slot # candle.slot
      BY <1>4 DEF InOutbox
    <3>2. candle.slot \notin DOMAIN candles
      BY <3>1 DEF TablesAgree
    <3> QED
      BY <3>2 DEF PublishInv
  <2>4. \A i \in 1..n : Reached(i) => Reached(i)'
    BY <2>2 DEF Reached
  <2>5. \A i \in DOMAIN outbox' : outbox'[i].slot \in relayed' => Reached(i)'
    <3>1. \A i \in 1..n : outbox[i].slot \in relayed => Reached(i)
      BY <2>2 DEF PublishInv
    <3> QED
      BY <1>2, <2>2, <2>3, <2>4, <3>1
  <2>6. \A row \in listed' : \A j \in 1..(row - 1) :
            j \in listed' \/ outbox'[j].slot \in relayed'
    <3>1. ASSUME NEW row \in listed, NEW j \in 1..(row - 1)
          PROVE  j \in listed \/ outbox'[j].slot \in relayed
      <4>1. j \in 1..n
        BY <1>1, <2>2
      <4> QED
        BY <2>2, <4>1 DEF PublishInv
    <3> QED
      BY <1>2, <3>1
  <2>7. published' => listed' # {} /\ Reached(First(listed))'
    <3>1. listed # {} => First(listed) \in 1..n
      BY <1>1, <2>2, FirstRow
    <3>2. published => listed # {} /\ Reached(First(listed))'
      <4>1. ASSUME NEW i \in 1..n, Reached(i) PROVE \E k \in DOMAIN delivered : delivered[k] = outbox'[i]
        BY <2>2, <4>1 DEF Reached
      <4> QED
        BY <3>1, <4>1 DEF PublishInv, Reached
    <3> QED
      BY <3>2
  <2>8. Promise!Commit(candle)
    BY <1>4, <2>1 DEF Promise!Commit, InOutbox
  <2> QED
    BY <1>2, <2>5, <2>6, <2>7, <2>8 DEF PublishInv, Promise!Next
<1> QED
  BY <1>3, <1>4

\* The first listed row is due: every row before it has reached the consumers.
LEMMA FirstIsDue ==
    ASSUME TypeOK, PublishInv, listed # {}
    PROVE  /\ First(listed) \in listed /\ First(listed) \in DOMAIN outbox
           /\ \A j \in 1..(First(listed) - 1) : Reached(j)
<1> DEFINE row == First(listed)
<1>1. outbox \in Seq(Candles) /\ listed \subseteq DOMAIN outbox
  BY DEF TypeOK, TablesTypeOK, RelayTypeOK
<1>2. /\ Len(outbox) \in Nat /\ DOMAIN outbox = 1..Len(outbox)
      /\ listed \in SUBSET Nat
  BY <1>1
<1>3. row \in listed /\ \A other \in listed : row <= other
  BY <1>2, FirstRow
<1> HIDE DEF row
<1>4. ASSUME NEW j \in 1..(row - 1) PROVE Reached(j)
  <2>1. row \in 1..Len(outbox)
    BY <1>1, <1>2, <1>3
  <2>2. j \in 1..Len(outbox) /\ j < row
    BY <2>1
  <2>3. j \notin listed
    BY <1>3, <2>1, <2>2
  <2>4. outbox[j].slot \in relayed
    BY <1>3, <2>3 DEF PublishInv
  <2> QED
    BY <1>2, <2>2, <2>4 DEF PublishInv
<1> QED
  BY <1>1, <1>3, <1>4 DEF row

\* Each step of a relay pass is a delivery that is due, or invisible.
LEMMA RelayKeepsPublished ==
    ASSUME TypeOK, TablesAgree, PublishInv, RelayStep
    PROVE  PublishInv' /\ [Promise!Next]_<<outbox, delivered>>
<1>1. UNCHANGED <<candles, outbox>>
  BY DEF RelayStep, Relay, RelayLists, RelayPublishes, RelayMarks, tables
<1>2. CASE RelayLists
  <2>1. UNCHANGED <<relayed, published, delivered>> /\ listed' = Undelivered
    BY <1>2 DEF RelayLists, tables
  <2>2. listed' \in SUBSET Nat /\ listed' # {}
    BY <1>2 DEF RelayLists, Undelivered, TypeOK, TablesTypeOK
  <2>3. \A row \in listed' : \A j \in 1..(row - 1) : j \in listed' \/ outbox[j].slot \in relayed
    BY <2>1 DEF Undelivered, TypeOK, TablesTypeOK
  <2>4. ~published
    BY <1>2 DEF RelayLists, PublishInv
  <2> QED
    BY <1>1, <2>1, <2>3, <2>4 DEF PublishInv, Reached
<1>3. CASE RelayPublishes
  <2> DEFINE row == First(listed)
  <2>1. UNCHANGED <<listed, relayed>> /\ delivered' = Append(delivered, outbox[row])
    BY <1>3 DEF RelayPublishes, tables
  <2>2. delivered \in Seq(Candles) /\ outbox \in Seq(Candles)
    BY DEF TypeOK, TablesTypeOK, RelayTypeOK
  <2>3. row \in DOMAIN outbox /\ \A j \in 1..(row - 1) : Reached(j)
    BY <1>3, FirstIsDue DEF RelayPublishes
  <2>4. outbox[row] \in Candles /\ row' = row /\ row \in listed
    BY <1>3, <2>1, <2>2, <2>3, FirstIsDue DEF RelayPublishes
  <2> HIDE DEF row
  <2>5. /\ \A k \in DOMAIN delivered : k \in DOMAIN delivered' /\ delivered'[k] = delivered[k]
        /\ \E k \in DOMAIN delivered' : delivered'[k] = outbox[row]
    BY <2>1, <2>2, <2>4
  <2>6. Reached(row)' /\ \A i : Reached(i) => Reached(i)'
    BY <1>1, <2>4, <2>5 DEF Reached
  <2>7. PublishInv'
    <3>1. \A i \in DOMAIN outbox : outbox[i].slot \in relayed => Reached(i)'
      BY <2>6 DEF PublishInv
    <3>2. published' => listed' # {} /\ Reached(First(listed))'
      BY <2>1, <2>4, <2>6 DEF row
    <3> QED
      BY <1>1, <2>1, <3>1, <3>2 DEF PublishInv
  <2>8. Promise!Deliver(row)
    BY <1>1, <2>1, <2>3 DEF Promise!Deliver, Promise!Delivered, Promise!Range, Reached
  <2> QED
    BY <2>3, <2>7, <2>8 DEF Promise!Next
<1>4. CASE RelayMarks
  <2> DEFINE row == First(listed)
  <2>1. /\ relayed' = relayed \cup {outbox[row].slot} /\ listed' = listed \ {row}
        /\ published' = FALSE /\ UNCHANGED delivered /\ listed # {} /\ published
    BY <1>4 DEF RelayMarks
  <2>2. row \in DOMAIN outbox /\ Reached(row)
    BY <2>1, FirstIsDue DEF PublishInv
  <2> HIDE DEF row
  <2>3. outbox[row].slot \in DOMAIN candles
    BY <2>2 DEF TablesAgree
  <2>4. \A i \in DOMAIN outbox : outbox[i].slot \in relayed' => Reached(i)
    BY <2>1, <2>2 DEF TablesAgree, PublishInv
  <2>5. \A other \in listed' : \A j \in 1..(other - 1) :
            j \in listed' \/ outbox[j].slot \in relayed'
    BY <2>1 DEF PublishInv
  <2>6. relayed' \subseteq DOMAIN candles
    BY <2>1, <2>3 DEF PublishInv
  <2>7. PublishInv'
    BY <1>1, <2>1, <2>4, <2>5, <2>6 DEF PublishInv, Reached
  <2> QED
    BY <1>1, <2>1, <2>7
<1> QED
  BY <1>2, <1>3, <1>4 DEF RelayStep, Relay

\* Every step is a commit, a delivery that is due, or invisible.
LEMMA StepPublishes ==
    ASSUME TypeOK, TablesAgree, PublishInv, [Next]_vars
    PROVE  PublishInv' /\ [Promise!Next]_<<outbox, delivered>>
<1>1. ASSUME UNCHANGED <<candles, outbox, relayed>>, UNCHANGED relay
      PROVE  PublishInv' /\ [Promise!Next]_<<outbox, delivered>>
  BY <1>1 DEF PublishInv, Reached, relay
<1>2. CASE PersistLive \/ PersistRepair
  <2>1. PICK who \in {"live", "repair"} : PersistFirst(who)
    BY <1>2 DEF PersistLive, PersistRepair
  <2> DEFINE event == Head(emitted[who])
  <2>2. CASE IsGap(event)
    BY <1>1, <2>1, <2>2 DEF PersistFirst, RecordGap
  <2>3. CASE ~IsGap(event)
    <3>1. PersistCandle(event) /\ event \in Candles /\ UNCHANGED relay
      BY <2>1, <2>3, HeadIsEvent DEF PersistFirst, IsGap, TypeOK
    <3> QED
      BY <3>1, CommitKeepsPublished
  <2> QED
    BY <2>2, <2>3
<1>3. CASE RelayStep
  BY <1>3, RelayKeepsPublished
<1>4. CASE Crash
  <2>1. /\ UNCHANGED <<candles, outbox, relayed, delivered>>
        /\ listed' = {} /\ published' = FALSE
    BY <1>4 DEF Crash, tables
  <2> QED
    BY <2>1 DEF PublishInv, Reached
<1>5. CASE CloseSlot \/ RepairFails \/ RepairProcesses \/ RepairRaises
  BY <1>1, <1>5 DEF CloseSlot, RepairFails, RepairProcesses, RepairRaises, tables
<1>6. CASE RepairEnds
  BY <1>1, <1>6 DEF RepairEnds, MarkGap, tables
<1>7. CASE Frame
  BY <1>1, <1>7 DEF Frame, Receive, tables
<1>8. CASE StartRecovery
  BY <1>1, <1>8 DEF StartRecovery, StartRepair, tables
<1>9. CASE \E count \in 0..MaxSlot : RepairAnswered(count)
  BY <1>1, <1>9 DEF RepairAnswered, tables
<1>10. CASE UNCHANGED vars
  BY <1>1, <1>10 DEF vars, tables
<1> QED
  BY <1>2, <1>3, <1>4, <1>5, <1>6, <1>7, <1>8, <1>9, <1>10 DEF Next

\* The safety half of the promise to consumers: each slot is committed once, and
\* consumers first get the events in the order of the commits.
THEOREM PublicationIsSafe == Spec => Promise!Safe
<1>1. Init => Promise!Init
  BY DEF Init, StoreInit, Promise!Init
<1>2. TypeOK /\ TablesAgree /\ PublishInv /\ [Next]_vars => PublishInv'
  <2>1. ASSUME TypeOK, TablesAgree, PublishInv, [Next]_vars PROVE PublishInv'
    BY <2>1, StepPublishes
  <2> QED
    BY <2>1
<1>3. TypeOK /\ TablesAgree /\ PublishInv /\ [Next]_vars => [Promise!Next]_(Promise!log)
  <2>1. ASSUME TypeOK, TablesAgree, PublishInv, [Next]_vars
        PROVE  [Promise!Next]_<<outbox, delivered>>
    BY <2>1, StepPublishes
  <2> QED
    BY <2>1 DEF Promise!log
<1> QED
  BY <1>1, <1>2, <1>3, InitPublishes, TypeCorrect, TablesAlwaysAgree, PTL DEF Spec, Promise!Safe

-----------------------------------------------------------------------------
(* The archive *)

Pristine == crashes = 0 /\ refused = 0 /\ ~evicted

\* The number in a message ID has been given out by this process.
Issued(id) ==
    IF id[1] = "websocket" THEN id[2] \in 1..frames ELSE id[2] \in 1..sequence

\* Messages still to be processed, none of which the archive knows.
Waiting(messages) ==
    /\ \A i \in DOMAIN messages : Issued(messages[i].id) /\ ~Archived(messages[i].id)
    /\ \A i, j \in DOMAIN messages : messages[i].id = messages[j].id => i = j

IdsAreFresh ==
    /\ \A i \in DOMAIN raw : Issued(raw[i].id)
    /\ Waiting(buffer) /\ Waiting(work)
    /\ \A i \in DOMAIN buffer : buffer[i].id[1] = "websocket"
    /\ repair.phase # "processing" => work = <<>>
    /\ repair.phase = "processing" => buffer = <<>>

\* The candle of the first message of the archive that gives one for its slot.
IsFirst(candle) ==
    /\ candle \notin NoEvent
    /\ \E i \in DOMAIN raw :
          raw[i].candle = candle /\ \A j \in 1..(i - 1) : ~Usable(j, candle.slot)

ArchivedIsSeen ==
    \A i \in DOMAIN raw :
        raw[i].candle \in NoEvent \/ \E k \in DOMAIN seen : seen[k].slot = raw[i].candle.slot

EmittedIsFirst ==
    \A who \in {"live", "repair"} : \A i \in DOMAIN emitted[who] :
        ~IsGap(emitted[who][i]) => IsFirst(emitted[who][i])

StoredIsFirst == \A s \in DOMAIN candles : IsFirst([slot |-> s, content |-> candles[s]])

FirstInv == ArchivedIsSeen /\ EmittedIsFirst /\ StoredIsFirst

\* Needed because what a candle is compared with when it is accepted is the
\* memory of the pipeline, and when the archive is replayed, the archive.
ReplayInv == Pristine => IdsAreFresh /\ FirstInv

\* A process that has crashed or met a bound does not become pristine again.
LEMMA PristineBefore ==
    ASSUME TypeOK, [Next]_vars, Pristine'
    PROVE  Pristine
<1> USE DEF Pristine
<1>0. refused \in Nat /\ crashes \in Nat /\ evicted \in BOOLEAN
  BY DEF TypeOK, ArchiveTypeOK, BoundsTypeOK, PipelineTypeOK
<1>1. ASSUME NEW message, NEW who, Process(message, who), UNCHANGED crashes PROVE Pristine
  <2>1. refused = 0
    BY <1>0, <1>1 DEF Process, Capture, archive
  <2>2. ~evicted
    BY <1>0, <1>1 DEF Process, pipeline
  <2> QED
    BY <1>1, <2>1, <2>2
<1>2. CASE UNCHANGED <<refused, evicted, crashes>>
  BY <1>2
<1>3. CASE Frame
  <2>1. PICK slot \in Slots : \E candle \in Readings[slot]["websocket"] : Receive(slot, candle)
    BY <1>3 DEF Frame
  <2>2. PICK candle \in Readings[slot]["websocket"] : Receive(slot, candle)
    BY <2>1
  <2>3. UNCHANGED crashes
    BY <2>2 DEF Receive
  <2>4. UNCHANGED <<refused, evicted>>
          \/ Process([id |-> <<"websocket", frames + 1>>, candle |-> candle], "live")
    BY <2>2 DEF Receive, archive, pipeline
  <2> QED
    BY <1>1, <1>2, <2>3, <2>4
<1>4. CASE RepairProcesses
  BY <1>1, <1>4 DEF RepairProcesses, bounds
<1>5. CASE Crash
  BY <1>0, <1>5 DEF Crash
<1>12. CASE RepairRaises
  <2>1. UNCHANGED <<crashes, evicted>>
    BY <1>12 DEF RepairRaises, bounds
  <2>2. refused = 0
    <3>1. Capture(Head(work).id, Raising)
      BY <1>12 DEF RepairRaises
    <3>2. refused' = refused \/ refused' = refused + 1
      BY <3>1 DEF Capture, archive
    <3> QED
      BY <1>0, <3>2
  <2> QED
    BY <2>1, <2>2
<1>6. CASE PersistLive \/ PersistRepair
  BY <1>2, <1>6 DEF PersistLive, PersistRepair, PersistFirst, archive, pipeline, bounds
<1>7. CASE StartRecovery
  BY <1>2, <1>7 DEF StartRecovery, StartRepair, archive, pipeline
<1>8. CASE CloseSlot \/ RepairFails \/ RepairEnds
  BY <1>2, <1>8 DEF CloseSlot, RepairFails, RepairEnds, archive, pipeline, memory, bounds
<1>9. CASE \E count \in 0..MaxSlot : RepairAnswered(count)
  BY <1>2, <1>9 DEF RepairAnswered, archive, pipeline, bounds
<1>10. CASE RelayStep
  BY <1>2, <1>10 DEF RelayStep, Relay, RelayLists, RelayPublishes, RelayMarks, archive,
     memory, pipeline, bounds
<1>11. CASE UNCHANGED vars
  BY <1>2, <1>11 DEF vars, archive, memory, pipeline, bounds
<1> QED
  BY <1>3, <1>4, <1>5, <1>6, <1>7, <1>8, <1>9, <1>10, <1>11, <1>12 DEF Next

\* A first message stays the first when the archive grows.
LEMMA FirstRemains ==
    ASSUME raw \in Seq(Messages), NEW message \in Messages, raw' = Append(raw, message),
           NEW candle, IsFirst(candle)
    PROVE  IsFirst(candle)'
<1>1. PICK i \in DOMAIN raw :
          raw[i].candle = candle /\ \A j \in 1..(i - 1) : ~Usable(j, candle.slot)
  BY DEF IsFirst
<1>2. Len(raw) \in Nat /\ DOMAIN raw = 1..Len(raw)
  OBVIOUS
<1>3. i \in 1..Len(raw) /\ i \in DOMAIN raw' /\ \A j \in 1..i : raw'[j] = raw[j]
  BY <1>2
<1>4. raw'[i].candle = candle
  BY <1>1, <1>3
<1>5. \A j \in 1..(i - 1) : ~Usable(j, candle.slot)'
  <2>1. ASSUME NEW j \in 1..(i - 1) PROVE ~Usable(j, candle.slot)'
    <3>1. raw'[j] = raw[j]
      BY <1>2, <1>3
    <3>2. ~Usable(j, candle.slot)
      BY <1>1
    <3> QED
      BY <3>1, <3>2 DEF Usable
  <2> QED
    BY <2>1
<1> QED
  BY <1>3, <1>4, <1>5 DEF IsFirst

\* What a message that is not archived leaves there.
LEMMA ProcessArchives ==
    ASSUME TypeOK, Pristine', NEW message \in Messages, NEW who, ~Archived(message.id),
           Process(message, who)
    PROVE  /\ raw' = Append(raw, message)
           /\ Accepts(message.candle) => seen' = Append(seen, message.candle)
           /\ ~Accepts(message.candle) => UNCHANGED <<seen, emitted>>
<1>1. raw' = Append(raw, message)
  <2>1. message = [id |-> message.id, candle |-> message.candle]
    BY DEF Messages
  <2>2. refused \in Nat /\ refused' = 0
    BY DEF TypeOK, ArchiveTypeOK, Pristine
  <2> QED
    BY <2>1, <2>2 DEF Process, Capture
<1>2. ASSUME Accepts(message.candle) PROVE seen' = Append(seen, message.candle)
  <2>1. ~Evicts /\ Remember(message.candle)
    BY <1>2 DEF Process, Pristine
  <2>2. Len(seen) < DedupeSize
    BY <2>1 DEF Evicts, TypeOK, PipelineTypeOK
  <2>3. message.candle \in Candles
    BY DEF Messages
  <2>4. Len(Append(seen, message.candle)) = Len(seen) + 1
    BY <2>3 DEF TypeOK, PipelineTypeOK
  <2> QED
    BY <2>1, <2>2, <2>4 DEF Remember, Remembered, TypeOK, PipelineTypeOK
<1>3. ASSUME ~Accepts(message.candle) PROVE UNCHANGED <<seen, emitted>>
  BY <1>3 DEF Process, pipeline
<1> QED
  BY <1>1, <1>2, <1>3

\* A slot the pipeline does not remember is new to the archive, so the message
\* it accepts is the first of its slot there.
LEMMA AcceptedIsFirst ==
    ASSUME raw \in Seq(Messages), ArchivedIsSeen, NEW message \in Messages,
           raw' = Append(raw, message), Accepts(message.candle)
    PROVE  IsFirst(message.candle)'
<1> DEFINE n == Len(raw)
<1>1. n \in Nat /\ DOMAIN raw = 1..n /\ n + 1 \in DOMAIN raw' /\ raw'[n + 1] = message
  OBVIOUS
<1>2. \A j \in 1..n : raw'[j] = raw[j]
  OBVIOUS
<1>3. ASSUME NEW j \in 1..((n + 1) - 1) PROVE ~Usable(j, message.candle.slot)'
  <2>1. j \in DOMAIN raw /\ raw'[j] = raw[j]
    BY <1>1, <1>2
  <2>2. raw[j].candle \in NoEvent \/ \E k \in DOMAIN seen : seen[k].slot = raw[j].candle.slot
    BY <2>1 DEF ArchivedIsSeen
  <2>3. raw[j].candle \in NoEvent \/ raw[j].candle.slot # message.candle.slot
    BY <2>2 DEF Accepts
  <2> QED
    BY <2>1, <2>3 DEF Usable
<1> HIDE DEF n
<1> QED
  BY <1>1, <1>3 DEF IsFirst, Accepts

\* Processing remembers the slot of every message that gives a candle.
LEMMA ProcessRemembers ==
    ASSUME TypeOK, Pristine', ArchivedIsSeen, NEW message \in Messages, NEW who,
           ~Archived(message.id), Process(message, who)
    PROVE  ArchivedIsSeen'
<1>1. raw' = Append(raw, message) /\ raw \in Seq(Messages) /\ seen \in Seq(Candles)
  BY ProcessArchives DEF TypeOK, ArchiveTypeOK, PipelineTypeOK
<1>2. message.candle \in Candles
  BY DEF Messages
<1>3. \A k \in DOMAIN seen : k \in DOMAIN seen' /\ seen'[k] = seen[k]
  <2>1. CASE Accepts(message.candle)
    <3>1. seen' = Append(seen, message.candle)
      BY <2>1, ProcessArchives
    <3> QED
      BY <1>1, <1>2, <3>1
  <2>2. CASE ~Accepts(message.candle)
    BY <2>2, ProcessArchives
  <2> QED
    BY <2>1, <2>2
<1>4. message.candle \in NoEvent \/ \E k \in DOMAIN seen' : seen'[k].slot = message.candle.slot
  <2>1. CASE Accepts(message.candle)
    <3>1. seen' = Append(seen, message.candle)
      BY <2>1, ProcessArchives
    <3>2. Len(seen) + 1 \in DOMAIN seen' /\ seen'[Len(seen) + 1] = message.candle
      BY <1>1, <1>2, <3>1
    <3> QED
      BY <3>2
  <2>2. CASE ~Accepts(message.candle)
    BY <1>3, <2>2 DEF Accepts
  <2> QED
    BY <2>1, <2>2
<1>5. SUFFICES ASSUME NEW i \in DOMAIN raw'
               PROVE  \/ raw'[i].candle \in NoEvent
                      \/ \E k \in DOMAIN seen' : seen'[k].slot = raw'[i].candle.slot
  BY DEF ArchivedIsSeen
<1>6. i \in 1..(Len(raw) + 1) /\ Len(raw) \in Nat
  BY <1>1
<1>7. CASE i = Len(raw) + 1
  <2>1. raw'[i] = message
    BY <1>1, <1>7
  <2> QED
    BY <1>4, <2>1
<1>8. CASE i # Len(raw) + 1
  <2>1. i \in DOMAIN raw /\ raw'[i] = raw[i]
    BY <1>1, <1>6, <1>8
  <2>2. raw[i].candle \in NoEvent \/ \E k \in DOMAIN seen : seen[k].slot = raw[i].candle.slot
    BY <2>1 DEF ArchivedIsSeen
  <2> QED
    BY <1>3, <2>1, <2>2
<1> QED
  BY <1>7, <1>8

\* What an accepted candle emits is a gap or the candle.
LEMMA GapOrCandle ==
    ASSUME TypeOK, NEW message \in Messages
    PROVE  \A j \in 1..Len(Emitted(message.candle)) :
              \/ IsGap(Emitted(message.candle)[j])
              \/ Emitted(message.candle)[j] = message.candle
<1> DEFINE candle == message.candle
<1>1. candle.slot \in Slots /\ last \in Nat
  BY DEF Messages, Candles, TypeOK, PipelineTypeOK
<1>2. CASE SkipsSlots(candle)
  <2>1. IsGap([from |-> last + 1, to |-> candle.slot])
    BY <1>1, <1>2 DEF SkipsSlots, IsGap, Gaps, Slots
  <2> QED
    BY <1>2, <2>1 DEF Emitted
<1>3. CASE ~SkipsSlots(candle)
  BY <1>3 DEF Emitted
<1> QED
  BY <1>2, <1>3

\* What processing emits is the first of its slot, and what was is still.
LEMMA ProcessKeepsFirst ==
    ASSUME TypeOK, Pristine', ArchivedIsSeen, EmittedIsFirst, StoredIsFirst,
           NEW message \in Messages, NEW who \in {"live", "repair"},
           ~Archived(message.id), Process(message, who), UNCHANGED candles
    PROVE  EmittedIsFirst' /\ StoredIsFirst'
<1>1. raw' = Append(raw, message) /\ raw \in Seq(Messages)
  BY ProcessArchives DEF TypeOK, ArchiveTypeOK
<1>2. \A candle : IsFirst(candle) => IsFirst(candle)'
  BY <1>1, FirstRemains
<1>3. StoredIsFirst'
  BY <1>2 DEF StoredIsFirst
<1>4. EmittedIsFirst'
  <2>1. SUFFICES ASSUME NEW other \in {"live", "repair"}, NEW i \in DOMAIN emitted'[other],
                        ~IsGap(emitted'[other][i])
                 PROVE  IsFirst(emitted[other][i])'
    BY DEF EmittedIsFirst, IsGap
  <2>2. CASE other # who \/ ~Accepts(message.candle)
    <3>1. emitted'[other] = emitted[other]
      BY <2>2, ProcessArchives, ProcessEmits
    <3>2. IsFirst(emitted[other][i])
      BY <2>1, <3>1 DEF EmittedIsFirst
    <3> DEFINE event == emitted[other][i]
    <3> QED
      BY <1>2, <3>1, <3>2
  <2>3. CASE other = who /\ Accepts(message.candle)
    <3> DEFINE n == Len(emitted[who])
               emits == Emitted(message.candle)
    <3>1. \A j \in 1..Len(emits) : IsGap(emits[j]) \/ emits[j] = message.candle
      BY GapOrCandle
    <3>2. /\ n \in Nat /\ Len(emits) \in Nat /\ DOMAIN emitted[who] = 1..n
          /\ DOMAIN emitted'[who] = 1..(n + Len(emits))
          /\ \A k \in 1..n : emitted'[who][k] = emitted[who][k]
          /\ \A k \in 1..Len(emits) : emitted'[who][n + k] = emits[k]
      BY <2>3, ProcessEmits
    <3> HIDE DEF n, emits
    <3>3. CASE i \in 1..n
      <4>1. emitted'[other][i] = emitted[other][i] /\ i \in DOMAIN emitted[other]
        BY <2>3, <3>2, <3>3
      <4>2. IsFirst(emitted[other][i])
        BY <2>1, <4>1 DEF EmittedIsFirst
      <4> QED
        BY <1>2, <4>1, <4>2
    <3>4. CASE i \notin 1..n
      <4>1. i - n \in 1..Len(emits) /\ i = n + (i - n)
        BY <2>3, <3>2, <3>4
      <4>2. emitted'[other][i] = message.candle
        BY <2>1, <2>3, <3>1, <3>2, <4>1
      <4> QED
        BY <1>1, <2>3, <4>2, AcceptedIsFirst
    <3> QED
      BY <3>3, <3>4
  <2> QED
    BY <2>2, <2>3
<1> QED
  BY <1>3, <1>4

\* The candle that is stored is the one that was emitted.
LEMMA PersistKeepsFirst ==
    ASSUME TypeOK, EmittedIsFirst, StoredIsFirst,
           NEW who \in {"live", "repair"}, PersistFirst(who)
    PROVE  EmittedIsFirst' /\ StoredIsFirst'
<1> DEFINE event == Head(emitted[who])
<1>1. raw' = raw
  BY DEF PersistFirst, archive
<1>2. \A candle : IsFirst(candle) => IsFirst(candle)'
  BY <1>1 DEF IsFirst, Usable
<1>3. emitted[who] # <<>> /\ emitted[who] \in Seq(Gaps \cup Candles)
  BY DEF TypeOK, PipelineTypeOK, PersistFirst
<1>4. emitted' = [emitted EXCEPT ![who] = Tail(@)]
  BY DEF PersistFirst
<1>5. /\ emitted'[who] = Tail(emitted[who])
      /\ \A other \in {"live", "repair"} : other # who => emitted'[other] = emitted[other]
  BY <1>4 DEF TypeOK, PipelineTypeOK
<1>6. EmittedIsFirst'
  <2>1. SUFFICES ASSUME NEW other \in {"live", "repair"}, NEW i \in DOMAIN emitted'[other],
                        ~IsGap(emitted'[other][i])
                 PROVE  IsFirst(emitted[other][i])'
    BY DEF EmittedIsFirst, IsGap
  <2>2. \E k \in DOMAIN emitted[other] : emitted'[other][i] = emitted[other][k]
    <3>1. CASE other = who
      <4> DEFINE queue == emitted[who]
                 Event == Gaps \cup Candles
      <4>0. queue \in Seq(Event) /\ queue # <<>> /\ i \in DOMAIN Tail(queue)
        BY <1>3, <1>5, <2>1, <3>1
      <4>1. Len(queue) \in Nat /\ i \in 1..(Len(queue) - 1)
        <5> HIDE DEF queue, Event
        <5> QED
          BY <4>0
      <4>2. i + 1 \in DOMAIN emitted[who] /\ emitted'[who][i] = emitted[who][i + 1]
        <5>1. emitted'[who] = Tail(queue)
          BY <1>5
        <5> HIDE DEF Event
        <5> QED
          BY <4>0, <4>1, <5>1
      <4> QED
        BY <3>1, <4>2
    <3>2. CASE other # who
      BY <1>5, <3>2
    <3> QED
      BY <3>1, <3>2
  <2>3. PICK k \in DOMAIN emitted[other] : emitted'[other][i] = emitted[other][k]
    BY <2>2
  <2>4. IsFirst(emitted[other][k])
    BY <2>1, <2>3 DEF EmittedIsFirst
  <2> QED
    BY <1>2, <2>3, <2>4
<1>7. StoredIsFirst'
  <2>1. CASE IsGap(event)
    BY <1>2, <2>1 DEF PersistFirst, RecordGap, StoredIsFirst
  <2>2. CASE ~IsGap(event)
    <3>1. candles' = WithCandle(event) /\ event \in Candles
      BY <1>3, <2>2, HeadIsEvent DEF PersistFirst, PersistCandle, IsGap, TypeOK
    <3>2. IsFirst(event)
      <4>1. 1 \in DOMAIN emitted[who] /\ event = emitted[who][1]
        BY <1>3
      <4> QED
        BY <2>2, <4>1 DEF EmittedIsFirst
    <3>3. event = [slot |-> event.slot, content |-> event.content]
      BY <3>1 DEF Candles
    <3> SUFFICES ASSUME NEW s \in DOMAIN candles'
                 PROVE  IsFirst([slot |-> s, content |-> candles[s]])'
      BY DEF StoredIsFirst
    <3>4. CASE s \in DOMAIN candles
      <4>1. candles'[s] = candles[s] /\ IsFirst([slot |-> s, content |-> candles[s]])
        BY <3>1, <3>4 DEF WithCandle, StoredIsFirst
      <4> QED
        BY <1>2, <4>1
    <3>5. CASE s \notin DOMAIN candles
      <4>1. s = event.slot /\ candles'[s] = event.content
        BY <3>1, <3>5 DEF WithCandle
      <4> QED
        BY <1>2, <3>2, <3>3, <4>1
    <3> QED
      BY <3>4, <3>5
  <2> QED
    BY <2>1, <2>2
<1> QED
  BY <1>6, <1>7

\* A number given out stays given out.
LEMMA IssuedRemains ==
    ASSUME frames \in Nat, sequence \in Nat, frames' \in Nat, sequence' \in Nat,
           frames <= frames', sequence <= sequence', NEW id, Issued(id)
    PROVE  Issued(id)'
BY DEF Issued

\* The next number of either source is not in use.
LEMMA NextIsFresh ==
    ASSUME frames \in Nat, sequence \in Nat, IdsAreFresh, NEW id, ~Issued(id)
    PROVE  /\ ~Archived(id)
           /\ \A i \in DOMAIN buffer : buffer[i].id # id
           /\ \A i \in DOMAIN work : work[i].id # id
BY DEF IdsAreFresh, Archived, Waiting

\* Archiving a message leaves the others waiting that are not the same.
LEMMA OthersWait ==
    ASSUME raw \in Seq(Messages), NEW message \in Messages, raw' = Append(raw, message),
           NEW id, ~Archived(id), id # message.id
    PROVE  ~Archived(id)'
<1>1. ASSUME NEW i \in DOMAIN raw' PROVE raw'[i].id # id
  <2>1. Len(raw) \in Nat /\ i \in 1..(Len(raw) + 1)
    OBVIOUS
  <2>2. CASE i = Len(raw) + 1
    BY <2>1, <2>2
  <2>3. CASE i # Len(raw) + 1
    <3>1. i \in DOMAIN raw /\ raw'[i] = raw[i]
      BY <2>1, <2>3
    <3> QED
      BY <3>1 DEF Archived
  <2> QED
    BY <2>2, <2>3
<1> QED
  BY <1>1 DEF Archived

\* A frame has a number of its own, whether it waits behind the gate or not.
LEMMA ReceiveKeepsFresh ==
    ASSUME TypeOK, Pristine', IdsAreFresh, NEW slot \in Slots,
           NEW candle \in Readings[slot]["websocket"], Receive(slot, candle)
    PROVE  IdsAreFresh'
<1>1. /\ frames \in Nat /\ sequence \in Nat /\ frames' = frames + 1 /\ sequence' = sequence
      /\ work' = work /\ repair' = repair
  BY DEF Receive, TypeOK, BoundsTypeOK, RepairTypeOK
<1>2. \A other : Issued(other) => Issued(other)'
  BY <1>1, IssuedRemains
<1>4. repair.phase # "processing" /\ work = <<>>
  BY DEF Receive, IdsAreFresh
<1>3. PICK message \in Messages : message = [id |-> <<"websocket", frames + 1>>, candle |-> candle]
  <2>1. candle \in Candles
    BY CandlesOfSlots DEF Sources
  <2>2. <<"websocket", frames + 1>> \in Sources \X Nat
    BY <1>1 DEF Sources
  <2> QED
    BY <2>1, <2>2 DEF Messages
<1>5. message.id = <<"websocket", frames + 1>>
  BY <1>3
<1>6. ~Issued(message.id) /\ Issued(message.id)' /\ message.id[1] = "websocket"
  BY <1>1, <1>5 DEF Issued
<1>7. ~Archived(message.id) /\ \A i \in DOMAIN buffer : buffer[i].id # message.id
  BY <1>1, <1>6, NextIsFresh
<1>8. CASE Gated
  <2>1. buffer' = Append(buffer, message) /\ raw' = raw
    BY <1>3, <1>8 DEF Receive, archive
  <2>2. buffer \in Seq(Messages)
    BY DEF TypeOK, RepairTypeOK
  <2>3. \A i \in DOMAIN raw' : Issued(raw[i].id)'
    BY <1>2, <2>1 DEF IdsAreFresh
  <2>4. ASSUME NEW i \in DOMAIN buffer'
        PROVE  /\ \/ i = Len(buffer) + 1 /\ buffer'[i] = message
                  \/ i \in DOMAIN buffer /\ buffer'[i] = buffer[i]
               /\ i \in Nat
    BY <2>1, <2>2
  <2>5. ASSUME NEW i \in DOMAIN buffer'
        PROVE  Issued(buffer[i].id)' /\ ~Archived(buffer[i].id)' /\ buffer'[i].id[1] = "websocket"
    <3>1. CASE buffer'[i] = message
      BY <1>6, <1>7, <2>1, <3>1 DEF Archived
    <3>2. CASE i \in DOMAIN buffer /\ buffer'[i] = buffer[i]
      BY <1>2, <2>1, <3>2 DEF IdsAreFresh, Waiting, Archived
    <3> QED
      BY <2>4, <3>1, <3>2
  <2>6. ASSUME NEW i \in DOMAIN buffer', NEW j \in DOMAIN buffer', buffer'[i].id = buffer'[j].id
        PROVE  i = j
    <3>1. ASSUME NEW k \in DOMAIN buffer', k # Len(buffer) + 1
          PROVE  k \in DOMAIN buffer /\ buffer'[k] = buffer[k] /\ buffer'[k].id # message.id
      BY <1>7, <2>4, <3>1
    <3>2. ASSUME NEW k \in DOMAIN buffer', k = Len(buffer) + 1 PROVE buffer'[k].id = message.id
      <4>1. k \notin DOMAIN buffer
        BY <2>2, <3>2
      <4> QED
        BY <2>4, <4>1
    <3>3. CASE i = Len(buffer) + 1 \/ j = Len(buffer) + 1
      BY <2>6, <3>1, <3>2, <3>3
    <3>4. CASE i # Len(buffer) + 1 /\ j # Len(buffer) + 1
      BY <2>6, <3>1, <3>4 DEF IdsAreFresh, Waiting
    <3> QED
      BY <3>3, <3>4
  <2>7. Waiting(buffer)'
    BY <2>5, <2>6 DEF Waiting
  <2>8. Waiting(work)'
    BY <1>1, <1>4 DEF Waiting
  <2> QED
    BY <1>1, <1>4, <2>3, <2>5, <2>7, <2>8 DEF IdsAreFresh
<1>9. CASE ~Gated
  <2>1. Process(message, "live") /\ buffer' = buffer
    BY <1>3, <1>9 DEF Receive
  <2>2. raw' = Append(raw, message) /\ raw \in Seq(Messages)
    BY <1>6, <1>7, <2>1, ProcessArchives DEF TypeOK, ArchiveTypeOK
  <2>3. ASSUME NEW i \in DOMAIN raw' PROVE Issued(raw[i].id)'
    <3>1. raw'[i] = message \/ (i \in DOMAIN raw /\ raw'[i] = raw[i])
      BY <2>2
    <3> QED
      BY <1>2, <1>6, <3>1 DEF IdsAreFresh
  <2>4. ASSUME NEW i \in DOMAIN buffer PROVE Issued(buffer[i].id)' /\ ~Archived(buffer[i].id)'
    <3>1. Issued(buffer[i].id) /\ ~Archived(buffer[i].id)
      BY DEF IdsAreFresh, Waiting
    <3>2. ~Archived(buffer[i].id)'
      BY <1>6, <1>7, <2>1, <2>2, <3>1, OthersWait
    <3> QED
      BY <1>2, <2>1, <3>1, <3>2
  <2>5. Waiting(buffer)'
    BY <2>1, <2>4 DEF IdsAreFresh, Waiting
  <2>6. Waiting(work)'
    BY <1>1, <1>4 DEF Waiting
  <2> QED
    BY <1>1, <1>4, <2>1, <2>3, <2>5, <2>6 DEF IdsAreFresh
<1> QED
  BY <1>8, <1>9

\* The rows of an answer take the numbers that follow, and are not frames.
LEMMA AnswerKeepsFresh ==
    ASSUME TypeOK, IdsAreFresh, NEW count \in 0..MaxSlot, RepairAnswered(count)
    PROVE  IdsAreFresh'
<1>1. /\ frames \in Nat /\ sequence \in Nat /\ frames' = frames /\ sequence' = sequence + count
      /\ raw' = raw /\ buffer' = <<>> /\ count \in Nat /\ count <= Asked
      /\ work = <<>> /\ buffer \in Seq(Messages)
  BY DEF RepairAnswered, TypeOK, BoundsTypeOK, RepairTypeOK, archive, bounds, IdsAreFresh
<1>2. \A other : Issued(other) => Issued(other)'
  BY <1>1, IssuedRemains
<1>3. PICK rows \in Seq(Messages) :
          /\ work' = rows \o buffer /\ DOMAIN rows = 1..count
          /\ \A k \in 1..count : rows[k].id = <<"rest_gap_recovery", sequence + k>>
  <2>1. PICK read \in Answers(count) : work' = Numbered(read) \o buffer
    BY DEF RepairAnswered
  <2>2. Numbered(read) \in Seq(Messages)
    BY <1>1, RowsTyped DEF TypeOK
  <2>3. DOMAIN read = 1..count
    BY DEF Answers
  <2>4. /\ DOMAIN Numbered(read) = 1..count
        /\ \A k \in 1..count : Numbered(read)[k].id = <<"rest_gap_recovery", sequence + k>>
    BY <2>3 DEF Numbered
  <2> QED
    BY <2>1, <2>2, <2>4
<1>4. ASSUME NEW k \in 1..count
      PROVE  /\ Issued(rows[k].id)' /\ ~Archived(rows[k].id)
             /\ rows[k].id[1] = "rest_gap_recovery" /\ rows[k].id[2] = sequence + k
  <2>1. sequence + k \notin 1..sequence /\ sequence + k \in 1..sequence'
    BY <1>1
  <2>2. rows[k].id[1] = "rest_gap_recovery" /\ rows[k].id[2] = sequence + k
    BY <1>3
  <2>3. ~Issued(rows[k].id) /\ Issued(rows[k].id)'
    BY <2>1, <2>2 DEF Issued
  <2>4. ~Archived(rows[k].id)
    BY <1>1, <2>3, NextIsFresh
  <2> QED
    BY <2>2, <2>3, <2>4
<1>5. PICK held \in Seq(Messages) : held = buffer
  BY <1>1
<1>6. ASSUME NEW i \in DOMAIN held
      PROVE  Issued(held[i].id)' /\ ~Archived(held[i].id) /\ held[i].id[1] = "websocket"
  <2>1. Issued(held[i].id) /\ ~Archived(held[i].id) /\ held[i].id[1] = "websocket"
    BY <1>5 DEF IdsAreFresh, Waiting
  <2> QED
    BY <1>2, <2>1
<1>7. Len(held) \in Nat /\ DOMAIN held = 1..Len(held) /\ Len(rows) = count
  BY <1>3
<1>8. work' = rows \o held
  BY <1>3, <1>5
<1>9. DOMAIN work' = 1..(count + Len(held))
  <2>1. rows \in Seq(Messages) /\ held \in Seq(Messages)
    BY <1>3, <1>5
  <2>2. work' \in Seq(Messages) /\ Len(work') = Len(rows) + Len(held)
    BY <1>8, <2>1
  <2> QED
    BY <1>7, <2>2
<1>10. ASSUME NEW i \in DOMAIN work'
       PROVE  \/ i \in 1..count /\ work'[i] = rows[i]
              \/ i - count \in DOMAIN held /\ i \notin 1..count /\ work'[i] = held[i - count]
  <2>1. i \in 1..(count + Len(held))
    BY <1>9
  <2>2. CASE i <= count
    BY <1>1, <1>3, <1>7, <1>8, <2>1, <2>2
  <2>3. CASE ~(i <= count)
    BY <1>1, <1>3, <1>7, <1>8, <2>1, <2>3
  <2> QED
    BY <2>2, <2>3
<1>11. ASSUME NEW i \in DOMAIN work' PROVE Issued(work[i].id)' /\ ~Archived(work[i].id)'
  <2>1. CASE i \in 1..count /\ work'[i] = rows[i]
    <3>1. Issued(rows[i].id)' /\ ~Archived(rows[i].id)
      BY <1>4, <2>1
    <3> QED
      BY <1>1, <2>1, <3>1 DEF Archived
  <2>2. CASE i - count \in DOMAIN held /\ work'[i] = held[i - count]
    <3>1. Issued(held[i - count].id)' /\ ~Archived(held[i - count].id)
      BY <1>6, <2>2
    <3> QED
      BY <1>1, <2>2, <3>1 DEF Archived
  <2> QED
    BY <1>10, <2>1, <2>2
<1>12. ASSUME NEW i \in DOMAIN work', NEW j \in DOMAIN work', work'[i].id = work'[j].id
       PROVE  i = j
  <2>0. i \in Nat /\ j \in Nat
    BY <1>9
  <2>1. CASE i \in 1..count /\ j \in 1..count
    <3>1. sequence + i = sequence + j
      BY <1>4, <1>10, <1>12, <2>1
    <3> QED
      BY <1>1, <2>0, <3>1
  <2>2. CASE i \notin 1..count /\ j \notin 1..count
    <3>1. /\ i - count \in DOMAIN held /\ j - count \in DOMAIN held
          /\ held[i - count].id = held[j - count].id
      BY <1>10, <1>12, <2>2
    <3>2. i - count = j - count
      BY <1>5, <3>1 DEF IdsAreFresh, Waiting
    <3> QED
      BY <1>1, <2>0, <3>2
  <2>3. ASSUME NEW m \in DOMAIN work', m \in 1..count
        PROVE  work'[m].id[1] = "rest_gap_recovery"
    BY <1>4, <1>10, <2>3
  <2>4. ASSUME NEW m \in DOMAIN work', m \notin 1..count
        PROVE  work'[m].id[1] = "websocket"
    BY <1>6, <1>10, <2>4
  <2> QED
    BY <1>12, <2>1, <2>2, <2>3, <2>4
<1>13. Waiting(work)' /\ Waiting(buffer)'
  BY <1>1, <1>11, <1>12 DEF Waiting
<1>14. \A i \in DOMAIN raw' : Issued(raw[i].id)'
  BY <1>1, <1>2 DEF IdsAreFresh
<1>15. repair'.phase # "processing" => work' = <<>>
  BY DEF RepairAnswered, TypeOK, RepairTypeOK
<1> QED
  BY <1>1, <1>13, <1>14, <1>15 DEF IdsAreFresh

\* The message that is processed is archived and waits no longer.
LEMMA ProcessKeepsFresh ==
    ASSUME TypeOK, Pristine', IdsAreFresh, RepairProcesses
    PROVE  IdsAreFresh' /\ ~Archived(Head(work).id)
<1>1. PICK message \in Messages, rest \in Seq(Messages) :
          message = Head(work) /\ message = work[1] /\ rest = Tail(work) /\ work # <<>>
  <2>1. work \in Seq(Messages) /\ work # <<>>
    BY DEF RepairProcesses, TypeOK, RepairTypeOK
  <2>2. Head(work) \in Messages /\ Tail(work) \in Seq(Messages) /\ Head(work) = work[1]
    BY <2>1
  <2> QED
    BY <2>1, <2>2
<1>2. /\ Process(message, "repair") /\ work' = rest /\ raw \in Seq(Messages)
      /\ buffer' = <<>> /\ frames' = frames /\ sequence' = sequence
  BY <1>1 DEF RepairProcesses, bounds, TypeOK, ArchiveTypeOK, IdsAreFresh
<1>3. \A other : Issued(other) => Issued(other)'
  BY <1>2 DEF Issued
<1>4. 1 \in DOMAIN work /\ Issued(message.id) /\ ~Archived(message.id)
  <2>1. 1 \in DOMAIN work
    BY <1>1 DEF TypeOK, RepairTypeOK
  <2> QED
    BY <1>1, <2>1 DEF IdsAreFresh, Waiting
<1>5. raw' = Append(raw, message)
  BY <1>2, <1>4, ProcessArchives
<1>6. ASSUME NEW i \in DOMAIN raw' PROVE Issued(raw[i].id)'
  <2>1. raw'[i] = message \/ (i \in DOMAIN raw /\ raw'[i] = raw[i])
    BY <1>2, <1>5
  <2> QED
    BY <1>3, <1>4, <2>1 DEF IdsAreFresh
<1>7. ASSUME NEW i \in DOMAIN rest
      PROVE  /\ i \in Nat /\ i + 1 \in DOMAIN work /\ rest[i] = work[i + 1]
             /\ rest[i].id # message.id
  <2>1. i \in Nat /\ i + 1 \in DOMAIN work /\ rest[i] = work[i + 1] /\ i + 1 # 1
    BY <1>1 DEF TypeOK, RepairTypeOK
  <2>2. work[i + 1].id = work[1].id => i + 1 = 1
    BY <1>4, <2>1 DEF IdsAreFresh, Waiting
  <2> QED
    BY <1>1, <2>1, <2>2
<1>8. ASSUME NEW i \in DOMAIN rest PROVE Issued(rest[i].id)' /\ ~Archived(rest[i].id)'
  <2>1. Issued(rest[i].id) /\ ~Archived(rest[i].id)
    BY <1>7 DEF IdsAreFresh, Waiting
  <2> QED
    BY <1>2, <1>3, <1>5, <1>7, <2>1, OthersWait
<1>9. ASSUME NEW i \in DOMAIN rest, NEW j \in DOMAIN rest, rest[i].id = rest[j].id
      PROVE  i = j
  <2>1. i + 1 = j + 1
    BY <1>7, <1>9 DEF IdsAreFresh, Waiting
  <2> QED
    BY <1>7, <2>1
<1>10. Waiting(work)' /\ Waiting(buffer)'
  BY <1>2, <1>8, <1>9 DEF Waiting
<1>11. repair'.phase # "processing" => work' = <<>>
  BY <1>1, <1>2 DEF RepairProcesses, TypeOK, RepairTypeOK
<1> QED
  BY <1>1, <1>2, <1>4, <1>6, <1>10, <1>11 DEF IdsAreFresh

\* A message that raises is archived, and its repair leaves nothing to process.
LEMMA RaisingArchives ==
    ASSUME TypeOK, Pristine', IdsAreFresh, RepairRaises
    PROVE  /\ Head(work) \in Messages /\ Head(work).candle \in NoEvent
           /\ raw' = Append(raw, Head(work)) /\ raw \in Seq(Messages)
           /\ IdsAreFresh'
<1>1. /\ Head(work) \in Messages /\ Head(work) = work[1] /\ 1 \in DOMAIN work
      /\ raw \in Seq(Messages) /\ refused \in Nat
  BY DEF RepairRaises, TypeOK, RepairTypeOK, ArchiveTypeOK
<1>2. Issued(Head(work).id) /\ ~Archived(Head(work).id)
  BY <1>1 DEF IdsAreFresh, Waiting
<1>3. Head(work) = [id |-> Head(work).id, candle |-> Raising] /\ Raising \in NoEvent
  BY <1>1 DEF RepairRaises, Messages, NoEvent
<1>4. raw' = Append(raw, Head(work))
  BY <1>1, <1>2, <1>3 DEF RepairRaises, Capture, Pristine
<1>5. \A other : Issued(other) => Issued(other)'
  BY DEF RepairRaises, bounds, Issued
<1>6. ASSUME NEW i \in DOMAIN raw' PROVE Issued(raw[i].id)'
  <2>1. raw'[i] = Head(work) \/ (i \in DOMAIN raw /\ raw'[i] = raw[i])
    BY <1>1, <1>4
  <2> QED
    BY <1>2, <1>5, <2>1 DEF IdsAreFresh
<1>7. buffer' = <<>> /\ work' = <<>> /\ repair'.phase # "processing"
  BY RepairRecords DEF RepairRaises, IdsAreFresh
<1> QED
  BY <1>1, <1>3, <1>4, <1>6, <1>7 DEF IdsAreFresh, Waiting

\* What is emitted and stored stays the first of its slot when a message raises.
LEMMA RaisingKeepsFirst ==
    ASSUME TypeOK, Pristine', IdsAreFresh, FirstInv, RepairRaises
    PROVE  FirstInv'
<1>1. /\ Head(work) \in Messages /\ Head(work).candle \in NoEvent
      /\ raw' = Append(raw, Head(work)) /\ raw \in Seq(Messages)
  BY RaisingArchives
<1>2. \A candle : IsFirst(candle) => IsFirst(candle)'
  BY <1>1, FirstRemains
<1>3. /\ UNCHANGED <<seen, candles>> /\ emitted' = [emitted EXCEPT !["repair"] = <<>>]
      /\ emitted'["live"] = emitted["live"] /\ emitted'["repair"] = <<>>
  BY DEF RepairRaises, tables, TypeOK, PipelineTypeOK
<1>4. ArchivedIsSeen'
  <2>1. ASSUME NEW i \in DOMAIN raw'
        PROVE  raw'[i] = Head(work) \/ (i \in DOMAIN raw /\ raw'[i] = raw[i])
    BY <1>1
  <2> QED
    BY <1>1, <1>3, <2>1 DEF FirstInv, ArchivedIsSeen
<1>5. EmittedIsFirst'
  BY <1>2, <1>3 DEF FirstInv, EmittedIsFirst, IsGap
<1>6. StoredIsFirst'
  BY <1>2, <1>3 DEF FirstInv, StoredIsFirst
<1> QED
  BY <1>4, <1>5, <1>6 DEF FirstInv

\* What is still to be processed stays fresh.
LEMMA StepKeepsFresh ==
    ASSUME TypeOK, Pristine', IdsAreFresh, [Next]_vars
    PROVE  IdsAreFresh'
<1>1. ASSUME UNCHANGED <<raw, buffer, work, frames, sequence>>,
             repair'.phase = repair.phase
                \/ (repair.phase # "processing" /\ repair'.phase # "processing")
      PROVE  IdsAreFresh'
  BY <1>1 DEF IdsAreFresh, Issued, Waiting, Archived
<1>2. CASE Frame
  <2>1. PICK slot \in Slots : \E candle \in Readings[slot]["websocket"] : Receive(slot, candle)
    BY <1>2 DEF Frame
  <2> QED
    BY <2>1, ReceiveKeepsFresh
<1>3. CASE \E count \in 0..MaxSlot : RepairAnswered(count)
  BY <1>3, AnswerKeepsFresh
<1>4. CASE RepairProcesses
  BY <1>4, ProcessKeepsFresh
<1>5. CASE PersistLive \/ PersistRepair
  BY <1>1, <1>5 DEF PersistLive, PersistRepair, PersistFirst, archive, bounds
<1>6. CASE StartRecovery
  <2>1. /\ UNCHANGED <<raw, buffer, work, frames, sequence>>
        /\ repair.phase = "idle" /\ repair'.phase = "asking"
    BY <1>6 DEF StartRecovery, StartRepair, archive
  <2> QED
    BY <1>1, <2>1
<1>7. CASE RepairFails \/ RepairEnds
  <2>1. /\ UNCHANGED <<raw, buffer, work, frames, sequence>>
        /\ repair.phase # "processing" /\ repair'.phase = "idle"
    BY <1>7, RepairRecords DEF RepairFails, RepairEnds, archive, bounds
  <2> QED
    BY <1>1, <2>1
<1>8. CASE CloseSlot
  BY <1>1, <1>8 DEF CloseSlot, archive, memory, bounds
<1>9. CASE RelayStep
  BY <1>1, <1>9 DEF RelayStep, Relay, RelayLists, RelayPublishes, RelayMarks, archive,
     memory, bounds
<1>10. CASE Crash
  BY <1>10 DEF Crash, Pristine, TypeOK, BoundsTypeOK
<1>11. CASE UNCHANGED vars
  BY <1>1, <1>11 DEF vars, archive, memory, bounds
<1>12. CASE RepairRaises
  BY <1>12, RaisingArchives
<1> QED
  BY <1>2, <1>3, <1>4, <1>5, <1>6, <1>7, <1>8, <1>9, <1>10, <1>11, <1>12 DEF Next

\* What is emitted and stored stays the first of its slot in the archive.
LEMMA StepKeepsFirst ==
    ASSUME TypeOK, Pristine', IdsAreFresh, FirstInv, [Next]_vars
    PROVE  FirstInv'
<1> USE DEF FirstInv
<1>1. ASSUME UNCHANGED <<raw, seen, emitted, candles>> PROVE FirstInv'
  <2>1. \A candle : IsFirst(candle) => IsFirst(candle)'
    BY <1>1 DEF IsFirst, Usable
  <2>2. ArchivedIsSeen'
    BY <1>1 DEF ArchivedIsSeen
  <2>3. EmittedIsFirst'
    BY <1>1, <2>1 DEF EmittedIsFirst, IsGap
  <2>4. StoredIsFirst'
    BY <1>1, <2>1 DEF StoredIsFirst
  <2> QED
    BY <2>2, <2>3, <2>4
<1>2. ASSUME NEW message \in Messages, NEW who \in {"live", "repair"}, ~Archived(message.id),
             Process(message, who), UNCHANGED candles
      PROVE  FirstInv'
  BY <1>2, ProcessRemembers, ProcessKeepsFirst
<1>3. CASE Frame
  <2>1. PICK slot \in Slots : \E candle \in Readings[slot]["websocket"] : Receive(slot, candle)
    BY <1>3 DEF Frame
  <2>2. PICK candle \in Readings[slot]["websocket"] : Receive(slot, candle)
    BY <2>1
  <2>3. UNCHANGED candles
    BY <2>2 DEF Receive, tables
  <2>4. CASE Gated
    BY <1>1, <2>2, <2>3, <2>4 DEF Receive, archive, pipeline
  <2>5. CASE ~Gated
    <3> DEFINE message == [id |-> <<"websocket", frames + 1>>, candle |-> candle]
    <3>1. Process(message, "live")
      BY <2>2, <2>5 DEF Receive
    <3>2. candle \in Candles
      BY CandlesOfSlots DEF Sources
    <3>3. frames \in Nat /\ sequence \in Nat
      BY DEF TypeOK, BoundsTypeOK, RepairTypeOK
    <3>4. message \in Messages
      BY <3>2, <3>3 DEF Messages, Sources
    <3>5. ~Issued(message.id)
      BY <3>3 DEF Issued
    <3>6. ~Archived(message.id)
      BY <3>3, <3>5, NextIsFresh
    <3> QED
      BY <1>2, <2>3, <3>1, <3>4, <3>6
  <2> QED
    BY <2>4, <2>5
<1>4. CASE RepairProcesses
  <2>1. Head(work) \in Messages /\ Process(Head(work), "repair") /\ UNCHANGED candles
    BY <1>4 DEF RepairProcesses, TypeOK, RepairTypeOK, tables
  <2>2. ~Archived(Head(work).id)
    BY <1>4, ProcessKeepsFresh
  <2> QED
    BY <1>2, <2>1, <2>2
<1>5. CASE PersistLive \/ PersistRepair
  <2>1. PICK who \in {"live", "repair"} : PersistFirst(who)
    BY <1>5 DEF PersistLive, PersistRepair
  <2>2. ArchivedIsSeen'
    BY <2>1 DEF PersistFirst, archive, pipeline, ArchivedIsSeen
  <2> QED
    BY <2>1, <2>2, PersistKeepsFirst
<1>6. CASE StartRecovery
  BY <1>1, <1>6 DEF StartRecovery, StartRepair, tables, archive, pipeline
<1>7. CASE CloseSlot \/ RepairFails \/ RepairEnds
  BY <1>1, <1>7 DEF CloseSlot, RepairFails, RepairEnds, MarkGap, tables, archive, memory,
     pipeline
<1>8. CASE \E count \in 0..MaxSlot : RepairAnswered(count)
  BY <1>1, <1>8 DEF RepairAnswered, tables, archive, pipeline
<1>9. CASE RelayStep
  BY <1>1, <1>9 DEF RelayStep, Relay, RelayLists, RelayPublishes, RelayMarks, tables,
     archive, memory, pipeline
<1>10. CASE Crash
  BY <1>10 DEF Crash, Pristine, TypeOK, BoundsTypeOK
<1>11. CASE UNCHANGED vars
  BY <1>1, <1>11 DEF vars, tables, archive, memory, pipeline
<1>12. CASE RepairRaises
  BY <1>12, RaisingKeepsFirst
<1> QED
  BY <1>3, <1>4, <1>5, <1>6, <1>7, <1>8, <1>9, <1>10, <1>11, <1>12 DEF Next

\* A replay takes the first message of a slot.
LEMMA FirstIsReplayed ==
    ASSUME raw \in Seq(Messages), NEW s, NEW content,
           IsFirst([slot |-> s, content |-> content])
    PROVE  /\ \E i \in DOMAIN raw : raw[i].candle.slot = s
           /\ Replayed(s) = content
<1> DEFINE Leads(i) == Usable(i, s) /\ \A j \in 1..(i - 1) : ~Usable(j, s)
           first == CHOOSE i \in DOMAIN raw : Leads(i)
<1>1. PICK k \in DOMAIN raw :
          /\ raw[k].candle = [slot |-> s, content |-> content]
          /\ \A j \in 1..(k - 1) : ~Usable(j, s)
  BY DEF IsFirst
<1>2. Leads(k)
  BY <1>1 DEF IsFirst, Usable
<1>3. first \in DOMAIN raw /\ Leads(first)
  <2> HIDE DEF Leads
  <2> QED
    BY <1>1, <1>2
<1>4. first = k
  <2>1. k \in Nat \ {0} /\ first \in Nat \ {0}
    BY <1>1, <1>3
  <2>2. ~(k < first) /\ ~(first < k)
    <3> HIDE DEF first
    <3> QED
      BY <1>2, <1>3, <2>1
  <2> QED
    BY <2>1, <2>2
<1>5. Replayed(s) = raw[first].candle.content
  BY DEF Replayed
<1> HIDE DEF first, Leads
<1>6. raw[k].candle.slot = s /\ raw[k].candle.content = content
  BY <1>1
<1> QED
  BY <1>1, <1>4, <1>5, <1>6

\* Replaying the archive reproduces the stored series, for every number of
\* slots, frames and repairs and every set of revised candles.
THEOREM ArchiveReplays == Spec => []ReplayReproduces
<1>1. Init => ReplayInv
  BY DEF Init, StoreInit, MemoryInit, Idle, ReplayInv, FirstInv, IdsAreFresh, Waiting,
     ArchivedIsSeen, EmittedIsFirst, StoredIsFirst
<1>2. TypeOK /\ ReplayInv /\ [Next]_vars => ReplayInv'
  <2>1. ASSUME TypeOK, ReplayInv, [Next]_vars, Pristine'
        PROVE  IdsAreFresh' /\ FirstInv'
    <3>1. Pristine
      BY <2>1, PristineBefore
    <3>2. IdsAreFresh /\ FirstInv
      BY <2>1, <3>1 DEF ReplayInv
    <3> QED
      BY <2>1, <3>2, StepKeepsFresh, StepKeepsFirst
  <2> QED
    BY <2>1 DEF ReplayInv
<1>3. TypeOK /\ ReplayInv => ReplayReproduces
  BY FirstIsReplayed DEF ReplayInv, FirstInv, Pristine, StoredIsFirst, ReplayReproduces,
     TypeOK, ArchiveTypeOK
<1>4. Spec => []TypeOK
  BY TypeCorrect
<1> QED
  BY <1>1, <1>2, <1>3, <1>4, PTL DEF Spec
=============================================================================
