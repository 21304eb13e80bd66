----------------------------- MODULE GapRecovery -----------------------------
(***************************************************************************)
(* GapRecoveryGate, GapRecoveryBuffer and GapRecoveryService: live frames  *)
(* are held in a bounded buffer while closed candles are fetched by REST,  *)
(* then processed in the order of their arrival.                           *)
(*                                                                         *)
(* All of it runs in one event loop; a step is the code between two points *)
(* where a coroutine may be suspended.  The requests of one repair and the *)
(* candles they return touch neither gate nor buffer and are one wait.     *)
(* Frames are numbered by arrival.  The receive loop, which the repository *)
(* leaves to the composition root, ingests one frame at a time and awaits  *)
(* the pipeline before it takes the next one.                              *)
(***************************************************************************)
EXTENDS Integers, FiniteSets, Sequences

CONSTANTS
    Repairs,          \* coroutines that call recover()
    Capacity,         \* GapRecoveryBuffer capacity
    MaxIncidents,     \* maxlen of the incident history
    HistoryFails,     \* whether a REST request may fail
    CaptureSuspends,  \* whether process() may suspend its caller, in the raw-capture
                      \* sink, and may raise; otherwise it does neither
    MaxFrames,        \* bound: frames that arrive
    MaxRecoveries     \* bound: calls of recover()

ASSUME GapAssumption ==
    /\ Capacity \in Nat \ {0} /\ MaxIncidents \in Nat \ {0}
    /\ HistoryFails \in BOOLEAN /\ CaptureSuspends \in BOOLEAN
    /\ MaxFrames \in Nat /\ MaxRecoveries \in Nat

VARIABLES
    recovering,     \* _recovering of the gate
    buffer,         \* _messages of the buffer
    dropped,        \* dropped_count
    incidents,      \* _overflow_incidents: the dropped_count each one carries
    repair,         \* how far each call of recover() has come
    live,           \* the forwarded frame that waits for raw capture, if any
    arrived,        \* frames received so far
    processed,      \* frames the pipeline has seen, in that order
    told,           \* dropped_count of the newest incident a caller has drained
    abandoned,      \* the frames that each exception of process() has cost: a
                    \* history variable
    recoveries      \* calls of recover(): only for the bound

vars == <<recovering, buffer, dropped, incidents, repair, live, arrived, processed,
          told, abandoned, recoveries>>
gate == <<recovering, buffer, dropped, incidents>>

Frames == 1..MaxFrames
Idle == [stage |-> "idle", frames |-> <<>>, before |-> 0, overflowed |-> FALSE]
Calls ==
    [stage      : {"idle", "history", "drain", "returned"},
     frames     : Seq(Frames),     \* drained and not yet processed
     before     : 0..MaxFrames,    \* dropped_count when the call began, then its increase
     overflowed : BOOLEAN]         \* buffer_overflowed of the result

TypeOK ==
    /\ recovering \in BOOLEAN
    /\ buffer \in Seq(Frames) /\ Len(buffer) <= Capacity
    /\ dropped \in 0..MaxFrames /\ told \in 0..MaxFrames
    /\ incidents \in Seq(1..MaxFrames) /\ Len(incidents) <= MaxIncidents
    /\ repair \in [Repairs -> Calls]
    /\ live \in Seq(Frames) /\ Len(live) <= 1
    /\ arrived \in 0..MaxFrames
    /\ processed \in Seq(Frames)
    /\ abandoned \subseteq SUBSET Frames
    /\ recoveries \in 0..MaxRecoveries

Init ==
    /\ recovering = FALSE /\ buffer = <<>> /\ dropped = 0 /\ incidents = <<>>
    /\ repair = [r \in Repairs |-> Idle]
    /\ live = <<>> /\ arrived = 0 /\ processed = <<>> /\ told = 0
    /\ abandoned = {} /\ recoveries = 0

-----------------------------------------------------------------------------
(* ingest_websocket(): forward, buffered or dropped *)

Forward(f) ==
    /\ ~recovering
    /\ IF CaptureSuspends
       THEN live' = <<f>> /\ UNCHANGED processed
       ELSE processed' = Append(processed, f) /\ UNCHANGED live
    /\ UNCHANGED gate

\* Mutant of Hold: the gate does not ask whether a repair is under way.
HoldAlways(f) ==
    /\ Len(buffer) < Capacity
    /\ buffer' = Append(buffer, f)
    /\ UNCHANGED <<recovering, dropped, incidents, live, processed>>

\* Mutant of Hold: the newest frame comes out first.
HoldInFront(f) ==
    /\ recovering /\ Len(buffer) < Capacity
    /\ buffer' = <<f>> \o buffer
    /\ UNCHANGED <<recovering, dropped, incidents, live, processed>>

Hold(f) ==
    /\ recovering /\ Len(buffer) < Capacity
    /\ buffer' = Append(buffer, f)
    /\ UNCHANGED <<recovering, dropped, incidents, live, processed>>

\* Mutant of Recent: a full history ignores what is new.
RecentOldest(history) ==
    IF Len(history) > MaxIncidents THEN SubSeq(history, 1, MaxIncidents) ELSE history

\* The history forgets its oldest incident when it is full.
Recent(history) == IF Len(history) > MaxIncidents THEN Tail(history) ELSE history

Drop ==
    /\ recovering /\ Len(buffer) >= Capacity
    /\ dropped' = dropped + 1
    /\ incidents' = Recent(Append(incidents, dropped + 1))
    /\ UNCHANGED <<recovering, buffer, live, processed>>

Arrive ==
    /\ arrived < MaxFrames /\ live = <<>>
    /\ arrived' = arrived + 1
    /\ Forward(arrived + 1) \/ Hold(arrived + 1) \/ Drop
    /\ UNCHANGED <<repair, told, abandoned, recoveries>>

\* The sink has taken the forwarded frame and the pipeline goes on with it.
LiveProcessed ==
    /\ live # <<>>
    /\ processed' = processed \o live
    /\ live' = <<>>
    /\ UNCHANGED <<gate, repair, arrived, told, abandoned, recoveries>>

\* The set of frames in a sequence of them.
FramesIn(s) == {s[i] : i \in DOMAIN s}

\* process() raises out of the receive loop, or is cancelled in the sink.
LiveRaises ==
    /\ CaptureSuspends
    /\ live # <<>>
    /\ abandoned' = abandoned \union {FramesIn(live)}
    /\ live' = <<>>
    /\ UNCHANGED <<gate, repair, arrived, processed, told, recoveries>>

-----------------------------------------------------------------------------
(* recover() of the gate and of the service *)

Recover(r) ==
    /\ repair[r].stage \in {"idle", "returned"}
    /\ recoveries < MaxRecoveries
    /\ recoveries' = recoveries + 1
    /\ recovering' = TRUE
    /\ repair' = [repair EXCEPT ![r] =
          [stage |-> "history", frames |-> <<>>, before |-> dropped, overflowed |-> FALSE]]
    /\ UNCHANGED <<buffer, dropped, incidents, live, arrived, processed, told, abandoned>>

\* The result of a pass and the finally clause of the gate.
Return(r) ==
    /\ recovering' = FALSE
    /\ repair' = [repair EXCEPT ![r] =
          [stage |-> "returned", frames |-> <<>>, before |-> dropped - repair[r].before,
           overflowed |-> dropped > 0]]

\* The last candle is fetched and processed: drain() empties the buffer, and
\* its frames go through the pipeline without a stop unless the sink suspends.
HistoryAnswers(r) ==
    /\ repair[r].stage = "history"
    /\ buffer' = <<>>
    /\ IF CaptureSuspends /\ buffer # <<>>
       THEN /\ repair' = [repair EXCEPT ![r].stage = "drain", ![r].frames = buffer]
            /\ UNCHANGED <<recovering, processed>>
       ELSE Return(r) /\ processed' = processed \o buffer
    /\ UNCHANGED <<dropped, incidents, live, arrived, told, abandoned,
                   recoveries>>

DrainedProcessed(r) ==
    /\ repair[r].stage = "drain"
    /\ processed' = Append(processed, Head(repair[r].frames))
    /\ IF Len(repair[r].frames) > 1
       THEN /\ repair' = [repair EXCEPT ![r].frames = Tail(@)]
            /\ UNCHANGED recovering
       ELSE Return(r)
    /\ UNCHANGED <<buffer, dropped, incidents, live, arrived, told, abandoned,
                   recoveries>>

\* process() raises, or the call is cancelled in the sink.  drain() has emptied the
\* buffer, so the rest of the batch goes with the exception, and no counter says so.
DrainedRaises(r) ==
    /\ repair[r].stage = "drain"
    /\ abandoned' = abandoned \union {FramesIn(repair[r].frames)}
    /\ recovering' = FALSE
    /\ repair' = [repair EXCEPT ![r] = Idle]
    /\ UNCHANGED <<buffer, dropped, incidents, live, arrived, processed, told, recoveries>>

\* Mutant of HistoryRaises: the frames that were held are thrown away.
HistoryRaisesDiscards(r) ==
    /\ HistoryFails
    /\ repair[r].stage = "history"
    /\ recovering' = FALSE /\ buffer' = <<>>
    /\ repair' = [repair EXCEPT ![r] = Idle]
    /\ UNCHANGED <<dropped, incidents, live, arrived, processed, told,
                   abandoned, recoveries>>

\* The request raises, or the call is cancelled while it waits for an answer.
HistoryRaises(r) ==
    /\ HistoryFails
    /\ repair[r].stage = "history"
    /\ recovering' = FALSE
    /\ repair' = [repair EXCEPT ![r] = Idle]
    /\ UNCHANGED <<buffer, dropped, incidents, live, arrived, processed, told,
                   abandoned, recoveries>>

\* drain_overflow_incidents() by whoever escalates them.
DrainIncidents ==
    /\ incidents # <<>>
    /\ told' = incidents[Len(incidents)]
    /\ incidents' = <<>>
    /\ UNCHANGED <<recovering, buffer, dropped, repair, live, arrived, processed,
                   abandoned, recoveries>>

System(r) ==
    HistoryAnswers(r) \/ DrainedProcessed(r) \/ DrainedRaises(r) \/ HistoryRaises(r)
Next ==
    \/ Arrive \/ LiveProcessed \/ LiveRaises \/ DrainIncidents
    \/ \E r \in Repairs : Recover(r) \/ System(r)

Spec == Init /\ [][Next]_vars

-----------------------------------------------------------------------------
(* Properties *)

\* No frame is processed twice, and one that has arrived was processed or dropped,
\* or waits in the buffer, in a drained batch or in the receive loop (drain() copies
\* and clears; recover() works on the copy).  Only an exception out of process(), or
\* a cancellation there, loses frames that nothing counts: those of its own batch,
\* never more than the buffer holds.  A request that fails loses none.
NothingLost ==
    LET held == UNION {FramesIn(repair[r].frames) : r \in Repairs}
        waiting == FramesIn(buffer) \union FramesIn(live)
        seen == FramesIn(processed)
        gone == UNION abandoned
    IN  /\ Cardinality(seen) = Len(processed)
        /\ held \intersect (waiting \union seen \union gone) = {}
        /\ waiting \intersect (seen \union gone) = {} /\ seen \intersect gone = {}
        /\ Cardinality(held \union waiting \union seen \union gone) + dropped = arrived
        /\ \A batch \in abandoned : Cardinality(batch) <= Capacity

\* The pipeline sees live frames in the order of their arrival, also around
\* and during a recovery.
InOrder == \A i, j \in DOMAIN processed : i < j => processed[i] < processed[j]

\* A buffered frame is never left behind: as long as the buffer holds one, a
\* repair is under way that has yet to drain it.
NoneStranded == buffer # <<>> => \E r \in Repairs : repair[r].stage = "history"

\* However many frames are dropped and however late the incidents are drained,
\* the newest incident tells how many frames were dropped in all.
DropsReported ==
    dropped = IF incidents # <<>> THEN incidents[Len(incidents)] ELSE told

\* The result of one recovery pass reports an overflow of that pass: callers
\* compare it with the incidents of the pass.
OverflowIsOfThisPass ==
    \A r \in Repairs :
        repair[r].stage = "returned" => (repair[r].overflowed <=> repair[r].before > 0)

\* What the gate promises its consumers: with an in-memory sink and a history
\* that answers, frames pass in order although they take two ways.
Promise ==
    INSTANCE OrderedIngress
        WITH received <- arrived, waiting <- buffer, delivered <- processed, lost <- dropped
ImplementsOrderedIngress == Promise!Ordered
=============================================================================
