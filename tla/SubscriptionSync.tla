--------------------------- MODULE SubscriptionSync ---------------------------
(***************************************************************************)
(* The control plane of the public feed on an open connection: the desired *)
(* set of SubscriptionCoordinator, sync_with_adapter(), the SUBSCRIBE and  *)
(* UNSUBSCRIBE requests of BinanceWebSocketAdapter, and their answers.     *)
(*                                                                         *)
(* The supervisor makes reconcile_confirmed() the adapter's subscription   *)
(* observer, so the coordinator's _active and the adapter's                *)
(* _active_subscriptions change together: both are `active` here.          *)
(*                                                                         *)
(* Streams are numbers in the order of their provider names.  Requests and *)
(* answers travel in order, one TCP connection each way, and the provider  *)
(* serves one request at a time.                                           *)
(***************************************************************************)
EXTENDS Integers, FiniteSets, Sequences

CONSTANTS
    Streams,        \* the streams the application may want
    MaxStreams,     \* max_streams_per_connection
    MaxParams,      \* max_control_params: streams in one request
    Callers,        \* coroutines that call sync_with_adapter()
    SendSuspends,   \* whether send() may suspend its caller
    BudgetEnds,     \* whether the control budget may refuse a message
    Rejects,        \* the methods the provider may reject
    MaxLosses,      \* bound: how often the connection is lost and reopened
    MaxInFlight     \* bound: a sync starts below this number of messages

Methods == {"SUBSCRIBE", "UNSUBSCRIBE"}

ASSUME SyncAssumption ==
    /\ Streams \subseteq Nat /\ IsFiniteSet(Streams)
    /\ MaxStreams \in Nat \ {0} /\ MaxParams \in Nat \ {0}
    /\ SendSuspends \in BOOLEAN /\ BudgetEnds \in BOOLEAN
    /\ Rejects \subseteq Methods
    /\ MaxLosses \in Nat /\ MaxInFlight \in Nat

VARIABLES
    desired,        \* _desired
    active,         \* _active and _active_subscriptions
    unsubscribing,  \* _pending_unsubscribes of the coordinator
    pending,        \* _pending_subscriptions of the adapter
    call,           \* how far each call of sync_with_adapter() has come
    wire,           \* requests under way to the provider
    answers,        \* answers under way to the adapter
    provider,       \* the streams the provider sends
    losses,         \* connections lost: only for the bound
    leftover        \* streams pending when a connection was lost, and since then
                    \* neither asked for again nor answered: a history variable

vars == <<desired, active, unsubscribing, pending, call, wire, answers, provider,
          losses, leftover>>
coordinator == <<desired, active, unsubscribing>>
network == <<wire, answers, provider>>

Calls ==
    [stage : Methods \union {"idle"},   \* the request being sent
     left  : SUBSET Streams,            \* what is still to be sent of it
     drop  : SUBSET Streams,            \* to_unsubscribe, computed at the start
     add   : SUBSET Streams]            \* to_subscribe, computed at the start
Idle == [stage |-> "idle", left |-> {}, drop |-> {}, add |-> {}]

Batches == {b \in SUBSET Streams : Cardinality(b) \in 1..MaxParams}

TypeOK ==
    /\ {desired, active, unsubscribing, pending, provider} \subseteq SUBSET Streams
    /\ call \in [Callers -> Calls]
    /\ wire \in Seq([method : Methods, streams : Batches])
    /\ answers \in Seq([method : Methods, streams : Batches, ok : BOOLEAN])
    /\ losses \in 0..MaxLosses
    /\ leftover \in SUBSET Streams

Init ==
    /\ desired = {} /\ active = {} /\ unsubscribing = {} /\ pending = {}
    /\ call = [c \in Callers |-> Idle]
    /\ wire = <<>> /\ answers = <<>> /\ provider = {}
    /\ losses = 0 /\ leftover = {}

\* Unless send() suspends, a call of sync_with_adapter() is one atomic step.
Interleaved == SendSuspends \/ \A c \in Callers : call[c] = Idle

-----------------------------------------------------------------------------
(* The coordinator and the sending half of the adapter *)

AddSubscription(s) ==
    /\ s \notin desired
    /\ desired' = desired \union {s}
    /\ UNCHANGED <<active, unsubscribing, pending, call, network, losses>>

\* The confirmed state is kept until the provider acknowledges.
RemoveSubscription(s) ==
    /\ s \in desired
    /\ desired' = desired \ {s}
    /\ UNCHANGED <<active, unsubscribing, pending, call, network, losses>>

ToSubscribe == desired \ active
ToUnsubscribe == (active \ desired) \ unsubscribing

\* One request holds the first streams in the order of their names.
Batch(left) == {s \in left : Cardinality({t \in left : t < s}) < MaxParams}

\* The loop body of _send_control(), up to send(): reserve a message, remember
\* the request and put it on the wire; without budget it raises out of sync.
Send(c, method, left, drop, add) ==
    \/ /\ wire' = Append(wire, [method |-> method, streams |-> Batch(left)])
       /\ pending' = IF method = "SUBSCRIBE" THEN pending \union Batch(left) ELSE pending
       /\ call' = [call EXCEPT ![c] = [stage |-> method, left |-> left \ Batch(left),
                                       drop |-> drop, add |-> add]]
    \/ /\ BudgetEnds
       /\ call' = [call EXCEPT ![c] = Idle]
       /\ UNCHANGED <<wire, pending>>

\* Mutant of SubscribeStarts: streams whose SUBSCRIBE is unanswered do not count.
SubscribeStartsActiveOnly(c, add) ==
    IF Cardinality(active \union add) > MaxStreams
    THEN /\ call' = [call EXCEPT ![c] = Idle]
         /\ UNCHANGED <<wire, pending>>
    ELSE Send(c, "SUBSCRIBE", add, {}, {})

\* _send_control("SUBSCRIBE"): the limit is tested once, before the first batch.
SubscribeStarts(c, add) ==
    IF Cardinality(active \union pending \union add) > MaxStreams
    THEN /\ call' = [call EXCEPT ![c] = Idle]
         /\ UNCHANGED <<wire, pending>>
    ELSE Send(c, "SUBSCRIBE", add, {}, {})

\* sync_with_adapter() is called: both differences are taken now.
SyncStarts(c) ==
    /\ Interleaved
    /\ call[c] = Idle
    /\ Len(wire) + Len(answers) < MaxInFlight
    /\ \/ /\ ToUnsubscribe # {}
          /\ Send(c, "UNSUBSCRIBE", ToUnsubscribe, ToUnsubscribe, ToSubscribe)
       \/ /\ ToUnsubscribe = {} /\ ToSubscribe # {}
          /\ SubscribeStarts(c, ToSubscribe)
    /\ UNCHANGED <<coordinator, answers, provider, losses>>

\* send() has returned and there is another batch.
SendsOn(c) ==
    /\ call[c].left # {}
    /\ Send(c, call[c].stage, call[c].left, call[c].drop, call[c].add)
    /\ UNCHANGED <<coordinator, answers, provider, losses>>

\* The last UNSUBSCRIBE is sent: remember it, then send what is missing.
Unsubscribed(c) ==
    /\ call[c].stage = "UNSUBSCRIBE" /\ call[c].left = {}
    /\ unsubscribing' = unsubscribing \union call[c].drop
    /\ \/ /\ call[c].add = {}
          /\ call' = [call EXCEPT ![c] = Idle]
          /\ UNCHANGED <<wire, pending>>
       \/ /\ call[c].add # {}
          /\ SubscribeStarts(c, call[c].add)
    /\ UNCHANGED <<desired, active, answers, provider, losses>>

SyncEnds(c) ==
    /\ call[c].stage = "SUBSCRIBE" /\ call[c].left = {}
    /\ call' = [call EXCEPT ![c] = Idle]
    /\ UNCHANGED <<coordinator, pending, network, losses>>

-----------------------------------------------------------------------------
(* Answers *)

\* What an accepted request does to a set of streams.
Applied(set, method, streams) ==
    IF method = "SUBSCRIBE" THEN set \union streams ELSE set \ streams

\* Mutant of AnswerArrives: a rejection is taken for an acknowledgement.
AnswerArrivesUnread ==
    LET answer == Head(answers) IN
    /\ Interleaved
    /\ answers # <<>>
    /\ answers' = Tail(answers)
    /\ pending' = IF answer.method = "SUBSCRIBE" THEN pending \ answer.streams ELSE pending
    /\ active' = Applied(active, answer.method, answer.streams)
    /\ unsubscribing' = unsubscribing \intersect active'
    /\ UNCHANGED <<desired, call, wire, provider, losses>>

\* Mutant of AnswerArrives: the observer does not reach the coordinator's
\* pending set.
AnswerArrivesUnreconciled ==
    LET answer == Head(answers) IN
    /\ Interleaved
    /\ answers # <<>>
    /\ answers' = Tail(answers)
    /\ pending' = IF answer.method = "SUBSCRIBE" THEN pending \ answer.streams ELSE pending
    /\ active' = IF answer.ok THEN Applied(active, answer.method, answer.streams)
                 ELSE active
    /\ UNCHANGED <<desired, unsubscribing, call, wire, provider, losses>>

\* _handle_control_message(), and the observer after an acknowledgement.
AnswerArrives ==
    LET answer == Head(answers) IN
    /\ Interleaved
    /\ answers # <<>>
    /\ answers' = Tail(answers)
    /\ pending' = IF answer.method = "SUBSCRIBE" THEN pending \ answer.streams ELSE pending
    /\ IF answer.ok
       THEN /\ active' = Applied(active, answer.method, answer.streams)
            /\ unsubscribing' = unsubscribing \intersect active'
       ELSE UNCHANGED <<active, unsubscribing>>
    /\ UNCHANGED <<desired, call, wire, provider, losses>>

\* A market frame: the receive loop reconciles before it calls the handler.
FrameArrives ==
    /\ Interleaved
    /\ provider # {}
    /\ unsubscribing' = unsubscribing \intersect active
    /\ UNCHANGED <<desired, active, pending, call, network, losses>>

-----------------------------------------------------------------------------
(* The environment *)

ProviderServes ==
    LET request == Head(wire) IN
    /\ Interleaved
    /\ wire # <<>>
    /\ wire' = Tail(wire)
    /\ \E ok \in {TRUE} \union (IF request.method \in Rejects THEN {FALSE} ELSE {}) :
          /\ answers' = Append(answers, [method |-> request.method,
                                         streams |-> request.streams, ok |-> ok])
          /\ provider' = IF ok THEN Applied(provider, request.method, request.streams)
                         ELSE provider
    /\ UNCHANGED <<coordinator, pending, call, losses>>

\* The connection is lost and another one opened: a call of sync that was
\* sending raises, and connect() resets none of the sets.
ConnectionReplaced ==
    /\ Interleaved
    /\ losses < MaxLosses
    /\ losses' = losses + 1
    /\ wire' = <<>> /\ answers' = <<>> /\ provider' = {}
    /\ call' = [c \in Callers |-> Idle]
    /\ UNCHANGED <<coordinator, pending>>

Step ==
    \/ \E s \in Streams : Interleaved /\ (AddSubscription(s) \/ RemoveSubscription(s))
    \/ \E c \in Callers : SyncStarts(c) \/ SendsOn(c) \/ Unsubscribed(c) \/ SyncEnds(c)
    \/ AnswerArrives \/ FrameArrives
    \/ ProviderServes \/ ConnectionReplaced

\* The streams whose SUBSCRIBE, or the answer to it, is under way.
UnderWay ==
    UNION ({wire[i].streams : i \in {k \in DOMAIN wire : wire[k].method = "SUBSCRIBE"}}
           \union {answers[i].streams :
                     i \in {k \in DOMAIN answers : answers[k].method = "SUBSCRIBE"}})

\* What is pending when a connection is lost is left over until it is asked for
\* again or answered.
LeftoverKept ==
    leftover' = IF losses' # losses THEN pending
                ELSE (leftover \intersect pending') \ UnderWay'

Next == Step /\ LeftoverKept

Spec == Init /\ [][Next]_vars

-----------------------------------------------------------------------------
(* Properties *)

\* Whether the i-th answer under way accepts a request that names s.
Accepted(i, s) == answers[i].ok /\ s \in answers[i].streams

\* Until the connection is replaced, the active set is what the provider sends,
\* but for the answers under way, of which the last that names a stream counts:
\* "Mirror only provider-acknowledged subscriptions into active state", however
\* many requests for one stream are in flight and whatever the provider rejects.
ActiveTracksProvider ==
    losses = 0 =>
        \A s \in Streams :
            s \in provider <=>
                \/ s \in active /\ \A i \in DOMAIN answers : ~Accepted(i, s)
                \/ \E i \in DOMAIN answers :
                      /\ Accepted(i, s) /\ answers[i].method = "SUBSCRIBE"
                      /\ \A j \in DOMAIN answers : j > i => ~Accepted(j, s)

\* "Return subscriptions awaiting a correlated provider acknowledgement": every
\* pending stream has a SUBSCRIBE or its answer under way.  There is one exception,
\* which lasts: what was pending when a connection was lost stays pending on the
\* next one, for connect() resets nothing, until it is asked for again.
PendingAwaitsAnswer == pending \ leftover \subseteq UnderWay

\* No connection carries more streams than it is configured for, and no place is
\* taken by a stream that waits for nothing, unless a lost connection left it so.
PlacesAccounted == Cardinality(provider) <= MaxStreams /\ PendingAwaitsAnswer

\* When everything is answered and sync would send nothing more, the provider
\* sends what is desired: sync "compares desired vs active and sends subscribe/
\* unsubscribe commands", so no stream may be forgotten between the two.
SettledIsDesired ==
    (/\ wire = <<>> /\ answers = <<>>
     /\ \A c \in Callers : call[c] = Idle
     /\ ToSubscribe = {} /\ ToUnsubscribe = {})
        => provider = desired
=============================================================================
