------------------------ MODULE SubscriptionSync_proofs ------------------------
(***************************************************************************)
(* Proofs about the control plane of the public feed, for any streams,     *)
(* limits and losses of the connection.                                    *)
(*                                                                         *)
(* Requests and their answers form one queue, the answers in front.  What  *)
(* the limit of a connection rests on is the order in which a stream is    *)
(* named in it: an active stream is not unsubscribed before it is          *)
(* subscribed again, an inactive one not the other way round.              *)
(***************************************************************************)
EXTENDS SubscriptionSync, TLAPS, FiniteSetTheorems, SequenceTheorems, WellFoundedInduction

\* What is under way, oldest first.
InFlight == Len(answers) + Len(wire)
Flight(i) == IF i <= Len(answers) THEN answers[i] ELSE wire[i - Len(answers)]
Asks(i, m, s) == Flight(i).method = m /\ s \in Flight(i).streams
Waits(m, s) == \E i \in 1..InFlight : Asks(i, m, s)

\* No m that names s is under way before an n that names it.
NeverBefore(m, n, s) == \A i, j \in 1..InFlight : i < j /\ Asks(i, m, s) => ~Asks(j, n, s)

\* What a call of sync_with_adapter() has still to subscribe.
ToCome(c) ==
    IF call[c].stage = "UNSUBSCRIBE" THEN call[c].add
    ELSE IF call[c].stage = "SUBSCRIBE" THEN call[c].left ELSE {}

OrderInv(s) ==
    IF s \in active THEN NeverBefore("UNSUBSCRIBE", "SUBSCRIBE", s)
    ELSE NeverBefore("SUBSCRIBE", "UNSUBSCRIBE", s)

\* Whatever the provider sends or is asked for has its place.
PlaceInv(s) == s \in provider \/ Waits("SUBSCRIBE", s) => s \in active \union pending

\* What the provider still sends was asked for again after it was withdrawn.
ServedInv(s) ==
    \A i \in DOMAIN answers :
        s \in provider /\ Accepted(i, s) /\ answers[i].method = "UNSUBSCRIBE" =>
            \E j \in DOMAIN answers :
                j > i /\ answers[j].method = "SUBSCRIBE" /\ s \in answers[j].streams

\* A call acts on the differences it took when it began.
CallInv(c, s) ==
    /\ call[c].stage = "UNSUBSCRIBE" /\ s \in call[c].left =>
          s \notin call[c].add /\ (s \in active \/ ~Waits("SUBSCRIBE", s))
    /\ s \in ToCome(c) /\ s \in active => ~Waits("UNSUBSCRIBE", s)

\* The places that are taken or spoken for.
Taken == active \union pending \union
    {s \in Streams : \E c \in Callers : call[c].stage = "SUBSCRIBE" /\ s \in call[c].left}

StreamInv(s) ==
    /\ OrderInv(s) /\ PlaceInv(s) /\ ServedInv(s)
    /\ \A c \in Callers : CallInv(c, s)

Typed ==
    /\ TypeOK
    /\ \A c \in Callers : call[c].stage = "idle" => call[c].left = {}

\* No SUBSCRIBE was refused.
AllAccepted == \A i \in DOMAIN answers : answers[i].method = "SUBSCRIBE" => answers[i].ok

PlacesInv ==
    /\ Typed /\ AllAccepted
    /\ \A s \in Streams : StreamInv(s)
    /\ Cardinality(Taken) <= MaxStreams

\* One coroutine calls sync_with_adapter(), and the provider accepts SUBSCRIBE.
OneCaller == \A c, d \in Callers : c = d
NoneRefused == "SUBSCRIBE" \notin Rejects

-----------------------------------------------------------------------------
(* Requests *)

Requests == [method : Methods, streams : Batches]
Replies == [method : Methods, streams : Batches, ok : BOOLEAN]

\* One request is never empty and never over max_control_params.
LEMMA BatchFits ==
  ASSUME NEW left \in SUBSET Streams, left # {}
  PROVE  Batch(left) \in Batches
<1> DEFINE Below(s) == {t \in left : t < s}
<1>1. IsFiniteSet(left) /\ left \subseteq Nat /\ MaxParams \in Nat \ {0}
  BY SyncAssumption, FS_Subset
<1>2. \A s \in left : IsFiniteSet(Below(s)) /\ Cardinality(Below(s)) \in Nat
  BY <1>1, FS_Subset, FS_CardinalityType
<1>3. PICK s \in left : \A t \in left : ~(t < s)
  <2>1. IsWellFoundedOn(OpToRel(<, Nat), Nat)
    BY NatLessThanWellFounded
  <2>2. PICK s \in left : \A t \in left : <<t, s>> \notin OpToRel(<, Nat)
    BY <1>1, <2>1, WFMin
  <2> QED
    BY <1>1, <2>2 DEF OpToRel
<1>4. s \in Batch(left)
  <2>1. Below(s) = {}
    BY <1>3
  <2> QED
    BY <1>1, <2>1, FS_EmptySet DEF Batch
<1>5. ASSUME NEW t \in left, NEW u \in left, t < u
      PROVE  Cardinality(Below(t)) < Cardinality(Below(u))
  <2>1. Below(t) \subseteq Below(u) /\ t \in Below(u) /\ t \notin Below(t)
    <3>1. \A s1, t1, u1 \in Nat : s1 < t1 /\ t1 < u1 => s1 < u1
      OBVIOUS
    <3>2. ~(t < t)
      BY <1>1
    <3> QED
      BY <1>1, <1>5, <3>1, <3>2
  <2>2. Below(t) # Below(u)
    BY <2>1
  <2> QED
    BY <1>2, <2>1, <2>2, FS_Subset
<1> DEFINE rank == [t \in Batch(left) |-> Cardinality(Below(t))]
<1>6. Batch(left) \subseteq left
  BY DEF Batch
<1>7. rank \in Injection(Batch(left), 0 .. MaxParams - 1)
  <2>1. \A t \in Batch(left) : rank[t] \in 0 .. MaxParams - 1
    BY <1>1, <1>2, <1>6 DEF Batch
  <2>2. ASSUME NEW t \in Batch(left), NEW u \in Batch(left), rank[t] = rank[u] PROVE t = u
    <3>1. t \in Nat /\ u \in Nat
      BY <1>1, <1>6
    <3>2. ~(t < u) /\ ~(u < t)
      BY <1>2, <1>5, <1>6, <2>2
    <3> QED
      BY <3>1, <3>2
  <2> QED
    BY <2>1, <2>2 DEF Injection, IsInjective
<1>8. IsFiniteSet(0 .. MaxParams - 1) /\ Cardinality(0 .. MaxParams - 1) = MaxParams
  BY <1>1, FS_Interval
<1>9. Cardinality(Batch(left)) <= MaxParams
  BY <1>7, <1>8, FS_Injection
<1>10. IsFiniteSet(Batch(left)) /\ Cardinality(Batch(left)) \in Nat /\ Cardinality(Batch(left)) # 0
  BY <1>1, <1>4, <1>6, FS_Subset, FS_CardinalityType, FS_EmptySet
<1>11. Cardinality(Batch(left)) \in 1 .. MaxParams
  BY <1>1, <1>9, <1>10
<1> QED
  BY <1>6, <1>11 DEF Batches

\* What the loop body of _send_control() leaves behind.
LEMMA SendTyped ==
  ASSUME Typed, NEW c \in Callers, NEW method \in Methods,
         NEW left \in SUBSET Streams, NEW drop \in SUBSET Streams, NEW add \in SUBSET Streams,
         left # {}, Send(c, method, left, drop, add)
  PROVE  /\ wire' \in Seq(Requests) /\ pending' \in SUBSET Streams
         /\ call' \in [Callers -> Calls]
         /\ \A d \in Callers : call'[d].stage = "idle" => call'[d].left = {}
<1> DEFINE request == [method |-> method, streams |-> Batch(left)]
<1>1. request \in Requests /\ Batch(left) \subseteq left
  BY BatchFits DEF Requests, Batch
<1>2. /\ wire \in Seq(Requests) /\ pending \in SUBSET Streams /\ call \in [Callers -> Calls]
      /\ \A d \in Callers : call[d].stage = "idle" => call[d].left = {}
  BY DEF Typed, TypeOK, Requests
<1>3. CASE /\ wire' = Append(wire, request)
           /\ pending' = IF method = "SUBSCRIBE" THEN pending \union Batch(left) ELSE pending
           /\ call' = [call EXCEPT ![c] = [stage |-> method, left |-> left \ Batch(left),
                                           drop |-> drop, add |-> add]]
  <2>1. wire' \in Seq(Requests)
    BY <1>1, <1>2, <1>3, AppendProperties
  <2>2. pending' \in SUBSET Streams
    BY <1>1, <1>2, <1>3
  <2>3. [stage |-> method, left |-> left \ Batch(left), drop |-> drop, add |-> add] \in Calls
    BY DEF Calls
  <2>4. method # "idle"
    BY DEF Methods
  <2> QED
    BY <1>2, <1>3, <2>1, <2>2, <2>3, <2>4
<1>4. CASE call' = [call EXCEPT ![c] = Idle] /\ UNCHANGED <<wire, pending>>
  <2>1. Idle \in Calls /\ Idle.left = {}
    BY DEF Idle, Calls
  <2> QED
    BY <1>2, <1>4, <2>1
<1> QED
  BY <1>3, <1>4 DEF Send

LEMMA TypedStep == Typed /\ [Next]_vars => Typed'
<1> SUFFICES ASSUME Typed, [Next]_vars PROVE Typed'
  OBVIOUS
<1>1. /\ {desired, active, unsubscribing, pending, provider} \subseteq SUBSET Streams
      /\ call \in [Callers -> Calls] /\ losses \in 0..MaxLosses
      /\ wire \in Seq(Requests) /\ answers \in Seq(Replies)
      /\ \A c \in Callers : call[c].stage = "idle" => call[c].left = {}
  BY DEF Typed, TypeOK, Requests, Replies
<1>0. leftover' \in SUBSET Streams
  <2>1. leftover \in SUBSET Streams /\ pending \in SUBSET Streams
    BY DEF Typed, TypeOK
  <2> QED
    BY <2>1 DEF Next, LeftoverKept, vars
<1>2. Idle \in Calls /\ Idle.left = {} /\ "SUBSCRIBE" \in Methods /\ "UNSUBSCRIBE" \in Methods
  BY DEF Idle, Calls, Methods
<1>3. ASSUME NEW s \in Streams, AddSubscription(s) \/ RemoveSubscription(s) PROVE Typed'
  <2>1. desired' \in SUBSET Streams /\ UNCHANGED <<active, unsubscribing, pending, call, network, losses>>
    BY <1>1, <1>3 DEF AddSubscription, RemoveSubscription
  <2> QED
    BY <1>0, <1>1, <2>1 DEF Typed, TypeOK, network, Requests, Replies
<1>4. ASSUME NEW c \in Callers, NEW add \in SUBSET Streams, add # {}, SubscribeStarts(c, add)
      PROVE  /\ wire' \in Seq(Requests) /\ pending' \in SUBSET Streams
             /\ call' \in [Callers -> Calls]
             /\ \A d \in Callers : call'[d].stage = "idle" => call'[d].left = {}
  <2>1. CASE call' = [call EXCEPT ![c] = Idle] /\ UNCHANGED <<wire, pending>>
    BY <1>1, <1>2, <2>1
  <2>2. CASE Send(c, "SUBSCRIBE", add, {}, {})
    BY <1>2, <1>4, <2>2, SendTyped
  <2> QED
    BY <1>4, <2>1, <2>2 DEF SubscribeStarts
<1>5. ASSUME NEW c \in Callers, SyncStarts(c) \/ SendsOn(c) \/ Unsubscribed(c) \/ SyncEnds(c)
      PROVE  Typed'
  <2>1. /\ wire' \in Seq(Requests) /\ pending' \in SUBSET Streams
        /\ call' \in [Callers -> Calls]
        /\ \A d \in Callers : call'[d].stage = "idle" => call'[d].left = {}
    <3>1. CASE SyncStarts(c)
      <4>1. ToSubscribe \in SUBSET Streams /\ ToUnsubscribe \in SUBSET Streams
        BY <1>1 DEF ToSubscribe, ToUnsubscribe
      <4>2. CASE ToUnsubscribe # {} /\ Send(c, "UNSUBSCRIBE", ToUnsubscribe, ToUnsubscribe, ToSubscribe)
        BY <1>2, <4>1, <4>2, SendTyped
      <4>3. CASE ToSubscribe # {} /\ SubscribeStarts(c, ToSubscribe)
        BY <1>4, <4>1, <4>3
      <4> QED
        BY <3>1, <4>2, <4>3 DEF SyncStarts
    <3>2. CASE SendsOn(c)
      <4>1. call[c] \in Calls /\ call[c].left # {} /\ call[c].stage # "idle"
        BY <1>1, <3>2 DEF SendsOn
      <4>2. /\ call[c].stage \in Methods /\ call[c].left \in SUBSET Streams
            /\ call[c].drop \in SUBSET Streams /\ call[c].add \in SUBSET Streams
        BY <4>1 DEF Calls
      <4> QED
        BY <3>2, <4>1, <4>2, SendTyped DEF SendsOn
    <3>3. CASE Unsubscribed(c)
      <4>1. call[c].add \in SUBSET Streams
        BY <1>1 DEF Calls
      <4>2. CASE call' = [call EXCEPT ![c] = Idle] /\ UNCHANGED <<wire, pending>>
        BY <1>1, <1>2, <4>2
      <4>3. CASE call[c].add # {} /\ SubscribeStarts(c, call[c].add)
        BY <1>4, <4>1, <4>3
      <4> QED
        BY <3>3, <4>2, <4>3 DEF Unsubscribed
    <3>4. CASE SyncEnds(c)
      BY <1>1, <1>2, <3>4 DEF SyncEnds, network
    <3> QED
      BY <1>5, <3>1, <3>2, <3>3, <3>4
  <2>2. unsubscribing' \in SUBSET Streams
    BY <1>1, <1>5 DEF SyncStarts, SendsOn, Unsubscribed, SyncEnds, coordinator, Calls
  <2>3. UNCHANGED <<desired, active, answers, provider, losses>>
    BY <1>5 DEF SyncStarts, SendsOn, Unsubscribed, SyncEnds, coordinator, network
  <2> QED
    BY <1>0, <1>1, <2>1, <2>2, <2>3 DEF Typed, TypeOK, Requests, Replies
<1>6. CASE AnswerArrives
  <2>1. Head(answers) \in Replies /\ answers' \in Seq(Replies)
    BY <1>1, <1>6, HeadTailProperties DEF AnswerArrives
  <2>2. Head(answers).streams \in SUBSET Streams
    BY <2>1 DEF Replies, Batches
  <2>3. active' \in SUBSET Streams /\ unsubscribing' \in SUBSET Streams /\ pending' \in SUBSET Streams
    BY <1>1, <1>6, <2>2 DEF AnswerArrives, Applied
  <2> QED
    BY <1>0, <1>1, <1>6, <2>1, <2>3 DEF AnswerArrives, Typed, TypeOK, Requests, Replies
<1>7. CASE FrameArrives
  <2>1. unsubscribing' \in SUBSET Streams /\ UNCHANGED <<desired, active, pending, call, network, losses>>
    BY <1>1, <1>7 DEF FrameArrives
  <2> QED
    BY <1>0, <1>1, <2>1 DEF Typed, TypeOK, network, Requests, Replies
<1>8. CASE ProviderServes
  <2>1. Head(wire) \in Requests /\ wire' \in Seq(Requests)
    BY <1>1, <1>8, HeadTailProperties DEF ProviderServes
  <2>2. PICK ok \in BOOLEAN :
           /\ answers' = Append(answers, [method |-> Head(wire).method,
                                          streams |-> Head(wire).streams, ok |-> ok])
           /\ provider' = IF ok THEN Applied(provider, Head(wire).method, Head(wire).streams)
                          ELSE provider
    BY <1>8 DEF ProviderServes
  <2>3. [method |-> Head(wire).method, streams |-> Head(wire).streams, ok |-> ok] \in Replies
    BY <2>1 DEF Requests, Replies
  <2>4. answers' \in Seq(Replies)
    BY <1>1, <2>2, <2>3, AppendProperties
  <2>5. provider' \in SUBSET Streams
    BY <1>1, <2>1, <2>2 DEF Applied, Requests, Batches
  <2> QED
    BY <1>0, <1>1, <1>8, <2>1, <2>4, <2>5 DEF ProviderServes, coordinator, Typed, TypeOK, Requests, Replies
<1>9. CASE ConnectionReplaced
  <2>1. wire' \in Seq(Requests) /\ answers' \in Seq(Replies)
    BY <1>9, EmptySeq DEF ConnectionReplaced
  <2>2. losses' \in 0..MaxLosses
    BY <1>1, <1>9, SyncAssumption DEF ConnectionReplaced
  <2>3. call' \in [Callers -> Calls] /\ \A c \in Callers : call'[c].left = {}
    BY <1>2, <1>9 DEF ConnectionReplaced
  <2> QED
    BY <1>0, <1>1, <1>9, <2>1, <2>2, <2>3 DEF ConnectionReplaced, coordinator, Typed, TypeOK, Requests, Replies
<1>10. CASE UNCHANGED vars
  BY <1>0, <1>10 DEF vars, Typed, TypeOK
<1> QED
  BY <1>3, <1>5, <1>6, <1>7, <1>8, <1>9, <1>10 DEF Next, Step

LEMMA TypedInit == Init => Typed
<1> SUFFICES ASSUME Init PROVE Typed
  OBVIOUS
<1>1. Idle \in Calls /\ Idle.left = {}
  BY DEF Idle, Calls
<1>2. wire \in Seq(Requests) /\ answers \in Seq(Replies)
  BY EmptySeq DEF Init
<1>3. losses \in 0..MaxLosses
  BY SyncAssumption DEF Init
<1> QED
  BY <1>1, <1>2, <1>3 DEF Init, Typed, TypeOK, Requests, Replies

-----------------------------------------------------------------------------
(* What the steps do to the requests and answers under way *)

LEMMA FlightTyped ==
  ASSUME Typed
  PROVE  /\ wire \in Seq(Requests) /\ answers \in Seq(Replies)
         /\ Len(wire) \in Nat /\ Len(answers) \in Nat /\ InFlight \in Nat
         /\ DOMAIN answers = 1 .. Len(answers)
<1>1. wire \in Seq(Requests) /\ answers \in Seq(Replies)
  BY DEF Typed, TypeOK, Requests, Replies
<1> QED
  BY <1>1, LenProperties DEF InFlight

\* A request that is sent is the last one under way.
LEMMA SendFlight ==
  ASSUME Typed, NEW r \in Requests, wire' = Append(wire, r), answers' = answers,
         NEW m, NEW s
  PROVE  /\ Waits(m, s)' <=> Waits(m, s) \/ (r.method = m /\ s \in r.streams)
         /\ \A n : NeverBefore(m, n, s) /\ (r.method = n /\ s \in r.streams => ~Waits(m, s))
                   => NeverBefore(m, n, s)'
<1>1. /\ Len(wire) \in Nat /\ Len(answers) \in Nat /\ InFlight \in Nat
      /\ Len(wire') = Len(wire) + 1 /\ wire'[Len(wire) + 1] = r
      /\ \A i \in 1 .. Len(wire) : wire'[i] = wire[i]
  BY FlightTyped, AppendProperties
<1>2. InFlight' = InFlight + 1
  BY <1>1 DEF InFlight
<1>3. ASSUME NEW i \in 1 .. InFlight, NEW n PROVE Asks(i, n, s)' <=> Asks(i, n, s)
  BY <1>1, <1>3 DEF Asks, Flight, InFlight
<1>4. ASSUME NEW i, i = InFlight + 1, NEW n PROVE Asks(i, n, s)' <=> r.method = n /\ s \in r.streams
  BY <1>1, <1>4 DEF Asks, Flight, InFlight
<1>5. 1 .. InFlight' = (1 .. InFlight) \union {InFlight + 1}
  BY <1>1, <1>2
<1>6. Waits(m, s)' <=> Waits(m, s) \/ (r.method = m /\ s \in r.streams)
  BY <1>3, <1>4, <1>5 DEF Waits
<1>7. ASSUME NEW n, NeverBefore(m, n, s), r.method = n /\ s \in r.streams => ~Waits(m, s),
             NEW i \in 1 .. InFlight', NEW j \in 1 .. InFlight', i < j, Asks(i, m, s)'
      PROVE  ~Asks(j, n, s)'
  <2>1. i \in 1 .. InFlight
    BY <1>1, <1>2, <1>7
  <2>2. Asks(i, m, s)
    BY <1>3, <1>7, <2>1
  <2>3. CASE j \in 1 .. InFlight
    BY <1>3, <1>7, <2>1, <2>2, <2>3 DEF NeverBefore
  <2>4. CASE j = InFlight + 1
    BY <1>4, <1>7, <2>1, <2>2, <2>4 DEF Waits
  <2> QED
    BY <1>5, <2>3, <2>4
<1> QED
  BY <1>6, <1>7 DEF NeverBefore

\* An answer takes the place of its request.
LEMMA ServeFlight ==
  ASSUME Typed, wire # <<>>, wire' = Tail(wire), NEW r \in Replies,
         answers' = Append(answers, r),
         r.method = Head(wire).method, r.streams = Head(wire).streams,
         NEW m, NEW s
  PROVE  /\ Waits(m, s)' <=> Waits(m, s)
         /\ \A n : NeverBefore(m, n, s) => NeverBefore(m, n, s)'
<1>1. /\ Len(wire) \in Nat /\ Len(answers) \in Nat /\ InFlight \in Nat
      /\ Len(wire') = Len(wire) - 1 /\ \A i \in 1 .. Len(wire') : wire'[i] = wire[i + 1]
      /\ Len(answers') = Len(answers) + 1 /\ answers'[Len(answers) + 1] = r
      /\ \A i \in 1 .. Len(answers) : answers'[i] = answers[i]
      /\ Head(wire) = wire[1]
  BY FlightTyped, AppendProperties, HeadTailProperties
<1>2. InFlight' = InFlight /\ Len(wire) >= 1
  <2>1. Len(wire) >= 1
    BY <1>1, FlightTyped, EmptySeq
  <2> QED
    BY <1>1, <2>1 DEF InFlight
<1>3. ASSUME NEW i \in 1 .. InFlight, NEW n PROVE Asks(i, n, s)' <=> Asks(i, n, s)
  <2>1. CASE i <= Len(answers)
    BY <1>1, <2>1 DEF Asks, Flight, InFlight
  <2>2. CASE i = Len(answers) + 1
    <3>1. Flight(i)' = r /\ Flight(i) = wire[1]
      BY <1>1, <2>2 DEF Flight
    <3> QED
      BY <1>1, <3>1 DEF Asks
  <2>3. CASE i > Len(answers) + 1
    <3>1. i - Len(answers') \in 1 .. Len(wire') /\ i - Len(answers') + 1 = i - Len(answers)
      BY <1>1, <1>2, <2>3 DEF InFlight
    <3>2. ~(i <= Len(answers')) /\ ~(i <= Len(answers))
      BY <1>1, <2>3
    <3>3. Flight(i)' = wire'[i - Len(answers')] /\ Flight(i) = wire[i - Len(answers)]
      BY <3>2 DEF Flight
    <3> QED
      BY <1>1, <3>1, <3>3 DEF Asks
  <2> QED
    BY <1>1, <2>1, <2>2, <2>3
<1> QED
  BY <1>2, <1>3 DEF Waits, NeverBefore

\* The oldest answer leaves, and nothing that had to come before it follows.
LEMMA AnswerFlight ==
  ASSUME Typed, answers # <<>>, answers' = Tail(answers), wire' = wire, NEW m, NEW s
  PROVE  /\ Waits(m, s)' => Waits(m, s)
         /\ Waits(m, s) => Waits(m, s)' \/ (Head(answers).method = m /\ s \in Head(answers).streams)
         /\ Head(answers).method = m /\ s \in Head(answers).streams =>
               Waits(m, s) /\ \A n : NeverBefore(m, n, s) => ~Waits(n, s)'
         /\ \A n : NeverBefore(m, n, s) => NeverBefore(m, n, s)'
<1>1. /\ Len(wire) \in Nat /\ Len(answers) \in Nat /\ InFlight \in Nat
      /\ Len(answers') = Len(answers) - 1
      /\ \A i \in 1 .. Len(answers') : answers'[i] = answers[i + 1]
      /\ Head(answers) = answers[1]
  BY FlightTyped, HeadTailProperties
<1>2. InFlight' = InFlight - 1 /\ Len(answers) >= 1
  <2>1. Len(answers) >= 1
    BY <1>1, FlightTyped, EmptySeq
  <2> QED
    BY <1>1, <2>1 DEF InFlight
<1>3. ASSUME NEW i \in 1 .. InFlight', NEW n PROVE Asks(i, n, s)' <=> Asks(i + 1, n, s)
  <2>1. CASE i <= Len(answers')
    BY <1>1, <1>2, <2>1 DEF Asks, Flight, InFlight
  <2>2. CASE i > Len(answers')
    <3>1. Flight(i)' = wire'[i - Len(answers')] /\ Flight(i + 1) = wire[i + 1 - Len(answers)]
      BY <1>1, <2>2 DEF Flight
    <3>2. i - Len(answers') = i + 1 - Len(answers)
      BY <1>1
    <3> QED
      BY <3>1, <3>2 DEF Asks
  <2> QED
    BY <1>1, <2>1, <2>2
<1>4. \A i \in 1 .. InFlight' : i + 1 \in 1 .. InFlight /\ 1 < i + 1
  BY <1>1, <1>2
<1>5. \A i \in 1 .. InFlight : i = 1 \/ (i - 1 \in 1 .. InFlight' /\ i - 1 + 1 = i)
  BY <1>1, <1>2
<1>6. 1 \in 1 .. InFlight /\ \A n : Asks(1, n, s) <=> Head(answers).method = n /\ s \in Head(answers).streams
  BY <1>1, <1>2 DEF Asks, Flight, InFlight
<1>7. Waits(m, s)' => Waits(m, s)
  BY <1>3, <1>4 DEF Waits
<1>8. Waits(m, s) => Waits(m, s)' \/ (Head(answers).method = m /\ s \in Head(answers).streams)
  <2> SUFFICES ASSUME NEW i \in 1 .. InFlight, Asks(i, m, s), i # 1 PROVE Waits(m, s)'
    BY <1>6 DEF Waits
  <2>1. i - 1 \in 1 .. InFlight' /\ Asks(i - 1, m, s)'
    BY <1>3, <1>5
  <2> QED
    BY <2>1 DEF Waits
<1>9. ASSUME Head(answers).method = m, s \in Head(answers).streams, NEW n, NeverBefore(m, n, s)
      PROVE  ~Waits(n, s)'
  <2>1. \A j \in 1 .. InFlight : 1 < j => ~Asks(j, n, s)
    BY <1>6, <1>9 DEF NeverBefore
  <2> QED
    BY <1>3, <1>4, <2>1 DEF Waits
<1>10. ASSUME NEW n, NeverBefore(m, n, s), NEW i \in 1 .. InFlight', NEW j \in 1 .. InFlight',
              i < j, Asks(i, m, s)'
       PROVE  ~Asks(j, n, s)'
  <2>1. i + 1 \in 1 .. InFlight /\ j + 1 \in 1 .. InFlight /\ i + 1 < j + 1
    BY <1>1, <1>2, <1>10
  <2> QED
    BY <1>3, <1>10, <2>1 DEF NeverBefore
<1>11. Head(answers).method = m /\ s \in Head(answers).streams => Waits(m, s)
  BY <1>6 DEF Waits
<1>12. \A n : NeverBefore(m, n, s) => NeverBefore(m, n, s)'
  BY <1>10 DEF NeverBefore
<1> QED
  BY <1>7, <1>8, <1>9, <1>11, <1>12

\* A new connection starts with nothing under way.
LEMMA EmptyFlight ==
  ASSUME wire = <<>>, answers = <<>>, NEW s
  PROVE  \A m : ~Waits(m, s) /\ \A n : NeverBefore(m, n, s)
<1>1. InFlight = 0
  BY DEF InFlight
<1> QED
  BY <1>1 DEF Waits, NeverBefore

LEMMA ReplacedFlight ==
  ASSUME wire' = <<>>, answers' = <<>>, NEW s
  PROVE  \A m : ~Waits(m, s)' /\ \A n : NeverBefore(m, n, s)'
<1>1. InFlight' = 0
  BY DEF InFlight
<1> QED
  BY <1>1 DEF Waits, NeverBefore

-----------------------------------------------------------------------------
(* The places of a connection *)

\* What sends nothing and reads nothing disturbs no stream.
LEMMA StreamKept ==
  ASSUME NEW s \in Streams, StreamInv(s),
         UNCHANGED <<wire, answers, provider, active, pending>>,
         \A c \in Callers : call'[c] = call[c] \/ call'[c].stage = "idle"
  PROVE  StreamInv(s)'
<1>1. \A m : (Waits(m, s)' <=> Waits(m, s)) /\ \A n : NeverBefore(m, n, s)' <=> NeverBefore(m, n, s)
  BY DEF Waits, NeverBefore, Asks, Flight, InFlight
<1>2. OrderInv(s)' /\ PlaceInv(s)'
  BY <1>1 DEF StreamInv, OrderInv, PlaceInv
<1>3. ServedInv(s)'
  BY DEF StreamInv, ServedInv, Accepted
<1>4. ASSUME NEW c \in Callers PROVE CallInv(c, s)'
  <2>1. CallInv(c, s)
    BY DEF StreamInv
  <2>2. CASE call'[c] = call[c]
    BY <1>1, <2>1, <2>2 DEF CallInv, ToCome
  <2>3. CASE call'[c].stage = "idle"
    BY <2>3 DEF CallInv, ToCome
  <2> QED
    BY <2>2, <2>3
<1> QED
  BY <1>2, <1>3, <1>4 DEF StreamInv

\* The loop body of _send_control(), for a stream in its request or not.
LEMMA SendStream ==
  ASSUME Typed, Typed', OneCaller, NEW s \in Streams, StreamInv(s),
         NEW c \in Callers, NEW method \in Methods,
         NEW left \in SUBSET Streams, NEW drop \in SUBSET Streams, NEW add \in SUBSET Streams,
         left # {}, Send(c, method, left, drop, add),
         UNCHANGED <<active, answers, provider>>,
         method = "UNSUBSCRIBE" /\ s \in left =>
            s \notin add /\ (s \in active \/ ~Waits("SUBSCRIBE", s)),
         (method = "UNSUBSCRIBE" /\ s \in add) \/ (method = "SUBSCRIBE" /\ s \in left) =>
            (s \in active => ~Waits("UNSUBSCRIBE", s))
  PROVE  StreamInv(s)'
<1> DEFINE request == [method |-> method, streams |-> Batch(left)]
<1>1. request \in Requests /\ Batch(left) \subseteq left
  BY BatchFits DEF Requests, Batch
<1>2. \A d \in Callers : d = c
  BY DEF OneCaller
<1>3. call \in [Callers -> Calls]
  BY DEF Typed, TypeOK
<1>4. CASE /\ wire' = Append(wire, request)
           /\ pending' = IF method = "SUBSCRIBE" THEN pending \union Batch(left) ELSE pending
           /\ call' = [call EXCEPT ![c] = [stage |-> method, left |-> left \ Batch(left),
                                           drop |-> drop, add |-> add]]
  <2>1. \A m : /\ Waits(m, s)' <=> Waits(m, s) \/ (method = m /\ s \in Batch(left))
              /\ \A n : NeverBefore(m, n, s) /\ (method = n /\ s \in Batch(left) => ~Waits(m, s))
                        => NeverBefore(m, n, s)'
    BY <1>1, <1>4, SendFlight
  <2>2. call'[c] = [stage |-> method, left |-> left \ Batch(left), drop |-> drop, add |-> add]
    BY <1>3, <1>4
  <2>3. OrderInv(s)'
    BY <1>1, <2>1 DEF StreamInv, OrderInv, Methods
  <2>4. PlaceInv(s)'
    BY <1>4, <2>1 DEF StreamInv, PlaceInv
  <2>5. ServedInv(s)'
    BY DEF StreamInv, ServedInv, Accepted
  <2>6. CallInv(c, s)'
    BY <1>1, <2>1, <2>2 DEF CallInv, ToCome, Methods
  <2> QED
    BY <1>2, <2>3, <2>4, <2>5, <2>6 DEF StreamInv
<1>5. CASE call' = [call EXCEPT ![c] = Idle] /\ UNCHANGED <<wire, pending>>
  <2>1. call'[c].stage = "idle"
    BY <1>3, <1>5 DEF Idle
  <2> QED
    BY <1>2, <1>5, <2>1, StreamKept
<1> QED
  BY <1>4, <1>5 DEF Send

\* Unsubscribed streams are not active any more, subscribed ones are, and what
\* follows in the queue agrees.
LEMMA AnswerStream ==
  ASSUME Typed, Typed', NoneRefused, NEW s \in Streams, StreamInv(s), AnswerArrives,
         Head(answers).method = "SUBSCRIBE" => Head(answers).ok
  PROVE  StreamInv(s)'
<1> DEFINE answer == Head(answers)
<1>1. /\ answer \in Replies /\ answers # <<>> /\ answers' = Tail(answers)
      /\ Len(answers) \in Nat /\ Len(answers') = Len(answers) - 1
      /\ \A i \in 1 .. Len(answers') : answers'[i] = answers[i + 1]
      /\ DOMAIN answers = 1 .. Len(answers) /\ DOMAIN answers' = 1 .. Len(answers')
  BY FlightTyped, HeadTailProperties, LenProperties DEF AnswerArrives
<1>2. /\ UNCHANGED <<call, wire, provider>>
      /\ pending' = IF answer.method = "SUBSCRIBE" THEN pending \ answer.streams ELSE pending
      /\ active' = IF answer.ok THEN Applied(active, answer.method, answer.streams) ELSE active
  BY DEF AnswerArrives
<1>3. ASSUME NEW m, NEW n
      PROVE  /\ Waits(m, s)' => Waits(m, s)
             /\ Waits(m, s) => Waits(m, s)' \/ (answer.method = m /\ s \in answer.streams)
             /\ answer.method = m /\ s \in answer.streams =>
                  Waits(m, s) /\ (NeverBefore(m, n, s) => ~Waits(n, s)')
             /\ NeverBefore(m, n, s) => NeverBefore(m, n, s)'
  BY <1>1, <1>2, AnswerFlight
<1>4. (answer.method = "SUBSCRIBE" => answer.ok) /\ (answers[1] = answer) /\ Len(answers) >= 1
  <2>1. Len(answers) # 0
    BY <1>1, FlightTyped, EmptySeq
  <2> QED
    BY <1>1, <2>1, FlightTyped, HeadTailProperties
<1>5. answer.method \in Methods
  BY <1>1 DEF Replies
<1> HIDE DEF answer
<1> DEFINE sub == Waits("SUBSCRIBE", s)
           unsub == Waits("UNSUBSCRIBE", s)
           subNow == Waits("SUBSCRIBE", s)'
           unsubNow == Waits("UNSUBSCRIBE", s)'
<1>6. /\ subNow => sub
      /\ unsubNow => unsub
      /\ sub => subNow \/ (answer.method = "SUBSCRIBE" /\ s \in answer.streams)
      /\ unsub => unsubNow \/ (answer.method = "UNSUBSCRIBE" /\ s \in answer.streams)
      /\ answer.method = "SUBSCRIBE" /\ s \in answer.streams => sub
      /\ answer.method = "UNSUBSCRIBE" /\ s \in answer.streams => unsub
  BY <1>3
<1>7. /\ NeverBefore("UNSUBSCRIBE", "SUBSCRIBE", s) => NeverBefore("UNSUBSCRIBE", "SUBSCRIBE", s)'
      /\ NeverBefore("SUBSCRIBE", "UNSUBSCRIBE", s) => NeverBefore("SUBSCRIBE", "UNSUBSCRIBE", s)'
      /\ ~unsubNow => NeverBefore("UNSUBSCRIBE", "SUBSCRIBE", s)'
      /\ ~subNow => NeverBefore("SUBSCRIBE", "UNSUBSCRIBE", s)'
  <2>1. \A m, n : ~Waits(m, s)' => NeverBefore(m, n, s)'
    BY DEF Waits, NeverBefore
  <2> QED
    BY <1>3, <2>1
<1>8. /\ answer.method = "SUBSCRIBE" /\ s \in answer.streams =>
            (NeverBefore("SUBSCRIBE", "UNSUBSCRIBE", s) => ~unsubNow)
      /\ answer.method = "UNSUBSCRIBE" /\ s \in answer.streams =>
            (NeverBefore("UNSUBSCRIBE", "SUBSCRIBE", s) => ~subNow)
  <2>1. answer.method = "SUBSCRIBE" /\ s \in answer.streams =>
            (NeverBefore("SUBSCRIBE", "UNSUBSCRIBE", s) => ~unsubNow)
    BY <1>3
  <2>2. answer.method = "UNSUBSCRIBE" /\ s \in answer.streams =>
            (NeverBefore("UNSUBSCRIBE", "SUBSCRIBE", s) => ~subNow)
    BY <1>3
  <2> QED
    BY <2>1, <2>2
<1>9. /\ s \in active => NeverBefore("UNSUBSCRIBE", "SUBSCRIBE", s)
      /\ s \notin active => NeverBefore("SUBSCRIBE", "UNSUBSCRIBE", s)
      /\ s \in provider \/ sub => s \in active \/ s \in pending
  BY DEF StreamInv, OrderInv, PlaceInv
<1>10. ServedInv(s)'
  <2> SUFFICES ASSUME NEW i \in 1 .. Len(answers'), s \in provider', Accepted(i, s)',
                      answers'[i].method = "UNSUBSCRIBE"
               PROVE  \E j \in 1 .. Len(answers') :
                         j > i /\ answers'[j].method = "SUBSCRIBE" /\ s \in answers'[j].streams
    BY <1>1 DEF ServedInv
  <2>1. /\ i + 1 \in DOMAIN answers /\ s \in provider /\ Accepted(i + 1, s)
        /\ answers[i + 1].method = "UNSUBSCRIBE"
    BY <1>1, <1>2 DEF Accepted
  <2>2. PICK j \in DOMAIN answers :
           j > i + 1 /\ answers[j].method = "SUBSCRIBE" /\ s \in answers[j].streams
    BY <2>1 DEF StreamInv, ServedInv
  <2>3. j - 1 \in 1 .. Len(answers') /\ j - 1 > i /\ answers'[j - 1] = answers[j]
    BY <1>1, <2>2
  <2> QED
    BY <2>2, <2>3
\* A stream that is withdrawn now and still sent was asked for again.
<1>11. ASSUME s \in answer.streams, answer.ok, answer.method = "UNSUBSCRIBE", s \in provider
       PROVE  subNow
  <2>1. 1 \in DOMAIN answers /\ Accepted(1, s) /\ answers[1].method = "UNSUBSCRIBE"
    BY <1>1, <1>4, <1>11 DEF Accepted
  <2>2. PICK j \in DOMAIN answers :
           j > 1 /\ answers[j].method = "SUBSCRIBE" /\ s \in answers[j].streams
    BY <1>11, <2>1 DEF StreamInv, ServedInv
  <2>3. j - 1 \in 1 .. Len(answers') /\ answers'[j - 1] = answers[j]
    BY <1>1, <2>2
  <2>4. Len(answers') <= InFlight' /\ InFlight' \in Nat
    BY <1>1, <1>2, FlightTyped DEF InFlight
  <2>5. j - 1 \in 1 .. InFlight' /\ Flight(j - 1)' = answers[j]
    BY <1>1, <2>3, <2>4 DEF Flight
  <2> QED
    BY <2>2, <2>5 DEF Waits, Asks
<1>12. ASSUME NEW c \in Callers
       PROVE  /\ call[c].stage = "UNSUBSCRIBE" /\ s \in call[c].left =>
                    s \notin call[c].add /\ (s \in active \/ ~sub)
              /\ s \in ToCome(c) /\ s \in active => ~unsub
  BY DEF StreamInv, CallInv
<1>13. \A c \in Callers : call'[c] = call[c] /\ ToCome(c)' = ToCome(c)
  BY <1>2 DEF ToCome
<1>14. /\ s \in active' <=>
            IF answer.ok /\ s \in answer.streams THEN answer.method = "SUBSCRIBE" ELSE s \in active
       /\ s \in pending' <=> s \in pending /\ ~(answer.method = "SUBSCRIBE" /\ s \in answer.streams)
       /\ s \in provider' <=> s \in provider
  BY <1>2, <1>5 DEF Applied, Methods
<1> HIDE DEF sub, unsub, subNow, unsubNow
<1>15. OrderInv(s)'
  <2>1. s \in active' => NeverBefore("UNSUBSCRIBE", "SUBSCRIBE", s)'
    BY <1>5, <1>7, <1>8, <1>9, <1>14 DEF Methods
  <2>2. s \notin active' => NeverBefore("SUBSCRIBE", "UNSUBSCRIBE", s)'
    BY <1>4, <1>5, <1>7, <1>8, <1>9, <1>14 DEF Methods
  <2> QED
    BY <2>1, <2>2 DEF OrderInv
<1>16. s \in provider' \/ subNow => s \in active' \/ s \in pending'
  BY <1>4, <1>5, <1>6, <1>8, <1>9, <1>11, <1>14 DEF Methods
<1>17. PlaceInv(s)'
  BY <1>16 DEF PlaceInv, subNow
<1>18. ASSUME NEW c \in Callers PROVE CallInv(c, s)'
  <2>1. call[c].stage = "UNSUBSCRIBE" /\ s \in call[c].left =>
           s \notin call[c].add /\ (s \in active' \/ ~subNow)
    BY <1>4, <1>5, <1>6, <1>8, <1>9, <1>12, <1>14 DEF Methods
  <2>2. s \in ToCome(c) /\ s \in active' => ~unsubNow
    BY <1>4, <1>5, <1>6, <1>8, <1>9, <1>12, <1>14 DEF Methods
  <2> QED
    BY <1>13, <2>1, <2>2 DEF CallInv, subNow, unsubNow
<1> QED
  BY <1>10, <1>15, <1>17, <1>18 DEF StreamInv

\* _send_control("SUBSCRIBE") raises, or sends its first batch.
LEMMA SubscribeStream ==
  ASSUME Typed, Typed', OneCaller, NEW s \in Streams, StreamInv(s),
         NEW c \in Callers, NEW add \in SUBSET Streams, add # {},
         SubscribeStarts(c, add), UNCHANGED <<active, answers, provider>>,
         s \in add /\ s \in active => ~Waits("UNSUBSCRIBE", s)
  PROVE  StreamInv(s)'
<1>1. CASE call' = [call EXCEPT ![c] = Idle] /\ UNCHANGED <<wire, pending>>
  <2>1. \A d \in Callers : call'[d] = call[d] \/ call'[d].stage = "idle"
    BY <1>1 DEF Typed, TypeOK, Idle
  <2> QED
    BY <1>1, <2>1, StreamKept
<1>2. CASE Send(c, "SUBSCRIBE", add, {}, {})
  BY <1>2, SendStream DEF Methods
<1> QED
  BY <1>1, <1>2 DEF SubscribeStarts

\* A request becomes an answer, and its streams are sent or withdrawn.
LEMMA ServedStream ==
  ASSUME Typed, Typed', NEW s \in Streams, StreamInv(s), ProviderServes
  PROVE  StreamInv(s)'
<1>1. PICK ok \in BOOLEAN :
         /\ answers' = Append(answers, [method |-> Head(wire).method,
                                        streams |-> Head(wire).streams, ok |-> ok])
         /\ provider' = IF ok THEN Applied(provider, Head(wire).method, Head(wire).streams)
                        ELSE provider
  BY DEF ProviderServes
<1> DEFINE r == [method |-> Head(wire).method, streams |-> Head(wire).streams, ok |-> ok]
<1>2. /\ wire # <<>> /\ wire' = Tail(wire)
      /\ UNCHANGED <<active, pending, call>>
  BY DEF ProviderServes, coordinator
<1>3. Head(wire) \in Requests /\ Head(wire) = wire[1] /\ Len(wire) \in Nat /\ Len(wire) # 0
  BY <1>2, FlightTyped, HeadTailProperties, EmptySeq
<1>4. r \in Replies /\ Head(wire).method \in Methods
  BY <1>3 DEF Requests, Replies
<1>5. \A m : (Waits(m, s)' <=> Waits(m, s)) /\ \A n : NeverBefore(m, n, s) => NeverBefore(m, n, s)'
  BY <1>1, <1>2, <1>4, ServeFlight
<1>6. /\ Len(answers) \in Nat /\ Len(answers') = Len(answers) + 1
      /\ answers'[Len(answers) + 1] = r
      /\ \A i \in 1 .. Len(answers) : answers'[i] = answers[i]
      /\ DOMAIN answers = 1 .. Len(answers) /\ DOMAIN answers' = 1 .. Len(answers')
  BY <1>1, <1>4, FlightTyped, AppendProperties, LenProperties
<1>7. OrderInv(s)'
  BY <1>2, <1>5 DEF StreamInv, OrderInv
<1>8. Head(wire).method = "SUBSCRIBE" /\ s \in Head(wire).streams => Waits("SUBSCRIBE", s)
  <2> SUFFICES ASSUME Head(wire).method = "SUBSCRIBE", s \in Head(wire).streams
               PROVE  Waits("SUBSCRIBE", s)
    OBVIOUS
  <2>1. Len(answers) + 1 \in 1 .. InFlight /\ Flight(Len(answers) + 1) = wire[1]
    BY <1>3, <1>6 DEF InFlight, Flight
  <2> QED
    BY <1>3, <2>1 DEF Waits, Asks
<1>9. s \in provider' => s \in provider \/ Waits("SUBSCRIBE", s)
  BY <1>1, <1>4, <1>8 DEF Applied, Methods
<1>10. PlaceInv(s)'
  BY <1>2, <1>5, <1>9 DEF StreamInv, PlaceInv
<1>11. ServedInv(s)'
  <2> SUFFICES ASSUME NEW i \in DOMAIN answers', s \in provider', Accepted(i, s)',
                      answers'[i].method = "UNSUBSCRIBE"
               PROVE  \E j \in DOMAIN answers' :
                         j > i /\ answers'[j].method = "SUBSCRIBE" /\ s \in answers'[j].streams
    BY DEF ServedInv
  <2>1. i # Len(answers) + 1
    <3> SUFFICES ASSUME i = Len(answers) + 1 PROVE FALSE
      OBVIOUS
    <3>1. ok /\ s \in Head(wire).streams /\ Head(wire).method = "UNSUBSCRIBE"
      BY <1>6 DEF Accepted
    <3> QED
      BY <1>1, <3>1 DEF Applied
  <2>2. i \in DOMAIN answers /\ answers'[i] = answers[i]
    BY <1>6, <2>1
  <2>3. CASE s \in provider
    <3>1. Accepted(i, s) /\ answers[i].method = "UNSUBSCRIBE"
      BY <2>2 DEF Accepted
    <3>2. PICK j \in DOMAIN answers :
             j > i /\ answers[j].method = "SUBSCRIBE" /\ s \in answers[j].streams
      BY <2>2, <2>3, <3>1 DEF StreamInv, ServedInv
    <3>3. j \in DOMAIN answers' /\ answers'[j] = answers[j]
      BY <1>6
    <3> QED
      BY <3>2, <3>3
  <2>4. CASE s \notin provider
    <3>1. Head(wire).method = "SUBSCRIBE" /\ s \in Head(wire).streams
      BY <1>1, <1>4, <2>4 DEF Applied, Methods
    <3>2. Len(answers) + 1 \in DOMAIN answers' /\ Len(answers) + 1 > i
      BY <1>6, <2>2
    <3> QED
      BY <1>6, <3>1, <3>2
  <2> QED
    BY <2>3, <2>4
<1>12. ASSUME NEW c \in Callers PROVE CallInv(c, s)'
  <2>1. CallInv(c, s)
    BY DEF StreamInv
  <2> QED
    BY <1>2, <1>5, <2>1 DEF CallInv, ToCome
<1> QED
  BY <1>7, <1>10, <1>11, <1>12 DEF StreamInv

\* Every step leaves every stream in its order and in its place.
LEMMA StreamStep ==
  ASSUME Typed, Typed', AllAccepted, OneCaller, NoneRefused, [Next]_vars,
         NEW s \in Streams, StreamInv(s)
  PROVE  StreamInv(s)'
<1>1. call \in [Callers -> Calls] /\ active \in SUBSET Streams /\ desired \in SUBSET Streams
  BY DEF Typed, TypeOK
<1>2. ASSUME NEW t \in Streams, AddSubscription(t) \/ RemoveSubscription(t) PROVE StreamInv(s)'
  BY <1>2, StreamKept DEF AddSubscription, RemoveSubscription, network
<1>3. ASSUME NEW c \in Callers, SyncStarts(c) PROVE StreamInv(s)'
  <2>1. UNCHANGED <<active, answers, provider>>
    BY <1>3 DEF SyncStarts, coordinator
  <2>2. /\ ToUnsubscribe \in SUBSET Streams /\ ToSubscribe \in SUBSET Streams
        /\ s \in ToUnsubscribe => s \in active /\ s \notin ToSubscribe
        /\ s \in ToSubscribe => s \notin active
    BY <1>1 DEF ToUnsubscribe, ToSubscribe
  <2>3. CASE ToUnsubscribe # {} /\ Send(c, "UNSUBSCRIBE", ToUnsubscribe, ToUnsubscribe, ToSubscribe)
    BY <2>1, <2>2, <2>3, SendStream DEF Methods
  <2>4. CASE ToSubscribe # {} /\ SubscribeStarts(c, ToSubscribe)
    BY <2>1, <2>2, <2>4, SubscribeStream
  <2> QED
    BY <1>3, <2>3, <2>4 DEF SyncStarts
<1>4. ASSUME NEW c \in Callers, SendsOn(c) PROVE StreamInv(s)'
  <2>1. UNCHANGED <<active, answers, provider>>
    BY <1>4 DEF SendsOn, coordinator
  <2>2. call[c] \in Calls /\ call[c].left # {} /\ call[c].stage # "idle"
    BY <1>1, <1>4 DEF SendsOn, Typed
  <2>3. /\ call[c].stage \in Methods /\ call[c].left \in SUBSET Streams
        /\ call[c].drop \in SUBSET Streams /\ call[c].add \in SUBSET Streams
    BY <2>2 DEF Calls
  <2>4. CallInv(c, s)
    BY DEF StreamInv
  <2>5. call[c].stage = "UNSUBSCRIBE" /\ s \in call[c].left =>
           s \notin call[c].add /\ (s \in active \/ ~Waits("SUBSCRIBE", s))
    BY <2>4 DEF CallInv
  <2>6. (call[c].stage = "UNSUBSCRIBE" /\ s \in call[c].add)
           \/ (call[c].stage = "SUBSCRIBE" /\ s \in call[c].left) =>
              (s \in active => ~Waits("UNSUBSCRIBE", s))
    BY <2>4 DEF CallInv, ToCome
  <2> QED
    BY <1>4, <2>1, <2>2, <2>3, <2>5, <2>6, SendStream DEF SendsOn
<1>5. ASSUME NEW c \in Callers, Unsubscribed(c) PROVE StreamInv(s)'
  <2>1. UNCHANGED <<active, answers, provider>> /\ call[c].stage = "UNSUBSCRIBE"
    BY <1>5 DEF Unsubscribed
  <2>2. call[c].add \in SUBSET Streams
    BY <1>1 DEF Calls
  <2>3. CASE call' = [call EXCEPT ![c] = Idle] /\ UNCHANGED <<wire, pending>>
    <3>1. \A d \in Callers : call'[d] = call[d] \/ call'[d].stage = "idle"
      BY <1>1, <2>3 DEF Idle
    <3> QED
      BY <2>1, <2>3, <3>1, StreamKept
  <2>4. CASE call[c].add # {} /\ SubscribeStarts(c, call[c].add)
    <3>1. CallInv(c, s)
      BY DEF StreamInv
    <3>2. s \in call[c].add /\ s \in active => ~Waits("UNSUBSCRIBE", s)
      BY <2>1, <3>1 DEF CallInv, ToCome
    <3> QED
      BY <2>1, <2>2, <2>4, <3>2, SubscribeStream
  <2> QED
    BY <1>5, <2>3, <2>4 DEF Unsubscribed
<1>6. ASSUME NEW c \in Callers, SyncEnds(c) PROVE StreamInv(s)'
  <2>1. \A d \in Callers : call'[d] = call[d] \/ call'[d].stage = "idle"
    BY <1>1, <1>6 DEF SyncEnds, Idle
  <2> QED
    BY <1>6, <2>1, StreamKept DEF SyncEnds, coordinator, network
<1>7. CASE AnswerArrives
  <2>1. Head(answers).method = "SUBSCRIBE" => Head(answers).ok
    <3>1. 1 \in DOMAIN answers /\ Head(answers) = answers[1]
      BY <1>7, FlightTyped, HeadTailProperties, EmptySeq DEF AnswerArrives
    <3> QED
      BY <3>1 DEF AllAccepted
  <2> QED
    BY <1>7, <2>1, AnswerStream
<1>8. CASE FrameArrives
  BY <1>8, StreamKept DEF FrameArrives, network
<1>9. CASE ProviderServes
  BY <1>9, ServedStream
<1>10. CASE ConnectionReplaced
  <2>1. \A m : ~Waits(m, s)' /\ \A n : NeverBefore(m, n, s)'
    BY <1>10, ReplacedFlight DEF ConnectionReplaced
  <2>2. OrderInv(s)'
    BY <2>1 DEF OrderInv
  <2>3. PlaceInv(s)'
    BY <1>10, <2>1 DEF ConnectionReplaced, PlaceInv
  <2>4. ServedInv(s)'
    BY <1>10 DEF ConnectionReplaced, ServedInv
  <2>5. ASSUME NEW c \in Callers PROVE CallInv(c, s)'
    <3>1. call'[c].stage = "idle"
      BY <1>10 DEF ConnectionReplaced, Idle
    <3> QED
      BY <3>1 DEF CallInv, ToCome
  <2> QED
    BY <2>2, <2>3, <2>4, <2>5 DEF StreamInv
<1>11. CASE UNCHANGED vars
  BY <1>11, StreamKept DEF vars
<1> QED
  BY <1>2, <1>3, <1>4, <1>5, <1>6, <1>7, <1>8, <1>9, <1>10, <1>11 DEF Next, Step

\* No SUBSCRIBE is refused, if none may be.
LEMMA AcceptedStep == Typed /\ NoneRefused /\ AllAccepted /\ [Next]_vars => AllAccepted'
<1> SUFFICES ASSUME Typed, NoneRefused, AllAccepted, [Next]_vars PROVE AllAccepted'
  OBVIOUS
<1>1. DOMAIN answers = 1 .. Len(answers) /\ Len(answers) \in Nat /\ answers \in Seq(Replies)
  BY FlightTyped
<1>2. CASE answers' = answers
  BY <1>2 DEF AllAccepted
<1>3. CASE AnswerArrives
  <2>1. /\ answers # <<>> /\ answers' = Tail(answers)
        /\ Len(answers') = Len(answers) - 1 /\ DOMAIN answers' = 1 .. Len(answers')
        /\ \A i \in 1 .. Len(answers') : answers'[i] = answers[i + 1]
    BY <1>1, <1>3, HeadTailProperties, LenProperties DEF AnswerArrives
  <2>2. \A i \in DOMAIN answers' : i + 1 \in DOMAIN answers
    BY <1>1, <2>1
  <2> QED
    BY <2>1, <2>2 DEF AllAccepted
<1>4. CASE ProviderServes
  <2>1. PICK ok \in {TRUE} \union (IF Head(wire).method \in Rejects THEN {FALSE} ELSE {}) :
           answers' = Append(answers, [method |-> Head(wire).method,
                                       streams |-> Head(wire).streams, ok |-> ok])
    BY <1>4 DEF ProviderServes
  <2> DEFINE r == [method |-> Head(wire).method, streams |-> Head(wire).streams, ok |-> ok]
  <2>2. r.method = "SUBSCRIBE" => r.ok
    BY <2>1 DEF NoneRefused
  <2>3. Head(wire) \in Requests
    BY <1>4, FlightTyped, HeadTailProperties DEF ProviderServes
  <2>4. ok \in BOOLEAN
    BY <2>1
  <2>5. r \in Replies
    BY <2>3, <2>4 DEF Requests, Replies
  <2>6. /\ Len(answers') = Len(answers) + 1 /\ answers'[Len(answers) + 1] = r
        /\ DOMAIN answers' = 1 .. Len(answers')
        /\ \A i \in 1 .. Len(answers) : answers'[i] = answers[i]
    BY <1>1, <2>1, <2>5, AppendProperties, LenProperties
  <2>7. \A i \in DOMAIN answers' : i \in DOMAIN answers \/ i = Len(answers) + 1
    BY <1>1, <2>6
  <2> HIDE DEF r
  <2> QED
    BY <1>1, <2>2, <2>6, <2>7 DEF AllAccepted
<1>5. CASE ConnectionReplaced
  BY <1>5 DEF ConnectionReplaced, AllAccepted
<1> QED
  BY <1>2, <1>3, <1>4, <1>5
  DEF Next, Step, vars, network, AddSubscription, RemoveSubscription, SyncStarts, SendsOn,
      Unsubscribed, SyncEnds, FrameArrives

\* A step takes a place only where the limit of the connection is tested.
LEMMA TakenStep ==
  ASSUME Typed, Typed', OneCaller, NoneRefused, \A s \in Streams : StreamInv(s), [Next]_vars,
         Cardinality(Taken) <= MaxStreams
  PROVE  Cardinality(Taken') <= MaxStreams
<1>1. /\ call \in [Callers -> Calls] /\ active \in SUBSET Streams /\ pending \in SUBSET Streams
      /\ active' \in SUBSET Streams /\ pending' \in SUBSET Streams
  BY DEF Typed, TypeOK
<1>2. IsFiniteSet(Taken) /\ Taken \subseteq Streams
  BY <1>1, SyncAssumption, FS_Subset DEF Taken
<1>3. ASSUME Taken' \subseteq Taken PROVE Cardinality(Taken') <= MaxStreams
  <2>1. /\ Cardinality(Taken') <= Cardinality(Taken)
        /\ Cardinality(Taken') \in Nat /\ Cardinality(Taken) \in Nat /\ MaxStreams \in Nat
    BY <1>2, <1>3, FS_Subset, FS_CardinalityType, SyncAssumption
  <2> QED
    BY <2>1
<1>4. ASSUME active' = active, pending' = pending,
             \A c \in Callers : call'[c] = call[c] \/ call'[c].stage = "idle"
      PROVE  Taken' \subseteq Taken
  BY <1>4 DEF Taken
<1>5. ASSUME NEW c \in Callers PROVE [call EXCEPT ![c] = Idle][c].stage = "idle"
  BY <1>1 DEF Idle
<1>6. ASSUME NEW c \in Callers, NEW method \in Methods, NEW left \in SUBSET Streams,
             NEW drop, NEW add, Send(c, method, left, drop, add), active' = active
      PROVE  Taken' \subseteq active \union pending
                  \union (IF method = "SUBSCRIBE" THEN left ELSE {})
  <2>1. \A d \in Callers : d = c
    BY DEF OneCaller
  <2>2. CASE call' = [call EXCEPT ![c] = Idle] /\ UNCHANGED <<wire, pending>>
    BY <1>5, <1>6, <2>1, <2>2 DEF Taken
  <2>3. CASE /\ pending' = IF method = "SUBSCRIBE" THEN pending \union Batch(left) ELSE pending
             /\ call' = [call EXCEPT ![c] = [stage |-> method, left |-> left \ Batch(left),
                                             drop |-> drop, add |-> add]]
    <3>1. call'[c] = [stage |-> method, left |-> left \ Batch(left), drop |-> drop, add |-> add]
      BY <1>1, <2>3
    <3>2. Batch(left) \subseteq left
      BY DEF Batch
    <3> QED
      BY <1>6, <2>1, <2>3, <3>1, <3>2 DEF Taken
  <2> QED
    BY <1>6, <2>2, <2>3 DEF Send
<1>7. ASSUME NEW c \in Callers, NEW add \in SUBSET Streams, SubscribeStarts(c, add), active' = active
      PROVE  Cardinality(Taken') <= MaxStreams
  <2>1. CASE call' = [call EXCEPT ![c] = Idle] /\ UNCHANGED <<wire, pending>>
    BY <1>1, <1>3, <1>4, <1>5, <1>7, <2>1
  <2>2. CASE /\ ~(Cardinality(active \union pending \union add) > MaxStreams)
             /\ Send(c, "SUBSCRIBE", add, {}, {})
    <3>1. Taken' \subseteq active \union pending \union add
      BY <1>6, <1>7, <2>2 DEF Methods
    <3>2. IsFiniteSet(active \union pending \union add)
      BY <1>1, SyncAssumption, FS_Subset
    <3>3. /\ Cardinality(Taken') <= Cardinality(active \union pending \union add)
          /\ Cardinality(Taken') \in Nat /\ MaxStreams \in Nat
          /\ Cardinality(active \union pending \union add) \in Nat
      BY <3>1, <3>2, FS_Subset, FS_CardinalityType, SyncAssumption
    <3> QED
      BY <2>2, <3>3
  <2> QED
    BY <1>7, <2>1, <2>2 DEF SubscribeStarts
<1>8. ASSUME NEW c \in Callers, SyncStarts(c) PROVE Cardinality(Taken') <= MaxStreams
  <2>1. active' = active /\ ToSubscribe \in SUBSET Streams /\ ToUnsubscribe \in SUBSET Streams
    BY <1>8 DEF SyncStarts, coordinator, ToSubscribe, ToUnsubscribe, Typed, TypeOK
  <2>2. CASE Send(c, "UNSUBSCRIBE", ToUnsubscribe, ToUnsubscribe, ToSubscribe)
    <3>1. Taken' \subseteq active \union pending
      BY <1>6, <2>1, <2>2 DEF Methods
    <3> QED
      BY <1>3, <3>1 DEF Taken
  <2>3. CASE SubscribeStarts(c, ToSubscribe)
    BY <1>7, <2>1, <2>3
  <2> QED
    BY <1>8, <2>2, <2>3 DEF SyncStarts
<1>9. ASSUME NEW c \in Callers, SendsOn(c) PROVE Cardinality(Taken') <= MaxStreams
  <2>1. active' = active /\ call[c] \in Calls /\ call[c].stage # "idle"
    BY <1>1, <1>9 DEF SendsOn, coordinator, Typed
  <2>2. call[c].stage \in Methods /\ call[c].left \in SUBSET Streams
    BY <2>1 DEF Calls
  <2>3. Taken' \subseteq active \union pending
                  \union (IF call[c].stage = "SUBSCRIBE" THEN call[c].left ELSE {})
    BY <1>6, <1>9, <2>1, <2>2 DEF SendsOn
  <2>4. Taken' \subseteq Taken
    BY <2>2, <2>3 DEF Taken
  <2> QED
    BY <1>3, <2>4
<1>10. ASSUME NEW c \in Callers, Unsubscribed(c) PROVE Cardinality(Taken') <= MaxStreams
  <2>1. active' = active /\ call[c].add \in SUBSET Streams
    BY <1>1, <1>10 DEF Unsubscribed, Calls
  <2>2. CASE call' = [call EXCEPT ![c] = Idle] /\ UNCHANGED <<wire, pending>>
    BY <1>1, <1>3, <1>4, <1>5, <2>1, <2>2
  <2>3. CASE SubscribeStarts(c, call[c].add)
    BY <1>7, <2>1, <2>3
  <2> QED
    BY <1>10, <2>2, <2>3 DEF Unsubscribed
<1>11. CASE AnswerArrives
  <2>1. /\ UNCHANGED <<call, wire>> /\ answers # <<>> /\ answers' = Tail(answers)
        /\ pending' \subseteq pending
        /\ active' \subseteq active
              \union {s \in Streams : Head(answers).method = "SUBSCRIBE" /\ s \in Head(answers).streams}
    BY <1>1, <1>11 DEF AnswerArrives, Applied
  <2>2. ASSUME NEW s \in Streams, Head(answers).method = "SUBSCRIBE", s \in Head(answers).streams
        PROVE  s \in active \union pending
    <3>1. Waits("SUBSCRIBE", s)
      BY <2>1, <2>2, AnswerFlight
    <3> QED
      BY <3>1 DEF StreamInv, PlaceInv
  <2>3. Taken' \subseteq Taken
    BY <2>1, <2>2 DEF Taken
  <2> QED
    BY <1>3, <2>3
<1>12. ASSUME NEW c \in Callers, SyncEnds(c) PROVE Cardinality(Taken') <= MaxStreams
  BY <1>1, <1>3, <1>4, <1>5, <1>12 DEF SyncEnds, coordinator
<1>13. CASE ConnectionReplaced
  <2>1. \A c \in Callers : call'[c].stage = "idle"
    BY <1>13 DEF ConnectionReplaced, Idle
  <2> QED
    BY <1>3, <1>4, <1>13, <2>1 DEF ConnectionReplaced, coordinator
<1>14. CASE UNCHANGED <<active, pending, call>>
  BY <1>3, <1>4, <1>14
<1> QED
  BY <1>8, <1>9, <1>10, <1>11, <1>12, <1>13, <1>14
  DEF Next, Step, vars, coordinator, AddSubscription, RemoveSubscription, FrameArrives, ProviderServes

LEMMA PlacesInit == Init => PlacesInv
<1> SUFFICES ASSUME Init PROVE PlacesInv
  OBVIOUS
<1>1. Typed /\ wire = <<>> /\ answers = <<>> /\ active = {} /\ pending = {} /\ provider = {}
  BY TypedInit DEF Init
<1>2. AllAccepted
  BY <1>1 DEF AllAccepted
<1>3. \A c \in Callers : call[c].stage = "idle"
  BY DEF Init, Idle
<1>4. ASSUME NEW s \in Streams PROVE StreamInv(s)
  <2>1. \A m : ~Waits(m, s) /\ \A n : NeverBefore(m, n, s)
    BY <1>1, EmptyFlight
  <2>2. OrderInv(s)
    BY <2>1 DEF OrderInv
  <2>3. PlaceInv(s)
    BY <1>1, <2>1 DEF PlaceInv
  <2>4. ServedInv(s)
    BY <1>1 DEF ServedInv
  <2>5. \A c \in Callers : CallInv(c, s)
    BY <1>3 DEF CallInv, ToCome
  <2> QED
    BY <2>2, <2>3, <2>4, <2>5 DEF StreamInv
<1>5. Taken = {}
  BY <1>1, <1>3 DEF Taken
<1>6. Cardinality(Taken) <= MaxStreams
  BY <1>5, FS_EmptySet, SyncAssumption
<1> QED
  BY <1>1, <1>2, <1>4, <1>6 DEF PlacesInv

LEMMA PlacesStep ==
  ASSUME OneCaller, NoneRefused
  PROVE  PlacesInv /\ [Next]_vars => PlacesInv'
<1> SUFFICES ASSUME PlacesInv, [Next]_vars PROVE PlacesInv'
  OBVIOUS
<1>1. Typed' /\ AllAccepted'
  BY TypedStep, AcceptedStep DEF PlacesInv
<1>2. \A s \in Streams : StreamInv(s)'
  BY <1>1, StreamStep DEF PlacesInv
<1>3. Cardinality(Taken') <= MaxStreams
  BY <1>1, TakenStep DEF PlacesInv
<1> QED
  BY <1>1, <1>2, <1>3 DEF PlacesInv

-----------------------------------------------------------------------------
(* Theorems *)

\* The state of the control plane has the types it declares: no request is ever
\* empty or longer than max_control_params.
THEOREM SyncTyped == Spec => []TypeOK
<1>1. Typed => TypeOK
  BY DEF Typed
<1> QED
  BY <1>1, TypedInit, TypedStep, PTL DEF Spec

\* Under way is what is on the wire or among the answers.
LEMMA WaitsUnderWay ==
  ASSUME Typed, NEW m, NEW s
  PROVE  Waits(m, s) <=>
            \/ \E i \in DOMAIN wire : wire[i].method = m /\ s \in wire[i].streams
            \/ \E i \in DOMAIN answers : answers[i].method = m /\ s \in answers[i].streams
<1>1. /\ Len(wire) \in Nat /\ Len(answers) \in Nat
      /\ DOMAIN wire = 1 .. Len(wire) /\ DOMAIN answers = 1 .. Len(answers)
  BY FlightTyped, LenProperties
<1>2. ASSUME NEW i \in DOMAIN wire PROVE Len(answers) + i \in 1 .. InFlight /\ Flight(Len(answers) + i) = wire[i]
  <2>1. ~(Len(answers) + i <= Len(answers)) /\ Len(answers) + i - Len(answers) = i
    BY <1>1
  <2> QED
    BY <1>1, <2>1 DEF InFlight, Flight
<1>3. ASSUME NEW i \in DOMAIN answers PROVE i \in 1 .. InFlight /\ Flight(i) = answers[i]
  BY <1>1 DEF InFlight, Flight
<1>4. ASSUME NEW i \in 1 .. InFlight
      PROVE  \/ i \in DOMAIN answers /\ Flight(i) = answers[i]
             \/ i - Len(answers) \in DOMAIN wire /\ Flight(i) = wire[i - Len(answers)]
  BY <1>1 DEF InFlight, Flight
<1>5. Waits(m, s) =>
         \/ \E i \in DOMAIN wire : wire[i].method = m /\ s \in wire[i].streams
         \/ \E i \in DOMAIN answers : answers[i].method = m /\ s \in answers[i].streams
  <2> SUFFICES ASSUME NEW i \in 1 .. InFlight, Asks(i, m, s)
               PROVE  \/ \E k \in DOMAIN wire : wire[k].method = m /\ s \in wire[k].streams
                      \/ \E k \in DOMAIN answers : answers[k].method = m /\ s \in answers[k].streams
    BY DEF Waits
  <2> QED
    BY <1>4 DEF Asks
<1> QED
  BY <1>2, <1>3, <1>5 DEF Waits, Asks

UnderWayWaits == \A s : s \in UnderWay <=> Waits("SUBSCRIBE", s)

LEMMA InUnderWay == Typed => UnderWayWaits
BY WaitsUnderWay DEF UnderWay, UnderWayWaits

\* Every pending stream waits, unless it is left over.
PendingWaits == \A s \in pending \ leftover : Waits("SUBSCRIBE", s)

LEMMA PendingStep == Typed /\ Typed' /\ PendingWaits /\ [Next]_vars => PendingWaits'
<1> SUFFICES ASSUME Typed, Typed', PendingWaits, [Next]_vars, NEW s, s \in pending', s \notin leftover'
             PROVE  Waits("SUBSCRIBE", s)'
  BY DEF PendingWaits
<1>1. losses \in Nat /\ pending \in SUBSET Streams /\ call \in [Callers -> Calls]
  BY SyncAssumption DEF Typed, TypeOK
<1>12. s \in UnderWay' <=> Waits("SUBSCRIBE", s)'
  <2>1. UnderWayWaits'
    BY InUnderWay, PTL
  <2> QED
    BY <2>1 DEF UnderWayWaits
<1> SUFFICES ASSUME s \notin UnderWay' PROVE Waits("SUBSCRIBE", s)'
  BY <1>12
<1>13. CASE losses' # losses
  <2>1. CASE ConnectionReplaced
    BY <1>13, <2>1 DEF ConnectionReplaced, Next, LeftoverKept, vars
  <2> QED
    BY <1>13, <2>1
    DEF Next, Step, vars, AddSubscription, RemoveSubscription, SyncStarts, SendsOn, Unsubscribed,
        SyncEnds, AnswerArrives, FrameArrives, ProviderServes
<1> SUFFICES ASSUME losses' = losses PROVE Waits("SUBSCRIBE", s)'
  BY <1>13
<1>14. s \notin leftover
  BY DEF Next, LeftoverKept, vars
<1>2. CASE UNCHANGED <<wire, answers, pending, losses>>
  <2>1. Waits("SUBSCRIBE", s)
    BY <1>2, <1>14 DEF PendingWaits
  <2> QED
    BY <1>2, <2>1 DEF Waits, Asks, Flight, InFlight
<1>3. ASSUME NEW c \in Callers, NEW method \in Methods, NEW left \in SUBSET Streams, left # {},
             NEW drop, NEW add, Send(c, method, left, drop, add), answers' = answers, losses' = losses
      PROVE  Waits("SUBSCRIBE", s)'
  <2> DEFINE request == [method |-> method, streams |-> Batch(left)]
  <2>1. request \in Requests
    BY <1>3, BatchFits DEF Requests
  <2>2. CASE /\ wire' = Append(wire, request)
             /\ pending' = IF method = "SUBSCRIBE" THEN pending \union Batch(left) ELSE pending
    <3>1. Waits("SUBSCRIBE", s)' <=> Waits("SUBSCRIBE", s) \/ (method = "SUBSCRIBE" /\ s \in Batch(left))
      BY <1>3, <2>1, <2>2, SendFlight
    <3>2. s \in pending \/ (method = "SUBSCRIBE" /\ s \in Batch(left))
      BY <1>3, <2>2
    <3> QED
      BY <1>14, <3>1, <3>2 DEF PendingWaits
  <2>3. CASE UNCHANGED <<wire, pending>>
    BY <1>2, <1>3, <2>3
  <2> QED
    BY <1>3, <2>2, <2>3 DEF Send
<1>4. ASSUME NEW c \in Callers, NEW add \in SUBSET Streams, add # {}, SubscribeStarts(c, add),
             answers' = answers, losses' = losses
      PROVE  Waits("SUBSCRIBE", s)'
  <2>1. CASE UNCHANGED <<wire, pending>>
    BY <1>2, <1>4, <2>1
  <2>2. CASE Send(c, "SUBSCRIBE", add, {}, {})
    BY <1>3, <1>4, <2>2 DEF Methods
  <2> QED
    BY <1>4, <2>1, <2>2 DEF SubscribeStarts
<1>5. ASSUME NEW c \in Callers, SyncStarts(c) PROVE Waits("SUBSCRIBE", s)'
  <2>1. ToSubscribe \in SUBSET Streams /\ ToUnsubscribe \in SUBSET Streams
    BY DEF ToSubscribe, ToUnsubscribe, Typed, TypeOK
  <2>2. CASE ToUnsubscribe # {} /\ Send(c, "UNSUBSCRIBE", ToUnsubscribe, ToUnsubscribe, ToSubscribe)
    BY <1>3, <1>5, <2>1, <2>2 DEF SyncStarts, Methods
  <2>3. CASE ToSubscribe # {} /\ SubscribeStarts(c, ToSubscribe)
    BY <1>4, <1>5, <2>1, <2>3 DEF SyncStarts
  <2> QED
    BY <1>5, <2>2, <2>3 DEF SyncStarts
<1>6. ASSUME NEW c \in Callers, SendsOn(c) PROVE Waits("SUBSCRIBE", s)'
  <2>1. call[c] \in Calls /\ call[c].left # {} /\ call[c].stage # "idle"
    BY <1>1, <1>6 DEF SendsOn, Typed
  <2>2. call[c].stage \in Methods /\ call[c].left \in SUBSET Streams
    BY <2>1 DEF Calls
  <2> QED
    BY <1>3, <1>6, <2>1, <2>2 DEF SendsOn
<1>7. ASSUME NEW c \in Callers, Unsubscribed(c) PROVE Waits("SUBSCRIBE", s)'
  <2>1. call[c].add \in SUBSET Streams
    BY <1>1 DEF Calls
  <2> QED
    BY <1>2, <1>4, <1>7, <2>1 DEF Unsubscribed
<1>8. CASE AnswerArrives
  <2>1. /\ wire' = wire /\ losses' = losses /\ answers # <<>> /\ answers' = Tail(answers)
        /\ pending' = IF Head(answers).method = "SUBSCRIBE" THEN pending \ Head(answers).streams
                      ELSE pending
    BY <1>8 DEF AnswerArrives
  <2>2. Waits("SUBSCRIBE", s)
    BY <1>14, <2>1 DEF PendingWaits
  <2>3. Waits("SUBSCRIBE", s)' \/ (Head(answers).method = "SUBSCRIBE" /\ s \in Head(answers).streams)
    BY <2>1, <2>2, AnswerFlight
  <2> QED
    BY <2>1, <2>3
<1>9. CASE ProviderServes
  <2>1. PICK ok \in BOOLEAN :
           answers' = Append(answers, [method |-> Head(wire).method,
                                       streams |-> Head(wire).streams, ok |-> ok])
    BY <1>9 DEF ProviderServes
  <2> DEFINE r == [method |-> Head(wire).method, streams |-> Head(wire).streams, ok |-> ok]
  <2>2. wire # <<>> /\ wire' = Tail(wire) /\ pending' = pending /\ losses' = losses
    BY <1>9 DEF ProviderServes
  <2>3. Head(wire) \in Requests
    BY <2>2, FlightTyped, HeadTailProperties
  <2>4. r \in Replies
    BY <2>3 DEF Requests, Replies
  <2>5. Waits("SUBSCRIBE", s)' <=> Waits("SUBSCRIBE", s)
    BY <2>1, <2>2, <2>4, ServeFlight
  <2> QED
    BY <1>14, <2>2, <2>5 DEF PendingWaits
<1>10. CASE ConnectionReplaced
  BY <1>1, <1>10 DEF ConnectionReplaced
<1> QED
  BY <1>2, <1>5, <1>6, <1>7, <1>8, <1>9, <1>10
  DEF Next, Step, vars, coordinator, network, AddSubscription, RemoveSubscription, SyncEnds, FrameArrives

\* No pending stream waits for nothing, on any connection: its SUBSCRIBE or the
\* answer is under way, whatever is rejected or refused and however many coroutines
\* synchronise, unless the loss of a connection left it over.
THEOREM PendingIsAnswered == Spec => []PendingAwaitsAnswer
<1>1. Init => Typed /\ PendingWaits
  BY TypedInit DEF Init, PendingWaits
<1>2. Typed /\ PendingWaits => PendingAwaitsAnswer
  BY InUnderWay DEF UnderWayWaits, PendingWaits, PendingAwaitsAnswer
<1> QED
  BY <1>1, <1>2, TypedStep, PendingStep, PTL DEF Spec

\* One coroutine synchronises and the provider accepts SUBSCRIBE: then no
\* connection carries more streams than it is configured for, although requests
\* are sent in batches, their answers are late and streams come and go meanwhile.
THEOREM PlacesAreAccounted ==
  ASSUME OneCaller, NoneRefused
  PROVE  Spec => []PlacesAccounted
<1>1. PlacesInv => Cardinality(provider) <= MaxStreams
  <2> SUFFICES ASSUME PlacesInv PROVE Cardinality(provider) <= MaxStreams
    OBVIOUS
  <2>1. provider \in SUBSET Streams /\ active \in SUBSET Streams /\ pending \in SUBSET Streams
    BY DEF PlacesInv, Typed, TypeOK
  <2>2. provider \subseteq Taken
    BY <2>1 DEF PlacesInv, StreamInv, PlaceInv, Taken
  <2>3. IsFiniteSet(Taken)
    BY <2>1, SyncAssumption, FS_Subset DEF Taken
  <2>4. /\ Cardinality(provider) <= Cardinality(Taken) /\ Cardinality(Taken) <= MaxStreams
        /\ Cardinality(provider) \in Nat /\ Cardinality(Taken) \in Nat /\ MaxStreams \in Nat
    BY <2>2, <2>3, FS_Subset, FS_CardinalityType, SyncAssumption DEF PlacesInv
  <2> QED
    BY <2>4
<1>2. Spec => []PlacesInv
  BY PlacesInit, PlacesStep, PTL DEF Spec
<1>3. Spec => []PendingAwaitsAnswer
  BY PendingIsAnswered
<1>4. PlacesInv /\ PendingAwaitsAnswer => PlacesAccounted
  BY <1>1 DEF PlacesAccounted
<1> QED
  BY <1>2, <1>3, <1>4, PTL

\* The last answer under way that accepts a request naming s, if there is one,
\* and the active set otherwise, say whether the provider sends s.
Tracks(s) ==
    s \in provider <=>
        \/ s \in active /\ \A i \in DOMAIN answers : ~Accepted(i, s)
        \/ \E i \in DOMAIN answers :
              /\ Accepted(i, s) /\ answers[i].method = "SUBSCRIBE"
              /\ \A j \in DOMAIN answers : j > i => ~Accepted(j, s)

LEMMA AnswerTracks ==
  ASSUME Typed, AnswerArrives, NEW s \in Streams, Tracks(s)
  PROVE  Tracks(s)'
<1>1. /\ answers # <<>> /\ answers' = Tail(answers) /\ Head(answers) \in Replies
      /\ Head(answers) = answers[1] /\ Len(answers) \in Nat /\ Len(answers') = Len(answers) - 1
      /\ \A i \in 1 .. Len(answers') : answers'[i] = answers[i + 1]
      /\ DOMAIN answers = 1 .. Len(answers) /\ DOMAIN answers' = 1 .. Len(answers')
  BY FlightTyped, HeadTailProperties, LenProperties DEF AnswerArrives
<1>2. /\ provider' = provider
      /\ active' = IF answers[1].ok THEN Applied(active, answers[1].method, answers[1].streams) ELSE active
  BY <1>1 DEF AnswerArrives
<1>3. Len(answers) # 0
  BY <1>1, FlightTyped, EmptySeq
<1>4. 1 \in DOMAIN answers /\ answers[1].method \in Methods /\ answers[1].ok \in BOOLEAN
  BY <1>1, <1>3 DEF Replies
<1>5. ASSUME NEW i \in DOMAIN answers'
      PROVE  i + 1 \in DOMAIN answers /\ answers'[i] = answers[i + 1] /\ (Accepted(i, s)' <=> Accepted(i + 1, s))
  BY <1>1 DEF Accepted
<1>6. ASSUME NEW i \in DOMAIN answers PROVE i = 1 \/ (i - 1 \in DOMAIN answers' /\ i - 1 + 1 = i /\ i > 1)
  BY <1>1
<1> DEFINE last(i) == /\ Accepted(i, s) /\ answers[i].method = "SUBSCRIBE"
                      /\ \A j \in DOMAIN answers : j > i => ~Accepted(j, s)
           lastNow(i) == /\ Accepted(i, s)' /\ answers'[i].method = "SUBSCRIBE"
                         /\ \A j \in DOMAIN answers' : j > i => ~Accepted(j, s)'
<1>7. ASSUME NEW i \in DOMAIN answers' PROVE lastNow(i) <=> last(i + 1)
  <2>1. ASSUME lastNow(i), NEW j \in DOMAIN answers, j > i + 1 PROVE ~Accepted(j, s)
    <3>1. j - 1 \in DOMAIN answers' /\ j - 1 > i /\ j - 1 + 1 = j
      BY <1>1, <2>1
    <3> QED
      BY <1>5, <2>1, <3>1
  <2>2. ASSUME last(i + 1), NEW j \in DOMAIN answers', j > i PROVE ~Accepted(j, s)'
    <3>1. j + 1 \in DOMAIN answers /\ j + 1 > i + 1
      BY <1>1, <2>2
    <3> QED
      BY <1>5, <2>2, <3>1
  <2> QED
    BY <1>5, <2>1, <2>2
<1>8. s \in active' <=>
         IF Accepted(1, s) THEN answers[1].method = "SUBSCRIBE" ELSE s \in active
  BY <1>2, <1>4 DEF Accepted, Applied, Methods
<1>9. (\A i \in DOMAIN answers' : ~Accepted(i, s)') <=> \A j \in DOMAIN answers : j > 1 => ~Accepted(j, s)
  <2>1. ASSUME \A i \in DOMAIN answers' : ~Accepted(i, s)', NEW j \in DOMAIN answers, j > 1
        PROVE  ~Accepted(j, s)
    <3>1. j - 1 \in DOMAIN answers' /\ j - 1 + 1 = j
      BY <1>1, <2>1
    <3> QED
      BY <1>5, <2>1, <3>1
  <2>2. ASSUME \A j \in DOMAIN answers : j > 1 => ~Accepted(j, s), NEW i \in DOMAIN answers'
        PROVE  ~Accepted(i, s)'
    <3>1. i + 1 \in DOMAIN answers /\ i + 1 > 1
      BY <1>1
    <3> QED
      BY <1>5, <2>2, <3>1
  <2> QED
    BY <2>1, <2>2
<1> DEFINE later == \E j \in DOMAIN answers : j > 1 /\ last(j)
           rest == \A j \in DOMAIN answers : j > 1 => ~Accepted(j, s)
<1>10. (\E i \in DOMAIN answers' : lastNow(i)) <=> later
  <2>1. ASSUME NEW i \in DOMAIN answers', lastNow(i) PROVE later
    <3>1. i + 1 \in DOMAIN answers /\ i + 1 > 1 /\ last(i + 1)
      BY <1>1, <1>7, <2>1
    <3> QED
      BY <3>1
  <2>2. ASSUME NEW j \in DOMAIN answers, j > 1, last(j) PROVE \E i \in DOMAIN answers' : lastNow(i)
    <3>1. j - 1 \in DOMAIN answers' /\ j - 1 + 1 = j
      BY <1>1, <2>2
    <3>2. lastNow(j - 1)
      BY <1>7, <2>2, <3>1
    <3> QED
      BY <3>1, <3>2
  <2> QED
    BY <2>1, <2>2
<1>11. (\E i \in DOMAIN answers : last(i)) <=> later \/ (Accepted(1, s) /\ answers[1].method = "SUBSCRIBE" /\ rest)
  BY <1>4, <1>6
<1>12. (\A i \in DOMAIN answers : ~Accepted(i, s)) <=> rest /\ ~Accepted(1, s)
  BY <1>4, <1>6
<1>13. later => ~rest
  OBVIOUS
<1>14. s \in provider <=> (s \in active /\ \A i \in DOMAIN answers : ~Accepted(i, s))
                            \/ \E i \in DOMAIN answers : last(i)
  BY DEF Tracks
<1>15. Tracks(s)' <=> (s \in provider' <=> (s \in active' /\ \A i \in DOMAIN answers' : ~Accepted(i, s)')
                            \/ \E i \in DOMAIN answers' : lastNow(i))
  BY DEF Tracks
<1> HIDE DEF later, rest, last, lastNow
<1>16. s \in provider' <=> (s \in active' /\ rest) \/ later
  BY <1>2, <1>8, <1>11, <1>12, <1>13, <1>14
<1> QED
  BY <1>9, <1>10, <1>15, <1>16 DEF rest

LEMMA ServeTracks ==
  ASSUME Typed, ProviderServes, NEW s \in Streams, Tracks(s)
  PROVE  Tracks(s)'
<1>1. PICK ok \in BOOLEAN :
         /\ answers' = Append(answers, [method |-> Head(wire).method,
                                        streams |-> Head(wire).streams, ok |-> ok])
         /\ provider' = IF ok THEN Applied(provider, Head(wire).method, Head(wire).streams)
                        ELSE provider
  BY DEF ProviderServes
<1> DEFINE r == [method |-> Head(wire).method, streams |-> Head(wire).streams, ok |-> ok]
<1>2. Head(wire) \in Requests /\ active' = active
  BY FlightTyped, HeadTailProperties DEF ProviderServes, coordinator
<1>3. r \in Replies /\ Head(wire).method \in Methods
  BY <1>2 DEF Requests, Replies
<1>0. Len(answers) \in Nat
  BY FlightTyped
<1> PICK n \in Nat : n = Len(answers) + 1
  BY <1>0
<1>4. /\ Len(answers) \in Nat /\ answers'[n] = r
      /\ \A i \in 1 .. Len(answers) : answers'[i] = answers[i]
      /\ DOMAIN answers = 1 .. Len(answers) /\ DOMAIN answers' = 1 .. n
  BY <1>1, <1>3, FlightTyped, AppendProperties, LenProperties
<1>5. /\ n \in DOMAIN answers'
      /\ \A i \in DOMAIN answers : i \in DOMAIN answers' /\ n > i
      /\ \A i \in DOMAIN answers' : i = n \/ i \in DOMAIN answers
      /\ \A i \in DOMAIN answers' : ~(i > n)
  BY <1>4
<1>6. /\ \A i \in DOMAIN answers : answers'[i] = answers[i] /\ (Accepted(i, s)' <=> Accepted(i, s))
      /\ Accepted(n, s)' <=> ok /\ s \in Head(wire).streams
      /\ answers'[n].method = Head(wire).method
  <2>1. r.ok = ok /\ r.streams = Head(wire).streams /\ r.method = Head(wire).method
    OBVIOUS
  <2> HIDE DEF r
  <2> QED
    BY <1>4, <2>1 DEF Accepted
<1> HIDE DEF r
<1>7. CASE ok /\ s \in Head(wire).streams
  <2>1. s \in provider' <=> Head(wire).method = "SUBSCRIBE"
    BY <1>1, <1>3, <1>7 DEF Applied, Methods
  <2>2. ~\A i \in DOMAIN answers' : ~Accepted(i, s)'
    BY <1>5, <1>6, <1>7
  <2>3. (\E i \in DOMAIN answers' :
              /\ Accepted(i, s)' /\ answers'[i].method = "SUBSCRIBE"
              /\ \A j \in DOMAIN answers' : j > i => ~Accepted(j, s)')
           <=> Head(wire).method = "SUBSCRIBE"
    BY <1>5, <1>6, <1>7
  <2> QED
    BY <2>1, <2>2, <2>3 DEF Tracks
<1>8. CASE ~(ok /\ s \in Head(wire).streams)
  <2>1. s \in provider' <=> s \in provider
    BY <1>1, <1>3, <1>8 DEF Applied, Methods
  <2>2. ~Accepted(n, s)'
    BY <1>6, <1>8
  <2>3. (\A i \in DOMAIN answers' : ~Accepted(i, s)') <=> \A i \in DOMAIN answers : ~Accepted(i, s)
    BY <1>5, <1>6, <2>2
  <2>4. (\E i \in DOMAIN answers' :
              /\ Accepted(i, s)' /\ answers'[i].method = "SUBSCRIBE"
              /\ \A j \in DOMAIN answers' : j > i => ~Accepted(j, s)')
          <=> \E i \in DOMAIN answers :
              /\ Accepted(i, s) /\ answers[i].method = "SUBSCRIBE"
              /\ \A j \in DOMAIN answers : j > i => ~Accepted(j, s)
    BY <1>5, <1>6, <2>2
  <2> QED
    BY <1>2, <2>1, <2>3, <2>4 DEF Tracks
<1> QED
  BY <1>7, <1>8

\* Until the connection is replaced, the active set is what the provider sends,
\* but for the answers under way: however many requests for one stream are in
\* flight, whatever is rejected, and however many coroutines synchronise.
THEOREM ActiveIsMirrored == Spec => []ActiveTracksProvider
<1> DEFINE Tracked == losses = 0 => \A s \in Streams : Tracks(s)
<1>1. Tracked <=> ActiveTracksProvider
  BY DEF ActiveTracksProvider, Tracks
<1>2. Init => Tracked
  <2> SUFFICES ASSUME Init, NEW s \in Streams PROVE Tracks(s)
    OBVIOUS
  <2> QED
    BY DEF Init, Tracks
<1>3. Typed /\ Tracked /\ [Next]_vars => Tracked'
  <2> SUFFICES ASSUME Typed, Tracked, [Next]_vars, losses' = 0, NEW s \in Streams PROVE Tracks(s)'
    OBVIOUS
  <2>1. losses \in Nat
    BY SyncAssumption DEF Typed, TypeOK
  <2>2. CASE UNCHANGED <<active, provider, answers, losses>>
    BY <2>2 DEF Tracks, Accepted
  <2>3. CASE AnswerArrives
    <3>1. losses' = losses
      BY <2>3 DEF AnswerArrives
    <3> QED
      BY <2>3, <3>1, AnswerTracks
  <2>4. CASE ProviderServes
    <3>1. losses' = losses
      BY <2>4 DEF ProviderServes
    <3> QED
      BY <2>4, <3>1, ServeTracks
  <2>5. CASE ConnectionReplaced
    BY <2>1, <2>5 DEF ConnectionReplaced
  <2> QED
    BY <2>2, <2>3, <2>4, <2>5
    DEF Next, Step, vars, coordinator, network, AddSubscription, RemoveSubscription, SyncStarts,
        SendsOn, Unsubscribed, SyncEnds, FrameArrives
<1> HIDE DEF Tracked
<1> QED
  BY <1>1, <1>2, <1>3, TypedInit, TypedStep, PTL DEF Spec
=============================================================================
