---------------------- MODULE ConnectionSupervisor_proofs ----------------------
(***************************************************************************)
(* Proofs about the supervisor and the connection half of the adapter, for *)
(* any number of tasks of a kind, of callers of start(), of calls of       *)
(* stop(), and for any thresholds.                                         *)
(*                                                                         *)
(* The first half rests on the adapter's lock: who is at it and in which   *)
(* order, and that stop(), once it has asked for it, is the last in the    *)
(* queue until start() is called again.  The second half is about the time *)
(* before stop() is called, when nobody ever waits for the lock: whose     *)
(* turn it is to retry, and why somebody will.                             *)
(***************************************************************************)
EXTENDS ConnectionSupervisor, TLAPS, SequenceTheorems

AtLock == {"waiting", "opening", "locking", "closing"}
Calm == PCs \ AtLock
InLock(a) == \E i \in DOMAIN ad.lock : ad.lock[i] = a

\* TypeOK, but for what the places of the coroutines say of the lock.
Typed ==
    /\ sup \in Supervisors
    /\ ref \in [Kinds -> Tasks \union {None}]
    /\ pc \in [Actors -> PCs]
    /\ cancelled \subseteq Tasks
    /\ waitFor \in [Actors -> SUBSET Tasks]
    /\ breaker \in Breaker
    /\ ad \in Adapters
    /\ sub \in Subscriptions
    /\ ended \subseteq Actors

\* The lock's queue is the coroutines at the lock, each once; who uses the socket
\* is at its head.
QueueInv ==
    /\ \A i, j \in DOMAIN ad.lock : ad.lock[i] = ad.lock[j] => i = j
    /\ \A a \in Actors : pc[a] \in AtLock <=> InLock(a)
    /\ \A a \in Actors : pc[a] \in {"opening", "closing"} => ad.lock[1] = a

\* Nobody queues up behind stop(), and behind its back no socket is opened.
StopInv ==
    /\ pc[Stop] \in {"idle", "cancelling", "locking", "closing"}
    /\ sup.closing => \A i \in DOMAIN ad.lock : ad.lock[i] = Stop => i = Len(ad.lock)
    /\ sup.closing /\ pc[Stop] = "idle" => ad.lock = <<>> /\ ad.ws = "none"

IInv == Typed /\ QueueInv /\ StopInv

-----------------------------------------------------------------------------
(* The circuit breaker *)

LEMMA BreakerKept ==
  ASSUME NEW b \in Breaker
  PROVE  /\ RecordSuccess(b) \in Breaker /\ RecordFailure(b) \in Breaker
         /\ Admitted(b) \in Breaker
         /\ Cooling(b) => Cool(b) \in Breaker
<1>1. RecordSuccess(b) \in Breaker
  <2> USE BreakerAssumption DEF RecordSuccess, Breaker, BreakerStates, ClosedBreaker
  <2>1. CASE b.state = "half_open" /\ b.successes + 1 >= SuccessThreshold
    BY <2>1
  <2>2. CASE b.state = "half_open" /\ ~(b.successes + 1 >= SuccessThreshold)
    <3>1. b.successes + 1 \in 0..SuccessThreshold
      BY <2>2
    <3>2. RecordSuccess(b) = [b EXCEPT !.successes = @ + 1, !.probe = FALSE]
      BY <2>2
    <3> QED
      BY <3>1, <3>2
  <2>3. CASE b.state = "closed"
    <3>1. RecordSuccess(b) = [b EXCEPT !.failures = 0]
      BY <2>3
    <3> QED
      BY <3>1
  <2>4. CASE b.state = "open"
    BY <2>4
  <2> QED
    BY <2>1, <2>2, <2>3, <2>4
<1>2. RecordFailure(b) \in Breaker
  BY BreakerAssumption DEF RecordFailure, CountFailure, OpenBreaker, Breaker, BreakerStates
<1>3. Admitted(b) \in Breaker
  <2> USE BreakerAssumption DEF Admitted, Breaker, BreakerStates
  <2>1. CASE b.state = "closed"
    BY <2>1
  <2>2. CASE b.state = "open"
    <3>1. Admitted(b) = [b EXCEPT !.state = "half_open", !.successes = 0, !.probe = TRUE]
      BY <2>2
    <3>2. 0 \in 0..SuccessThreshold
      OBVIOUS
    <3> QED
      BY <3>1, <3>2
  <2>3. CASE b.state = "half_open"
    <3>1. Admitted(b) = [b EXCEPT !.probe = TRUE]
      BY <2>3
    <3> QED
      BY <3>1
  <2> QED
    BY <2>1, <2>2, <2>3
<1>4. Cooling(b) => Cool(b) \in Breaker
  <2>1. b.elapsed < RecoveryTimeout => b.elapsed + 1 \in 0..RecoveryTimeout
    BY BreakerAssumption DEF Breaker
  <2> QED
    BY <2>1 DEF Cooling, Cool, Breaker
<1> QED
  BY <1>1, <1>2, <1>3, <1>4

-----------------------------------------------------------------------------
(* What a step of one coroutine may do *)

\* Coroutine a is then at one of the awaits; of the others only tasks begin.
Goes(a, awaits, s) ==
    /\ ref' \in [Kinds -> Tasks \union {None}]
    /\ pc' \in [Actors -> PCs]
    /\ pc'[a] \in awaits
    /\ \A x \in Actors : x # a =>
          pc'[x] = pc[x] \/ (x \in Tasks /\ pc[x] = "idle" /\ pc'[x] \in {"reading", "sleeping"})
    /\ sup' \in Supervisors /\ sup'.closing = s.closing

LEMMA RunsToGoes ==
  ASSUME Typed, NEW a \in Actors, NEW next \in PCs, NEW s \in Supervisors,
         NEW kinds \in SUBSET Kinds, RunsTo(a, next, s, kinds)
  PROVE  Goes(a, {next}, s)
<1> DEFINE new == [k \in kinds |-> CHOOSE t \in Free(k) : TRUE]
<1>1. ASSUME NEW k \in kinds PROVE new[k] \in Tasks /\ pc[new[k]] = "idle"
  <2>1. Free(k) # {}
    BY DEF RunsTo
  <2>2. new[k] \in Free(k)
    BY <2>1
  <2> QED
    BY <2>2 DEF Free, OfKind, Alive
<1>2. /\ ref' = [k \in Kinds |-> IF k \in kinds THEN new[k] ELSE ref[k]]
      /\ pc' = [x \in Actors |->
                  IF x = a THEN next
                  ELSE IF \E k \in kinds : x = new[k] THEN FirstAwait(x)
                  ELSE pc[x]]
      /\ sup' = s
  BY DEF RunsTo
<1> HIDE DEF new
<1>3. ref' \in [Kinds -> Tasks \union {None}]
  BY <1>1, <1>2 DEF Typed
<1>4. \A x : FirstAwait(x) \in {"reading", "sleeping"} /\ FirstAwait(x) \in PCs
  BY DEF FirstAwait, PCs
<1>5. pc' \in [Actors -> PCs]
  BY <1>2, <1>4 DEF Typed
<1>6. ASSUME NEW x \in Actors, x # a
      PROVE  pc'[x] = pc[x] \/ (x \in Tasks /\ pc[x] = "idle" /\ pc'[x] \in {"reading", "sleeping"})
  BY <1>1, <1>2, <1>4, <1>6
<1>7. pc'[a] = next
  BY <1>2
<1> QED
  BY <1>2, <1>3, <1>5, <1>6, <1>7 DEF Goes

LEMMA GoesWider ==
  ASSUME NEW a, NEW from, NEW to, from \subseteq to, NEW s, NEW t, s.closing = t.closing,
         Goes(a, from, s)
  PROVE  Goes(a, to, t)
BY DEF Goes

LEMMA ReturnsCalm == ASSUME NEW a, NEW s PROVE Returns(a, s) \in Calm /\ Returns(a, s) \in PCs
BY DEF Returns, Calm, PCs, AtLock

LEMMA HandleFailureGoes ==
  ASSUME Typed, NEW a \in Actors, NEW s \in Supervisors, HandleConnectionFailure(a, s)
  PROVE  Goes(a, Calm, s)
<1> DEFINE stopped == [s EXCEPT !.state = "stopped"]
           failed  == [s EXCEPT !.state = "backing_off",
                                !.attempt = IF @ > MaxAttempts THEN @ ELSE @ + 1]
<1>1. stopped \in Supervisors /\ stopped.closing = s.closing
  BY DEF Supervisors, States
<1>2. failed \in Supervisors /\ failed.closing = s.closing
  <2>1. (IF s.attempt > MaxAttempts THEN s.attempt ELSE s.attempt + 1) \in 0..(MaxAttempts + 1)
    BY SupervisorAssumption DEF Supervisors
  <2> QED
    BY <2>1 DEF Supervisors, States
<1>3. NewProbe(failed) \in SUBSET Kinds /\ {} \in SUBSET Kinds
  BY DEF NewProbe, Kinds
<1>4. "backoff" \in PCs /\ "backoff" \in Calm
  BY DEF PCs, Calm, AtLock
<1>5. /\ Returns(a, stopped) \in Calm /\ Returns(a, stopped) \in PCs
      /\ Returns(a, failed) \in Calm /\ Returns(a, failed) \in PCs
  BY ReturnsCalm
<1>6. \/ RunsTo(a, Returns(a, stopped), stopped, {})
      \/ RunsTo(a, Returns(a, failed), failed, NewProbe(failed))
      \/ RunsTo(a, "backoff", failed, {})
  BY DEF HandleConnectionFailure
<1> HIDE DEF stopped, failed
<1>7. CASE RunsTo(a, Returns(a, stopped), stopped, {})
  <2>1. Goes(a, {Returns(a, stopped)}, stopped)
    BY <1>1, <1>3, <1>5, <1>7, RunsToGoes
  <2> QED
    BY <1>1, <1>5, <2>1, GoesWider
<1>8. CASE RunsTo(a, Returns(a, failed), failed, NewProbe(failed))
  <2>1. Goes(a, {Returns(a, failed)}, failed)
    BY <1>2, <1>3, <1>5, <1>8, RunsToGoes
  <2> QED
    BY <1>2, <1>5, <2>1, GoesWider
<1>9. CASE RunsTo(a, "backoff", failed, {})
  <2>1. Goes(a, {"backoff"}, failed)
    BY <1>2, <1>3, <1>4, <1>9, RunsToGoes
  <2> QED
    BY <1>2, <1>4, <2>1, GoesWider
<1> QED
  BY <1>6, <1>7, <1>8, <1>9

LEMMA ConnectFailedGoes ==
  ASSUME Typed, NEW a \in Actors, NEW s \in Supervisors, NEW b \in Breaker, ConnectFailed(a, s, b)
  PROVE  Goes(a, Calm, s) /\ breaker' \in Breaker
BY HandleFailureGoes, BreakerKept DEF ConnectFailed

LEMMA CancelTyped ==
  ASSUME Typed, NEW a \in Actors, CancelTasks(a)
  PROVE  cancelled' \subseteq Tasks /\ waitFor' \in [Actors -> SUBSET Tasks]
BY DEF CancelTasks, Victims, Typed

LEMMA HandleDisconnectGoes ==
  ASSUME Typed, NEW a \in Actors, HandleDisconnect(a)
  PROVE  /\ Goes(a, Calm, sup) /\ breaker' \in Breaker /\ cancelled' \subseteq Tasks
         /\ waitFor' \in [Actors -> SUBSET Tasks]
<1>1. /\ sup \in Supervisors /\ breaker \in Breaker /\ cancelled \subseteq Tasks
      /\ waitFor \in [Actors -> SUBSET Tasks] /\ {} \in SUBSET Kinds
  BY DEF Typed
<1>2. /\ "idle" \in PCs /\ "cancelling" \in PCs
      /\ {"idle"} \subseteq Calm /\ {"cancelling"} \subseteq Calm
  BY DEF PCs, Calm, AtLock
<1>3. CASE RunsTo(a, "idle", sup, {}) /\ UNCHANGED <<breaker, cancelled, waitFor>>
  <2>1. Goes(a, {"idle"}, sup)
    BY <1>1, <1>2, <1>3, RunsToGoes
  <2> QED
    BY <1>1, <1>2, <1>3, <2>1, GoesWider
<1>4. CASE /\ breaker' = RecordFailure(breaker) /\ CancelTasks(a)
           /\ HandleConnectionFailure(a, sup)
  BY <1>1, <1>4, BreakerKept, CancelTyped, HandleFailureGoes
<1>5. CASE /\ breaker' = RecordFailure(breaker) /\ CancelTasks(a)
           /\ RunsTo(a, "cancelling", sup, {})
  <2>1. Goes(a, {"cancelling"}, sup)
    BY <1>1, <1>2, <1>5, RunsToGoes
  <2>2. Goes(a, Calm, sup)
    BY <1>2, <2>1, GoesWider
  <2> QED
    BY <1>1, <1>5, <2>2, BreakerKept, CancelTyped
<1> QED
  BY <1>3, <1>4, <1>5 DEF HandleDisconnect

\* The end of _connect().
LEMMA EstablishedGoes ==
  ASSUME Typed, NEW a \in Actors, NEW s \in Supervisors, Established(a, s)
  PROVE  Goes(a, Calm, s)
<1> DEFINE subscribing == [s EXCEPT !.state = "subscribing"]
           kinds == {"message_loop", "heartbeat"} \union IF Rotates THEN {"rotation"} ELSE {}
<1>1. subscribing \in Supervisors /\ subscribing.closing = s.closing
  BY DEF Supervisors, States
<1>2. kinds \in SUBSET Kinds
  BY DEF Kinds
<1>3. Returns(a, subscribing) \in Calm /\ Returns(a, subscribing) \in PCs
  BY ReturnsCalm
<1>4. RunsTo(a, Returns(a, subscribing), subscribing, kinds)
  BY DEF Established
<1> HIDE DEF subscribing, kinds
<1>5. Goes(a, {Returns(a, subscribing)}, subscribing)
  BY <1>1, <1>2, <1>3, <1>4, RunsToGoes
<1> QED
  BY <1>1, <1>3, <1>5, GoesWider

\* adapter.connect() with the lock: it raises, or opens a socket.
LEMMA AdapterConnectGoes ==
  ASSUME Typed, NEW a \in Actors, NEW s \in Supervisors, NEW b \in Breaker,
         AdapterConnect(a, s, b)
  PROVE  /\ breaker' \in Breaker /\ UNCHANGED sub
         /\ \/ Goes(a, Calm, s) /\ ad' = [ad EXCEPT !.lock = Others(a)]
            \/ /\ Goes(a, {"opening"}, s)
               /\ ad' = [ad EXCEPT !.state = "connecting", !.closing = FALSE,
                                   !.lock = <<a>> \o Others(a)]
<1>1. CASE ConnectFailed(a, s, b) /\ ad' = [ad EXCEPT !.lock = Others(a)] /\ UNCHANGED sub
  BY <1>1, ConnectFailedGoes
<1>2. CASE /\ ad' = [ad EXCEPT !.state = "connecting", !.closing = FALSE,
                               !.lock = <<a>> \o Others(a)]
           /\ breaker' = b /\ RunsTo(a, "opening", s, {}) /\ UNCHANGED sub
  <2>1. "opening" \in PCs /\ {} \in SUBSET Kinds
    BY DEF PCs
  <2>2. Goes(a, {"opening"}, s)
    BY <1>2, <2>1, RunsToGoes
  <2> QED
    BY <1>2, <2>2
<1> QED
  BY <1>1, <1>2 DEF AdapterConnect

\* _connect(): it gives up, queues up at the lock, or takes it.
LEMMA ConnectGoes ==
  ASSUME Typed, NEW a \in Actors, NEW s \in Supervisors, Connect(a, s)
  PROVE  /\ breaker' \in Breaker /\ UNCHANGED sub
         /\ \/ Goes(a, Calm, s) /\ UNCHANGED ad
            \/ /\ ~s.closing /\ Goes(a, {"waiting"}, s)
               /\ ad' = [ad EXCEPT !.lock = Append(@, a)]
            \/ /\ ~s.closing /\ ad.lock = <<>>
               /\ \/ Goes(a, Calm, s) /\ ad' = [ad EXCEPT !.lock = Others(a)]
                  \/ /\ Goes(a, {"opening"}, s)
                     /\ ad' = [ad EXCEPT !.state = "connecting", !.closing = FALSE,
                                         !.lock = <<a>> \o Others(a)]
<1> DEFINE refused    == [s EXCEPT !.state = "backing_off"]
           connecting == [s EXCEPT !.state = "connecting"]
<1>1. /\ refused \in Supervisors /\ refused.closing = s.closing
      /\ connecting \in Supervisors /\ connecting.closing = s.closing
  BY DEF Supervisors, States
<1>2. /\ NewProbe(refused) \in SUBSET Kinds /\ {} \in SUBSET Kinds
      /\ breaker \in Breaker /\ Admitted(breaker) \in Breaker
  BY BreakerKept DEF NewProbe, Kinds, Typed
<1>3. /\ Returns(a, s) \in Calm /\ Returns(a, s) \in PCs
      /\ Returns(a, refused) \in Calm /\ Returns(a, refused) \in PCs
  BY ReturnsCalm
<1>4. \/ RunsTo(a, Returns(a, s), s, {}) /\ UNCHANGED <<breaker, ad, sub>>
      \/ /\ RunsTo(a, Returns(a, refused), refused, NewProbe(refused))
         /\ UNCHANGED <<breaker, ad, sub>>
      \/ /\ ~s.closing /\ breaker' = Admitted(breaker)
         /\ ad' = [ad EXCEPT !.lock = Append(@, a)]
         /\ RunsTo(a, "waiting", connecting, {}) /\ UNCHANGED sub
      \/ /\ ~s.closing /\ ad.lock = <<>>
         /\ AdapterConnect(a, connecting, Admitted(breaker))
  BY DEF Connect
<1> HIDE DEF refused, connecting
<1>5. CASE RunsTo(a, Returns(a, s), s, {}) /\ UNCHANGED <<breaker, ad, sub>>
  <2>1. Goes(a, {Returns(a, s)}, s)
    BY <1>2, <1>3, <1>5, RunsToGoes
  <2>2. Goes(a, Calm, s)
    BY <1>3, <2>1, GoesWider
  <2> QED
    BY <1>2, <1>5, <2>2
<1>6. CASE /\ RunsTo(a, Returns(a, refused), refused, NewProbe(refused))
           /\ UNCHANGED <<breaker, ad, sub>>
  <2>1. Goes(a, {Returns(a, refused)}, refused)
    BY <1>1, <1>2, <1>3, <1>6, RunsToGoes
  <2>2. Goes(a, Calm, s)
    BY <1>1, <1>3, <2>1, GoesWider
  <2> QED
    BY <1>2, <1>6, <2>2
<1>7. CASE /\ ~s.closing /\ breaker' = Admitted(breaker)
           /\ ad' = [ad EXCEPT !.lock = Append(@, a)]
           /\ RunsTo(a, "waiting", connecting, {}) /\ UNCHANGED sub
  <2>1. "waiting" \in PCs
    BY DEF PCs
  <2>2. Goes(a, {"waiting"}, connecting)
    BY <1>1, <1>2, <1>7, <2>1, RunsToGoes
  <2>3. Goes(a, {"waiting"}, s)
    BY <1>1, <2>2, GoesWider
  <2> QED
    BY <1>2, <1>7, <2>3
<1>8. CASE ~s.closing /\ ad.lock = <<>> /\ AdapterConnect(a, connecting, Admitted(breaker))
  <2>1. /\ breaker' \in Breaker /\ UNCHANGED sub
        /\ \/ Goes(a, Calm, connecting) /\ ad' = [ad EXCEPT !.lock = Others(a)]
           \/ /\ Goes(a, {"opening"}, connecting)
              /\ ad' = [ad EXCEPT !.state = "connecting", !.closing = FALSE,
                                  !.lock = <<a>> \o Others(a)]
    BY <1>1, <1>2, <1>8, AdapterConnectGoes
  <2>2. \A awaits : Goes(a, awaits, connecting) => Goes(a, awaits, s)
    BY <1>1, GoesWider
  <2> QED
    BY <1>8, <2>1, <2>2
<1> QED
  BY <1>4, <1>5, <1>6, <1>7, <1>8

-----------------------------------------------------------------------------
(* The adapter's lock *)

\* Everyone else keeps the order, and who was first or last still is.
LEMMA OthersQueue ==
  ASSUME Typed, QueueInv, NEW a \in Actors
  PROVE  /\ Others(a) \in Seq(Actors)
         /\ \A i, j \in DOMAIN Others(a) : Others(a)[i] = Others(a)[j] => i = j
         /\ \A x : (\E i \in DOMAIN Others(a) : Others(a)[i] = x) <=> InLock(x) /\ x # a
         /\ ~InLock(a) => Others(a) = ad.lock
         /\ \A x \in Actors : InLock(x) /\ x # a /\ ad.lock[1] = x => Others(a)[1] = x
         /\ \A x \in Actors : x # a /\ (\A i \in DOMAIN ad.lock : ad.lock[i] = x => i = Len(ad.lock))
               => \A i \in DOMAIN Others(a) : Others(a)[i] = x => i = Len(Others(a))
         /\ ad.lock[1] = a /\ InLock(a) =>
               \A i \in DOMAIN Others(a) : i + 1 \in DOMAIN ad.lock /\ Others(a)[i] = ad.lock[i + 1]
<1>1. ad.lock \in Seq(Actors) /\ Len(ad.lock) \in Nat /\ DOMAIN ad.lock = 1 .. Len(ad.lock)
  BY LenProperties DEF Typed, Adapters
<1>2. \A i, j \in DOMAIN ad.lock : ad.lock[i] = ad.lock[j] => i = j
  BY DEF QueueInv
<1>3. CASE ~InLock(a)
  <2>1. Others(a) = ad.lock
    BY <1>3 DEF Others, InLock
  <2> QED
    BY <1>1, <1>2, <1>3, <2>1 DEF InLock
<1>4. CASE InLock(a)
  <2> DEFINE p == CHOOSE i \in DOMAIN ad.lock : ad.lock[i] = a
             n == Len(ad.lock) - 1
  <2>1. p \in DOMAIN ad.lock /\ ad.lock[p] = a
    BY <1>4 DEF InLock
  <2>2. Others(a) = [i \in 1 .. n |-> ad.lock[IF i < p THEN i ELSE i + 1]]
    BY <1>4 DEF Others, InLock
  <2> HIDE DEF p
  <2>3. n \in Nat /\ p \in 1 .. (n + 1)
    BY <1>1, <2>1
  <2>4. ASSUME NEW i \in 1 .. n
        PROVE  (IF i < p THEN i ELSE i + 1) \in DOMAIN ad.lock /\ (IF i < p THEN i ELSE i + 1) # p
    BY <1>1, <2>3
  <2>5. Others(a) \in Seq(Actors)
    <3>1. \A i \in 1 .. n : ad.lock[IF i < p THEN i ELSE i + 1] \in Actors
      BY <1>1, <2>4
    <3> QED
      BY <2>2, <2>3, <3>1
  <2>6. Len(Others(a)) = n /\ DOMAIN Others(a) = 1 .. n
    BY <2>2, <2>3, <2>5, LenProperties
  <2>7. ASSUME NEW i \in DOMAIN Others(a)
        PROVE  /\ i < p => i \in DOMAIN ad.lock /\ Others(a)[i] = ad.lock[i]
               /\ ~(i < p) => i + 1 \in DOMAIN ad.lock /\ Others(a)[i] = ad.lock[i + 1]
               /\ i \in Nat
    BY <2>2, <2>4, <2>6
  <2>8. ASSUME NEW i \in DOMAIN Others(a), NEW j \in DOMAIN Others(a), Others(a)[i] = Others(a)[j]
        PROVE  i = j
    <3>1. (IF i < p THEN i ELSE i + 1) = (IF j < p THEN j ELSE j + 1)
      BY <1>2, <2>7, <2>8
    <3> QED
      BY <2>3, <2>7, <3>1
  <2>9. ASSUME NEW i \in DOMAIN Others(a) PROVE InLock(Others(a)[i]) /\ Others(a)[i] # a
    <3>1. CASE i < p
      BY <1>2, <2>1, <2>3, <2>7, <3>1 DEF InLock
    <3>2. CASE ~(i < p)
      <4>1. i + 1 # p
        BY <2>3, <2>7, <3>2
      <4> QED
        BY <1>2, <2>1, <2>7, <3>2, <4>1 DEF InLock
    <3> QED
      BY <3>1, <3>2
  <2>10. ASSUME NEW i \in DOMAIN ad.lock, i # p
         PROVE  /\ i < p => i \in DOMAIN Others(a) /\ Others(a)[i] = ad.lock[i]
                /\ ~(i < p) => i - 1 \in DOMAIN Others(a) /\ Others(a)[i - 1] = ad.lock[i]
    <3>1. i < p => i \in 1 .. n
      BY <1>1, <2>3
    <3>2. ~(i < p) => i - 1 \in 1 .. n /\ ~(i - 1 < p) /\ i - 1 + 1 = i
      BY <1>1, <2>3, <2>10
    <3> QED
      BY <2>2, <2>6, <3>1, <3>2
  <2>11. ASSUME NEW x, InLock(x), x # a PROVE \E i \in DOMAIN Others(a) : Others(a)[i] = x
    <3>1. PICK i \in DOMAIN ad.lock : ad.lock[i] = x
      BY <2>11 DEF InLock
    <3>2. i # p
      BY <2>1, <2>11, <3>1
    <3> QED
      BY <2>10, <3>1, <3>2
  <2>12. ASSUME NEW x \in Actors, InLock(x), x # a, ad.lock[1] = x PROVE Others(a)[1] = x
    <3>1. 1 \in DOMAIN ad.lock /\ 1 # p /\ 1 < p
      BY <1>1, <2>1, <2>3, <2>12
    <3> QED
      BY <2>10, <2>12, <3>1
  <2>13. ASSUME NEW x \in Actors, x # a, \A i \in DOMAIN ad.lock : ad.lock[i] = x => i = Len(ad.lock),
                NEW i \in DOMAIN Others(a), Others(a)[i] = x
         PROVE  i = Len(Others(a))
    <3>1. i \in 1 .. n
      BY <2>6
    <3>2. i < p => i = n + 1
      BY <1>1, <2>7, <2>13
    <3>3. ~(i < p) => i + 1 = n + 1
      BY <1>1, <2>7, <2>13
    <3> QED
      BY <2>3, <2>6, <3>1, <3>2, <3>3
  <2>14. ASSUME ad.lock[1] = a, NEW i \in DOMAIN Others(a)
         PROVE  i + 1 \in DOMAIN ad.lock /\ Others(a)[i] = ad.lock[i + 1]
    <3>1. 1 \in DOMAIN ad.lock
      BY <1>1, <2>3
    <3>2. p = 1
      BY <1>2, <2>1, <2>14, <3>1
    <3> QED
      BY <2>6, <2>7, <3>2
  <2> QED
    BY <1>4, <2>5, <2>8, <2>9, <2>11, <2>12, <2>13, <2>14
<1> QED
  BY <1>3, <1>4

\* Whoever leaves the lock, or was never at it, is nowhere in the queue.
LEMMA LeftQueue ==
  ASSUME Typed, QueueInv, NEW a \in Actors, NEW s, Goes(a, Calm, s), ad'.lock = Others(a)
  PROVE  QueueInv'
<1>1. \A i, j \in DOMAIN ad'.lock : ad'.lock[i] = ad'.lock[j] => i = j
  BY OthersQueue
<1>2. ASSUME NEW x \in Actors PROVE pc'[x] \in AtLock <=> InLock(x)'
  <2>1. InLock(x)' <=> InLock(x) /\ x # a
    <3>1. InLock(x)' <=> \E i \in DOMAIN ad'.lock : ad'.lock[i] = x
      BY DEF InLock
    <3>2. (\E i \in DOMAIN Others(a) : Others(a)[i] = x) <=> InLock(x) /\ x # a
      BY OthersQueue
    <3> QED
      BY <3>1, <3>2
  <2>2. x = a => pc'[x] \notin AtLock
    BY DEF Goes, Calm
  <2>3. x # a => (pc'[x] \in AtLock <=> pc[x] \in AtLock)
    BY DEF Goes, AtLock
  <2> QED
    BY <2>1, <2>2, <2>3 DEF QueueInv
<1>3. ASSUME NEW x \in Actors, pc'[x] \in {"opening", "closing"} PROVE ad'.lock[1] = x
  <2>1. x # a
    BY <1>3 DEF Goes, Calm, AtLock
  <2>2. pc[x] \in {"opening", "closing"}
    BY <1>3, <2>1 DEF Goes
  <2>3. pc[x] \in AtLock
    BY <2>2 DEF AtLock
  <2>4. InLock(x) /\ ad.lock[1] = x
    BY <2>2, <2>3 DEF QueueInv
  <2> QED
    BY <2>1, <2>4, OthersQueue
<1> QED
  BY <1>1, <1>2, <1>3 DEF QueueInv

\* Whoever finds the lock taken queues up at its end.
LEMMA JoinedQueue ==
  ASSUME Typed, QueueInv, NEW a \in Actors, NEW s, Goes(a, {"waiting", "locking"}, s),
         ~InLock(a), ad'.lock = Append(ad.lock, a)
  PROVE  /\ QueueInv'
         /\ Len(ad'.lock) = Len(ad.lock) + 1 /\ ad'.lock[Len(ad.lock) + 1] = a
         /\ DOMAIN ad'.lock = 1 .. (Len(ad.lock) + 1) /\ Len(ad.lock) \in Nat
<1>1. ad.lock \in Seq(Actors) /\ Len(ad.lock) \in Nat /\ DOMAIN ad.lock = 1 .. Len(ad.lock)
  BY LenProperties DEF Typed, Adapters
<1>2. /\ ad'.lock \in Seq(Actors) /\ Len(ad'.lock) = Len(ad.lock) + 1
      /\ ad'.lock[Len(ad.lock) + 1] = a /\ DOMAIN ad'.lock = 1 .. (Len(ad.lock) + 1)
      /\ \A i \in 1 .. Len(ad.lock) : ad'.lock[i] = ad.lock[i]
  BY <1>1, AppendProperties, LenProperties
<1>3. \A i \in DOMAIN ad'.lock : i \in DOMAIN ad.lock \/ i = Len(ad.lock) + 1
  BY <1>1, <1>2
<1>4. \A i, j \in DOMAIN ad'.lock : ad'.lock[i] = ad'.lock[j] => i = j
  BY <1>1, <1>2, <1>3 DEF QueueInv, InLock
<1>5. ASSUME NEW x \in Actors PROVE pc'[x] \in AtLock <=> InLock(x)'
  <2>1. InLock(x)' <=> InLock(x) \/ x = a
    <3>1. Len(ad.lock) + 1 \in DOMAIN ad'.lock /\ \A i \in DOMAIN ad.lock : i \in DOMAIN ad'.lock
      BY <1>1, <1>2
    <3> QED
      BY <1>1, <1>2, <1>3, <3>1 DEF InLock
  <2>2. x = a => pc'[x] \in AtLock
    BY DEF Goes, AtLock
  <2>3. x # a => (pc'[x] \in AtLock <=> pc[x] \in AtLock)
    BY DEF Goes, AtLock
  <2> QED
    BY <2>1, <2>2, <2>3 DEF QueueInv
<1>6. ASSUME NEW x \in Actors, pc'[x] \in {"opening", "closing"} PROVE ad'.lock[1] = x
  <2>1. x # a
    BY <1>6 DEF Goes
  <2>2. pc[x] \in {"opening", "closing"}
    BY <1>6, <2>1 DEF Goes
  <2>3. pc[x] \in AtLock
    BY <2>2 DEF AtLock
  <2>4. InLock(x) /\ ad.lock[1] = x
    BY <2>2, <2>3 DEF QueueInv
  <2>5. 1 \in 1 .. Len(ad.lock)
    BY <1>1, <2>4 DEF InLock
  <2> QED
    BY <1>2, <2>4, <2>5
<1> QED
  BY <1>1, <1>2, <1>4, <1>5, <1>6 DEF QueueInv

\* Whoever holds the lock has it to itself.
LEMMA HeldQueue ==
  ASSUME Typed, QueueInv, NEW a \in Actors, NEW s, Goes(a, {"opening", "closing"}, s),
         ad'.lock = <<a>> \o Others(a),
         \/ ad.lock = <<>>
         \/ ad.lock[1] = a /\ InLock(a)
  PROVE  /\ QueueInv' /\ ad'.lock[1] = a /\ DOMAIN ad'.lock = 1 .. Len(ad'.lock)
         /\ ad.lock = <<>> => Len(ad'.lock) = 1
         /\ ad.lock # <<>> => ad'.lock = ad.lock
<1>1. ad.lock \in Seq(Actors) /\ Len(ad.lock) \in Nat /\ DOMAIN ad.lock = 1 .. Len(ad.lock)
  BY LenProperties DEF Typed, Adapters
<1>2. Others(a) \in Seq(Actors) /\ Len(Others(a)) \in Nat /\ DOMAIN Others(a) = 1 .. Len(Others(a))
  BY OthersQueue, LenProperties
<1>3. /\ ad'.lock \in Seq(Actors) /\ Len(ad'.lock) = Len(Others(a)) + 1
      /\ DOMAIN ad'.lock = 1 .. (Len(Others(a)) + 1)
      /\ ad'.lock[1] = a
      /\ \A i \in 2 .. (Len(Others(a)) + 1) : ad'.lock[i] = Others(a)[i - 1]
  <2>1. <<a>> \in Seq(Actors) /\ Len(<<a>>) = 1 /\ <<a>>[1] = a
    OBVIOUS
  <2>2. /\ ad'.lock \in Seq(Actors) /\ Len(ad'.lock) = Len(<<a>>) + Len(Others(a))
        /\ \A i \in 1 .. Len(<<a>>) : ad'.lock[i] = <<a>>[i]
        /\ \A i \in (Len(<<a>>) + 1) .. (Len(<<a>>) + Len(Others(a))) :
              ad'.lock[i] = Others(a)[i - Len(<<a>>)]
    BY <1>2, <2>1, ConcatProperties
  <2>3. Len(ad'.lock) = Len(Others(a)) + 1
    BY <1>2, <2>1, <2>2
  <2>4. DOMAIN ad'.lock = 1 .. (Len(Others(a)) + 1)
    BY <2>2, <2>3, LenProperties
  <2>5. ad'.lock[1] = a
    BY <2>1, <2>2
  <2>6. \A i \in 2 .. (Len(Others(a)) + 1) : ad'.lock[i] = Others(a)[i - 1]
    BY <1>2, <2>1, <2>2
  <2> QED
    BY <2>2, <2>3, <2>4, <2>5, <2>6
<1>4. ASSUME NEW i \in DOMAIN ad'.lock, i # 1
      PROVE  i - 1 \in DOMAIN Others(a) /\ ad'.lock[i] = Others(a)[i - 1]
  BY <1>2, <1>3, <1>4
<1>5. \A i \in DOMAIN Others(a) : i + 1 \in DOMAIN ad'.lock /\ i + 1 # 1 /\ i + 1 - 1 = i
  BY <1>2, <1>3
<1>6. \A i \in DOMAIN Others(a) : Others(a)[i] # a
  BY OthersQueue
<1>7. \A i, j \in DOMAIN ad'.lock : ad'.lock[i] = ad'.lock[j] => i = j
  <2> SUFFICES ASSUME NEW i \in DOMAIN ad'.lock, NEW j \in DOMAIN ad'.lock, ad'.lock[i] = ad'.lock[j]
               PROVE  i = j
    OBVIOUS
  <2>1. CASE i # 1 /\ j # 1
    <3>1. i - 1 = j - 1
      BY <1>4, <2>1, OthersQueue
    <3> QED
      BY <1>2, <1>3, <3>1
  <2>2. CASE i = 1 \/ j = 1
    BY <1>3, <1>4, <1>6, <2>2
  <2> QED
    BY <2>1, <2>2
<1>8. ASSUME NEW x \in Actors PROVE InLock(x)' <=> InLock(x) \/ x = a
  <2>1. ASSUME InLock(x)', x # a PROVE InLock(x)
    <3>1. PICK i \in DOMAIN ad'.lock : ad'.lock[i] = x
      BY <2>1 DEF InLock
    <3>2. i - 1 \in DOMAIN Others(a) /\ Others(a)[i - 1] = x
      BY <1>3, <1>4, <2>1, <3>1
    <3> QED
      BY <3>2, OthersQueue
  <2>2. ASSUME InLock(x), x # a PROVE InLock(x)'
    <3>1. PICK i \in DOMAIN Others(a) : Others(a)[i] = x
      BY <2>2, OthersQueue
    <3>2. i + 1 \in DOMAIN ad'.lock /\ ad'.lock[i + 1] = x
      <4>1. i + 1 \in DOMAIN ad'.lock /\ i + 1 # 1 /\ i + 1 - 1 = i
        BY <1>5
      <4>2. ad'.lock[i + 1] = Others(a)[i + 1 - 1]
        BY <1>4, <4>1
      <4> QED
        BY <3>1, <4>1, <4>2
    <3> QED
      BY <3>2 DEF InLock
  <2>3. InLock(a)'
    BY <1>2, <1>3 DEF InLock
  <2> QED
    BY <2>1, <2>2, <2>3
<1>9. ASSUME NEW x \in Actors PROVE pc'[x] \in AtLock <=> InLock(x)'
  <2>1. x = a => pc'[x] \in AtLock
    BY DEF Goes, AtLock
  <2>2. x # a => (pc'[x] \in AtLock <=> pc[x] \in AtLock)
    BY DEF Goes, AtLock
  <2> QED
    BY <1>8, <2>1, <2>2 DEF QueueInv
<1>10. ASSUME NEW x \in Actors, pc'[x] \in {"opening", "closing"}, x # a PROVE FALSE
  <2>1. pc[x] \in {"opening", "closing"}
    BY <1>10 DEF Goes
  <2>2. pc[x] \in AtLock
    BY <2>1 DEF AtLock
  <2>3. InLock(x) /\ ad.lock[1] = x
    BY <2>1, <2>2 DEF QueueInv
  <2>4. ad.lock # <<>>
    BY <1>1, <2>3 DEF InLock
  <2> QED
    BY <1>10, <2>3, <2>4
<1>11. QueueInv'
  BY <1>3, <1>7, <1>9, <1>10 DEF QueueInv
<1>12. ad.lock = <<>> => Len(ad'.lock) = 1
  <2> SUFFICES ASSUME ad.lock = <<>> PROVE Len(ad'.lock) = 1
    OBVIOUS
  <2>1. ~InLock(a)
    BY DEF InLock
  <2>2. Others(a) = <<>>
    BY <2>1, OthersQueue
  <2> QED
    BY <1>3, <2>2
<1>13. ad.lock # <<>> => ad'.lock = ad.lock
  <2> SUFFICES ASSUME ad.lock # <<>> PROVE ad'.lock = ad.lock
    OBVIOUS
  <2>1. ad.lock[1] = a /\ InLock(a) /\ 1 \in DOMAIN ad.lock
    BY <1>1, EmptySeq
  <2>2. \A i \in DOMAIN Others(a) : i + 1 \in DOMAIN ad.lock /\ Others(a)[i] = ad.lock[i + 1]
    BY <2>1, OthersQueue
  <2>3. ASSUME NEW i \in DOMAIN ad'.lock PROVE i \in DOMAIN ad.lock /\ ad'.lock[i] = ad.lock[i]
    <3>1. CASE i = 1
      BY <1>3, <2>1, <3>1
    <3>2. CASE i # 1
      <4>1. i - 1 \in DOMAIN Others(a) /\ ad'.lock[i] = Others(a)[i - 1] /\ i - 1 + 1 = i
        BY <1>3, <1>4, <3>2
      <4> QED
        BY <2>2, <4>1
    <3> QED
      BY <3>1, <3>2
  <2>4. ASSUME NEW i \in DOMAIN ad.lock PROVE i \in DOMAIN ad'.lock
    <3>1. CASE i = 1
      BY <1>2, <1>3, <3>1
    <3>2. CASE i # 1
      <4>1. ad.lock[i] # a
        BY <2>1, <3>2 DEF QueueInv
      <4>2. InLock(ad.lock[i])
        BY DEF InLock
      <4>3. PICK j \in DOMAIN Others(a) : Others(a)[j] = ad.lock[i]
        BY <4>1, <4>2, OthersQueue
      <4>4. j + 1 = i
        BY <2>2, <4>3 DEF QueueInv
      <4> QED
        BY <1>5, <4>4
    <3> QED
      BY <3>1, <3>2
  <2>5. DOMAIN ad'.lock = DOMAIN ad.lock
    BY <2>3, <2>4
  <2>6. Len(ad'.lock) = Len(ad.lock)
    BY <1>1, <1>3, <2>5, LenProperties
  <2> QED
    BY <1>1, <1>3, <2>3, <2>6, SeqEqual
<1> QED
  BY <1>3, <1>11, <1>12, <1>13

-----------------------------------------------------------------------------
(* The steps of the coroutines and of the environment *)

\* What the queue says nothing about.
Rest ==
    /\ cancelled \subseteq Tasks /\ waitFor \in [Actors -> SUBSET Tasks]
    /\ breaker \in Breaker /\ ad \in Adapters /\ sub \in Subscriptions /\ ended \subseteq Actors

LEMMA StopApart ==
  /\ Stop \in Actors /\ Stop \notin Tasks /\ Stop \notin Starters
  /\ Tasks \subseteq Actors /\ Starters \subseteq Actors
BY DEF Stop, Actors, Tasks, Starters, Kinds

LEMMA CoroutineLeaves ==
  ASSUME IInv, NEW a \in Tasks \union Starters, NEW s, s.closing => sup.closing,
         Goes(a, Calm, s), ad'.lock = Others(a), Rest',
         ad.ws = "none" /\ ~InLock(a) => ad'.ws = "none"
  PROVE  IInv'
<1>1. a \in Actors /\ a # Stop /\ Stop \in Actors /\ Stop \notin Tasks
  BY StopApart
<1>2. Typed /\ QueueInv /\ StopInv
  BY DEF IInv
<1>3. QueueInv'
  BY <1>1, <1>2, LeftQueue
<1>4. Typed'
  BY DEF Rest, Typed, Goes
<1>5. pc'[Stop] = pc[Stop] /\ (sup'.closing => sup.closing)
  BY <1>1 DEF Goes
<1>6. ASSUME sup.closing
      PROVE  \A i \in DOMAIN ad'.lock : ad'.lock[i] = Stop => i = Len(ad'.lock)
  <2>1. \A i \in DOMAIN ad.lock : ad.lock[i] = Stop => i = Len(ad.lock)
    BY <1>2, <1>6 DEF StopInv
  <2>2. \A x \in Actors : x # a /\ (\A i \in DOMAIN ad.lock : ad.lock[i] = x => i = Len(ad.lock))
            => \A i \in DOMAIN Others(a) : Others(a)[i] = x => i = Len(Others(a))
    BY <1>1, <1>2, OthersQueue
  <2>3. \A i \in DOMAIN Others(a) : Others(a)[i] = Stop => i = Len(Others(a))
    BY <1>1, <2>1, <2>2
  <2> QED
    BY <2>3
<1>7. ASSUME sup.closing, pc[Stop] = "idle" PROVE ad'.lock = <<>> /\ ad'.ws = "none"
  <2>1. ad.lock = <<>> /\ ad.ws = "none"
    BY <1>2, <1>7 DEF StopInv
  <2>2. ~InLock(a)
    BY <2>1 DEF InLock
  <2> QED
    BY <1>1, <1>2, <2>1, <2>2, OthersQueue
<1> QED
  BY <1>2, <1>3, <1>4, <1>5, <1>6, <1>7 DEF IInv, StopInv

LEMMA CoroutineQueues ==
  ASSUME IInv, NEW a \in Tasks \union Starters, NEW s, ~s.closing,
         Goes(a, {"waiting"}, s), ~InLock(a), ad' = [ad EXCEPT !.lock = Append(@, a)], Rest'
  PROVE  IInv'
<1>1. a \in Actors /\ a # Stop /\ Stop \in Actors /\ Stop \notin Tasks
  BY StopApart
<1>2. Typed /\ QueueInv /\ StopInv
  BY DEF IInv
<1>3. ad'.lock = Append(ad.lock, a)
  BY <1>2 DEF Typed, Adapters
<1>4. QueueInv'
  <2>1. Goes(a, {"waiting", "locking"}, s)
    BY DEF Goes
  <2> QED
    BY <1>1, <1>2, <1>3, <2>1, JoinedQueue
<1>5. Typed'
  BY DEF Rest, Typed, Goes
<1>6. pc'[Stop] = pc[Stop] /\ ~sup'.closing
  BY <1>1 DEF Goes
<1> QED
  BY <1>2, <1>4, <1>5, <1>6 DEF IInv, StopInv

LEMMA CoroutineTakes ==
  ASSUME IInv, NEW a \in Tasks \union Starters, NEW s, s.closing => sup.closing,
         Goes(a, {"opening"}, s), ad'.lock = <<a>> \o Others(a), ad'.ws = ad.ws, Rest',
         \/ ad.lock = <<>> /\ ~s.closing
         \/ ad.lock[1] = a /\ InLock(a)
  PROVE  IInv'
<1>1. a \in Actors /\ a # Stop /\ Stop \in Actors /\ Stop \notin Tasks
  BY StopApart
<1>2. Typed /\ QueueInv /\ StopInv
  BY DEF IInv
<1>3. Goes(a, {"opening", "closing"}, s)
  BY DEF Goes
<1>4. QueueInv' /\ (ad.lock # <<>> => ad'.lock = ad.lock)
  BY <1>1, <1>2, <1>3, HeldQueue
<1>5. Typed'
  BY DEF Rest, Typed, Goes
<1>6. pc'[Stop] = pc[Stop] /\ (sup'.closing <=> s.closing)
  BY <1>1 DEF Goes
<1>7. InLock(a) => ad.lock # <<>>
  BY DEF InLock
<1> QED
  BY <1>2, <1>4, <1>5, <1>6, <1>7 DEF IInv, StopInv

LEMMA NobodyMoves ==
  ASSUME IInv, pc' = pc, ref' = ref, sup' \in Supervisors, sup'.closing = sup.closing,
         ad'.lock = ad.lock, ad.ws = "none" => ad'.ws = "none", Rest'
  PROVE  IInv'
<1>1. Typed'
  BY DEF IInv, Rest, Typed
<1>2. QueueInv'
  BY DEF IInv, QueueInv, InLock
<1>3. StopInv'
  BY DEF IInv, StopInv
<1> QED
  BY <1>1, <1>2, <1>3 DEF IInv

LEMMA RestKept == IInv => Rest
BY DEF IInv, Typed, Rest

LEMMA AdapterTyped ==
  ASSUME IInv, NEW a \in Actors
  PROVE  /\ ad \in Adapters /\ Others(a) \in Seq(Actors) /\ Append(ad.lock, a) \in Seq(Actors)
         /\ <<a>> \o Others(a) \in Seq(Actors)
         /\ \A q \in Seq(Actors) : [ad EXCEPT !.lock = q] \in Adapters /\ [ad EXCEPT !.lock = q].lock = q
<1>1. ad \in Adapters /\ Others(a) \in Seq(Actors)
  BY OthersQueue DEF IInv, Typed
<1>2. ad.lock \in Seq(Actors) /\ <<a>> \in Seq(Actors)
  BY <1>1 DEF Adapters
<1>3. Append(ad.lock, a) \in Seq(Actors) /\ <<a>> \o Others(a) \in Seq(Actors)
  BY <1>1, <1>2, AppendProperties, ConcatProperties
<1> QED
  BY <1>1, <1>3 DEF Adapters

\* Every attempt to connect finds its place in the queue or leaves it.
LEMMA ConnectKeeps ==
  ASSUME IInv, NEW a \in Tasks \union Starters, NEW s \in Supervisors, Connect(a, s),
         s.closing => sup.closing, ~InLock(a), UNCHANGED <<cancelled, waitFor, ended>>
  PROVE  IInv'
<1>1. a \in Actors /\ Typed /\ QueueInv
  BY StopApart DEF IInv
<1>2. /\ breaker' \in Breaker /\ UNCHANGED sub
      /\ \/ Goes(a, Calm, s) /\ UNCHANGED ad
         \/ /\ ~s.closing /\ Goes(a, {"waiting"}, s)
            /\ ad' = [ad EXCEPT !.lock = Append(@, a)]
         \/ /\ ~s.closing /\ ad.lock = <<>>
            /\ \/ Goes(a, Calm, s) /\ ad' = [ad EXCEPT !.lock = Others(a)]
               \/ /\ Goes(a, {"opening"}, s)
                  /\ ad' = [ad EXCEPT !.state = "connecting", !.closing = FALSE,
                                      !.lock = <<a>> \o Others(a)]
  BY <1>1, ConnectGoes
<1>3. /\ ad \in Adapters /\ Others(a) \in Seq(Actors) /\ Append(ad.lock, a) \in Seq(Actors)
      /\ <<a>> \o Others(a) \in Seq(Actors) /\ Others(a) = ad.lock
  BY <1>1, AdapterTyped, OthersQueue
<1>4. ASSUME ad' \in Adapters PROVE Rest'
  BY <1>2, <1>4, RestKept DEF Rest
<1>5. CASE Goes(a, Calm, s) /\ UNCHANGED ad
  BY <1>3, <1>4, <1>5, CoroutineLeaves
<1>6. CASE ~s.closing /\ Goes(a, {"waiting"}, s) /\ ad' = [ad EXCEPT !.lock = Append(@, a)]
  <2>1. ad' \in Adapters
    BY <1>3, <1>6 DEF Adapters
  <2> QED
    BY <1>4, <1>6, <2>1, CoroutineQueues
<1>7. CASE Goes(a, Calm, s) /\ ad' = [ad EXCEPT !.lock = Others(a)]
  <2>1. ad' \in Adapters /\ ad'.lock = Others(a) /\ ad'.ws = ad.ws
    BY <1>3, <1>7 DEF Adapters
  <2> QED
    BY <1>4, <1>7, <2>1, CoroutineLeaves
<1>8. CASE /\ ~s.closing /\ ad.lock = <<>> /\ Goes(a, {"opening"}, s)
           /\ ad' = [ad EXCEPT !.state = "connecting", !.closing = FALSE,
                               !.lock = <<a>> \o Others(a)]
  <2>1. ad' \in Adapters /\ ad'.lock = <<a>> \o Others(a) /\ ad'.ws = ad.ws
    BY <1>3, <1>8 DEF Adapters, States
  <2> QED
    BY <1>4, <1>8, <2>1, CoroutineTakes
<1> QED
  BY <1>2, <1>5, <1>6, <1>7, <1>8

\* Away from the lock nothing of it changes.
LEMMA Unlocked == ASSUME QueueInv, NEW a \in Actors, pc[a] \notin AtLock PROVE ~InLock(a)
BY DEF QueueInv

\* Handling a failure of a task's own.
LEMMA DisconnectKeeps ==
  ASSUME IInv, NEW t \in Tasks, HandleDisconnect(t), pc[t] \notin AtLock,
         ad' \in Adapters, ad'.lock = ad.lock, ad'.ws = ad.ws, UNCHANGED sub, ended' \subseteq Actors
  PROVE  IInv'
<1>1. t \in Actors /\ Typed /\ QueueInv
  BY StopApart DEF IInv
<1>2. ~InLock(t) /\ Others(t) = ad.lock
  BY <1>1, Unlocked, OthersQueue
<1>3. /\ Goes(t, Calm, sup) /\ breaker' \in Breaker /\ cancelled' \subseteq Tasks
      /\ waitFor' \in [Actors -> SUBSET Tasks]
  BY <1>1, HandleDisconnectGoes
<1>4. Rest'
  BY <1>3, RestKept DEF Rest
<1> QED
  BY <1>2, <1>3, <1>4, CoroutineLeaves

\* A coroutine away from the lock runs on.
LEMMA RunKeeps ==
  ASSUME IInv, NEW a \in Tasks \union Starters, pc[a] \notin AtLock, Goes(a, Calm, sup),
         ad' \in Adapters, ad'.lock = ad.lock, ad'.ws = ad.ws, breaker' \in Breaker,
         sub' \in Subscriptions, ended' \subseteq Actors, UNCHANGED <<cancelled, waitFor>>
  PROVE  IInv'
<1>1. a \in Actors /\ Typed /\ QueueInv
  BY StopApart DEF IInv
<1>2. ~InLock(a) /\ Others(a) = ad.lock
  BY <1>1, Unlocked, OthersQueue
<1>3. Rest'
  BY RestKept DEF Rest
<1> QED
  BY <1>2, <1>3, CoroutineLeaves

LEMMA StartKeeps == ASSUME IInv, NEW a \in Starters, Start(a) PROVE IInv'
<1> DEFINE starting == [sup EXCEPT !.closing = FALSE]
<1>1. a \in Actors /\ QueueInv /\ sup \in Supervisors
  BY StopApart DEF IInv, Typed
<1>2. starting \in Supervisors /\ ~starting.closing
  BY <1>1 DEF Supervisors
<1>3. ~InLock(a)
  BY <1>1, Unlocked DEF Start, AtLock
<1>4. Connect(a, starting) /\ UNCHANGED <<cancelled, waitFor, ended>>
  BY DEF Start
<1> HIDE DEF starting
<1> QED
  BY <1>2, <1>3, <1>4, ConnectKeeps

LEMMA ChainKeeps ==
  ASSUME IInv, NEW a \in Tasks \union Starters, Chain(a)
  PROVE  IInv'
<1>1. /\ a \in Actors /\ Typed /\ QueueInv /\ sup \in Supervisors /\ breaker \in Breaker
      /\ ad \in Adapters /\ sub \in Subscriptions /\ ended \subseteq Actors
      /\ {} \in SUBSET Kinds /\ pc \in [Actors -> PCs]
  BY StopApart DEF IInv, Typed
<1>2. /\ "idle" \in PCs /\ {"idle"} \subseteq Calm /\ "sending" \in PCs /\ {"sending"} \subseteq Calm
  BY DEF PCs, Calm, AtLock
<1>3. /\ Others(a) \in Seq(Actors) /\ <<a>> \o Others(a) \in Seq(Actors)
      /\ ~InLock(a) => Others(a) = ad.lock
  BY <1>1, AdapterTyped, OthersQueue
<1>4. CASE BackoffElapsed(a)
  <2>1. ~InLock(a)
    BY <1>1, <1>4, Unlocked DEF BackoffElapsed, AtLock
  <2> QED
    BY <1>1, <1>4, <2>1, ConnectKeeps DEF BackoffElapsed
<1>5. CASE ProbeWakes(a)
  <2>1. ~InLock(a)
    BY <1>1, <1>5, Unlocked DEF ProbeWakes, AtLock
  <2> QED
    BY <1>1, <1>5, <2>1, ConnectKeeps DEF ProbeWakes
<1>6. CASE LockAcquired(a)
  <2>1. InLock(a)
    BY <1>1, <1>6 DEF LockAcquired, QueueInv, AtLock
  <2>2. ad.lock[1] = a
    <3>1. ad.lock \in Seq(Actors) /\ ad.lock # <<>>
      BY <1>1, <2>1 DEF Adapters, InLock
    <3> QED
      BY <1>6, <3>1, HeadTailProperties DEF LockAcquired
  <2>3. /\ breaker' \in Breaker /\ UNCHANGED sub
        /\ \/ Goes(a, Calm, sup) /\ ad' = [ad EXCEPT !.lock = Others(a)]
           \/ /\ Goes(a, {"opening"}, sup)
              /\ ad' = [ad EXCEPT !.state = "connecting", !.closing = FALSE,
                                  !.lock = <<a>> \o Others(a)]
    BY <1>1, <1>6, AdapterConnectGoes DEF LockAcquired
  <2>4. ASSUME ad' \in Adapters PROVE Rest'
    BY <1>6, <2>3, <2>4, RestKept DEF Rest, LockAcquired
  <2>5. CASE Goes(a, Calm, sup) /\ ad' = [ad EXCEPT !.lock = Others(a)]
    <3>1. ad' \in Adapters /\ ad'.lock = Others(a) /\ ad'.ws = ad.ws
      BY <1>1, <1>3, <2>5 DEF Adapters
    <3> QED
      BY <2>4, <2>5, <3>1, CoroutineLeaves
  <2>6. CASE /\ Goes(a, {"opening"}, sup)
             /\ ad' = [ad EXCEPT !.state = "connecting", !.closing = FALSE,
                                 !.lock = <<a>> \o Others(a)]
    <3>1. ad' \in Adapters /\ ad'.lock = <<a>> \o Others(a) /\ ad'.ws = ad.ws
      BY <1>1, <1>3, <2>6 DEF Adapters, States
    <3> QED
      BY <2>1, <2>2, <2>4, <2>6, <3>1, CoroutineTakes
  <2> QED
    BY <2>3, <2>5, <2>6
<1>7. CASE OpenFails(a)
  <2>1. ad' \in Adapters /\ ad'.lock = Others(a) /\ ad'.ws = ad.ws
    BY <1>1, <1>3, <1>7 DEF OpenFails, Adapters, States
  <2>2. Goes(a, Calm, sup) /\ breaker' \in Breaker
    BY <1>1, <1>7, ConnectFailedGoes DEF OpenFails
  <2>3. Rest'
    BY <1>7, <2>1, <2>2, RestKept DEF Rest, OpenFails
  <2> QED
    BY <2>1, <2>2, <2>3, CoroutineLeaves
<1>8. CASE OpenSucceeds(a)
  <2> DEFINE opened == [sup EXCEPT !.heard = "never"]
  <2>1. opened \in Supervisors /\ opened.closing = sup.closing
    BY <1>1 DEF Supervisors
  <2>2. InLock(a)
    BY <1>1, <1>8 DEF OpenSucceeds, QueueInv, AtLock
  <2>3. ad' \in Adapters /\ ad'.lock = Others(a)
    BY <1>1, <1>3, <1>8 DEF OpenSucceeds, Adapters, States
  <2>4. \/ Established(a, opened) /\ UNCHANGED breaker
        \/ RunsTo(a, "sending", opened, {}) /\ UNCHANGED breaker
        \/ ConnectFailed(a, opened, breaker)
    BY <1>8 DEF OpenSucceeds
  <2> HIDE DEF opened
  <2>5. Goes(a, Calm, sup) /\ breaker' \in Breaker
    <3>1. CASE Established(a, opened) /\ UNCHANGED breaker
      <4>1. Goes(a, Calm, opened)
        BY <1>1, <2>1, <3>1, EstablishedGoes
      <4> QED
        BY <1>1, <2>1, <3>1, <4>1, GoesWider
    <3>2. CASE RunsTo(a, "sending", opened, {}) /\ UNCHANGED breaker
      <4>1. Goes(a, {"sending"}, opened)
        BY <1>1, <1>2, <2>1, <3>2, RunsToGoes
      <4> QED
        BY <1>1, <1>2, <2>1, <3>2, <4>1, GoesWider
    <3>3. CASE ConnectFailed(a, opened, breaker)
      <4>1. Goes(a, Calm, opened) /\ breaker' \in Breaker
        BY <1>1, <2>1, <3>3, ConnectFailedGoes
      <4> QED
        BY <2>1, <4>1, GoesWider
    <3> QED
      BY <2>4, <3>1, <3>2, <3>3
  <2>6. sub' \in Subscriptions /\ UNCHANGED <<cancelled, waitFor, ended>>
    BY <1>1, <1>8 DEF OpenSucceeds, Subscriptions
  <2>7. Rest'
    BY <2>3, <2>5, <2>6, RestKept DEF Rest
  <2> QED
    BY <2>2, <2>3, <2>5, <2>7, CoroutineLeaves
<1>9. CASE SendSucceeds(a)
  <2>1. pc[a] \notin AtLock /\ Goes(a, Calm, sup)
    BY <1>1, <1>9, EstablishedGoes DEF SendSucceeds, AtLock
  <2>2. sub' \in Subscriptions /\ UNCHANGED <<cancelled, waitFor, breaker, ad, ended>>
    BY <1>1, <1>9 DEF SendSucceeds, Subscriptions
  <2> QED
    BY <1>1, <2>1, <2>2, RunKeeps
<1>10. CASE SendFails(a)
  <2>1. pc[a] \notin AtLock /\ Goes(a, Calm, sup) /\ breaker' \in Breaker
    BY <1>1, <1>10, ConnectFailedGoes DEF SendFails, AtLock
  <2>2. ended' \subseteq Actors /\ UNCHANGED <<cancelled, waitFor, ad, sub>>
    BY <1>1, <1>10 DEF SendFails
  <2> QED
    BY <1>1, <2>1, <2>2, RunKeeps
<1>11. CASE TasksCancelled(a)
  <2>1. ~InLock(a) /\ Goes(a, Calm, sup)
    BY <1>1, <1>11, Unlocked, HandleFailureGoes DEF TasksCancelled, AtLock
  <2>2. waitFor' \in [Actors -> SUBSET Tasks] /\ UNCHANGED <<cancelled, breaker, ad, sub, ended>>
    BY <1>1, <1>11 DEF TasksCancelled, Typed
  <2>3. Rest'
    BY <2>2, RestKept DEF Rest
  <2> QED
    BY <1>3, <2>1, <2>2, <2>3, CoroutineLeaves
<1>12. CASE Unwind(a)
  <2>1. Goes(a, {"idle"}, sup)
    BY <1>1, <1>2, <1>12, RunsToGoes DEF Unwind
  <2>2. Goes(a, Calm, sup)
    BY <1>2, <2>1, GoesWider
  <2>3. ad' \in Adapters /\ ad'.lock = Others(a) /\ ad'.ws = ad.ws
    BY <1>1, <1>3, <1>12 DEF Unwind, Adapters
  <2>4. Rest'
    BY <1>12, <2>3, RestKept DEF Rest, Unwind
  <2> QED
    BY <2>2, <2>3, <2>4, CoroutineLeaves
<1> QED
  BY <1>4, <1>5, <1>6, <1>7, <1>8, <1>9, <1>10, <1>11, <1>12 DEF Chain

LEMMA ReceiveKeeps ==
  ASSUME IInv, NEW m \in Tasks, Receive(m)
  PROVE  IInv'
<1>1. /\ m \in Actors /\ m \in Tasks \union Starters /\ Typed /\ QueueInv
      /\ sup \in Supervisors /\ breaker \in Breaker
      /\ ad \in Adapters /\ sub \in Subscriptions /\ ended \subseteq Actors
      /\ {} \in SUBSET Kinds
  BY StopApart DEF IInv, Typed
<1>2. /\ "idle" \in PCs /\ {"idle"} \subseteq Calm
      /\ "reading" \in PCs /\ {"reading"} \subseteq Calm
      /\ "handling" \in PCs /\ {"handling"} \subseteq Calm
  BY DEF PCs, Calm, AtLock
<1>3. pc[m] \notin AtLock
  BY DEF Receive, AnswerArrives, FrameArrives, FrameHandled, HandlerRaises, SocketLost,
         SocketEnds, Reads, AtLock
<1>4. ASSUME LoopEnds(m) PROVE IInv'
  <2>1. Goes(m, {"idle"}, sup)
    BY <1>1, <1>2, <1>4, RunsToGoes DEF LoopEnds
  <2>2. Goes(m, Calm, sup)
    BY <1>2, <2>1, GoesWider
  <2>3. ended' \subseteq Actors /\ UNCHANGED <<cancelled, waitFor, breaker, ad, sub>>
    BY <1>1, <1>4 DEF LoopEnds
  <2> QED
    BY <1>1, <1>3, <2>2, <2>3, RunKeeps
<1>5. CASE AnswerArrives(m)
  <2>1. CASE LoopEnds(m)
    BY <1>4, <2>1
  <2>2. CASE /\ \/ sub' = [sub EXCEPT !.active = TRUE, !.requested = FALSE, !.live = TRUE]
                \/ sub' = [sub EXCEPT !.requested = FALSE]
             /\ UNCHANGED <<sup, ref, pc, cancelled, waitFor, breaker, ad, ended>>
    <3>1. sub' \in Subscriptions
      BY <1>1, <2>2 DEF Subscriptions
    <3>2. Rest'
      BY <2>2, <3>1, RestKept DEF Rest
    <3> QED
      BY <1>1, <2>2, <3>2, NobodyMoves
  <2> QED
    BY <1>5, <2>1, <2>2 DEF AnswerArrives
<1>6. CASE FrameArrives(m)
  <2> DEFINE fresh == [sup EXCEPT !.heard = "fresh"]
  <2>1. CASE LoopEnds(m)
    BY <1>4, <2>1
  <2>2. CASE /\ ad' = [ad EXCEPT !.state = IF @ = "subscribing" /\ sub.active
                                           THEN "streaming" ELSE @]
             /\ RunsTo(m, "handling", fresh, {})
             /\ UNCHANGED <<cancelled, waitFor, breaker, sub, ended>>
    <3>1. fresh \in Supervisors /\ fresh.closing = sup.closing
      BY <1>1 DEF Supervisors
    <3>2. RunsTo(m, "handling", fresh, {})
      BY <2>2
    <3> HIDE DEF fresh
    <3>3. Goes(m, {"handling"}, fresh)
      BY <1>1, <1>2, <3>1, <3>2, RunsToGoes
    <3>4. Goes(m, Calm, sup)
      BY <1>2, <3>1, <3>3, GoesWider
    <3>5. ad' \in Adapters /\ ad'.lock = ad.lock /\ ad'.ws = ad.ws
      BY <1>1, <2>2 DEF Adapters, States
    <3> QED
      BY <1>1, <1>3, <2>2, <3>4, <3>5, RunKeeps
  <2> QED
    BY <1>6, <2>1, <2>2 DEF FrameArrives
<1>7. CASE FrameHandled(m)
  <2> DEFINE streaming == [sup EXCEPT !.state = "streaming", !.attempt = 0]
  <2>1. streaming \in Supervisors /\ streaming.closing = sup.closing
    <3>1. 0 \in 0..(MaxAttempts + 1)
      BY SupervisorAssumption
    <3> QED
      BY <1>1, <3>1 DEF Supervisors, States
  <2>2. UNCHANGED <<cancelled, waitFor, ad, sub, ended>>
    BY <1>7 DEF FrameHandled
  <2>3. \/ RunsTo(m, "reading", streaming, {}) /\ breaker' = RecordSuccess(breaker)
        \/ RunsTo(m, "reading", sup, {}) /\ UNCHANGED breaker
    BY <1>7 DEF FrameHandled
  <2> HIDE DEF streaming
  <2>4. Goes(m, {"reading"}, streaming) \/ Goes(m, {"reading"}, sup)
    BY <1>1, <1>2, <2>1, <2>3, RunsToGoes
  <2>5. Goes(m, Calm, sup)
    BY <1>2, <2>1, <2>4, GoesWider
  <2>6. breaker' \in Breaker
    BY <1>1, <2>3, BreakerKept
  <2> QED
    BY <1>1, <1>3, <2>2, <2>5, <2>6, RunKeeps
<1>8. ASSUME LoopFails(m), ad' \in Adapters, ad'.lock = ad.lock, ad'.ws = ad.ws, UNCHANGED sub
      PROVE  IInv'
  <2>1. HandleDisconnect(m) /\ ended' \subseteq Actors
    BY <1>1, <1>8 DEF LoopFails
  <2> QED
    BY <1>3, <1>8, <2>1, DisconnectKeeps
<1>9. CASE HandlerRaises(m)
  BY <1>1, <1>8, <1>9 DEF HandlerRaises
<1>10. CASE SocketLost(m)
  <2>1. ad' \in Adapters /\ ad'.lock = ad.lock /\ ad'.ws = ad.ws
    BY <1>1, <1>10 DEF SocketLost, Adapters, States
  <2> QED
    BY <1>8, <1>10, <2>1 DEF SocketLost
<1>11. CASE SocketEnds(m)
  BY <1>4, <1>11 DEF SocketEnds
<1> QED
  BY <1>5, <1>6, <1>7, <1>9, <1>10, <1>11 DEF Receive

LEMMA MonitorKeeps ==
  ASSUME IInv, NEW t \in Tasks, Monitor(t)
  PROVE  IInv'
<1>1. /\ t \in Actors /\ t \in Tasks \union Starters /\ Typed
      /\ sup \in Supervisors /\ breaker \in Breaker /\ ad \in Adapters
      /\ sub \in Subscriptions /\ ended \subseteq Actors /\ {} \in SUBSET Kinds
  BY StopApart DEF IInv, Typed
<1>2. "idle" \in PCs /\ {"idle"} \subseteq Calm
  BY DEF PCs, Calm, AtLock
<1>3. pc[t] \notin AtLock /\ UNCHANGED <<ad, sub, ended>>
  BY DEF Monitor, HeartbeatWakes, RotationDue, AtLock
<1>4. CASE HandleDisconnect(t)
  BY <1>1, <1>3, <1>4, DisconnectKeeps
<1>5. CASE RunsTo(t, "idle", sup, {}) /\ UNCHANGED <<breaker, cancelled, waitFor>>
  <2>1. Goes(t, {"idle"}, sup)
    BY <1>1, <1>2, <1>5, RunsToGoes
  <2>2. Goes(t, Calm, sup)
    BY <1>2, <2>1, GoesWider
  <2> QED
    BY <1>1, <1>3, <1>5, <2>2, RunKeeps
<1> QED
  BY <1>4, <1>5 DEF Monitor, HeartbeatWakes, RotationDue

\* close() with the lock: it is alone in the queue unless start() was called.
LEMMA CloseSocketKeeps ==
  ASSUME IInv, NEW s \in Supervisors, CloseSocket(s) \/ Stopped(s),
         \/ ad.lock = <<>>
         \/ ad.lock[1] = Stop /\ InLock(Stop) /\ s.closing = sup.closing,
         cancelled' \subseteq Tasks, waitFor' \in [Actors -> SUBSET Tasks],
         breaker' \in Breaker, sub' \in Subscriptions, ended' \subseteq Actors
  PROVE  IInv'
<1>1. /\ Stop \in Actors /\ Typed /\ QueueInv /\ StopInv /\ ad \in Adapters
      /\ {} \in SUBSET Kinds
  BY StopApart DEF IInv, Typed
<1>2. ad.lock \in Seq(Actors) /\ Len(ad.lock) \in Nat /\ DOMAIN ad.lock = 1 .. Len(ad.lock)
  BY <1>1, LenProperties DEF Adapters
<1>3. Others(Stop) \in Seq(Actors) /\ <<Stop>> \o Others(Stop) \in Seq(Actors)
  BY <1>1, AdapterTyped
<1>4. ad.lock # <<>> /\ s.closing => Len(ad.lock) = 1 /\ ad.lock[1] = Stop
  <2> SUFFICES ASSUME ad.lock # <<>>, s.closing PROVE Len(ad.lock) = 1 /\ ad.lock[1] = Stop
    OBVIOUS
  <2>1. sup.closing /\ ad.lock[1] = Stop /\ InLock(Stop)
    OBVIOUS
  <2>2. 1 \in DOMAIN ad.lock
    BY <1>2, <2>1 DEF InLock
  <2> QED
    BY <1>1, <2>1, <2>2 DEF StopInv
<1>5. CASE Stopped(s)
  <2> DEFINE stopped == [s EXCEPT !.state = "stopped", !.attempt = 0]
  <2>1. stopped \in Supervisors /\ stopped.closing = s.closing
    <3>1. 0 \in 0..(MaxAttempts + 1)
      BY SupervisorAssumption
    <3> QED
      BY <3>1 DEF Supervisors, States
  <2>2. ad' = [state |-> "stopped", closing |-> TRUE, lock |-> Others(Stop), ws |-> "none"]
    BY <1>5 DEF Stopped
  <2>3. RunsTo(Stop, "idle", stopped, {})
    BY <1>5 DEF Stopped
  <2> HIDE DEF stopped
  <2>4. "idle" \in PCs /\ {"idle"} \subseteq Calm
    BY DEF PCs, Calm, AtLock
  <2>5. Goes(Stop, {"idle"}, stopped)
    BY <1>1, <2>1, <2>3, <2>4, RunsToGoes
  <2>6. Goes(Stop, Calm, s)
    BY <2>1, <2>4, <2>5, GoesWider
  <2>7. ad' \in Adapters /\ ad'.lock = Others(Stop) /\ ad'.ws = "none"
    BY <1>3, <2>2 DEF Adapters, States
  <2>8. QueueInv'
    BY <1>1, <2>6, <2>7, LeftQueue
  <2>9. Typed'
    BY <2>6, <2>7 DEF Typed, Goes
  <2>10. s.closing => Others(Stop) = <<>>
    <3>1. CASE ad.lock = <<>>
      <4>1. ~InLock(Stop)
        BY <3>1 DEF InLock
      <4> QED
        BY <1>1, <3>1, <4>1, OthersQueue
    <3>2. CASE s.closing /\ Len(ad.lock) = 1 /\ ad.lock[1] = Stop
      <4>1. \A i \in DOMAIN Others(Stop) : Others(Stop)[i] # Stop /\ InLock(Others(Stop)[i])
        BY <1>1, OthersQueue
      <4>2. \A x : InLock(x) => x = Stop
        BY <1>2, <3>2 DEF InLock
      <4>3. DOMAIN Others(Stop) = {}
        BY <4>1, <4>2
      <4>4. Len(Others(Stop)) = 0
        BY <1>3, <4>3, LenProperties
      <4> QED
        BY <1>3, <4>4, EmptySeq
    <3> QED
      BY <1>4, <3>1, <3>2
  <2>11. pc'[Stop] = "idle" /\ sup'.closing = s.closing
    BY <2>1, <2>5 DEF Goes
  <2>12. StopInv'
    BY <2>7, <2>10, <2>11 DEF StopInv
  <2> QED
    BY <2>8, <2>9, <2>12 DEF IInv
<1>6. CASE /\ ad' = [ad EXCEPT !.closing = TRUE, !.lock = <<Stop>> \o Others(Stop)]
           /\ RunsTo(Stop, "closing", s, {})
  <2>1. "closing" \in PCs /\ {"closing"} \subseteq {"opening", "closing"}
    BY DEF PCs
  <2>2. Goes(Stop, {"closing"}, s)
    BY <1>1, <1>6, <2>1, RunsToGoes
  <2>3. Goes(Stop, {"opening", "closing"}, s)
    BY <2>1, <2>2, GoesWider
  <2>4. ad' \in Adapters /\ ad'.lock = <<Stop>> \o Others(Stop)
    BY <1>1, <1>3, <1>6 DEF Adapters
  <2>5. /\ QueueInv' /\ DOMAIN ad'.lock = 1 .. Len(ad'.lock)
        /\ ad.lock = <<>> => Len(ad'.lock) = 1
        /\ ad.lock # <<>> => ad'.lock = ad.lock
    BY <1>1, <2>3, <2>4, HeldQueue
  <2>6. Typed'
    BY <2>2, <2>4 DEF Typed, Goes
  <2>7. pc'[Stop] = "closing" /\ sup'.closing = s.closing
    BY <2>2 DEF Goes
  <2>8. s.closing => Len(ad'.lock) = 1
    BY <1>4, <2>5
  <2>9. sup'.closing => \A i \in DOMAIN ad'.lock : i = Len(ad'.lock)
    <3> SUFFICES ASSUME sup'.closing, NEW i \in DOMAIN ad'.lock PROVE i = Len(ad'.lock)
      OBVIOUS
    <3>1. Len(ad'.lock) = 1
      BY <2>7, <2>8
    <3>2. i \in 1 .. Len(ad'.lock)
      BY <2>5
    <3>3. i \in 1 .. 1
      BY <3>1, <3>2
    <3> QED
      BY <3>1, <3>3
  <2>10. StopInv'
    BY <2>7, <2>9 DEF StopInv
  <2> QED
    BY <2>5, <2>6, <2>10 DEF IInv
<1> QED
  BY <1>5, <1>6 DEF CloseSocket

\* close() from its first line.
LEMMA CloseAdapterKeeps ==
  ASSUME IInv, NEW s \in Supervisors, CloseAdapter(s), pc[Stop] \notin AtLock,
         cancelled' \subseteq Tasks, waitFor' \in [Actors -> SUBSET Tasks],
         breaker' \in Breaker, sub' \in Subscriptions, ended' \subseteq Actors
  PROVE  IInv'
<1>1. /\ Stop \in Actors /\ Typed /\ QueueInv /\ StopInv /\ ad \in Adapters
      /\ {} \in SUBSET Kinds /\ "locking" \in PCs
  BY StopApart DEF IInv, Typed, PCs
<1>2. ~InLock(Stop)
  BY <1>1, Unlocked
<1>3. CASE ad.lock = <<>> /\ CloseSocket(s)
  BY <1>3, CloseSocketKeeps
<1>4. CASE /\ ad' = [ad EXCEPT !.closing = TRUE, !.lock = Append(@, Stop)]
           /\ RunsTo(Stop, "locking", s, {})
  <2>1. Goes(Stop, {"locking"}, s)
    BY <1>1, <1>4, RunsToGoes
  <2>2. Goes(Stop, {"waiting", "locking"}, s)
    BY <2>1 DEF Goes
  <2>3. ad' \in Adapters /\ ad'.lock = Append(ad.lock, Stop)
    <3>1. Append(ad.lock, Stop) \in Seq(Actors)
      BY <1>1, AdapterTyped
    <3> QED
      BY <1>1, <1>4, <3>1 DEF Adapters
  <2>4. /\ QueueInv'
        /\ Len(ad'.lock) = Len(ad.lock) + 1 /\ ad'.lock[Len(ad.lock) + 1] = Stop
        /\ DOMAIN ad'.lock = 1 .. (Len(ad.lock) + 1) /\ Len(ad.lock) \in Nat
    BY <1>1, <1>2, <2>2, <2>3, JoinedQueue
  <2>5. Typed'
    BY <2>1, <2>3 DEF Typed, Goes
  <2>6. \A i \in DOMAIN ad'.lock : ad'.lock[i] = Stop => i = Len(ad'.lock)
    BY <2>4 DEF QueueInv
  <2>7. pc'[Stop] = "locking"
    BY <2>1 DEF Goes
  <2>8. StopInv'
    BY <2>6, <2>7 DEF StopInv
  <2> QED
    BY <2>4, <2>5, <2>8 DEF IInv
<1> QED
  BY <1>3, <1>4 DEF CloseAdapter

LEMMA StopKeeps ==
  ASSUME IInv, StopCalled \/ Stopping
  PROVE  IInv'
<1>1. /\ Stop \in Actors /\ Typed /\ QueueInv /\ StopInv /\ sup \in Supervisors
      /\ ad \in Adapters /\ breaker \in Breaker /\ sub \in Subscriptions /\ ended \subseteq Actors
      /\ cancelled \subseteq Tasks /\ waitFor \in [Actors -> SUBSET Tasks]
      /\ {} \in SUBSET Kinds
  BY StopApart DEF IInv, Typed
<1>2. CASE StopCalled
  <2> DEFINE stopping == [sup EXCEPT !.closing = TRUE, !.state = "stopping", !.stops = @ + 1]
  <2>1. stopping \in Supervisors
    <3>1. sup.stops + 1 \in 0..MaxStops
      BY <1>1, <1>2, SupervisorAssumption DEF StopCalled, Supervisors
    <3> QED
      BY <1>1, <3>1 DEF Supervisors, States
  <2>2. /\ cancelled' \subseteq Tasks /\ waitFor' \in [Actors -> SUBSET Tasks]
        /\ UNCHANGED <<breaker, sub, ended>> /\ pc[Stop] = "idle"
    BY <1>1, <1>2, CancelTyped DEF StopCalled
  <2>3. pc[Stop] \notin AtLock
    BY <2>2 DEF AtLock
  <2>4. CloseAdapter(stopping) \/ (RunsTo(Stop, "cancelling", stopping, {}) /\ UNCHANGED ad)
    BY <1>2 DEF StopCalled
  <2> HIDE DEF stopping
  <2>5. CASE CloseAdapter(stopping)
    BY <1>1, <2>1, <2>2, <2>3, <2>5, CloseAdapterKeeps
  <2>6. CASE RunsTo(Stop, "cancelling", stopping, {}) /\ UNCHANGED ad
    <3>1. "cancelling" \in PCs /\ {"cancelling"} \subseteq Calm
      BY DEF PCs, Calm, AtLock
    <3>2. Goes(Stop, {"cancelling"}, stopping)
      BY <1>1, <2>1, <2>6, <3>1, RunsToGoes
    <3>3. Goes(Stop, Calm, stopping)
      BY <3>1, <3>2, GoesWider
    <3>4. ~InLock(Stop) /\ Others(Stop) = ad.lock
      BY <1>1, <2>3, Unlocked, OthersQueue
    <3>5. QueueInv'
      BY <1>1, <2>6, <3>3, <3>4, LeftQueue
    <3>6. Typed'
      BY <1>1, <2>2, <2>6, <3>2 DEF Typed, Goes
    <3>7. StopInv'
      BY <2>6, <3>2, <3>4 DEF StopInv, Goes, InLock
    <3> QED
      BY <3>5, <3>6, <3>7 DEF IInv
  <2> QED
    BY <2>4, <2>5, <2>6
<1>3. CASE StopCancelled
  <2>1. pc[Stop] \notin AtLock
    BY <1>3 DEF StopCancelled, AtLock
  <2>2. /\ CloseAdapter(sup) /\ waitFor' \in [Actors -> SUBSET Tasks]
        /\ UNCHANGED <<cancelled, breaker, sub, ended>>
    BY <1>1, <1>3 DEF StopCancelled
  <2> QED
    BY <1>1, <2>1, <2>2, CloseAdapterKeeps
<1>4. CASE StopLocks
  <2>1. InLock(Stop)
    BY <1>1, <1>4 DEF StopLocks, QueueInv, AtLock
  <2>2. ad.lock[1] = Stop
    <3>1. ad.lock \in Seq(Actors) /\ ad.lock # <<>>
      BY <1>1, <2>1 DEF Adapters, InLock
    <3> QED
      BY <1>4, <3>1, HeadTailProperties DEF StopLocks
  <2>3. CloseSocket(sup) /\ UNCHANGED <<cancelled, waitFor, breaker, sub, ended>>
    BY <1>4 DEF StopLocks
  <2> QED
    BY <1>1, <2>1, <2>2, <2>3, CloseSocketKeeps
<1>5. CASE StopCloses
  <2>1. InLock(Stop) /\ ad.lock[1] = Stop
    BY <1>1, <1>5 DEF StopCloses, QueueInv, AtLock
  <2>2. /\ Stopped(sup) /\ UNCHANGED <<cancelled, waitFor, breaker>>
        /\ sub' \in Subscriptions /\ ended' \subseteq Actors
    BY <1>1, <1>5 DEF StopCloses, Subscriptions
  <2> QED
    BY <1>1, <2>1, <2>2, CloseSocketKeeps
<1> QED
  BY <1>2, <1>3, <1>4, <1>5 DEF Stopping

LEMMA EnvironmentKeeps == ASSUME IInv, Environment PROVE IInv'
<1>1. sup \in Supervisors /\ ad \in Adapters /\ breaker \in Breaker /\ sub \in Subscriptions
  BY DEF IInv, Typed
<1>2. CASE PeerClosesSocket
  <2>1. PICK c \in PeerCloses : ad' = [ad EXCEPT !.ws = c]
    BY <1>2 DEF PeerClosesSocket
  <2>2. c \in ClosedSockets /\ ad.ws = "open"
    BY <1>2, SupervisorAssumption DEF PeerClosesSocket
  <2>3. ad' \in Adapters /\ ad'.lock = ad.lock
    BY <1>1, <2>1, <2>2 DEF Adapters
  <2>4. sub' \in Subscriptions /\ UNCHANGED <<sup, ref, pc, cancelled, waitFor, breaker, ended>>
    BY <1>1, <1>2 DEF PeerClosesSocket, Subscriptions
  <2>5. Rest'
    BY <2>3, <2>4, RestKept DEF Rest
  <2> QED
    BY <1>1, <2>2, <2>3, <2>4, <2>5, NobodyMoves
<1>3. CASE FrameGetsOld
  <2>1. sup' \in Supervisors /\ sup'.closing = sup.closing
    BY <1>1, <1>3 DEF FrameGetsOld, Supervisors
  <2>2. UNCHANGED <<ref, pc, cancelled, waitFor, breaker, ad, sub, ended>>
    BY <1>3 DEF FrameGetsOld
  <2>3. Rest'
    BY <2>2, RestKept DEF Rest
  <2> QED
    BY <2>1, <2>2, <2>3, NobodyMoves
<1>4. CASE CooldownTick
  <2>1. breaker' \in Breaker /\ UNCHANGED <<sup, ref, pc, cancelled, waitFor, ad, sub, ended>>
    BY <1>1, <1>4, BreakerKept DEF CooldownTick
  <2>2. Rest'
    BY <2>1, RestKept DEF Rest
  <2> QED
    BY <1>1, <2>1, <2>2, NobodyMoves
<1> QED
  BY <1>2, <1>3, <1>4 DEF Environment

-----------------------------------------------------------------------------
(* Theorems *)

LEMMA InitKeeps == Init => IInv
<1> SUFFICES ASSUME Init PROVE IInv
  OBVIOUS
<1>1. ad.lock = <<>> /\ <<>> \in Seq(Actors) /\ DOMAIN ad.lock = {}
  BY EmptySeq DEF Init
<1>2. Typed
  <2>1. sup \in Supervisors
    BY SupervisorAssumption DEF Init, Supervisors, States
  <2>2. breaker \in Breaker
    BY BreakerAssumption DEF Init, ClosedBreaker, Breaker, BreakerStates
  <2>3. ad \in Adapters
    BY <1>1 DEF Init, Adapters, States
  <2> QED
    BY <2>1, <2>2, <2>3 DEF Init, Typed, PCs, Subscriptions
<1>3. QueueInv
  BY <1>1 DEF Init, QueueInv, InLock, AtLock
<1>4. StopInv
  BY <1>1, StopApart DEF Init, StopInv
<1> QED
  BY <1>2, <1>3, <1>4 DEF IInv

\* The lock's queue, the places of the coroutines and stop() agree, whatever the
\* supervisor's tasks, its callers, the peer and the clock do.
THEOREM SupervisorInvariance == Spec => []IInv
<1>1. IInv /\ [Next]_vars => IInv'
  <2> SUFFICES ASSUME IInv, [Next]_vars PROVE IInv'
    OBVIOUS
  <2>1. CASE UNCHANGED vars
    BY <2>1 DEF vars, IInv, Typed, QueueInv, StopInv, InLock
  <2>2. CASE Next
    BY <2>2, StartKeeps, ChainKeeps, ReceiveKeeps, MonitorKeeps, StopKeeps, EnvironmentKeeps DEF Next
  <2> QED
    BY <2>1, <2>2
<1> QED
  BY <1>1, InitKeeps, PTL DEF Spec

\* The state has the types it declares, and the queue of the lock holds nobody
\* who is not waiting for it or using the socket.
THEOREM SupervisorTyped == Spec => []TypeOK
<1>1. IInv => TypeOK
  <2> SUFFICES ASSUME IInv PROVE TypeOK
    OBVIOUS
  <2>1. ad.lock \in Seq(Actors) /\ DOMAIN ad.lock = 1 .. Len(ad.lock) /\ Len(ad.lock) \in Nat
    BY LenProperties DEF IInv, Typed, Adapters
  <2>2. ASSUME NEW i \in DOMAIN ad.lock
        PROVE  pc[ad.lock[i]] \in IF i = 1 THEN {"waiting", "opening", "locking", "closing"}
                                  ELSE {"waiting", "locking"}
    <3>1. ad.lock[i] \in Actors /\ InLock(ad.lock[i]) /\ 1 \in DOMAIN ad.lock
      BY <2>1 DEF InLock
    <3>2. pc[ad.lock[i]] \in AtLock
      BY <3>1 DEF IInv, QueueInv
    <3>3. pc[ad.lock[i]] \in {"opening", "closing"} => i = 1
      BY <3>1 DEF IInv, QueueInv
    <3> QED
      BY <3>2, <3>3 DEF AtLock
  <2> QED
    BY <2>2 DEF IInv, Typed, TypeOK
<1> QED
  BY <1>1, SupervisorInvariance, PTL

\* connect() and close() of the adapter never overlap, for any number of tasks
\* and callers: the socket is opened and closed by the head of the queue alone.
THEOREM AdapterIsExclusive == Spec => []AdapterExclusive
<1>1. IInv => AdapterExclusive
  BY DEF IInv, QueueInv, AdapterExclusive
<1> QED
  BY <1>1, SupervisorInvariance, PTL

\* When stop() has returned no socket is left, however many coroutines were
\* connecting when it was called, until start() is called again.
THEOREM StopClosesTheSocket == Spec => []StoppedClosesSocket
<1>1. IInv => StoppedClosesSocket
  BY DEF IInv, StopInv, StoppedClosesSocket, Alive
<1> QED
  BY <1>1, SupervisorInvariance, PTL

-----------------------------------------------------------------------------
(* Before stop() is called: who may retry, and beside whom *)

IsProbe(a) == a \in OfKind("sparse_probe")
Works(t) == t \in Tasks /\ ~IsProbe(t) /\ pc[t] \in {"reading", "handling", "sleeping"}
Cancels(a) == pc[a] = "cancelling"

Unstopped ==
    /\ ~sup.closing /\ sup.state # "stopping" /\ pc[Stop] = "idle"
    /\ sup.state = "stopped" => \A a \in Actors : ~Alive(a)

\* The supervisor refers to every task that is alive, so none escapes
\* _cancel_tasks(); nobody waits for the adapter's lock.
PlacesInv ==
    /\ \A k \in Kinds : ref[k] \in OfKind(k) \union {None}
    /\ \A t \in Tasks : Alive(t) => ref[t[1]] = t
    /\ \A a \in Actors : pc[a] \notin {"waiting", "locking", "closing"}
    /\ \A t \in Tasks : IsProbe(t) => pc[t] \in {"idle", "sleeping"} \/ InChain(t)
    /\ \A a \in Starters : pc[a] = "idle" \/ InChain(a)

\* Whoever cancels has cancelled, and waits for, all who are alive.
CancelInv ==
    /\ \A c \in Actors : Cancels(c) =>
          c \notin cancelled /\ \A b \in Actors : b # c /\ Alive(b) => b \in cancelled \cap waitFor[c]
    /\ \A t \in cancelled :
          Alive(t) /\ pc[t] \notin {"opening", "sending"} /\ \E c \in Actors : Cancels(c)

\* Whoever retries is alone, but for the probe: it does not look before it
\* tries, and may find the others at work.
ChainInv ==
    /\ RetryExclusive
    /\ \A a, b \in Actors :
          InChain(a) /\ a \notin cancelled /\ Alive(b) /\ a # b =>
             IsProbe(a) /\ pc[a] = "backoff" /\ Works(b)

Structure == PlacesInv /\ CancelInv /\ ChainInv

\* While a task works the adapter refuses to connect.
AdapterInv ==
    /\ \A t \in Tasks : Works(t) /\ t \notin cancelled => ad.state \notin {"stopped", "backing_off"}
    /\ \A a \in Actors : pc[a] = "sending" => ad.state \notin {"stopped", "backing_off"}

StateInv ==
    /\ \A a \in Actors : pc[a] \in {"opening", "sending"} =>
          sup.state = "connecting" /\ breaker.state # "open"
    /\ sup.state = "subscribing" => breaker.state # "open" \/ \E c \in Actors : Cancels(c)

HeardInv == sup.state = "streaming" \/ (\E m \in Tasks : pc[m] = "handling") => sup.heard # "never"

\* The circuit never has more failures than the retry budget has attempts,
\* so it opens only when the budget is exhausted and a probe is at hand.
Budget(b, attempt, due) ==
    /\ b.state = "closed" /\ attempt <= MaxAttempts => b.failures <= attempt + due
    /\ b.state # "closed" => attempt + due > MaxAttempts

Enough == FailureThreshold > MaxAttempts /\ SuccessThreshold = 1
Due == IF \E c \in Actors : Cancels(c) THEN 1 ELSE 0
BudgetInv == Enough => Budget(breaker, sup.attempt, Due) /\ RetryAttended

Data == AdapterInv /\ StateInv /\ HeardInv /\ BudgetInv
Lone == Unstopped /\ Structure /\ Data
LoneInv == sup.stops = 0 => Lone

\* Only the first frame of a connection gives the retry budget back.
Resets == sup'.attempt < sup.attempt => sup'.state = "streaming" /\ sup.heard # "never"

-----------------------------------------------------------------------------
(* Whose turn it is *)

\* All others are idle, or a is the probe and they work.
Turn(a) ==
    /\ cancelled = {}
    /\ \A b \in Actors : b # a /\ Alive(b) => IsProbe(a) /\ Works(b)
Clear(a) == \A b \in Actors : b # a => ~Alive(b)

LEMMA Sorts ==
  /\ Stop \in Actors /\ Stop \notin Tasks /\ Stop \notin Starters
  /\ Tasks \subseteq Actors /\ Starters \subseteq Actors /\ Starters \cap Tasks = {}
  /\ \A a \in Actors : a \in Tasks \/ a \in Starters \/ a = Stop
  /\ \A t \in Tasks : t[1] \in Kinds /\ (IsProbe(t) <=> t[1] = "sparse_probe")
  /\ \A a : IsProbe(a) => a \in Tasks
BY DEF Stop, Actors, Tasks, Starters, Kinds, IsProbe, OfKind

LEMMA NobodyCancels ==
  ASSUME CancelInv, NEW a \in Actors, a \notin cancelled, Alive(a), ~Cancels(a)
  PROVE  cancelled = {} /\ \A c \in Actors : ~Cancels(c)
BY DEF CancelInv

\* A working task that is not cancelled: only tasks are beside it.
LEMMA BesideWorker ==
  ASSUME IInv, Unstopped, Structure, NEW t \in Tasks, Works(t), t \notin cancelled
  PROVE  /\ cancelled = {} /\ \A c \in Actors : ~Cancels(c)
         /\ \A b \in Actors : b # t /\ Alive(b) =>
               /\ b \in Tasks /\ pc[b] \in {"reading", "handling", "sleeping", "backoff"}
               /\ Works(b) \/ IsProbe(b)
<1>1. t \in Actors /\ Alive(t) /\ ~Cancels(t) /\ ~IsProbe(t)
  BY Sorts DEF Works, Alive, Cancels
<1>2. cancelled = {} /\ \A c \in Actors : ~Cancels(c)
  BY <1>1, NobodyCancels DEF Structure
<1>3. ASSUME NEW b \in Actors, b # t, Alive(b)
      PROVE  /\ b \in Tasks /\ pc[b] \in {"reading", "handling", "sleeping", "backoff"}
             /\ Works(b) \/ IsProbe(b)
  <2>1. InChain(b) => IsProbe(b) /\ pc[b] = "backoff"
    BY <1>1, <1>2, <1>3 DEF Structure, ChainInv
  <2>2. b \in Tasks
    <3>1. b # Stop
      BY <1>3 DEF Unstopped, Alive
    <3>2. b \in Starters => InChain(b)
      BY <1>3 DEF Structure, PlacesInv, Alive
    <3> QED
      BY <2>1, <3>1, <3>2, Sorts
  <2>3. pc[b] \in {"reading", "handling", "sleeping", "backoff"}
    <3>1. pc[b] \in PCs /\ pc[b] # "idle" /\ pc[b] # "cancelling"
      BY <1>2, <1>3 DEF IInv, Typed, Alive, Cancels
    <3>2. pc[b] \notin {"waiting", "locking", "closing"}
      BY DEF Structure, PlacesInv
    <3>3. pc[b] \in {"opening", "sending"} => InChain(b) /\ pc[b] # "backoff"
      BY DEF InChain
    <3> QED
      BY <2>1, <3>1, <3>2, <3>3 DEF PCs
  <2>4. ~IsProbe(b) => Works(b)
    <3>1. pc[b] = "backoff" => InChain(b)
      BY DEF InChain
    <3> QED
      BY <2>1, <2>2, <2>3, <3>1 DEF Works
  <2> QED
    BY <2>2, <2>3, <2>4
<1> QED
  BY <1>2, <1>3

LEMMA ChainTurn ==
  ASSUME IInv, Unstopped, Structure, NEW a \in Actors, a \notin cancelled, InChain(a)
  PROVE  Turn(a) /\ (pc[a] # "backoff" => Clear(a))
<1>1. Alive(a) /\ ~Cancels(a)
  BY DEF InChain, Alive, Cancels
<1>2. cancelled = {}
  BY <1>1, NobodyCancels DEF Structure
<1> QED
  BY <1>2 DEF Structure, ChainInv, Turn, Clear

LEMMA ProbeTurn ==
  ASSUME IInv, Unstopped, Structure, NEW a \in Actors, a \notin cancelled, IsProbe(a),
         pc[a] = "sleeping"
  PROVE  Turn(a)
<1>1. Alive(a) /\ ~Cancels(a) /\ ~Works(a) /\ ~InChain(a) /\ a \in Tasks /\ a[1] = "sparse_probe"
  BY Sorts DEF InChain, Alive, Cancels, Works
<1>2. cancelled = {} /\ \A c \in Actors : ~Cancels(c)
  BY <1>1, NobodyCancels DEF Structure
<1>3. ASSUME NEW b \in Actors, b # a, Alive(b) PROVE Works(b)
  <2>1. ~InChain(b)
    BY <1>1, <1>2, <1>3 DEF Structure, ChainInv
  <2>2. b \in Tasks
    BY <1>3, <2>1, Sorts DEF Unstopped, Alive, Structure, PlacesInv
  <2>3. ~IsProbe(b)
    BY <1>1, <1>3, <2>2, Sorts DEF Structure, PlacesInv
  <2>4. pc[b] \in PCs /\ pc[b] # "idle" /\ pc[b] # "cancelling"
    BY <1>2, <1>3 DEF IInv, Typed, Alive, Cancels
  <2>5. pc[b] \notin {"waiting", "locking", "closing"}
    BY DEF Structure, PlacesInv
  <2>6. pc[b] \notin {"backoff", "opening", "sending"}
    BY <2>1 DEF InChain
  <2> QED
    BY <2>2, <2>3, <2>4, <2>5, <2>6 DEF Works, PCs
<1> QED
  BY <1>2, <1>3 DEF Turn

LEMMA CancellerTurn ==
  ASSUME IInv, Structure, NEW a \in Actors, Cancels(a), \A t \in waitFor[a] : ~Alive(t)
  PROVE  Turn(a) /\ Clear(a)
<1>1. \A b \in Actors : b # a => ~Alive(b)
  BY DEF Structure, CancelInv
<1>2. cancelled = {}
  <2>1. \A t \in cancelled : Alive(t) /\ t \in Actors
    BY Sorts DEF Structure, CancelInv, IInv, Typed
  <2>2. a \notin cancelled
    BY DEF Structure, CancelInv
  <2> QED
    BY <1>1, <2>1, <2>2
<1> QED
  BY <1>1, <1>2 DEF Turn, Clear

\* _cancel_tasks() aims at all who are alive.
LEMMA VictimsAreAll ==
  ASSUME IInv, Unstopped, Structure, NEW t \in Tasks, Works(t), t \notin cancelled
  PROVE  Victims(t) = {b \in Actors \ {t} : Alive(b)}
<1>1. \A b \in Tasks : Alive(b) => \E k \in Kinds : ref[k] = b
  BY Sorts DEF Structure, PlacesInv
<1>2. \A b \in Actors : b # t /\ Alive(b) => b \in Tasks
  BY BesideWorker
<1> QED
  BY <1>1, <1>2, Sorts DEF Victims

LEMMA LonelyTurn ==
  ASSUME IInv, Unstopped, Structure, NEW t \in Tasks, Works(t), t \notin cancelled,
         Victims(t) = {}
  PROVE  Turn(t) /\ Clear(t)
BY VictimsAreAll, BesideWorker DEF Turn, Clear

LEMMA StarterTurn ==
  ASSUME IInv, Unstopped, Structure, sup.state = "stopped", NEW a \in Starters
  PROVE  Turn(a) /\ Clear(a)
<1>1. \A b \in Actors : ~Alive(b)
  BY DEF Unstopped
<1>2. cancelled = {}
  BY <1>1, Sorts DEF Structure, CancelInv, IInv, Typed
<1> QED
  BY <1>1, <1>2 DEF Turn, Clear

\* Whose turn it is finds the adapter's lock free.
LEMMA LockIsFree ==
  ASSUME IInv, Structure, NEW a \in Actors, Turn(a), pc[a] # "opening"
  PROVE  ad.lock = <<>>
<1>1. SUFFICES ASSUME ad.lock # <<>> PROVE FALSE
  OBVIOUS
<1>2. ad.lock \in Seq(Actors)
  BY DEF IInv, Typed, Adapters
<1>3. 1 \in DOMAIN ad.lock /\ ad.lock[1] \in Actors
  BY <1>1, <1>2, EmptySeq, LenProperties
<1>4. PICK x \in Actors : x = ad.lock[1]
  BY <1>3
<1>5. InLock(x)
  BY <1>3, <1>4 DEF InLock
<1>6. pc[x] \in AtLock
  BY <1>5 DEF IInv, QueueInv
<1>7. pc[x] = "opening"
  BY <1>6 DEF AtLock, Structure, PlacesInv
<1>8. x # a /\ Alive(x) /\ ~Works(x)
  BY <1>7 DEF Alive, Works
<1> QED
  BY <1>8 DEF Turn

-----------------------------------------------------------------------------
(* What the steps do to the places of the coroutines *)

\* a goes on to next, tasks of the kinds begin, and nobody else moves.
Begins(a, next, kinds) ==
    /\ pc'[a] = next
    /\ \A x \in Actors : x # a =>
          \/ pc'[x] = pc[x]
          \/ x \in Tasks /\ pc[x] = "idle" /\ x[1] \in kinds /\ pc'[x] = FirstAwait(x) /\ ref'[x[1]] = x
    /\ \A k \in Kinds \ kinds : ref'[k] = ref[k]
    /\ \A k \in kinds :
          /\ ref'[k] \in OfKind(k) /\ pc[ref'[k]] = "idle"
          /\ ref'[k] # a => pc'[ref'[k]] = FirstAwait(ref'[k])

LEMMA RunBegins ==
  ASSUME Typed, NEW a \in Actors, NEW next, NEW s, NEW kinds \in SUBSET Kinds,
         RunsTo(a, next, s, kinds)
  PROVE  Begins(a, next, kinds) /\ sup' = s
<1> DEFINE new == [k \in kinds |-> CHOOSE t \in Free(k) : TRUE]
<1>1. ASSUME NEW k \in kinds PROVE new[k] \in OfKind(k) /\ new[k] \in Tasks /\ new[k][1] = k /\ pc[new[k]] = "idle"
  <2>1. Free(k) # {}
    BY DEF RunsTo
  <2>2. new[k] \in Free(k)
    BY <2>1
  <2> QED
    BY <2>2 DEF Free, OfKind, Alive
<1>2. /\ ref' = [k \in Kinds |-> IF k \in kinds THEN new[k] ELSE ref[k]]
      /\ pc' = [x \in Actors |->
                  IF x = a THEN next
                  ELSE IF \E k \in kinds : x = new[k] THEN FirstAwait(x)
                  ELSE pc[x]]
      /\ sup' = s
  BY DEF RunsTo
<1> HIDE DEF new
<1>3. pc'[a] = next
  BY <1>2
<1>4. ASSUME NEW x \in Actors, x # a
      PROVE  \/ pc'[x] = pc[x]
             \/ x \in Tasks /\ pc[x] = "idle" /\ x[1] \in kinds /\ pc'[x] = FirstAwait(x) /\ ref'[x[1]] = x
  <2>1. CASE \E k \in kinds : x = new[k]
    <3>1. PICK k \in kinds : x = new[k]
      BY <2>1
    <3>2. x \in Tasks /\ x[1] = k /\ pc[x] = "idle" /\ k \in Kinds
      BY <1>1, <3>1
    <3>3. pc'[x] = FirstAwait(x) /\ ref'[k] = x
      BY <1>2, <1>4, <3>1, <3>2
    <3> QED
      BY <3>2, <3>3
  <2>2. CASE ~\E k \in kinds : x = new[k]
    BY <1>2, <1>4, <2>2
  <2> QED
    BY <2>1, <2>2
<1>5. \A k \in Kinds \ kinds : ref'[k] = ref[k]
  BY <1>2
<1>6. ASSUME NEW k \in kinds
      PROVE  /\ ref'[k] \in OfKind(k) /\ pc[ref'[k]] = "idle"
             /\ ref'[k] # a => pc'[ref'[k]] = FirstAwait(ref'[k])
  <2>1. ref'[k] = new[k] /\ new[k] \in Actors
    BY <1>1, <1>2, Sorts
  <2> QED
    BY <1>1, <1>2, <2>1
<1> QED
  BY <1>2, <1>3, <1>4, <1>5, <1>6 DEF Begins

\* Whose turn it is goes on and leaves a structure in which nobody cancels.
LEMMA TurnKeeps ==
  ASSUME IInv, Structure, NEW a \in Tasks \union Starters, Turn(a),
         Alive(a) \/ a \in Starters, NEW kinds \in SUBSET Kinds,
         NEW next \in {"idle", "sleeping", "backoff", "opening", "sending"},
         Begins(a, next, kinds), cancelled' = {},
         next = "sleeping" => IsProbe(a),
         next \notin {"idle", "sleeping"} => kinds = {},
         IsProbe(a) => "sparse_probe" \notin kinds,
         Clear(a) \/ (next \in {"idle", "sleeping", "backoff"} /\ kinds \subseteq {"sparse_probe"})
  PROVE  Structure' /\ \A c \in Actors : ~Cancels(c)'
<1>1. a \in Actors
  BY Sorts
<1>2. ~Clear(a) => IsProbe(a) /\ kinds = {} /\ next \in {"idle", "sleeping", "backoff"}
  BY DEF Clear, Turn
<1>3. ASSUME NEW x \in Actors, x # a, pc'[x] # "idle"
      PROVE  \/ pc'[x] = pc[x] /\ Works(x) /\ Works(x)' /\ ~Clear(a) /\ Alive(x)
             \/ /\ x \in Tasks /\ kinds # {} /\ Clear(a) /\ pc'[x] = FirstAwait(x) /\ ref'[x[1]] = x
                /\ x[1] \in kinds
  <2>1. CASE pc'[x] = pc[x]
    <3>1. Alive(x)
      BY <1>3, <2>1 DEF Alive
    <3> QED
      BY <1>3, <2>1, <3>1 DEF Turn, Works, Clear
  <2>2. CASE /\ x \in Tasks /\ pc[x] = "idle" /\ x[1] \in kinds /\ pc'[x] = FirstAwait(x)
             /\ ref'[x[1]] = x
    BY <1>2, <2>2
  <2> QED
    BY <1>3, <2>1, <2>2 DEF Begins
<1>4. pc'[a] = next
  BY DEF Begins
<1>5. \A x \in Tasks : FirstAwait(x) \in {"reading", "sleeping"} /\ (IsProbe(x) => FirstAwait(x) = "sleeping")
  BY Sorts DEF FirstAwait
<1>6. \A x \in Actors : x # a => pc'[x] \in {"idle", "reading", "handling", "sleeping"}
  BY <1>3, <1>5 DEF Works
<1>7. PlacesInv'
  <2>1. ASSUME NEW k \in Kinds PROVE ref'[k] \in OfKind(k) \union {None}
    BY DEF Begins, Structure, PlacesInv
  <2>2. ASSUME NEW t \in Tasks, pc'[t] # "idle" PROVE ref'[t[1]] = t
    <3>1. CASE t = a
      <4>1. Alive(a) /\ ref[a[1]] = a /\ a[1] \in Kinds
        BY <3>1, Sorts DEF Structure, PlacesInv
      <4>2. a[1] \notin kinds
        BY <1>4, <2>2, <3>1, Sorts
      <4> QED
        BY <3>1, <4>1, <4>2 DEF Begins
    <3>2. CASE t # a
      <4>1. CASE pc'[t] = pc[t] /\ Works(t) /\ ~Clear(a) /\ Alive(t)
        <5>1. ref[t[1]] = t /\ t[1] \in Kinds /\ t[1] \notin kinds
          BY <1>2, <4>1, Sorts DEF Structure, PlacesInv
        <5> QED
          BY <5>1 DEF Begins
      <4>2. CASE ref'[t[1]] = t
        BY <4>2
      <4> QED
        BY <1>3, <2>2, <3>2, <4>1, <4>2, Sorts
    <3> QED
      BY <3>1, <3>2
  <2>3. ASSUME NEW x \in Actors PROVE pc'[x] \notin {"waiting", "locking", "closing"}
    BY <1>4, <1>6
  <2>4. ASSUME NEW t \in Tasks, IsProbe(t) PROVE pc'[t] \in {"idle", "sleeping"} \/ InChain(t)'
    <3>1. CASE t = a
      BY <1>4, <3>1 DEF InChain
    <3>2. CASE t # a
      BY <1>3, <1>5, <2>4, <3>2, Sorts DEF Works
    <3> QED
      BY <3>1, <3>2
  <2>5. ASSUME NEW x \in Starters PROVE pc'[x] = "idle" \/ InChain(x)'
    <3>1. ~IsProbe(x) /\ x \in Actors /\ x \notin Tasks
      BY Sorts
    <3>2. CASE x = a
      BY <1>4, <3>1, <3>2 DEF InChain
    <3>3. CASE x # a
      BY <1>3, <3>1, <3>3 DEF Works
    <3> QED
      BY <3>2, <3>3
  <2> QED
    BY <2>1, <2>2, <2>3, <2>4, <2>5 DEF PlacesInv, Alive, IsProbe, OfKind
<1>8. \A c \in Actors : ~Cancels(c)'
  BY <1>4, <1>6 DEF Cancels
<1>9. CancelInv'
  BY <1>8 DEF CancelInv
<1>10. \A x \in Actors : InChain(x)' => x = a /\ kinds = {}
  BY <1>4, <1>6 DEF InChain
<1>11. ChainInv'
  <2>1. RetryExclusive'
    BY <1>10 DEF RetryExclusive
  <2>2. ASSUME NEW x \in Actors, NEW b \in Actors, InChain(x)', Alive(b)', x # b
        PROVE  (IsProbe(x) /\ pc[x] = "backoff" /\ Works(b))'
    <3>1. x = a /\ kinds = {} /\ pc'[b] # "idle"
      BY <1>10, <2>2 DEF Alive
    <3>2. Works(b)' /\ ~Clear(a)
      BY <1>3, <2>2, <3>1
    <3>3. IsProbe(a) /\ next = "backoff"
      BY <1>2, <1>4, <2>2, <3>1, <3>2 DEF InChain
    <3> QED
      BY <1>4, <3>1, <3>2, <3>3
  <2> QED
    BY <2>1, <2>2 DEF ChainInv
<1> QED
  BY <1>7, <1>8, <1>9, <1>11 DEF Structure

Attended == \E x \in Actors : InChain(x) \/ (IsProbe(x) /\ Alive(x))

\* What no retreating coroutine brings about.
Calmer ==
    /\ \A x \in Actors : pc'[x] \notin {"opening", "sending", "cancelling"}
    /\ \A x \in Actors : pc'[x] = "handling" => pc[x] = "handling"
    /\ \A x \in Actors : Works(x)' => Works(x)

\* An attempt that ends leaves a next one: in the backoff or by a probe.
LEMMA Retreats ==
  ASSUME IInv, Structure, NEW a \in Tasks \union Starters, Turn(a),
         Alive(a) \/ a \in Starters, NEW s \in Supervisors, ~s.closing, cancelled' = {},
         RunsTo(a, "backoff", s, {}) \/ RunsTo(a, Returns(a, s), s, NewProbe(s))
  PROVE  /\ Structure' /\ Calmer /\ sup' = s /\ ~Works(a)'
         /\ s.attempt > MaxAttempts \/ RunsTo(a, "backoff", s, {}) => Attended'
<1>1. a \in Actors /\ Typed /\ {} \in SUBSET Kinds /\ NewProbe(s) \in SUBSET Kinds
  BY Sorts DEF IInv, NewProbe, Kinds
<1>2. PICK next \in {"idle", "sleeping", "backoff"}, kinds \in SUBSET Kinds :
         /\ Begins(a, next, kinds) /\ sup' = s
         /\ \/ next = "backoff" /\ kinds = {}
            \/ next = Returns(a, s) /\ kinds = NewProbe(s) /\ RunsTo(a, Returns(a, s), s, NewProbe(s))
  <2>1. CASE RunsTo(a, "backoff", s, {})
    BY <1>1, <2>1, RunBegins
  <2>2. CASE RunsTo(a, Returns(a, s), s, NewProbe(s))
    <3>1. Returns(a, s) \in {"idle", "sleeping", "backoff"}
      BY DEF Returns
    <3> QED
      BY <1>1, <2>2, <3>1, RunBegins
  <2> QED
    BY <2>1, <2>2
<1>3. next = "sleeping" => IsProbe(a)
  BY <1>2 DEF Returns, IsProbe
<1>4. IsProbe(a) => kinds = {}
  <2>1. IsProbe(a) => ref["sparse_probe"] = a /\ Alive(a) /\ a # None
    BY Sorts DEF Structure, PlacesInv, None
  <2> QED
    BY <1>2, <2>1 DEF NewProbe
<1>5. kinds \subseteq {"sparse_probe"}
  BY <1>2 DEF NewProbe
<1>6. Structure' /\ \A c \in Actors : ~Cancels(c)'
  <2>1. next \notin {"idle", "sleeping"} => kinds = {}
    BY <1>2 DEF Returns
  <2> QED
    BY <1>2, <1>3, <1>4, <1>5, <2>1, TurnKeeps
<1>7. Calmer
  <2>1. ASSUME NEW x \in Actors, x # a PROVE pc'[x] = pc[x] \/ (IsProbe(x) /\ pc'[x] = "sleeping")
    <3>1. x \in Tasks /\ x[1] \in kinds => IsProbe(x) /\ FirstAwait(x) = "sleeping"
      BY <1>5, Sorts DEF FirstAwait
    <3> QED
      BY <1>2, <2>1, <3>1 DEF Begins
  <2>2. ASSUME NEW x \in Actors, x # a PROVE pc[x] \in {"idle", "reading", "handling", "sleeping"}
    BY <2>2 DEF Turn, Alive, Works
  <2>3. pc'[a] = next
    BY <1>2 DEF Begins
  <2>4. \A x \in Actors : pc'[x] \notin {"opening", "sending", "cancelling"}
    BY <2>1, <2>2, <2>3
  <2>5. \A x \in Actors : pc'[x] = "handling" => pc[x] = "handling"
    BY <2>1, <2>3
  <2>6. ASSUME NEW x \in Actors, Works(x)' PROVE Works(x)
    <3>1. x # a
      BY <1>3, <2>3, <2>6 DEF Works
    <3> QED
      BY <2>1, <2>6, <3>1 DEF Works
  <2> QED
    BY <2>4, <2>5, <2>6 DEF Calmer
<1>11. ~Works(a)'
  BY <1>2, <1>3 DEF Begins, Works, IsProbe
<1>8. ASSUME next = "backoff" PROVE Attended'
  BY <1>1, <1>2, <1>8 DEF Begins, Attended, InChain
<1>9. ASSUME s.attempt > MaxAttempts, next = Returns(a, s), kinds = NewProbe(s) PROVE Attended'
  <2>1. CASE IsProbe(a)
    <3>1. next = "sleeping"
      BY <1>9, <2>1 DEF Returns, IsProbe
    <3> QED
      BY <1>1, <1>2, <2>1, <3>1 DEF Begins, Attended, Alive
  <2>2. CASE ~IsProbe(a)
    <3>1. ref["sparse_probe"] \in OfKind("sparse_probe") \union {None}
      BY DEF Structure, PlacesInv, Kinds
    <3>2. ~(ref["sparse_probe"] # None /\ Alive(ref["sparse_probe"]))
      BY <2>2, <3>1, Sorts DEF Turn, IsProbe
    <3>3. kinds = {"sparse_probe"}
      BY <1>9, <3>2, SupervisorAssumption DEF NewProbe, Supervisors
    <3>4. PICK p \in OfKind("sparse_probe") : p = ref'["sparse_probe"]
      BY <1>2, <3>3 DEF Begins
    <3>5. p # a /\ IsProbe(p) /\ p \in Tasks /\ p \in Actors
      BY <2>2, Sorts DEF IsProbe
    <3>6. pc'[p] = "sleeping"
      BY <1>2, <3>3, <3>4, <3>5, Sorts DEF Begins, FirstAwait
    <3> QED
      BY <3>5, <3>6 DEF Attended, Alive
  <2> QED
    BY <2>1, <2>2
<1>10. s.attempt > MaxAttempts \/ RunsTo(a, "backoff", s, {}) => Attended'
  <2>1. ASSUME RunsTo(a, "backoff", s, {}) PROVE Attended'
    <3>1. pc'[a] = "backoff"
      BY <1>1, <2>1, RunBegins DEF Begins
    <3> QED
      BY <1>1, <3>1 DEF Attended, InChain
  <2> QED
    BY <1>2, <1>8, <1>9, <2>1
<1> QED
  BY <1>2, <1>6, <1>7, <1>10, <1>11

\* A task that works, and ends or works on, leaves the others where they are.
LEMMA WorkerStays ==
  ASSUME IInv, Unstopped, Structure, NEW t \in Tasks, Works(t), t \notin cancelled,
         NEW next \in {"idle", "reading", "handling"}, NEW s, RunsTo(t, next, s, {}),
         UNCHANGED <<cancelled, waitFor>>
  PROVE  /\ Structure' /\ sup' = s /\ pc'[t] = next
         /\ \A x \in Actors : x # t => pc'[x] = pc[x]
         /\ \A x \in Actors : pc'[x] \notin {"opening", "sending", "cancelling"}
         /\ \A x \in Actors : Works(x)' => Works(x)
<1>1. /\ t \in Actors /\ Typed /\ {} \in SUBSET Kinds /\ ~IsProbe(t) /\ Alive(t)
  BY Sorts DEF IInv, Works, Alive
<1>2. Begins(t, next, {}) /\ sup' = s
  BY <1>1, RunBegins
<1>3. pc'[t] = next /\ \A x \in Actors : x # t => pc'[x] = pc[x]
  BY <1>2 DEF Begins
<1>4. \A k \in Kinds : ref'[k] = ref[k]
  BY <1>2 DEF Begins
<1>5. /\ cancelled = {} /\ \A c \in Actors : ~Cancels(c)
      /\ \A b \in Actors : b # t /\ Alive(b) =>
            /\ b \in Tasks /\ pc[b] \in {"reading", "handling", "sleeping", "backoff"}
            /\ Works(b) \/ IsProbe(b)
  BY BesideWorker
<1>6. \A x \in Actors : pc'[x] \notin {"opening", "sending", "cancelling"}
  BY <1>3, <1>5 DEF Alive
<1>7. PlacesInv'
  <2>1. \A k \in Kinds : ref'[k] \in OfKind(k) \union {None}
    BY <1>4 DEF Structure, PlacesInv
  <2>2. \A x \in Tasks : Alive(x)' => ref'[x[1]] = x
    BY <1>1, <1>3, <1>4, Sorts DEF Structure, PlacesInv, Alive
  <2>3. \A x \in Actors : pc'[x] \notin {"waiting", "locking", "closing"}
    BY <1>3 DEF Structure, PlacesInv
  <2>4. \A x \in Tasks : IsProbe(x) => pc'[x] \in {"idle", "sleeping"} \/ InChain(x)'
    BY <1>1, <1>3, Sorts DEF Structure, PlacesInv, InChain
  <2>5. \A x \in Starters : pc'[x] = "idle" \/ InChain(x)'
    BY <1>3, Sorts DEF Structure, PlacesInv, InChain
  <2> QED
    BY <2>1, <2>2, <2>3, <2>4, <2>5 DEF PlacesInv, IsProbe, OfKind
<1>8. CancelInv'
  BY <1>5, <1>6 DEF CancelInv, Cancels
<1>9. \A x \in Actors : InChain(x)' => InChain(x) /\ x # t /\ pc'[x] = pc[x]
  BY <1>3 DEF InChain
<1>10. ChainInv'
  <2>1. RetryExclusive'
    BY <1>9 DEF Structure, ChainInv, RetryExclusive
  <2>2. ASSUME NEW x \in Actors, NEW b \in Actors, InChain(x)', Alive(b)', x # b
        PROVE  (IsProbe(x) /\ pc[x] = "backoff" /\ Works(b))'
    <3>1. InChain(x) /\ x # t /\ pc'[x] = pc[x] /\ x \notin cancelled
      BY <1>5, <1>9, <2>2
    <3>2. IsProbe(x) /\ pc[x] = "backoff"
      BY <1>1, <3>1 DEF Structure, ChainInv
    <3>3. CASE b = t
      BY <1>1, <1>3, <2>2, <3>1, <3>2, <3>3 DEF Works, Alive
    <3>4. CASE b # t
      <4>1. Alive(b) /\ pc'[b] = pc[b]
        BY <1>3, <2>2, <3>4 DEF Alive
      <4>2. Works(b)
        BY <2>2, <3>1, <4>1 DEF Structure, ChainInv
      <4> QED
        BY <3>1, <3>2, <4>1, <4>2 DEF Works
    <3> QED
      BY <3>3, <3>4
  <2> QED
    BY <2>1, <2>2 DEF ChainInv
<1>11. \A x \in Actors : Works(x)' => Works(x)
  BY <1>3 DEF Works
<1> QED
  BY <1>2, <1>3, <1>6, <1>7, <1>8, <1>10, <1>11 DEF Structure

\* A task that finds others alive cancels them all.
LEMMA WorkerCancels ==
  ASSUME IInv, Unstopped, Structure, NEW t \in Tasks, Works(t), t \notin cancelled,
         CancelTasks(t), RunsTo(t, "cancelling", sup, {})
  PROVE  /\ Structure' /\ sup' = sup /\ Cancels(t)'
         /\ \A x \in Actors : x # t => pc'[x] = pc[x]
         /\ \A x \in Actors : pc'[x] \notin {"opening", "sending"}
         /\ \A x \in Actors : Works(x)' => x \in cancelled'
<1>1. /\ t \in Actors /\ Typed /\ {} \in SUBSET Kinds /\ ~IsProbe(t) /\ Alive(t)
  BY Sorts DEF IInv, Works, Alive
<1>2. Begins(t, "cancelling", {}) /\ sup' = sup
  BY <1>1, RunBegins
<1>3. pc'[t] = "cancelling" /\ \A x \in Actors : x # t => pc'[x] = pc[x]
  BY <1>2 DEF Begins
<1>4. \A k \in Kinds : ref'[k] = ref[k]
  BY <1>2 DEF Begins
<1>5. /\ cancelled = {} /\ \A c \in Actors : ~Cancels(c)
      /\ \A b \in Actors : b # t /\ Alive(b) =>
            /\ b \in Tasks /\ pc[b] \in {"reading", "handling", "sleeping", "backoff"}
            /\ Works(b) \/ IsProbe(b)
  BY BesideWorker
<1>6. Victims(t) = {b \in Actors \ {t} : Alive(b)}
  BY VictimsAreAll
<1>7. cancelled' = Victims(t) /\ waitFor'[t] = Victims(t)
  <2>1. waitFor'[t] = Victims(t)
    BY <1>1 DEF CancelTasks, Typed
  <2>2. \A v \in Victims(t) : pc[v] # "cancelling"
    BY <1>5, <1>6 DEF Cancels
  <2> QED
    BY <1>5, <2>1, <2>2 DEF CancelTasks
<1>8. \A x \in Actors : x # t /\ pc'[x] # "idle" => x \in Victims(t)
  BY <1>3, <1>6 DEF Alive
<1>9. \A x \in Actors : x # t => pc'[x] \in {"idle", "reading", "handling", "sleeping", "backoff"}
  BY <1>3, <1>5 DEF Alive
<1>10. PlacesInv'
  <2>1. \A k \in Kinds : ref'[k] \in OfKind(k) \union {None}
    BY <1>4 DEF Structure, PlacesInv
  <2>2. \A x \in Tasks : Alive(x)' => ref'[x[1]] = x
    BY <1>1, <1>3, <1>4, Sorts DEF Structure, PlacesInv, Alive
  <2>3. \A x \in Actors : pc'[x] \notin {"waiting", "locking", "closing"}
    BY <1>3, <1>9
  <2>4. \A x \in Tasks : IsProbe(x) => pc'[x] \in {"idle", "sleeping"} \/ InChain(x)'
    BY <1>1, <1>3, Sorts DEF Structure, PlacesInv, InChain
  <2>5. \A x \in Starters : pc'[x] = "idle" \/ InChain(x)'
    BY <1>3, Sorts DEF Structure, PlacesInv, InChain
  <2> QED
    BY <2>1, <2>2, <2>3, <2>4, <2>5 DEF PlacesInv, IsProbe, OfKind
<1>11. \A c \in Actors : Cancels(c)' <=> c = t
  BY <1>3, <1>9 DEF Cancels
<1>12. CancelInv'
  <2>1. ASSUME NEW c \in Actors, Cancels(c)'
        PROVE  /\ c \notin cancelled'
               /\ \A b \in Actors : b # c /\ Alive(b)' => b \in cancelled' \cap waitFor'[c]
    <3>1. c = t
      BY <1>11, <2>1
    <3> QED
      BY <1>6, <1>7, <1>8, <3>1 DEF Alive
  <2>2. ASSUME NEW x \in cancelled'
        PROVE  /\ Alive(x)' /\ pc'[x] \notin {"opening", "sending"}
               /\ \E c \in Actors : Cancels(c)'
    <3>1. x \in Actors /\ x # t /\ Alive(x)
      BY <1>6, <1>7, <2>2
    <3> QED
      BY <1>1, <1>3, <1>9, <1>11, <3>1 DEF Alive
  <2> QED
    BY <2>1, <2>2 DEF CancelInv
<1>13. \A x \in Actors : InChain(x)' => InChain(x) /\ x # t /\ x \in cancelled'
  BY <1>3, <1>7, <1>8 DEF InChain
<1>14. ChainInv'
  <2>1. RetryExclusive'
    BY <1>13 DEF Structure, ChainInv, RetryExclusive
  <2> QED
    BY <1>13, <2>1 DEF ChainInv
<1>15. \A x \in Actors : Works(x)' => x \in cancelled'
  BY <1>3, <1>7, <1>8 DEF Works
<1> QED
  BY <1>1, <1>2, <1>3, <1>9, <1>10, <1>11, <1>12, <1>14, <1>15 DEF Structure

\* A cancelled task ends; whoever cancelled it still waits.
LEMMA CancelledEnds ==
  ASSUME IInv, Structure, NEW a \in Actors, Unwind(a)
  PROVE  /\ Structure' /\ sup' = sup
         /\ \A x \in Actors : x # a => pc'[x] = pc[x]
         /\ \E c \in Actors : Cancels(c) /\ Cancels(c)'
         /\ \A x \in Actors : pc'[x] \notin {"opening", "sending"}
         /\ \A x \in Actors : Works(x)' => x \in cancelled'
         /\ pc'[a] = "idle"
<1>1. /\ Typed /\ {} \in SUBSET Kinds
      /\ a \in cancelled /\ cancelled' = cancelled \ {a} /\ waitFor' = waitFor
      /\ RunsTo(a, "idle", sup, {})
  BY DEF IInv, Unwind
<1>2. Begins(a, "idle", {}) /\ sup' = sup
  BY <1>1, RunBegins
<1>3. pc'[a] = "idle" /\ \A x \in Actors : x # a => pc'[x] = pc[x]
  BY <1>2 DEF Begins
<1>4. \A k \in Kinds : ref'[k] = ref[k]
  BY <1>2 DEF Begins
<1>5. PICK c \in Actors : Cancels(c)
  BY <1>1 DEF Structure, CancelInv
<1>6. /\ c \notin cancelled /\ c # a /\ Alive(c)
      /\ \A b \in Actors : b # c /\ Alive(b) => b \in cancelled \cap waitFor[c]
  BY <1>1, <1>5 DEF Structure, CancelInv, Cancels, Alive
<1>7. Cancels(c)'
  BY <1>3, <1>5, <1>6 DEF Cancels
<1>8. \A x \in Actors : x # c /\ Alive(x)' => x # a /\ Alive(x) /\ x \in cancelled' /\ x \in waitFor'[c]
  BY <1>1, <1>3, <1>6 DEF Alive
<1>9. \A x \in Actors : pc'[x] \notin {"opening", "sending"}
  <2> SUFFICES ASSUME NEW x \in Actors, pc'[x] \in {"opening", "sending"} PROVE FALSE
    OBVIOUS
  <2>1. x # c /\ Alive(x)'
    BY <1>7 DEF Cancels, Alive
  <2>2. x \in cancelled /\ pc[x] = pc'[x]
    BY <1>3, <1>6, <1>8, <2>1
  <2> QED
    BY <2>2 DEF Structure, CancelInv
<1>10. PlacesInv'
  <2>1. \A k \in Kinds : ref'[k] \in OfKind(k) \union {None}
    BY <1>4 DEF Structure, PlacesInv
  <2>2. \A x \in Tasks : Alive(x)' => ref'[x[1]] = x
    BY <1>3, <1>4, Sorts DEF Structure, PlacesInv, Alive
  <2>3. \A x \in Actors : pc'[x] \notin {"waiting", "locking", "closing"}
    BY <1>3 DEF Structure, PlacesInv
  <2>4. \A x \in Tasks : IsProbe(x) => pc'[x] \in {"idle", "sleeping"} \/ InChain(x)'
    BY <1>3, Sorts DEF Structure, PlacesInv, InChain
  <2>5. \A x \in Starters : pc'[x] = "idle" \/ InChain(x)'
    BY <1>3, Sorts DEF Structure, PlacesInv, InChain
  <2> QED
    BY <2>1, <2>2, <2>3, <2>4, <2>5 DEF PlacesInv, IsProbe, OfKind
<1>11. CancelInv'
  <2>1. ASSUME NEW d \in Actors, Cancels(d)'
        PROVE  /\ d \notin cancelled'
               /\ \A b \in Actors : b # d /\ Alive(b)' => b \in cancelled' \cap waitFor'[d]
    <3>1. d # a /\ Cancels(d)
      BY <1>3, <2>1 DEF Cancels
    <3>2. /\ d \notin cancelled
          /\ \A b \in Actors : b # d /\ Alive(b) => b \in cancelled \cap waitFor[d]
      BY <3>1 DEF Structure, CancelInv
    <3> QED
      BY <1>1, <1>3, <3>2 DEF Alive
  <2>2. ASSUME NEW x \in cancelled'
        PROVE  /\ Alive(x)' /\ pc'[x] \notin {"opening", "sending"}
               /\ \E d \in Actors : Cancels(d)'
    <3>1. x \in cancelled /\ x # a /\ x \in Actors
      BY <1>1, <2>2, Sorts DEF Typed
    <3>2. Alive(x) /\ pc'[x] = pc[x]
      BY <1>3, <3>1 DEF Structure, CancelInv
    <3> QED
      BY <1>7, <1>9, <3>1, <3>2 DEF Alive
  <2> QED
    BY <2>1, <2>2 DEF CancelInv
<1>12. \A x \in Actors : InChain(x)' => InChain(x) /\ x # c /\ x \in cancelled'
  BY <1>3, <1>7, <1>8 DEF InChain, Cancels, Alive
<1>13. ChainInv'
  <2>1. RetryExclusive'
    BY <1>12 DEF Structure, ChainInv, RetryExclusive
  <2> QED
    BY <1>12, <2>1 DEF ChainInv
<1>14. \A x \in Actors : Works(x)' => x \in cancelled'
  BY <1>7, <1>8 DEF Works, Cancels, Alive
<1> QED
  BY <1>2, <1>3, <1>5, <1>7, <1>9, <1>10, <1>11, <1>13, <1>14 DEF Structure

-----------------------------------------------------------------------------
(* The retry budget and the circuit *)

LEMMA BudgetFails ==
  ASSUME Enough, NEW b \in Breaker, NEW n \in Nat, Budget(b, n, 0)
  PROVE  Budget(RecordFailure(b), n, 1)
<1>1. /\ b.state \in {"closed", "open", "half_open"} /\ b.failures \in Nat /\ MaxAttempts \in Nat
      /\ FailureThreshold \in Nat /\ FailureThreshold > MaxAttempts
  BY SupervisorAssumption, BreakerAssumption DEF Breaker, BreakerStates, Enough
<1>2. CASE b.state = "half_open" \/ (b.state = "closed" /\ b.failures + 1 >= FailureThreshold)
  <2>1. RecordFailure(b).state = "open"
    BY <1>2 DEF RecordFailure, OpenBreaker
  <2>2. n + 1 > MaxAttempts
    BY <1>1, <1>2 DEF Budget
  <2> QED
    BY <2>1, <2>2 DEF Budget
<1>3. CASE ~(b.state = "half_open" \/ (b.state = "closed" /\ b.failures + 1 >= FailureThreshold))
  <2>1. /\ RecordFailure(b).state = b.state
        /\ RecordFailure(b).failures = IF b.failures < FailureThreshold THEN b.failures + 1 ELSE b.failures
    BY <1>3 DEF RecordFailure, CountFailure, Breaker
  <2> QED
    BY <1>1, <2>1 DEF Budget
<1> QED
  BY <1>2, <1>3

LEMMA BudgetCounts ==
  ASSUME NEW b \in Breaker, NEW n \in Nat, Budget(b, n, 1)
  PROVE  Budget(b, IF n > MaxAttempts THEN n ELSE n + 1, 0)
<1>1. b.failures \in Nat /\ MaxAttempts \in Nat
  BY SupervisorAssumption, BreakerAssumption DEF Breaker
<1> QED
  BY <1>1 DEF Budget

LEMMA BudgetAdmits ==
  ASSUME NEW b \in Breaker, NEW n \in Nat, Budget(b, n, 0)
  PROVE  Budget(Admitted(b), n, 0)
<1>1. CASE b.state = "closed"
  BY <1>1 DEF Admitted
<1>2. CASE b.state # "closed"
  <2>1. Admitted(b).state # "closed"
    BY <1>2 DEF Admitted, Breaker, BreakerStates
  <2> QED
    BY <1>2, <2>1 DEF Budget
<1> QED
  BY <1>1, <1>2

\* The first frame of a connection closes the circuit.
LEMMA BudgetRestored ==
  ASSUME Enough, NEW b \in Breaker, b.state # "open"
  PROVE  Budget(RecordSuccess(b), 0, 0)
<1>1. RecordSuccess(b).state = "closed" /\ RecordSuccess(b).failures = 0
  BY BreakerAssumption DEF RecordSuccess, ClosedBreaker, Breaker, BreakerStates, Enough
<1> QED
  BY <1>1 DEF Budget

LEMMA AdmittedIsNotOpen == ASSUME NEW b \in Breaker PROVE Admitted(b).state # "open"
BY DEF Admitted, Breaker, BreakerStates

-----------------------------------------------------------------------------
(* The steps of the reconnect chain *)

LEMMA LoneTyped ==
  ASSUME IInv
  PROVE  /\ sup \in Supervisors /\ sup.attempt \in Nat /\ breaker \in Breaker /\ ad \in Adapters
         /\ MaxAttempts \in Nat
BY SupervisorAssumption DEF IInv, Typed, Supervisors

\* Nobody is due while nobody cancels.
LEMMA NothingDue == (\A c \in Actors : ~Cancels(c)) => Due = 0
BY DEF Due

LEMMA TurnIsQuiet ==
  ASSUME NEW a \in Actors, Turn(a), ~Cancels(a)
  PROVE  \A c \in Actors : ~Cancels(c)
BY DEF Turn, Cancels, Works, Alive

\* stop() has not been called: its place is what the structure leaves.
LEMMA StopIsIdle ==
  ASSUME IInv', Structure', ~Cancels(Stop)'
  PROVE  pc'[Stop] = "idle"
<1>1. pc'[Stop] \in {"idle", "cancelling", "locking", "closing"}
  BY DEF IInv, StopInv
<1>2. pc'[Stop] \notin {"waiting", "locking", "closing"}
  BY Sorts DEF Structure, PlacesInv
<1> QED
  BY <1>1, <1>2 DEF Cancels

\* A coroutine that retreats leaves a state in which the budget says how it goes on.
LEMMA RetreatKeeps ==
  ASSUME IInv', Lone, Structure', Calmer, cancelled = {}, cancelled' = {},
         sup'.state = "backing_off", ~sup'.closing,
         (\E m \in Tasks : pc[m] = "handling") => sup'.heard = sup.heard,
         \A t \in Tasks : Works(t)' => ad'.state = ad.state,
         Enough => Budget(breaker', sup'.attempt, 0) /\ Attended'
  PROVE  Lone'
<1>1. \A c \in Actors : ~Cancels(c)'
  BY DEF Calmer, Cancels
<1>2. pc'[Stop] = "idle"
  BY <1>1, StopIsIdle, Sorts
<1>3. Unstopped'
  BY <1>2 DEF Unstopped
<1>4. AdapterInv'
  BY Sorts DEF AdapterInv, Lone, Data, Calmer
<1>5. StateInv'
  BY DEF StateInv, Calmer
<1>6. HeardInv'
  BY Sorts DEF HeardInv, Lone, Data, Calmer
<1>7. BudgetInv'
  <2> SUFFICES ASSUME Enough PROVE Budget(breaker', sup'.attempt, Due') /\ RetryAttended'
    BY DEF BudgetInv
  <2>1. Due' = 0
    BY <1>1 DEF Due
  <2>2. RetryAttended'
    BY DEF Attended, RetryAttended, IsProbe
  <2> QED
    BY <2>1, <2>2
<1> QED
  BY <1>3, <1>4, <1>5, <1>6, <1>7 DEF Lone, Data

\* _handle_connection_failure().
LEMMA FailureKeeps ==
  ASSUME IInv, IInv', Lone, NEW a \in Tasks \union Starters, Turn(a),
         Alive(a) \/ a \in Starters, cancelled' = {},
         NEW s \in Supervisors, ~s.closing, s.attempt = sup.attempt,
         HandleConnectionFailure(a, s),
         (\E m \in Tasks : pc[m] = "handling") => s.heard = sup.heard,
         \A t \in Tasks : t # a /\ Works(t) => ad'.state = ad.state,
         Enough => Budget(breaker', sup.attempt, 1)
  PROVE  Lone' /\ Resets
<1> DEFINE failed == [s EXCEPT !.state = "backing_off",
                               !.attempt = IF @ > MaxAttempts THEN @ ELSE @ + 1]
<1>1. /\ sup.attempt \in Nat /\ MaxAttempts \in Nat /\ breaker' \in Breaker
      /\ s.attempt \in 0..(MaxAttempts + 1)
  BY LoneTyped DEF IInv, Typed, Supervisors
<1>2. (IF s.attempt > MaxAttempts THEN s.attempt ELSE s.attempt + 1) \in 0..(MaxAttempts + 1)
  BY <1>1
<1>3. /\ failed \in Supervisors /\ ~failed.closing /\ failed.state = "backing_off"
      /\ failed.heard = s.heard
      /\ failed.attempt = IF s.attempt > MaxAttempts THEN s.attempt ELSE s.attempt + 1
  BY <1>2 DEF Supervisors, States
<1>4. \/ failed.attempt > MaxAttempts /\ RunsTo(a, Returns(a, failed), failed, NewProbe(failed))
      \/ RunsTo(a, "backoff", failed, {})
  BY DEF HandleConnectionFailure
<1> HIDE DEF failed
<1>5. /\ Structure' /\ Calmer /\ sup' = failed /\ Attended' /\ ~Works(a)'
  <2>1. /\ Structure' /\ Calmer /\ sup' = failed /\ ~Works(a)'
        /\ failed.attempt > MaxAttempts \/ RunsTo(a, "backoff", failed, {}) => Attended'
    BY <1>3, <1>4, Retreats DEF Lone
  <2> QED
    BY <1>4, <2>1
<1>6. Enough => Budget(breaker', failed.attempt, 0)
  BY <1>1, <1>3, BudgetCounts
<1>7. Lone'
  <2>1. cancelled = {}
    BY DEF Turn
  <2>2. \A t \in Tasks : Works(t)' => ad'.state = ad.state
    BY <1>5, Sorts DEF Calmer
  <2> QED
    BY <1>3, <1>5, <1>6, <2>1, <2>2, RetreatKeeps
<1>8. Resets
  BY <1>1, <1>3, <1>5 DEF Resets
<1> QED
  BY <1>7, <1>8

\* The except clause of _connect().
LEMMA FailedConnectKeeps ==
  ASSUME IInv, IInv', Lone, NEW a \in Tasks \union Starters, Turn(a),
         Alive(a) \/ a \in Starters, cancelled' = {},
         NEW s \in Supervisors, ~s.closing, s.attempt = sup.attempt,
         NEW b \in Breaker, ConnectFailed(a, s, b),
         (\E m \in Tasks : pc[m] = "handling") => s.heard = sup.heard,
         \A t \in Tasks : t # a /\ Works(t) => ad'.state = ad.state,
         Enough => Budget(b, sup.attempt, 0)
  PROVE  Lone' /\ Resets
<1>1. Enough => Budget(breaker', sup.attempt, 1)
  BY LoneTyped, BudgetFails DEF ConnectFailed
<1> QED
  BY <1>1, FailureKeeps DEF ConnectFailed

\* The budget holds for whoever's turn it is.
LEMMA BudgetInTurn ==
  ASSUME IInv, Lone, NEW a \in Actors, Turn(a), ~Cancels(a)
  PROVE  Enough => Budget(breaker, sup.attempt, 0) /\ RetryAttended
BY TurnIsQuiet, NothingDue DEF Lone, Data, BudgetInv

\* A coroutine that is alone is then opening, or about to subscribe.
LEMMA AloneKeeps ==
  ASSUME IInv, IInv', Lone, NEW a \in Tasks \union Starters, Turn(a), Clear(a),
         Alive(a) \/ a \in Starters, cancelled' = {},
         NEW next \in {"opening", "sending"}, NEW s, RunsTo(a, next, s, {}),
         ~s.closing, s.state = "connecting", s.attempt = sup.attempt,
         breaker'.state # "open", next = "sending" => ad'.state \notin {"stopped", "backing_off"},
         Enough => Budget(breaker', sup.attempt, 0)
  PROVE  Lone' /\ Resets
<1>1. a \in Actors /\ Typed /\ {} \in SUBSET Kinds
  BY Sorts DEF IInv
<1>2. Begins(a, next, {}) /\ sup' = s
  BY <1>1, RunBegins
<1>3. Structure' /\ \A c \in Actors : ~Cancels(c)'
  BY <1>1, <1>2, TurnKeeps DEF Lone
<1>4. pc'[Stop] = "idle"
  BY <1>3, StopIsIdle, Sorts
<1>5. pc'[a] = next /\ \A x \in Actors : x # a => pc'[x] = "idle"
  BY <1>2 DEF Begins, Clear, Alive
<1>6. Unstopped'
  BY <1>2, <1>4 DEF Unstopped
<1>7. AdapterInv'
  BY <1>1, <1>5, Sorts DEF AdapterInv, Works
<1>8. StateInv'
  BY <1>2, <1>5 DEF StateInv
<1>9. HeardInv'
  BY <1>2, <1>5, Sorts DEF HeardInv
<1>10. BudgetInv'
  <2>1. Due' = 0
    BY <1>3 DEF Due
  <2> QED
    BY <1>2, <2>1 DEF BudgetInv, RetryAttended
<1>11. Resets
  BY <1>2, LoneTyped DEF Resets
<1> QED
  BY <1>3, <1>6, <1>7, <1>8, <1>9, <1>10, <1>11 DEF Lone, Data

\* A connection is established by a coroutine that is alone.
LEMMA EstablishedKeeps ==
  ASSUME IInv, IInv', Lone, NEW a \in Tasks \union Starters, Turn(a), Clear(a), Alive(a),
         cancelled' = {}, NEW s, Established(a, s), ~s.closing, s.attempt = sup.attempt,
         s \in Supervisors,
         breaker' = breaker, breaker.state # "open", ad'.state \notin {"stopped", "backing_off"},
         Enough => Budget(breaker, sup.attempt, 0)
  PROVE  Lone' /\ Resets
<1> DEFINE subscribing == [s EXCEPT !.state = "subscribing"]
           kinds == {"message_loop", "heartbeat"} \union IF Rotates THEN {"rotation"} ELSE {}
<1>1. /\ subscribing.state = "subscribing" /\ ~subscribing.closing
      /\ subscribing.attempt = sup.attempt
  BY DEF Supervisors
<1>2. a \in Actors /\ Typed /\ kinds \in SUBSET Kinds /\ "sparse_probe" \notin kinds
  BY Sorts DEF IInv, Kinds
<1>3. Returns(a, subscribing) \in {"idle", "sleeping"} /\ (Returns(a, subscribing) = "sleeping" => IsProbe(a))
  BY DEF Returns, IsProbe
<1>4. RunsTo(a, Returns(a, subscribing), subscribing, kinds)
  BY DEF Established
<1> HIDE DEF subscribing, kinds
<1>5. PICK next \in {"idle", "sleeping"} : next = Returns(a, subscribing)
  BY <1>3
<1>6. Begins(a, next, kinds) /\ sup' = subscribing
  BY <1>2, <1>4, <1>5, RunBegins
<1>7. Structure' /\ \A c \in Actors : ~Cancels(c)'
  BY <1>2, <1>3, <1>5, <1>6, TurnKeeps DEF Lone
<1>8. pc'[Stop] = "idle"
  BY <1>7, StopIsIdle, Sorts
<1>9. pc'[a] = next /\ \A x \in Actors : x # a => pc'[x] \in {"idle", "reading", "sleeping"}
  BY <1>6 DEF Begins, Clear, Alive, FirstAwait
<1>10. Unstopped'
  BY <1>1, <1>6, <1>8 DEF Unstopped
<1>11. AdapterInv'
  BY <1>9 DEF AdapterInv
<1>12. StateInv'
  BY <1>9 DEF StateInv
<1>13. HeardInv'
  BY <1>1, <1>2, <1>6, <1>9, Sorts DEF HeardInv
<1>14. BudgetInv'
  <2>1. Due' = 0
    BY <1>7 DEF Due
  <2> QED
    BY <1>1, <1>6, <2>1 DEF BudgetInv, RetryAttended
<1>15. Resets
  BY <1>1, <1>6, LoneTyped DEF Resets
<1> QED
  BY <1>7, <1>10, <1>11, <1>12, <1>13, <1>14, <1>15 DEF Lone, Data

\* _connect(), whoever calls it.
LEMMA ConnectKeepsLone ==
  ASSUME IInv, IInv', Lone, NEW a \in Tasks \union Starters, Turn(a),
         Alive(a) \/ a \in Starters, pc[a] # "opening", ~Cancels(a),
         Connect(a, sup), UNCHANGED <<cancelled, waitFor, ended>>
  PROVE  Lone' /\ Resets
<1> DEFINE refused    == [sup EXCEPT !.state = "backing_off"]
           connecting == [sup EXCEPT !.state = "connecting"]
<1>1. /\ a \in Actors /\ ~sup.closing /\ cancelled = {} /\ cancelled' = {}
      /\ ad.lock = <<>> /\ sup \in Supervisors /\ breaker \in Breaker /\ ad \in Adapters
  BY Sorts, LockIsFree, LoneTyped DEF Turn, Lone, Unstopped
<1>2. /\ refused \in Supervisors /\ ~refused.closing /\ refused.attempt = sup.attempt
      /\ refused.heard = sup.heard /\ refused.state = "backing_off"
      /\ connecting \in Supervisors /\ ~connecting.closing /\ connecting.attempt = sup.attempt
      /\ connecting.heard = sup.heard /\ connecting.state = "connecting"
  BY <1>1 DEF Supervisors, States
<1>3. Enough => Budget(breaker, sup.attempt, 0)
  BY <1>1, BudgetInTurn
<1>4. \/ /\ ~Admits(breaker) /\ RunsTo(a, Returns(a, refused), refused, NewProbe(refused))
         /\ UNCHANGED <<breaker, ad, sub>>
      \/ AdapterConnect(a, connecting, Admitted(breaker))
  BY <1>1 DEF Connect
<1> HIDE DEF refused, connecting
<1>5. CASE /\ ~Admits(breaker) /\ RunsTo(a, Returns(a, refused), refused, NewProbe(refused))
           /\ UNCHANGED <<breaker, ad, sub>>
  <2>1. /\ Structure' /\ Calmer /\ sup' = refused
        /\ refused.attempt > MaxAttempts => Attended'
    BY <1>1, <1>2, <1>5, Retreats DEF Lone
  <2>2. Enough => sup.attempt > MaxAttempts
    <3>1. breaker.state # "closed"
      BY <1>5 DEF Admits
    <3> QED
      BY <1>3, <3>1, LoneTyped DEF Budget
  <2>3. Lone'
    BY <1>1, <1>2, <1>3, <1>5, <2>1, <2>2, RetreatKeeps
  <2>4. Resets
    BY <1>2, <2>1, LoneTyped DEF Resets
  <2> QED
    BY <2>3, <2>4
<1>6. CASE ConnectFailed(a, connecting, Admitted(breaker)) /\ ad' = [ad EXCEPT !.lock = Others(a)]
  <2>1. Admitted(breaker) \in Breaker
    BY <1>1, BreakerKept
  <2>2. Enough => Budget(Admitted(breaker), sup.attempt, 0)
    BY <1>1, <1>3, BudgetAdmits, LoneTyped
  <2>3. ad'.state = ad.state
    BY <1>1, <1>6 DEF Adapters
  <2> QED
    BY <1>1, <1>2, <1>6, <2>1, <2>2, <2>3, FailedConnectKeeps
<1>7. CASE /\ ad.state \in {"stopped", "backing_off"} /\ breaker' = Admitted(breaker)
           /\ RunsTo(a, "opening", connecting, {})
  <2>1. Clear(a)
    <3>1. \A t \in Tasks : ~Works(t)
      BY <1>1, <1>7 DEF Lone, Data, AdapterInv
    <3> QED
      BY <3>1 DEF Turn, Clear, Works
  <2>2. breaker'.state # "open"
    BY <1>1, <1>7, AdmittedIsNotOpen
  <2>3. Enough => Budget(breaker', sup.attempt, 0)
    BY <1>1, <1>3, <1>7, BudgetAdmits, LoneTyped
  <2> QED
    BY <1>1, <1>2, <1>7, <2>1, <2>2, <2>3, AloneKeeps
<1> QED
  BY <1>4, <1>5, <1>6, <1>7 DEF AdapterConnect

LEMMA StartKeepsLone ==
  ASSUME IInv, IInv', Lone, NEW a \in Starters, Start(a)
  PROVE  Lone' /\ Resets
<1>1. sup \in Supervisors /\ ~sup.closing /\ a \in Actors /\ a \in Tasks \union Starters
  BY LoneTyped, Sorts DEF Lone, Unstopped
<1>2. [sup EXCEPT !.closing = FALSE] = sup
  BY <1>1 DEF Supervisors
<1>3. Turn(a)
  BY StarterTurn DEF Start, Lone
<1>4. Connect(a, sup) /\ UNCHANGED <<cancelled, waitFor, ended>> /\ pc[a] = "idle"
  BY <1>2 DEF Start
<1> QED
  BY <1>1, <1>3, <1>4, ConnectKeepsLone DEF Cancels

LEMMA ChainKeepsLone ==
  ASSUME IInv, IInv', Lone, NEW a \in Tasks \union Starters, Chain(a)
  PROVE  Lone' /\ Resets
<1>1. /\ a \in Actors /\ sup \in Supervisors /\ ~sup.closing /\ breaker \in Breaker /\ ad \in Adapters
      /\ Unstopped /\ Structure /\ {} \in SUBSET Kinds /\ Typed
  BY LoneTyped, Sorts DEF Lone, Unstopped, IInv
<1>2. CASE a \notin cancelled /\ BackoffElapsed(a)
  <2>1. InChain(a) /\ Alive(a) /\ ~Cancels(a) /\ pc[a] # "opening"
    BY <1>2 DEF BackoffElapsed, InChain, Alive, Cancels
  <2>2. Turn(a)
    BY <1>1, <1>2, <2>1, ChainTurn
  <2> QED
    BY <1>2, <2>1, <2>2, ConnectKeepsLone DEF BackoffElapsed
<1>3. CASE a \notin cancelled /\ ProbeWakes(a)
  <2>1. IsProbe(a) /\ Alive(a) /\ ~Cancels(a) /\ pc[a] # "opening" /\ pc[a] = "sleeping"
    BY <1>3 DEF ProbeWakes, IsProbe, Alive, Cancels
  <2>2. Turn(a)
    BY <1>1, <1>3, <2>1, ProbeTurn
  <2> QED
    BY <1>3, <2>1, <2>2, ConnectKeepsLone DEF ProbeWakes
<1>4. CASE LockAcquired(a)
  BY <1>1, <1>4 DEF LockAcquired, Structure, PlacesInv
<1>5. ASSUME a \notin cancelled, pc[a] \in {"opening", "sending"}
      PROVE  /\ Turn(a) /\ Clear(a) /\ Alive(a) /\ ~Cancels(a) /\ cancelled = {}
             /\ sup.state = "connecting" /\ breaker.state # "open"
             /\ Enough => Budget(breaker, sup.attempt, 0)
             /\ \A t \in Tasks : ~Works(t)
             /\ \A m \in Tasks : pc[m] # "handling"
  <2>1. InChain(a) /\ Alive(a) /\ ~Cancels(a) /\ pc[a] # "backoff"
    BY <1>5 DEF InChain, Alive, Cancels
  <2>2. Turn(a) /\ Clear(a)
    BY <1>1, <1>5, <2>1, ChainTurn
  <2>3. sup.state = "connecting" /\ breaker.state # "open"
    BY <1>1, <1>5 DEF Lone, Data, StateInv
  <2>4. Enough => Budget(breaker, sup.attempt, 0)
    BY <1>1, <2>1, <2>2, BudgetInTurn
  <2>5. ASSUME NEW t \in Tasks PROVE ~Works(t) /\ pc[t] # "handling"
    BY <1>5, <2>2, Sorts DEF Clear, Alive, Works
  <2> QED
    BY <2>1, <2>2, <2>3, <2>4, <2>5 DEF Turn
<1>6. CASE a \notin cancelled /\ OpenFails(a)
  <2>1. /\ ConnectFailed(a, sup, breaker) /\ cancelled' = cancelled /\ pc[a] \in {"opening", "sending"}
    BY <1>6 DEF OpenFails
  <2> QED
    BY <1>1, <1>5, <1>6, <2>1, FailedConnectKeeps
<1>7. CASE a \notin cancelled /\ SendFails(a)
  <2>1. /\ ConnectFailed(a, sup, breaker) /\ cancelled' = cancelled /\ pc[a] \in {"opening", "sending"}
    BY <1>7 DEF SendFails
  <2> QED
    BY <1>1, <1>5, <1>7, <2>1, FailedConnectKeeps
<1>8. CASE a \notin cancelled /\ SendSucceeds(a)
  <2>1. /\ Established(a, sup) /\ UNCHANGED <<cancelled, breaker, ad>> /\ pc[a] = "sending"
        /\ pc[a] \in {"opening", "sending"}
    BY <1>8 DEF SendSucceeds
  <2>2. ad'.state \notin {"stopped", "backing_off"}
    BY <1>1, <2>1 DEF Lone, Data, AdapterInv
  <2> QED
    BY <1>1, <1>5, <1>8, <2>1, <2>2, EstablishedKeeps
<1>9. CASE a \notin cancelled /\ OpenSucceeds(a)
  <2> DEFINE opened == [sup EXCEPT !.heard = "never"]
  <2>1. /\ opened \in Supervisors /\ ~opened.closing /\ opened.attempt = sup.attempt
        /\ opened.state = sup.state
    BY <1>1 DEF Supervisors
  <2>2. /\ pc[a] \in {"opening", "sending"} /\ cancelled' = cancelled
        /\ ad' = [ad EXCEPT !.state = "subscribing", !.ws = "open", !.lock = Others(a)]
    BY <1>9 DEF OpenSucceeds
  <2>3. ad'.state = "subscribing"
    BY <1>1, <2>2 DEF Adapters
  <2>4. \/ Established(a, opened) /\ UNCHANGED breaker
        \/ RunsTo(a, "sending", opened, {}) /\ UNCHANGED breaker
        \/ ConnectFailed(a, opened, breaker)
    BY <1>9 DEF OpenSucceeds
  <2> HIDE DEF opened
  <2>5. CASE Established(a, opened) /\ UNCHANGED breaker
    BY <1>1, <1>5, <1>9, <2>1, <2>2, <2>3, <2>5, EstablishedKeeps
  <2>6. CASE RunsTo(a, "sending", opened, {}) /\ UNCHANGED breaker
    BY <1>1, <1>5, <1>9, <2>1, <2>2, <2>3, <2>6, AloneKeeps
  <2>7. CASE ConnectFailed(a, opened, breaker)
    BY <1>1, <1>5, <1>9, <2>1, <2>2, <2>7, FailedConnectKeeps
  <2> QED
    BY <2>4, <2>5, <2>6, <2>7
<1>10. CASE a \notin cancelled /\ TasksCancelled(a)
  <2>1. /\ Cancels(a) /\ Alive(a) /\ HandleConnectionFailure(a, sup)
        /\ \A t \in waitFor[a] : ~Alive(t)
        /\ UNCHANGED <<cancelled, breaker, ad, sub, ended>>
    BY <1>10 DEF TasksCancelled, Cancels, Alive
  <2>2. Turn(a) /\ Clear(a)
    BY <1>1, <2>1, CancellerTurn
  <2>3. Enough => Budget(breaker', sup.attempt, 1)
    BY <1>1, <2>1 DEF Lone, Data, BudgetInv, Due
  <2>4. cancelled' = {}
    BY <2>1, <2>2 DEF Turn
  <2> QED
    BY <1>1, <2>1, <2>2, <2>3, <2>4, FailureKeeps
<1>11. CASE Unwind(a)
  <2>1. /\ Structure' /\ sup' = sup
        /\ \A x \in Actors : x # a => pc'[x] = pc[x]
        /\ \E c \in Actors : Cancels(c) /\ Cancels(c)'
        /\ \A x \in Actors : pc'[x] \notin {"opening", "sending"}
        /\ \A x \in Actors : Works(x)' => x \in cancelled'
        /\ pc'[a] = "idle"
    BY <1>1, <1>11, CancelledEnds
  <2>2. breaker' = breaker
    BY <1>11 DEF Unwind
  <2>3. Unstopped'
    <3>1. pc'[Stop] = "idle"
      BY <1>1, <2>1, Sorts DEF Unstopped
    <3> QED
      BY <1>1, <2>1, <3>1 DEF Unstopped, Alive
  <2>4. AdapterInv'
    BY <2>1, Sorts DEF AdapterInv
  <2>5. StateInv'
    BY <2>1 DEF StateInv
  <2>6. HeardInv'
    <3>1. \A m \in Tasks : pc'[m] = "handling" => pc[m] = "handling"
      BY <2>1, Sorts
    <3> QED
      BY <2>1, <3>1 DEF HeardInv, Lone, Data
  <2>7. BudgetInv'
    <3>1. Due = 1 /\ Due' = 1
      BY <2>1 DEF Due
    <3>2. RetryAttended'
      BY <2>1 DEF RetryAttended, Cancels
    <3> QED
      BY <2>1, <2>2, <3>1, <3>2 DEF BudgetInv, Lone, Data
  <2>8. Resets
    BY <2>1, LoneTyped DEF Resets
  <2> QED
    BY <2>1, <2>3, <2>4, <2>5, <2>6, <2>7, <2>8 DEF Lone, Data
<1> QED
  BY <1>2, <1>3, <1>4, <1>6, <1>7, <1>8, <1>9, <1>10, <1>11 DEF Chain

-----------------------------------------------------------------------------
(* The steps of the receive loop, the monitors and the environment *)

\* A task that works on, or ends, changes what the others see only so far.
LEMMA WorkKeeps ==
  ASSUME IInv, IInv', Lone, NEW t \in Tasks, Works(t), t \notin cancelled,
         NEW next \in {"idle", "reading", "handling"}, NEW s, RunsTo(t, next, s, {}),
         UNCHANGED <<cancelled, waitFor>>,
         s.closing = sup.closing, s.state = sup.state \/ s.state = "streaming",
         ad'.state = ad.state \/ ad'.state = "streaming",
         s.state = "subscribing" => breaker'.state = breaker.state,
         s.state = "streaming" \/ next = "handling" \/ (\E m \in Tasks : pc[m] = "handling")
            => s.heard # "never",
         Enough => Budget(breaker', s.attempt, 0)
  PROVE  Lone'
<1>1. /\ Structure' /\ sup' = s /\ pc'[t] = next
      /\ \A x \in Actors : x # t => pc'[x] = pc[x]
      /\ \A x \in Actors : pc'[x] \notin {"opening", "sending", "cancelling"}
      /\ \A x \in Actors : Works(x)' => Works(x)
  BY WorkerStays DEF Lone
<1>2. \A c \in Actors : ~Cancels(c) /\ ~Cancels(c)'
  BY <1>1, BesideWorker DEF Lone, Cancels
<1>3. Alive(t) /\ t \in Actors /\ ~InChain(t) /\ ~IsProbe(t)
  BY Sorts DEF Works, Alive, InChain
<1>4. Unstopped'
  <2>1. pc'[Stop] = "idle"
    BY <1>1, Sorts DEF Lone, Unstopped
  <2>2. sup.state # "stopped"
    BY <1>3 DEF Lone, Unstopped
  <2> QED
    BY <1>1, <2>1, <2>2 DEF Lone, Unstopped
<1>5. AdapterInv'
  BY <1>1, Sorts DEF Lone, Data, AdapterInv
<1>6. StateInv'
  BY <1>1, <1>2 DEF Lone, Data, StateInv
<1>7. HeardInv'
  BY <1>1, Sorts DEF HeardInv
<1>8. BudgetInv'
  <2> SUFFICES ASSUME Enough PROVE Budget(breaker', sup'.attempt, Due') /\ RetryAttended'
    BY DEF BudgetInv
  <2>1. Due' = 0
    BY <1>2 DEF Due
  <2>2. RetryAttended'
    <3> SUFFICES ASSUME sup'.state = "backing_off" PROVE Attended'
      BY DEF RetryAttended, Attended, IsProbe
    <3>1. sup.state = "backing_off"
      BY <1>1
    <3>2. PICK x \in Actors : InChain(x) \/ Cancels(x) \/ (IsProbe(x) /\ Alive(x))
      BY <3>1 DEF Lone, Data, BudgetInv, RetryAttended, Cancels, IsProbe
    <3>3. x # t /\ pc'[x] = pc[x]
      BY <1>1, <1>2, <1>3, <3>2
    <3> QED
      BY <1>2, <3>2, <3>3 DEF Attended, InChain, Alive, IsProbe
  <2> QED
    BY <1>1, <2>1, <2>2
<1> QED
  BY <1>1, <1>4, <1>5, <1>6, <1>7, <1>8 DEF Lone, Data

\* A task that works finds the budget as the circuit has it.
LEMMA BudgetAtWork ==
  ASSUME IInv, Lone, NEW t \in Tasks, Works(t), t \notin cancelled
  PROVE  /\ \A c \in Actors : ~Cancels(c)
         /\ cancelled = {} /\ (Enough => Budget(breaker, sup.attempt, 0))
BY BesideWorker, NothingDue DEF Lone, Data, BudgetInv

\* _handle_disconnect(): a task alone retries at once, or it cancels the others.
LEMMA DisconnectKeepsLone ==
  ASSUME IInv, IInv', Lone, NEW t \in Tasks, Works(t), t \notin cancelled,
         HandleDisconnect(t)
  PROVE  Lone' /\ Resets
<1>1. /\ t \in Actors /\ t \in Tasks \union Starters /\ sup \in Supervisors /\ breaker \in Breaker
      /\ ~sup.closing /\ Unstopped /\ Structure /\ Alive(t) /\ sup.attempt \in Nat
  BY LoneTyped, Sorts DEF Lone, Unstopped, Works, Alive
<1>2. cancelled = {} /\ (Enough => Budget(breaker, sup.attempt, 0))
  BY BudgetAtWork
<1>3. Enough => Budget(breaker', sup.attempt, 1)
  BY <1>1, <1>2, BudgetFails DEF HandleDisconnect
<1>4. CASE Victims(t) = {}
  <2>1. Turn(t) /\ Clear(t)
    BY <1>1, <1>4, LonelyTurn
  <2>2. cancelled' = {} /\ HandleConnectionFailure(t, sup)
    BY <1>1, <1>4, <2>1 DEF HandleDisconnect, CancelTasks, Turn
  <2>3. \A x \in Tasks : x # t /\ Works(x) => ad'.state = ad.state
    BY <2>1, Sorts DEF Clear, Works, Alive
  <2> QED
    BY <1>1, <1>3, <2>1, <2>2, <2>3, FailureKeeps
<1>5. CASE Victims(t) # {}
  <2>1. CancelTasks(t) /\ RunsTo(t, "cancelling", sup, {})
    BY <1>1, <1>5 DEF HandleDisconnect
  <2>2. /\ Structure' /\ sup' = sup /\ Cancels(t)'
        /\ \A x \in Actors : x # t => pc'[x] = pc[x]
        /\ \A x \in Actors : pc'[x] \notin {"opening", "sending"}
        /\ \A x \in Actors : Works(x)' => x \in cancelled'
    BY <1>1, <2>1, WorkerCancels
  <2>3. Unstopped'
    <3>1. pc'[Stop] = "idle" /\ sup.state # "stopped"
      BY <1>1, <2>2, Sorts DEF Unstopped
    <3> QED
      BY <1>1, <2>2, <3>1 DEF Unstopped
  <2>4. AdapterInv'
    BY <2>2, Sorts DEF AdapterInv
  <2>5. StateInv'
    BY <1>1, <2>2 DEF StateInv
  <2>6. HeardInv'
    <3>1. \A m \in Tasks : pc'[m] = "handling" => pc[m] = "handling"
      BY <2>2, Sorts DEF Cancels
    <3> QED
      BY <2>2, <3>1 DEF HeardInv, Lone, Data
  <2>7. BudgetInv'
    <3>1. Due' = 1
      BY <1>1, <2>2 DEF Due
    <3>2. RetryAttended'
      BY <1>1, <2>2 DEF RetryAttended, Cancels
    <3> QED
      BY <1>3, <2>2, <3>1, <3>2 DEF BudgetInv
  <2>8. Resets
    BY <1>1, <2>2 DEF Resets
  <2> QED
    BY <2>2, <2>3, <2>4, <2>5, <2>6, <2>7, <2>8 DEF Lone, Data
<1> QED
  BY <1>4, <1>5

\* The places and the fields that count stay as they are.
LEMMA NothingMoves ==
  ASSUME Lone, UNCHANGED <<ref, pc, cancelled, waitFor>>,
         sup'.closing = sup.closing, sup'.state = sup.state, sup'.attempt = sup.attempt,
         sup.heard # "never" => sup'.heard # "never", sup.attempt \in Nat,
         ad'.state = ad.state, breaker'.state = breaker.state, breaker'.failures = breaker.failures
  PROVE  Lone' /\ Resets
<1>1. Unstopped'
  BY DEF Lone, Unstopped, Alive
<1>2. PlacesInv'
  BY DEF Lone, Structure, PlacesInv, Alive, OfKind, IsProbe, InChain
<1>3. CancelInv'
  BY DEF Lone, Structure, CancelInv, Alive, Cancels
<1>4. ChainInv'
  BY DEF Lone, Structure, ChainInv, RetryExclusive, InChain, Alive, IsProbe, OfKind, Works
<1>5. AdapterInv'
  BY DEF Lone, Data, AdapterInv, Works, IsProbe, OfKind
<1>6. StateInv'
  BY DEF Lone, Data, StateInv, Cancels
<1>7. HeardInv'
  BY DEF Lone, Data, HeardInv
<1>8. BudgetInv'
  <2>1. Due' = Due
    BY DEF Due, Cancels
  <2>2. RetryAttended => RetryAttended'
    BY DEF RetryAttended, InChain, Alive, OfKind
  <2>3. Budget(breaker, sup.attempt, Due) => Budget(breaker', sup'.attempt, Due')
    BY <2>1 DEF Budget
  <2> QED
    BY <2>2, <2>3 DEF Lone, Data, BudgetInv
<1>9. Resets
  BY DEF Resets
<1> QED
  BY <1>1, <1>2, <1>3, <1>4, <1>5, <1>6, <1>7, <1>8, <1>9 DEF Lone, Structure, Data

LEMMA ReceiveKeepsLone ==
  ASSUME IInv, IInv', Lone, NEW m \in Tasks, Receive(m)
  PROVE  Lone' /\ Resets
<1>1. /\ sup \in Supervisors /\ breaker \in Breaker /\ ad \in Adapters /\ sup.attempt \in Nat
      /\ m \in Actors /\ Typed /\ {} \in SUBSET Kinds
  BY LoneTyped, Sorts DEF IInv
<1>2. m \notin cancelled /\ Works(m)
  BY DEF Receive, AnswerArrives, FrameArrives, FrameHandled, HandlerRaises, SocketLost,
         SocketEnds, Reads, Works, IsProbe, OfKind
<1>3. /\ \A c \in Actors : ~Cancels(c)
      /\ cancelled = {} /\ (Enough => Budget(breaker, sup.attempt, 0))
  BY <1>2, BudgetAtWork
<1>4. HeardInv
  BY DEF Lone, Data
<1>5. ASSUME LoopEnds(m) PROVE Lone' /\ Resets
  <2>1. RunsTo(m, "idle", sup, {}) /\ UNCHANGED <<cancelled, waitFor, breaker, ad>>
    BY <1>5 DEF LoopEnds
  <2>2. Lone'
    BY <1>2, <1>3, <1>4, <2>1, WorkKeeps DEF HeardInv
  <2>3. sup' = sup
    BY <1>1, <2>1, RunBegins
  <2> QED
    BY <1>1, <2>2, <2>3 DEF Resets
<1>6. CASE AnswerArrives(m)
  <2>1. CASE LoopEnds(m)
    BY <1>5, <2>1
  <2>2. CASE UNCHANGED <<sup, ref, pc, cancelled, waitFor, breaker, ad, ended>>
    BY <1>1, <2>2, NothingMoves
  <2> QED
    BY <1>6, <2>1, <2>2 DEF AnswerArrives
<1>7. CASE FrameArrives(m)
  <2> DEFINE fresh == [sup EXCEPT !.heard = "fresh"]
  <2>1. CASE LoopEnds(m)
    BY <1>5, <2>1
  <2>2. CASE /\ ad' = [ad EXCEPT !.state = IF @ = "subscribing" /\ sub.active
                                           THEN "streaming" ELSE @]
             /\ RunsTo(m, "handling", fresh, {})
             /\ UNCHANGED <<cancelled, waitFor, breaker, sub, ended>>
    <3>1. /\ fresh.closing = sup.closing /\ fresh.state = sup.state
          /\ fresh.attempt = sup.attempt /\ fresh.heard = "fresh"
      BY <1>1 DEF Supervisors
    <3>2. ad'.state = ad.state \/ ad'.state = "streaming"
      BY <1>1, <2>2 DEF Adapters
    <3>3. RunsTo(m, "handling", fresh, {}) /\ UNCHANGED <<cancelled, waitFor, breaker>>
      BY <2>2
    <3> HIDE DEF fresh
    <3>4. Lone'
      BY <1>2, <1>3, <3>1, <3>2, <3>3, WorkKeeps
    <3>5. sup' = fresh
      BY <1>1, <3>3, RunBegins
    <3> QED
      BY <1>1, <3>1, <3>4, <3>5 DEF Resets
  <2> QED
    BY <1>7, <2>1, <2>2 DEF FrameArrives
<1>8. CASE FrameHandled(m)
  <2> DEFINE streaming == [sup EXCEPT !.state = "streaming", !.attempt = 0]
  <2>1. /\ streaming.closing = sup.closing /\ streaming.state = "streaming"
        /\ streaming.attempt = 0 /\ streaming.heard = sup.heard
    BY <1>1 DEF Supervisors
  <2>2. UNCHANGED <<cancelled, waitFor, ad>> /\ sup.heard # "never"
    BY <1>4, <1>8 DEF FrameHandled, HeardInv
  <2>3. \/ /\ sup.state = "subscribing" /\ RunsTo(m, "reading", streaming, {})
           /\ breaker' = RecordSuccess(breaker)
        \/ sup.state # "subscribing" /\ RunsTo(m, "reading", sup, {}) /\ UNCHANGED breaker
    BY <1>8 DEF FrameHandled
  <2> HIDE DEF streaming
  <2>4. CASE /\ sup.state = "subscribing" /\ RunsTo(m, "reading", streaming, {})
             /\ breaker' = RecordSuccess(breaker)
    <3>1. breaker.state # "open"
      BY <1>3, <2>4 DEF Lone, Data, StateInv
    <3>2. Enough => Budget(breaker', streaming.attempt, 0)
      BY <1>1, <2>1, <2>4, <3>1, BudgetRestored
    <3>3. Lone'
      BY <1>2, <2>1, <2>2, <2>4, <3>2, WorkKeeps
    <3>4. sup' = streaming
      BY <1>1, <2>4, RunBegins
    <3> QED
      BY <2>1, <2>2, <3>3, <3>4 DEF Resets
  <2>5. CASE sup.state # "subscribing" /\ RunsTo(m, "reading", sup, {}) /\ UNCHANGED breaker
    <3>1. Lone'
      BY <1>2, <1>3, <2>2, <2>5, WorkKeeps
    <3>2. sup' = sup
      BY <1>1, <2>5, RunBegins
    <3> QED
      BY <1>1, <3>1, <3>2 DEF Resets
  <2> QED
    BY <2>3, <2>4, <2>5
<1>9. CASE HandlerRaises(m) \/ SocketLost(m)
  <2>1. HandleDisconnect(m)
    BY <1>9 DEF HandlerRaises, SocketLost, LoopFails
  <2> QED
    BY <1>2, <2>1, DisconnectKeepsLone
<1>10. CASE SocketEnds(m)
  BY <1>5, <1>10 DEF SocketEnds
<1> QED
  BY <1>6, <1>7, <1>8, <1>9, <1>10 DEF Receive

LEMMA MonitorKeepsLone ==
  ASSUME IInv, IInv', Lone, NEW t \in Tasks, Monitor(t)
  PROVE  Lone' /\ Resets
<1>1. Typed /\ {} \in SUBSET Kinds /\ sup.attempt \in Nat /\ t \in Actors
  BY LoneTyped, Sorts DEF IInv
<1>2. t \notin cancelled /\ Works(t)
  BY DEF Monitor, HeartbeatWakes, RotationDue, Works, IsProbe, OfKind
<1>3. CASE HandleDisconnect(t)
  BY <1>2, <1>3, DisconnectKeepsLone
<1>4. CASE RunsTo(t, "idle", sup, {}) /\ UNCHANGED <<breaker, cancelled, waitFor>>
  <2>1. ad' = ad
    BY DEF Monitor, HeartbeatWakes, RotationDue
  <2>2. Enough => Budget(breaker, sup.attempt, 0)
    BY <1>2, BudgetAtWork
  <2>3. HeardInv
    BY DEF Lone, Data
  <2>4. Lone'
    BY <1>2, <1>4, <2>1, <2>2, <2>3, WorkKeeps DEF HeardInv
  <2>5. sup' = sup
    BY <1>1, <1>4, RunBegins
  <2> QED
    BY <1>1, <2>4, <2>5 DEF Resets
<1> QED
  BY <1>3, <1>4 DEF Monitor, HeartbeatWakes, RotationDue

LEMMA EnvironmentKeepsLone == ASSUME IInv, Lone, Environment PROVE Lone' /\ Resets
<1>1. sup \in Supervisors /\ ad \in Adapters /\ breaker \in Breaker /\ sup.attempt \in Nat
  BY LoneTyped
<1>2. CASE PeerClosesSocket
  <2>1. PICK c \in PeerCloses : ad' = [ad EXCEPT !.ws = c]
    BY <1>2 DEF PeerClosesSocket
  <2>2. ad'.state = ad.state
    BY <1>1, <2>1 DEF Adapters
  <2>3. UNCHANGED <<sup, ref, pc, cancelled, waitFor, breaker>>
    BY <1>2 DEF PeerClosesSocket
  <2> QED
    BY <1>1, <2>2, <2>3, NothingMoves
<1>3. CASE FrameGetsOld
  <2>1. sup' = [sup EXCEPT !.heard = "stale"] /\ UNCHANGED <<ref, pc, cancelled, waitFor, breaker, ad>>
    BY <1>3 DEF FrameGetsOld
  <2>2. /\ sup'.closing = sup.closing /\ sup'.state = sup.state /\ sup'.attempt = sup.attempt
        /\ sup'.heard = "stale"
    BY <1>1, <2>1 DEF Supervisors
  <2> QED
    BY <1>1, <2>1, <2>2, NothingMoves
<1>4. CASE CooldownTick
  <2>1. breaker' = [breaker EXCEPT !.elapsed = @ + 1] /\ UNCHANGED <<sup, ref, pc, cancelled, waitFor, ad>>
    BY <1>4 DEF CooldownTick, Cool
  <2>2. breaker'.state = breaker.state /\ breaker'.failures = breaker.failures
    BY <1>1, <2>1 DEF Breaker
  <2> QED
    BY <1>1, <2>1, <2>2, NothingMoves
<1> QED
  BY <1>2, <1>3, <1>4 DEF Environment

-----------------------------------------------------------------------------
(* No step takes a call of stop() back *)

Counted(s) == sup'.stops >= s.stops

LEMMA RunCounts ==
  ASSUME NEW a, NEW next, NEW s \in Supervisors, NEW kinds, RunsTo(a, next, s, kinds)
  PROVE  sup' = s /\ Counted(s)
<1>1. s.stops \in Nat /\ s.stops >= s.stops
  BY SupervisorAssumption DEF Supervisors
<1> QED
  BY <1>1 DEF RunsTo, Counted

LEMMA FailureCounts ==
  ASSUME NEW a, NEW s \in Supervisors, HandleConnectionFailure(a, s)
  PROVE  Counted(s)
<1>1. sup'.stops = s.stops
  BY DEF HandleConnectionFailure, RunsTo, Supervisors
<1> QED
  BY <1>1, SupervisorAssumption DEF Counted, Supervisors

LEMMA ConnectCounts ==
  ASSUME NEW a, NEW s \in Supervisors, Connect(a, s)
  PROVE  Counted(s)
<1> DEFINE refused    == [s EXCEPT !.state = "backing_off"]
           connecting == [s EXCEPT !.state = "connecting"]
<1>1. /\ refused \in Supervisors /\ refused.stops = s.stops
      /\ connecting \in Supervisors /\ connecting.stops = s.stops
  BY DEF Supervisors, States
<1>2. \/ RunsTo(a, Returns(a, s), s, {})
      \/ RunsTo(a, Returns(a, refused), refused, NewProbe(refused))
      \/ RunsTo(a, "waiting", connecting, {})
      \/ AdapterConnect(a, connecting, Admitted(breaker))
  BY DEF Connect
<1> HIDE DEF refused, connecting
<1>3. Counted(s) \/ Counted(refused) \/ Counted(connecting)
  BY <1>1, <1>2, RunCounts, FailureCounts DEF AdapterConnect, ConnectFailed
<1> QED
  BY <1>1, <1>3 DEF Counted

LEMMA EstablishedCounts ==
  ASSUME NEW a, NEW s \in Supervisors, Established(a, s)
  PROVE  Counted(s)
<1> DEFINE subscribing == [s EXCEPT !.state = "subscribing"]
<1>1. subscribing \in Supervisors /\ subscribing.stops = s.stops
  BY DEF Supervisors, States
<1>2. sup' = subscribing
  BY DEF Established, RunsTo
<1> QED
  BY <1>1, <1>2, SupervisorAssumption DEF Counted, Supervisors

LEMMA DisconnectCounts ==
  ASSUME sup \in Supervisors, NEW a, HandleDisconnect(a)
  PROVE  Counted(sup)
BY RunCounts, FailureCounts DEF HandleDisconnect

LEMMA CloseCounts ==
  ASSUME NEW s \in Supervisors, CloseAdapter(s) \/ CloseSocket(s) \/ Stopped(s)
  PROVE  Counted(s)
<1>1. sup' = s \/ sup' = [s EXCEPT !.state = "stopped", !.attempt = 0]
  BY DEF CloseAdapter, CloseSocket, Stopped, RunsTo
<1>2. sup'.stops = s.stops
  BY <1>1 DEF Supervisors
<1> QED
  BY <1>2, SupervisorAssumption DEF Counted, Supervisors

LEMMA StepCounts ==
  ASSUME IInv, IInv', Next
  PROVE  sup'.stops >= sup.stops /\ (StopCalled => sup'.stops > sup.stops)
<1>1. /\ sup \in Supervisors /\ sup.stops \in Nat /\ sup.stops >= sup.stops
      /\ MaxAttempts \in Nat
  BY SupervisorAssumption DEF IInv, Typed, Supervisors
<1>2. ASSUME NEW a \in Starters, Start(a) PROVE Counted(sup)
  <2> DEFINE starting == [sup EXCEPT !.closing = FALSE]
  <2>1. starting \in Supervisors /\ starting.stops = sup.stops
    BY <1>1 DEF Supervisors
  <2>2. Connect(a, starting)
    BY <1>2 DEF Start
  <2> HIDE DEF starting
  <2> QED
    BY <2>1, <2>2, ConnectCounts DEF Counted
<1>3. ASSUME NEW a \in Tasks \union Starters, Chain(a) PROVE Counted(sup)
  <2>1. CASE BackoffElapsed(a) \/ ProbeWakes(a)
    BY <1>1, <2>1, ConnectCounts DEF BackoffElapsed, ProbeWakes
  <2>2. CASE LockAcquired(a)
    BY <1>1, <2>2, RunCounts, FailureCounts DEF LockAcquired, AdapterConnect, ConnectFailed
  <2>3. CASE OpenFails(a) \/ SendFails(a) \/ TasksCancelled(a)
    BY <1>1, <2>3, FailureCounts DEF OpenFails, SendFails, TasksCancelled, ConnectFailed
  <2>4. CASE OpenSucceeds(a)
    <3> DEFINE opened == [sup EXCEPT !.heard = "never"]
    <3>1. opened \in Supervisors /\ opened.stops = sup.stops
      BY <1>1 DEF Supervisors
    <3>2. Established(a, opened) \/ RunsTo(a, "sending", opened, {}) \/ ConnectFailed(a, opened, breaker)
      BY <2>4 DEF OpenSucceeds
    <3> HIDE DEF opened
    <3>3. Counted(opened)
      BY <3>1, <3>2, EstablishedCounts, RunCounts, FailureCounts DEF ConnectFailed
    <3> QED
      BY <3>1, <3>3 DEF Counted
  <2>5. CASE SendSucceeds(a)
    BY <1>1, <2>5, EstablishedCounts DEF SendSucceeds
  <2>6. CASE Unwind(a)
    BY <1>1, <2>6, RunCounts DEF Unwind
  <2> QED
    BY <1>3, <2>1, <2>2, <2>3, <2>4, <2>5, <2>6 DEF Chain
<1>4. ASSUME NEW t \in Tasks, Receive(t) \/ Monitor(t) PROVE Counted(sup)
  <2>1. CASE HandleDisconnect(t)
    BY <1>1, <2>1, DisconnectCounts
  <2>2. CASE RunsTo(t, "idle", sup, {}) \/ RunsTo(t, "reading", sup, {})
    BY <1>1, <2>2, RunCounts
  <2>3. CASE sup' = sup
    BY <1>1, <2>3 DEF Counted
  <2>4. CASE RunsTo(t, "handling", [sup EXCEPT !.heard = "fresh"], {})
    <3>1. sup' = [sup EXCEPT !.heard = "fresh"]
      BY <2>4 DEF RunsTo
    <3> QED
      BY <1>1, <3>1 DEF Counted, Supervisors
  <2>5. CASE RunsTo(t, "reading", [sup EXCEPT !.state = "streaming", !.attempt = 0], {})
    <3>1. sup' = [sup EXCEPT !.state = "streaming", !.attempt = 0]
      BY <2>5 DEF RunsTo
    <3> QED
      BY <1>1, <3>1 DEF Counted, Supervisors
  <2>6. CASE Monitor(t)
    BY <2>1, <2>2, <2>6 DEF Monitor, HeartbeatWakes, RotationDue
  <2>7. CASE Receive(t)
    BY <2>1, <2>2, <2>3, <2>4, <2>5, <2>7
       DEF Receive, AnswerArrives, FrameArrives, FrameHandled, HandlerRaises, SocketLost,
           SocketEnds, LoopEnds, LoopFails
  <2> QED
    BY <1>4, <2>6, <2>7
<1>5. StopCalled => sup'.stops > sup.stops
  <2> SUFFICES ASSUME StopCalled PROVE sup'.stops > sup.stops
    OBVIOUS
  <2> DEFINE stopping == [sup EXCEPT !.closing = TRUE, !.state = "stopping", !.stops = @ + 1]
  <2>1. stopping \in Supervisors /\ stopping.stops = sup.stops + 1
    <3>1. sup.stops + 1 \in 0..MaxStops
      BY <1>1, SupervisorAssumption DEF StopCalled, Supervisors
    <3> QED
      BY <1>1, <3>1 DEF Supervisors, States
  <2>2. CloseAdapter(stopping) \/ RunsTo(Stop, "cancelling", stopping, {})
    BY DEF StopCalled
  <2> HIDE DEF stopping
  <2>3. Counted(stopping)
    BY <2>1, <2>2, CloseCounts, RunCounts
  <2>4. sup'.stops >= sup.stops + 1
    BY <2>1, <2>3 DEF Counted
  <2>5. sup'.stops \in Nat
    <3>1. sup' \in Supervisors
      BY DEF IInv, Typed
    <3> QED
      BY <3>1, SupervisorAssumption DEF Supervisors
  <2> QED
    BY <1>1, <2>4, <2>5
<1>6. Stopping => Counted(sup)
  BY <1>1, CloseCounts DEF Stopping, StopCancelled, StopLocks, StopCloses
<1>7. Environment => Counted(sup)
  <2>1. PeerClosesSocket \/ CooldownTick => sup' = sup
    BY DEF PeerClosesSocket, CooldownTick
  <2>2. FrameGetsOld => sup' = [sup EXCEPT !.heard = "stale"]
    BY DEF FrameGetsOld
  <2> QED
    BY <1>1, <2>1, <2>2 DEF Environment, Counted, Supervisors
<1>8. CASE StopCalled
  <2>1. sup'.stops \in Nat
    BY SupervisorAssumption DEF IInv, Typed, Supervisors
  <2> QED
    BY <1>1, <1>5, <1>8, <2>1
<1>9. CASE ~StopCalled
  BY <1>2, <1>3, <1>4, <1>6, <1>7, <1>9 DEF Next, Counted
<1> QED
  BY <1>8, <1>9

-----------------------------------------------------------------------------
(* Theorems about the time before stop() *)

LEMMA InitIsLone == Init => LoneInv
<1> SUFFICES ASSUME Init PROVE Lone
  BY DEF LoneInv
<1>1. \A a \in Actors : pc[a] = "idle"
  BY DEF Init
<1>2. Unstopped
  BY <1>1, Sorts DEF Init, Unstopped, Alive
<1>3. Structure
  BY <1>1, Sorts DEF Init, Structure, PlacesInv, CancelInv, ChainInv, RetryExclusive, InChain,
     Alive, Cancels
<1>4. Data
  <2>1. AdapterInv /\ StateInv /\ HeardInv
    BY <1>1, Sorts DEF Init, AdapterInv, StateInv, HeardInv, Works
  <2>2. Due = 0 /\ Budget(breaker, sup.attempt, 0) /\ RetryAttended
    BY <1>1 DEF Init, Due, Cancels, Budget, ClosedBreaker, RetryAttended
  <2> QED
    BY <2>1, <2>2 DEF Data, BudgetInv
<1> QED
  BY <1>2, <1>3, <1>4 DEF Lone

\* Before stop() is called no step of it is taken.
LEMMA LoneStep ==
  ASSUME IInv, IInv', LoneInv, Next
  PROVE  LoneInv' /\ (sup'.stops = 0 => Lone /\ Resets)
<1> SUFFICES ASSUME sup'.stops = 0 PROVE Lone' /\ Lone /\ Resets
  BY DEF LoneInv
<1>1. sup.stops \in Nat /\ sup'.stops >= sup.stops /\ (StopCalled => sup'.stops > sup.stops)
  BY StepCounts, SupervisorAssumption DEF IInv, Typed, Supervisors
<1>2. sup.stops = 0 /\ ~StopCalled
  BY <1>1
<1>3. Lone
  BY <1>2 DEF LoneInv
<1>4. ~Stopping
  BY <1>3 DEF Lone, Unstopped, Stopping, StopCancelled, StopLocks, StopCloses
<1>5. Lone' /\ Resets
  BY <1>2, <1>3, <1>4, StartKeepsLone, ChainKeepsLone, ReceiveKeepsLone, MonitorKeepsLone,
     EnvironmentKeepsLone DEF Next
<1> QED
  BY <1>3, <1>5

LEMMA LoneStutter == LoneInv /\ UNCHANGED vars => LoneInv'
<1> SUFFICES ASSUME LoneInv, UNCHANGED vars PROVE LoneInv'
  OBVIOUS
<1> USE DEF vars
<1>1. Unstopped => Unstopped'
  BY DEF Unstopped, Alive
<1>2. Structure => Structure'
  BY DEF Structure, PlacesInv, CancelInv, ChainInv, RetryExclusive, Alive, OfKind, IsProbe,
     InChain, Cancels, Works
<1>3. AdapterInv /\ StateInv /\ HeardInv => (AdapterInv /\ StateInv /\ HeardInv)'
  BY DEF AdapterInv, StateInv, HeardInv, Works, IsProbe, OfKind, Cancels
<1>4. BudgetInv => BudgetInv'
  BY DEF BudgetInv, Budget, Due, Cancels, RetryAttended, InChain, Alive, OfKind
<1> QED
  BY <1>1, <1>2, <1>3, <1>4 DEF LoneInv, Lone, Data

LEMMA LoneInvariance == Spec => []LoneInv
<1>1. IInv /\ IInv' /\ LoneInv /\ [Next]_vars => LoneInv'
  BY LoneStep, LoneStutter
<1> QED
  BY <1>1, InitIsLone, SupervisorInvariance, PTL DEF Spec

\* Until stop() is called one coroutine at a time runs the reconnect chain, one
\* receive loop reads, and no socket is opened while the circuit is open: for any
\* thresholds and budget, whatever fails and in whatever order it is seen.
THEOREM RetriesAreAlone ==
  Spec => [](sup.stops = 0 => /\ ReaderExclusive /\ RetryExclusive
                              /\ breaker.state = "open" => \A a \in Actors : pc[a] # "opening")
<1>1. LoneInv => (sup.stops = 0 => /\ ReaderExclusive /\ RetryExclusive
                                   /\ breaker.state = "open" => \A a \in Actors : pc[a] # "opening")
  <2> SUFFICES ASSUME Lone
               PROVE  /\ ReaderExclusive /\ RetryExclusive
                      /\ breaker.state = "open" => \A a \in Actors : pc[a] # "opening"
    BY DEF LoneInv
  <2>1. ReaderExclusive
    <3>1. \A m \in Tasks : Receiving(m) => ref["message_loop"] = m
      BY DEF Receiving, OfKind, Alive, Lone, Structure, PlacesInv
    <3> QED
      BY <3>1 DEF ReaderExclusive
  <2> QED
    BY <2>1 DEF Lone, Structure, ChainInv, Data, StateInv
<1> QED
  BY <1>1, LoneInvariance, PTL

\* If the circuit outlasts the retry budget and one success closes it, then until
\* stop() is called somebody retries whenever the state says so, and does so alone.
THEOREM OneConnectorBeforeStop ==
  ASSUME FailureThreshold > MaxAttempts, SuccessThreshold = 1
  PROVE  Spec => [](sup.stops = 0 => OneConnector)
<1>1. LoneInv => (sup.stops = 0 => RetryAttended)
  BY DEF LoneInv, Lone, Data, BudgetInv, Enough
<1>2. (/\ ReaderExclusive /\ RetryExclusive
       /\ breaker.state = "open" => \A a \in Actors : pc[a] # "opening") /\ RetryAttended => OneConnector
  BY DEF OneConnector
<1> QED
  BY <1>1, <1>2, LoneInvariance, RetriesAreAlone, PTL

\* Until stop() is called the retry budget is given back by the first frame of a
\* connection only, and the state is streaming only after one.
THEOREM FramesResetAttempts ==
  ASSUME MaxStops = 0
  PROVE  Spec => AttemptsResetByFrame
<1>1. IInv => sup.stops = 0
  BY DEF IInv, Typed, Supervisors
<1>2. LoneInv /\ sup.stops = 0 => StreamingHeard
  BY DEF LoneInv, Lone, Data, HeardInv, StreamingHeard
<1>3. IInv /\ IInv' /\ LoneInv /\ [Next]_vars =>
        [sup'.attempt < sup.attempt =>
             \/ sup'.state = "streaming" /\ sup.heard # "never"
             \/ sup'.state = "stopped"]_vars
  <2>1. IInv' => sup'.stops = 0
    BY DEF IInv, Typed, Supervisors
  <2> QED
    BY <2>1, LoneStep DEF Resets
<1> QED
  BY <1>1, <1>2, <1>3, LoneInvariance, SupervisorInvariance, PTL DEF Spec, AttemptsResetByFrame
=============================================================================
