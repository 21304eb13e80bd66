------------------------ MODULE ConnectionSupervisor ------------------------
(***************************************************************************)
(* ConnectionSupervisor (connection_supervisor.py) composed with the       *)
(* connection half of BinanceWebSocketAdapter (binance_ws.py), the circuit *)
(* breaker (BreakerOps) and the one socket between them.                   *)
(*                                                                         *)
(* The program is one asyncio event loop.  A step of this module is the    *)
(* code one coroutine runs between two points where it really suspends;    *)
(* pc says at which await each coroutine is suspended:                     *)
(*                                                                         *)
(*   reading     raw_messages(): waiting for the next frame                *)
(*   handling    inside the raw-message handler                            *)
(*   sleeping    the periodic or planned sleep of a monitor task           *)
(*   backoff     the sleep of _backoff_then_connect()                      *)
(*   waiting     the adapter's lock, at the head of connect()              *)
(*   opening     websockets.connect(), holding the lock                    *)
(*   sending     the SUBSCRIBE request of sync_with_adapter()              *)
(*   cancelling  _cancel_tasks(): awaiting the tasks it has cancelled      *)
(*   locking     stop(): the adapter's lock, at the head of close()        *)
(*   closing     stop(): the closing handshake, holding the lock           *)
(*                                                                         *)
(* The coordinator wants one subscription.  Durations are abstracted: a    *)
(* sleep may end at any time, a frame may become too old at any time.      *)
(***************************************************************************)
EXTENDS BreakerOps, Sequences

CONSTANTS
    MaxAttempts,    \* max_reconnect_attempts
    Rotates,        \* planned_rotation_interval > 0
    Starts,         \* bound: callers of start() whose reconnect chain may overlap
    MaxStops,       \* bound: how often the application calls stop()
    PeerCloses,     \* how the peer may close: a subset of ClosedSockets
    Refusals,       \* which local refusals occur: a subset of RefusalKinds
    Gen             \* bound: tasks of one kind alive at the same time

Kinds == {"message_loop", "heartbeat", "rotation", "sparse_probe"}
Tasks == Kinds \X (1..Gen)
Starters == {"start"} \X (1..Starts)
Stop == <<"stop", 1>>
Actors == Tasks \union Starters \union {Stop}
None == <<"none", 0>>

ClosedSockets == {"closed_ok", "closed_error"}
RefusalKinds == {"connection_budget", "control_budget", "subscription", "handler"}

ASSUME SupervisorAssumption ==
    /\ MaxAttempts \in Nat \ {0}
    /\ Rotates \in BOOLEAN
    /\ MaxStops \in Nat
    /\ PeerCloses \subseteq ClosedSockets
    /\ Refusals \subseteq RefusalKinds
    /\ Gen \in Nat \ {0}
    /\ Starts \in Nat \ {0}

VARIABLES
    sup,        \* fields of the supervisor
    ref,        \* _message_loop_task, _heartbeat_task, ...: the task last created
    pc,         \* the await at which each coroutine is suspended, or idle
    cancelled,  \* tasks into which a CancelledError is about to be thrown
    waitFor,    \* the tasks each caller of _cancel_tasks is awaiting
    breaker,    \* the supervisor's CircuitBreaker
    ad,         \* connection fields of the adapter
    sub,        \* the desired subscription as the adapter and the peer know it
    ended       \* coroutines on a socket that close() has closed

vars == <<sup, ref, pc, cancelled, waitFor, breaker, ad, sub, ended>>

States == {"stopped", "connecting", "subscribing", "streaming", "backing_off",
           "stopping"}
PCs == {"idle", "reading", "handling", "sleeping", "backoff", "waiting",
        "opening", "sending", "cancelling", "locking", "closing"}

Supervisors ==
    [state   : States,
     attempt : 0..(MaxAttempts + 1),    \* saturates: only > MaxAttempts is asked
     closing : BOOLEAN,
     heard   : {"never", "fresh", "stale"},     \* age of _last_frame_time
     stops   : 0..MaxStops]             \* calls of stop(): only for the bound

Adapters ==
    [state   : States \ {"stopping"},
     closing : BOOLEAN,
     lock    : Seq(Actors),     \* the holder, then the waiters in order
     ws      : {"none", "open"} \union ClosedSockets]

Subscriptions ==
    [active    : BOOLEAN,       \* acknowledged: in the adapter's _active_subscriptions
                                \* and, through its observer, the coordinator's _active
     requested : BOOLEAN,       \* SUBSCRIBE sent on this socket, unanswered
     live      : BOOLEAN]       \* the peer accepted it on this socket

TypeOK ==
    /\ sup \in Supervisors
    /\ ref \in [Kinds -> Tasks \union {None}]
    /\ pc \in [Actors -> PCs]
    /\ cancelled \subseteq Tasks
    /\ waitFor \in [Actors -> SUBSET Tasks]
    /\ breaker \in Breaker
    /\ ad \in Adapters
    /\ \A i \in DOMAIN ad.lock :
          pc[ad.lock[i]] \in IF i = 1 THEN {"waiting", "opening", "locking", "closing"}
                             ELSE {"waiting", "locking"}
    /\ sub \in Subscriptions
    /\ ended \subseteq Actors

Init ==
    /\ sup = [state |-> "stopped", attempt |-> 0, closing |-> FALSE,
              heard |-> "never", stops |-> 0]
    /\ ref = [k \in Kinds |-> None]
    /\ pc = [a \in Actors |-> "idle"]
    /\ cancelled = {}
    /\ waitFor = [a \in Actors |-> {}]
    /\ breaker = ClosedBreaker
    /\ ad = [state |-> "stopped", closing |-> FALSE, lock |-> <<>>, ws |-> "none"]
    /\ sub = [active |-> FALSE, requested |-> FALSE, live |-> FALSE]
    /\ ended = {}

-----------------------------------------------------------------------------
(* Tasks *)

OfKind(k) == {t \in Tasks : t[1] = k}
Alive(t) == pc[t] # "idle"
Free(k) == {t \in OfKind(k) : ~Alive(t) /\ \A a \in Actors : t \notin waitFor[a]}
FirstAwait(t) == IF t[1] = "message_loop" THEN "reading" ELSE "sleeping"

\* Coroutine a runs on to the await named next and leaves the supervisor's
\* fields as s, creating one task of each of the kinds on the way.
RunsTo(a, next, s, kinds) ==
    /\ \A k \in kinds : Free(k) # {}
    /\ LET new == [k \in kinds |-> CHOOSE t \in Free(k) : TRUE]
       IN /\ ref' = [k \in Kinds |-> IF k \in kinds THEN new[k] ELSE ref[k]]
          /\ pc' = [x \in Actors |->
                       IF x = a THEN next
                       ELSE IF \E k \in kinds : x = new[k] THEN FirstAwait(x)
                       ELSE pc[x]]
    /\ sup' = s

\* Mutant of Returns: the sparse probe makes one attempt and ends.
ReturnsForGood(a, s) == "idle"

\* Where a goes when _connect() returns: only the sparse probe has more to do,
\* and only while the retry budget is exhausted.
Returns(a, s) ==
    IF a \in OfKind("sparse_probe") /\ ~s.closing /\ s.attempt > MaxAttempts
    THEN "sleeping" ELSE "idle"

\* _ensure_sparse_probe() with the supervisor's fields at s: a new task unless
\* the last one is still running.  The loop of the new task tests the budget
\* before its first sleep, so with budget left the task ends at once.
NewProbe(s) ==
    IF \/ s.attempt <= MaxAttempts
       \/ ref["sparse_probe"] # None /\ Alive(ref["sparse_probe"])
    THEN {} ELSE {"sparse_probe"}

\* The tasks _cancel_tasks() cancels on behalf of a.
Victims(a) == {t \in Tasks \ {a} : Alive(t) /\ \E k \in Kinds : ref[k] = t}

\* _cancel_tasks() swallows every CancelledError, so a task that is itself in
\* _cancel_tasks() loses the one aimed at it.
CancelTasks(a) ==
    /\ cancelled' = cancelled \union {t \in Victims(a) : pc[t] # "cancelling"}
    /\ waitFor' = [waitFor EXCEPT ![a] = Victims(a)]

-----------------------------------------------------------------------------
(* The reconnect chain, run by start(), the sparse probe or a failed task *)

\* _handle_connection_failure()
HandleConnectionFailure(a, s) ==
    LET stopped == [s EXCEPT !.state = "stopped"]
        failed  == [s EXCEPT !.state = "backing_off",
                             !.attempt = IF @ > MaxAttempts THEN @ ELSE @ + 1]
    IN \/ /\ s.closing
          /\ RunsTo(a, Returns(a, stopped), stopped, {})
       \/ /\ ~s.closing /\ failed.attempt > MaxAttempts
          /\ RunsTo(a, Returns(a, failed), failed, NewProbe(failed))
       \/ /\ ~s.closing /\ failed.attempt <= MaxAttempts
          /\ RunsTo(a, "backoff", failed, {})

\* The except clause of _connect().
ConnectFailed(a, s, b) ==
    /\ breaker' = RecordFailure(b)
    /\ HandleConnectionFailure(a, s)

\* The adapter's asyncio.Lock without a: it is handed over in order of arrival.
Others(a) ==
    IF \A i \in DOMAIN ad.lock : ad.lock[i] # a THEN ad.lock
    ELSE LET place == CHOOSE i \in DOMAIN ad.lock : ad.lock[i] = a
         IN [i \in 1..(Len(ad.lock) - 1) |-> ad.lock[IF i < place THEN i ELSE i + 1]]

\* Mutant of AdapterConnect: connect() does not look at the adapter's state.
AdapterConnectAnyState(a, s, b) ==
    /\ ad' = [ad EXCEPT !.state = "connecting", !.closing = FALSE,
                        !.lock = <<a>> \o Others(a)]
    /\ breaker' = b
    /\ RunsTo(a, "opening", s, {})
    /\ UNCHANGED sub

\* adapter.connect() once it holds the lock, up to websockets.connect().
AdapterConnect(a, s, b) ==
    \/ /\ \/ ad.state \notin {"stopped", "backing_off"}
          \/ "connection_budget" \in Refusals
       /\ ConnectFailed(a, s, b)
       /\ ad' = [ad EXCEPT !.lock = Others(a)]
       /\ UNCHANGED sub
    \/ /\ ad.state \in {"stopped", "backing_off"}
       /\ ad' = [ad EXCEPT !.state = "connecting", !.closing = FALSE,
                           !.lock = <<a>> \o Others(a)]
       /\ breaker' = b
       /\ RunsTo(a, "opening", s, {})
       /\ UNCHANGED sub

\* _connect() from its first line, with the supervisor's fields at s.
Connect(a, s) ==
    LET refused    == [s EXCEPT !.state = "backing_off"]
        connecting == [s EXCEPT !.state = "connecting"]
    IN \/ /\ s.closing
          /\ RunsTo(a, Returns(a, s), s, {})
          /\ UNCHANGED <<breaker, ad, sub>>
       \/ /\ ~s.closing /\ ~Admits(breaker)
          /\ RunsTo(a, Returns(a, refused), refused, NewProbe(refused))
          /\ UNCHANGED <<breaker, ad, sub>>
       \/ /\ ~s.closing /\ Admits(breaker) /\ ad.lock # <<>>
          /\ breaker' = Admitted(breaker)
          /\ ad' = [ad EXCEPT !.lock = Append(@, a)]
          /\ RunsTo(a, "waiting", connecting, {})
          /\ UNCHANGED sub
       \/ /\ ~s.closing /\ Admits(breaker) /\ ad.lock = <<>>
          /\ AdapterConnect(a, connecting, Admitted(breaker))

\* Mutant of Established: the retry budget is given back when the socket opens.
EstablishedForgets(a, s) ==
    LET subscribing == [s EXCEPT !.state = "subscribing", !.attempt = 0]
    IN RunsTo(a, Returns(a, subscribing), subscribing,
              {"message_loop", "heartbeat"}
                  \union IF Rotates THEN {"rotation"} ELSE {})

\* The end of _connect(): the state is subscribing, background tasks start.
Established(a, s) ==
    LET subscribing == [s EXCEPT !.state = "subscribing"]
    IN RunsTo(a, Returns(a, subscribing), subscribing,
              {"message_loop", "heartbeat"}
                  \union IF Rotates THEN {"rotation"} ELSE {})

\* _handle_disconnect(), called by task a for a reason of its own.
HandleDisconnect(a) ==
    \/ /\ sup.closing
       /\ RunsTo(a, "idle", sup, {})
       /\ UNCHANGED <<breaker, cancelled, waitFor>>
    \/ /\ ~sup.closing
       /\ breaker' = RecordFailure(breaker)
       /\ CancelTasks(a)
       /\ IF Victims(a) = {}
          THEN HandleConnectionFailure(a, sup)
          ELSE RunsTo(a, "cancelling", sup, {})

-----------------------------------------------------------------------------
(* Steps of the reconnect chain *)

\* start(); it raises in every other state.
Start(a) ==
    /\ a \in Starters
    /\ pc[a] = "idle"
    /\ sup.state = "stopped"
    /\ Connect(a, [sup EXCEPT !.closing = FALSE])
    /\ UNCHANGED <<cancelled, waitFor, ended>>

\* The backoff sleep ends.  (_connect() itself returns when closing.)
BackoffElapsed(a) ==
    /\ pc[a] = "backoff"
    /\ Connect(a, sup)
    /\ UNCHANGED <<cancelled, waitFor, ended>>

\* The sparse probe wakes.  What it was created for is not looked at again.
ProbeWakes(a) ==
    /\ a \in OfKind("sparse_probe")
    /\ pc[a] = "sleeping"
    /\ Connect(a, sup)
    /\ UNCHANGED <<cancelled, waitFor, ended>>

\* The adapter's lock is free again.
LockAcquired(a) ==
    /\ pc[a] = "waiting"
    /\ Head(ad.lock) = a
    /\ AdapterConnect(a, sup, breaker)
    /\ UNCHANGED <<cancelled, waitFor, ended>>

\* websockets.connect() raises.
OpenFails(a) ==
    /\ pc[a] = "opening"
    /\ ad' = [ad EXCEPT !.state = "backing_off", !.lock = Others(a)]
    /\ ConnectFailed(a, sup, breaker)
    /\ UNCHANGED <<cancelled, waitFor, sub, ended>>

\* websockets.connect() returns; sync_with_adapter() sends a SUBSCRIBE for the
\* desired subscription unless it still counts as active.
OpenSucceeds(a) ==
    LET opened == [sup EXCEPT !.heard = "never"]
    IN /\ pc[a] = "opening"
       /\ ad' = [ad EXCEPT !.state = "subscribing", !.ws = "open",
                           !.lock = Others(a)]
       /\ sub' = [sub EXCEPT !.requested = FALSE, !.live = FALSE]
       /\ \/ /\ sub.active
             /\ Established(a, opened)
             /\ UNCHANGED breaker
          \/ /\ ~sub.active
             /\ RunsTo(a, "sending", opened, {})
             /\ UNCHANGED breaker
          \/ /\ ~sub.active /\ "control_budget" \in Refusals
             /\ ConnectFailed(a, opened, breaker)
       /\ UNCHANGED <<cancelled, waitFor, ended>>

SendSucceeds(a) ==
    /\ pc[a] = "sending"
    /\ a \notin ended /\ ad.ws = "open"
    /\ sub' = [sub EXCEPT !.requested = TRUE]
    /\ Established(a, sup)
    /\ UNCHANGED <<cancelled, waitFor, breaker, ad, ended>>

\* The socket was lost or closed under the request.
SendFails(a) ==
    /\ pc[a] = "sending"
    /\ a \in ended \/ ad.ws # "open"
    /\ ConnectFailed(a, sup, breaker)
    /\ ended' = ended \ {a}
    /\ UNCHANGED <<cancelled, waitFor, ad, sub>>

\* _cancel_tasks() is done inside _handle_disconnect().
TasksCancelled(a) ==
    /\ a \in Tasks
    /\ pc[a] = "cancelling"
    /\ \A t \in waitFor[a] : ~Alive(t)
    /\ waitFor' = [waitFor EXCEPT ![a] = {}]
    /\ HandleConnectionFailure(a, sup)
    /\ UNCHANGED <<cancelled, breaker, ad, sub, ended>>

\* Mutant of Unwind: the lock is not released on the way out.
UnwindKeepsLock(a) ==
    /\ a \in cancelled
    /\ cancelled' = cancelled \ {a}
    /\ RunsTo(a, "idle", sup, {})
    /\ ended' = ended \ {a}
    /\ UNCHANGED <<waitFor, breaker, ad, sub>>

\* CancelledError reaches the await of a cancelled task.  No handler of the
\* reconnect chain is an `except Exception` for it: the task just ends, and the
\* adapter keeps the state it had.
Unwind(a) ==
    /\ a \in cancelled
    /\ cancelled' = cancelled \ {a}
    /\ RunsTo(a, "idle", sup, {})
    /\ ad' = [ad EXCEPT !.lock = Others(a)]
    /\ ended' = ended \ {a}
    /\ UNCHANGED <<waitFor, breaker, sub>>

Chain(a) ==
    \/ /\ a \notin cancelled
       /\ \/ BackoffElapsed(a) \/ ProbeWakes(a) \/ LockAcquired(a)
          \/ OpenFails(a) \/ OpenSucceeds(a) \/ SendSucceeds(a) \/ SendFails(a)
          \/ TasksCancelled(a)
    \/ Unwind(a)

-----------------------------------------------------------------------------
(* The receive loop, the monitors and stop() *)

Reads(m) == m \in OfKind("message_loop") /\ pc[m] = "reading" /\ m \notin cancelled
OnSocket(m) == m \notin ended

\* The loop ends without an exception.
LoopEnds(m) ==
    /\ RunsTo(m, "idle", sup, {})
    /\ ended' = ended \ {m}
    /\ UNCHANGED <<cancelled, waitFor, breaker, ad, sub>>

\* The except clause of _message_loop(); HandleDisconnect tests closing too.
LoopFails(m) ==
    /\ HandleDisconnect(m)
    /\ ended' = ended \ {m}

\* The peer answers the SUBSCRIBE; the adapter handles the answer itself and
\* tells the coordinator what is active.  A rejection leaves nothing that would
\* send the request again.
AnswerArrives(m) ==
    /\ Reads(m) /\ OnSocket(m) /\ ad.ws = "open" /\ sub.requested
    /\ \/ /\ ad.closing
          /\ LoopEnds(m)
       \/ /\ ~ad.closing
          /\ \/ sub' = [sub EXCEPT !.active = TRUE, !.requested = FALSE,
                                  !.live = TRUE]
             \/ /\ "subscription" \in Refusals
                /\ sub' = [sub EXCEPT !.requested = FALSE]
          /\ UNCHANGED <<sup, ref, pc, cancelled, waitFor, breaker, ad, ended>>

\* A market frame arrives and is handed to the handler.
FrameArrives(m) ==
    /\ Reads(m) /\ OnSocket(m) /\ ad.ws = "open" /\ sub.live
    /\ \/ /\ ad.closing
          /\ LoopEnds(m)
       \/ /\ ~ad.closing
          /\ ad' = [ad EXCEPT !.state = IF @ = "subscribing" /\ sub.active
                                        THEN "streaming" ELSE @]
          /\ RunsTo(m, "handling", [sup EXCEPT !.heard = "fresh"], {})
          /\ UNCHANGED <<cancelled, waitFor, breaker, sub, ended>>

\* The handler returns; the first frame of a connection makes it streaming.
FrameHandled(m) ==
    /\ m \in OfKind("message_loop") /\ pc[m] = "handling" /\ m \notin cancelled
    /\ IF sup.state = "subscribing"
       THEN /\ RunsTo(m, "reading", [sup EXCEPT !.state = "streaming", !.attempt = 0], {})
            /\ breaker' = RecordSuccess(breaker)
       ELSE /\ RunsTo(m, "reading", sup, {})
            /\ UNCHANGED breaker
    /\ UNCHANGED <<cancelled, waitFor, ad, sub, ended>>

\* The handler raises: the socket is left as it is.
HandlerRaises(m) ==
    /\ m \in OfKind("message_loop") /\ pc[m] = "handling" /\ m \notin cancelled
    /\ "handler" \in Refusals
    /\ LoopFails(m)
    /\ UNCHANGED <<ad, sub>>

\* The socket closed with an error: raw_messages() raises ConnectionError.
SocketLost(m) ==
    /\ Reads(m) /\ OnSocket(m) /\ ad.ws = "closed_error"
    /\ ad' = [ad EXCEPT !.state = "backing_off"]
    /\ LoopFails(m)
    /\ UNCHANGED sub

\* The socket closed normally: the iterator just ends.
SocketEnds(m) ==
    /\ Reads(m)
    /\ ~OnSocket(m) \/ ad.ws = "closed_ok"
    /\ LoopEnds(m)

Monitored == sup.state \in {"subscribing", "streaming"}

\* The heartbeat wakes: it acts on a frame that has become too old, ends when
\* closing, and otherwise sleeps again.
HeartbeatWakes(h) ==
    /\ h \in OfKind("heartbeat") /\ pc[h] = "sleeping" /\ h \notin cancelled
    /\ \/ /\ Monitored /\ sup.heard = "stale"
          /\ HandleDisconnect(h)
       \/ /\ ~(Monitored /\ sup.heard = "stale") /\ sup.closing
          /\ RunsTo(h, "idle", sup, {})
          /\ UNCHANGED <<cancelled, waitFor, breaker>>
    /\ UNCHANGED <<ad, sub, ended>>

\* The planned rotation is due; it is not planned again for this connection.
RotationDue(r) ==
    /\ r \in OfKind("rotation") /\ pc[r] = "sleeping" /\ r \notin cancelled
    /\ \/ /\ Monitored
          /\ HandleDisconnect(r)
       \/ /\ ~Monitored
          /\ RunsTo(r, "idle", sup, {})
          /\ UNCHANGED <<cancelled, waitFor, breaker>>
    /\ UNCHANGED <<ad, sub, ended>>

\* The last lines of stop(): the adapter is stopped and its socket forgotten.
Stopped(s) ==
    /\ ad' = [state |-> "stopped", closing |-> TRUE, lock |-> Others(Stop),
              ws |-> "none"]
    /\ RunsTo(Stop, "idle", [s EXCEPT !.state = "stopped", !.attempt = 0], {})

\* adapter.close() with the lock: only a socket needs a closing handshake.
CloseSocket(s) ==
    \/ /\ ad.ws = "none"
       /\ Stopped(s)
    \/ /\ ad.ws # "none"
       /\ ad' = [ad EXCEPT !.closing = TRUE, !.lock = <<Stop>> \o Others(Stop)]
       /\ RunsTo(Stop, "closing", s, {})

\* Mutants of CloseAdapter: close() does not ask for the lock; close() returns
\* when connect() holds it.
CloseAdapterUnlocked(s) == CloseSocket(s)
CloseAdapterUnlessBusy(s) ==
    \/ /\ ad.lock = <<>>
       /\ CloseSocket(s)
    \/ /\ ad.lock # <<>>
       /\ RunsTo(Stop, "idle", [s EXCEPT !.state = "stopped", !.attempt = 0], {})
       /\ UNCHANGED ad

\* adapter.close(): it marks the adapter closing before it asks for the lock.
CloseAdapter(s) ==
    \/ /\ ad.lock = <<>>
       /\ CloseSocket(s)
    \/ /\ ad.lock # <<>>
       /\ ad' = [ad EXCEPT !.closing = TRUE, !.lock = Append(@, Stop)]
       /\ RunsTo(Stop, "locking", s, {})

\* stop(), up to the first await that suspends it.
StopCalled ==
    LET stopping == [sup EXCEPT !.closing = TRUE, !.state = "stopping",
                                !.stops = @ + 1]
    IN /\ pc[Stop] = "idle"
       /\ sup.stops < MaxStops
       /\ CancelTasks(Stop)
       /\ \/ /\ Victims(Stop) = {}
             /\ CloseAdapter(stopping)
          \/ /\ Victims(Stop) # {}
             /\ RunsTo(Stop, "cancelling", stopping, {})
             /\ UNCHANGED ad
       /\ UNCHANGED <<breaker, sub, ended>>

\* Every cancelled task has ended.
StopCancelled ==
    /\ pc[Stop] = "cancelling"
    /\ \A t \in waitFor[Stop] : ~Alive(t)
    /\ waitFor' = [waitFor EXCEPT ![Stop] = {}]
    /\ CloseAdapter(sup)
    /\ UNCHANGED <<cancelled, breaker, sub, ended>>

StopLocks ==
    /\ pc[Stop] = "locking"
    /\ Head(ad.lock) = Stop
    /\ CloseSocket(sup)
    /\ UNCHANGED <<cancelled, waitFor, breaker, sub, ended>>

\* The closing handshake is over.
StopCloses ==
    /\ pc[Stop] = "closing"
    /\ sub' = [sub EXCEPT !.requested = FALSE, !.live = FALSE]
    /\ ended' = ended \union {a \in Actors : pc[a] \in {"reading", "handling", "sending"}}
    /\ Stopped(sup)
    /\ UNCHANGED <<cancelled, waitFor, breaker>>

Receive(m) ==
    AnswerArrives(m) \/ FrameArrives(m) \/ FrameHandled(m) \/ HandlerRaises(m)
        \/ SocketLost(m) \/ SocketEnds(m)
Monitor(t) == HeartbeatWakes(t) \/ RotationDue(t)
Stopping == StopCancelled \/ StopLocks \/ StopCloses

-----------------------------------------------------------------------------
(* The environment *)

PeerClosesSocket ==
    /\ ad.ws = "open"
    /\ \E c \in PeerCloses : ad' = [ad EXCEPT !.ws = c]
    /\ sub' = [sub EXCEPT !.requested = FALSE, !.live = FALSE]
    /\ UNCHANGED <<sup, ref, pc, cancelled, waitFor, breaker, ended>>

FrameGetsOld ==
    /\ sup.heard = "fresh"
    /\ sup' = [sup EXCEPT !.heard = "stale"]
    /\ UNCHANGED <<ref, pc, cancelled, waitFor, breaker, ad, sub, ended>>

CooldownTick ==
    /\ Cooling(breaker)
    /\ breaker' = Cool(breaker)
    /\ UNCHANGED <<sup, ref, pc, cancelled, waitFor, ad, sub, ended>>

Environment == PeerClosesSocket \/ FrameGetsOld \/ CooldownTick

Next ==
    \/ \E a \in Starters : Start(a)
    \/ \E a \in Tasks \union Starters : Chain(a)
    \/ \E t \in Tasks : Receive(t) \/ Monitor(t)
    \/ StopCalled \/ Stopping
    \/ Environment

Spec == Init /\ [][Next]_vars

\* The event loop runs what is ready, timers fire, and websockets.connect() and
\* close() have timeouts.  Nothing is assumed of the peer or of the handler.
FairSpec ==
    /\ Spec
    /\ \A a \in Tasks \union Starters : WF_vars(Chain(a))
    /\ WF_vars(Stopping)
    /\ WF_vars(CooldownTick)

-----------------------------------------------------------------------------
(* Properties *)

InChain(a) == pc[a] \in {"backoff", "waiting", "opening", "sending"}
Receiving(m) == m \in OfKind("message_loop") /\ pc[m] \in {"reading", "handling"}

\* At most one receive loop is on the current socket, whatever stop(), start()
\* and the reconnect chains do to each other: websockets refuses a second reader.
ReaderExclusive ==
    \A m, n \in Tasks :
        (Receiving(m) /\ OnSocket(m) /\ Receiving(n) /\ OnSocket(n)) => m = n

\* connect() and close() of the adapter never overlap.
AdapterExclusive ==
    \A a, b \in Actors :
        (pc[a] \in {"opening", "closing"} /\ pc[b] \in {"opening", "closing"}) => a = b

\* Once stop() has returned, and until start() is called again, no socket is left:
\* not even one that an earlier start() or a task was still opening, or is yet to
\* open when it gets the lock.
StoppedClosesSocket == sup.closing /\ ~Alive(Stop) => ad.ws = "none"

\* "State becomes streaming only after the adapter has received a market frame":
\* on this connection, not on the one before it.
StreamingHeard == sup.state = "streaming" => sup.heard # "never"

\* Until stop() is called, a failure seen by several tasks at once still leaves
\* one chain of reconnect attempts.
RetryExclusive == \A a, b \in Actors : (InChain(a) /\ InChain(b)) => a = b

\* While the supervisor reports backing_off some coroutine will try again.
RetryAttended ==
    sup.state = "backing_off" =>
        \E a \in Actors : \/ InChain(a)
                          \/ pc[a] = "cancelling"
                          \/ (a \in OfKind("sparse_probe") /\ Alive(a))

\* Whoever retries is alone and reads alone, someone does while the state says
\* so, and no socket opens in an open circuit ("permits only cooldown probes").
OneConnector ==
    /\ ReaderExclusive
    /\ RetryExclusive
    /\ RetryAttended
    /\ breaker.state = "open" => \A a \in Actors : pc[a] # "opening"

\* The retry budget is given back by the first frame of a connection, never by
\* the opening of a socket, and "streaming" is never said before it.
AttemptsResetByFrame ==
    /\ []StreamingHeard
    /\ [][sup'.attempt < sup.attempt =>
             \/ sup'.state = "streaming" /\ sup.heard # "never"
             \/ sup'.state = "stopped"]_vars

\* stop() returns: no task survives its cancellation and the lock is handed over.
StopReturns == Alive(Stop) ~> ~Alive(Stop)

\* As long as no socket opens, attempts to open one never cease.  An attempt that
\* the connection budget refuses ends in the step that makes it, and shows in the
\* cooldown that begins anew.
NeverGivesUp ==
    <>[](ad.ws = "none" /\ sup.state # "stopped")
        => \/ []<>(\E a \in Actors : pc[a] = "opening")
           \/ []<><<breaker'.elapsed < breaker.elapsed>>_vars

-----------------------------------------------------------------------------
(* What the documents say and the code does not do *)

\* A planned rotation or a heartbeat timeout is followed by a reconnect: the
\* chain it starts is one that adapter.connect() can serve.
MonitorCanReconnect ==
    \A a \in OfKind("heartbeat") \union OfKind("rotation") :
        pc[a] = "backoff" => ad.state \in {"stopped", "backing_off"}

\* The state is subscribing because the subscriptions were submitted, on the
\* socket that is open.
SubscriptionsSubmitted ==
    (sup.state = "subscribing" /\ ad.ws = "open") => sub.requested \/ sub.live

\* Only a close or an error takes the state from streaming to backing_off.
StreamKeptWhileHealthy ==
    [][(sup.state = "streaming" /\ sup'.state = "backing_off")
          => ad.ws # "open" \/ sup.heard = "stale"]_vars

\* stop() cancels the monitor tasks.
StopLeavesNoMonitor ==
    (sup.state = "stopped" /\ \A a \in Starters \union {Stop} : ~Alive(a))
        => \A t \in OfKind("heartbeat") \union OfKind("rotation") : ~Alive(t)
=============================================================================
