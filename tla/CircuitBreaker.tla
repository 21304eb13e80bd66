--------------------------- MODULE CircuitBreaker ---------------------------
(***************************************************************************)
(* The circuit breaker of the public market-data feed together with the    *)
(* connection attempts it gates.  Each member of Attempts stands for one   *)
(* coroutine that follows the protocol of ConnectionSupervisor: it asks    *)
(* the breaker before it opens a socket, reports a failure when the        *)
(* attempt or the established stream fails, reports one success when the   *)
(* first market frame arrives, and reports nothing when it is cancelled or *)
(* while its stream stays silent.                                          *)
(* Several attempts may be in flight, so a report may reach the breaker    *)
(* long after the circuit has changed state.                               *)
(***************************************************************************)
EXTENDS BreakerOps

CONSTANTS
    Attempts,       \* coroutines that use the breaker
    Cancellable     \* the attempts that task cancellation may abort

ASSUME AttemptsAssumption == Cancellable \subseteq Attempts

VARIABLES
    breaker,    \* the fields of CircuitBreaker
    phase,      \* what each attempt is doing
    failRun,    \* failures since a success was last heeded or the circuit changed
    okRun,      \* successes since the circuit became half-open
    probes     \* requests admitted since the last report or change of circuit

breakerVars == <<breaker, phase, failRun, okRun, probes>>
history == <<failRun, okRun, probes>>

Phases == {"idle", "asked", "silent", "live", "lost"}

BreakerTypeOK ==
    /\ breaker \in Breaker
    /\ phase \in [Attempts -> Phases]
    /\ failRun \in Nat
    /\ okRun \in Nat
    /\ probes \in Nat

BreakerInit ==
    /\ breaker = ClosedBreaker
    /\ phase = [a \in Attempts |-> "idle"]
    /\ failRun = 0 /\ okRun = 0 /\ probes = 0

-----------------------------------------------------------------------------
\* The history variables count what was reported, not what the breaker stored;
\* failRun is only kept while the circuit is closed.
Reported(successes, failures) ==
    /\ probes' = 0
    /\ IF breaker'.state # breaker.state
       THEN failRun' = 0 /\ okRun' = 0
       ELSE /\ failRun' = IF breaker.state = "closed" THEN failures ELSE 0
            /\ okRun' = IF breaker.state = "half_open" THEN successes ELSE 0

Ask(a) ==
    /\ phase[a] \in {"idle", "lost"}
    /\ Admits(breaker)
    /\ breaker' = Admitted(breaker)
    /\ phase' = [phase EXCEPT ![a] = "asked"]
    /\ probes' = IF breaker.state = "half_open" THEN probes + 1
                  ELSE IF breaker.state = "open" THEN 1 ELSE 0
    /\ UNCHANGED <<failRun, okRun>>

\* The socket is open and the subscriptions are sent.  No frame has arrived, so
\* there is nothing to report yet.
Open(a) ==
    /\ phase[a] = "asked"
    /\ phase' = [phase EXCEPT ![a] = "silent"]
    /\ UNCHANGED <<breaker, history>>

\* The first frame.
Succeed(a) ==
    /\ phase[a] = "silent"
    /\ breaker' = RecordSuccess(breaker)
    /\ phase' = [phase EXCEPT ![a] = "live"]
    /\ Reported(okRun + 1, 0)

\* Opening fails, or the stream does: by an error, the heartbeat, a rotation.
Fail(a) ==
    /\ phase[a] \in {"asked", "silent", "live"}
    /\ breaker' = RecordFailure(breaker)
    /\ phase' = [phase EXCEPT ![a] = "idle"]
    /\ Reported(0, failRun + 1)

\* CancelledError is not an Exception: a cancelled attempt reports nothing.  One
\* that was to report first is lost; the next one may take its place.
Cancel(a) ==
    /\ a \in Cancellable
    /\ phase[a] \in {"asked", "silent", "live"}
    /\ phase' = [phase EXCEPT ![a] = IF @ = "live" THEN "idle" ELSE "lost"]
    /\ UNCHANGED <<breaker, history>>

BreakerTick ==
    /\ Cooling(breaker)
    /\ breaker' = Cool(breaker)
    /\ UNCHANGED <<phase, history>>

BreakerNext ==
    \/ \E a \in Attempts : Ask(a) \/ Open(a) \/ Succeed(a) \/ Fail(a) \/ Cancel(a)
    \/ BreakerTick

BreakerSpec == BreakerInit /\ [][BreakerNext]_breakerVars

\* Time passes, and an attempt that was admitted opens its socket or fails, for
\* opening one has a timeout.  Nothing more: the heartbeat skips a connection
\* without a first frame, so a stream may stay silent, or be closed by its peer
\* without an error, and never be reported, and a live one may last for ever.
FairBreaker ==
    /\ BreakerSpec
    /\ WF_breakerVars(BreakerTick)
    /\ \A a \in Attempts : WF_breakerVars(phase[a] = "asked" /\ (Open(a) \/ Fail(a)))

-----------------------------------------------------------------------------
\* Whatever late reports arrive, a half-open circuit admits at most one request
\* between two reports: the probe flag is exactly that one request.
ProbeExclusive ==
    breaker.state = "half_open" =>
        /\ probes \in {0, 1}
        /\ breaker.probe <=> probes = 1

\* A closed circuit has counted every failure since the last success, no more
\* and no less, and never stays closed once the threshold is reached.
FailuresCounted ==
    breaker.state = "closed" =>
        /\ breaker.failures = failRun
        /\ failRun < FailureThreshold

\* "only this closes a half-open circuit": a circuit that has opened stays open
\* for the whole timeout and then admits a probe, and closes on the
\* SuccessThreshold-th success in a row after that.  A success that arrives while
\* it is open, from an attempt admitted before, shortens neither.
RecoveryEarned ==
    [][/\ (breaker.state = "half_open" /\ breaker'.state = "closed")
            => okRun + 1 = SuccessThreshold
       /\ (breaker.state = "open" /\ breaker'.state # "open")
            => breaker'.state = "half_open" /\ breaker.elapsed = RecoveryTimeout]_breakerVars

\* The probe slot is taken, nobody is opening a socket, and one attempt was
\* cancelled before it reported or waits for a first frame.
ProbeHeld ==
    /\ breaker.probe
    /\ \A a \in Attempts : phase[a] # "asked"
    /\ \E a \in Attempts : phase[a] \in {"silent", "lost"}

\* "Allow ordinary calls or a single post-cooldown sparse probe": refusals end, by
\* the clock or by a report.  There are two exceptions, in which the slot may be
\* held for ever: the probe was cancelled, or its socket is open and silent.
RefusalsEnd == ~Admits(breaker) ~> (Admits(breaker) \/ ProbeHeld)
=============================================================================
