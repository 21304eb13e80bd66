----------------------------- MODULE BreakerOps -----------------------------
(***************************************************************************)
(* The operations of CircuitBreaker, in                                    *)
(* packages/market_data/adapters/connection_supervisor.py, as functions on *)
(* the record of its fields.  CircuitBreaker.tla drives them on their own; *)
(* ConnectionSupervisor.tla calls them from the reconnect machinery.       *)
(*                                                                         *)
(* Time: the code compares now - _opened_at with recovery_timeout and      *)
(* nothing else, so the record keeps the time since the circuit opened,    *)
(* saturating at RecoveryTimeout.                                          *)
(***************************************************************************)
EXTENDS Naturals

CONSTANTS
    FailureThreshold,   \* failure_threshold: consecutive failures that open
    SuccessThreshold,   \* success_threshold: probe successes that close
    RecoveryTimeout     \* recovery_timeout, in clock ticks

ASSUME BreakerAssumption ==
    /\ FailureThreshold \in Nat \ {0}
    /\ SuccessThreshold \in Nat \ {0}
    /\ RecoveryTimeout \in Nat \ {0}

BreakerStates == {"closed", "open", "half_open"}

Breaker ==
    [state     : BreakerStates,
     failures  : 0..FailureThreshold,
     successes : 0..SuccessThreshold,
     probe     : BOOLEAN,
     elapsed   : 0..RecoveryTimeout]

\* _close(); also the state of a new breaker.
ClosedBreaker ==
    [state |-> "closed", failures |-> 0, successes |-> 0, probe |-> FALSE,
     elapsed |-> 0]

\* _open(): the cooldown starts and every counter is reset.
OpenBreaker ==
    [state |-> "open", failures |-> 0, successes |-> 0, probe |-> FALSE,
     elapsed |-> 0]

\* Mutants of RecordSuccess: one success closes the circuit; a success keeps
\* the probe slot.
RecordSuccessClosesAtOnce(b) ==
    CASE b.state = "half_open" -> ClosedBreaker
      [] b.state = "closed" -> [b EXCEPT !.failures = 0]
      [] b.state = "open"   -> b
RecordSuccessKeepsProbe(b) ==
    CASE b.state = "half_open" ->
            IF b.successes + 1 >= SuccessThreshold
            THEN ClosedBreaker
            ELSE [b EXCEPT !.successes = @ + 1]
      [] b.state = "closed" -> [b EXCEPT !.failures = 0]
      [] b.state = "open"   -> b

\* A success matters in half_open, where it frees the probe slot and may close
\* the circuit, and in closed, where it ends the run of failures.
RecordSuccess(b) ==
    CASE b.state = "half_open" ->
            IF b.successes + 1 >= SuccessThreshold
            THEN ClosedBreaker
            ELSE [b EXCEPT !.successes = @ + 1, !.probe = FALSE]
      [] b.state = "closed" -> [b EXCEPT !.failures = 0]
      [] b.state = "open"   -> b

\* Failures reported to an open circuit are still counted, without a bound;
\* nothing reads that count before it is reset, so it saturates here.
CountFailure(b) ==
    [b EXCEPT !.failures = IF @ < FailureThreshold THEN @ + 1 ELSE @]

RecordFailure(b) ==
    IF \/ b.state = "half_open"
       \/ b.state = "closed" /\ b.failures + 1 >= FailureThreshold
    THEN OpenBreaker
    ELSE CountFailure(b)

\* Mutant of Admits: a second probe is let through.
AdmitsEveryProbe(b) ==
    b.state = "open" => b.elapsed = RecoveryTimeout

\* allow_request() answers TRUE exactly when Admits holds, and leaves the
\* breaker as Admitted says; a refusal changes nothing.
Admits(b) ==
    \/ b.state = "closed"
    \/ b.state = "open" /\ b.elapsed = RecoveryTimeout
    \/ b.state = "half_open" /\ ~b.probe

Admitted(b) ==
    CASE b.state = "closed"    -> b
      [] b.state = "open"      -> [b EXCEPT !.state = "half_open",
                                            !.successes = 0, !.probe = TRUE]
      [] b.state = "half_open" -> [b EXCEPT !.probe = TRUE]

\* The clock moves on by one tick; the breaker reads it only while open.
Cool(b) == [b EXCEPT !.elapsed = @ + 1]
Cooling(b) == b.state = "open" /\ b.elapsed < RecoveryTimeout
=============================================================================
