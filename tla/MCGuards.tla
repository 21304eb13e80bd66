------------------------------ MODULE MCGuards ------------------------------
(* The guards of one process: its circuit breaker, its budget of attempts,   *)
(* its REST cooldown and its freshness monitor.  The last three read a clock *)
(* and share nothing else, so a behaviour is of one guard, chosen once.      *)
EXTENDS CircuitBreaker, AttemptBudget, RestCooldown, Freshness

VARIABLE guard

guardVars == <<guard, now, breakerVars, attempts, granted, blockedUntil, blockedStatus,
               request, owed, tracked, alerts>>

\* A date in the past, no delay, and one between the default cooldown and the ban.
MCRetryAfters == {-2, 0, 2}

Init ==
    /\ guard \in {"breaker", "budget", "cooldown", "freshness"}
    /\ BreakerInit /\ BudgetInit /\ CooldownInit /\ FreshnessInit

BreakerStep ==
    /\ guard = "breaker" /\ BreakerNext
    /\ UNCHANGED <<guard, budgetVars, cooldownVars, freshnessVars>>
BudgetStep ==
    /\ guard = "budget" /\ (Grant \/ Refuse)
    /\ UNCHANGED <<guard, breakerVars, cooldownVars, freshnessVars>>
CooldownStep ==
    /\ guard = "cooldown"
    /\ \E c \in Callers :
          \/ Acquire(c) \/ Refused(c) \/ Unanswered(c)
          \/ \E s \in Statuses, h \in RetryAfters \union {None} : Answer(c, s, h)
    /\ UNCHANGED <<guard, breakerVars, budgetVars, freshnessVars>>
MonitorStep ==
    /\ guard = "freshness" /\ FreshnessStep
    /\ UNCHANGED <<guard, breakerVars, budgetVars, cooldownVars>>

TimePasses ==
    /\ guard # "breaker" /\ Tick
    /\ UNCHANGED <<guard, breakerVars, attempts, granted, blockedUntil, blockedStatus, request, owed,
                   tracked, alerts>>

Next == BreakerStep \/ BudgetStep \/ CooldownStep \/ MonitorStep \/ TimePasses

\* The fairness is that of the circuit breaker.
Spec ==
    /\ Init /\ [][Next]_guardVars
    /\ WF_guardVars(BreakerStep /\ BreakerTick)
    /\ \A a \in Attempts :
         WF_guardVars(BreakerStep /\ phase[a] = "asked" /\ (Open(a) \/ Fail(a)))
=============================================================================
