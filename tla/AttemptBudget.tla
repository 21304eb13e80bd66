---------------------------- MODULE AttemptBudget ----------------------------
(***************************************************************************)
(* WebSocketRateBudget: one sliding window of attempts, the code shared by *)
(* the budget of control messages and by that of connection attempts.      *)
(* _reserve() does not suspend, so a call is one step; the clock is        *)
(* time.monotonic and several calls may read the same value.               *)
(***************************************************************************)
EXTENDS Clock, Sequences

CONSTANTS
    Maximum,    \* max_..._per_window
    Window      \* window_seconds, in ticks of the clock

ASSUME BudgetAssumption == Maximum \in Nat \ {0} /\ Window \in Nat \ {0}

VARIABLES
    attempts,   \* the deque of attempts inside the window
    granted     \* every reservation that was granted: history only

budgetVars == <<now, attempts, granted>>

BudgetTypeOK ==
    /\ now \in Nat
    /\ attempts \in Seq(Nat) /\ Len(attempts) <= Maximum
    /\ granted \in Seq(Nat)

BudgetInit == now = 0 /\ attempts = <<>> /\ granted = <<>>

\* Mutant of Unexpired: attempts expire one tick early.
UnexpiredEarly(s) ==
    LET kept == {k \in 1..Len(s) : now - s[k] < Window - 1}
        first == IF kept = {} THEN Len(s) + 1
                 ELSE CHOOSE k \in kept : \A j \in kept : k <= j
    IN  SubSeq(s, first, Len(s))

\* The loop that pops attempts from the left while they are one window old:
\* what it leaves is the longest suffix that starts with a younger attempt.
Unexpired(s) ==
    LET kept == {k \in 1..Len(s) : now - s[k] < Window}
        first == IF kept = {} THEN Len(s) + 1
                 ELSE CHOOSE k \in kept : \A j \in kept : k <= j
    IN  SubSeq(s, first, Len(s))

\* len(attempts) >= maximum, after the old ones are gone.
Full == Len(Unexpired(attempts)) >= Maximum

Grant ==
    /\ ~Full
    /\ attempts' = Append(Unexpired(attempts), now)
    /\ granted' = Append(granted, now)
    /\ UNCHANGED now

Refuse ==
    /\ Full
    /\ attempts' = Unexpired(attempts)
    /\ UNCHANGED <<now, granted>>

BudgetNext == Grant \/ Refuse \/ (Tick /\ UNCHANGED <<attempts, granted>>)

BudgetSpec == BudgetInit /\ [][BudgetNext]_budgetVars

-----------------------------------------------------------------------------
(* Properties *)

\* No window of the provider's length holds more than Maximum reservations,
\* wherever it begins: the attempt `Maximum` places later is a window younger.
WindowRespected ==
    \A i, j \in DOMAIN granted : j = i + Maximum => granted[j] - granted[i] >= Window

\* Headroom is never wasted: a reservation is refused only while Maximum
\* granted ones are younger than a window.
RefusedOnlyWhenFull ==
    Full => /\ Len(granted) >= Maximum
            /\ now - granted[Len(granted) - Maximum + 1] < Window
=============================================================================
