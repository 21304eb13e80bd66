---------------------------- MODULE Guards_proofs ----------------------------
(***************************************************************************)
(* Proofs about the guards of one process, for any bounds: the circuit     *)
(* breaker, the budget of attempts, the cooldown of the REST coordinator   *)
(* and the freshness monitor.                                              *)
(***************************************************************************)
EXTENDS CircuitBreaker, AttemptBudget, RestCooldown, Freshness,
        TLAPS, WellFoundedInduction, SequenceTheorems

-----------------------------------------------------------------------------
(***************************************************************************)
(* The circuit breaker for every threshold, timeout and set of attempts.   *)
(* The inductive invariant is the type invariant, the two safety           *)
(* invariants and the matching fact about successes, SuccessesCounted.     *)
(***************************************************************************)

\* A half-open circuit has counted the successes since it opened for probing
\* and is short of the threshold; outside half_open there are none.
SuccessesCounted ==
    IF breaker.state = "half_open"
    THEN breaker.successes = okRun /\ okRun < SuccessThreshold
    ELSE okRun = 0

BreakerIInv == BreakerTypeOK /\ ProbeExclusive /\ FailuresCounted /\ SuccessesCounted

-----------------------------------------------------------------------------
(* The operations of the breaker keep its fields in range. *)

\* record_success() leaves a well-formed breaker.
LEMMA RecordSuccessType ==
    ASSUME NEW b \in Breaker
    PROVE  RecordSuccess(b) \in Breaker
<1> USE BreakerAssumption DEF RecordSuccess, Breaker, BreakerStates, ClosedBreaker
<1>1. CASE b.state = "half_open" /\ b.successes + 1 >= SuccessThreshold
  BY <1>1
<1>2. CASE b.state = "half_open" /\ ~(b.successes + 1 >= SuccessThreshold)
  <2>1. b.successes + 1 \in 0..SuccessThreshold
    BY <1>2
  <2>2. RecordSuccess(b) = [b EXCEPT !.successes = @ + 1, !.probe = FALSE]
    BY <1>2
  <2>3. QED  BY <2>1, <2>2
<1>3. CASE b.state = "closed"
  <2>1. RecordSuccess(b) = [b EXCEPT !.failures = 0]
    BY <1>3
  <2>2. QED  BY <2>1
<1>4. CASE b.state = "open"
  BY <1>4
<1>5. QED  BY <1>1, <1>2, <1>3, <1>4

\* record_failure() leaves a well-formed breaker.
LEMMA RecordFailureType ==
    ASSUME NEW b \in Breaker
    PROVE  RecordFailure(b) \in Breaker
BY BreakerAssumption
   DEF RecordFailure, CountFailure, Breaker, BreakerStates, OpenBreaker

\* allow_request() leaves a well-formed breaker when it admits.
LEMMA AdmittedType ==
    ASSUME NEW b \in Breaker
    PROVE  Admitted(b) \in Breaker
<1> USE BreakerAssumption DEF Admitted, Breaker, BreakerStates
<1>1. CASE b.state = "closed"
  BY <1>1
<1>2. CASE b.state = "open"
  <2>1. Admitted(b) = [b EXCEPT !.state = "half_open", !.successes = 0,
                                !.probe = TRUE]
    BY <1>2
  <2>2. 0 \in 0..SuccessThreshold
    OBVIOUS
  <2>3. QED  BY <2>1, <2>2
<1>3. CASE b.state = "half_open"
  <2>1. Admitted(b) = [b EXCEPT !.probe = TRUE]
    BY <1>3
  <2>2. QED  BY <2>1
<1>4. QED  BY <1>1, <1>2, <1>3

-----------------------------------------------------------------------------
\* The first state satisfies the inductive invariant.
LEMMA BreakerInitIInv == BreakerInit => BreakerIInv
BY BreakerAssumption
   DEF BreakerInit, BreakerIInv, BreakerTypeOK, ProbeExclusive, FailuresCounted, SuccessesCounted,
       ClosedBreaker, Breaker, BreakerStates, Phases

\* An admitted request keeps the inductive invariant.
LEMMA BreakerAskIInv ==
    ASSUME BreakerIInv, NEW a \in Attempts, Ask(a)
    PROVE  BreakerIInv'
<1> USE BreakerAssumption DEF BreakerIInv, Ask
<1>1. BreakerTypeOK'
  BY AdmittedType DEF BreakerTypeOK, Phases
<1>2. (ProbeExclusive /\ FailuresCounted /\ SuccessesCounted)'
  BY DEF BreakerTypeOK, ProbeExclusive, FailuresCounted, SuccessesCounted, Admits,
         Admitted, Breaker, BreakerStates
<1>3. QED  BY <1>1, <1>2

\* A reported success keeps the inductive invariant.
LEMMA BreakerSucceedIInv ==
    ASSUME BreakerIInv, NEW a \in Attempts, Succeed(a)
    PROVE  BreakerIInv'
<1> USE BreakerAssumption DEF BreakerIInv, Succeed, Reported
<1>1. BreakerTypeOK'
  BY RecordSuccessType DEF BreakerTypeOK, Phases
<1>2. (ProbeExclusive /\ FailuresCounted /\ SuccessesCounted)'
  BY DEF BreakerTypeOK, ProbeExclusive, FailuresCounted, SuccessesCounted,
         RecordSuccess, ClosedBreaker, Breaker, BreakerStates
<1>3. QED  BY <1>1, <1>2

\* A reported failure keeps the inductive invariant.
LEMMA BreakerFailIInv ==
    ASSUME BreakerIInv, NEW a \in Attempts, Fail(a)
    PROVE  BreakerIInv'
<1> USE BreakerAssumption DEF BreakerIInv, Fail, Reported
<1>1. BreakerTypeOK'
  BY RecordFailureType DEF BreakerTypeOK, Phases
<1>2. (ProbeExclusive /\ FailuresCounted /\ SuccessesCounted)'
  BY DEF BreakerTypeOK, ProbeExclusive, FailuresCounted, SuccessesCounted,
         RecordFailure, CountFailure, OpenBreaker, Breaker, BreakerStates
<1>3. QED  BY <1>1, <1>2

\* An open socket, cancellation, the clock and stuttering keep the inductive
\* invariant.
LEMMA BreakerOtherIInv ==
    ASSUME BreakerIInv,
           \/ BreakerTick \/ UNCHANGED breakerVars
           \/ \E a \in Attempts : Open(a) \/ Cancel(a)
    PROVE  BreakerIInv'
<1> USE BreakerAssumption
    DEF BreakerIInv, BreakerTypeOK, ProbeExclusive, FailuresCounted, SuccessesCounted, history,
        Breaker, BreakerStates, Phases
<1>1. CASE BreakerTick
  BY <1>1 DEF BreakerTick, Cooling, Cool
<1>2. CASE UNCHANGED breakerVars
  BY <1>2 DEF breakerVars
<1>3. ASSUME NEW a \in Attempts, Open(a) \/ Cancel(a) PROVE BreakerIInv'
  BY <1>3 DEF Open, Cancel
<1>4. QED  BY <1>1, <1>2, <1>3

\* The conjunction of the type and the counting invariants always holds.
THEOREM BreakerInvariance == BreakerSpec => []BreakerIInv
<1>1. BreakerIInv /\ [BreakerNext]_breakerVars => BreakerIInv'
  BY BreakerAskIInv, BreakerSucceedIInv, BreakerFailIInv, BreakerOtherIInv DEF BreakerNext
<1>2. QED  BY BreakerInitIInv, <1>1, PTL DEF BreakerSpec

\* Every field of the breaker stays in its range.
THEOREM BreakerTyped == BreakerSpec => []BreakerTypeOK
<1>1. BreakerIInv => BreakerTypeOK  BY DEF BreakerIInv
<1>2. QED  BY BreakerInvariance, <1>1, PTL

\* One probe between two reports, for any number of overlapping attempts.
THEOREM ProbeIsExclusive == BreakerSpec => []ProbeExclusive
<1>1. BreakerIInv => ProbeExclusive  BY DEF BreakerIInv
<1>2. QED  BY BreakerInvariance, <1>1, PTL

\* No failure of a closed circuit is missed or counted twice.
THEOREM FailuresAreCounted == BreakerSpec => []FailuresCounted
<1>1. BreakerIInv => FailuresCounted  BY DEF BreakerIInv
<1>2. QED  BY BreakerInvariance, <1>1, PTL

\* A circuit leaves open after the whole timeout, and half-open for closed after
\* SuccessThreshold successes in a row.
THEOREM RecoveryIsEarned == BreakerSpec => RecoveryEarned
<1> DEFINE Earned == (breaker.state = "half_open" /\ breaker'.state = "closed")
                         => okRun + 1 = SuccessThreshold
           Served == (breaker.state = "open" /\ breaker'.state # "open")
                         => breaker'.state = "half_open" /\ breaker.elapsed = RecoveryTimeout
<1>1. BreakerIInv /\ [BreakerNext]_breakerVars => [Earned /\ Served]_breakerVars
  <2> SUFFICES ASSUME BreakerIInv, BreakerNext
               PROVE  Earned /\ Served
    OBVIOUS
  <2> USE BreakerAssumption DEF BreakerIInv, BreakerTypeOK, SuccessesCounted, Breaker, BreakerStates
  <2>1. ASSUME NEW a \in Attempts, Ask(a) PROVE Earned /\ Served
    BY <2>1 DEF Ask, Admits, Admitted
  <2>2. ASSUME NEW a \in Attempts, Succeed(a) PROVE Earned /\ Served
    BY <2>2 DEF Succeed, RecordSuccess
  <2>3. ASSUME NEW a \in Attempts, Fail(a) PROVE Earned /\ Served
    BY <2>3 DEF Fail, RecordFailure, CountFailure, OpenBreaker
  <2>4. ASSUME NEW a \in Attempts, Open(a) \/ Cancel(a) PROVE Earned /\ Served
    BY <2>4 DEF Open, Cancel
  <2>5. CASE BreakerTick
    BY <2>5 DEF BreakerTick, Cooling, Cool
  <2>6. QED  BY <2>1, <2>2, <2>3, <2>4, <2>5 DEF BreakerNext
<1>2. QED  BY BreakerInvariance, <1>1, PTL DEF BreakerSpec, RecoveryEarned

-----------------------------------------------------------------------------
(***************************************************************************)
(* The sliding window for any maximum and any window length.  The deque is *)
(* a suffix of the history of grants, and what is missing from it is at    *)
(* least one window old; so a grant that finds room finds the attempt      *)
(* Maximum places before it among the missing ones.                        *)
(***************************************************************************)

\* The clock does not go back, so the history is sorted and not in the future.
Chronological ==
    /\ \A i, j \in 1..Len(granted) : i <= j => granted[i] <= granted[j]
    /\ \A i \in 1..Len(granted) : granted[i] <= now

\* s is what is left of the history when its expired beginning is cut off.
Remembers(s) ==
    /\ Len(s) <= Len(granted)
    /\ \A k \in 1..Len(s) : s[k] = granted[Len(granted) - Len(s) + k]
    /\ \A i \in 1..(Len(granted) - Len(s)) : now - granted[i] >= Window

BudgetIInv == BudgetTypeOK /\ Chronological /\ Remembers(attempts) /\ WindowRespected

USE BudgetAssumption

\* A nonempty set of numbers has a least one.
LEMMA LeastElement ==
    ASSUME NEW S, S \subseteq Nat, S # {}
    PROVE  \E m \in S : \A k \in S : m <= k
<1> DEFINE R == OpToRel(<, Nat)
<1>1. \E m \in S : \A k \in S : <<k, m>> \notin R
  BY NatLessThanWellFounded, WFMin
<1>2. \A k, m \in Nat : <<k, m>> \notin R => m <= k
  BY DEF OpToRel
<1> QED
  BY <1>1, <1>2

\* What the loop of _reserve() leaves: it stops at the first young attempt.
LEMMA LoopStops ==
    ASSUME NEW s \in Seq(Nat), now \in Nat
    PROVE  \E first \in 1..(Len(s) + 1) :
              /\ Unexpired(s) = SubSeq(s, first, Len(s))
              /\ \A k \in 1..(first - 1) : now - s[k] >= Window
              /\ first <= Len(s) => now - s[first] < Window
<1> DEFINE kept == {k \in 1..Len(s) : now - s[k] < Window}
<1>1. CASE kept = {}
  <2>1. Unexpired(s) = SubSeq(s, Len(s) + 1, Len(s))
    BY <1>1 DEF Unexpired
  <2>2. \A k \in 1..Len(s) : now - s[k] >= Window
    BY <1>1
  <2> WITNESS Len(s) + 1 \in 1..(Len(s) + 1)
  <2> QED
    BY <2>1, <2>2
<1>2. CASE kept # {}
  <2>1. kept \subseteq Nat
    OBVIOUS
  <2>2. PICK first \in kept : \A j \in kept : first <= j
    BY <1>2, <2>1, LeastElement
  <2>3. (CHOOSE k \in kept : \A j \in kept : k <= j) = first
    <3> HIDE DEF kept
    <3>1. \A k \in kept : (\A j \in kept : k <= j) => k = first
      BY <2>1, <2>2
    <3> QED
      BY <2>2, <3>1
  <2>4. Unexpired(s) = SubSeq(s, first, Len(s))
    BY <1>2, <2>3 DEF Unexpired
  <2>5. \A k \in 1..(first - 1) : now - s[k] >= Window
    <3> TAKE k \in 1..(first - 1)
    <3>1. k \in 1..Len(s) /\ k \notin kept
      BY <2>2
    <3>2. ~(now - s[k] < Window) /\ s[k] \in Nat
      BY <3>1
    <3> QED
      BY <3>2
  <2> WITNESS first \in 1..(Len(s) + 1)
  <2> QED
    BY <2>2, <2>4, <2>5
<1> QED
  BY <1>1, <1>2

\* What is left of a sequence when its first elements are cut off.
LEMMA SuffixOf ==
    ASSUME NEW s \in Seq(Nat), NEW first \in 1..(Len(s) + 1)
    PROVE  LET u == SubSeq(s, first, Len(s))
           IN  /\ u \in Seq(Nat)
               /\ Len(u) = Len(s) - first + 1
               /\ \A k \in 1..Len(u) : u[k] = s[first + k - 1]
<1>1. first \in Int /\ Len(s) \in Int
  OBVIOUS
<1>2. \A i \in first..Len(s) : s[i] \in Nat
  OBVIOUS
<1> DEFINE u == SubSeq(s, first, Len(s))
<1>3. /\ u \in Seq(Nat)
      /\ Len(u) = (IF first <= Len(s) THEN Len(s) - first + 1 ELSE 0)
      /\ \A i \in 1..(Len(s) - first + 1) : u[i] = s[first + i - 1]
  <2> DEFINE n == Len(s)
  <2> HIDE DEF n
  <2>1. /\ SubSeq(s, first, n) \in Seq(Nat)
        /\ Len(SubSeq(s, first, n)) = (IF first <= n THEN n - first + 1 ELSE 0)
        /\ \A i \in 1..(n - first + 1) : SubSeq(s, first, n)[i] = s[first + i - 1]
    <3>1. n \in Int /\ \A i \in first..n : s[i] \in Nat
      BY <1>1, <1>2 DEF n
    <3> QED
      BY <1>1, <3>1, SubSeqProperties
  <2> QED
    BY <2>1 DEF n
<1> HIDE DEF u
<1>4. Len(u) = Len(s) - first + 1
  BY <1>3
<1>5. \A k \in 1..Len(u) : u[k] = s[first + k - 1]
  BY <1>3, <1>4
<1> QED
  BY <1>3, <1>4, <1>5 DEF u

\* The loop forgets only what is a window old, and a sequence it does not
\* empty begins with a younger attempt.
LEMMA Pruned ==
    ASSUME BudgetTypeOK, Remembers(attempts)
    PROVE  /\ Unexpired(attempts) \in Seq(Nat)
           /\ Len(Unexpired(attempts)) <= Len(attempts)
           /\ Remembers(Unexpired(attempts))
           /\ Unexpired(attempts) # <<>> => now - Unexpired(attempts)[1] < Window
<1> DEFINE u == Unexpired(attempts)
<1>1. PICK first \in 1..(Len(attempts) + 1) :
          /\ u = SubSeq(attempts, first, Len(attempts))
          /\ \A k \in 1..(first - 1) : now - attempts[k] >= Window
          /\ first <= Len(attempts) => now - attempts[first] < Window
  BY LoopStops DEF BudgetTypeOK
<1>2. u \in Seq(Nat) /\ Len(u) = Len(attempts) - first + 1
  BY <1>1, SuffixOf DEF BudgetTypeOK
<1>3. \A k \in 1..Len(u) : u[k] = attempts[first + k - 1]
  BY <1>1, SuffixOf DEF BudgetTypeOK
<1> HIDE DEF u
<1>4. Remembers(u)
  <2>1. Len(u) <= Len(granted)
    BY <1>2 DEF Remembers, BudgetTypeOK
  <2>2. \A k \in 1..Len(u) : u[k] = granted[Len(granted) - Len(u) + k]
    <3> TAKE k \in 1..Len(u)
    <3> DEFINE p == first + k - 1
    <3>1. Len(attempts) \in Nat /\ Len(granted) \in Nat /\ Len(u) \in Nat
      BY <1>2 DEF BudgetTypeOK
    <3>2. p \in 1..Len(attempts)
      BY <1>2, <3>1
    <3>3. u[k] = attempts[p]
      BY <1>3
    <3>4. Len(granted) - Len(u) + k = Len(granted) - Len(attempts) + p
      BY <1>2, <3>1
    <3> HIDE DEF p
    <3> QED
      BY <3>2, <3>3, <3>4 DEF Remembers
  <2>3. \A i \in 1..(Len(granted) - Len(u)) : now - granted[i] >= Window
    <3> TAKE i \in 1..(Len(granted) - Len(u))
    <3>1. CASE i <= Len(granted) - Len(attempts)
      BY <3>1 DEF Remembers, BudgetTypeOK
    <3>2. CASE i > Len(granted) - Len(attempts)
      <4> DEFINE k == i - (Len(granted) - Len(attempts))
      <4>1. k \in 1..(first - 1) /\ k \in 1..Len(attempts)
        BY <1>2, <3>2 DEF Remembers, BudgetTypeOK
      <4>2. attempts[k] = granted[i]
        BY <4>1 DEF Remembers, BudgetTypeOK
      <4> QED
        BY <1>1, <4>1, <4>2
    <3> QED
      BY <3>1, <3>2 DEF BudgetTypeOK
  <2> QED
    BY <2>1, <2>2, <2>3 DEF Remembers
<1>5. u # <<>> => now - u[1] < Window
  BY <1>1, <1>2, <1>3
<1> QED
  BY <1>2, <1>4, <1>5 DEF u

-----------------------------------------------------------------------------

LEMMA BudgetInitIInv == BudgetInit => BudgetIInv
  BY DEF BudgetInit, BudgetIInv, BudgetTypeOK, Chronological, Remembers, WindowRespected

LEMMA BudgetGrantIInv ==
    ASSUME BudgetIInv, Grant
    PROVE  BudgetIInv'
<1> DEFINE u == Unexpired(attempts)
<1>1. u \in Seq(Nat) /\ Len(u) < Maximum /\ Remembers(u)
  BY Pruned DEF BudgetIInv, BudgetTypeOK, Grant, Full
<1>2. /\ attempts' = Append(u, now) /\ granted' = Append(granted, now)
      /\ now' = now /\ now \in Nat /\ granted \in Seq(Nat)
  BY DEF Grant, BudgetIInv, BudgetTypeOK
<1> HIDE DEF u
<1>3. /\ Len(granted') = Len(granted) + 1 /\ granted'[Len(granted) + 1] = now
      /\ \A i \in 1..Len(granted) : granted'[i] = granted[i]
  BY <1>2, AppendProperties
<1>4. /\ Len(attempts') = Len(u) + 1 /\ attempts'[Len(u) + 1] = now
      /\ \A k \in 1..Len(u) : attempts'[k] = u[k]
  BY <1>1, <1>2, AppendProperties
<1>5. BudgetTypeOK'
  BY <1>1, <1>2, <1>4 DEF BudgetTypeOK
<1>6. Chronological'
  BY <1>2, <1>3 DEF BudgetIInv, Chronological
<1>7. Remembers(attempts)'
  <2>1. Len(u) \in Nat /\ Len(granted) \in Nat /\ Len(u) <= Len(granted)
    BY <1>1, <1>2 DEF Remembers
  <2>2. \A k \in 1..Len(attempts') :
            attempts'[k] = granted'[Len(granted') - Len(attempts') + k]
    <3> TAKE k \in 1..Len(attempts')
    <3>1. Len(granted') - Len(attempts') + k = Len(granted) - Len(u) + k
      BY <1>3, <1>4, <2>1
    <3>2. CASE k = Len(u) + 1
      BY <1>3, <1>4, <2>1, <3>1, <3>2
    <3>3. CASE k \in 1..Len(u)
      <4>1. u[k] = granted[Len(granted) - Len(u) + k]
        BY <1>1, <3>3 DEF Remembers
      <4>2. Len(granted) - Len(u) + k \in 1..Len(granted)
        BY <2>1, <3>3
      <4> QED
        BY <1>3, <1>4, <3>1, <3>3, <4>1, <4>2
    <3> QED
      BY <1>4, <2>1, <3>2, <3>3
  <2>3. \A i \in 1..(Len(granted') - Len(attempts')) : now' - granted'[i] >= Window
    <3> TAKE i \in 1..(Len(granted') - Len(attempts'))
    <3>1. i \in 1..(Len(granted) - Len(u)) /\ i \in 1..Len(granted)
      BY <1>3, <1>4, <2>1
    <3>2. now - granted[i] >= Window
      BY <1>1, <3>1 DEF Remembers
    <3> QED
      BY <1>2, <1>3, <3>1, <3>2
  <2> QED
    BY <1>3, <1>4, <2>1, <2>2, <2>3 DEF Remembers
<1>8. WindowRespected'
  <2> SUFFICES ASSUME NEW i \in 1..Len(granted'), NEW j \in 1..Len(granted'), j = i + Maximum
               PROVE  granted'[j] - granted'[i] >= Window
    BY <1>2, <1>3 DEF WindowRespected
  <2>0. Len(granted) \in Nat /\ Len(u) \in Nat /\ Len(u) <= Len(granted)
    BY <1>1, <1>2 DEF Remembers
  <2>1. CASE j <= Len(granted)
    <3>1. i \in 1..Len(granted) /\ j \in 1..Len(granted)
      BY <1>3, <2>0, <2>1
    <3>2. DOMAIN granted = 1..Len(granted)
      BY <1>2
    <3>3. granted[j] - granted[i] >= Window
      BY <3>1, <3>2 DEF BudgetIInv, WindowRespected
    <3> QED
      BY <1>3, <3>1, <3>3
  <2>2. CASE j = Len(granted) + 1
    <3>1. i \in 1..(Len(granted) - Len(u)) /\ i \in 1..Len(granted)
      BY <1>1, <2>0, <2>2
    <3>2. now - granted[i] >= Window
      BY <1>1, <3>1 DEF Remembers
    <3>3. granted'[j] = now /\ granted'[i] = granted[i]
      BY <1>3, <2>2, <3>1
    <3> QED
      BY <3>2, <3>3
  <2> QED
    BY <1>3, <2>0, <2>1, <2>2
<1> QED
  BY <1>5, <1>6, <1>7, <1>8 DEF BudgetIInv

LEMMA BudgetRefuseIInv ==
    ASSUME BudgetIInv, Refuse
    PROVE  BudgetIInv'
<1>1. /\ Unexpired(attempts) \in Seq(Nat) /\ Remembers(Unexpired(attempts))
      /\ Len(Unexpired(attempts)) <= Len(attempts)
  BY Pruned DEF BudgetIInv
<1>2. attempts' = Unexpired(attempts) /\ now' = now /\ granted' = granted
  BY DEF Refuse
<1>3. BudgetTypeOK'
  BY <1>1, <1>2 DEF BudgetIInv, BudgetTypeOK
<1>4. Remembers(attempts)'
  BY <1>1, <1>2 DEF Remembers
<1> QED
  BY <1>2, <1>3, <1>4 DEF BudgetIInv, Chronological, WindowRespected

LEMMA BudgetTickIInv ==
    ASSUME BudgetIInv, Tick, UNCHANGED <<attempts, granted>>
    PROVE  BudgetIInv'
<1>1. now' = now + 1 /\ attempts' = attempts /\ granted' = granted
  BY DEF Tick
<1>2. BudgetTypeOK'
  BY <1>1 DEF BudgetIInv, BudgetTypeOK
<1>3. \A i \in 1..Len(granted) : granted[i] \in Nat
  BY DEF BudgetIInv, BudgetTypeOK
<1>4. Chronological'
  BY <1>1, <1>3 DEF BudgetIInv, BudgetTypeOK, Chronological
<1>5. Remembers(attempts)'
  BY <1>1, <1>3 DEF BudgetIInv, BudgetTypeOK, Remembers
<1> QED
  BY <1>1, <1>2, <1>4, <1>5 DEF BudgetIInv, WindowRespected

THEOREM BudgetInvariance == BudgetSpec => []BudgetIInv
<1>1. BudgetIInv /\ [BudgetNext]_budgetVars => BudgetIInv'
  <2>1. ASSUME BudgetIInv, UNCHANGED budgetVars PROVE BudgetIInv'
    BY <2>1 DEF BudgetIInv, BudgetTypeOK, Chronological, Remembers, WindowRespected, budgetVars
  <2> QED
    BY <2>1, BudgetGrantIInv, BudgetRefuseIInv, BudgetTickIInv DEF BudgetNext
<1> QED
  BY <1>1, BudgetInitIInv, PTL DEF BudgetSpec

\* The deque never holds more than the maximum.
THEOREM BudgetTyped == BudgetSpec => []BudgetTypeOK
<1>1. BudgetIInv => BudgetTypeOK
  BY DEF BudgetIInv
<1> QED
  BY BudgetInvariance, <1>1, PTL

\* No window of any length Window holds more than Maximum reservations.
THEOREM NoWindowIsOverfilled == BudgetSpec => []WindowRespected
<1>1. BudgetIInv => WindowRespected
  BY DEF BudgetIInv
<1> QED
  BY BudgetInvariance, <1>1, PTL

\* A reservation is refused only while Maximum granted ones are younger than a
\* window: the first attempt the loop keeps is young, and the history is sorted.
THEOREM HeadroomIsUsed == BudgetSpec => []RefusedOnlyWhenFull
<1>1. ASSUME BudgetIInv PROVE RefusedOnlyWhenFull
  <2> DEFINE u == Unexpired(attempts)
  <2> SUFFICES ASSUME Len(u) >= Maximum
               PROVE  /\ Len(granted) >= Maximum
                      /\ now - granted[Len(granted) - Maximum + 1] < Window
    BY DEF RefusedOnlyWhenFull, Full
  <2>1. u \in Seq(Nat) /\ Remembers(u) /\ (u # <<>> => now - u[1] < Window)
    BY <1>1, Pruned DEF BudgetIInv
  <2> HIDE DEF u
  <2> DEFINE a == Len(granted) - Len(u) + 1
             b == Len(granted) - Maximum + 1
  <2>2. a \in 1..Len(granted) /\ b \in 1..Len(granted) /\ a <= b
    BY <1>1, <2>1 DEF BudgetIInv, BudgetTypeOK, Remembers
  <2>3. granted[a] = u[1] /\ now - u[1] < Window
    BY <1>1, <2>1, <2>2 DEF BudgetIInv, BudgetTypeOK, Remembers
  <2>4. granted[a] <= granted[b] /\ granted[a] \in Nat /\ granted[b] \in Nat
    <3>1. granted \in Seq(Nat)
      BY <1>1 DEF BudgetIInv, BudgetTypeOK
    <3> HIDE DEF a, b
    <3> QED
      BY <1>1, <2>2, <3>1 DEF BudgetIInv, Chronological
  <2>5. Len(granted) >= Maximum /\ now \in Nat
    BY <1>1, <2>1 DEF BudgetIInv, BudgetTypeOK, Remembers
  <2> HIDE DEF a
  <2> QED
    BY <2>3, <2>4, <2>5
<1> QED
  BY BudgetInvariance, <1>1, PTL

-----------------------------------------------------------------------------
(***************************************************************************)
(* The cooldown of the REST coordinator for any number of callers, any     *)
(* defaults and any Retry-After: the block in force always ends where the  *)
(* longest pause the provider asked for ends.                              *)
(***************************************************************************)

\* With no block every pause is over; a block ends with the longest of them.
CooldownIInv ==
    /\ CooldownTypeOK
    /\ blockedUntil = None => now >= owed
    /\ blockedUntil # None => blockedUntil = owed

USE CooldownAssumption

\* A cooldown is a delay: the default of the status, or a header clamped at 0.
LEMMA CooldownType ==
    ASSUME NEW status, NEW header \in RetryAfters \union {None}
    PROVE  Cooldown(status, header) \in Nat
  BY DEF Cooldown

LEMMA CooldownInitIInv == CooldownInit => CooldownIInv
  BY DEF CooldownInit, CooldownIInv, CooldownTypeOK

LEMMA CooldownAnswerIInv ==
    ASSUME CooldownIInv, NEW c \in Callers, NEW status \in Statuses,
           NEW header \in RetryAfters \union {None}, Answer(c, status, header)
    PROVE  CooldownIInv'
<1> DEFINE until == now + Cooldown(status, header)
<1>1. until \in Nat /\ until >= now
  BY CooldownType DEF CooldownIInv, CooldownTypeOK
<1>2. request' \in [Callers -> {"none", "sent"}] /\ now' = now
  BY DEF CooldownIInv, CooldownTypeOK, Answer
<1>3. CASE status \notin {429, 418}
  BY <1>2, <1>3 DEF CooldownIInv, CooldownTypeOK, Answer, Observe
<1>4. CASE status \in {429, 418} /\ (blockedUntil = None \/ until > blockedUntil)
  <2>1. blockedUntil' = until /\ blockedStatus' = status
    BY <1>4 DEF Answer, Observe
  <2>2. owed' = until
    BY <1>1, <1>4 DEF CooldownIInv, CooldownTypeOK, Answer
  <2> QED
    BY <1>1, <1>2, <1>4, <2>1, <2>2 DEF CooldownIInv, CooldownTypeOK
<1>5. CASE status \in {429, 418} /\ ~(blockedUntil = None \/ until > blockedUntil)
  <2>1. UNCHANGED <<blockedUntil, blockedStatus>>
    BY <1>5 DEF Answer, Observe
  <2>2. owed' = owed
    BY <1>1, <1>5 DEF CooldownIInv, CooldownTypeOK, Answer
  <2> QED
    BY <1>2, <2>1, <2>2 DEF CooldownIInv, CooldownTypeOK
<1> QED
  BY <1>3, <1>4, <1>5

LEMMA CooldownStepIInv == CooldownIInv /\ [CooldownNext]_cooldownVars => CooldownIInv'
<1> SUFFICES ASSUME CooldownIInv, [CooldownNext]_cooldownVars PROVE CooldownIInv'
  OBVIOUS
<1>1. CASE Tick /\ UNCHANGED <<blockedUntil, blockedStatus, request, owed>>
  BY <1>1 DEF CooldownIInv, CooldownTypeOK, Tick
<1>2. ASSUME NEW c \in Callers, Acquire(c) PROVE CooldownIInv'
  BY <1>2 DEF CooldownIInv, CooldownTypeOK, Acquire, Blocked
<1>3. ASSUME NEW c \in Callers, Refused(c) PROVE CooldownIInv'
  BY <1>3 DEF CooldownIInv, CooldownTypeOK, Refused, cooldownVars
<1>4. ASSUME NEW c \in Callers, Unanswered(c) PROVE CooldownIInv'
  BY <1>4 DEF CooldownIInv, CooldownTypeOK, Unanswered
<1>5. ASSUME NEW c \in Callers, NEW s \in Statuses, NEW h \in RetryAfters \union {None},
             Answer(c, s, h)
      PROVE  CooldownIInv'
  BY <1>5, CooldownAnswerIInv
<1>6. CASE UNCHANGED cooldownVars
  BY <1>6 DEF CooldownIInv, CooldownTypeOK, cooldownVars
<1> QED
  BY <1>1, <1>2, <1>3, <1>4, <1>5, <1>6 DEF CooldownNext

THEOREM CooldownInvariance == CooldownSpec => []CooldownIInv
  BY CooldownInitIInv, CooldownStepIInv, PTL DEF CooldownSpec

\* The state of the coordinator keeps its type, and a block always has a status.
THEOREM CooldownTyped == CooldownSpec => []CooldownTypeOK
<1>1. CooldownIInv => CooldownTypeOK
  BY DEF CooldownIInv
<1> QED
  BY CooldownInvariance, <1>1, PTL

\* The coordinator never pauses for longer than it was told to.
THEOREM BlockEndsWithThePause == CooldownSpec => []BlockIsOwed
<1>1. CooldownIInv => BlockIsOwed
  BY DEF CooldownIInv, BlockIsOwed, Blocked
<1> QED
  BY CooldownInvariance, <1>1, PTL

\* No request leaves before the end of every pause the provider has asked for.
THEOREM BansAreRespected == CooldownSpec => BanRespected
<1>1. CooldownIInv /\ [CooldownNext]_cooldownVars => [\A c \in Callers : Acquire(c) => now >= owed]_cooldownVars
  BY DEF CooldownIInv, CooldownTypeOK, Acquire, Blocked
<1> QED
  BY CooldownInvariance, <1>1, PTL DEF CooldownSpec, BanRespected

-----------------------------------------------------------------------------
(***************************************************************************)
(* Proofs about Freshness, for any subscriptions, thresholds and intervals *)
(* and any order of frames and evaluations: every alert of an episode is   *)
(* due, and whatever is stale when the monitor is asked has been reported. *)
(***************************************************************************)

FreshnessTypeOK ==
    /\ now \in Nat
    /\ DOMAIN tracked \subseteq Subscriptions
    /\ tracked \in [DOMAIN tracked -> State]
    /\ alerts \in [Subscriptions -> Seq(Nat)]

\* What the monitor keeps of an episode is what has been said in it.
Follows(state, said) ==
    /\ said = <<>> <=> state.episode = Never
    /\ said = <<>> <=> state.emitted = Never
    /\ said = <<>> => state.reminders = 0
    /\ said # <<>> =>
         /\ said[1] = state.episode
         /\ said[Len(said)] = state.emitted
         /\ state.reminders = Len(said) - 1

\* Alerts are in the past, and a reminder apart.
Apart(said) ==
    /\ \A i \in DOMAIN said : said[i] <= now
    /\ \A i, j \in DOMAIN said : i < j => said[j] - said[i] >= Reminder

EpisodeInv ==
    /\ \A s \in Subscriptions : s \notin DOMAIN tracked => alerts[s] = <<>>
    /\ \A s \in DOMAIN tracked : Follows(tracked[s], alerts[s])
    /\ \A s \in Subscriptions : Apart(alerts[s])

FreshnessInv == FreshnessTypeOK /\ EpisodeInv

-----------------------------------------------------------------------------
LEMMA FreshnessInitInv == FreshnessInit => FreshnessInv
<1> SUFFICES ASSUME FreshnessInit PROVE FreshnessInv
  OBVIOUS
<1>1. now = 0 /\ DOMAIN tracked = {} /\ tracked = [s \in {} |-> NewState]
  BY DEF FreshnessInit
<1>2. \A s \in Subscriptions : alerts[s] = <<>>
  BY DEF FreshnessInit
<1>3. FreshnessTypeOK
  BY <1>1 DEF FreshnessInit, FreshnessTypeOK
<1>4. EpisodeInv
  BY <1>1, <1>2 DEF EpisodeInv, Apart
<1> QED
  BY <1>3, <1>4 DEF FreshnessInv

\* The state of a subscription that begins to be tracked.
LEMMA NewStateFollows ==
    ASSUME FreshnessTypeOK
    PROVE  NewState \in State /\ Follows(NewState, <<>>)
BY DEF FreshnessTypeOK, NewState, State, Times, Follows

\* A valid frame ends the episode.
LEMMA HeardFollows ==
    ASSUME NEW state \in State, NEW received \in Nat
    PROVE  Heard(state, received) \in State /\ Follows(Heard(state, received), <<>>)
BY DEF Heard, State, Times, Follows

LEMMA TrackKeeps ==
    ASSUME FreshnessInv, NEW s \in Subscriptions, NEW state \in State, Follows(state, <<>>),
           tracked' = Track(s, state), alerts' = [alerts EXCEPT ![s] = <<>>], now' = now
    PROVE  FreshnessInv'
<1>1. DOMAIN tracked' = DOMAIN tracked \union {s}
  BY DEF Track
<1>2. \A t \in DOMAIN tracked' : tracked'[t] = IF t = s THEN state ELSE tracked[t]
  BY DEF Track
<1>3. \A t \in Subscriptions : alerts'[t] = IF t = s THEN <<>> ELSE alerts[t]
  BY DEF FreshnessInv, FreshnessTypeOK
<1>4. alerts' \in [Subscriptions -> Seq(Nat)]
  BY DEF FreshnessInv, FreshnessTypeOK
<1>5. tracked' \in [DOMAIN tracked' -> State]
  BY <1>1, <1>2 DEF FreshnessInv, FreshnessTypeOK, Track
<1>6. FreshnessTypeOK'
  BY <1>1, <1>4, <1>5 DEF FreshnessInv, FreshnessTypeOK
<1>7. \A t \in Subscriptions : t \notin DOMAIN tracked' => alerts'[t] = <<>>
  BY <1>1, <1>3 DEF FreshnessInv, EpisodeInv
<1>8. ASSUME NEW t \in DOMAIN tracked' PROVE Follows(tracked'[t], alerts'[t])
  <2>1. CASE t = s
    BY <1>2, <1>3, <2>1
  <2>2. CASE t # s
    BY <1>1, <1>2, <1>3, <2>2 DEF FreshnessInv, FreshnessTypeOK, EpisodeInv
  <2> QED
    BY <2>1, <2>2
<1>9. ASSUME NEW t \in Subscriptions PROVE Apart(alerts[t])' 
  BY <1>3, <1>9 DEF FreshnessInv, EpisodeInv, Apart
<1>10. EpisodeInv'
  BY <1>7, <1>8, <1>9 DEF EpisodeInv, Follows, Apart
<1> QED
  BY <1>6, <1>10 DEF FreshnessInv

-----------------------------------------------------------------------------
\* An alert that is due continues what has been said.
LEMMA EmittedFollows ==
    ASSUME now \in Nat, NEW state \in State, NEW said \in Seq(Nat), Follows(state, said)
    PROVE  Emitted(state) \in State /\ Follows(Emitted(state), Append(said, now))
<1> DEFINE longer == Append(said, now)
<1>1. Never \notin Int
  BY FreshnessAssumption
<1>2. /\ longer \in Seq(Nat) /\ Len(longer) = Len(said) + 1 /\ longer # <<>>
      /\ longer[Len(longer)] = now /\ Len(said) \in Nat
      /\ said # <<>> => longer[1] = said[1]
      /\ said = <<>> => longer[1] = now /\ Len(longer) = 1
  OBVIOUS
<1> HIDE DEF longer
<1>3. CASE said = <<>>
  <2>1. state.emitted = Never /\ state.reminders = 0
    BY <1>3 DEF Follows
  <2>2. Emitted(state) = [state EXCEPT !.episode = now, !.emitted = now]
    BY <2>1 DEF Emitted, State
  <2>3. Emitted(state) \in State
    BY <2>2 DEF State, Times
  <2>4. /\ Emitted(state).episode = now /\ Emitted(state).emitted = now
        /\ Emitted(state).reminders = 0
    BY <2>1, <2>2 DEF State
  <2> QED
    BY <1>1, <1>2, <1>3, <2>3, <2>4 DEF Follows
<1>4. CASE said # <<>>
  <2>1. state.emitted # Never /\ state.episode # Never
    BY <1>4 DEF Follows
  <2>2. state.reminders = Len(said) - 1 /\ state.episode = said[1]
    BY <1>4 DEF Follows
  <2>3. Emitted(state) = [state EXCEPT !.reminders = state.reminders + 1, !.emitted = now]
    BY <2>1 DEF Emitted, State
  <2>4. Emitted(state) \in State
    <3>1. state.reminders + 1 \in Nat /\ now \in Times
      BY DEF State, Times
    <3> QED
      BY <2>3, <3>1 DEF State
  <2>5. /\ Emitted(state).episode = state.episode /\ Emitted(state).emitted = now
        /\ Emitted(state).reminders = state.reminders + 1
    BY <2>3 DEF State
  <2>6. longer[1] = said[1] /\ longer # <<>> /\ longer[Len(longer)] = now
    BY <1>2, <1>4
  <2>7. state.reminders + 1 = Len(longer) - 1
    BY <1>2, <2>2
  <2>8. now # Never
    BY <1>1
  <2> QED
    BY <2>1, <2>2, <2>4, <2>5, <2>6, <2>7, <2>8 DEF Follows
<1> QED
  BY <1>3, <1>4

\* It is a reminder away from those before it.
LEMMA EmittedApart ==
    ASSUME now \in Nat, NEW state \in State, NEW said \in Seq(Nat),
           Follows(state, said), Apart(said),
           state.emitted = Never \/ now - state.emitted >= Reminder
    PROVE  Apart(Append(said, now))
<1> DEFINE n == Len(said)
           longer == Append(said, now)
<1>1. /\ n \in Nat /\ DOMAIN said = 1..n /\ DOMAIN longer = 1..(n + 1)
      /\ longer[n + 1] = now
      /\ \A i \in 1..n : longer[i] = said[i] /\ said[i] \in Nat
      /\ said = <<>> <=> n = 0
  OBVIOUS
<1>2. Reminder \in Nat /\ Never \notin Int
  BY FreshnessAssumption
<1>3. n # 0 => said[n] = state.emitted /\ state.emitted # Never
  BY <1>1 DEF Follows
<1> HIDE DEF n, longer
<1>4. ASSUME NEW i \in 1..n PROVE now - said[i] >= Reminder
  <2>1. said[n] \in Nat /\ said[i] \in Nat /\ n \in 1..n /\ i <= n
    BY <1>1, <1>4
  <2>2. now - said[n] >= Reminder
    BY <1>3, <2>1
  <2>3. CASE i = n
    BY <2>2, <2>3
  <2>4. CASE i # n
    <3>1. i \in DOMAIN said /\ n \in DOMAIN said /\ i < n
      BY <1>1, <2>1, <2>4
    <3>2. said[n] - said[i] >= Reminder
      BY <3>1 DEF Apart
    <3> QED
      BY <1>2, <2>1, <2>2, <3>2
  <2> QED
    BY <2>3, <2>4
<1>5. ASSUME NEW i \in 1..(n + 1) PROVE longer[i] <= now
  <2>1. CASE i = n + 1
    BY <1>1, <2>1
  <2>2. CASE i # n + 1
    BY <1>1, <1>5, <2>2 DEF Apart
  <2> QED
    BY <2>1, <2>2
<1>6. ASSUME NEW i \in 1..(n + 1), NEW j \in 1..(n + 1), i < j
      PROVE  longer[j] - longer[i] >= Reminder
  <2>1. i \in 1..n
    BY <1>1, <1>6
  <2>2. CASE j = n + 1
    BY <1>1, <1>4, <2>1, <2>2
  <2>3. CASE j # n + 1
    <3>1. j \in 1..n
      BY <1>1, <2>3
    <3> QED
      BY <1>1, <1>6, <2>1, <3>1 DEF Apart
  <2> QED
    BY <2>2, <2>3
<1> QED
  BY <1>1, <1>5, <1>6 DEF Apart, longer

Overdue(streaming) == {s \in DOMAIN tracked : Stale(s, streaming) /\ Due(s)}

\* An evaluation keeps the books on what it says.
LEMMA EvaluateKeeps ==
    ASSUME FreshnessInv, NEW streaming \in BOOLEAN, Evaluate(streaming)
    PROVE  FreshnessInv'
<1> DEFINE reported == Overdue(streaming)
<1>1. /\ DOMAIN tracked' = DOMAIN tracked /\ now' = now
      /\ \A s \in DOMAIN tracked :
            tracked'[s] = IF s \in reported THEN Emitted(tracked[s]) ELSE tracked[s]
      /\ \A s \in Subscriptions :
            alerts'[s] = IF s \in reported THEN Append(alerts[s], now) ELSE alerts[s]
  BY DEF Evaluate, Overdue
<1>2. /\ now \in Nat /\ DOMAIN tracked \subseteq Subscriptions
      /\ \A s \in DOMAIN tracked : tracked[s] \in State
      /\ \A s \in Subscriptions : alerts[s] \in Seq(Nat)
  BY DEF FreshnessInv, FreshnessTypeOK
<1>3. \A s \in reported :
         s \in DOMAIN tracked /\ (tracked[s].emitted = Never \/ now - tracked[s].emitted >= Reminder)
  BY DEF Overdue, Due
<1> HIDE DEF reported
<1>4. ASSUME NEW s \in DOMAIN tracked
      PROVE  tracked'[s] \in State /\ Follows(tracked'[s], alerts'[s])
  <2>1. Follows(tracked[s], alerts[s])
    BY DEF FreshnessInv, EpisodeInv
  <2>2. CASE s \in reported
    BY <1>1, <1>2, <1>4, <2>1, <2>2, EmittedFollows
  <2>3. CASE s \notin reported
    BY <1>1, <1>2, <1>4, <2>1, <2>3
  <2> QED
    BY <2>2, <2>3
<1>5. ASSUME NEW s \in Subscriptions
      PROVE  /\ alerts'[s] \in Seq(Nat) /\ Apart(alerts'[s])
             /\ s \notin DOMAIN tracked' => alerts'[s] = <<>>
  <2>1. Apart(alerts[s]) /\ (s \notin DOMAIN tracked => alerts[s] = <<>>)
    BY DEF FreshnessInv, EpisodeInv
  <2>2. CASE s \in reported
    <3>1. s \in DOMAIN tracked /\ Follows(tracked[s], alerts[s])
      BY <1>3, <2>2 DEF FreshnessInv, EpisodeInv
    <3>2. Apart(Append(alerts[s], now))
      BY <1>2, <1>3, <2>1, <2>2, <3>1, EmittedApart
    <3>3. alerts'[s] = Append(alerts[s], now)
      BY <1>1, <2>2
    <3> QED
      BY <1>1, <1>2, <3>1, <3>2, <3>3
  <2>3. CASE s \notin reported
    BY <1>1, <1>2, <2>1, <2>3
  <2> QED
    BY <2>2, <2>3
<1>6. FreshnessTypeOK'
  <2>1. tracked' \in [DOMAIN tracked' -> State]
    BY <1>1, <1>4 DEF Evaluate
  <2>2. alerts' \in [Subscriptions -> Seq(Nat)]
    BY <1>5 DEF Evaluate
  <2> QED
    BY <1>1, <1>2, <2>1, <2>2 DEF FreshnessTypeOK
<1>7. EpisodeInv'
  BY <1>1, <1>4, <1>5 DEF EpisodeInv, Follows, Apart
<1> QED
  BY <1>6, <1>7 DEF FreshnessInv

-----------------------------------------------------------------------------
LEMMA FreshnessStepKeeps ==
    ASSUME FreshnessInv, [FreshnessNext]_freshnessVars
    PROVE  FreshnessInv'
<1>1. ASSUME NEW s \in Subscriptions, Register(s) PROVE FreshnessInv'
  <2>1. /\ s \notin DOMAIN tracked /\ tracked' = Track(s, NewState) /\ UNCHANGED <<now, alerts>>
    BY <1>1 DEF Register
  <2>2. alerts' = [alerts EXCEPT ![s] = <<>>]
    BY <2>1 DEF FreshnessInv, FreshnessTypeOK, EpisodeInv
  <2> QED
    BY <2>1, <2>2, NewStateFollows, TrackKeeps DEF FreshnessInv
<1>2. ASSUME NEW s \in Subscriptions, Unregister(s) PROVE FreshnessInv'
  <2>1. /\ DOMAIN tracked' = DOMAIN tracked \ {s} /\ now' = now
        /\ \A t \in DOMAIN tracked' : tracked'[t] = tracked[t]
        /\ alerts' = [alerts EXCEPT ![s] = <<>>]
    BY <1>2 DEF Unregister
  <2>2. \A t \in Subscriptions : alerts'[t] = IF t = s THEN <<>> ELSE alerts[t]
    BY <2>1 DEF FreshnessInv, FreshnessTypeOK
  <2>3. FreshnessTypeOK'
    BY <1>2, <2>1 DEF Unregister, FreshnessInv, FreshnessTypeOK
  <2>4. ASSUME NEW t \in DOMAIN tracked' PROVE Follows(tracked'[t], alerts'[t])
    BY <2>1, <2>2 DEF FreshnessInv, FreshnessTypeOK, EpisodeInv
  <2>5. EpisodeInv'
    BY <2>1, <2>2, <2>4 DEF FreshnessInv, EpisodeInv, Follows, Apart
  <2> QED
    BY <2>3, <2>5 DEF FreshnessInv
<1>3. ASSUME NEW s \in Subscriptions, RecordValid(s) PROVE FreshnessInv'
  <2> DEFINE state == IF s \in DOMAIN tracked THEN tracked[s] ELSE NewState
  <2>1. state \in State
    BY NewStateFollows DEF FreshnessInv, FreshnessTypeOK
  <2>2. PICK received \in 0..now : tracked' = Track(s, Heard(state, received))
    BY <1>3 DEF RecordValid
  <2>3. alerts' = [alerts EXCEPT ![s] = <<>>] /\ now' = now
    BY <1>3 DEF RecordValid
  <2>4. received \in Nat
    BY <2>2 DEF FreshnessInv, FreshnessTypeOK
  <2> HIDE DEF state
  <2> QED
    BY <2>1, <2>2, <2>3, <2>4, HeardFollows, TrackKeeps
<1>4. ASSUME NEW streaming \in BOOLEAN, Evaluate(streaming) PROVE FreshnessInv'
  BY <1>4, EvaluateKeeps
<1>5. CASE Tick /\ UNCHANGED <<tracked, alerts>>
  <2>1. now' = now + 1 /\ now \in Nat /\ UNCHANGED <<tracked, alerts>>
    BY <1>5 DEF Tick, FreshnessInv, FreshnessTypeOK
  <2>2. FreshnessTypeOK'
    BY <2>1 DEF FreshnessInv, FreshnessTypeOK
  <2>3. ASSUME NEW s \in Subscriptions, NEW i \in DOMAIN alerts[s] PROVE alerts[s][i] <= now'
    <3>1. alerts[s][i] <= now /\ alerts[s][i] \in Nat
      BY DEF FreshnessInv, FreshnessTypeOK, EpisodeInv, Apart
    <3> QED
      BY <2>1, <3>1
  <2>4. EpisodeInv'
    BY <2>1, <2>3 DEF FreshnessInv, EpisodeInv, Follows, Apart
  <2> QED
    BY <2>2, <2>4 DEF FreshnessInv
<1>6. CASE UNCHANGED freshnessVars
  BY <1>6 DEF freshnessVars, FreshnessInv, FreshnessTypeOK, EpisodeInv, Follows, Apart
<1> QED
  BY <1>1, <1>2, <1>3, <1>4, <1>5, <1>6 DEF FreshnessNext, FreshnessStep

\* The invariant is that of the property.
LEMMA InvGivesAlerts == FreshnessInv => EpisodeAlerts
<1> SUFFICES ASSUME FreshnessInv, NEW s \in DOMAIN tracked
             PROVE  /\ alerts[s] = <<>> <=> tracked[s].episode = Never
                    /\ alerts[s] # <<>> =>
                         /\ Head(alerts[s]) = tracked[s].episode
                         /\ tracked[s].reminders = Len(alerts[s]) - 1
                    /\ \A i, j \in DOMAIN alerts[s] :
                          i < j => alerts[s][j] - alerts[s][i] >= Reminder
  BY DEF EpisodeAlerts
<1>1. s \in Subscriptions /\ alerts[s] \in Seq(Nat) /\ Follows(tracked[s], alerts[s]) /\ Apart(alerts[s])
  BY DEF FreshnessInv, FreshnessTypeOK, EpisodeInv
<1>2. alerts[s] # <<>> => Head(alerts[s]) = alerts[s][1]
  BY <1>1
<1> QED
  BY <1>1, <1>2 DEF Follows, Apart

\* Whoever is stale was reported by this evaluation, or so recently that no
\* reminder is due.
LEMMA StaleIsReported ==
    ASSUME FreshnessInv, NEW streaming \in BOOLEAN, Evaluate(streaming),
           NEW s \in DOMAIN tracked, Stale(s, streaming)
    PROVE  alerts'[s] # <<>> /\ now - alerts'[s][Len(alerts'[s])] < Reminder
<1>1. s \in Subscriptions /\ alerts[s] \in Seq(Nat) /\ Follows(tracked[s], alerts[s]) /\ now \in Nat
  BY DEF FreshnessInv, FreshnessTypeOK, EpisodeInv
<1>2. alerts'[s] = IF Stale(s, streaming) /\ Due(s) THEN Append(alerts[s], now) ELSE alerts[s]
  BY <1>1 DEF Evaluate
<1>3. CASE Due(s)
  <2>1. alerts'[s] = Append(alerts[s], now)
    BY <1>2, <1>3
  <2> DEFINE said == alerts[s]
  <2>2. Append(said, now) # <<>> /\ Append(said, now)[Len(Append(said, now))] = now
    <3>1. said \in Seq(Nat) /\ now \in Nat
      BY <1>1
    <3> HIDE DEF said
    <3> QED
      BY <3>1
  <2>3. now - now < Reminder
    BY <1>1, FreshnessAssumption
  <2> QED
    BY <2>1, <2>2, <2>3
<1>4. CASE ~Due(s)
  <2>1. alerts'[s] = alerts[s] /\ tracked[s].emitted # Never /\ ~(now - tracked[s].emitted >= Reminder)
    BY <1>2, <1>4 DEF Due
  <2>2. alerts[s] # <<>> /\ alerts[s][Len(alerts[s])] = tracked[s].emitted
    BY <1>1, <2>1 DEF Follows
  <2>3. alerts[s][Len(alerts[s])] \in Nat
    BY <1>1, <2>2
  <2> QED
    BY <1>1, <2>1, <2>2, <2>3, FreshnessAssumption
<1> QED
  BY <1>3, <1>4

-----------------------------------------------------------------------------
\* The monitor's states and the alerts of each episode belong together.
THEOREM FreshnessTyped == FreshnessSpec => []FreshnessTypeOK
<1>1. FreshnessInv => FreshnessTypeOK
  BY DEF FreshnessInv
<1> QED
  BY <1>1, FreshnessInitInv, FreshnessStepKeeps, PTL DEF FreshnessSpec

\* Alerts begin with the episode, are a reminder apart and counted, and whatever
\* is stale when the monitor is asked has been reported within the interval.
THEOREM FreshnessStaleIsHeard == FreshnessSpec => StaleIsHeard
<1>1. ASSUME FreshnessInv, [FreshnessNext]_freshnessVars
      PROVE  [\A streaming \in BOOLEAN : Evaluate(streaming) =>
                \A s \in DOMAIN tracked : Stale(s, streaming) =>
                   alerts'[s] # <<>> /\ now - alerts'[s][Len(alerts'[s])] < Reminder]_freshnessVars
  BY <1>1, StaleIsReported
<1> QED
  BY <1>1, FreshnessInitInv, FreshnessStepKeeps, InvGivesAlerts, PTL DEF FreshnessSpec, StaleIsHeard
=============================================================================
