-------------------------------- MODULE Clock --------------------------------
(* The clock the rate limits read.  It does not go back, and any number of    *)
(* calls may read the same value.                                             *)
EXTENDS Integers

CONSTANT MaxTime    \* bound: the last time looked at

ASSUME ClockAssumption == MaxTime \in Nat

VARIABLE now

Tick ==
    /\ now < MaxTime
    /\ now' = now + 1
==============================================================================
