--------------------------- MODULE PairPublication ---------------------------
(***************************************************************************)
(* What the publication of one artifact promises those who read the output *)
(* directory: the failure sidecar appears first, next to nothing, and the  *)
(* research file of the same origin second.  Neither is ever replaced, nor *)
(* taken away but by a power failure, which may leave either without the   *)
(* other; nobody then adds a sidecar to a research file that has lost its  *)
(* own.                                                                    *)
(***************************************************************************)
CONSTANTS Origins, Nobody

VARIABLES
    sidecar, research,              \* who published each entry
    lostSidecars, lostResearch      \* whose entries power failures took away

vars == <<sidecar, research, lostSidecars, lostResearch>>

Init ==
    /\ sidecar = Nobody /\ research = Nobody
    /\ lostSidecars = {} /\ lostResearch = {}

PublishSidecar(o) ==
    /\ sidecar = Nobody /\ research = Nobody
    /\ sidecar' = o
    /\ UNCHANGED <<research, lostSidecars, lostResearch>>

PublishResearch(o) ==
    /\ sidecar = o /\ research = Nobody
    /\ research' = o
    /\ UNCHANGED <<sidecar, lostSidecars, lostResearch>>

LoseSidecar ==
    /\ sidecar # Nobody /\ sidecar' = Nobody
    /\ lostSidecars' = lostSidecars \union {sidecar}
LoseResearch ==
    /\ research # Nobody /\ research' = Nobody
    /\ lostResearch' = lostResearch \union {research}

PowerFailure ==
    /\ LoseSidecar \/ UNCHANGED <<sidecar, lostSidecars>>
    /\ LoseResearch \/ UNCHANGED <<research, lostResearch>>

Next == PowerFailure \/ \E o \in Origins : PublishSidecar(o) \/ PublishResearch(o)

Ordered == Init /\ [][Next]_vars
==============================================================================
