---------------------------- MODULE OrderedIngress ----------------------------
(***************************************************************************)
(* What recovery promises the consumers of the live feed, whatever happens *)
(* in between: each received frame is delivered once and in the order of   *)
(* its receipt, or its loss is counted.  Frames are numbered by receipt.   *)
(***************************************************************************)
EXTENDS Naturals, Sequences

VARIABLES
    received,   \* number of frames received
    waiting,    \* frames held back, in order of receipt
    delivered,  \* frames handed on, in the order they were
    lost        \* number of frames given up

ingress == <<received, waiting, delivered, lost>>

Init == received = 0 /\ waiting = <<>> /\ delivered = <<>> /\ lost = 0

Hold ==
    /\ received' = received + 1
    /\ waiting' = Append(waiting, received + 1)
    /\ UNCHANGED <<delivered, lost>>

Lose ==
    /\ received' = received + 1 /\ lost' = lost + 1
    /\ UNCHANGED <<waiting, delivered>>

\* A frame that need not wait: nothing received before it is still waiting.
PassOn ==
    /\ waiting = <<>>
    /\ received' = received + 1
    /\ delivered' = Append(delivered, received + 1)
    /\ UNCHANGED <<waiting, lost>>

Release ==
    /\ waiting # <<>>
    /\ delivered' = delivered \o waiting
    /\ waiting' = <<>>
    /\ UNCHANGED <<received, lost>>

Next == Hold \/ Lose \/ PassOn \/ Release

Ordered == Init /\ [][Next]_ingress
===============================================================================
