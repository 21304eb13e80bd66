----------------------------- MODULE AtLeastOnce -----------------------------
(***************************************************************************)
(* What the layer promises the consumers of closed candles: an event is    *)
(* committed at most once per slot, reaches consumers only after that, for *)
(* the first time in the order of the commits, and some time surely; it    *)
(* may reach them again.                                                   *)
(***************************************************************************)
EXTENDS Naturals, Sequences, Functions

CONSTANT Events     \* candles, each with the slot it is for

VARIABLES
    committed,  \* durable events in commit order
    delivered   \* what consumers have got, in the order they got it

log == <<committed, delivered>>

Init == committed = <<>> /\ delivered = <<>>

Commit(e) ==
    /\ \A i \in DOMAIN committed : committed[i].slot # e.slot
    /\ committed' = Append(committed, e)
    /\ UNCHANGED delivered

Delivered(i) == committed[i] \in Range(delivered)

Deliver(i) ==
    /\ \A j \in 1..(i - 1) : Delivered(j)
    /\ delivered' = Append(delivered, committed[i])
    /\ UNCHANGED committed

DeliverNew == \E i \in DOMAIN committed : ~Delivered(i) /\ Deliver(i)

Next ==
    \/ \E e \in Events : Commit(e)
    \/ \E i \in DOMAIN committed : Deliver(i)

Safe == Init /\ [][Next]_log

AtLeastOnceInOrder == Safe /\ WF_log(DeliverNew)
=============================================================================
