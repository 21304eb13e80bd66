------------------------------ MODULE Trading -------------------------------
(***************************************************************************)
(* The application services over one event bus.  Orders and positions      *)
(* share nothing but the bus, and the bus does not depend on who publishes *)
(* on it: a behaviour is of one of the three, chosen once.                 *)
(***************************************************************************)
EXTENDS OrderDesk, PositionDesk

\* A call is of one service.
ASSUME TradingAssumption ==
    /\ (ServiceOrders \union ExecutorOrders \union Cancels)
          \intersect (Opens \union Closes \union Reprices) = {}
    /\ Publishers \intersect (ServiceOrders \union ExecutorOrders \union Cancels
                              \union Opens \union Closes \union Reprices) = {}

VARIABLE scene

vars == <<scene, at, bus, desk, positions>>

Init ==
    /\ scene \in {"orders", "positions", "bus"}
    /\ at = [c \in Calls |-> "idle"]
    /\ BusInit
    /\ DeskInit
    /\ PositionsInit
    /\ scene # "positions" => serial

Next ==
    /\ UNCHANGED scene
    /\ \/ scene = "orders" /\ DeskStep /\ UNCHANGED positions
       \/ scene = "positions" /\ PositionsStep /\ UNCHANGED desk
       \/ /\ scene = "bus"
          /\ Subscription \/ \E c \in Publishers : Announce(c)
          /\ UNCHANGED <<desk, positions>>
       \/ Delivery /\ UNCHANGED <<desk, positions>>

Spec == Init /\ [][Next]_vars
=============================================================================
