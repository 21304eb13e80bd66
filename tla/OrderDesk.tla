----------------------------- MODULE OrderDesk ------------------------------
(***************************************************************************)
(* Orders between the order service, the order executor, an exchange and   *)
(* the orders table.  Each call waits for the exchange and for its         *)
(* transaction, and others run while it waits; a call can be given up at   *)
(* any of its waits.  A transaction reads committed rows and writes whole  *)
(* rows when it commits, which may fail: the unit of work promises no      *)
(* isolation.                                                              *)
(***************************************************************************)
EXTENDS EventBus, Integers

CONSTANTS
    ServiceOrders,      \* orders placed with OrderService.place_order()
    ExecutorOrders,     \* pending rows handed to OrderExecutor.execute()
    Cancels             \* calls of OrderService.cancel_order()

ASSUME OrdersAssumption ==
    /\ ServiceOrders \union ExecutorOrders \union Cancels \subseteq Calls
    /\ ServiceOrders \intersect ExecutorOrders = {}
    /\ (ServiceOrders \union ExecutorOrders) \intersect Cancels = {}
    /\ \A o \in ServiceOrders \union ExecutorOrders : o \notin Nat
    /\ {"OrderSubmitted", "OrderCancelled"} \subseteq EventTypes

VARIABLES
    row,        \* the orders table
    book,       \* the exchange: the status it keeps under an identifier
    requested,  \* orders the exchange was asked for: its identifiers are 1, 2, ...
    name,       \* the exchange's identifier of an order
    copy        \* the row a cancellation has read, and its order

desk == <<row, book, requested, name, copy>>

Orders == ServiceOrders \union ExecutorOrders
Statuses == {"PENDING", "SUBMITTED", "FILLED", "CANCELLED"}
Terminal == {"FILLED", "CANCELLED"}
Unnamed == 0
Row(status, exchange_order_id) == [status |-> status, exchange |-> exchange_order_id]
\* Identifiers are numbers given by the exchange, or the orders' own.
Identifiers == 1..Cardinality(Orders) \union Orders
Put(table, key, value) ==
    [k \in DOMAIN table \union {key} |-> IF k = key THEN value ELSE table[k]]

DeskInit ==
    /\ row = [o \in ExecutorOrders |-> Row("PENDING", Unnamed)]
    /\ book = [id \in {} |-> "SUBMITTED"]
    /\ requested = 0
    /\ name = [o \in Orders |-> Unnamed]
    /\ copy = [c \in Cancels |-> [order |-> CHOOSE o \in Orders : TRUE,
                                  row |-> Row("PENDING", Unnamed)]]

Become(c, stage) == at' = [at EXCEPT ![c] = stage]

-----------------------------------------------------------------------------
(* The risk manager *)

\* Its metrics are constants, whatever has been ordered before.
Metrics == [equity |-> 100, position |-> 0, drawdown |-> 0, daily_pnl |-> 0, max_daily_loss |-> 5]
Intents == [quantity : {1, 20}, price : {0, 1}]     \* a market order has price 0
Notional(intent) == intent.quantity * intent.price
MaxPositionSize(intent) == Notional(intent) * 100 <= 10 * Metrics.equity
MaxDrawdown == Metrics.drawdown <= 20
MaxDailyLoss ==
    \/ Metrics.daily_pnl + Metrics.max_daily_loss >= 0
    \/ -Metrics.daily_pnl * 100 <= 5 * Metrics.equity
MaxExposure(intent) == (Metrics.position + Notional(intent)) * 100 <= 100 * Metrics.equity
Approved(intent) ==
    MaxPositionSize(intent) /\ MaxDrawdown /\ MaxDailyLoss /\ MaxExposure(intent)

-----------------------------------------------------------------------------
(* Placing an order *)

\* The exchange counts its orders as the request arrives.
Ask(o) ==
    /\ requested' = requested + 1
    /\ name' = [name EXCEPT ![o] = requested + 1]
    /\ Become(o, "asking")
    /\ UNCHANGED <<row, book, copy, bus>>

PlaceOrder(o) ==
    /\ o \in ServiceOrders /\ at[o] = "idle"
    /\ \E intent \in Intents :
         IF Approved(intent)
         THEN Ask(o)
         ELSE Become(o, "refused") /\ UNCHANGED <<desk, bus>>

\* The executor is given a pending order.
Execute(o) ==
    /\ o \in ExecutorOrders /\ at[o] = "idle"
    /\ row[o].status = "PENDING"
    /\ Ask(o)

ExchangeAccepts(o) ==
    /\ at[o] = "asking"
    /\ \E status \in {"SUBMITTED", "FILLED"} : book' = Put(book, name[o], status)
    /\ Become(o, "accepted")
    /\ UNCHANGED <<row, requested, name, copy, bus>>

ExchangeRefuses(o) ==
    /\ at[o] = "asking"
    /\ Become(o, "refused")
    /\ UNCHANGED <<desk, bus>>

\* Mutant of RecordOrder: the exchange's identifier is not stored.
RecordUnnamed(o) ==
    /\ at[o] = "accepted"
    /\ row' = Put(row, o, Row("SUBMITTED", Unnamed))
    /\ Become(o, IF o \in ServiceOrders THEN "committed" ELSE "done")
    /\ UNCHANGED <<book, requested, name, copy, bus>>

\* create() or update() and the commit: the whole row, SUBMITTED whatever the
\* exchange answered and whatever the row says by now.
RecordOrder(o) ==
    /\ at[o] = "accepted"
    /\ row' = Put(row, o, Row("SUBMITTED", name[o]))
    /\ Become(o, IF o \in ServiceOrders THEN "committed" ELSE "done")
    /\ UNCHANGED <<book, requested, name, copy, bus>>

\* Mutant of AnnounceOrder: the event precedes the transaction.
AnnounceAccepted(o) ==
    /\ o \in ServiceOrders /\ at[o] = "accepted"
    /\ Publish(o, "OrderSubmitted")
    /\ Become(o, "publishing")
    /\ UNCHANGED desk

AnnounceOrder(o) ==
    /\ o \in ServiceOrders /\ at[o] = "committed"
    /\ Publish(o, "OrderSubmitted")
    /\ Become(o, "publishing")
    /\ UNCHANGED desk

-----------------------------------------------------------------------------
(* Cancelling an order *)

ReadForCancel(c) ==
    /\ at[c] = "idle"
    /\ \E o \in DOMAIN row :
         IF row[o].status \in Terminal
         THEN Become(c, "refused") /\ UNCHANGED copy
         ELSE /\ copy' = [copy EXCEPT ![c] = [order |-> o, row |-> row[o]]]
              /\ Become(c, "asking cancel")
    /\ UNCHANGED <<row, book, requested, name, bus>>

\* The exchange is given the order's own identifier.
CancelAtExchange(c) ==
    /\ at[c] = "asking cancel"
    /\ book' = Put(book, copy[c].order, "CANCELLED")
    /\ Become(c, "cancelled there")
    /\ UNCHANGED <<row, requested, name, copy, bus>>

CancelRefused(c) ==
    /\ at[c] = "asking cancel"
    /\ Become(c, "refused")
    /\ UNCHANGED <<desk, bus>>

RecordCancel(c) ==
    /\ at[c] = "cancelled there"
    /\ row' = Put(row, copy[c].order, Row("CANCELLED", copy[c].row.exchange))
    /\ Become(c, "committed")
    /\ UNCHANGED <<book, requested, name, copy, bus>>

AnnounceCancel(c) ==
    /\ at[c] = "committed"
    /\ Publish(c, "OrderCancelled")
    /\ Become(c, "publishing")
    /\ UNCHANGED desk

\* OrderExecutor.cancel() with the identifier it is given; it leaves the row.
ExecutorCancels(o) ==
    /\ \E id \in {o, name[o]} \ {Unnamed} : book' = Put(book, id, "CANCELLED")
    /\ UNCHANGED <<at, row, requested, name, copy, bus>>

-----------------------------------------------------------------------------
\* A failed commit, a caller that goes away, the end of the process.
Waits == {"asking", "accepted", "committed", "publishing", "asking cancel", "cancelled there"}
GiveUp(c) ==
    /\ c \in Orders \union Cancels
    /\ at[c] \in Waits
    /\ Become(c, "lost")
    /\ calling' = [calling EXCEPT ![c] = None]
    /\ UNCHANGED <<desk, registered, subscribed, heard, audience, changes>>

DeskStep ==
    \/ \E o \in Orders :
         \/ PlaceOrder(o) \/ Execute(o) \/ ExchangeAccepts(o) \/ ExchangeRefuses(o)
         \/ RecordOrder(o) \/ AnnounceOrder(o) \/ ExecutorCancels(o)
    \/ \E c \in Cancels :
         \/ ReadForCancel(c) \/ CancelAtExchange(c) \/ CancelRefused(c)
         \/ RecordCancel(c) \/ AnnounceCancel(c)
    \/ \E c \in Orders \union Cancels : GiveUp(c)

-----------------------------------------------------------------------------
(* An order that the exchange has accepted and not cancelled is on its way *)
(* to its row, or named in it; the table does not know it only if the call *)
(* that placed it was lost after the exchange had answered, or if a        *)
(* cancellation overwrote the row of an executor's order with the copy it  *)
(* had read before.                                                        *)
AcceptedIsRecorded ==
    \A o \in Orders : name[o] \in DOMAIN book /\ book[name[o]] # "CANCELLED" =>
        \/ at[o] \in {"accepted", "lost"}
        \/ o \in DOMAIN row /\ row[o].exchange = name[o]
        \/ o \in ExecutorOrders /\ row[o].status = "CANCELLED"

(* What has been announced of an order is in the table and stays true: an  *)
(* OrderSubmitted names the row's exchange identifier, under which the     *)
(* exchange has the order; after an OrderCancelled of an order the service *)
(* placed, the row is cancelled and the exchange had agreed, however many  *)
(* calls cancelled it at once.                                             *)
AnnouncedIsRecorded ==
    /\ \A o \in ServiceOrders : at[o] \in {"publishing", "done"} =>
         /\ o \in DOMAIN row /\ row[o].exchange = name[o]
         /\ name[o] \in DOMAIN book
    /\ \A c \in Cancels : at[c] \in {"publishing", "done"} =>
         /\ book[copy[c].order] = "CANCELLED"
         /\ copy[c].order \in ServiceOrders => row[copy[c].order].status = "CANCELLED"

(* An order placed by the service whose row says CANCELLED is not live at  *)
(* the exchange.  The code cancels the identifier of the row instead of    *)
(* the exchange's, which ExchangeAdapter.cancel_order() asks for.          *)
CancelledIsDead ==
    \A o \in DOMAIN row \intersect ServiceOrders :
        row[o].status = "CANCELLED" => book[name[o]] # "SUBMITTED"
=============================================================================
