--------------------------- MODULE Trading_proofs ---------------------------
(***************************************************************************)
(* Proofs about the order service, the portfolio service and the event bus *)
(* for any number of calls, handlers, symbols and portfolios, and for any  *)
(* interleaving of their waits.  Each part has an inductive invariant of   *)
(* its own: BusInv of the event bus, DeskInv of the orders and BooksInv of *)
(* the positions; the bus is proved once, from the three shapes in which a *)
(* service moves a call on.                                                *)
(***************************************************************************)
EXTENDS Trading, TLAPS, FiniteSetTheorems

-----------------------------------------------------------------------------
(* The event bus *)

\* What a call does next, of whichever service it is.
Stages ==
    {"idle", "asking", "accepted", "committed", "publishing", "done", "lost", "refused",
     "asking cancel", "cancelled there", "created", "writing", "saved"}

\* The lists hold every subscription: extending a list with itself or with the
\* one of DomainEvent takes nothing away.
Covered == \A type \in Types, o \in Objects : subscribed[type][o] <= Listed(type)[o]

\* An object is yet to be called with an event, or has been called, or neither;
\* a subscriber of a publication under way is in one of the first two.
Delivered ==
    \A c \in Calls, o \in Objects :
        /\ heard[c][o] + calling[c][o] <= 1
        /\ at[c] = "publishing" /\ o \in audience[c] => heard[c][o] + calling[c][o] = 1
        /\ at[c] = "done" /\ o \in audience[c] => heard[c][o] = 1
        /\ at[c] \notin {"publishing", "done", "lost"} =>
              o \notin audience[c] /\ heard[c][o] = 0 /\ calling[c][o] = 0

Counted ==
    /\ changes \in 0..MaxChanges
    /\ \A type \in Types, o \in Objects : subscribed[type][o] <= changes

BusInv == at \in [Calls -> Stages] /\ BusTypeOK /\ Counted /\ Covered /\ Delivered

USE BusAssumption

LEMMA ListedType ==
    ASSUME BusTypeOK, NEW type
    PROVE  Listed(type) \in [Objects -> Nat]
  BY DEF BusTypeOK, Listed, None, Types

LEMMA BusInitInv == at = [c \in Calls |-> "idle"] /\ BusInit => BusInv
<1> SUFFICES ASSUME at = [c \in Calls |-> "idle"], BusInit PROVE BusInv
  OBVIOUS
<1>1. BusTypeOK
  BY DEF BusInit, BusTypeOK, None
<1>2. Counted /\ Delivered
  BY DEF BusInit, Counted, Delivered, None
<1>3. Covered
  BY DEF BusInit, Covered, Listed, None
<1>4. at \in [Calls -> Stages]
  BY DEF Stages
<1> QED
  BY <1>1, <1>2, <1>3, <1>4 DEF BusInv

\* A call that goes on to something else than a publication.
LEMMA QuietKeepsBus ==
    ASSUME BusInv, NEW c \in Calls, NEW stage \in Stages, stage # "publishing",
           at[c] \notin {"publishing", "done", "lost"},
           at' = [at EXCEPT ![c] = stage], UNCHANGED bus
    PROVE  BusInv'
  BY DEF BusInv, BusTypeOK, Counted, Covered, Delivered, bus, Listed

\* A call that publishes.
LEMMA PublishKeepsBus ==
    ASSUME BusInv, NEW c \in Calls, NEW type \in EventTypes,
           at[c] \notin {"publishing", "done", "lost"},
           Publish(c, type), at' = [at EXCEPT ![c] = "publishing"]
    PROVE  BusInv'
<1> DEFINE collected ==
             [o \in Objects |-> 2 * Listed(type)[o] + Listed(DomainEvent)[o]]
<1>1. /\ type \in Types /\ DomainEvent \in Types
      /\ Listed(type) \in [Objects -> Nat] /\ Listed(DomainEvent) \in [Objects -> Nat]
  BY ListedType DEF BusInv, Types
<1>2. collected \in [Objects -> Nat]
  BY <1>1
<1>3. /\ registered' = [t \in DOMAIN registered |-> IF t = type THEN collected ELSE registered[t]]
      /\ calling' = [calling EXCEPT ![c] = OncePerHandler(collected)]
      /\ audience' = [audience EXCEPT ![c] =
                        {o \in Objects : subscribed[type][o] + subscribed[DomainEvent][o] > 0}]
      /\ UNCHANGED <<subscribed, heard, changes>>
  BY DEF Publish
<1>4. \A o \in Objects : subscribed[type][o] + subscribed[DomainEvent][o] > 0 => collected[o] > 0
  <2> SUFFICES ASSUME NEW o \in Objects, subscribed[type][o] + subscribed[DomainEvent][o] > 0
               PROVE  collected[o] > 0
    OBVIOUS
  <2>1. /\ subscribed[type][o] \in Nat /\ subscribed[DomainEvent][o] \in Nat
        /\ Listed(type)[o] \in Nat /\ Listed(DomainEvent)[o] \in Nat
    BY <1>1 DEF BusInv, BusTypeOK
  <2>2. subscribed[type][o] <= Listed(type)[o] /\ subscribed[DomainEvent][o] <= Listed(DomainEvent)[o]
    BY <1>1 DEF BusInv, Covered
  <2> QED
    BY <2>1, <2>2
<1>5. OncePerHandler(collected) = [o \in Objects |-> IF collected[o] > 0 THEN 1 ELSE 0]
  BY DEF OncePerHandler
<1> HIDE DEF collected
<1>6. BusTypeOK'
  BY <1>2, <1>3, <1>5 DEF BusInv, BusTypeOK
<1>7. Covered'
  <2> SUFFICES ASSUME NEW t \in Types, NEW o \in Objects
               PROVE  subscribed'[t][o] <= Listed(t)'[o]
    BY DEF Covered
  <2>1. subscribed[t][o] \in Nat /\ Listed(t)[o] \in Nat /\ subscribed[t][o] <= Listed(t)[o]
    BY ListedType DEF BusInv, BusTypeOK, Covered
  <2>2. CASE t # type
    BY <1>3, <2>1, <2>2 DEF Listed
  <2>3. CASE t = type /\ type \in DOMAIN registered
    <3>1. Listed(t)' = collected
      BY <1>3, <2>3 DEF Listed
    <3>2. collected[o] = 2 * Listed(type)[o] + Listed(DomainEvent)[o]
      BY DEF collected
    <3>3. Listed(DomainEvent)[o] \in Nat
      BY <1>1
    <3> QED
      BY <1>3, <2>1, <2>3, <3>1, <3>2, <3>3
  <2>4. CASE t = type /\ type \notin DOMAIN registered
    BY <1>3, <2>1, <2>4 DEF Listed
  <2> QED
    BY <2>2, <2>3, <2>4
<1>8. Delivered'
  BY <1>3, <1>4, <1>5 DEF BusInv, BusTypeOK, Delivered
<1>9. Counted'
  BY <1>3 DEF BusInv, Counted
<1>10. at' \in [Calls -> Stages]
  BY DEF BusInv, Stages
<1> QED
  BY <1>6, <1>7, <1>8, <1>9, <1>10 DEF BusInv

\* A call that is given up at one of its waits.
LEMMA GivingUpKeepsBus ==
    ASSUME BusInv, NEW c \in Calls, at' = [at EXCEPT ![c] = "lost"],
           calling' = [calling EXCEPT ![c] = None],
           UNCHANGED <<registered, subscribed, heard, audience, changes>>
    PROVE  BusInv'
<1>1. at' \in [Calls -> Stages] /\ Counted' /\ Covered'
  BY DEF Stages, BusInv, Counted, Covered, Listed
<1>2. calling' = [calling EXCEPT ![c] = [o \in Objects |-> 0]]
  BY DEF None
<1>3. BusTypeOK'
  BY <1>2 DEF BusInv, BusTypeOK
<1>4. Delivered'
  BY <1>2 DEF BusInv, BusTypeOK, Delivered
<1> QED
  BY <1>1, <1>3, <1>4 DEF BusInv

LEMMA DeliveryKeepsBus ==
    ASSUME BusInv, NEW c \in Calls, CallHandler(c) \/ Published(c)
    PROVE  BusInv'
<1>1. CASE CallHandler(c)
  <2>1. PICK o \in Objects :
          /\ calling[c][o] > 0
          /\ calling' = [calling EXCEPT ![c][o] = @ - 1]
          /\ heard' = [heard EXCEPT ![c][o] = @ + 1]
    BY <1>1 DEF CallHandler
  <2>2. at[c] = "publishing" /\ UNCHANGED <<at, registered, subscribed, audience, changes>>
    BY <1>1 DEF CallHandler
  <2>3. BusTypeOK'
    BY <2>1, <2>2 DEF BusInv, BusTypeOK
  <2>4. Delivered'
    BY <2>1, <2>2 DEF BusInv, BusTypeOK, Delivered
  <2> QED
    BY <2>2, <2>3, <2>4 DEF BusInv, Counted, Covered, Listed
<1>2. CASE Published(c)
  <2>1. /\ UNCHANGED <<registered, subscribed, calling, heard, audience, changes>>
        /\ at[c] = "publishing" /\ at' = [at EXCEPT ![c] = "done"]
        /\ calling[c] = [o \in Objects |-> 0]
    BY <1>2 DEF Published, bus, None
  <2>2. at' \in [Calls -> Stages] /\ Counted' /\ Covered'
    BY <2>1 DEF Stages, BusInv, Counted, Covered, Listed
  <2>3. BusTypeOK'
    BY <2>1 DEF BusInv, BusTypeOK
  <2>4. Delivered'
    BY <2>1 DEF BusInv, BusTypeOK, Delivered
  <2> QED
    BY <2>2, <2>3, <2>4 DEF BusInv
<1> QED
  BY <1>1, <1>2

LEMMA SubscribeKeepsBus ==
    ASSUME BusInv, NEW o \in Objects, NEW type \in Types, Subscribe(o, type)
    PROVE  BusInv'
<1>1. /\ UNCHANGED <<at, calling, heard, audience>> /\ changes < MaxChanges /\ changes' = changes + 1
      /\ registered' =
           [t \in DOMAIN registered \union {type} |->
              IF t = type THEN [Listed(t) EXCEPT ![o] = @ + 1] ELSE registered[t]]
      /\ subscribed' = [subscribed EXCEPT ![type][o] = @ + 1]
  BY DEF Subscribe
<1>2. Listed(type) \in [Objects -> Nat]
  BY ListedType DEF BusInv
<1>3. \A t \in Types, g \in Objects :
         subscribed'[t][g] = IF t = type /\ g = o THEN subscribed[t][g] + 1 ELSE subscribed[t][g]
  BY <1>1 DEF BusInv, BusTypeOK
<1>4. \A t \in Types, g \in Objects : subscribed[t][g] \in Nat /\ subscribed[t][g] <= changes
  BY DEF BusInv, BusTypeOK, Counted
<1>5. Counted'
  BY <1>1, <1>3, <1>4 DEF BusInv, Counted
<1>6. BusTypeOK'
  <2>1. subscribed' \in [Types -> [Objects -> 0..MaxChanges]]
    BY <1>1, <1>3, <1>4 DEF BusInv, BusTypeOK, Counted
  <2>2. \A t \in DOMAIN registered' : registered'[t] \in [Objects -> Nat]
    BY <1>1, <1>2 DEF BusInv, BusTypeOK
  <2> QED
    BY <1>1, <2>1, <2>2 DEF BusInv, BusTypeOK
<1>7. Covered'
  <2> SUFFICES ASSUME NEW t \in Types, NEW g \in Objects
               PROVE  subscribed'[t][g] <= Listed(t)'[g]
    BY DEF Covered
  <2>1. Listed(t)[g] \in Nat /\ subscribed[t][g] <= Listed(t)[g]
    BY ListedType DEF BusInv, Covered
  <2>2. CASE t = type
    BY <1>1, <1>2, <1>3, <1>4, <2>1, <2>2 DEF Listed
  <2>3. CASE t # type
    BY <1>1, <1>3, <2>1, <2>3 DEF Listed
  <2> QED
    BY <2>2, <2>3
<1> QED
  BY <1>1, <1>5, <1>6, <1>7 DEF BusInv, Delivered

LEMMA UnsubscribeKeepsBus ==
    ASSUME BusInv, NEW h \in Handlers, NEW type \in Types, Unsubscribe(h, type)
    PROVE  BusInv'
<1>1. PICK o \in Objects, own \in Objects :
        /\ Listed(type)[o] > 0 /\ subscribed[type][own] > 0
        /\ subscribed[type][o] > 0 => own = o
        /\ registered' = [registered EXCEPT ![type][o] = @ - 1]
        /\ subscribed' = [subscribed EXCEPT ![type][own] = @ - 1]
  BY DEF Unsubscribe, ObjectsOf
<1>2. /\ UNCHANGED <<at, calling, heard, audience>>
      /\ changes < MaxChanges /\ changes' = changes + 1
  BY DEF Unsubscribe
<1>3. \A t \in Types, g \in Objects :
         /\ subscribed[t][g] \in Nat /\ subscribed[t][g] <= changes
         /\ Listed(t)[g] \in Nat /\ subscribed[t][g] <= Listed(t)[g]
  BY ListedType DEF BusInv, BusTypeOK, Counted, Covered
<1>4. type \in DOMAIN registered /\ registered[type][o] > 0
  BY <1>1 DEF Listed, None
<1>5. \A t \in Types, g \in Objects :
         subscribed'[t][g] = IF t = type /\ g = own THEN subscribed[t][g] - 1 ELSE subscribed[t][g]
  BY <1>1 DEF BusInv, BusTypeOK
<1>6. \A t \in Types, g \in Objects :
         Listed(t)'[g] = IF t = type /\ g = o THEN Listed(t)[g] - 1 ELSE Listed(t)[g]
  BY <1>1, <1>4 DEF BusInv, BusTypeOK, Listed
<1>7. Counted'
  BY <1>1, <1>2, <1>3, <1>5 DEF BusInv, Counted
<1>8. BusTypeOK'
  <2>1. subscribed' \in [Types -> [Objects -> 0..MaxChanges]]
    BY <1>1, <1>3, <1>5 DEF BusInv, BusTypeOK, Counted
  <2>2. DOMAIN registered' = DOMAIN registered
    BY <1>1
  <2>3. \A t \in DOMAIN registered' : registered'[t] \in [Objects -> Nat]
    BY <1>1, <1>4 DEF BusInv, BusTypeOK
  <2> QED
    BY <1>2, <2>1, <2>2, <2>3 DEF BusInv, BusTypeOK
<1>9. Covered'
  <2> SUFFICES ASSUME NEW t \in Types, NEW g \in Objects
               PROVE  subscribed'[t][g] <= Listed(t)'[g]
    BY DEF Covered
  <2>1. CASE t = type /\ g = o
    <3>1. subscribed[type][o] > 0 => own = o
      BY <1>1
    <3> QED
      BY <1>1, <1>3, <1>5, <1>6, <2>1, <3>1
  <2>2. CASE ~(t = type /\ g = o)
    BY <1>3, <1>5, <1>6, <2>2
  <2> QED
    BY <2>1, <2>2
<1> QED
  BY <1>2, <1>7, <1>8, <1>9 DEF BusInv, Delivered

-----------------------------------------------------------------------------
(* Orders *)

\* The exchange counts its orders, so its identifiers are numbers of one order
\* each; it has under them only what it has accepted or cancelled.
NamesInv ==
    /\ requested \in Nat /\ name \in [Orders -> Nat]
    /\ DOMAIN book \subseteq Orders \union 1..requested
    /\ \A o \in Orders :
         /\ name[o] <= requested
         /\ at[o] = "idle" => name[o] = Unnamed
         /\ at[o] \notin {"idle", "refused"} => name[o] # Unnamed
    /\ \A o1, o2 \in Orders : name[o1] = name[o2] /\ name[o1] # Unnamed => o1 = o2

\* What is live at the exchange has been accepted and is known by its name.
BookInv ==
    \A o \in Orders :
        /\ at[o] \in {"idle", "asking", "accepted", "committed", "publishing", "done", "lost",
                      "refused"}
        /\ name[o] \in DOMAIN book /\ book[name[o]] # "CANCELLED" =>
              at[o] \notin {"idle", "asking", "refused"}
        /\ at[o] \in {"accepted", "committed", "publishing", "done"} => name[o] \in DOMAIN book

\* The row of the service's order appears when its call records it, and always
\* carries the order's name; that of the executor may lose it to a cancellation.
RowsInv ==
    /\ ExecutorOrders \subseteq DOMAIN row /\ DOMAIN row \subseteq Orders
    /\ \A o \in DOMAIN row : o \in ServiceOrders =>
         /\ row[o].exchange = name[o]
         /\ at[o] \notin {"idle", "asking", "accepted", "refused"}
    /\ \A o \in Orders : at[o] \in {"committed", "publishing", "done"} =>
         /\ o \in DOMAIN row
         /\ row[o].exchange = name[o] \/ (o \in ExecutorOrders /\ row[o].status = "CANCELLED")

\* A cancellation holds the copy of a row; what it writes back of an order of
\* the service names that order.
CancelInv(c, o) ==
    /\ at[c] \in {"asking cancel", "cancelled there", "committed", "publishing", "done"} =>
         /\ o \in DOMAIN row
         /\ o \in ServiceOrders => copy[c].row.exchange = name[o]
    /\ at[c] \in {"cancelled there", "committed", "publishing", "done"} =>
         o \in DOMAIN book /\ book[o] = "CANCELLED"
    /\ at[c] \in {"committed", "publishing", "done"} =>
         (o \in ServiceOrders => row[o].status = "CANCELLED")
CancelsInv == DOMAIN copy = Cancels /\ \A c \in Cancels : CancelInv(c, copy[c].order)

DeskInv == NamesInv /\ BookInv /\ RowsInv /\ CancelsInv

-----------------------------------------------------------------------------
(* Positions *)

Movers == Opens \union Closes \union Reprices

\* A position is written first by the call that opened it, and keeps its symbol
\* and its portfolio.
PositionsKept ==
    /\ DOMAIN position \subseteq Opens
    /\ \A p \in DOMAIN position :
         position[p] \in [symbol : Symbols, portfolio : Portfolios \union {Stranger}, open : BOOLEAN]
    /\ \A c \in Opens :
         /\ c \in DOMAIN position => at[c] \in {"saved", "publishing", "done", "lost"}
         /\ at[c] \in {"saved", "publishing", "done"} => c \in DOMAIN position

\* Table lists under s a position in s of portfolio f.
ListedFor(table, s, f) ==
    /\ s \in Symbols /\ table[s] \in DOMAIN position
    /\ position[table[s]].symbol = s /\ position[table[s]].portfolio = f

ListingInv ==
    /\ DOMAIN listing = Portfolios
    /\ \A f \in Portfolios : \A s \in DOMAIN listing[f] : ListedFor(listing[f], s, f)
    /\ \A p \in DOMAIN position : position[p].portfolio \in Portfolios =>
         DOMAIN listing[position[p].portfolio] # {}

\* What a transaction is about to write: a new position, and a listing that has
\* it besides what was listed when it looked; or a changed copy.
NewPosition(c, s, f) ==
    at[c] \in {"created", "writing"} =>
        /\ DOMAIN draft[c].positions = {c} /\ draft[c].positions[c] = Position(s, f)
        /\ s \in Symbols /\ f \in Portfolios \union {Stranger}
NewListing(c, s, f) ==
    at[c] = "writing" /\ f \in Portfolios =>
        /\ s \in DOMAIN draft[c].listing /\ draft[c].listing[s] = c
        /\ \A t \in DOMAIN draft[c].listing : t # s => ListedFor(draft[c].listing, t, f)
NewDraft(c) ==
    LET s == draft[c].positions[c].symbol
        f == draft[c].portfolio
    IN  NewPosition(c, s, f) /\ NewListing(c, s, f)
ChangedDraft(c) ==
    /\ draft[c].portfolio = Stranger
    /\ at[c] # "created"
    /\ at[c] = "writing" =>
         \E p \in DOMAIN position, open \in BOOLEAN :
            /\ DOMAIN draft[c].positions = {p}
            /\ draft[c].positions[p] = [position[p] EXCEPT !.open = open]
DraftsInv ==
    /\ DOMAIN draft = Movers
    /\ \A c \in Movers : DOMAIN draft[c] = {"positions", "listing", "portfolio"}
    /\ \A c \in Opens : NewDraft(c)
    /\ \A c \in Closes \union Reprices : ChangedDraft(c)

\* One transaction at a time: what it has read is still so when it commits.
Alone ==
    \A c, d \in Movers :
        at[c] \in {"created", "writing"} /\ at[d] \in {"created", "writing"} => c = d
OneOpen ==
    \A p, q \in DOMAIN position :
        position[p].open /\ position[q].open /\ position[p].symbol = position[q].symbol => p = q
StaysListed ==
    \A p \in DOMAIN position : position[p].portfolio \in Portfolios =>
        /\ position[p].symbol \in DOMAIN listing[position[p].portfolio]
        /\ listing[position[p].portfolio][position[p].symbol] = p
NewStill(c, s, f) ==
    /\ at[c] \in {"created", "writing"} =>
          \A p \in DOMAIN position : position[p].symbol = s => ~position[p].open
    /\ at[c] = "writing" /\ f \in Portfolios =>
          s \notin DOMAIN listing[f] /\ draft[c].listing = List(listing[f], s, c)
ChangedStill(c) ==
    at[c] = "writing" => \A p \in DOMAIN draft[c].positions : position[p].open
SerialInv ==
    serial =>
        /\ Alone /\ OneOpen /\ StaysListed
        /\ \A c \in Opens : NewStill(c, draft[c].positions[c].symbol, draft[c].portfolio)
        /\ \A c \in Closes \union Reprices : ChangedStill(c)

BooksInv == PositionsKept /\ ListingInv /\ DraftsInv /\ SerialInv

-----------------------------------------------------------------------------
(* Every step of the order desk keeps DeskInv *)

USE OrdersAssumption

LEMMA DeskInitInv == at = [c \in Calls |-> "idle"] /\ DeskInit => DeskInv
<1> SUFFICES ASSUME at = [c \in Calls |-> "idle"], DeskInit PROVE DeskInv
  OBVIOUS
<1>1. Orders \subseteq Calls /\ Cancels \subseteq Calls
  BY DEF Orders
<1>2. NamesInv /\ BookInv
  BY <1>1 DEF DeskInit, NamesInv, BookInv, Unnamed
<1>3. RowsInv /\ CancelsInv
  BY <1>1 DEF DeskInit, RowsInv, CancelsInv, CancelInv, Orders
<1> QED
  BY <1>2, <1>3 DEF DeskInv

\* A step of another service, or of the bus for a call that has published.
LEMMA ElsewhereKeepsDesk ==
    ASSUME DeskInv, UNCHANGED desk,
           \A c \in Orders \union Cancels :
              at'[c] = at[c] \/ (at[c] = "publishing" /\ at'[c] = "done")
    PROVE  DeskInv'
<1> USE DEF desk
<1>1. NamesInv' /\ BookInv'
  BY DEF DeskInv, NamesInv, BookInv
<1>2. RowsInv'
  BY DEF DeskInv, RowsInv, Orders
<1>3. CancelsInv'
  BY DEF DeskInv, CancelsInv, CancelInv
<1> QED
  BY <1>1, <1>2, <1>3 DEF DeskInv

\* Nothing is asked of the identifiers while the desk only changes stages.
LEMMA OrdersAreCalls ==
    /\ Orders \subseteq Calls /\ Cancels \subseteq Calls /\ Orders \intersect Cancels = {}
    /\ ServiceOrders \subseteq Orders /\ ExecutorOrders \subseteq Orders
    /\ Orders = ServiceOrders \union ExecutorOrders /\ ServiceOrders \intersect ExecutorOrders = {}
    /\ \A o \in Orders : o \notin Nat
  BY DEF Orders

\* How a step of one call changes the stages.
LEMMA StagesOf ==
    ASSUME BusInv, NEW c \in Orders \union Cancels, NEW stage, at' = [at EXCEPT ![c] = stage]
    PROVE  /\ at'[c] = stage
           /\ \A d \in Orders \union Cancels : d # c => at'[d] = at[d]
  BY OrdersAreCalls DEF BusInv

LEMMA AskKeepsDesk ==
    ASSUME BusInv, DeskInv, NEW o \in Orders, at[o] = "idle", Ask(o)
    PROVE  DeskInv'
<1>1. /\ requested' = requested + 1 /\ name' = [name EXCEPT ![o] = requested + 1]
      /\ at' = [at EXCEPT ![o] = "asking"] /\ UNCHANGED <<row, book, copy>>
  BY DEF Ask, Become
<1>2. at'[o] = "asking" /\ \A d \in Orders \union Cancels : d # o => at'[d] = at[d]
  BY <1>1, StagesOf
<1>3. NamesInv'
  BY <1>1, <1>2 DEF DeskInv, NamesInv, Unnamed
<1>4. BookInv'
  BY <1>1, <1>2, OrdersAreCalls DEF DeskInv, NamesInv, BookInv, Unnamed
<1>5. RowsInv'
  BY <1>1, <1>2, OrdersAreCalls DEF DeskInv, NamesInv, RowsInv
<1>6. CancelsInv'
  <2>1. o \in ServiceOrders => o \notin DOMAIN row
    BY DEF DeskInv, RowsInv
  <2>2. \A p \in DOMAIN row : p \in ServiceOrders => name'[p] = name[p]
    BY <1>1, <2>1, OrdersAreCalls DEF DeskInv, NamesInv, RowsInv
  <2>3. \A d \in Cancels : at'[d] = at[d]
    BY <1>2, OrdersAreCalls
  <2> SUFFICES ASSUME NEW d \in Cancels PROVE CancelInv(d, copy[d].order)'
    BY <1>1 DEF DeskInv, CancelsInv
  <2>4. CancelInv(d, copy[d].order)
    BY DEF DeskInv, CancelsInv
  <2> QED
    BY <1>1, <2>2, <2>3, <2>4 DEF CancelInv
<1> QED
  BY <1>3, <1>4, <1>5, <1>6 DEF DeskInv

\* A call that is refused or given up.
LEMMA EndingKeepsDesk ==
    ASSUME BusInv, DeskInv, NEW c \in Orders \union Cancels, NEW stage \in {"refused", "lost"},
           at' = [at EXCEPT ![c] = stage], UNCHANGED desk,
           stage = "refused" =>
              at[c] \in {"idle", "asking"} \/ (c \in Cancels /\ at[c] = "asking cancel"),
           stage = "lost" => at[c] \notin {"idle", "refused"}
    PROVE  DeskInv'
<1> USE DEF desk
<1>1. at'[c] = stage /\ \A d \in Orders \union Cancels : d # c => at'[d] = at[d]
  BY StagesOf
<1>2. NamesInv'
  BY <1>1 DEF DeskInv, NamesInv
<1>3. BookInv'
  BY <1>1, OrdersAreCalls DEF DeskInv, BookInv
<1>4. RowsInv'
  <2>1. \A o \in DOMAIN row : o \in ServiceOrders =>
           at'[o] \notin {"idle", "asking", "accepted", "refused"}
    <3> SUFFICES ASSUME NEW o \in DOMAIN row, o \in ServiceOrders
                 PROVE  at'[o] \notin {"idle", "asking", "accepted", "refused"}
      OBVIOUS
    <3>1. at[o] \notin {"idle", "asking", "accepted", "refused"}
      BY DEF DeskInv, RowsInv
    <3> QED
      BY <1>1, <3>1, OrdersAreCalls
  <2>2. \A o \in Orders : at'[o] \in {"committed", "publishing", "done"} => at'[o] = at[o]
    BY <1>1
  <2> QED
    BY <2>1, <2>2, OrdersAreCalls DEF DeskInv, RowsInv
<1>5. CancelsInv'
  BY <1>1 DEF DeskInv, CancelsInv, CancelInv
<1> QED
  BY <1>2, <1>3, <1>4, <1>5 DEF DeskInv

LEMMA AcceptKeepsDesk ==
    ASSUME BusInv, DeskInv, NEW o \in Orders, ExchangeAccepts(o)
    PROVE  DeskInv'
<1>1. PICK status \in {"SUBMITTED", "FILLED"} : book' = Put(book, name[o], status)
  BY DEF ExchangeAccepts
<1>2. /\ DOMAIN book' = DOMAIN book \union {name[o]}
      /\ \A id \in DOMAIN book' : book'[id] = IF id = name[o] THEN status ELSE book[id]
  BY <1>1 DEF Put
<1>3. /\ at[o] = "asking" /\ at' = [at EXCEPT ![o] = "accepted"]
      /\ UNCHANGED <<row, requested, name, copy>>
  BY DEF ExchangeAccepts, Become
<1>4. at \in [Calls -> Stages] /\ o \in Calls
  BY OrdersAreCalls DEF BusInv
<1>5. /\ name[o] \in 1..requested /\ requested \in Nat /\ name \in [Orders -> Nat]
      /\ \A p \in Orders : name[p] = name[o] => p = o
  BY <1>3 DEF DeskInv, NamesInv, Unnamed
<1>6. NamesInv'
  BY <1>2, <1>3, <1>4, <1>5, OrdersAreCalls DEF DeskInv, NamesInv
<1>7. BookInv'
  BY <1>2, <1>3, <1>4, <1>5, OrdersAreCalls DEF DeskInv, BookInv
<1>8. RowsInv'
  BY <1>3, <1>4, OrdersAreCalls DEF DeskInv, RowsInv
<1>9. CancelsInv'
  <2>1. \A id \in Orders : id # name[o]
    BY <1>5, OrdersAreCalls
  <2> QED
    BY <1>2, <1>3, <1>4, <2>1, OrdersAreCalls DEF DeskInv, RowsInv, CancelsInv, CancelInv
<1> QED
  BY <1>6, <1>7, <1>8, <1>9 DEF DeskInv

LEMMA RecordKeepsDesk ==
    ASSUME BusInv, DeskInv, NEW o \in Orders, RecordOrder(o)
    PROVE  DeskInv'
<1> DEFINE next == IF o \in ServiceOrders THEN "committed" ELSE "done"
<1>1. /\ at[o] = "accepted" /\ at' = [at EXCEPT ![o] = next]
      /\ row' = Put(row, o, Row("SUBMITTED", name[o]))
      /\ UNCHANGED <<book, requested, name, copy>>
  BY DEF RecordOrder, Become
<1>2. /\ DOMAIN row' = DOMAIN row \union {o}
      /\ row'[o].exchange = name[o]
      /\ \A p \in DOMAIN row : p # o => row'[p] = row[p]
  BY <1>1 DEF Put, Row
<1>3. at \in [Calls -> Stages] /\ o \in Calls
  BY OrdersAreCalls DEF BusInv
<1>4. NamesInv'
  BY <1>1, <1>3, OrdersAreCalls DEF DeskInv, NamesInv
<1>5. BookInv'
  BY <1>1, <1>3, OrdersAreCalls DEF DeskInv, BookInv
<1>6. RowsInv'
  BY <1>1, <1>2, <1>3, OrdersAreCalls DEF DeskInv, RowsInv
<1>7. CancelsInv'
  <2>1. o \in ServiceOrders => o \notin DOMAIN row
    BY <1>1 DEF DeskInv, RowsInv
  <2>2. \A d \in Cancels : at'[d] = at[d]
    BY <1>1, <1>3, OrdersAreCalls
  <2> QED
    BY <1>1, <1>2, <2>1, <2>2 DEF DeskInv, CancelsInv, CancelInv
<1> QED
  BY <1>4, <1>5, <1>6, <1>7 DEF DeskInv

\* A call that has committed publishes; what it committed is untouched.
LEMMA AnnounceKeepsDesk ==
    ASSUME BusInv, DeskInv, NEW c \in Orders \union Cancels, at[c] = "committed",
           at' = [at EXCEPT ![c] = "publishing"], UNCHANGED desk
    PROVE  DeskInv'
<1> USE DEF desk
<1>1. at \in [Calls -> Stages] /\ c \in Calls
  BY OrdersAreCalls DEF BusInv
<1>2. NamesInv' /\ BookInv'
  BY <1>1, OrdersAreCalls DEF DeskInv, NamesInv, BookInv
<1>3. RowsInv'
  BY <1>1, OrdersAreCalls DEF DeskInv, RowsInv
<1>4. CancelsInv'
  BY <1>1, OrdersAreCalls DEF DeskInv, CancelsInv, CancelInv
<1> QED
  BY <1>2, <1>3, <1>4 DEF DeskInv

LEMMA ReadForCancelKeepsDesk ==
    ASSUME BusInv, DeskInv, NEW c \in Cancels, ReadForCancel(c)
    PROVE  DeskInv'
<1>1. PICK o \in DOMAIN row :
         IF row[o].status \in Terminal
         THEN Become(c, "refused") /\ UNCHANGED copy
         ELSE /\ copy' = [copy EXCEPT ![c] = [order |-> o, row |-> row[o]]]
              /\ Become(c, "asking cancel")
  BY DEF ReadForCancel
<1>2. at[c] = "idle" /\ UNCHANGED <<row, book, requested, name>>
  BY DEF ReadForCancel
<1>3. CASE row[o].status \in Terminal
  BY <1>1, <1>2, <1>3, EndingKeepsDesk DEF Become, desk
<1>4. CASE row[o].status \notin Terminal
  <2>1. /\ copy' = [copy EXCEPT ![c] = [order |-> o, row |-> row[o]]]
        /\ at' = [at EXCEPT ![c] = "asking cancel"]
    BY <1>1, <1>4 DEF Become
  <2>2. at \in [Calls -> Stages] /\ c \in Calls /\ DOMAIN copy = Cancels
    BY OrdersAreCalls DEF BusInv, DeskInv, CancelsInv
  <2>3. \A p \in Orders : at'[p] = at[p]
    BY <2>1, <2>2, OrdersAreCalls
  <2>4. NamesInv' /\ BookInv' /\ RowsInv'
    BY <1>2, <2>3, OrdersAreCalls DEF DeskInv, NamesInv, BookInv, RowsInv
  <2>5. CancelsInv'
    BY <1>2, <2>1, <2>2 DEF DeskInv, RowsInv, CancelsInv, CancelInv
  <2> QED
    BY <2>4, <2>5 DEF DeskInv
<1> QED
  BY <1>3, <1>4

\* What is cancelled at the exchange is dead under one identifier more.
LEMMA CancellingKeepsDesk ==
    ASSUME BusInv, DeskInv, NEW id \in Orders \union 1..requested,
           book' = Put(book, id, "CANCELLED"), UNCHANGED <<row, requested, name, copy>>,
           \/ UNCHANGED at
           \/ \E c \in Cancels :
                 at[c] = "asking cancel" /\ id = copy[c].order /\ at' = [at EXCEPT ![c] = "cancelled there"]
    PROVE  DeskInv'
<1>1. /\ DOMAIN book' = DOMAIN book \union {id}
      /\ \A k \in DOMAIN book' : book'[k] = IF k = id THEN "CANCELLED" ELSE book[k]
  BY DEF Put
<1>2. at \in [Calls -> Stages] /\ Cancels \subseteq Calls
  BY OrdersAreCalls DEF BusInv
<1>3. \A o \in Orders : at'[o] = at[o]
  BY <1>2, OrdersAreCalls
<1>4. NamesInv'
  BY <1>1, <1>3 DEF DeskInv, NamesInv
<1>5. BookInv'
  BY <1>1, <1>3 DEF DeskInv, BookInv
<1>6. RowsInv'
  BY <1>3, OrdersAreCalls DEF DeskInv, RowsInv
<1>7. CancelsInv'
  <2> SUFFICES ASSUME NEW d \in Cancels PROVE CancelInv(d, copy[d].order)'
    BY DEF DeskInv, CancelsInv
  <2>1. CancelInv(d, copy[d].order)
    BY DEF DeskInv, CancelsInv
  <2>2. \/ at'[d] = at[d]
        \/ at[d] = "asking cancel" /\ id = copy[d].order /\ at'[d] = "cancelled there"
    BY <1>2
  <2> QED
    BY <1>1, <2>1, <2>2 DEF CancelInv
<1> QED
  BY <1>4, <1>5, <1>6, <1>7 DEF DeskInv

LEMMA RecordCancelKeepsDesk ==
    ASSUME BusInv, DeskInv, NEW c \in Cancels, RecordCancel(c)
    PROVE  DeskInv'
<1> DEFINE o == copy[c].order
<1>1. /\ at[c] = "cancelled there" /\ at' = [at EXCEPT ![c] = "committed"]
      /\ row' = Put(row, o, Row("CANCELLED", copy[c].row.exchange))
      /\ UNCHANGED <<book, requested, name, copy>>
  BY DEF RecordCancel, Become
<1>2. /\ o \in DOMAIN row /\ o \in Orders
      /\ o \in ServiceOrders => copy[c].row.exchange = name[o]
  BY <1>1 DEF DeskInv, CancelsInv, CancelInv, RowsInv
<1>3. /\ DOMAIN row' = DOMAIN row
      /\ row'[o].exchange = copy[c].row.exchange /\ row'[o].status = "CANCELLED"
      /\ \A p \in DOMAIN row : p # o => row'[p] = row[p]
  BY <1>1, <1>2 DEF Put, Row
<1>4. at \in [Calls -> Stages] /\ c \in Calls
  BY OrdersAreCalls DEF BusInv
<1>5. \A p \in Orders : at'[p] = at[p]
  BY <1>1, <1>4, OrdersAreCalls
<1> HIDE DEF o
<1>6. NamesInv' /\ BookInv'
  BY <1>1, <1>5 DEF DeskInv, NamesInv, BookInv
<1>7. RowsInv'
  <2>1. \A p \in DOMAIN row' : p \in ServiceOrders => row'[p].exchange = name[p]
    BY <1>2, <1>3 DEF DeskInv, RowsInv
  <2>2. o \in ExecutorOrders \/ row'[o].exchange = name[o]
    BY <1>2, <1>3, OrdersAreCalls
  <2> QED
    BY <1>1, <1>3, <1>5, <2>1, <2>2, OrdersAreCalls DEF DeskInv, RowsInv
<1>8. CancelsInv'
  <2> SUFFICES ASSUME NEW d \in Cancels PROVE CancelInv(d, copy[d].order)'
    BY <1>1 DEF DeskInv, CancelsInv
  <2>1. CancelInv(d, copy[d].order)
    BY DEF DeskInv, CancelsInv
  <2>2. IF d = c THEN at[d] = "cancelled there" /\ at'[d] = "committed" ELSE at'[d] = at[d]
    BY <1>1, <1>4
  <2>3. d = c => copy[d].order = o
    BY DEF o
  <2> QED
    BY <1>1, <1>3, <2>1, <2>2, <2>3 DEF CancelInv
<1> QED
  BY <1>6, <1>7, <1>8 DEF DeskInv

-----------------------------------------------------------------------------
(* A step of the desk, of the bus, and of another service *)

LEMMA DeskStepKeeps ==
    ASSUME BusInv, DeskInv, DeskStep
    PROVE  BusInv' /\ DeskInv'
<1> USE DEF Become
<1>1. ASSUME NEW o \in Orders, at[o] = "idle", Ask(o) PROVE BusInv' /\ DeskInv'
  BY <1>1, AskKeepsDesk, QuietKeepsBus, OrdersAreCalls DEF Ask, Stages
<1>2. ASSUME NEW c \in Orders \union Cancels,
             \/ at[c] \in {"idle", "asking"}
             \/ c \in Cancels /\ at[c] = "asking cancel",
             Become(c, "refused"), UNCHANGED <<desk, bus>>
      PROVE  BusInv' /\ DeskInv'
  <2>1. DeskInv'
    BY <1>2, EndingKeepsDesk
  <2>2. BusInv'
    BY <1>2, QuietKeepsBus, OrdersAreCalls DEF Stages
  <2> QED
    BY <2>1, <2>2
<1>3. ASSUME NEW o \in Orders, PlaceOrder(o) \/ Execute(o) PROVE BusInv' /\ DeskInv'
  BY <1>1, <1>2, <1>3 DEF PlaceOrder, Execute
<1>4. ASSUME NEW o \in Orders, ExchangeAccepts(o) PROVE BusInv' /\ DeskInv'
  BY <1>4, AcceptKeepsDesk, QuietKeepsBus, OrdersAreCalls DEF ExchangeAccepts, Stages
<1>5. ASSUME NEW o \in Orders, ExchangeRefuses(o) PROVE BusInv' /\ DeskInv'
  BY <1>2, <1>5 DEF ExchangeRefuses
<1>6. ASSUME NEW o \in Orders, RecordOrder(o) PROVE BusInv' /\ DeskInv'
  BY <1>6, RecordKeepsDesk, QuietKeepsBus, OrdersAreCalls DEF RecordOrder, Stages
<1>7. ASSUME NEW c \in Orders \union Cancels, at[c] = "committed", Become(c, "publishing"),
             UNCHANGED desk, NEW type \in EventTypes, Publish(c, type)
      PROVE  BusInv' /\ DeskInv'
  BY <1>7, AnnounceKeepsDesk, PublishKeepsBus, OrdersAreCalls
<1>8. ASSUME NEW o \in Orders, AnnounceOrder(o) PROVE BusInv' /\ DeskInv'
  BY <1>7, <1>8 DEF AnnounceOrder
<1>9. ASSUME NEW c \in Cancels, AnnounceCancel(c) PROVE BusInv' /\ DeskInv'
  BY <1>7, <1>9 DEF AnnounceCancel
<1>10. ASSUME NEW o \in Orders, ExecutorCancels(o) PROVE BusInv' /\ DeskInv'
  <2>1. PICK id \in {o, name[o]} \ {Unnamed} : book' = Put(book, id, "CANCELLED")
    BY <1>10 DEF ExecutorCancels
  <2>2. UNCHANGED <<at, row, requested, name, copy, bus>>
    BY <1>10 DEF ExecutorCancels
  <2>3. id \in Orders \union 1..requested
    BY DEF DeskInv, NamesInv, Unnamed
  <2>4. DeskInv'
    BY <2>1, <2>2, <2>3, CancellingKeepsDesk
  <2>5. BusInv'
    BY <2>2 DEF BusInv, BusTypeOK, Counted, Covered, Delivered, bus, Listed
  <2> QED
    BY <2>4, <2>5
<1>11. ASSUME NEW c \in Cancels, ReadForCancel(c) PROVE BusInv' /\ DeskInv'
  <2>1. /\ at[c] = "idle" /\ UNCHANGED bus
        /\ at' = [at EXCEPT ![c] = "refused"] \/ at' = [at EXCEPT ![c] = "asking cancel"]
    BY <1>11 DEF ReadForCancel
  <2>2. BusInv'
    BY <2>1, QuietKeepsBus, OrdersAreCalls DEF Stages
  <2> QED
    BY <1>11, <2>2, ReadForCancelKeepsDesk
<1>12. ASSUME NEW c \in Cancels, CancelAtExchange(c) PROVE BusInv' /\ DeskInv'
  <2>1. copy[c].order \in Orders
    BY <1>12 DEF CancelAtExchange, DeskInv, RowsInv, CancelsInv, CancelInv
  <2>2. DeskInv'
    BY <1>12, <2>1, CancellingKeepsDesk DEF CancelAtExchange
  <2>3. BusInv'
    BY <1>12, QuietKeepsBus, OrdersAreCalls DEF CancelAtExchange, Stages
  <2> QED
    BY <2>2, <2>3
<1>13. ASSUME NEW c \in Cancels, CancelRefused(c) PROVE BusInv' /\ DeskInv'
  BY <1>2, <1>13 DEF CancelRefused
<1>14. ASSUME NEW c \in Cancels, RecordCancel(c) PROVE BusInv' /\ DeskInv'
  BY <1>14, RecordCancelKeepsDesk, QuietKeepsBus, OrdersAreCalls DEF RecordCancel, Stages
<1>15. ASSUME NEW c \in Orders \union Cancels, GiveUp(c) PROVE BusInv' /\ DeskInv'
  <2>1. DeskInv'
    BY <1>15, EndingKeepsDesk DEF GiveUp, Waits
  <2>2. BusInv'
    BY <1>15, GivingUpKeepsBus, OrdersAreCalls DEF GiveUp
  <2> QED
    BY <2>1, <2>2
<1> QED
  BY <1>3, <1>4, <1>5, <1>6, <1>8, <1>9, <1>10, <1>11, <1>12, <1>13, <1>14, <1>15 DEF DeskStep

\* The bus moves a call on only by publishing its event to the end.
LEMMA DeliveryStages ==
    ASSUME BusInv, NEW c \in Calls, CallHandler(c) \/ Published(c), NEW d \in Calls
    PROVE  at'[d] = at[d] \/ (at[d] = "publishing" /\ at'[d] = "done")
  BY DEF BusInv, CallHandler, Published

-----------------------------------------------------------------------------
(* Every step of the position desk keeps BooksInv *)

USE PositionsAssumption

LEMMA MoversAreCalls ==
    /\ Movers \subseteq Calls /\ Opens \subseteq Movers
    /\ Movers = Opens \union (Closes \union Reprices)
    /\ Opens \intersect (Closes \union Reprices) = {}
    /\ Stranger \notin Portfolios
  BY DEF Movers

LEMMA BooksInitInv == at = [c \in Calls |-> "idle"] /\ PositionsInit => BooksInv
<1> SUFFICES ASSUME at = [c \in Calls |-> "idle"], PositionsInit PROVE BooksInv
  OBVIOUS
<1>1. /\ DOMAIN position = {} /\ listing = [f \in Portfolios |-> NoListing] /\ DOMAIN NoListing = {}
      /\ draft = [c \in Movers |-> NoDraft]
      /\ NoDraft.portfolio = Stranger /\ DOMAIN NoDraft = {"positions", "listing", "portfolio"}
  BY DEF PositionsInit, NoDraft, NoListing, Movers
<1>2. \A c \in Movers : at[c] = "idle"
  BY MoversAreCalls
<1>3. PositionsKept
  BY <1>1, <1>2, MoversAreCalls DEF PositionsKept
<1>4. ListingInv
  BY <1>1 DEF ListingInv
<1>5. DraftsInv
  BY <1>1, <1>2, MoversAreCalls DEF DraftsInv, NewDraft, NewPosition, NewListing, ChangedDraft
<1>6. SerialInv
  BY <1>1, <1>2, MoversAreCalls DEF SerialInv, Alone, OneOpen, StaysListed, NewStill, ChangedStill
<1> QED
  BY <1>3, <1>4, <1>5, <1>6 DEF BooksInv

\* What BooksInv asks of the draft of one call.
Own(c) ==
    /\ DOMAIN draft[c] = {"positions", "listing", "portfolio"}
    /\ c \in Opens =>
         NewDraft(c) /\ (serial => NewStill(c, draft[c].positions[c].symbol, draft[c].portfolio))
    /\ c \in Closes \union Reprices => ChangedDraft(c) /\ (serial => ChangedStill(c))

LEMMA BooksHaveOwn == BooksInv => \A c \in Movers : Own(c)
  BY MoversAreCalls DEF BooksInv, DraftsInv, SerialInv, Own

\* A step that writes neither table keeps BooksInv if it keeps the draft of its
\* call in order.
LEMMA DraftStepKeepsBooks ==
    ASSUME BooksInv, UNCHANGED <<position, listing, serial>>,
           DOMAIN draft' = Movers, NEW c \in Movers, Own(c)',
           \A d \in Movers : d # c => draft'[d] = draft[d] /\ at'[d] = at[d],
           c \in Opens /\ c \in DOMAIN position => at'[c] \in {"saved", "publishing", "done", "lost"},
           c \in Opens /\ at'[c] \in {"saved", "publishing", "done"} => c \in DOMAIN position,
           serial => Alone'
    PROVE  BooksInv'
<1>1. PositionsKept' /\ ListingInv'
  BY MoversAreCalls DEF BooksInv, PositionsKept, ListingInv, ListedFor
<1>2. \A d \in Movers : Own(d)'
  <2> SUFFICES ASSUME NEW d \in Movers, d # c PROVE Own(d)'
    OBVIOUS
  <2>1. Own(d) /\ draft'[d] = draft[d] /\ at'[d] = at[d]
    BY BooksHaveOwn
  <2> QED
    BY <2>1 DEF Own, NewDraft, NewPosition, NewListing, ListedFor, ChangedDraft, NewStill, ChangedStill
<1>3. DraftsInv'
  BY <1>2, MoversAreCalls DEF Own, DraftsInv
<1>4. SerialInv'
  BY <1>2, MoversAreCalls DEF BooksInv, SerialInv, OneOpen, StaysListed, Own
<1> QED
  BY <1>1, <1>3, <1>4 DEF BooksInv

\* A step of another service, or of the bus for a call that has published.
LEMMA ElsewhereKeepsBooks ==
    ASSUME BooksInv, UNCHANGED positions,
           \A c \in Movers : at'[c] = at[c] \/ (at[c] = "publishing" /\ at'[c] = "done")
    PROVE  BooksInv'
<1> USE DEF positions
<1>1. PositionsKept' /\ ListingInv'
  BY MoversAreCalls DEF BooksInv, PositionsKept, ListingInv, ListedFor
<1>2. DraftsInv'
  <2>1. \A c \in Opens : NewDraft(c)'
    <3> SUFFICES ASSUME NEW c \in Opens PROVE NewDraft(c)'
      OBVIOUS
    <3>1. NewDraft(c) /\ (at'[c] = at[c] \/ at'[c] = "done")
      BY MoversAreCalls DEF BooksInv, DraftsInv
    <3> QED
      BY <3>1 DEF NewDraft, NewPosition, NewListing, ListedFor
  <2>2. \A c \in Closes \union Reprices : ChangedDraft(c)'
    BY MoversAreCalls DEF BooksInv, DraftsInv, ChangedDraft
  <2> QED
    BY <2>1, <2>2 DEF BooksInv, DraftsInv
<1>3. SerialInv'
  <2>1. serial => Alone' /\ OneOpen' /\ StaysListed'
    BY DEF BooksInv, SerialInv, Alone, OneOpen, StaysListed
  <2>2. ASSUME serial, NEW c \in Opens
        PROVE  NewStill(c, draft[c].positions[c].symbol, draft[c].portfolio)'
    <3>1. /\ NewStill(c, draft[c].positions[c].symbol, draft[c].portfolio)
          /\ at'[c] = at[c] \/ at'[c] = "done"
      BY <2>2, MoversAreCalls DEF BooksInv, SerialInv
    <3> QED
      BY <3>1 DEF NewStill
  <2>3. ASSUME serial, NEW c \in Closes \union Reprices PROVE ChangedStill(c)'
    <3>1. ChangedStill(c) /\ (at'[c] = at[c] \/ at'[c] = "done")
      BY <2>3, MoversAreCalls DEF BooksInv, SerialInv
    <3> QED
      BY <3>1 DEF ChangedStill
  <2> QED
    BY <2>1, <2>2, <2>3 DEF SerialInv
<1> QED
  BY <1>1, <1>2, <1>3 DEF BooksInv

LEMMA MoverStages ==
    ASSUME BusInv, NEW c \in Movers, NEW stage, at' = [at EXCEPT ![c] = stage]
    PROVE  at'[c] = stage /\ \A d \in Movers : d # c => at'[d] = at[d]
  BY MoversAreCalls DEF BusInv

\* A call that ends, or goes on after its commit.
LEMMA PlainStepKeepsBooks ==
    ASSUME BusInv, BooksInv, NEW c \in Movers, NEW stage \in {"refused", "lost", "publishing"},
           at' = [at EXCEPT ![c] = stage], UNCHANGED positions,
           stage = "refused" => at[c] \in {"idle", "created"},
           stage = "publishing" => at[c] = "saved"
    PROVE  BooksInv'
<1>1. at'[c] = stage /\ \A d \in Movers : d # c => at'[d] = at[d]
  BY MoverStages
<1>2. Own(c)'
  <2>1. Own(c)
    BY BooksHaveOwn
  <2> QED
    BY <1>1, <2>1 DEF positions, Own, NewDraft, NewPosition, NewListing, ChangedDraft, NewStill,
                      ChangedStill
<1>3. serial => Alone'
  BY <1>1 DEF BooksInv, SerialInv, Alone
<1> QED
  BY <1>1, <1>2, <1>3, DraftStepKeepsBooks DEF positions, BooksInv, PositionsKept, DraftsInv

LEMMA BeginsAlone ==
    ASSUME BusInv, BooksInv, NEW c \in Movers, NEW stage, Begins(c), at' = [at EXCEPT ![c] = stage]
    PROVE  serial => Alone'
  BY MoverStages, MoversAreCalls DEF Begins, Alone

LEMMA BeginOpenKeepsBooks ==
    ASSUME BusInv, BooksInv, NEW c \in Opens, BeginOpen(c)
    PROVE  BooksInv'
<1>1. PICK s \in Symbols, f \in Portfolios \union {Stranger} :
         IF OpenFor(s) # {}
         THEN Goto(c, "refused") /\ UNCHANGED draft
         ELSE /\ draft' = [draft EXCEPT ![c] =
                             [positions |-> List(NoDraft.positions, c, Position(s, f)),
                              listing |-> NoListing, portfolio |-> f]]
              /\ Goto(c, "created")
  BY DEF BeginOpen
<1>2. Begins(c) /\ at[c] = "idle" /\ UNCHANGED <<position, listing, serial>> /\ c \in Movers
  BY MoversAreCalls DEF BeginOpen, Begins
<1>3. CASE OpenFor(s) # {}
  BY <1>1, <1>2, <1>3, PlainStepKeepsBooks DEF Goto, positions
<1>4. CASE OpenFor(s) = {}
  <2> DEFINE new == List(NoDraft.positions, c, Position(s, f))
  <2>1. /\ draft' = [draft EXCEPT ![c] = [positions |-> new, listing |-> NoListing, portfolio |-> f]]
        /\ at' = [at EXCEPT ![c] = "created"]
    BY <1>1, <1>4 DEF Goto
  <2>2. DOMAIN draft = Movers
    BY DEF BooksInv, DraftsInv
  <2>3. /\ DOMAIN draft' = Movers
        /\ draft'[c] = [positions |-> new, listing |-> NoListing, portfolio |-> f]
        /\ \A d \in Movers : d # c => draft'[d] = draft[d]
    BY <1>2, <2>1, <2>2
  <2>4. at'[c] = "created" /\ \A d \in Movers : d # c => at'[d] = at[d]
    BY <1>2, <2>1, MoverStages
  <2>5. DOMAIN new = {c} /\ new[c] = Position(s, f) /\ Position(s, f).symbol = s
    BY DEF List, NoDraft, Position
  <2>6. serial => \A p \in DOMAIN position : position[p].symbol = s => ~position[p].open
    BY <1>4 DEF OpenFor
  <2> HIDE DEF new
  <2>7. Own(c)'
    <3>1. /\ DOMAIN draft'[c] = {"positions", "listing", "portfolio"}
          /\ draft'[c].positions = new /\ draft'[c].portfolio = f
      BY <2>3
    <3>2. NewDraft(c)'
      BY <2>4, <2>5, <3>1 DEF NewDraft, NewPosition, NewListing
    <3>3. serial' => NewStill(c, draft[c].positions[c].symbol, draft[c].portfolio)'
      BY <1>2, <2>4, <2>5, <2>6, <3>1 DEF NewStill
    <3> QED
      BY <3>1, <3>2, <3>3, MoversAreCalls DEF Own
  <2>8. serial => Alone'
    BY <1>2, <2>1, BeginsAlone
  <2>9. c \notin DOMAIN position
    BY <1>2 DEF BooksInv, PositionsKept
  <2> QED
    BY <1>2, <2>3, <2>4, <2>7, <2>8, <2>9, DraftStepKeepsBooks
<1> QED
  BY <1>3, <1>4

LEMMA AddToPortfolioKeepsBooks ==
    ASSUME BusInv, BooksInv, NEW c \in Opens, AddToPortfolio(c)
    PROVE  BooksInv'
<1> DEFINE f == draft[c].portfolio
           s == draft[c].positions[c].symbol
           more == List(listing[f], s, c)
<1>1. at[c] = "created" /\ UNCHANGED <<position, listing, serial>> /\ c \in Movers
  BY MoversAreCalls DEF AddToPortfolio
<1>2. \/ Goto(c, "refused") /\ UNCHANGED draft
      \/ f = Stranger /\ Goto(c, "writing") /\ UNCHANGED draft
      \/ /\ f # Stranger /\ s \notin DOMAIN listing[f]
         /\ draft' = [draft EXCEPT ![c].listing = more] /\ Goto(c, "writing")
  BY DEF AddToPortfolio
<1>3. CASE Goto(c, "refused") /\ UNCHANGED draft
  BY <1>1, <1>3, PlainStepKeepsBooks DEF Goto, positions
<1>4. /\ DOMAIN draft = Movers /\ Own(c)
      /\ c \notin DOMAIN position
      /\ f \in Portfolios \union {Stranger} /\ s \in Symbols
  BY <1>1, BooksHaveOwn DEF BooksInv, DraftsInv, PositionsKept, NewDraft, NewPosition
<1>5. CASE at' = [at EXCEPT ![c] = "writing"]
  <2>1. at'[c] = "writing" /\ \A d \in Movers : d # c => at'[d] = at[d]
    BY <1>1, <1>5, MoverStages
  <2>2. serial => Alone'
    BY <1>1, <2>1 DEF BooksInv, SerialInv, Alone
  <2>3. CASE f = Stranger /\ UNCHANGED draft
    <3>1. Own(c)'
      BY <1>1, <1>4, <2>1, <2>3, MoversAreCalls
         DEF Own, NewDraft, NewPosition, NewListing, NewStill
    <3> QED
      BY <1>1, <1>4, <2>1, <2>2, <2>3, <3>1, DraftStepKeepsBooks
  <2>4. CASE f # Stranger /\ s \notin DOMAIN listing[f] /\ draft' = [draft EXCEPT ![c].listing = more]
    <3>1. /\ DOMAIN draft' = Movers
          /\ \A d \in Movers : d # c => draft'[d] = draft[d]
          /\ draft'[c] = [draft[c] EXCEPT !.listing = more]
      BY <1>1, <1>4, <2>4
    <3>2. /\ DOMAIN draft'[c] = {"positions", "listing", "portfolio"}
          /\ draft'[c].positions = draft[c].positions
          /\ draft'[c].portfolio = f /\ draft'[c].listing = more
      BY <1>4, <3>1 DEF Own
    <3>3. f \in Portfolios /\ \A t \in DOMAIN listing[f] : ListedFor(listing[f], t, f)
      BY <1>4, <2>4 DEF BooksInv, ListingInv
    <3>4. /\ DOMAIN more = DOMAIN listing[f] \union {s} /\ more[s] = c
          /\ \A t \in DOMAIN listing[f] : t # s => more[t] = listing[f][t]
      BY DEF List
    <3>5. /\ DOMAIN draft[c].positions = {c} /\ draft[c].positions[c] = Position(s, f)
          /\ serial => \A p \in DOMAIN position : position[p].symbol = s => ~position[p].open
      BY <1>1, <1>4 DEF Own, NewDraft, NewPosition, NewStill
    <3>6. NewListing(c, s, f)'
      <4>1. \A t \in DOMAIN more : t # s => ListedFor(more, t, f)
        BY <3>3, <3>4 DEF ListedFor
      <4> QED
        BY <1>1, <3>2, <3>4, <4>1 DEF NewListing, ListedFor
    <3>7. Own(c)'
      <4>1. draft'[c].positions[c].symbol = s
        BY <3>2
      <4>2. NewPosition(c, s, f)'
        BY <1>4, <3>2, <3>5 DEF NewPosition
      <4>3. serial' => NewStill(c, s, f)'
        BY <1>1, <2>4, <3>2, <3>5 DEF NewStill
      <4> QED
        BY <3>2, <3>6, <4>1, <4>2, <4>3, MoversAreCalls DEF Own, NewDraft
    <3> QED
      BY <1>1, <1>4, <2>1, <2>2, <3>1, <3>7, DraftStepKeepsBooks
  <2> QED
    BY <1>2, <1>3, <2>3, <2>4
<1> QED
  BY <1>2, <1>3, <1>5 DEF Goto

LEMMA ReadPositionKeepsBooks ==
    ASSUME BusInv, BooksInv, NEW c \in Closes \union Reprices, ReadPosition(c)
    PROVE  BooksInv'
<1>1. Begins(c) /\ at[c] = "idle" /\ UNCHANGED <<position, listing, serial>> /\ c \in Movers
  BY MoversAreCalls DEF ReadPosition, Begins
<1>2. CASE Goto(c, "refused") /\ UNCHANGED draft
  BY <1>1, <1>2, PlainStepKeepsBooks DEF Goto, positions
<1>3. ASSUME NEW s \in Symbols, NEW p \in OpenFor(s),
             draft' = [draft EXCEPT ![c].positions =
                         List(NoDraft.positions, p, [position[p] EXCEPT !.open = c \notin Closes])],
             Goto(c, "writing")
      PROVE  BooksInv'
  <2> DEFINE copied == [position[p] EXCEPT !.open = c \notin Closes]
             new == List(NoDraft.positions, p, copied)
  <2>1. p \in DOMAIN position /\ position[p].open
    BY DEF OpenFor
  <2>2. DOMAIN draft = Movers /\ Own(c)
    BY <1>1, BooksHaveOwn DEF BooksInv, DraftsInv
  <2>3. /\ DOMAIN draft' = Movers
        /\ \A d \in Movers : d # c => draft'[d] = draft[d]
        /\ draft'[c] = [draft[c] EXCEPT !.positions = new]
    BY <1>1, <1>3, <2>2
  <2>4. at'[c] = "writing" /\ \A d \in Movers : d # c => at'[d] = at[d]
    BY <1>1, <1>3, MoverStages DEF Goto
  <2>5. DOMAIN new = {p} /\ new[p] = copied
    BY DEF List, NoDraft
  <2> HIDE DEF new
  <2>6. /\ DOMAIN draft'[c] = {"positions", "listing", "portfolio"}
        /\ draft'[c].positions = new /\ draft'[c].portfolio = draft[c].portfolio
    BY <2>2, <2>3 DEF Own
  <2>7. ChangedDraft(c)'
    <3>1. draft[c].portfolio = Stranger
      BY <2>2 DEF Own, ChangedDraft
    <3>2. (c \notin Closes) \in BOOLEAN
      OBVIOUS
    <3> QED
      BY <1>1, <2>1, <2>4, <2>5, <2>6, <3>1, <3>2 DEF ChangedDraft
  <2>8. ChangedStill(c)'
    BY <1>1, <2>1, <2>5, <2>6 DEF ChangedStill
  <2>9. Own(c)'
    BY <2>6, <2>7, <2>8, MoversAreCalls DEF Own
  <2>10. serial => Alone'
    BY <1>1, <1>3, BeginsAlone DEF Goto
  <2> QED
    BY <1>1, <2>3, <2>4, <2>9, <2>10, MoversAreCalls, DraftStepKeepsBooks
<1> QED
  BY <1>2, <1>3 DEF ReadPosition

\* A commit extends the positions and changes of the others at most whether
\* they are open, so what the other calls rely on is kept.
LEMMA OthersKeep ==
    ASSUME BooksInv, NEW d \in Movers, draft'[d] = draft[d], at'[d] = at[d],
           \A p \in DOMAIN position :
              /\ p \in DOMAIN position'
              /\ \E open \in BOOLEAN : position'[p] = [position[p] EXCEPT !.open = open]
    PROVE  /\ d \in Opens => NewDraft(d)'
           /\ d \in Closes \union Reprices => ChangedDraft(d)'
<1>1. Own(d)
  BY BooksHaveOwn
<1>2. \A p \in DOMAIN position :
         /\ position[p] \in [symbol : Symbols, portfolio : Portfolios \union {Stranger}, open : BOOLEAN]
         /\ position'[p].symbol = position[p].symbol /\ position'[p].portfolio = position[p].portfolio
  <2> SUFFICES ASSUME NEW p \in DOMAIN position
               PROVE  /\ position[p] \in [symbol : Symbols, portfolio : Portfolios \union {Stranger},
                                         open : BOOLEAN]
                      /\ position'[p].symbol = position[p].symbol
                      /\ position'[p].portfolio = position[p].portfolio
    OBVIOUS
  <2>1. position[p] \in [symbol : Symbols, portfolio : Portfolios \union {Stranger}, open : BOOLEAN]
    BY DEF BooksInv, PositionsKept
  <2>2. PICK open \in BOOLEAN : position'[p] = [position[p] EXCEPT !.open = open]
    OBVIOUS
  <2> QED
    BY <2>1, <2>2
<1>3. ASSUME d \in Opens PROVE NewDraft(d)'
  <2>1. NewDraft(d)
    BY <1>1, <1>3 DEF Own
  <2> QED
    BY <1>2, <2>1 DEF NewDraft, NewPosition, NewListing, ListedFor
<1>4. ASSUME d \in Closes \union Reprices PROVE ChangedDraft(d)'
  <2>1. ChangedDraft(d)
    BY <1>1, <1>4 DEF Own
  <2>2. ASSUME at[d] = "writing"
        PROVE  \E p \in DOMAIN position', open \in BOOLEAN :
                  /\ DOMAIN draft'[d].positions = {p}
                  /\ draft'[d].positions[p] = [position'[p] EXCEPT !.open = open]
    <3>1. PICK p \in DOMAIN position, open \in BOOLEAN :
             /\ DOMAIN draft[d].positions = {p}
             /\ draft[d].positions[p] = [position[p] EXCEPT !.open = open]
      BY <2>1, <2>2 DEF ChangedDraft
    <3>2. PICK now \in BOOLEAN : position'[p] = [position[p] EXCEPT !.open = now]
      OBVIOUS
    <3>3. [position'[p] EXCEPT !.open = open] = [position[p] EXCEPT !.open = open]
      BY <1>2, <3>2
    <3> QED
      BY <3>1, <3>3
  <2> QED
    BY <2>1, <2>2 DEF ChangedDraft
<1> QED
  BY <1>3, <1>4

\* The commit of a new position and, if its portfolio exists, of the listing.
LEMMA CommitNewKeepsBooks ==
    ASSUME BusInv, BooksInv, NEW c \in Opens, Commit(c)
    PROVE  BooksInv'
<1> DEFINE f == draft[c].portfolio
           s == draft[c].positions[c].symbol
           written == draft[c].positions
<1>1. /\ at[c] = "writing" /\ UNCHANGED <<draft, serial>> /\ c \in Movers
      /\ at' = [at EXCEPT ![c] = "saved"]
      /\ position' = [p \in DOMAIN position \union DOMAIN written |->
                        IF p \in DOMAIN written THEN written[p] ELSE position[p]]
      /\ listing' = IF f \in Portfolios
                    THEN [listing EXCEPT ![f] = draft[c].listing] ELSE listing
  BY MoversAreCalls DEF Commit, Goto
<1>2. at'[c] = "saved" /\ \A d \in Movers : d # c => at'[d] = at[d]
  BY <1>1, MoverStages
<1>3. /\ Own(c) /\ NewDraft(c)
      /\ DOMAIN written = {c} /\ written[c] = Position(s, f)
      /\ s \in Symbols /\ f \in Portfolios \union {Stranger}
      /\ c \notin DOMAIN position
  BY <1>1, BooksHaveOwn DEF Own, NewDraft, NewPosition, BooksInv, PositionsKept
<1>4. /\ DOMAIN position' = DOMAIN position \union {c}
      /\ \A p \in DOMAIN position : position'[p] = position[p]
      /\ position'[c] = [symbol |-> s, portfolio |-> f, open |-> TRUE]
  BY <1>1, <1>3 DEF Position
<1>5. /\ f \in Portfolios =>
           /\ s \in DOMAIN draft[c].listing /\ draft[c].listing[s] = c
           /\ \A t \in DOMAIN draft[c].listing : t # s => ListedFor(draft[c].listing, t, f)
      /\ DOMAIN listing = Portfolios
  BY <1>1, <1>3 DEF NewDraft, NewListing, BooksInv, ListingInv
<1>6. /\ DOMAIN listing' = Portfolios
      /\ f \in Portfolios => listing'[f] = draft[c].listing
      /\ \A g \in Portfolios : g # f => listing'[g] = listing[g]
  BY <1>1, <1>5
<1> HIDE DEF f, s, written
<1>7. PositionsKept'
  <2>1. \A d \in Opens : d # c => at'[d] = at[d]
    BY <1>2, MoversAreCalls
  <2>2. \A p \in DOMAIN position' :
           position'[p] \in [symbol : Symbols, portfolio : Portfolios \union {Stranger}, open : BOOLEAN]
    <3>1. position'[c] \in [symbol : Symbols, portfolio : Portfolios \union {Stranger}, open : BOOLEAN]
      BY <1>3, <1>4
    <3>2. \A p \in DOMAIN position :
             position'[p] \in [symbol : Symbols, portfolio : Portfolios \union {Stranger}, open : BOOLEAN]
      BY <1>4 DEF BooksInv, PositionsKept
    <3> QED
      BY <1>4, <3>1, <3>2
  <2>3. DOMAIN position' \subseteq Opens
    BY <1>4 DEF BooksInv, PositionsKept
  <2>4. \A d \in Opens :
           /\ d \in DOMAIN position' => at'[d] \in {"saved", "publishing", "done", "lost"}
           /\ at'[d] \in {"saved", "publishing", "done"} => d \in DOMAIN position'
    BY <1>2, <1>4, <2>1 DEF BooksInv, PositionsKept
  <2> QED
    BY <2>2, <2>3, <2>4 DEF PositionsKept
<1>8. ListingInv'
  <2>1. ASSUME NEW g \in Portfolios, NEW t \in DOMAIN listing'[g]
        PROVE  ListedFor(listing[g], t, g)'
    <3>1. CASE g # f
      <4>1. ListedFor(listing[g], t, g) /\ listing'[g] = listing[g]
        BY <1>6, <2>1, <3>1 DEF BooksInv, ListingInv
      <4> QED
        BY <1>4, <4>1 DEF ListedFor
    <3>2. CASE g = f /\ t = s
      BY <1>3, <1>4, <1>5, <1>6, <3>2 DEF ListedFor
    <3>3. CASE g = f /\ t # s
      <4>1. ListedFor(listing'[g], t, g)
        BY <1>5, <1>6, <2>1, <3>3 DEF ListedFor
      <4> QED
        BY <1>4, <4>1 DEF ListedFor
    <3> QED
      BY <3>1, <3>2, <3>3
  <2>2. ASSUME NEW p \in DOMAIN position', position'[p].portfolio \in Portfolios
        PROVE  DOMAIN listing'[position'[p].portfolio] # {}
    <3>1. CASE position'[p].portfolio = f
      BY <1>5, <1>6, <2>2, <3>1
    <3>2. CASE position'[p].portfolio # f
      BY <1>4, <1>6, <2>2, <3>2 DEF BooksInv, ListingInv
    <3> QED
      BY <3>1, <3>2
  <2> QED
    BY <1>6, <2>1, <2>2 DEF ListingInv, ListedFor
<1>9. DraftsInv'
  <2>1. \A p \in DOMAIN position :
           /\ p \in DOMAIN position'
           /\ \E open \in BOOLEAN : position'[p] = [position[p] EXCEPT !.open = open]
    <3> SUFFICES ASSUME NEW p \in DOMAIN position
                 PROVE  position[p].open \in BOOLEAN
                        /\ position[p] = [position[p] EXCEPT !.open = position[p].open]
      BY <1>4
    <3> QED
      BY DEF BooksInv, PositionsKept
  <2>2. NewDraft(c)'
    BY <1>2 DEF NewDraft, NewPosition, NewListing
  <2>3. ASSUME NEW d \in Movers, d # c
        PROVE  /\ d \in Opens => NewDraft(d)'
               /\ d \in Closes \union Reprices => ChangedDraft(d)'
    BY <1>1, <1>2, <2>1, <2>3, OthersKeep
  <2>4. \A d \in Opens : NewDraft(d)'
    BY <2>2, <2>3, MoversAreCalls
  <2>5. \A d \in Closes \union Reprices : ChangedDraft(d)'
    BY <2>3, MoversAreCalls
  <2> QED
    BY <1>1, <2>4, <2>5 DEF BooksInv, DraftsInv
<1>10. SerialInv'
  <2> SUFFICES ASSUME serial
               PROVE  /\ Alone' /\ OneOpen' /\ StaysListed'
                      /\ \A d \in Opens :
                            NewStill(d, draft[d].positions[d].symbol, draft[d].portfolio)'
                      /\ \A d \in Closes \union Reprices : ChangedStill(d)'
    BY <1>1 DEF SerialInv
  <2>1. /\ Alone /\ OneOpen /\ StaysListed
        /\ NewStill(c, s, f)
    BY DEF BooksInv, SerialInv, s, f
  <2>2. \A d \in Movers : at'[d] \notin {"created", "writing"}
    BY <1>1, <1>2, <2>1 DEF Alone
  <2>3. OneOpen'
    BY <1>1, <1>4, <2>1 DEF OneOpen, NewStill
  <2>4. f \in Portfolios => s \notin DOMAIN listing[f] /\ draft[c].listing = List(listing[f], s, c)
    BY <1>1, <2>1 DEF NewStill
  <2>5. StaysListed'
    <3> SUFFICES ASSUME NEW p \in DOMAIN position', position'[p].portfolio \in Portfolios
                 PROVE  /\ position'[p].symbol \in DOMAIN listing'[position'[p].portfolio]
                        /\ listing'[position'[p].portfolio][position'[p].symbol] = p
      BY DEF StaysListed
    <3>1. CASE p = c
      BY <1>4, <1>5, <1>6, <3>1
    <3>2. CASE p # c
      <4>1. /\ p \in DOMAIN position /\ position'[p] = position[p]
            /\ position[p].symbol \in DOMAIN listing[position[p].portfolio]
            /\ listing[position[p].portfolio][position[p].symbol] = p
        BY <1>4, <2>1, <3>2 DEF StaysListed
      <4>2. CASE position[p].portfolio # f
        BY <1>6, <4>1, <4>2
      <4>3. CASE position[p].portfolio = f
        <5>1. listing'[f] = List(listing[f], s, c) /\ s \notin DOMAIN listing[f]
          BY <1>6, <2>4, <4>1, <4>3
        <5> QED
          BY <4>1, <4>3, <5>1 DEF List
      <4> QED
        BY <4>2, <4>3
    <3> QED
      BY <3>1, <3>2
  <2> QED
    BY <2>1, <2>2, <2>3, <2>5, MoversAreCalls DEF Alone, NewStill, ChangedStill
<1> QED
  BY <1>7, <1>8, <1>9, <1>10 DEF BooksInv

\* The commit of a position that was closed or repriced.
LEMMA CommitChangeKeepsBooks ==
    ASSUME BusInv, BooksInv, NEW c \in Closes \union Reprices, Commit(c)
    PROVE  BooksInv'
<1> DEFINE written == draft[c].positions
<1>1. /\ at[c] = "writing" /\ UNCHANGED <<draft, serial>> /\ c \in Movers /\ c \notin Opens
      /\ at' = [at EXCEPT ![c] = "saved"]
      /\ position' = [p \in DOMAIN position \union DOMAIN written |->
                        IF p \in DOMAIN written THEN written[p] ELSE position[p]]
      /\ listing' = IF draft[c].portfolio \in Portfolios
                    THEN [listing EXCEPT ![draft[c].portfolio] = draft[c].listing] ELSE listing
  BY MoversAreCalls DEF Commit, Goto
<1>2. at'[c] = "saved" /\ \A d \in Movers : d # c => at'[d] = at[d]
  BY <1>1, MoverStages
<1>3. Own(c) /\ ChangedDraft(c) /\ draft[c].portfolio = Stranger
  BY <1>1, BooksHaveOwn DEF Own, ChangedDraft
<1>4. listing' = listing
  BY <1>1, <1>3, MoversAreCalls
<1>5. PICK q \in DOMAIN position, shut \in BOOLEAN :
         DOMAIN written = {q} /\ written[q] = [position[q] EXCEPT !.open = shut]
  BY <1>1, <1>3 DEF ChangedDraft
<1>6. \A p \in DOMAIN position :
         position[p] \in [symbol : Symbols, portfolio : Portfolios \union {Stranger}, open : BOOLEAN]
  BY DEF BooksInv, PositionsKept
<1>7. /\ DOMAIN position' = DOMAIN position
      /\ \A p \in DOMAIN position : p # q => position'[p] = position[p]
      /\ position'[q] = [position[q] EXCEPT !.open = shut]
  BY <1>1, <1>5
<1>8. \A p \in DOMAIN position :
         /\ position'[p] \in [symbol : Symbols, portfolio : Portfolios \union {Stranger}, open : BOOLEAN]
         /\ position'[p].symbol = position[p].symbol /\ position'[p].portfolio = position[p].portfolio
  BY <1>6, <1>7
<1> HIDE DEF written
<1>9. PositionsKept'
  <2>1. \A d \in Opens : at'[d] = at[d]
    BY <1>1, <1>2, MoversAreCalls
  <2> QED
    BY <1>7, <1>8, <2>1 DEF BooksInv, PositionsKept
<1>10. ListingInv'
  BY <1>4, <1>7, <1>8 DEF BooksInv, ListingInv, ListedFor
<1>11. DraftsInv'
  <2>1. \A p \in DOMAIN position :
           /\ p \in DOMAIN position'
           /\ \E open \in BOOLEAN : position'[p] = [position[p] EXCEPT !.open = open]
    <3> SUFFICES ASSUME NEW p \in DOMAIN position
                 PROVE  \E open \in BOOLEAN : position'[p] = [position[p] EXCEPT !.open = open]
      BY <1>7
    <3>1. position[p].open \in BOOLEAN /\ position[p] = [position[p] EXCEPT !.open = position[p].open]
      BY <1>6
    <3> QED
      BY <1>7, <3>1
  <2>2. ChangedDraft(c)'
    BY <1>1, <1>2, <1>3 DEF ChangedDraft
  <2>3. ASSUME NEW d \in Movers, d # c
        PROVE  /\ d \in Opens => NewDraft(d)'
               /\ d \in Closes \union Reprices => ChangedDraft(d)'
    BY <1>1, <1>2, <2>1, <2>3, OthersKeep
  <2>4. \A d \in Opens : NewDraft(d)'
    BY <1>1, <2>3, MoversAreCalls
  <2>5. \A d \in Closes \union Reprices : ChangedDraft(d)'
    BY <2>2, <2>3, MoversAreCalls
  <2> QED
    BY <1>1, <2>4, <2>5 DEF BooksInv, DraftsInv
<1>12. SerialInv'
  <2> SUFFICES ASSUME serial
               PROVE  /\ Alone' /\ OneOpen' /\ StaysListed'
                      /\ \A d \in Opens :
                            NewStill(d, draft[d].positions[d].symbol, draft[d].portfolio)'
                      /\ \A d \in Closes \union Reprices : ChangedStill(d)'
    BY <1>1 DEF SerialInv
  <2>1. Alone /\ OneOpen /\ StaysListed /\ ChangedStill(c)
    BY DEF BooksInv, SerialInv
  <2>2. \A d \in Movers : at'[d] \notin {"created", "writing"}
    BY <1>1, <1>2, <2>1 DEF Alone
  <2>3. position[q].open
    BY <1>1, <1>5, <2>1 DEF ChangedStill, written
  <2>4. OneOpen'
    BY <1>7, <1>8, <2>1, <2>3 DEF OneOpen
  <2>5. StaysListed'
    BY <1>4, <1>7, <1>8, <2>1 DEF StaysListed
  <2> QED
    BY <2>1, <2>2, <2>4, <2>5, MoversAreCalls DEF Alone, NewStill, ChangedStill
<1> QED
  BY <1>9, <1>10, <1>11, <1>12 DEF BooksInv

LEMMA PositionsStepKeeps ==
    ASSUME BusInv, BooksInv, PositionsStep
    PROVE  BusInv' /\ BooksInv'
<1> USE DEF Goto
<1>1. ASSUME NEW c \in Opens, BeginOpen(c) PROVE BusInv' /\ BooksInv'
  <2>1. /\ at[c] = "idle" /\ UNCHANGED bus
        /\ at' = [at EXCEPT ![c] = "refused"] \/ at' = [at EXCEPT ![c] = "created"]
    BY <1>1 DEF BeginOpen, Begins
  <2> QED
    BY <1>1, <2>1, BeginOpenKeepsBooks, QuietKeepsBus, MoversAreCalls DEF Stages
<1>2. ASSUME NEW c \in Opens, AddToPortfolio(c) PROVE BusInv' /\ BooksInv'
  <2>1. /\ at[c] = "created" /\ UNCHANGED bus
        /\ at' = [at EXCEPT ![c] = "refused"] \/ at' = [at EXCEPT ![c] = "writing"]
    BY <1>2 DEF AddToPortfolio
  <2> QED
    BY <1>2, <2>1, AddToPortfolioKeepsBooks, QuietKeepsBus, MoversAreCalls DEF Stages
<1>3. ASSUME NEW c \in Closes \union Reprices, ReadPosition(c) PROVE BusInv' /\ BooksInv'
  <2>1. /\ at[c] = "idle" /\ UNCHANGED bus
        /\ at' = [at EXCEPT ![c] = "refused"] \/ at' = [at EXCEPT ![c] = "writing"]
    BY <1>3 DEF ReadPosition, Begins
  <2> QED
    BY <1>3, <2>1, ReadPositionKeepsBooks, QuietKeepsBus, MoversAreCalls DEF Stages
<1>4. ASSUME NEW c \in Movers, Commit(c) PROVE BusInv' /\ BooksInv'
  <2>1. BusInv'
    BY <1>4, QuietKeepsBus, MoversAreCalls DEF Commit, Stages
  <2> QED
    BY <1>4, <2>1, CommitNewKeepsBooks, CommitChangeKeepsBooks, MoversAreCalls
<1>5. ASSUME NEW c \in Movers, AnnouncePosition(c) PROVE BusInv' /\ BooksInv'
  <2>1. at[c] = "saved" /\ at' = [at EXCEPT ![c] = "publishing"] /\ UNCHANGED positions
    BY <1>5 DEF AnnouncePosition
  <2>2. PICK type \in EventTypes : Publish(c, type)
    BY <1>5 DEF AnnouncePosition
  <2>3. BusInv'
    BY <2>1, <2>2, PublishKeepsBus, MoversAreCalls
  <2> QED
    BY <2>1, <2>3, PlainStepKeepsBooks
<1>6. ASSUME NEW c \in Movers, Abandon(c) PROVE BusInv' /\ BooksInv'
  <2>1. BusInv'
    BY <1>6, GivingUpKeepsBus, MoversAreCalls DEF Abandon
  <2> QED
    BY <1>6, <2>1, PlainStepKeepsBooks DEF Abandon
<1> QED
  BY <1>1, <1>2, <1>3, <1>4, <1>5, <1>6 DEF PositionsStep, Movers

-----------------------------------------------------------------------------
(* The services over the bus *)

USE TradingAssumption

IInv == BusInv /\ DeskInv /\ BooksInv

LEMMA ServicesApart ==
    /\ Movers \intersect (Orders \union Cancels) = {}
    /\ Publishers \intersect (Movers \union Orders \union Cancels) = {}
  BY DEF Movers, Orders

\* A step of one call leaves the stages of the others.
LEMMA OtherStages ==
    ASSUME BusInv, NEW c, NEW stage, at' = [at EXCEPT ![c] = stage], NEW d \in Calls, d # c
    PROVE  at'[d] = at[d]
  BY DEF BusInv

LEMMA DeskStages ==
    ASSUME BusInv, DeskStep, NEW c \in Movers
    PROVE  at'[c] = at[c]
<1>1. c \in Calls /\ c \notin Orders /\ c \notin Cancels
  BY ServicesApart, MoversAreCalls
<1>2. \/ UNCHANGED at
      \/ \E o \in Orders \union Cancels, stage \in Stages : at' = [at EXCEPT ![o] = stage]
  BY DEF DeskStep, PlaceOrder, Execute, Ask, ExchangeAccepts, ExchangeRefuses, RecordOrder,
         AnnounceOrder, ExecutorCancels, ReadForCancel, CancelAtExchange, CancelRefused,
         RecordCancel, AnnounceCancel, GiveUp, Become, Stages
<1> QED
  BY <1>1, <1>2, OtherStages

LEMMA PositionsStages ==
    ASSUME BusInv, PositionsStep, NEW c \in Orders \union Cancels
    PROVE  at'[c] = at[c]
<1>1. c \in Calls /\ c \notin Movers
  BY ServicesApart, OrdersAreCalls
<1>2. \E d \in Movers, stage \in Stages : at' = [at EXCEPT ![d] = stage]
  BY DEF PositionsStep, BeginOpen, AddToPortfolio, ReadPosition, Commit, AnnouncePosition, Abandon,
         Goto, Stages, Movers
<1> QED
  BY <1>1, <1>2, OtherStages

LEMMA InitIInv == Init => IInv
  BY BusInitInv, DeskInitInv, BooksInitInv DEF Init, IInv

LEMMA StepIInv == IInv /\ [Next]_vars => IInv'
<1> SUFFICES ASSUME IInv, [Next]_vars PROVE IInv'
  OBVIOUS
<1>1. BusInv /\ DeskInv /\ BooksInv
  BY DEF IInv
<1>2. CASE DeskStep /\ UNCHANGED positions
  BY <1>1, <1>2, DeskStepKeeps, DeskStages, ElsewhereKeepsBooks DEF IInv
<1>3. CASE PositionsStep /\ UNCHANGED desk
  BY <1>1, <1>3, PositionsStepKeeps, PositionsStages, ElsewhereKeepsDesk DEF IInv
<1>4. ASSUME UNCHANGED <<desk, positions>>, BusInv',
             \A c \in Orders \union Cancels \union Movers :
                at'[c] = at[c] \/ (at[c] = "publishing" /\ at'[c] = "done")
      PROVE  IInv'
  BY <1>1, <1>4, ElsewhereKeepsDesk, ElsewhereKeepsBooks DEF IInv
<1>5. CASE Subscription /\ UNCHANGED <<desk, positions>>
  <2>1. PICK type \in Observed :
          (\E o \in Objects : Subscribe(o, type)) \/ (\E h \in Handlers : Unsubscribe(h, type))
    BY <1>5 DEF Subscription
  <2>2. type \in Types
    BY DEF Types
  <2>3. BusInv' /\ UNCHANGED at
    BY <1>1, <2>1, <2>2, SubscribeKeepsBus, UnsubscribeKeepsBus DEF Subscribe, Unsubscribe
  <2> QED
    BY <1>4, <1>5, <2>3
<1>6. ASSUME NEW c \in Publishers, Announce(c), UNCHANGED <<desk, positions>> PROVE IInv'
  <2>1. at[c] = "idle" /\ at' = [at EXCEPT ![c] = "publishing"]
    BY <1>6 DEF Announce
  <2>2. PICK type \in EventTypes : Publish(c, type)
    BY <1>6 DEF Announce
  <2>3. BusInv'
    BY <1>1, <2>1, <2>2, PublishKeepsBus
  <2>4. \A d \in Orders \union Cancels \union Movers : at'[d] = at[d]
    BY <1>1, <2>1, OtherStages, ServicesApart, OrdersAreCalls, MoversAreCalls
  <2> QED
    BY <1>4, <1>6, <2>3, <2>4
<1>7. ASSUME NEW c \in Calls, CallHandler(c) \/ Published(c), UNCHANGED <<desk, positions>>
      PROVE  IInv'
  <2>1. BusInv'
    BY <1>1, <1>7, DeliveryKeepsBus
  <2>2. \A d \in Orders \union Cancels \union Movers :
           at'[d] = at[d] \/ (at[d] = "publishing" /\ at'[d] = "done")
    BY <1>1, <1>7, DeliveryStages, OrdersAreCalls, MoversAreCalls
  <2> QED
    BY <1>4, <1>7, <2>1, <2>2
<1>8. CASE UNCHANGED vars
  <2>1. UNCHANGED <<at, bus, desk, positions>>
    BY <1>8 DEF vars
  <2>2. BusInv'
    BY <1>1, <2>1 DEF BusInv, BusTypeOK, Counted, Covered, Delivered, bus, Listed
  <2> QED
    BY <1>4, <2>1, <2>2
<1> QED
  BY <1>2, <1>3, <1>5, <1>6, <1>7, <1>8 DEF Next, Delivery

-----------------------------------------------------------------------------
(* What the services and the bus promise *)

\* The strengthening of the four properties below is inductive.
THEOREM Invariance == Spec => []IInv
  BY InitIInv, StepIInv, PTL DEF Spec

\* InMemoryEventBus.publish(): an object subscribed to the event's type is called
\* once, for any number of publications and whatever is subscribed and withdrawn;
\* a bound method is as many objects as it was subscribed as.
THEOREM EventsAreHeardOnce == Spec => []SubscriberHearsOnce
<1>1. IInv => SubscriberHearsOnce
  <2> SUFFICES ASSUME BusInv, NEW c \in Calls, NEW o \in Objects
               PROVE  /\ heard[c][o] <= 1
                      /\ at[c] = "done" /\ o \in audience[c] => heard[c][o] = 1
    BY DEF IInv, SubscriberHearsOnce
  <2>1. heard[c][o] \in Nat /\ calling[c][o] \in Nat /\ heard[c][o] + calling[c][o] <= 1
    BY DEF BusInv, BusTypeOK, Delivered
  <2> QED
    BY <2>1 DEF BusInv, Delivered
<1> QED
  BY <1>1, Invariance, PTL

\* OrderService and OrderExecutor: the table knows what the exchange accepted,
\* but for the losses the property names.
THEOREM AcceptedOrdersAreRecorded == Spec => []AcceptedIsRecorded
<1>1. IInv => AcceptedIsRecorded
  <2> SUFFICES ASSUME BusInv, DeskInv, NEW o \in Orders,
                      name[o] \in DOMAIN book, book[name[o]] # "CANCELLED"
               PROVE  \/ at[o] \in {"accepted", "lost"}
                      \/ o \in DOMAIN row /\ row[o].exchange = name[o]
                      \/ o \in ExecutorOrders /\ row[o].status = "CANCELLED"
    BY DEF IInv, AcceptedIsRecorded
  <2>1. at[o] \in {"accepted", "committed", "publishing", "done", "lost"}
    BY DEF DeskInv, BookInv
  <2> QED
    BY <2>1 DEF DeskInv, RowsInv
<1> QED
  BY <1>1, Invariance, PTL

\* OrderService: an event about an order is published after its transaction, and
\* stays true of the table.
THEOREM AnnouncedOrdersAreRecorded == Spec => []AnnouncedIsRecorded
<1>1. IInv => AnnouncedIsRecorded
  <2>1. ASSUME DeskInv, NEW o \in ServiceOrders, at[o] \in {"publishing", "done"}
        PROVE  /\ o \in DOMAIN row /\ row[o].exchange = name[o]
               /\ name[o] \in DOMAIN book
    BY <2>1, OrdersAreCalls DEF DeskInv, RowsInv, BookInv
  <2>2. ASSUME DeskInv, NEW c \in Cancels, at[c] \in {"publishing", "done"}
        PROVE  /\ book[copy[c].order] = "CANCELLED"
               /\ copy[c].order \in ServiceOrders => row[copy[c].order].status = "CANCELLED"
    BY <2>2 DEF DeskInv, CancelsInv, CancelInv
  <2> QED
    BY <2>1, <2>2 DEF IInv, AnnouncedIsRecorded
<1> QED
  BY <1>1, Invariance, PTL

\* PortfolioService: portfolios and positions agree, for any interleaving of
\* transactions, and more where the database runs them one after another.
THEOREM PortfoliosAgree == Spec => []PortfolioAgrees
<1>1. IInv => PortfolioAgrees
  <2> SUFFICES ASSUME BooksInv PROVE PortfolioAgrees
    BY DEF IInv
  <2>1. \A f \in Portfolios : \A s \in DOMAIN listing[f] :
           LET p == listing[f][s]
           IN  /\ p \in DOMAIN position
               /\ position[p].symbol = s /\ position[p].portfolio = f
    BY DEF BooksInv, ListingInv, ListedFor
  <2>2. \A c \in Opens : at[c] \in {"publishing", "done"} => c \in DOMAIN position
    BY DEF BooksInv, PositionsKept
  <2>3. \A p \in DOMAIN position : position[p].portfolio \in Portfolios =>
           DOMAIN listing[position[p].portfolio] # {}
    BY DEF BooksInv, ListingInv
  <2>4. ASSUME serial, NEW s \in Symbols PROVE Cardinality(OpenFor(s)) <= 1
    <3>1. \A p, q \in OpenFor(s) : p = q
      BY <2>4 DEF BooksInv, SerialInv, OneOpen, OpenFor
    <3>2. CASE OpenFor(s) = {}
      BY <3>2, FS_EmptySet
    <3>3. CASE OpenFor(s) # {}
      <4>1. PICK p \in OpenFor(s) : OpenFor(s) = {p}
        BY <3>1, <3>3
      <4>2. Cardinality({p}) = 1
        BY FS_Singleton
      <4> QED
        BY <4>1, <4>2
    <3> QED
      BY <3>2, <3>3
  <2>5. ASSUME serial, NEW p \in DOMAIN position, position[p].portfolio \in Portfolios
        PROVE  listing[position[p].portfolio][position[p].symbol] = p
    BY <2>5 DEF BooksInv, SerialInv, StaysListed
  <2> QED
    BY <2>1, <2>2, <2>3, <2>4, <2>5 DEF PortfolioAgrees
<1> QED
  BY <1>1, Invariance, PTL
=============================================================================
