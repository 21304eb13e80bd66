---------------------------- MODULE PositionDesk ----------------------------
(***************************************************************************)
(* The portfolio service: each call is one transaction over the positions  *)
(* and the portfolios, then an event.  As for the orders, a transaction    *)
(* reads committed rows, one at a time, and writes whole rows, all of them *)
(* or none, when it commits.  The unit of work promises no isolation; the  *)
(* database may nevertheless run transactions one after another.           *)
(***************************************************************************)
EXTENDS EventBus

CONSTANTS
    Opens, Closes, Reprices,    \* calls of the three operations
    Symbols,
    Portfolios,
    Stranger                    \* a portfolio identifier nobody created

ASSUME PositionsAssumption ==
    /\ Opens \union Closes \union Reprices \subseteq Calls
    /\ Opens \intersect (Closes \union Reprices) = {}
    /\ Closes \intersect Reprices = {}
    /\ Stranger \notin Portfolios
    /\ {"PositionOpened", "PositionClosed", "PositionUpdated"} \subseteq EventTypes

VARIABLES
    position,   \* the positions table; a position is known by the call that opened it
    listing,    \* the positions of each portfolio, by symbol
    draft,      \* what each transaction has read or will write
    serial      \* the database runs one transaction at a time

positions == <<position, listing, draft, serial>>

NoListing == [s \in {} |-> CHOOSE p \in Opens : TRUE]
Position(s, f) == [symbol |-> s, portfolio |-> f, open |-> TRUE]
List(table, key, value) ==
    [k \in DOMAIN table \union {key} |-> IF k = key THEN value ELSE table[k]]
\* get_by_symbol(): an open position
OpenFor(s) == {p \in DOMAIN position : position[p].symbol = s /\ position[p].open}
NoDraft == [positions |-> [p \in {} |-> Position(CHOOSE s \in Symbols : TRUE, Stranger)],
            listing |-> NoListing, portfolio |-> Stranger]

PositionsInit ==
    /\ position = NoDraft.positions
    /\ listing = [f \in Portfolios |-> NoListing]
    /\ draft = [c \in Opens \union Closes \union Reprices |-> NoDraft]
    /\ serial \in BOOLEAN

Goto(c, stage) == at' = [at EXCEPT ![c] = stage]

\* The transaction of a call begins with its first read.
Begins(c) ==
    /\ at[c] = "idle"
    /\ serial => \A d \in Calls : at[d] \notin {"created", "writing"}

-----------------------------------------------------------------------------
BeginOpen(c) ==
    /\ c \in Opens /\ Begins(c)
    /\ \E s \in Symbols, f \in Portfolios \union {Stranger} :
         IF OpenFor(s) # {}
         THEN Goto(c, "refused") /\ UNCHANGED draft
         ELSE /\ draft' = [draft EXCEPT ![c] =
                             [positions |-> List(NoDraft.positions, c, Position(s, f)),
                              listing |-> NoListing, portfolio |-> f]]
              /\ Goto(c, "created")
    /\ UNCHANGED <<position, listing, serial, bus>>

\* Mutant of AddToPortfolio: a listed symbol is replaced.
ReplaceInPortfolio(c) ==
    LET f == draft[c].portfolio
        s == draft[c].positions[c].symbol
    IN  /\ at[c] = "created"
        /\ Goto(c, "writing")
        /\ IF f = Stranger
           THEN UNCHANGED draft
           ELSE draft' = [draft EXCEPT ![c].listing = List(listing[f], s, c)]
        /\ UNCHANGED <<position, listing, serial, bus>>

\* An unknown portfolio is passed over; add_position() refuses a symbol that
\* is listed, which rolls the position back.
AddToPortfolio(c) ==
    LET f == draft[c].portfolio
        s == draft[c].positions[c].symbol
    IN  /\ at[c] = "created"
        /\ IF f = Stranger
           THEN Goto(c, "writing") /\ UNCHANGED draft
           ELSE IF s \in DOMAIN listing[f]
           THEN Goto(c, "refused") /\ UNCHANGED draft
           ELSE /\ draft' = [draft EXCEPT ![c].listing = List(listing[f], s, c)]
                /\ Goto(c, "writing")
        /\ UNCHANGED <<position, listing, serial, bus>>

\* close() and update_price() on a copy; an exit time is what closes it.
ReadPosition(c) ==
    /\ c \in Closes \union Reprices /\ Begins(c)
    /\ \E s \in Symbols :
         IF OpenFor(s) = {}
         THEN Goto(c, "refused") /\ UNCHANGED draft
         ELSE \E p \in OpenFor(s) :
                /\ draft' = [draft EXCEPT ![c].positions =
                               List(NoDraft.positions, p,
                                    [position[p] EXCEPT !.open = c \notin Closes])]
                /\ Goto(c, "writing")
    /\ UNCHANGED <<position, listing, serial, bus>>

\* Closing a position leaves its portfolio as it is.
Commit(c) ==
    LET written == draft[c].positions
        f == draft[c].portfolio
    IN  /\ at[c] = "writing"
        /\ position' = [p \in DOMAIN position \union DOMAIN written |->
                          IF p \in DOMAIN written THEN written[p] ELSE position[p]]
        /\ listing' = IF f \in Portfolios
                      THEN [listing EXCEPT ![f] = draft[c].listing] ELSE listing
        /\ Goto(c, "saved")
        /\ UNCHANGED <<draft, serial, bus>>

AnnouncePosition(c) ==
    /\ at[c] = "saved"
    /\ Publish(c, IF c \in Opens THEN "PositionOpened"
                  ELSE IF c \in Closes THEN "PositionClosed" ELSE "PositionUpdated")
    /\ Goto(c, "publishing")
    /\ UNCHANGED positions

Abandon(c) ==
    /\ at[c] \in {"created", "writing", "saved", "publishing"}
    /\ Goto(c, "lost")
    /\ calling' = [calling EXCEPT ![c] = None]
    /\ UNCHANGED <<positions, registered, subscribed, heard, audience, changes>>

PositionsStep ==
    \/ \E c \in Opens : BeginOpen(c) \/ AddToPortfolio(c)
    \/ \E c \in Closes \union Reprices : ReadPosition(c)
    \/ \E c \in Opens \union Closes \union Reprices :
         Commit(c) \/ AnnouncePosition(c) \/ Abandon(c)

-----------------------------------------------------------------------------
(* Whatever the interleaving, a portfolio lists for each symbol a position *)
(* in that symbol that was opened for that portfolio and committed with    *)
(* the listing, and it lists one as soon as one was opened for it; what    *)
(* has been announced is committed.  If the database runs one transaction  *)
(* at a time, then besides at most one position in a symbol is open, and   *)
(* whatever was opened for a portfolio that exists stays listed there.     *)
PortfolioAgrees ==
    /\ \A f \in Portfolios : \A s \in DOMAIN listing[f] :
         LET p == listing[f][s]
         IN  /\ p \in DOMAIN position
             /\ position[p].symbol = s /\ position[p].portfolio = f
    /\ \A c \in Opens : at[c] \in {"publishing", "done"} => c \in DOMAIN position
    /\ \A p \in DOMAIN position : position[p].portfolio \in Portfolios =>
         DOMAIN listing[position[p].portfolio] # {}
    /\ serial =>
         /\ \A s \in Symbols : Cardinality(OpenFor(s)) <= 1
         /\ \A p \in DOMAIN position : position[p].portfolio \in Portfolios =>
              listing[position[p].portfolio][position[p].symbol] = p
=============================================================================
