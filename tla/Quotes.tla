------------------------------- MODULE Quotes --------------------------------
(***************************************************************************)
(* The trades and the tickers of one symbol, from the stream and from REST *)
(* snapshots, through NormalizationPipeline to the ticker cache of the     *)
(* store.  Whoever hands a message to process() persists what it emits     *)
(* before he takes the next one, but the stream and the snapshots are two  *)
(* callers, each of which may be overtaken between the two.                *)
(***************************************************************************)
EXTENDS Payload, Naturals, Sequences

CONSTANTS
    TradeDedupe,    \* max_trade_dedupe
    MaxTrade,       \* bound: trade ids
    MaxMoment,      \* bound: the exchange's clock
    MaxMessages,    \* bound: messages received
    MaxRestarts,    \* bound: restarts of the process
    NoTicker        \* a model value

Trades == [id : Int, signature : Int \X Int]
Tickers == [at : Int, sequence : Nat, bid : Int, ask : Int]

ASSUME QuotesAssumption ==
    /\ NoTicker \notin Tickers /\ TradeDedupe \in Nat \ {0} /\ MaxTrade \in Nat /\ MaxMoment \in Nat
    /\ MaxMessages \in Nat /\ MaxRestarts \in Nat

VARIABLES
    active,         \* _active_subscriptions, by kind
    trades,         \* _trades, oldest first
    latest,         \* _latest_ticker
    numbered,       \* the last receive_sequence of each caller's adapter
    unsaved,        \* the ticker a caller has still to persist
    cache,          \* table tickers
    moment,         \* the exchange's clock
    received,       \* messages received
    restarts,       \* restarts so far
    emitted,        \* the trades this process has emitted: history
    saved           \* the tickers ever handed to the cache: history

pipeline == <<active, trades, latest>>
memory == <<pipeline, numbered, unsaved, emitted>>
quotesVars == <<memory, cache, moment, received, restarts, saved>>

Feeds == {"websocket", "rest_snapshot"}

QuotesTypeOK ==
    /\ active \subseteq {"trade", "ticker"} /\ numbered \in [Feeds -> Nat]
    /\ trades \in Seq(Trades) /\ emitted \in Seq(Trades)
    /\ latest \in Tickers \cup {NoTicker} /\ unsaved \in [Feeds -> Tickers \cup {NoTicker}]
    /\ cache \in Tickers \cup {NoTicker} /\ saved \subseteq Tickers
    /\ moment \in Nat /\ received \in Nat /\ restarts \in Nat

QuotesMemoryInit ==
    /\ active = {} /\ trades = <<>> /\ latest = NoTicker
    /\ numbered = [c \in Feeds |-> 0] /\ unsaved = [c \in Feeds |-> NoTicker]
    /\ emitted = <<>>

QuotesInit ==
    /\ QuotesMemoryInit
    /\ cache = NoTicker /\ moment = 0 /\ received = 0 /\ restarts = 0 /\ saved = {}

-----------------------------------------------------------------------------
(* The pipeline *)

\* _validate_identity(): without any subscription nothing is held against an event.
Expected(kind) == active = {} \/ kind \in active

\* Mutant of Remembering: one trade too many is forgotten.
RememberingLess(trade) ==
    IF Len(trades) + 1 >= TradeDedupe THEN Tail(Append(trades, trade)) ELSE Append(trades, trade)

Remembering(trade) ==
    IF Len(trades) + 1 > TradeDedupe THEN Tail(Append(trades, trade)) ELSE Append(trades, trade)

\* A trade that is remembered is a duplicate, or a conflict that is quarantined.
FreshTrade(trade) == \A i \in DOMAIN trades : trades[i].id # trade.id

AcceptTrade(trade) ==
    /\ FreshTrade(trade)
    /\ trades' = Remembering(trade) /\ emitted' = Append(emitted, trade)
    /\ UNCHANGED <<latest, unsaved>>

\* Whether a ticker is newer than another: by its time, then by its number.
Newer(ticker, other) ==
    \/ ticker.at > other.at
    \/ ticker.at = other.at /\ ticker.sequence > other.sequence

NewerThanLatest(ticker) == latest # NoTicker => Newer(ticker, latest)

AcceptTicker(feed, ticker) ==
    /\ NewerThanLatest(ticker)
    /\ latest' = ticker /\ unsaved' = [unsaved EXCEPT ![feed] = ticker]
    /\ UNCHANGED <<trades, emitted>>

\* Ignored, quarantined and duplicate messages leave no trace.
Discard(payload, ticker) ==
    /\ \/ KindOf(payload) = "none"
       \/ ~Expected(KindOf(payload))
       \/ KindOf(payload) = "trade" /\ ~FreshTrade(TradeOf(payload))
       \/ KindOf(payload) = "ticker" /\ ~NewerThanLatest(ticker)
    /\ UNCHANGED <<trades, emitted, latest, unsaved>>

\* process(), of the next message of a feed.
Take(feed, payload) ==
    LET ticker == TickerOf(payload, numbered[feed] + 1)
    IN  /\ received < MaxMessages /\ received' = received + 1
        /\ unsaved[feed] = NoTicker
        /\ numbered' = [numbered EXCEPT ![feed] = @ + 1]
        /\ \/ /\ KindOf(payload) = "trade" /\ Expected("trade")
              /\ AcceptTrade(TradeOf(payload))
           \/ /\ KindOf(payload) = "ticker" /\ Expected("ticker")
              /\ AcceptTicker(feed, ticker)
           \/ Discard(payload, ticker)
        /\ UNCHANGED <<active, cache, moment, restarts, saved>>

SetActive(kinds) ==
    /\ active' = kinds
    /\ UNCHANGED <<trades, latest, numbered, unsaved, emitted>>
    /\ UNCHANGED <<cache, moment, received, restarts, saved>>

-----------------------------------------------------------------------------
(* The exchange and the store *)

MomentPasses ==
    /\ moment < MaxMoment /\ moment' = moment + 1
    /\ UNCHANGED <<memory, cache, received, restarts, saved>>

\* A trade happens once, at one moment; a conflicting repetition has another price.
ReceiveTrade ==
    \E id \in 1..MaxTrade, price \in {1, 2} : Take("websocket", TradePayload(id, price, 0))

\* What is received was sent before, however late it is.
ReceiveTicker(feed) == \E at \in 0..moment : Take(feed, TickerPayload(at))

ReceiveFaulty ==
    \/ \E payload \in FaultyTrades(TradePayload(1, 1, 0)) : Take("websocket", payload)
    \/ \E feed \in Feeds, payload \in FaultyTickers(TickerPayload(moment)) : Take(feed, payload)

\* connect() begins to number anew.
Reconnect ==
    /\ numbered["websocket"] # 0 /\ unsaved["websocket"] = NoTicker
    /\ numbered' = [numbered EXCEPT !["websocket"] = 0]
    /\ UNCHANGED <<pipeline, unsaved, emitted, cache, moment, received, restarts, saved>>

\* Mutant of SetTickerCache: the last write wins, whatever it writes.
SetTickerCacheAlways(ticker) == cache' = ticker /\ saved' = saved \union {ticker}

\* set_ticker_cache(), one transaction.
SetTickerCache(ticker) ==
    /\ cache' = IF cache # NoTicker /\ Newer(cache, ticker) THEN cache ELSE ticker
    /\ saved' = saved \union {ticker}

Save(feed) ==
    /\ unsaved[feed] # NoTicker
    /\ SetTickerCache(unsaved[feed])
    /\ unsaved' = [unsaved EXCEPT ![feed] = NoTicker]
    /\ UNCHANGED <<pipeline, numbered, emitted, moment, received, restarts>>

\* The table survives, nothing else does.
Restart ==
    /\ restarts < MaxRestarts /\ restarts' = restarts + 1
    /\ active' = {} /\ trades' = <<>> /\ latest' = NoTicker
    /\ numbered' = [f \in Feeds |-> 0] /\ unsaved' = [f \in Feeds |-> NoTicker]
    /\ emitted' = <<>>
    /\ UNCHANGED <<cache, moment, received, saved>>

QuotesNext ==
    \/ ReceiveTrade \/ ReceiveFaulty \/ Reconnect \/ MomentPasses \/ Restart
    \/ \E feed \in Feeds : ReceiveTicker(feed) \/ Save(feed)
    \/ \E kinds \in SUBSET {"trade", "ticker"} : SetActive(kinds)

QuotesSpec == QuotesInit /\ [][QuotesNext]_quotesVars

-----------------------------------------------------------------------------
(* Properties *)

\* The pipeline emits a trade again only when at least as many others as it
\* remembers have been emitted in between, with whatever price it comes back.
TradesOnce ==
    \A i, j \in DOMAIN emitted :
        i < j /\ emitted[i].id = emitted[j].id => j - i > TradeDedupe

\* Over all restarts and reconnects, with the stream and the snapshots handing
\* their tickers over in any order, the cache holds the newest of them, and what
\* the pipeline takes for the newest is in the cache, older than it, or on its way.
TickerCurrent ==
    /\ \A ticker \in saved : cache # NoTicker /\ ~Newer(ticker, cache)
    /\ latest # NoTicker =>
         \/ \E feed \in Feeds : unsaved[feed] = latest
         \/ cache # NoTicker /\ ~Newer(latest, cache)
=============================================================================
