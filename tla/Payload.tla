------------------------------- MODULE Payload -------------------------------
(***************************************************************************)
(* What BinanceSpotNormalizer makes of a trade, a ticker and a kline:      *)
(* which payloads become an event, and what the event says.  The payload   *)
(* of a ticker or a kline comes from the stream or from REST, with other   *)
(* names for its fields and another time as the time of the event.  A      *)
(* number is what its text stands for, a time a moment of the exchange's   *)
(* clock, for a kline one of the numbered boundaries of its interval, and  *)
(* Unreadable everything that is not of the type that is asked for, a      *)
(* payload over the size limit or not JSON included.                       *)
(***************************************************************************)
EXTENDS Integers

CONSTANTS
    Unreadable,     \* a model value
    OutOfRange      \* a model value: an integer no moment of the clock stands for

ASSUME PayloadAssumption == Unreadable \notin Int /\ OutOfRange \notin Int \cup {Unreadable}

TradePayload(id, price, at) ==
    [event |-> "trade", symbol |-> "own", at |-> at, id |-> id, price |-> price, quantity |-> 1]

\* `at` is "E" on the stream and "closeTime" in a snapshot; `opened` begins the window.
TickerPayload(at) ==
    [event |-> "ticker", symbol |-> "own", at |-> at, opened |-> at - 1,
     bid |-> 1, ask |-> 2, price |-> [open |-> 1, high |-> 2, low |-> 1, last |-> 2],
     amounts |-> <<1, 0, 1, 0, 1>>, trades |-> 1, ids |-> <<1, 1>>]

\* _from_ws_kline(): `closed` is "x"; the close is the moment after "T".
StreamedKline(slot) ==
    [form |-> "object", symbol |-> "own", closed |-> TRUE, open |-> slot, close |-> slot + 1,
     at |-> slot + 1, price |-> [open |-> 1, high |-> 2, low |-> 1, last |-> 2],
     amounts |-> <<1, 0, 1, 0>>, trades |-> 1]

\* _from_rest_kline(): a row has no symbol and no mark, and its time is its close.
RestKline(slot) == [StreamedKline(slot) EXCEPT !.form = "row"]

\* What a payload may be instead: the faults that the checks name, one each.
FaultyTrades(trade) ==
    {Unreadable, [trade EXCEPT !.event = "aggTrade"], [trade EXCEPT !.symbol = "other"],
     [trade EXCEPT !.at = Unreadable], [trade EXCEPT !.at = OutOfRange], [trade EXCEPT !.id = Unreadable],
     [trade EXCEPT !.price = 0], [trade EXCEPT !.quantity = Unreadable]}

FaultyTickers(ticker) ==
    {[ticker EXCEPT !.symbol = "other"], [ticker EXCEPT !.at = ticker.opened - 1],
     [ticker EXCEPT !.bid = 3], [ticker EXCEPT !.price.last = 0],
     [ticker EXCEPT !.price.high = 1], [ticker EXCEPT !.price.low = 2],
     [ticker EXCEPT !.amounts[2] = -1], [ticker EXCEPT !.trades = -1],
     [ticker EXCEPT !.ids[1] = Unreadable]}

FaultyKlines(kline) ==
    {[kline EXCEPT !.form = Unreadable], [kline EXCEPT !.at = Unreadable],
     [kline EXCEPT !.open = OutOfRange],
     [kline EXCEPT !.open = Unreadable], [kline EXCEPT !.close = @ + 1],
     [kline EXCEPT !.price.open = 0], [kline EXCEPT !.price.high = 1],
     [kline EXCEPT !.price.low = 3], [kline EXCEPT !.amounts[4] = -1],
     [kline EXCEPT !.trades = Unreadable]}
    \cup IF kline.form = "row" THEN {}
         ELSE {[kline EXCEPT !.closed = FALSE], [kline EXCEPT !.symbol = "other"]}

-----------------------------------------------------------------------------
Number(text) == text \in Int
NonNegative(text) == Number(text) /\ text >= 0
Positive(text) == Number(text) /\ text > 0

\* The payload's symbol is that of the stream, and every time is one.
Identified(payload) == payload.symbol = "own" /\ Number(payload.at)

\* _from_trade(), and the contract of a TradeEvent.
TradeIsSound(trade) ==
    /\ Identified(trade) /\ Number(trade.id)
    /\ Positive(trade.price) /\ Positive(trade.quantity)

\* _ticker(), and the contract of a TickerEvent.
TickerIsSound(ticker) ==
    /\ Identified(ticker) /\ Number(ticker.opened) /\ ticker.opened <= ticker.at
    /\ \A i \in DOMAIN ticker.ids : Number(ticker.ids[i])
    /\ \A i \in DOMAIN ticker.amounts : NonNegative(ticker.amounts[i])
    /\ NonNegative(ticker.trades)
    /\ Positive(ticker.bid) /\ Positive(ticker.ask) /\ ticker.bid <= ticker.ask
    /\ LET price == ticker.price
       IN  \A f \in DOMAIN price :
             /\ Positive(price[f])
             /\ price.low <= price[f] /\ price[f] <= price.high

\* _next_candle_open(), of an open that begins a kline.
NextBoundary(open) == open + 1

\* The contract of a CandleClosedEvent.
CandleContract(kline) ==
    /\ kline.close = NextBoundary(kline.open)
    /\ LET price == kline.price
       IN  \A f \in DOMAIN price :
             /\ Positive(price[f])
             /\ price.low <= price[f] /\ price[f] <= price.high
    /\ \A i \in DOMAIN kline.amounts : NonNegative(kline.amounts[i])
    /\ NonNegative(kline.trades)

\* _timestamp() of an integer that is no moment raises an error that process()
\* does not take for a faulty payload.
Raises(kline) ==
    /\ kline.form # Unreadable /\ kline.closed
    /\ OutOfRange \in {kline.at, kline.open, kline.close}

\* normalize() makes an event of it: an open kline is ignored, a faulty one refused.
KlineIsSound(kline) ==
    /\ kline.form # Unreadable /\ kline.closed
    /\ Identified(kline) /\ Number(kline.open) /\ Number(kline.close)
    /\ CandleContract(kline)

\* normalize(): the kind of the event it returns, if it returns one.  A time out of
\* range gives none either; its error ends the connection the payload came on.
KindOf(payload) ==
    IF payload = Unreadable \/ payload.event \notin {"trade", "ticker"} THEN "none"
    ELSE IF payload.event = "trade"
    THEN IF TradeIsSound(payload) THEN "trade" ELSE "none"
    ELSE IF TickerIsSound(payload) THEN "ticker" ELSE "none"

\* The parts of the events that the pipeline and the cache look at: the
\* identity and the signature of a trade, the order and the content of a ticker.
TradeOf(payload) == [id |-> payload.id, signature |-> <<payload.price, payload.at>>]

TickerOf(payload, receiveSequence) ==
    [at |-> payload.at, sequence |-> receiveSequence, bid |-> payload.bid, ask |-> payload.ask]
=============================================================================
