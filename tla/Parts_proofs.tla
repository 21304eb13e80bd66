---------------------------- MODULE Parts_proofs -----------------------------
(***************************************************************************)
(* Proofs about the parts that MCParts checks together and that share      *)
(* nothing.  Quotes, for every size of the memory of trades and every      *)
(* number of messages and restarts: the type invariant, that a remembered  *)
(* trade is not emitted again, and that the cache holds the newest ticker. *)
(* Verification, for any number of files, chunks and changes: that no      *)
(* verdict was never true.  HistoryRange, for every interval and size of a *)
(* page: that a repair brings each candle once and in order.  GapRecovery, *)
(* for any number of repairs, any capacity and any number of frames: its   *)
(* state keeps its type, every drop is reported, every frame is in one     *)
(* place and, when the history answers and the sink does not suspend, it   *)
(* implements OrderedIngress.                                              *)
(***************************************************************************)
EXTENDS GapRecovery, Quotes, Verification, HistoryRange, TLAPS, SequenceTheorems,
        FiniteSetTheorems, WellFoundedInduction

-----------------------------------------------------------------------------
(* Quotes *)

\* What becomes an event has the fields the pipeline looks at.
LEMMA EventsTyped ==
    ASSUME NEW payload
    PROVE  /\ KindOf(payload) = "trade" => TradeOf(payload) \in Trades
           /\ \A n \in Nat : KindOf(payload) = "ticker" => TickerOf(payload, n) \in Tickers
<1>1. KindOf(payload) = "trade" => TradeIsSound(payload)
  BY DEF KindOf
<1>2. KindOf(payload) = "ticker" => TickerIsSound(payload)
  BY DEF KindOf
<1>3. TradeIsSound(payload) => TradeOf(payload) \in Trades
  BY DEF TradeIsSound, TradeOf, Trades, Identified, Number, Positive
<1>4. ASSUME NEW n \in Nat, TickerIsSound(payload) PROVE TickerOf(payload, n) \in Tickers
  BY <1>4 DEF TickerIsSound, TickerOf, Tickers, Identified, Number, Positive
<1> QED
  BY <1>1, <1>2, <1>3, <1>4

\* The memory of the trades stays a sequence of trades.
LEMMA RememberingTyped ==
    ASSUME trades \in Seq(Trades), NEW trade \in Trades
    PROVE  Remembering(trade) \in Seq(Trades)
<1> DEFINE grown == Append(trades, trade)
<1>1. grown \in Seq(Trades) /\ grown # <<>>
  OBVIOUS
<1>2. Remembering(trade) = IF Len(trades) + 1 > TradeDedupe THEN Tail(grown) ELSE grown
  BY DEF Remembering
<1> HIDE DEF grown
<1> QED
  BY <1>1, <1>2

-----------------------------------------------------------------------------
(* Types *)

LEMMA QuotesInitTyped == QuotesInit => QuotesTypeOK
BY DEF QuotesInit, QuotesMemoryInit, QuotesTypeOK, Feeds

\* A message keeps every type, whatever it is.
LEMMA TakeTyped ==
    ASSUME QuotesTypeOK, NEW feed \in Feeds, NEW payload, Take(feed, payload)
    PROVE  QuotesTypeOK'
<1> DEFINE ticker == TickerOf(payload, numbered[feed] + 1)
           trade == TradeOf(payload)
<1>1. /\ numbered' \in [Feeds -> Nat] /\ received' \in Nat
      /\ UNCHANGED <<active, cache, moment, restarts, saved>>
  BY DEF Take, QuotesTypeOK
<1>2. CASE KindOf(payload) = "trade" /\ AcceptTrade(trade)
  <2>1. trade \in Trades
    BY <1>2, EventsTyped
  <2>2. trades' = Remembering(trade) /\ emitted' = Append(emitted, trade)
    BY <1>2 DEF AcceptTrade
  <2>3. trades' \in Seq(Trades) /\ emitted' \in Seq(Trades)
    BY <2>1, <2>2, RememberingTyped DEF QuotesTypeOK
  <2>4. UNCHANGED <<latest, unsaved>>
    BY <1>2 DEF AcceptTrade
  <2> QED
    BY <1>1, <2>3, <2>4 DEF QuotesTypeOK
<1>3. CASE KindOf(payload) = "ticker" /\ AcceptTicker(feed, ticker)
  <2>1. numbered[feed] + 1 \in Nat
    BY DEF QuotesTypeOK
  <2>2. ticker \in Tickers
    BY <1>3, <2>1, EventsTyped
  <2> HIDE DEF ticker
  <2>3. /\ latest' = ticker /\ unsaved' = [unsaved EXCEPT ![feed] = ticker]
        /\ UNCHANGED <<trades, emitted>>
    BY <1>3 DEF AcceptTicker
  <2> QED
    BY <1>1, <2>2, <2>3 DEF QuotesTypeOK
<1>4. CASE Discard(payload, ticker)
  BY <1>1, <1>4 DEF Discard, QuotesTypeOK
<1> QED
  BY <1>2, <1>3, <1>4 DEF Take

\* Whatever is received, it is taken from a feed.
LEMMA Received ==
    ASSUME ReceiveTrade \/ ReceiveFaulty \/ \E feed \in Feeds : ReceiveTicker(feed)
    PROVE  \E feed \in Feeds : \E payload : Take(feed, payload)
<1>1. "websocket" \in Feeds
  BY DEF Feeds
<1>2. CASE ReceiveTrade
  BY <1>1, <1>2 DEF ReceiveTrade
<1>3. CASE ReceiveFaulty
  BY <1>1, <1>3 DEF ReceiveFaulty
<1>4. CASE \E feed \in Feeds : ReceiveTicker(feed)
  BY <1>4 DEF ReceiveTicker
<1> QED
  BY <1>2, <1>3, <1>4

\* Every step keeps the types.
LEMMA QuotesStepTyped ==
    ASSUME QuotesTypeOK, [QuotesNext]_quotesVars
    PROVE  QuotesTypeOK'
<1>1. CASE ReceiveTrade \/ ReceiveFaulty \/ \E feed \in Feeds : ReceiveTicker(feed)
  BY <1>1, Received, TakeTyped
<1>2. CASE Reconnect
  BY <1>2 DEF Reconnect, pipeline, QuotesTypeOK, Feeds
<1>3. CASE MomentPasses
  BY <1>3 DEF MomentPasses, memory, pipeline, QuotesTypeOK
<1>4. CASE Restart
  BY <1>4 DEF Restart, QuotesTypeOK, Feeds
<1>5. ASSUME NEW feed \in Feeds, Save(feed) PROVE QuotesTypeOK'
  <2>1. unsaved[feed] \in Tickers
    BY <1>5 DEF Save, QuotesTypeOK
  <2>2. cache' \in Tickers /\ saved' \subseteq Tickers
    BY <1>5, <2>1 DEF Save, SetTickerCache, QuotesTypeOK
  <2>3. unsaved' \in [Feeds -> Tickers \cup {NoTicker}]
    BY <1>5 DEF Save, QuotesTypeOK
  <2> QED
    BY <1>5, <2>2, <2>3 DEF Save, pipeline, QuotesTypeOK
<1>6. ASSUME NEW kinds \in SUBSET {"trade", "ticker"}, SetActive(kinds) PROVE QuotesTypeOK'
  BY <1>6 DEF SetActive, QuotesTypeOK
<1>7. CASE UNCHANGED quotesVars
  BY <1>7 DEF quotesVars, memory, pipeline, QuotesTypeOK
<1> QED
  BY <1>1, <1>2, <1>3, <1>4, <1>5, <1>6, <1>7 DEF QuotesNext

\* Every reachable state is well-typed.
THEOREM QuotesTyped == QuotesSpec => []QuotesTypeOK
<1>1. QuotesInit => QuotesTypeOK
  BY QuotesInitTyped
<1>2. QuotesTypeOK /\ [QuotesNext]_quotesVars => QuotesTypeOK'
  BY QuotesStepTyped
<1> QED
  BY <1>1, <1>2, PTL DEF QuotesSpec

-----------------------------------------------------------------------------
(* Tickers *)

\* "No newer than" orders the tickers, without a choice between two of the
\* same time and number.
LEMMA NewerOrders ==
    ASSUME NEW a \in Tickers, NEW b \in Tickers, NEW c \in Tickers
    PROVE  /\ ~Newer(a, a)
           /\ ~Newer(a, b) \/ ~Newer(b, a)
           /\ ~Newer(a, b) /\ ~Newer(b, c) => ~Newer(a, c)
BY DEF Newer, Tickers

\* The two parts of TickerCurrent.
CacheIsNewest == \A ticker \in saved : cache # NoTicker /\ ~Newer(ticker, cache)

LatestIsComing ==
    latest # NoTicker =>
        \/ \E feed \in Feeds : unsaved[feed] = latest
        \/ cache # NoTicker /\ ~Newer(latest, cache)

\* A message either changes nothing of the tickers or adds one to be persisted.
LEMMA TakeKeepsCurrent ==
    ASSUME QuotesTypeOK, CacheIsNewest, LatestIsComing,
           NEW feed \in Feeds, NEW payload, Take(feed, payload)
    PROVE  CacheIsNewest' /\ LatestIsComing'
<1> DEFINE ticker == TickerOf(payload, numbered[feed] + 1)
<1>1. UNCHANGED <<cache, saved>>
  BY DEF Take
<1>2. CacheIsNewest'
  BY <1>1 DEF CacheIsNewest, Newer
<1>3. CASE UNCHANGED <<latest, unsaved>>
  BY <1>1, <1>2, <1>3 DEF LatestIsComing, Newer
<1>4. CASE AcceptTicker(feed, ticker)
  <2>1. latest' = ticker /\ unsaved' = [unsaved EXCEPT ![feed] = ticker]
    BY <1>4 DEF AcceptTicker
  <2> HIDE DEF ticker
  <2>2. unsaved'[feed] = latest'
    BY <2>1 DEF QuotesTypeOK
  <2> QED
    BY <1>2, <2>2 DEF LatestIsComing
<1>5. UNCHANGED <<latest, unsaved>> \/ AcceptTicker(feed, ticker)
  BY DEF Take, AcceptTrade, Discard
<1> QED
  BY <1>3, <1>4, <1>5

\* What is persisted becomes the newest, or finds a newer one in the cache.
LEMMA SaveKeepsCurrent ==
    ASSUME QuotesTypeOK, CacheIsNewest, LatestIsComing, NEW feed \in Feeds, Save(feed)
    PROVE  CacheIsNewest' /\ LatestIsComing'
<1> DEFINE ticker == unsaved[feed]
<1>1. ticker \in Tickers /\ saved \subseteq Tickers /\ cache \in Tickers \cup {NoTicker}
  BY DEF Save, QuotesTypeOK
<1>2. /\ cache' = IF cache # NoTicker /\ Newer(cache, ticker) THEN cache ELSE ticker
      /\ saved' = saved \union {ticker}
      /\ unsaved' = [unsaved EXCEPT ![feed] = NoTicker]
      /\ latest' = latest
  BY DEF Save, SetTickerCache, pipeline
<1>3. ticker # NoTicker
  BY DEF Save
<1> HIDE DEF ticker
<1>4. cache' \in Tickers /\ cache' # NoTicker /\ ~Newer(ticker, cache')
  BY <1>1, <1>2, <1>3, NewerOrders
<1>5. cache # NoTicker => ~Newer(cache, cache')
  BY <1>1, <1>2, <1>4, NewerOrders
<1>6. ASSUME NEW other \in saved' PROVE ~Newer(other, cache')
  <2>1. CASE other = ticker
    BY <1>4, <2>1
  <2>2. CASE other \in saved
    <3>1. cache # NoTicker /\ ~Newer(other, cache)
      BY <2>2 DEF CacheIsNewest
    <3> QED
      BY <1>1, <1>4, <1>5, <2>2, <3>1, NewerOrders
  <2> QED
    BY <1>2, <1>6, <2>1, <2>2
<1>7. CacheIsNewest'
  BY <1>4, <1>6 DEF CacheIsNewest, Newer
<1>8. LatestIsComing'
  <2> SUFFICES ASSUME latest # NoTicker
               PROVE  (\E f \in Feeds : unsaved'[f] = latest) \/ ~Newer(latest, cache')
    BY <1>2, <1>4 DEF LatestIsComing, Newer
  <2>1. CASE latest = ticker
    BY <1>4, <2>1
  <2>2. ASSUME NEW f \in Feeds, f # feed, unsaved[f] = latest PROVE unsaved'[f] = latest
    BY <1>2, <2>2 DEF QuotesTypeOK
  <2>3. CASE cache # NoTicker /\ ~Newer(latest, cache)
    <3>1. latest \in Tickers
      BY DEF QuotesTypeOK
    <3> QED
      BY <1>1, <1>4, <1>5, <2>3, <3>1, NewerOrders
  <2> QED
    BY <2>1, <2>2, <2>3 DEF LatestIsComing, ticker
<1> QED
  BY <1>7, <1>8

\* The cache holds the newest of all tickers ever handed to it, over restarts and
\* reconnects, and the newest the pipeline has accepted is there or on its way.
THEOREM QuotesTickerCurrent == QuotesSpec => []TickerCurrent
<1>1. QuotesInit => CacheIsNewest /\ LatestIsComing
  BY DEF QuotesInit, QuotesMemoryInit, CacheIsNewest, LatestIsComing
<1>2. ASSUME QuotesTypeOK, CacheIsNewest, LatestIsComing, [QuotesNext]_quotesVars
      PROVE  CacheIsNewest' /\ LatestIsComing'
  <2>1. CASE ReceiveTrade \/ ReceiveFaulty \/ \E feed \in Feeds : ReceiveTicker(feed)
    BY <1>2, <2>1, Received, TakeKeepsCurrent
  <2>2. CASE \E feed \in Feeds : Save(feed)
    BY <1>2, <2>2, SaveKeepsCurrent
  <2>3. CASE UNCHANGED <<cache, saved, latest, unsaved>>
    BY <1>2, <2>3 DEF CacheIsNewest, LatestIsComing, Newer
  <2>4. CASE Restart
    BY <1>2, <2>4 DEF Restart, CacheIsNewest, LatestIsComing, Newer
  <2>5. \/ ReceiveTrade \/ ReceiveFaulty \/ \E feed \in Feeds : ReceiveTicker(feed)
        \/ \E feed \in Feeds : Save(feed)
        \/ UNCHANGED <<cache, saved, latest, unsaved>>
        \/ Restart
    BY <1>2 DEF QuotesNext, Reconnect, MomentPasses, SetActive, quotesVars, memory, pipeline
  <2> QED
    BY <2>1, <2>2, <2>3, <2>4, <2>5
<1>3. CacheIsNewest /\ LatestIsComing => TickerCurrent
  BY DEF CacheIsNewest, LatestIsComing, TickerCurrent
<1> QED
  BY <1>1, <1>2, <1>3, QuotesTyped, PTL DEF QuotesSpec

-----------------------------------------------------------------------------
(* Trades *)

\* The memory holds the latest trades that were emitted, as many as it can.
MemoryIsLatest ==
    /\ Len(trades) <= TradeDedupe /\ Len(trades) <= Len(emitted)
    /\ Len(trades) = TradeDedupe \/ Len(trades) = Len(emitted)
    /\ \A k \in 1..Len(trades) : trades[k] = emitted[Len(emitted) - Len(trades) + k]

TradesInv == MemoryIsLatest /\ TradesOnce

\* A fresh trade moves the memory on by one.
LEMMA AcceptKeepsMemory ==
    ASSUME QuotesTypeOK, MemoryIsLatest, NEW trade \in Trades, AcceptTrade(trade)
    PROVE  MemoryIsLatest'
<1> DEFINE n == Len(trades)
           m == Len(emitted)
           grown == Append(trades, trade)
<1>1. /\ trades \in Seq(Trades) /\ emitted \in Seq(Trades) /\ n \in Nat /\ m \in Nat
      /\ TradeDedupe \in Nat \ {0}
  BY QuotesAssumption DEF QuotesTypeOK
<1>2. emitted' = Append(emitted, trade)
  BY DEF AcceptTrade
<1>3. /\ Len(emitted') = m + 1 /\ emitted'[m + 1] = trade
      /\ \A k \in 1..m : emitted'[k] = emitted[k]
  BY <1>1, <1>2
<1>4. /\ grown \in Seq(Trades) /\ Len(grown) = n + 1 /\ grown[n + 1] = trade
      /\ \A k \in 1..n : grown[k] = trades[k]
  BY <1>1
<1>5. trades' = IF n + 1 > TradeDedupe THEN Tail(grown) ELSE grown
  BY DEF AcceptTrade, Remembering
<1>6. /\ n <= TradeDedupe /\ n <= m /\ (n = TradeDedupe \/ n = m)
      /\ \A k \in 1..n : trades[k] = emitted[m - n + k]
  BY DEF MemoryIsLatest
<1> HIDE DEF n, m, grown
<1>7. \A k \in 1..(n + 1) : grown[k] = emitted'[m - n + k]
  <2> TAKE k \in 1..(n + 1)
  <2>1. CASE k = n + 1
    BY <1>1, <1>3, <1>4, <2>1
  <2>2. CASE k \in 1..n
    <3>1. m - n + k \in 1..m
      BY <1>1, <1>6, <2>2
    <3> QED
      BY <1>3, <1>4, <1>6, <2>2, <3>1
  <2> QED
    BY <1>1, <2>1, <2>2
<1>8. CASE n + 1 > TradeDedupe
  <2>1. n = TradeDedupe
    BY <1>1, <1>6, <1>8
  <2>2. trades' = Tail(grown)
    BY <1>5, <1>8
  <2>3. Len(trades') = n /\ \A k \in 1..n : trades'[k] = grown[k + 1]
    BY <1>1, <1>4, <2>1, <2>2
  <2>4. ASSUME NEW k \in 1..n PROVE trades'[k] = emitted'[(m + 1) - n + k]
    <3>1. k + 1 \in 1..(n + 1) /\ m - n + (k + 1) = (m + 1) - n + k
      BY <1>1, <2>4
    <3> QED
      BY <1>7, <2>3, <3>1
  <2>5. \A k \in 1..Len(trades') : trades'[k] = emitted'[Len(emitted') - Len(trades') + k]
    BY <1>3, <2>3, <2>4
  <2>6. /\ Len(trades') <= TradeDedupe /\ Len(trades') <= Len(emitted')
        /\ Len(trades') = TradeDedupe
    BY <1>1, <1>3, <1>6, <2>1, <2>3
  <2> QED
    BY <2>5, <2>6 DEF MemoryIsLatest
<1>9. CASE ~(n + 1 > TradeDedupe)
  <2>1. n = m /\ n + 1 <= TradeDedupe
    BY <1>1, <1>6, <1>9
  <2>2. trades' = grown
    BY <1>5, <1>9
  <2>3. Len(trades') = n + 1 /\ Len(emitted') = n + 1
    BY <1>3, <1>4, <2>1, <2>2
  <2>4. \A k \in 1..Len(trades') : trades'[k] = emitted'[Len(emitted') - Len(trades') + k]
    <3>1. ASSUME NEW k \in 1..(n + 1) PROVE trades'[k] = emitted'[(n + 1) - (n + 1) + k]
      <4>1. m - n + k = (n + 1) - (n + 1) + k
        BY <1>1, <2>1, <3>1
      <4> QED
        BY <1>7, <2>2, <3>1, <4>1
    <3> QED
      BY <2>3, <3>1
  <2>5. /\ Len(trades') <= TradeDedupe /\ Len(trades') <= Len(emitted')
        /\ Len(trades') = Len(emitted')
    BY <1>1, <2>1, <2>3
  <2> QED
    BY <2>4, <2>5 DEF MemoryIsLatest
<1> QED
  BY <1>8, <1>9

\* A trade is not emitted again while the memory holds it.
LEMMA AcceptKeepsOnce ==
    ASSUME QuotesTypeOK, TradesInv, NEW trade \in Trades, AcceptTrade(trade)
    PROVE  TradesOnce'
<1> DEFINE n == Len(trades)
           m == Len(emitted)
<1>1. /\ trades \in Seq(Trades) /\ emitted \in Seq(Trades) /\ n \in Nat /\ m \in Nat
      /\ TradeDedupe \in Nat \ {0}
  BY QuotesAssumption DEF QuotesTypeOK
<1>2. emitted' = Append(emitted, trade) /\ FreshTrade(trade)
  BY DEF AcceptTrade
<1>3. /\ DOMAIN emitted = 1..m /\ DOMAIN emitted' = 1..(m + 1) /\ emitted'[m + 1] = trade
      /\ \A k \in 1..m : emitted'[k] = emitted[k]
  BY <1>1, <1>2
<1>4. \A k \in 1..n : trades[k].id # trade.id
  BY <1>1, <1>2 DEF FreshTrade
<1>5. /\ n <= m /\ (n = TradeDedupe \/ n = m)
      /\ \A k \in 1..n : trades[k] = emitted[m - n + k]
  BY DEF TradesInv, MemoryIsLatest
<1> HIDE DEF n, m
<1>6. ASSUME NEW i \in 1..(m + 1), NEW j \in 1..(m + 1), i < j, emitted'[i].id = emitted'[j].id
      PROVE  j - i > TradeDedupe
  <2>1. CASE j \in 1..m
    <3>1. i \in 1..m /\ emitted[i].id = emitted[j].id
      BY <1>1, <1>3, <1>6, <2>1
    <3> QED
      BY <1>3, <1>6, <2>1, <3>1 DEF TradesInv, TradesOnce
  <2>2. CASE j = m + 1
    <3>1. i \in 1..m /\ emitted[i].id = trade.id
      BY <1>1, <1>3, <1>6, <2>2
    <3>2. ~(i > m - n)
      <4> SUFFICES ASSUME i > m - n PROVE FALSE
        OBVIOUS
      <4>1. i - (m - n) \in 1..n /\ m - n + (i - (m - n)) = i
        BY <1>1, <1>5, <3>1
      <4> QED
        BY <1>4, <1>5, <3>1, <4>1
    <3>3. n # m
      BY <1>1, <3>1, <3>2
    <3> QED
      BY <1>1, <1>5, <2>2, <3>1, <3>2, <3>3
  <2> QED
    BY <1>1, <2>1, <2>2
<1> QED
  BY <1>3, <1>6 DEF TradesOnce

\* A trade is emitted twice only with at least TradeDedupe others in between.
THEOREM QuotesTradesOnce == QuotesSpec => []TradesOnce
<1>1. QuotesInit => TradesInv
  BY QuotesAssumption DEF QuotesInit, QuotesMemoryInit, TradesInv, MemoryIsLatest, TradesOnce
<1>2. ASSUME QuotesTypeOK, TradesInv, [QuotesNext]_quotesVars PROVE TradesInv'
  <2>1. CASE UNCHANGED <<trades, emitted>>
    BY <1>2, <2>1 DEF TradesInv, MemoryIsLatest, TradesOnce
  <2>2. ASSUME NEW feed \in Feeds, NEW payload, Take(feed, payload) PROVE TradesInv'
    <3>1. CASE KindOf(payload) = "trade" /\ AcceptTrade(TradeOf(payload))
      <4>1. TradeOf(payload) \in Trades
        BY <3>1, EventsTyped
      <4> QED
        BY <1>2, <3>1, <4>1, AcceptKeepsMemory, AcceptKeepsOnce DEF TradesInv
    <3>2. \/ KindOf(payload) = "trade" /\ AcceptTrade(TradeOf(payload))
          \/ UNCHANGED <<trades, emitted>>
      BY <2>2 DEF Take, AcceptTicker, Discard
    <3> QED
      BY <2>1, <3>1, <3>2
  <2>3. CASE Restart
    BY <2>3, QuotesAssumption DEF Restart, TradesInv, MemoryIsLatest, TradesOnce
  <2>4. \/ ReceiveTrade \/ ReceiveFaulty \/ \E feed \in Feeds : ReceiveTicker(feed)
        \/ UNCHANGED <<trades, emitted>>
        \/ Restart
    BY <1>2 DEF QuotesNext, Reconnect, MomentPasses, SetActive, Save, quotesVars, memory,
       pipeline
  <2> QED
    BY <2>1, <2>2, <2>3, <2>4, Received
<1>3. TradesInv => TradesOnce
  BY DEF TradesInv
<1> QED
  BY <1>1, <1>2, <1>3, QuotesTyped, PTL DEF QuotesSpec

-----------------------------------------------------------------------------
(* Verification *)

\* The steps a verification can be at.
VerificationSteps == {"idle", "exists", "resolve", "kind", "open", "read", "done"}

\* The type invariant of the verification.
VerificationTyped ==
    /\ directory \in [Names -> Entries]
    /\ alone \in BOOLEAN
    /\ reading \in VerificationSteps
    /\ handle \in Seq(BOOLEAN) /\ digest \in Seq(BOOLEAN)
    /\ statuses \in Seq(Statuses)
    /\ exitCode \in 0..2
    /\ held \in [Names -> SUBSET Entries]

\* What may be said of a file that had these entries.
Truthful(status, entries) ==
    /\ status = "verified" => \E entry \in entries : entry.content = AsExpected
    /\ status = "mismatch" => \E entry \in entries : entry.content \in Contents \ {AsExpected}
    /\ status = "missing" => \E entry \in entries : entry.kind = "absent"

\* The history holds what is there now.
PresentIsHeld == \A n \in Names : directory[n] \in held[n]

\* There is a file to go on with until the last one has its report.
FilesAreLeft == reading \notin {"idle", "done"} => Len(statuses) < Last

\* What is read is one content the file had, and the digest is its beginning.
ReadsWhatItOpened ==
    IF reading = "read"
    THEN /\ handle \in Contents
         /\ \E entry \in held[This] : entry.content = handle
         /\ Len(digest) <= Chunks
         /\ \A k \in 1..Len(digest) : digest[k] = handle[k]
    ELSE digest = <<>>

ReportsAreTruthful ==
    /\ reading = "idle" => statuses = <<>>
    /\ Len(statuses) <= Listed
    /\ \A n \in 1..Len(statuses) : Truthful(statuses[n], held[n])

\* Success is said after the last report, when all of them are good.
SuccessIsEarned ==
    reading = "done" /\ exitCode = 0 =>
      Len(statuses) = Last /\ \A n \in 1..Last : statuses[n] = "verified"

\* The inductive invariant.
VerificationInv ==
    /\ VerificationTyped /\ PresentIsHeld /\ FilesAreLeft
    /\ ReadsWhatItOpened /\ ReportsAreTruthful /\ SuccessIsEarned

\* A file, or a link that leads out, has a content of that many chunks.
LEMMA EntriesHaveContents ==
    /\ AsExpected \in Contents
    /\ \A entry \in Entries : entry.kind \in {"file", "outside"} => entry.content \in Contents
<1>1. AsExpected \in Contents
  BY DEF AsExpected, Contents
<1> QED
  BY <1>1 DEF Entries

\* The file the next report is about is one of those named.
LEMMA ThereIsAFile ==
    ASSUME VerificationInv, reading \notin {"idle", "done"}
    PROVE  This \in Names /\ Len(statuses) \in Nat /\ Last \in Nat /\ Len(statuses) < Last /\ Last <= Listed
<1>1. Len(statuses) \in Nat
  BY DEF VerificationInv, VerificationTyped
<1>2. Last \in Nat /\ Last <= Listed
  BY VerificationAssumption DEF Last
<1>3. Len(statuses) < Last
  BY DEF VerificationInv, FilesAreLeft
<1> QED
  BY <1>1, <1>2, <1>3, VerificationAssumption DEF This, Names

\* A good overall status needs good reports only.
LEMMA OverallIsEarned ==
    ASSUME NEW found \in SUBSET Statuses, Overall(found) = "verified"
    PROVE  \A status \in found : status = "verified"
  BY DEF Overall, Statuses

\* A report that is truthful keeps the invariant.
LEMMA ReportKeeps ==
    ASSUME VerificationInv, reading \notin {"idle", "done"},
           NEW status \in Statuses, Truthful(status, held[This]), Report(status),
           UNCHANGED <<directory, alone, held, changes>>
    PROVE  VerificationInv'
<1> DEFINE length == Len(statuses)
<1>1. This \in Names /\ length \in Nat /\ Last \in Nat /\ length < Last /\ Last <= Listed
  BY ThereIsAFile
<1>2. statuses \in Seq(Statuses)
  BY DEF VerificationInv, VerificationTyped
<1>3. /\ statuses' \in Seq(Statuses) /\ Len(statuses') = length + 1
      /\ \A n \in 1..length : statuses'[n] = statuses[n]
      /\ statuses'[length + 1] = status
  BY <1>2 DEF Report
<1>4. Last' = Last
  BY DEF Last
<1>5. reading' \in {"done", "exists"} /\ handle' = <<>> /\ digest' = <<>>
  BY DEF Report
<1>6. exitCode' \in 0..2
  BY DEF Report, VerificationInv, VerificationTyped
<1>7. VerificationTyped'
  BY <1>3, <1>5, <1>6 DEF VerificationInv, VerificationTyped, VerificationSteps
<1>8. PresentIsHeld'
  BY DEF VerificationInv, PresentIsHeld
<1>9. reading' # "done" => length + 1 < Last
  BY <1>1 DEF Report, This
<1>10. FilesAreLeft'
  BY <1>3, <1>4, <1>5, <1>9 DEF FilesAreLeft
<1>11. ReadsWhatItOpened'
  BY <1>5 DEF ReadsWhatItOpened
<1>12. ReportsAreTruthful'
  <2>1. Len(statuses') <= Listed
    BY <1>1, <1>3, VerificationAssumption
  <2>6. reading' # "idle"
    BY <1>5
  <2>2. ASSUME NEW n \in 1..length PROVE Truthful(statuses'[n], held'[n])
    BY <1>3, <2>2 DEF VerificationInv, ReportsAreTruthful
  <2>3. Truthful(statuses'[length + 1], held'[length + 1])
    BY <1>3 DEF This
  <2>4. \A n \in 1..Len(statuses') : n \in 1..length \/ n = length + 1
    BY <1>1, <1>3
  <2>5. \A n \in 1..Len(statuses') : Truthful(statuses'[n], held'[n])
    BY <2>2, <2>3, <2>4
  <2> QED
    BY <2>1, <2>5, <2>6 DEF ReportsAreTruthful, Truthful
<1>13. SuccessIsEarned'
  <2> SUFFICES ASSUME reading' = "done", exitCode' = 0
               PROVE  Len(statuses') = Last /\ \A n \in 1..Last : statuses'[n] = "verified"
    BY <1>4 DEF SuccessIsEarned
  <2>1. This = Last
    BY DEF Report
  <2>5. exitCode' = IF Overall({statuses'[n] : n \in 1..Last}) = "verified" THEN 0 ELSE 1
    BY <2>1, Zenon DEF Report
  <2>6. Overall({statuses'[n] : n \in 1..Last}) = "verified"
    BY <2>5
  <2>2. Len(statuses') = Last
    BY <1>1, <1>3, <2>1 DEF This
  <2>3. {statuses'[n] : n \in 1..Last} \in SUBSET Statuses
    BY <1>3, <2>2
  <2>4. \A found \in {statuses'[n] : n \in 1..Last} : found = "verified"
    BY <2>3, <2>6, OverallIsEarned
  <2> QED
    BY <2>2, <2>4
<1> QED
  BY <1>7, <1>8, <1>10, <1>11, <1>12, <1>13 DEF VerificationInv

\* A step before the file is read moves only to the next one.
LEMMA GoOnKeeps ==
    ASSUME VerificationInv, NEW step \in {"resolve", "kind", "open"}, reading \notin {"idle", "read", "done"},
           GoOn(step), UNCHANGED <<directory, alone, held, changes>>
    PROVE  VerificationInv'
<1>1. reading' = step /\ UNCHANGED <<directory, alone, held, handle, digest, statuses, exitCode>>
  BY DEF GoOn
<1>2. Last' = Last
  BY <1>1 DEF Last
<1>3. VerificationTyped' /\ PresentIsHeld'
  BY <1>1 DEF VerificationInv, VerificationTyped, PresentIsHeld, VerificationSteps
<1>4. FilesAreLeft' /\ SuccessIsEarned'
  BY <1>1, <1>2 DEF VerificationInv, FilesAreLeft, SuccessIsEarned
<1>5. ReadsWhatItOpened'
  BY <1>1 DEF VerificationInv, ReadsWhatItOpened
<1>6. ReportsAreTruthful'
  BY <1>1 DEF VerificationInv, ReportsAreTruthful, Truthful
<1> QED
  BY <1>3, <1>4, <1>5, <1>6 DEF VerificationInv

\* A file that is not there is missing.
LEMMA LookForKeeps == ASSUME VerificationInv, LookFor PROVE VerificationInv'
<1>1. reading = "exists" /\ UNCHANGED <<directory, alone, held, changes>>
  BY DEF LookFor
<1>2. CASE directory[This].kind = "absent"
  <2>1. directory[This] \in held[This]
    BY <1>1, ThereIsAFile DEF VerificationInv, PresentIsHeld
  <2>2. Truthful("missing", held[This])
    BY <1>2, <2>1 DEF Truthful
  <2>3. Report("missing") /\ "missing" \in Statuses
    BY <1>2 DEF LookFor, Statuses
  <2> QED
    BY <1>1, <2>2, <2>3, ReportKeeps
<1>3. CASE directory[This].kind # "absent"
  <2>1. PICK step \in {"resolve", "kind", "open"} : GoOn(step)
    BY <1>3 DEF LookFor
  <2> QED
    BY <1>1, <2>1, GoOnKeeps
<1> QED
  BY <1>2, <1>3

\* A path that leads out is invalid.
LEMMA ResolveKeeps == ASSUME VerificationInv, Resolve PROVE VerificationInv'
<1>1. reading = "resolve" /\ UNCHANGED <<directory, alone, held, changes>>
  BY DEF Resolve
<1>2. Truthful("invalid", held[This]) /\ "invalid" \in Statuses
  BY DEF Truthful, Statuses
<1>3. CASE Report("invalid")
  BY <1>1, <1>2, <1>3, ReportKeeps
<1>4. CASE GoOn("kind")
  BY <1>1, <1>4, GoOnKeeps
<1> QED
  BY <1>3, <1>4 DEF Resolve

\* A directory is invalid.
LEMMA LookAtKindKeeps == ASSUME VerificationInv, LookAtKind PROVE VerificationInv'
<1>1. reading = "kind" /\ UNCHANGED <<directory, alone, held, changes>>
  BY DEF LookAtKind
<1>2. Truthful("invalid", held[This]) /\ "invalid" \in Statuses
  BY DEF Truthful, Statuses
<1>3. CASE Report("invalid")
  BY <1>1, <1>2, <1>3, ReportKeeps
<1>4. CASE GoOn("open")
  BY <1>1, <1>4, GoOnKeeps
<1> QED
  BY <1>3, <1>4 DEF LookAtKind

\* What is opened is a content the file has.
LEMMA OpenKeeps == ASSUME VerificationInv, Open PROVE VerificationInv'
<1>1. reading = "open" /\ UNCHANGED <<directory, alone, held, changes>>
  BY DEF Open
<1>2. CASE Report("read_failure")
  <2>1. Truthful("read_failure", held[This]) /\ "read_failure" \in Statuses
    BY DEF Truthful, Statuses
  <2> QED
    BY <1>1, <1>2, <2>1, ReportKeeps
<1>3. CASE ~Report("read_failure")
  <2>1. /\ directory[This].kind \in {"file", "outside"}
        /\ handle' = directory[This].content /\ reading' = "read"
        /\ UNCHANGED <<digest, statuses, exitCode>>
    BY <1>3 DEF Open
  <2>2. This \in Names /\ directory[This] \in held[This] /\ directory[This] \in Entries
    BY <1>1, ThereIsAFile DEF VerificationInv, PresentIsHeld, VerificationTyped
  <2>3. handle' \in Contents
    BY <2>1, <2>2, EntriesHaveContents
  <2>4. handle' \in Seq(BOOLEAN)
    BY <2>3, VerificationAssumption DEF Contents
  <2>5. Last' = Last /\ This' = This
    BY <1>1, <2>1 DEF Last, This
  <2>6. VerificationTyped' /\ PresentIsHeld'
    BY <1>1, <2>1, <2>4 DEF VerificationInv, VerificationTyped, PresentIsHeld, VerificationSteps
  <2>7. FilesAreLeft' /\ SuccessIsEarned'
    BY <1>1, <2>1, <2>5 DEF VerificationInv, FilesAreLeft, SuccessIsEarned
  <2>8. digest' = <<>> /\ \E entry \in held'[This'] : entry.content = handle'
    BY <1>1, <2>1, <2>2, <2>5 DEF VerificationInv, ReadsWhatItOpened
  <2>9. Len(digest') = 0 /\ 0 <= Chunks /\ 1..0 = {}
    BY <2>8, VerificationAssumption
  <2>10. ReadsWhatItOpened'
    BY <2>1, <2>3, <2>8, <2>9 DEF ReadsWhatItOpened
  <2>11. ReportsAreTruthful'
    BY <1>1, <2>1 DEF VerificationInv, ReportsAreTruthful, Truthful
  <2> QED
    BY <2>6, <2>7, <2>10, <2>11 DEF VerificationInv
<1> QED
  BY <1>2, <1>3

\* A digest over all chunks is over the content that was opened.
LEMMA WholeDigest ==
    ASSUME VerificationInv, reading = "read", Len(digest) = Chunks
    PROVE  digest = handle
<1>1. handle \in Contents /\ \A k \in 1..Len(digest) : digest[k] = handle[k]
  BY DEF VerificationInv, ReadsWhatItOpened
<1>2. digest \in [1..Chunks -> BOOLEAN]
  BY DEF VerificationInv, VerificationTyped
<1> QED
  BY <1>1, <1>2 DEF Contents

\* The digest goes on with the content that was opened.
LEMMA ReadKeeps == ASSUME VerificationInv, Read PROVE VerificationInv'
<1>1. reading = "read" /\ UNCHANGED <<directory, alone, held, changes>>
  BY DEF Read
<1>2. CASE Report("read_failure")
  <2>1. Truthful("read_failure", held[This]) /\ "read_failure" \in Statuses
    BY DEF Truthful, Statuses
  <2> QED
    BY <1>1, <1>2, <2>1, ReportKeeps
<1>3. CASE /\ Len(digest) < Chunks
           /\ digest' = Append(digest, NextChunk)
           /\ UNCHANGED <<reading, handle, statuses, exitCode>>
  <2>1. /\ handle \in Contents /\ digest \in Seq(BOOLEAN) /\ Len(digest) \in Nat
        /\ \E entry \in held[This] : entry.content = handle
        /\ \A k \in 1..Len(digest) : digest[k] = handle[k]
    BY <1>1 DEF VerificationInv, VerificationTyped, ReadsWhatItOpened
  <2>2. NextChunk = handle[Len(digest) + 1] /\ NextChunk \in BOOLEAN
    BY <1>3, <2>1, VerificationAssumption DEF NextChunk, Contents
  <2>3. /\ digest' \in Seq(BOOLEAN) /\ Len(digest') = Len(digest) + 1
        /\ \A k \in 1..Len(digest) : digest'[k] = digest[k]
        /\ digest'[Len(digest) + 1] = NextChunk
    BY <1>3, <2>1, <2>2
  <2>4. \A k \in 1..Len(digest') : digest'[k] = handle[k]
    <3>1. \A k \in 1..Len(digest') : k \in 1..Len(digest) \/ k = Len(digest) + 1
      BY <2>1, <2>3
    <3> QED
      BY <2>1, <2>2, <2>3, <3>1
  <2>5. Last' = Last /\ This' = This
    BY <1>1, <1>3 DEF Last, This
  <2>6. VerificationTyped' /\ PresentIsHeld'
    BY <1>1, <1>3, <2>3 DEF VerificationInv, VerificationTyped, PresentIsHeld
  <2>7. FilesAreLeft' /\ SuccessIsEarned'
    BY <1>1, <1>3, <2>5 DEF VerificationInv, FilesAreLeft, SuccessIsEarned
  <2>8. Len(digest') <= Chunks
    BY <1>3, <2>1, <2>3, VerificationAssumption
  <2>9. ReadsWhatItOpened'
    BY <1>1, <1>3, <2>1, <2>4, <2>5, <2>8 DEF ReadsWhatItOpened
  <2>10. ReportsAreTruthful'
    BY <1>1, <1>3 DEF VerificationInv, ReportsAreTruthful, Truthful
  <2> QED
    BY <2>6, <2>7, <2>9, <2>10 DEF VerificationInv
<1>4. CASE /\ Len(digest) = Chunks
           /\ Report(IF digest = AsExpected THEN "verified" ELSE "mismatch")
  <2>1. handle \in Contents /\ \E entry \in held[This] : entry.content = handle
    BY <1>1 DEF VerificationInv, ReadsWhatItOpened
  <2>2. digest = handle
    BY <1>1, <1>4, WholeDigest
  <2>3. CASE digest = AsExpected
    <3>1. Truthful("verified", held[This]) /\ "verified" \in Statuses /\ Report("verified")
      BY <1>4, <2>1, <2>2, <2>3 DEF Truthful, Statuses
    <3> QED
      BY <1>1, <3>1, ReportKeeps
  <2>4. CASE digest # AsExpected
    <3>1. Truthful("mismatch", held[This]) /\ "mismatch" \in Statuses /\ Report("mismatch")
      BY <1>4, <2>1, <2>2, <2>4 DEF Truthful, Statuses
    <3> QED
      BY <1>1, <3>1, ReportKeeps
  <2> QED
    BY <2>3, <2>4
<1> QED
  BY <1>2, <1>3, <1>4 DEF Read

\* A change of the directory only adds to what may be said.
LEMMA ReplaceKeeps ==
    ASSUME VerificationInv, NEW n \in Names, NEW entry \in Entries, Replace(n, entry)
    PROVE  VerificationInv'
<1>1. /\ reading \notin {"idle", "done"}
      /\ UNCHANGED <<alone, reading, handle, digest, statuses, exitCode>>
      /\ directory' = [directory EXCEPT ![n] = entry]
      /\ held' = [held EXCEPT ![n] = held[n] \union {entry}]
  BY DEF Replace
<1>2. directory \in [Names -> Entries] /\ held \in [Names -> SUBSET Entries]
  BY DEF VerificationInv, VerificationTyped
<1>3. Last' = Last /\ This' = This
  BY <1>1 DEF Last, This
<1>4. \A m \in Names : held[m] \subseteq held'[m]
  BY <1>1, <1>2
<1>5. directory' \in [Names -> Entries] /\ held' \in [Names -> SUBSET Entries]
  BY <1>1, <1>2
<1>6. VerificationTyped'
  BY <1>1, <1>5 DEF VerificationInv, VerificationTyped
<1>7. PresentIsHeld'
  BY <1>1, <1>2 DEF VerificationInv, PresentIsHeld
<1>8. FilesAreLeft' /\ SuccessIsEarned'
  BY <1>1, <1>3 DEF VerificationInv, FilesAreLeft, SuccessIsEarned
<1>9. This \in Names /\ Len(statuses) \in Nat /\ Len(statuses) <= Listed
  BY <1>1, ThereIsAFile DEF VerificationInv, ReportsAreTruthful
<1>10. ReadsWhatItOpened'
  BY <1>1, <1>3, <1>4, <1>9 DEF VerificationInv, ReadsWhatItOpened
<1>11. ASSUME NEW m \in 1..Len(statuses) PROVE Truthful(statuses[m], held'[m])
  <2>1. m \in Names
    BY <1>9, VerificationAssumption DEF Names
  <2>2. held[m] \subseteq held'[m]
    BY <1>4, <2>1
  <2>3. Truthful(statuses[m], held[m])
    BY DEF VerificationInv, ReportsAreTruthful
  <2> QED
    BY <2>2, <2>3 DEF Truthful
<1>12. ReportsAreTruthful'
  BY <1>1, <1>9, <1>11 DEF ReportsAreTruthful, Truthful
<1> QED
  BY <1>6, <1>7, <1>8, <1>10, <1>12 DEF VerificationInv

\* The invariant holds before a verification.
LEMMA VerificationStart == VerificationInit => VerificationInv
<1> SUFFICES ASSUME VerificationInit PROVE VerificationInv
  OBVIOUS
<1>1. held \in [Names -> SUBSET Entries]
  BY DEF VerificationInit
<1>2. VerificationTyped
  <2>1. handle \in Seq(BOOLEAN) /\ digest \in Seq(BOOLEAN) /\ statuses \in Seq(Statuses)
    BY DEF VerificationInit
  <2>2. exitCode \in 0..2
    BY DEF VerificationInit
  <2>3. directory \in [Names -> Entries] /\ alone \in BOOLEAN /\ reading \in VerificationSteps
    BY DEF VerificationInit, VerificationSteps
  <2> QED
    BY <1>1, <2>1, <2>2, <2>3 DEF VerificationTyped
<1>3. PresentIsHeld
  BY DEF VerificationInit, PresentIsHeld
<1>4. Len(statuses) = 0 /\ 1..0 = {}
  BY DEF VerificationInit
<1>5. ReportsAreTruthful
  BY <1>4, VerificationAssumption DEF VerificationInit, ReportsAreTruthful
<1>6. FilesAreLeft /\ ReadsWhatItOpened /\ SuccessIsEarned
  BY DEF VerificationInit, FilesAreLeft, ReadsWhatItOpened, SuccessIsEarned
<1> QED
  BY <1>2, <1>3, <1>5, <1>6 DEF VerificationInv

\* Nothing has been said when a verification begins.
LEMMA BeginningKeeps == ASSUME VerificationInv, Reject \/ Begin PROVE VerificationInv'
<1>1. /\ reading = "idle" /\ reading' \in {"done", "exists"} /\ alone' \in BOOLEAN
      /\ UNCHANGED <<directory, handle, digest, statuses, held>>
      /\ exitCode' \in 0..2 /\ (reading' = "done" => exitCode' = 2)
  BY DEF Reject, Begin, VerificationInv, VerificationTyped
<1>2. VerificationTyped' /\ PresentIsHeld'
  BY <1>1 DEF VerificationInv, VerificationTyped, PresentIsHeld, VerificationSteps
<1>3. statuses' = <<>> /\ Len(statuses') = 0 /\ Last' \in Nat /\ 0 < Last'
  BY <1>1, VerificationAssumption DEF VerificationInv, ReportsAreTruthful, Last
<1>4. FilesAreLeft' /\ SuccessIsEarned'
  BY <1>1, <1>3 DEF FilesAreLeft, SuccessIsEarned
<1>5. ReadsWhatItOpened'
  BY <1>1 DEF VerificationInv, ReadsWhatItOpened
<1>6. ReportsAreTruthful'
  <2>1. 1..Len(statuses') = {} /\ Len(statuses') <= Listed
    BY <1>3, VerificationAssumption
  <2> QED
    BY <1>1, <2>1 DEF ReportsAreTruthful
<1> QED
  BY <1>2, <1>4, <1>5, <1>6 DEF VerificationInv

\* The invariant holds in every state of a verification.
THEOREM VerificationInvariance == VerificationSpec => []VerificationInv
<1>1. ASSUME VerificationInv, VerificationNext PROVE VerificationInv'
  BY <1>1, BeginningKeeps, LookForKeeps, ResolveKeeps, LookAtKindKeeps, OpenKeeps, ReadKeeps, ReplaceKeeps
     DEF VerificationNext, AloneStep, DirectoryStep
<1>2. ASSUME VerificationInv, UNCHANGED verificationVars PROVE VerificationInv'
  BY <1>2 DEF VerificationInv, VerificationTyped, PresentIsHeld, FilesAreLeft, ReadsWhatItOpened,
     ReportsAreTruthful, Truthful, SuccessIsEarned, Last, This, verificationVars
<1> QED
  BY <1>1, <1>2, VerificationStart, PTL DEF VerificationSpec

\* What is looked at after the path was resolved, and what was hashed, did not
\* lead out of the directory all along.
InsideInv ==
    /\ reading \in {"kind", "open", "read"} => WasInside(This)
    /\ \A n \in 1..Len(statuses) : statuses[n] \in {"verified", "mismatch"} => WasInside(n)

\* A report on a hashed file needs that.
LEMMA ReportStaysInside ==
    ASSUME VerificationInv, InsideInv, reading \notin {"idle", "done"},
           NEW status \in Statuses, status \in {"verified", "mismatch"} => WasInside(This),
           Report(status), UNCHANGED <<alone, held>>
    PROVE  InsideInv'
<1>1. /\ Len(statuses) \in Nat /\ Len(statuses') = Len(statuses) + 1
      /\ \A n \in 1..Len(statuses) : statuses'[n] = statuses[n]
      /\ statuses'[Len(statuses) + 1] = status
  BY DEF Report, VerificationInv, VerificationTyped
<1>2. \A n \in 1..Len(statuses') : n \in 1..Len(statuses) \/ n = This
  BY <1>1 DEF This
<1>3. \A n : WasInside(n)' <=> WasInside(n)
  BY DEF WasInside
<1>4. reading' \in {"done", "exists"}
  BY DEF Report
<1>5. ASSUME NEW n \in 1..Len(statuses'), statuses'[n] \in {"verified", "mismatch"}
      PROVE  WasInside(n)'
  <2>1. CASE n \in 1..Len(statuses)
    BY <1>1, <1>3, <1>5, <2>1 DEF InsideInv
  <2>2. CASE n = This
    BY <1>1, <1>3, <1>5, <2>2 DEF This
  <2> QED
    BY <1>2, <2>1, <2>2
<1> QED
  BY <1>4, <1>5 DEF InsideInv

\* A step that reports nothing looks at the same file.
LEMMA NoReportStaysInside ==
    ASSUME InsideInv, UNCHANGED <<alone, held, statuses>>,
           reading' \in {"kind", "open", "read"} => WasInside(This)
    PROVE  InsideInv'
<1>1. This' = This /\ \A n : WasInside(n)' <=> WasInside(n)
  BY DEF This, WasInside
<1>2. reading' \in {"kind", "open", "read"} => WasInside(This)'
  BY <1>1
<1>4. \A n \in 1..Len(statuses') : statuses'[n] \in {"verified", "mismatch"} => WasInside(n)'
  BY <1>1 DEF InsideInv
<1> QED
  BY <1>2, <1>4 DEF InsideInv

\* Only a resolved path is opened, unless one file is verified alone.
LEMMA StepStaysInside ==
    ASSUME VerificationInv, InsideInv, [VerificationNext]_verificationVars
    PROVE  InsideInv'
<1>1. CASE Reject \/ Begin
  <2>1. 1..Len(statuses') = {} /\ reading' \in {"done", "exists"}
    <3>1. statuses' = <<>>
      BY <1>1 DEF Reject, Begin, VerificationInv, ReportsAreTruthful
    <3> QED
      BY <1>1, <3>1 DEF Reject, Begin
  <2> QED
    BY <2>1 DEF InsideInv
<1>2. CASE LookFor /\ (alone \/ ~alone)
  <2>1. reading = "exists" /\ UNCHANGED <<alone, held>>
    BY <1>2 DEF LookFor
  <2>2. CASE Report("missing")
    BY <2>1, <2>2, ReportStaysInside DEF Statuses
  <2>3. CASE GoOn(IF alone THEN "kind" ELSE "resolve")
    <3>1. UNCHANGED statuses /\ (reading' \in {"kind", "open", "read"} => alone)
      BY <2>3 DEF GoOn
    <3> QED
      BY <2>1, <3>1, NoReportStaysInside DEF WasInside
  <2> QED
    BY <1>2, <2>2, <2>3 DEF LookFor
<1>3. CASE Resolve
  <2>1. reading = "resolve" /\ UNCHANGED <<alone, held>>
    BY <1>3 DEF Resolve
  <2>2. CASE Report("invalid")
    BY <2>1, <2>2, ReportStaysInside DEF Statuses
  <2>3. CASE directory[This].kind # "outside" /\ GoOn("kind")
    <3>1. WasInside(This)
      BY <2>1, <2>3, ThereIsAFile DEF WasInside, VerificationInv, PresentIsHeld
    <3>2. UNCHANGED statuses
      BY <2>3 DEF GoOn
    <3> QED
      BY <2>1, <3>1, <3>2, NoReportStaysInside
  <2> QED
    BY <1>3, <2>2, <2>3 DEF Resolve
<1>4. CASE LookAtKind
  <2>1. reading = "kind" /\ UNCHANGED <<alone, held>>
    BY <1>4 DEF LookAtKind
  <2>2. CASE Report("invalid")
    BY <2>1, <2>2, ReportStaysInside DEF Statuses
  <2>3. CASE GoOn("open")
    <3>1. UNCHANGED statuses
      BY <2>3 DEF GoOn
    <3>2. WasInside(This)
      BY <2>1 DEF InsideInv
    <3> QED
      BY <2>1, <3>1, <3>2, NoReportStaysInside
  <2> QED
    BY <1>4, <2>2, <2>3 DEF LookAtKind
<1>5. CASE Open
  <2>1. reading = "open" /\ UNCHANGED <<alone, held>> /\ WasInside(This)
    BY <1>5 DEF Open, InsideInv
  <2>2. CASE Report("read_failure")
    BY <2>1, <2>2, ReportStaysInside DEF Statuses
  <2>3. CASE UNCHANGED statuses
    BY <2>1, <2>3, NoReportStaysInside
  <2> QED
    BY <1>5, <2>2, <2>3 DEF Open
<1>6. CASE Read
  <2>1. reading = "read" /\ UNCHANGED <<alone, held>> /\ WasInside(This)
    BY <1>6 DEF Read, InsideInv
  <2>2. ASSUME NEW status \in Statuses, Report(status) PROVE InsideInv'
    BY <2>1, <2>2, ReportStaysInside
  <2>3. CASE UNCHANGED statuses
    BY <2>1, <2>3, NoReportStaysInside
  <2>4. \/ UNCHANGED statuses
        \/ \E status \in Statuses : Report(status)
    BY <1>6 DEF Read, Statuses
  <2> QED
    BY <2>2, <2>3, <2>4
<1>7. ASSUME NEW m \in Names, NEW entry \in Entries, Replace(m, entry) PROVE InsideInv'
  <2>1. /\ reading \notin {"idle", "done"} /\ UNCHANGED <<alone, reading, statuses>>
        /\ held' = [held EXCEPT ![m] = held[m] \union {entry}]
    BY <1>7 DEF Replace
  <2>2. held \in [Names -> SUBSET Entries] /\ This \in Names
        /\ \A n \in 1..Len(statuses) : n \in Names
    BY <2>1, ThereIsAFile, VerificationAssumption DEF VerificationInv, VerificationTyped, Names
  <2>3. \A n \in Names : WasInside(n) => WasInside(n)'
    BY <2>1, <2>2 DEF WasInside
  <2>4. This' = This
    BY <2>1 DEF This
  <2>5. reading' \in {"kind", "open", "read"} => (\E n \in Names : n = This /\ WasInside(n)')
    BY <2>1, <2>2, <2>3 DEF InsideInv
  <2>6. \A n \in 1..Len(statuses') : statuses'[n] \in {"verified", "mismatch"} => WasInside(n)'
    BY <2>1, <2>2, <2>3 DEF InsideInv
  <2> QED
    BY <2>4, <2>5, <2>6 DEF InsideInv, WasInside
<1>8. CASE UNCHANGED verificationVars
  <2>1. UNCHANGED <<alone, held, statuses, reading>>
    BY <1>8 DEF verificationVars
  <2> QED
    BY <2>1, NoReportStaysInside DEF InsideInv
<1> QED
  BY <1>1, <1>2, <1>3, <1>4, <1>5, <1>6, <1>7, <1>8 DEF VerificationNext, AloneStep, DirectoryStep

\* For any number of files, of chunks and of changes of the directory: a
\* verification says of a file only what was true of it since it began, and
\* succeeds only if every file was as expected; in a directory it hashes only
\* what was not a link out of it at some moment (checksum.py, _verify_one).
THEOREM VerdictsAreTrue == VerificationSpec => []VerdictsWereTrue
<1>1. ASSUME VerificationInv, InsideInv PROVE VerdictsWereTrue
  <2>1. statuses \in Seq(Statuses) /\ DOMAIN statuses = 1..Len(statuses)
    BY <1>1 DEF VerificationInv, VerificationTyped
  <2>2. \A n \in DOMAIN statuses : Truthful(statuses[n], held[n])
    BY <1>1, <2>1 DEF VerificationInv, ReportsAreTruthful
  <2>3. ASSUME reading = "done", exitCode = 0, NEW n \in 1..Last
        PROVE  WasInside(n) /\ \E entry \in held[n] : entry.content = AsExpected
    <3>1. Len(statuses) = Last /\ statuses[n] = "verified"
      BY <1>1, <2>3 DEF VerificationInv, SuccessIsEarned
    <3> QED
      BY <1>1, <2>1, <2>2, <2>3, <3>1 DEF Truthful, InsideInv
  <2>4. \A n \in DOMAIN statuses : statuses[n] \in {"verified", "mismatch"} => WasInside(n)
    BY <1>1, <2>1 DEF InsideInv
  <2> QED
    BY <2>2, <2>3, <2>4 DEF VerdictsWereTrue, Truthful
<1>2. VerificationInit => InsideInv
  <2>1. ASSUME VerificationInit PROVE reading = "idle" /\ 1..Len(statuses) = {}
    BY <2>1 DEF VerificationInit
  <2> QED
    BY <2>1 DEF InsideInv
<1>3. VerificationInv /\ InsideInv /\ [VerificationNext]_verificationVars => InsideInv'
  BY StepStaysInside
<1> QED
  BY <1>1, <1>2, <1>3, VerificationInvariance, PTL DEF VerificationSpec

-----------------------------------------------------------------------------
(* HistoryRange: multiples and remainders *)

\* A quotient and a remainder.
LEMMA DividedWithRemainder ==
    ASSUME NEW L \in Nat \ {0}, NEW a \in Nat
    PROVE  \E q \in Nat : a = L * q + (a % L) /\ a % L \in 0..(L - 1)
<1>1. a % L \in 0..(L - 1) /\ a \div L \in Nat /\ a = L * (a \div L) + (a % L)
  BY SMT
<1> QED
  BY <1>1

\* Multiples are the divisor apart.
LEMMA MultiplesFollow ==
    ASSUME NEW L \in Nat \ {0}, NEW p \in Nat, NEW q \in Nat, p < q
    PROVE  L * p + L <= L * q
<1>1. PICK d \in Nat : q = p + 1 + d
  <2>1. q - p - 1 \in Nat /\ q = p + 1 + (q - p - 1)
    OBVIOUS
  <2> QED
    BY <2>1
<1>2. L * q = L * p + L + L * d
  BY <1>1, SMT
<1>3. L * d >= 0 /\ L * d \in Int /\ L * p \in Int
  BY SMT
<1> QED
  BY <1>2, <1>3

\* The remainder is the only one of its kind.
LEMMA RemainderIs ==
    ASSUME NEW L \in Nat \ {0}, NEW q \in Nat, NEW r \in 0..(L - 1)
    PROVE  (L * q + r) % L = r
<1> DEFINE a == L * q + r
<1>1. L * q \in Nat /\ a \in Nat
  BY SMT
<1>2. PICK p \in Nat : a = L * p + (a % L) /\ a % L \in 0..(L - 1)
  BY <1>1, DividedWithRemainder
<1>3. L * p \in Nat
  BY SMT
<1>4. CASE p < q
  <2>1. L * p + L <= L * q
    BY <1>4, MultiplesFollow
  <2> QED
    BY <1>1, <1>2, <1>3, <2>1
<1>5. CASE q < p
  <2>1. L * q + L <= L * p
    BY <1>5, MultiplesFollow
  <2> QED
    BY <1>1, <1>2, <1>3, <2>1
<1>6. CASE p = q
  BY <1>1, <1>2, <1>6
<1> QED
  BY <1>4, <1>5, <1>6

\* Numbers with one remainder are the divisor apart.
LEMMA AlikeAreApart ==
    ASSUME NEW L \in Nat \ {0}, NEW a \in Nat, NEW b \in Nat, a % L = b % L, a < b
    PROVE  a + L <= b
<1>1. PICK p \in Nat : a = L * p + (a % L) /\ a % L \in 0..(L - 1)
  BY DividedWithRemainder
<1>2. PICK q \in Nat : b = L * q + (b % L)
  BY DividedWithRemainder
<1>3. L * p \in Nat /\ L * q \in Nat
  BY SMT
<1>4. CASE p < q
  <2>1. L * p + L <= L * q
    BY <1>4, MultiplesFollow
  <2> QED
    BY <1>1, <1>2, <1>3, <2>1
<1>5. CASE q < p
  <2>1. L * q + L <= L * p
    BY <1>5, MultiplesFollow
  <2> QED
    BY <1>1, <1>2, <1>3, <2>1
<1>6. CASE p = q
  BY <1>1, <1>2, <1>6
<1> QED
  BY <1>4, <1>5, <1>6

\* Behind a multiple comes a multiple.
LEMMA NextMultiple ==
    ASSUME NEW L \in Nat \ {0}, NEW a \in Nat, a % L = 0
    PROVE (a + L) % L = 0
<1>1. PICK q \in Nat : a = L * q + 0
  BY DividedWithRemainder
<1>2. L * (q + 1) + 0 = a + L
  BY <1>1, SMT
<1>3. (L * (q + 1) + 0) % L = 0
  BY RemainderIs
<1> QED
  BY <1>2, <1>3

\* Without its remainder a number is a multiple.
LEMMA MultipleBelow ==
    ASSUME NEW L \in Nat \ {0}, NEW a \in Nat
    PROVE (a - (a % L)) % L = 0 /\ a - (a % L) \in Nat
<1>1. PICK q \in Nat : a = L * q + (a % L) /\ a % L \in 0..(L - 1)
  BY DividedWithRemainder
<1>2. L * q \in Nat
  BY SMT
<1>3. a - (a % L) = L * q + 0
  BY <1>1, <1>2
<1>4. (L * q + 0) % L = 0
  BY RemainderIs
<1> QED
  BY <1>2, <1>3, <1>4

\* A nonempty set of numbers has a least one.
LEMMA LeastOf ==
    ASSUME NEW S, S \subseteq Nat, S # {}
    PROVE  \E m \in S : \A k \in S : m <= k
<1> DEFINE R == OpToRel(<, Nat)
<1>1. \E m \in S : \A k \in S : <<k, m>> \notin R
  BY NatLessThanWellFounded, WFMin
<1>2. \A k, m \in Nat : <<k, m>> \notin R => m <= k
  BY DEF OpToRel
<1> QED
  BY <1>1, <1>2

-----------------------------------------------------------------------------
(* The calendar and the grid *)

\* Months follow each other.
LEMMA MonthsFollow ==
    ASSUME NEW m \in Nat
    PROVE  /\ MonthStart(m) \in Nat
           /\ \A n \in Nat : m < n => MonthStart(m) + 2 <= MonthStart(n)
  BY SMT DEF MonthStart

\* A time is in its month.
LEMMA MonthHolds ==
    ASSUME NEW t \in Nat
    PROVE  MonthOf(t) \in Nat /\ MonthStart(MonthOf(t)) <= t /\ t < MonthStart(MonthOf(t) + 1)
<1>1. (2 * t + 1) \div 5 \in 0..t
  BY SMT
<1>2. \E m \in 0..t : MonthStart(m) <= t /\ t < MonthStart(m + 1)
  BY <1>1, SMT DEF MonthStart
<1>3. MonthOf(t) \in 0..t /\ MonthStart(MonthOf(t)) <= t /\ t < MonthStart(MonthOf(t) + 1)
  BY <1>2 DEF MonthOf
<1> QED
  BY <1>3

\* A month begins in itself, and later times are in later months.
LEMMA MonthIsOf ==
    ASSUME NEW m \in Nat, NEW t \in Nat, MonthStart(m) <= t
    PROVE  m <= MonthOf(t) /\ (t < MonthStart(m + 1) => MonthOf(t) = m)
<1>1. MonthOf(t) \in Nat /\ MonthStart(MonthOf(t)) <= t /\ t < MonthStart(MonthOf(t) + 1)
  BY MonthHolds
<1>2. CASE MonthOf(t) < m
  <2>1. MonthOf(t) + 1 = m \/ MonthOf(t) + 1 < m
    BY <1>1, <1>2
  <2>2. MonthStart(MonthOf(t) + 1) <= MonthStart(m)
    BY <1>1, <2>1, MonthsFollow
  <2> QED
    BY <1>1, <2>2, MonthsFollow
<1>3. CASE m < MonthOf(t)
  <2>1. m + 1 = MonthOf(t) \/ m + 1 < MonthOf(t)
    BY <1>1, <1>3
  <2>2. MonthStart(m + 1) <= MonthStart(MonthOf(t))
    BY <1>1, <2>1, MonthsFollow
  <2> QED
    BY <1>1, <1>3, <2>2, MonthsFollow
<1> QED
  BY <1>1, <1>2, <1>3

\* An interval has a length, and its grid begins within it.
LEMMA IntervalsTyped ==
    ASSUME interval \in Intervals
    PROVE  /\ interval.months \in BOOLEAN
           /\ interval.length \in Nat \ {0} /\ interval.phase \in Nat
           /\ interval.phase < interval.length
<1>1. CASE interval \in {[months |-> TRUE, length |-> n, phase |-> 0] : n \in MonthCounts}
  <2>1. PICK n \in MonthCounts : interval = [months |-> TRUE, length |-> n, phase |-> 0]
    BY <1>1
  <2>2. n \in Nat \ {0}
    BY RangeAssumption
  <2> QED
    BY <2>1, <2>2
<1>2. CASE \E w \in Widths : \E p \in 0..(w - 1) : interval = [months |-> FALSE, length |-> w, phase |-> p]
  <2>1. PICK w \in Widths : \E p \in 0..(w - 1) : interval = [months |-> FALSE, length |-> w, phase |-> p]
    BY <1>2
  <2>2. PICK p \in 0..(w - 1) : interval = [months |-> FALSE, length |-> w, phase |-> p]
    BY <2>1
  <2>3. w \in Nat \ {0} /\ p \in Nat /\ p < w
    BY RangeAssumption
  <2> QED
    BY <2>2, <2>3
<1>3. interval \in UNION {{[months |-> FALSE, length |-> w, phase |-> p] : p \in 0..(w - 1)} : w \in Widths}
        => \E w \in Widths : \E p \in 0..(w - 1) : interval = [months |-> FALSE, length |-> w, phase |-> p]
  OBVIOUS
<1>4. \/ interval \in UNION {{[months |-> FALSE, length |-> w, phase |-> p] : p \in 0..(w - 1)} : w \in Widths}
      \/ interval \in {[months |-> TRUE, length |-> n, phase |-> 0] : n \in MonthCounts}
  BY Zenon DEF Intervals
<1> QED
  BY <1>1, <1>2, <1>3, <1>4

\* The candles of a grid do not overlap, and the next one begins where one ends.
LEMMA GridIsApart ==
    ASSUME interval \in Intervals, NEW t \in Nat, OnGrid(t)
    PROVE  /\ NextCandleOpen(t) \in Nat /\ t < NextCandleOpen(t)
           /\ \A u \in Nat : OnGrid(u) /\ t < u => NextCandleOpen(t) <= u
<1> DEFINE L == interval.length
<1>1. interval.months \in BOOLEAN /\ L \in Nat \ {0}
  BY IntervalsTyped
<1>2. CASE ~interval.months
  <2>1. NextCandleOpen(t) = t + L
    BY <1>2 DEF NextCandleOpen
  <2>2. ASSUME NEW u \in Nat, OnGrid(u), t < u PROVE t + L <= u
    <3>1. t % L = u % L
      BY <1>2, <2>2 DEF OnGrid
    <3> QED
      BY <1>1, <2>2, <3>1, AlikeAreApart
  <2> QED
    BY <1>1, <2>1, <2>2
<1>3. CASE interval.months
  <2>1. MonthOf(t) \in Nat /\ MonthOf(t) % L = 0 /\ t = MonthStart(MonthOf(t))
    BY <1>3, MonthHolds DEF OnGrid
  <2>2. NextCandleOpen(t) = MonthStart(MonthOf(t) + L) /\ MonthOf(t) + L \in Nat
    BY <1>1, <1>3, <2>1 DEF NextCandleOpen
  <2>3. NextCandleOpen(t) \in Nat /\ t < NextCandleOpen(t)
    BY <1>1, <2>1, <2>2, MonthsFollow
  <2>4. ASSUME NEW u \in Nat, OnGrid(u), t < u PROVE NextCandleOpen(t) <= u
    <3>1. MonthOf(u) \in Nat /\ MonthOf(u) % L = 0 /\ u = MonthStart(MonthOf(u))
      BY <1>3, <2>4, MonthHolds DEF OnGrid
    <3>2. MonthOf(t) < MonthOf(u)
      <4>1. MonthOf(t) <= MonthOf(u)
        BY <2>1, <2>4, MonthIsOf
      <4> QED
        BY <2>1, <2>4, <3>1, <4>1
    <3>3. MonthOf(t) + L <= MonthOf(u)
      BY <1>1, <2>1, <3>1, <3>2, AlikeAreApart
    <3>4. MonthOf(t) + L = MonthOf(u) \/ MonthOf(t) + L < MonthOf(u)
      <4> HIDE DEF L
      <4> QED
        BY <2>2, <3>1, <3>3
    <3>5. CASE MonthOf(t) + L = MonthOf(u)
      BY <2>2, <3>1, <3>5
    <3>6. CASE MonthOf(t) + L < MonthOf(u)
      <4>1. MonthStart(MonthOf(t) + L) + 2 <= MonthStart(MonthOf(u))
        BY <2>2, <3>1, <3>6, MonthsFollow
      <4> QED
        BY <2>2, <2>3, <2>4, <3>1, <4>1
    <3> QED
      BY <3>4, <3>5, <3>6
  <2> QED
    BY <2>3, <2>4
<1> QED
  BY <1>1, <1>2, <1>3

\* The boundary is not in the future, and is not before the end of a candle
\* that has closed, if the grid begins with the epoch.
LEMMA BoundaryIsClosed ==
    ASSUME interval \in Intervals, NEW time \in Nat
    PROVE  /\ LatestClosedBoundary(time) \in Nat /\ LatestClosedBoundary(time) <= time
           /\ \A t \in Nat : /\ interval.phase = 0 /\ OnGrid(t)
                             /\ NextCandleOpen(t) <= time
                             => NextCandleOpen(t) <= LatestClosedBoundary(time)
<1> DEFINE L == interval.length
<1>1. interval.months \in BOOLEAN /\ L \in Nat \ {0}
  BY IntervalsTyped
<1>2. CASE ~interval.months
  <2>1. LatestClosedBoundary(time) = time - (time % L)
    BY <1>2 DEF LatestClosedBoundary
  <2>2. time % L \in 0..(L - 1) /\ time - (time % L) \in Nat /\ (time - (time % L)) % L = 0
    BY <1>1, DividedWithRemainder, MultipleBelow
  <2>3. ASSUME NEW t \in Nat, interval.phase = 0, OnGrid(t), NextCandleOpen(t) <= time
        PROVE  NextCandleOpen(t) <= time - (time % L)
    <3>1. NextCandleOpen(t) = t + L /\ t % L = 0
      BY <1>2, <2>3 DEF NextCandleOpen, OnGrid
    <3>2. (t + L) % L = 0
      BY <1>1, <3>1, NextMultiple
    <3>3. CASE time - (time % L) < t + L
      <4>2. t + L \in Nat
        BY <1>1
      <4>1. time - (time % L) + L <= t + L
        BY <1>1, <2>2, <3>2, <3>3, <4>2, AlikeAreApart
      <4> QED
        BY <1>1, <2>2, <2>3, <3>1, <4>1
    <3> QED
      BY <1>1, <2>2, <3>1, <3>3
  <2> QED
    BY <1>1, <2>1, <2>2, <2>3
<1>3. CASE interval.months
  <2> DEFINE M == MonthOf(time)
             B == M - (M % L)
  <2>1. LatestClosedBoundary(time) = MonthStart(B)
    BY <1>3 DEF LatestClosedBoundary
  <2>2. M \in Nat /\ MonthStart(M) <= time
    BY MonthHolds
  <2>3. M % L \in 0..(L - 1) /\ B \in Nat /\ B % L = 0
    BY <1>1, <2>2, DividedWithRemainder, MultipleBelow
  <2>4. B = M \/ B < M
    BY <1>1, <2>2, <2>3
  <2>5. MonthStart(B) \in Nat /\ MonthStart(M) \in Nat /\ MonthStart(B) <= MonthStart(M)
    BY <2>2, <2>3, <2>4, MonthsFollow
  <2>6. ASSUME NEW t \in Nat, OnGrid(t), NextCandleOpen(t) <= time
        PROVE  NextCandleOpen(t) <= MonthStart(B)
    <3> DEFINE N == MonthOf(t) + L
    <3>1. MonthOf(t) \in Nat /\ MonthOf(t) % L = 0
      BY <1>3, <2>6, MonthHolds DEF OnGrid
    <3>2. N \in Nat /\ NextCandleOpen(t) = MonthStart(N) /\ N % L = 0
      BY <1>1, <1>3, <3>1, NextMultiple DEF NextCandleOpen
    <3>3. N <= M
      BY <2>6, <3>2, MonthIsOf
    <3>4. CASE B < N
      <4>1. B + L <= N
        BY <1>1, <2>3, <3>2, <3>4, AlikeAreApart
      <4> QED
        BY <1>1, <2>2, <2>3, <3>2, <3>3, <4>1
    <3>5. CASE ~(B < N)
      <4>1. N = B \/ N < B
        <5> HIDE DEF N, B
        <5> QED
          BY <2>3, <3>2, <3>5
      <4> QED
        BY <2>3, <3>2, <4>1, MonthsFollow
    <3> QED
      BY <3>4, <3>5
  <2> QED
    BY <2>1, <2>2, <2>5, <2>6
<1> QED
  BY <1>1, <1>2, <1>3

-----------------------------------------------------------------------------
(* The pages *)

\* What the exchange has is on its grid and has opened.
LEMMA AvailableHolds ==
    \A t \in Available : t \in Nat /\ t <= serverTime /\ OnGrid(t)
  BY DEF Available

\* What a page is.
LEMMA PageHolds ==
    ASSUME NEW start, NEW end, NEW page \in Pages(start, end)
    PROVE  /\ page \in Seq(Nat) /\ Len(page) \in Nat /\ Len(page) <= PageLimit
           /\ DOMAIN page = 1..Len(page)
           /\ \A i \in 1..Len(page) : page[i] \in Candidates(start, end) /\ page[i] \in Nat
           /\ \A i, j \in 1..Len(page) : i < j => page[i] < page[j]
           /\ \A t \in Candidates(start, end) :
                \/ \E i \in 1..Len(page) : page[i] = t
                \/ Len(page) = PageLimit /\ \A i \in 1..Len(page) : page[i] < t
<1>1. PICK n \in 0..PageLimit : page \in [1..n -> Candidates(start, end)]
  BY DEF Pages
<1>2. Candidates(start, end) \subseteq Nat
  BY AvailableHolds DEF Candidates
<1>3. n \in Nat /\ n <= PageLimit
  BY RangeAssumption
<1>4. page \in Seq(Nat) /\ Len(page) = n /\ DOMAIN page = 1..n
  BY <1>1, <1>2, <1>3
<1>5. \A i \in 1..Len(page) : page[i] \in Candidates(start, end) /\ page[i] \in Nat
  BY <1>1, <1>2, <1>4
<1>6. \A i, j \in 1..Len(page) : i < j => page[i] < page[j]
  BY <1>4 DEF Pages, Ascending
<1>7. \A t \in Candidates(start, end) :
        \/ \E i \in 1..Len(page) : page[i] = t
        \/ Len(page) = PageLimit /\ \A i \in 1..Len(page) : page[i] < t
  BY <1>4 DEF Pages
<1> QED
  BY <1>3, <1>4, <1>5, <1>6, <1>7

\* Two pages of one range that agree so far go on with the same candle.
LEMMA PagesGoOnAlike ==
    ASSUME NEW start, NEW end, NEW p \in Pages(start, end), NEW q \in Pages(start, end),
           NEW i \in 1..Len(p), i \in 1..Len(q), \A j \in 1..(i - 1) : p[j] = q[j]
    PROVE  q[i] <= p[i]
<1> SUFFICES ASSUME p[i] < q[i] PROVE FALSE
  BY PageHolds
<1>1. p[i] \in Candidates(start, end) /\ p[i] \in Nat /\ q[i] \in Nat /\ i \in Nat /\ Len(p) \in Nat /\ Len(q) \in Nat
  BY PageHolds
<1>6. \/ \E j \in 1..Len(q) : q[j] = p[i]
      \/ \A j \in 1..Len(q) : q[j] < p[i]
  BY <1>1, PageHolds
<1>7. ~(q[i] < p[i])
  BY <1>1
<1>2. PICK j \in 1..Len(q) : q[j] = p[i]
  BY <1>6, <1>7
<1>3. j < i
  <2>1. i < j => q[i] < q[j]
    BY PageHolds
  <2> QED
    BY <1>1, <1>2, <2>1
<1>4. p[j] = p[i] /\ j \in 1..Len(p)
  BY <1>1, <1>2, <1>3
<1>5. p[j] < p[i]
  BY <1>3, <1>4, PageHolds
<1> QED
  BY <1>1, <1>4, <1>5

\* The exchange gives one answer, if a full page is one.
LEMMA PagesAgree ==
    ASSUME NEW start, NEW end, NEW p \in Pages(start, end), NEW q \in Pages(start, end),
           Len(q) = PageLimit
    PROVE  p = q
<1> DEFINE differ == {i \in 1..Len(p) : p[i] # q[i]}
<1>1. /\ p \in Seq(Nat) /\ q \in Seq(Nat) /\ Len(p) \in Nat /\ Len(q) \in Nat /\ Len(p) <= Len(q)
      /\ \A i \in 1..Len(p) : p[i] \in Nat
      /\ \A i \in 1..Len(q) : q[i] \in Nat /\ q[i] \in Candidates(start, end)
  BY PageHolds
<1>2. differ = {}
  <2> SUFFICES ASSUME differ # {} PROVE FALSE
    OBVIOUS
  <2>1. differ \subseteq Nat
    OBVIOUS
  <2>2. PICK i \in differ : \A k \in differ : i <= k
    <3> HIDE DEF differ
    <3> QED
      BY <2>1, LeastOf
  <2>3. i \in 1..Len(p) /\ i \in 1..Len(q) /\ p[i] # q[i] /\ i \in Nat
    BY <1>1
  <2>4. \A j \in 1..(i - 1) : p[j] = q[j]
    <3> SUFFICES ASSUME NEW j \in 1..(i - 1) PROVE p[j] = q[j]
      OBVIOUS
    <3>1. j \in 1..Len(p) /\ ~(i <= j)
      BY <1>1, <2>3
    <3> QED
      BY <2>2, <3>1
  <2>5. q[i] <= p[i] /\ p[i] <= q[i]
    BY <2>3, <2>4, PagesGoOnAlike
  <2> QED
    BY <1>1, <2>3, <2>5
<1>3. \A i \in 1..Len(p) : p[i] = q[i]
  BY <1>2
<1>4. Len(p) = Len(q)
  <2> SUFFICES ASSUME Len(p) < Len(q) PROVE FALSE
    BY <1>1
  <2> DEFINE k == Len(p) + 1
  <2>1. k \in 1..Len(q) /\ Len(p) # PageLimit
    BY <1>1
  <2>2. PICK j \in 1..Len(p) : p[j] = q[k]
    BY <1>1, <2>1, PageHolds
  <2>3. j \in 1..Len(q) /\ j < k
    BY <1>1
  <2>4. q[j] < q[k]
    BY <2>1, <2>3, PageHolds
  <2>5. q[j] = q[k]
    BY <1>3, <2>2
  <2>6. q[k] \in Nat
    BY <1>1, <2>1
  <2> QED
    BY <2>4, <2>5, <2>6
<1> QED
  BY <1>1, <1>3, <1>4

-----------------------------------------------------------------------------
(* The inductive invariant *)

\* The type invariant.
RangeTyped ==
    /\ interval \in Intervals /\ serverTime \in Nat /\ watermark \in Available
    /\ range \in [stage : {"idle", "paging", "returned"}, asked : Nat, after : Nat,
                  start : Nat, end : Nat, fetched : Seq(Nat)]

\* A repair fills the range between a stored candle and the boundary.
RangeIsBounded ==
    range.stage # "idle" =>
      /\ range.after \in Available /\ range.asked <= serverTime
      /\ range.end = LatestClosedBoundary(range.asked)

\* What was fetched is closed, in order, and lies behind the next page.
FetchedIsClosed ==
    /\ Ascending(range.fetched) /\ Fetched \subseteq ClosedAfter(range.end)
    /\ range.stage = "paging" =>
         /\ NextCandleOpen(range.after) <= range.start
         /\ \A t \in Fetched : t < range.start

\* What was not fetched is still to come.
FetchedIsComplete ==
    range.stage # "idle" =>
      \A t \in ClosedAfter(range.end) :
        t \in Fetched \/ (range.stage = "paging" /\ range.start <= t)

\* The first page of the range was full, and ended behind the next one's start.
IsPast(first, n) ==
    /\ Len(first) = PageLimit /\ n \in 1..PageLimit
    /\ ClosedBy(first, n, range.end) /\ first[n] < range.start

FirstPageIsPast ==
    range.stage = "paging" /\ range.start # NextCandleOpen(range.after) =>
      \E first \in Pages(NextCandleOpen(range.after), range.end), n \in 1..PageLimit :
        IsPast(first, n)

\* All of it.
RangeInv ==
    RangeTyped /\ RangeIsBounded /\ FetchedIsClosed /\ FetchedIsComplete /\ FirstPageIsPast

\* What a step that leaves the exchange alone leaves alone.
LEMMA SameExchange ==
    ASSUME UNCHANGED <<interval, outages, serverTime>>
    PROVE  /\ Available' = Available
           /\ \A t : NextCandleOpen(t)' = NextCandleOpen(t)
           /\ \A t : LatestClosedBoundary(t)' = LatestClosedBoundary(t)
           /\ \A start, end : Pages(start, end)' = Pages(start, end)
<1>1. Available' = Available
  BY DEF Available, OnGrid
<1>2. \A t : NextCandleOpen(t)' = NextCandleOpen(t)
  BY DEF NextCandleOpen
<1>3. \A t : LatestClosedBoundary(t)' = LatestClosedBoundary(t)
  BY DEF LatestClosedBoundary
<1>4. \A start, end : Candidates(start, end)' = Candidates(start, end)
  BY <1>1 DEF Candidates
<1>5. \A start, end : Pages(start, end)' = Pages(start, end)
  BY <1>4 DEF Pages
<1> QED
  BY <1>1, <1>2, <1>3, <1>5

\* A candle ends before the next one that the exchange has.
LEMMA CandleHolds ==
    ASSUME RangeInv, NEW t \in Available
    PROVE  /\ t \in Nat /\ t <= serverTime /\ NextCandleOpen(t) \in Nat /\ t < NextCandleOpen(t)
           /\ \A u \in Available : t < u => NextCandleOpen(t) <= u
<1>1. interval \in Intervals
  BY DEF RangeInv, RangeTyped
<1> QED
  BY <1>1, AvailableHolds, GridIsApart

\* A repair that is given up leaves nothing behind.
LEMMA GivenUp ==
    ASSUME RangeInv, range' = NoRange, UNCHANGED <<interval, outages, serverTime>>,
           watermark' \in Available
    PROVE  RangeInv'
<1>1. Available' = Available
  BY SameExchange
<1>2. NoRange \in [stage : {"idle", "paging", "returned"}, asked : Nat, after : Nat,
                   start : Nat, end : Nat, fetched : Seq(Nat)]
  BY DEF NoRange
<1>3. RangeTyped'
  BY <1>1, <1>2 DEF RangeInv, RangeTyped
<1>4. range'.stage = "idle" /\ range'.fetched = <<>>
  BY DEF NoRange
<1>5. Fetched' = {}
  BY <1>4 DEF Fetched
<1>6. Ascending(range.fetched)'
  BY <1>4 DEF Ascending
<1> QED
  BY <1>3, <1>4, <1>5, <1>6 DEF RangeInv, RangeIsBounded, FetchedIsClosed, FetchedIsComplete, FirstPageIsPast

\* The invariant holds before the first repair.
LEMMA RangeStart == RangeInit => RangeInv
<1> SUFFICES ASSUME RangeInit PROVE RangeInv
  OBVIOUS
<1>2. NoRange \in [stage : {"idle", "paging", "returned"}, asked : Nat, after : Nat,
                   start : Nat, end : Nat, fetched : Seq(Nat)]
  BY DEF NoRange
<1>3. serverTime \in Nat
  BY RangeAssumption DEF RangeInit
<1>7. RangeTyped
  BY <1>2, <1>3 DEF RangeInit, RangeTyped
<1>4. range.stage = "idle" /\ range.fetched = <<>>
  BY DEF RangeInit, NoRange
<1>5. Fetched = {}
  BY <1>4 DEF Fetched
<1>6. Ascending(range.fetched)
  BY <1>4 DEF Ascending
<1> QED
  BY <1>4, <1>5, <1>6, <1>7 DEF RangeInv, RangeIsBounded, FetchedIsClosed, FetchedIsComplete, FirstPageIsPast

\* A repair begins behind a candle that is stored.
LEMMA AskKeeps == ASSUME RangeInv, Ask PROVE RangeInv'
<1> DEFINE start == NextCandleOpen(watermark)
           end == LatestClosedBoundary(serverTime)
<1>1. interval \in Intervals /\ serverTime \in Nat /\ watermark \in Available
  BY DEF RangeInv, RangeTyped
<1>2. UNCHANGED <<interval, outages, serverTime, watermark>>
  BY DEF Ask
<1>3. /\ Available' = Available
      /\ \A t : NextCandleOpen(t)' = NextCandleOpen(t)
      /\ \A t : LatestClosedBoundary(t)' = LatestClosedBoundary(t)
  BY <1>2, SameExchange
<1>4. start \in Nat /\ end \in Nat /\ watermark \in Nat
  BY <1>1, CandleHolds, BoundaryIsClosed
<1>5. /\ range'.stage = IF start >= end THEN "returned" ELSE "paging"
      /\ range'.asked = serverTime /\ range'.after = watermark /\ range'.start = start
      /\ range'.end = end /\ range'.fetched = <<>>
  BY DEF Ask
<1>6. range' \in [stage : {"idle", "paging", "returned"}, asked : Nat, after : Nat,
                  start : Nat, end : Nat, fetched : Seq(Nat)]
  <2>1. <<>> \in Seq(Nat)
    OBVIOUS
  <2> HIDE DEF start, end
  <2> QED
    BY <1>1, <1>4, <2>1 DEF Ask, start, end
<1>7. RangeTyped'
  BY <1>1, <1>2, <1>3, <1>6 DEF RangeTyped
<1>8. RangeIsBounded'
  BY <1>1, <1>2, <1>3, <1>5 DEF RangeIsBounded
<1>9. Fetched' = {} /\ Ascending(range.fetched)'
  BY <1>5 DEF Fetched, Ascending
<1>10. \A t : NextCandleOpen(range.after)' = start
  BY <1>2, <1>5 DEF NextCandleOpen
<1>11. FetchedIsClosed'
  BY <1>4, <1>5, <1>9, <1>10 DEF FetchedIsClosed
<1>12. FetchedIsComplete'
  <2>1. ClosedAfter(range.end)' = {t \in Available : t > watermark /\ NextCandleOpen(t) <= end}
    BY <1>3, <1>5 DEF ClosedAfter
  <2>2. ASSUME NEW t \in Available, t > watermark, NextCandleOpen(t) <= end
        PROVE  start <= t /\ start < end
    <3>1. start <= t /\ t < NextCandleOpen(t) /\ t \in Nat /\ NextCandleOpen(t) \in Nat
      BY <1>1, <2>2, CandleHolds
    <3> HIDE DEF start, end
    <3> QED
      BY <1>4, <2>2, <3>1
  <2>3. \A t \in ClosedAfter(range.end)' : range'.stage = "paging" /\ range'.start <= t
    <3> SUFFICES ASSUME NEW t \in ClosedAfter(range.end)' PROVE range'.stage = "paging" /\ range'.start <= t
      OBVIOUS
    <3>1. t \in Available /\ t > watermark /\ NextCandleOpen(t) <= end
      BY <2>1
    <3>2. start <= t /\ start < end
      BY <2>2, <3>1
    <3> HIDE DEF start, end
    <3> QED
      BY <1>4, <1>5, <3>2
  <2> QED
    BY <2>3 DEF FetchedIsComplete
<1>13. FirstPageIsPast'
  BY <1>5, <1>10 DEF FirstPageIsPast
<1> QED
  BY <1>7, <1>8, <1>11, <1>12, <1>13 DEF RangeInv

\* The beginning of a page behind what was fetched before.
LEMMA Extended ==
    ASSUME NEW f \in Seq(Nat), NEW p \in Seq(Nat), NEW n \in 0..Len(p)
    PROVE  /\ f \o SubSeq(p, 1, n) \in Seq(Nat)
           /\ \A t : (\E i \in DOMAIN (f \o SubSeq(p, 1, n)) : (f \o SubSeq(p, 1, n))[i] = t)
                <=> (\E i \in DOMAIN f : f[i] = t) \/ (\E i \in 1..n : p[i] = t)
           /\ /\ Ascending(f) /\ Ascending(p)
              /\ \A i \in DOMAIN f, j \in 1..n : f[i] < p[j]
              => Ascending(f \o SubSeq(p, 1, n))
<1> DEFINE c == SubSeq(p, 1, n)
           g == f \o c
<1>1. c \in Seq(Nat) /\ Len(c) = n /\ \A i \in 1..n : c[i] = p[i]
  OBVIOUS
<1>2. Len(f) \in Nat /\ n \in Nat /\ DOMAIN f = 1..Len(f)
  OBVIOUS
<1>3. /\ g \in Seq(Nat) /\ Len(g) = Len(f) + n /\ DOMAIN g = 1..(Len(f) + n)
      /\ \A i \in 1..Len(f) : g[i] = f[i]
      /\ \A i \in 1..n : g[Len(f) + i] = p[i]
  <2> HIDE DEF c
  <2>4. g \in Seq(Nat)
    BY <1>1
  <2>5. Len(g) = Len(f) + Len(c)
    BY <1>1, ConcatProperties
  <2>1. g \in Seq(Nat) /\ Len(g) = Len(f) + n /\ DOMAIN g = 1..(Len(f) + n)
    <3> HIDE DEF g
    <3> QED
      BY <1>1, <2>4, <2>5
  <2>2. \A i \in 1..Len(f) : g[i] = f[i]
    BY <1>1, <1>2
  <2>3. ASSUME NEW i \in 1..n PROVE g[Len(f) + i] = p[i]
    <3>1. g[Len(f) + i] = c[i]
      BY <1>1, <1>2
    <3> QED
      BY <1>1, <3>1
  <2> QED
    BY <2>1, <2>2, <2>3
<1>4. \A i \in 1..(Len(f) + n) : i \in 1..Len(f) \/ \E j \in 1..n : i = Len(f) + j
  <2> SUFFICES ASSUME NEW i \in 1..(Len(f) + n), i \notin 1..Len(f) PROVE \E j \in 1..n : i = Len(f) + j
    OBVIOUS
  <2>1. i - Len(f) \in 1..n /\ i = Len(f) + (i - Len(f))
    BY <1>2
  <2> QED
    BY <2>1
<1> HIDE DEF g
<1>5. \A t : (\E i \in DOMAIN g : g[i] = t)
               <=> (\E i \in DOMAIN f : f[i] = t) \/ (\E i \in 1..n : p[i] = t)
  <2> SUFFICES ASSUME NEW t PROVE (\E i \in DOMAIN g : g[i] = t)
               <=> (\E i \in DOMAIN f : f[i] = t) \/ (\E i \in 1..n : p[i] = t)
    OBVIOUS
  <2>1. ASSUME NEW i \in DOMAIN g, g[i] = t
        PROVE  (\E k \in DOMAIN f : f[k] = t) \/ (\E k \in 1..n : p[k] = t)
    <3>1. CASE i \in 1..Len(f)
      BY <1>2, <1>3, <2>1, <3>1
    <3>2. CASE \E j \in 1..n : i = Len(f) + j
      BY <1>3, <2>1, <3>2
    <3> QED
      BY <1>3, <1>4, <3>1, <3>2
  <2>2. ASSUME NEW i \in DOMAIN f, f[i] = t PROVE \E k \in DOMAIN g : g[k] = t
    <3>1. i \in DOMAIN g /\ g[i] = t
      BY <1>2, <1>3, <2>2
    <3> QED
      BY <3>1
  <2>3. ASSUME NEW i \in 1..n, p[i] = t PROVE \E k \in DOMAIN g : g[k] = t
    <3>1. Len(f) + i \in 1..(Len(f) + n)
      BY <1>2
    <3>2. Len(f) + i \in DOMAIN g /\ g[Len(f) + i] = t
      BY <1>3, <2>3, <3>1
    <3> QED
      BY <3>2
  <2> QED
    BY <2>1, <2>2, <2>3
<1>6. ASSUME Ascending(f), Ascending(p), \A i \in DOMAIN f, j \in 1..n : f[i] < p[j]
      PROVE  Ascending(g)
  <2> SUFFICES ASSUME NEW i \in DOMAIN g, NEW j \in DOMAIN g, i < j PROVE g[i] < g[j]
    BY DEF Ascending
  <2>1. i \in Nat /\ j \in Nat /\ DOMAIN p = 1..Len(p) /\ Len(p) \in Nat
    BY <1>3
  <2>2. CASE j \in 1..Len(f)
    <3>1. i \in DOMAIN f /\ j \in DOMAIN f /\ g[i] = f[i] /\ g[j] = f[j]
      BY <1>2, <1>3, <2>1, <2>2
    <3> QED
      BY <1>6, <3>1 DEF Ascending
  <2>3. CASE j \notin 1..Len(f)
    <3>1. PICK l \in 1..n : j = Len(f) + l
      BY <1>3, <1>4, <2>3
    <3>2. g[j] = p[l]
      BY <1>3, <3>1
    <3>3. CASE i \in 1..Len(f)
      BY <1>2, <1>3, <1>6, <3>2, <3>3
    <3>4. CASE i \notin 1..Len(f)
      <4>1. PICK k \in 1..n : i = Len(f) + k
        BY <1>3, <1>4, <3>4
      <4>2. g[i] = p[k] /\ k < l /\ k \in DOMAIN p /\ l \in DOMAIN p
        BY <1>2, <1>3, <2>1, <3>1, <4>1
      <4> QED
        BY <1>6, <3>2, <4>2 DEF Ascending
    <3> QED
      BY <3>3, <3>4
  <2> QED
    BY <2>2, <2>3
<1> QED
  BY <1>3, <1>5, <1>6 DEF g

\* What the answer to a request that follows what was fetched leaves to come.
LEMMA FollowingPage ==
    ASSUME RangeInv, range.stage = "paging",
           NEW page \in Pages(range.start, range.end), NEW n \in 0..Len(page),
           ClosedBy(page, n, range.end)
    PROVE  /\ \A i \in 1..n : page[i] \in ClosedAfter(range.end) /\ range.start <= page[i]
           /\ Len(page) < PageLimit \/ n = 0 =>
                \A t \in ClosedAfter(range.end) : range.start <= t => \E i \in 1..n : page[i] = t
           /\ n > 0 =>
                \A t \in ClosedAfter(range.end) :
                  range.start <= t /\ t <= page[n] => \E i \in 1..n : page[i] = t
<1>1. /\ range.start \in Nat /\ range.end \in Nat /\ range.after \in Nat /\ range.after \in Available
      /\ NextCandleOpen(range.after) <= range.start
  BY AvailableHolds DEF RangeInv, RangeTyped, RangeIsBounded, FetchedIsClosed
<1>2. NextCandleOpen(range.after) \in Nat /\ range.after < NextCandleOpen(range.after)
  BY <1>1, CandleHolds
<1>3. /\ Len(page) \in Nat /\ Len(page) <= PageLimit /\ n \in Nat /\ n <= Len(page)
      /\ DOMAIN page = 1..Len(page)
      /\ \A i \in 1..Len(page) : page[i] \in Candidates(range.start, range.end) /\ page[i] \in Nat
      /\ \A i, j \in 1..Len(page) : i < j => page[i] < page[j]
  BY PageHolds
<1>4. \A i \in 1..Len(page) : NextCandleOpen(page[i]) <= range.end <=> i <= n
  BY <1>3 DEF ClosedBy
<1>5. ASSUME NEW i \in 1..n PROVE page[i] \in ClosedAfter(range.end) /\ range.start <= page[i]
  <2>1. i \in 1..Len(page) /\ i <= n
    BY <1>3
  <2>2. page[i] \in Available /\ range.start <= page[i] /\ page[i] \in Nat
    BY <1>3, <2>1 DEF Candidates
  <2>3. range.after < page[i]
    BY <1>1, <1>2, <2>2
  <2> QED
    BY <1>4, <2>1, <2>2, <2>3 DEF ClosedAfter
<1>6. ASSUME NEW t \in ClosedAfter(range.end), range.start <= t
      PROVE  \/ \E i \in 1..n : page[i] = t
             \/ Len(page) = PageLimit /\ \A i \in 1..Len(page) : page[i] < t
  <2>1. t \in Available /\ t \in Nat /\ NextCandleOpen(t) <= range.end /\ NextCandleOpen(t) \in Nat /\ t < NextCandleOpen(t)
    BY CandleHolds DEF ClosedAfter
  <2>2. t \in Candidates(range.start, range.end)
    BY <1>1, <1>6, <2>1 DEF Candidates
  <2>3. \/ \E i \in 1..Len(page) : page[i] = t
        \/ Len(page) = PageLimit /\ \A i \in 1..Len(page) : page[i] < t
    BY <2>2, PageHolds
  <2>4. ASSUME NEW i \in 1..Len(page), page[i] = t PROVE \E k \in 1..n : page[k] = t
    <3>1. i <= n
      BY <1>4, <2>1, <2>4
    <3>2. i \in 1..n
      BY <1>3, <3>1
    <3> QED
      BY <2>4, <3>2
  <2> QED
    BY <2>3, <2>4
<1>7. ASSUME n = 0, NEW t \in ClosedAfter(range.end), range.start <= t, Len(page) = PageLimit,
             \A i \in 1..Len(page) : page[i] < t
      PROVE  FALSE
  <2>1. 1 \in 1..Len(page)
    BY <1>3, <1>7, RangeAssumption
  <2>2. page[1] \in Available /\ page[1] < t /\ t \in Available /\ NextCandleOpen(t) <= range.end
    BY <1>3, <1>7, <2>1 DEF Candidates, ClosedAfter
  <2>3. NextCandleOpen(page[1]) <= t /\ t < NextCandleOpen(t) /\ t \in Nat
    BY <2>2, CandleHolds
  <2>4. NextCandleOpen(t) \in Nat /\ NextCandleOpen(page[1]) \in Nat
    BY <2>2, CandleHolds
  <2>5. NextCandleOpen(page[1]) <= range.end
    BY <1>1, <2>2, <2>3, <2>4
  <2>6. 1 <= n
    BY <1>4, <2>1, <2>5
  <2> QED
    BY <1>7, <2>6
<1>8. ASSUME Len(page) < PageLimit \/ n = 0, NEW t \in ClosedAfter(range.end), range.start <= t
      PROVE  \E i \in 1..n : page[i] = t
  <2>1. CASE \E i \in 1..n : page[i] = t
    BY <2>1
  <2>2. CASE Len(page) = PageLimit /\ \A i \in 1..Len(page) : page[i] < t
    <3>1. n = 0
      BY <1>3, <1>8, <2>2, RangeAssumption
    <3> QED
      BY <1>7, <1>8, <2>2, <3>1
  <2> QED
    BY <1>6, <1>8, <2>1, <2>2
<1>9. ASSUME n > 0, NEW t \in ClosedAfter(range.end), range.start <= t, t <= page[n]
      PROVE  \E i \in 1..n : page[i] = t
  <2>1. n \in 1..Len(page) /\ page[n] \in Nat /\ t \in Nat
    BY <1>3, <1>9, AvailableHolds DEF ClosedAfter
  <2>2. ~(page[n] < t)
    BY <1>9, <2>1
  <2> QED
    BY <1>6, <1>9, <2>1, <2>2
<1> QED
  BY <1>5, <1>8, <1>9

\* A repeated first page is noticed.
LEMMA RepeatedPage ==
    ASSUME RangeInv, range.stage = "paging", range.start # NextCandleOpen(range.after),
           NEW page \in Pages(NextCandleOpen(range.after), range.end), NEW n \in 0..Len(page),
           ClosedBy(page, n, range.end), Answered(page, n)
    PROVE  range' = NoRange
<1>1. PICK first \in Pages(NextCandleOpen(range.after), range.end), k \in 1..PageLimit : IsPast(first, k)
  BY DEF RangeInv, FirstPageIsPast
<1>2. page = first /\ Len(page) = PageLimit /\ DOMAIN page = 1..Len(page)
  BY <1>1, PagesAgree, PageHolds DEF IsPast
<1>3. \A i \in 1..PageLimit : i <= n <=> i <= k
  BY <1>1, <1>2 DEF IsPast, ClosedBy
<1>4. n \in 0..PageLimit /\ PageLimit \in Nat /\ k \in 1..PageLimit
  BY <1>2, RangeAssumption
<1>5. n = k
  <2>1. k <= n
    BY <1>3, <1>4
  <2>2. n \in 1..PageLimit
    BY <1>4, <2>1
  <2>3. n <= k
    BY <1>3, <1>4, <2>2
  <2> QED
    BY <1>4, <2>1, <2>3
<1>6. ~(Len(page) < PageLimit \/ n = 0) /\ page[n] < range.start
  BY <1>1, <1>2, <1>4, <1>5 DEF IsPast
<1> QED
  BY <1>6 DEF Answered

\* A page that follows what was fetched before is added to it.
LEMMA NextPageKeeps ==
    ASSUME RangeInv, range.stage = "paging",
           NEW page \in Pages(range.start, range.end), NEW n \in 0..Len(page),
           ClosedBy(page, n, range.end), Answered(page, n),
           UNCHANGED <<interval, outages, serverTime, watermark>>
    PROVE  RangeInv'
<1> DEFINE last == Len(page) < PageLimit \/ n = 0
           next == IF last THEN range.end ELSE page[n] + 1
           stage == IF next < range.end THEN "paging" ELSE "returned"
           fetched == range.fetched \o SubSeq(page, 1, n)
<1>1. /\ range.start \in Nat /\ range.end \in Nat /\ range.after \in Nat /\ range.fetched \in Seq(Nat)
      /\ range.after \in Available /\ NextCandleOpen(range.after) <= range.start
      /\ NextCandleOpen(range.after) \in Nat
  BY AvailableHolds, CandleHolds DEF RangeInv, RangeTyped, RangeIsBounded, FetchedIsClosed
<1>2. /\ Available' = Available
      /\ \A t : NextCandleOpen(t)' = NextCandleOpen(t)
      /\ \A t : LatestClosedBoundary(t)' = LatestClosedBoundary(t)
      /\ \A start, end : Pages(start, end)' = Pages(start, end)
  BY SameExchange
<1>3. /\ Len(page) \in Nat /\ Len(page) <= PageLimit /\ n \in Nat /\ n <= Len(page) /\ page \in Seq(Nat)
      /\ DOMAIN page = 1..Len(page)
      /\ \A i \in 1..Len(page) : page[i] \in Nat
      /\ \A i, j \in 1..Len(page) : i < j => page[i] < page[j]
  BY PageHolds
<1>4. \A i \in 1..n : page[i] \in ClosedAfter(range.end) /\ range.start <= page[i]
  BY FollowingPage
<1>5. last => \A t \in ClosedAfter(range.end) : range.start <= t => \E i \in 1..n : page[i] = t
  BY FollowingPage
<1>6. ~last => n \in 1..PageLimit /\ n \in 1..Len(page) /\ Len(page) = PageLimit /\ page[n] \in Nat /\ range.start <= page[n]
  <2> SUFFICES ASSUME ~last
               PROVE  n \in 1..PageLimit /\ n \in 1..Len(page) /\ Len(page) = PageLimit
                      /\ page[n] \in Nat /\ range.start <= page[n]
    OBVIOUS
  <2>3. PageLimit \in Nat
    BY RangeAssumption
  <2>4. Len(page) \in Nat /\ Len(page) <= PageLimit
    BY <1>3
  <2>1. Len(page) = PageLimit /\ n # 0
    BY <2>3, <2>4
  <2>2. n \in 1..PageLimit /\ n \in 1..Len(page) /\ n \in 1..n
    BY <1>3, <2>1
  <2> QED
    BY <1>3, <1>4, <2>1, <2>2
<1>7. ~last => \A t \in ClosedAfter(range.end) :
                  range.start <= t /\ t <= page[n] => \E i \in 1..n : page[i] = t
  BY <1>6, FollowingPage
<1>8. range' = [range EXCEPT !.fetched = fetched, !.start = next, !.stage = stage]
  <2>1. ~(~last /\ page[n] < range.start)
    BY <1>1, <1>6
  <2> QED
    BY <2>1 DEF Answered, NextStart
<1>9. next \in Nat /\ fetched \in Seq(Nat)
  BY <1>1, <1>3, <1>6, Extended
<1>10. /\ range'.asked = range.asked /\ range'.after = range.after /\ range'.end = range.end
       /\ range'.fetched = fetched /\ range'.start = next /\ range'.stage = stage
  <2> HIDE DEF fetched, next, stage
  <2> QED
    BY <1>8 DEF RangeInv, RangeTyped
<1>11. RangeTyped'
  <2>1. stage \in {"idle", "paging", "returned"}
    OBVIOUS
  <2> HIDE DEF fetched, next, stage
  <2>2. range' \in [stage : {"idle", "paging", "returned"}, asked : Nat, after : Nat,
                  start : Nat, end : Nat, fetched : Seq(Nat)]
    BY <1>8, <1>9, <2>1 DEF RangeInv, RangeTyped
  <2> QED
    BY <1>2, <2>2 DEF RangeInv, RangeTyped
<1>12. RangeIsBounded'
  <2> HIDE DEF fetched, next, stage
  <2> QED
    BY <1>2, <1>10 DEF RangeInv, RangeIsBounded
<1>13. ClosedAfter(range.end)' = ClosedAfter(range.end)
  <2> HIDE DEF fetched, next, stage
  <2> QED
    BY <1>2, <1>10 DEF ClosedAfter
<1>14. \A t : t \in Fetched' <=> t \in Fetched \/ \E i \in 1..n : page[i] = t
  <2>1. Fetched' = {fetched[i] : i \in DOMAIN fetched}
    <3> HIDE DEF fetched, next, stage
    <3> QED
      BY <1>10 DEF Fetched
  <2>2. \A t : (\E i \in DOMAIN fetched : fetched[i] = t)
                 <=> (\E i \in DOMAIN range.fetched : range.fetched[i] = t) \/ (\E i \in 1..n : page[i] = t)
    BY <1>1, <1>3, Extended
  <2> HIDE DEF fetched, next, stage
  <2> QED
    BY <2>1, <2>2 DEF Fetched
<1>15. Ascending(range.fetched)'
  <2>1. Ascending(range.fetched) /\ Ascending(page)
    BY <1>3 DEF Ascending, RangeInv, FetchedIsClosed
  <2>2. ASSUME NEW i \in DOMAIN range.fetched, NEW j \in 1..n PROVE range.fetched[i] < page[j]
    <3>1. range.fetched[i] \in Fetched
      BY DEF Fetched
    <3>2. range.fetched[i] < range.start
      BY <3>1 DEF RangeInv, FetchedIsClosed
    <3>4. range.fetched[i] \in Nat
      BY <1>1
    <3>5. j \in 1..Len(page)
      BY <1>3
    <3>3. range.fetched[i] \in Nat /\ page[j] \in Nat /\ range.start <= page[j]
      BY <1>3, <1>4, <3>4, <3>5
    <3> QED
      BY <1>1, <3>2, <3>3
  <2>3. Ascending(fetched)
    BY <1>1, <1>3, <2>1, <2>2, Extended
  <2> HIDE DEF fetched, next, stage
  <2> QED
    BY <1>10, <2>3 DEF Ascending
<1>16. stage = "paging" => ~last /\ next = page[n] + 1
  BY <1>1
<1>17. stage = "paging" => \A t \in Fetched' : t < next
  <2> SUFFICES ASSUME stage = "paging", NEW t \in Fetched' PROVE t < page[n] + 1
    BY <1>16
  <2>1. ~last /\ page[n] \in Nat /\ range.start <= page[n] /\ n \in 1..Len(page)
    BY <1>6, <1>16
  <2>2. CASE t \in Fetched
    <3>1. t < range.start /\ t \in Nat
      BY <2>2, AvailableHolds DEF RangeInv, FetchedIsClosed, ClosedAfter
    <3> QED
      BY <1>1, <2>1, <3>1
  <2>3. CASE \E i \in 1..n : page[i] = t
    <3>1. PICK i \in 1..n : page[i] = t
      BY <2>3
    <3>2. i = n \/ i < n
      BY <1>3
    <3>3. i < n => page[i] < page[n]
      BY <1>3, <2>1
    <3>4. page[i] \in Nat
      BY <1>3
    <3> QED
      BY <2>1, <3>1, <3>2, <3>3, <3>4
  <2> QED
    BY <1>14, <2>2, <2>3
<1>18. FetchedIsClosed'
  <2>1. Fetched' \subseteq ClosedAfter(range.end)
    BY <1>4, <1>14 DEF RangeInv, FetchedIsClosed
  <2>2. stage = "paging" => NextCandleOpen(range.after) <= next
    BY <1>1, <1>6, <1>16
  <2>3. NextCandleOpen(range.after)' = NextCandleOpen(range.after)
    <3> HIDE DEF fetched, next, stage
    <3> QED
      BY <1>10 DEF NextCandleOpen
  <2> HIDE DEF fetched, next, stage
  <2> QED
    BY <1>10, <1>13, <1>15, <1>17, <2>1, <2>2, <2>3 DEF FetchedIsClosed
<1>19. FetchedIsComplete'
  <2>1. ASSUME NEW t \in ClosedAfter(range.end) PROVE t \in Fetched' \/ (stage = "paging" /\ next <= t)
    <3>1. t \in Nat /\ t < range.end
      <4>1. t \in Available /\ NextCandleOpen(t) <= range.end
        BY DEF ClosedAfter
      <4>2. t \in Nat /\ NextCandleOpen(t) \in Nat /\ t < NextCandleOpen(t)
        BY <4>1, CandleHolds
      <4> QED
        BY <1>1, <4>1, <4>2
    <3>2. t \in Fetched \/ range.start <= t
      BY DEF RangeInv, FetchedIsComplete
    <3>3. CASE t \in Fetched \/ \E i \in 1..n : page[i] = t
      BY <1>14, <3>3
    <3>4. CASE range.start <= t /\ ~\E i \in 1..n : page[i] = t
      <4>1. ~last
        BY <1>5, <3>4
      <4>2. ~(t <= page[n]) /\ page[n] \in Nat
        BY <1>6, <1>7, <3>4, <4>1
      <4>3. next = page[n] + 1 /\ next <= t
        BY <3>1, <4>1, <4>2
      <4>4. next < range.end
        BY <1>1, <3>1, <4>2, <4>3
      <4> QED
        BY <4>3, <4>4
    <3> QED
      BY <3>2, <3>3, <3>4
  <2> HIDE DEF fetched, next, stage
  <2> QED
    BY <1>10, <1>13, <2>1 DEF FetchedIsComplete
<1>20. FirstPageIsPast'
  <2> SUFFICES ASSUME stage = "paging"
               PROVE  \E first \in Pages(NextCandleOpen(range.after), range.end), k \in 1..PageLimit :
                        /\ Len(first) = PageLimit /\ ClosedBy(first, k, range.end)
                        /\ first[k] < next
    <3>1. NextCandleOpen(range.after)' = NextCandleOpen(range.after)
      <4> HIDE DEF fetched, next, stage
      <4> QED
        BY <1>10 DEF NextCandleOpen
    <3>2. Pages(NextCandleOpen(range.after), range.end)' = Pages(NextCandleOpen(range.after), range.end)
      <4> HIDE DEF fetched, next, stage
      <4>1. Candidates(NextCandleOpen(range.after), range.end)' = Candidates(NextCandleOpen(range.after), range.end)
        BY <1>2, <1>10, <3>1 DEF Candidates
      <4> QED
        BY <4>1 DEF Pages
    <3>3. \A first, k : ClosedBy(first, k, range.end)' <=> ClosedBy(first, k, range.end)
      <4> HIDE DEF fetched, next, stage
      <4> QED
        BY <1>2, <1>10 DEF ClosedBy
    <3> HIDE DEF fetched, next, stage
    <3> QED
      BY <1>10, <3>1, <3>2, <3>3 DEF FirstPageIsPast, IsPast
  <2>1. ~last /\ next = page[n] + 1 /\ n \in 1..PageLimit /\ Len(page) = PageLimit
        /\ page[n] \in Nat /\ range.start <= page[n] /\ next \in Nat
    BY <1>6, <1>9, <1>16
  <2>2. CASE range.start = NextCandleOpen(range.after)
    <3>1. page[n] < next
      BY <2>1
    <3> QED
      BY <2>1, <2>2, <3>1
  <2>3. CASE range.start # NextCandleOpen(range.after)
    <3>1. PICK first \in Pages(NextCandleOpen(range.after), range.end), k \in 1..PageLimit : IsPast(first, k)
      BY <2>3 DEF RangeInv, FirstPageIsPast
    <3>2. first[k] < range.start /\ Len(first) = PageLimit /\ ClosedBy(first, k, range.end)
      BY <3>1 DEF IsPast
    <3>3. first[k] \in Nat
      BY <3>2, PageHolds
    <3>4. first[k] < next
      <4> HIDE DEF next, last
      <4> QED
        BY <1>1, <2>1, <3>2, <3>3
    <3> QED
      BY <3>2, <3>4
  <2> QED
    BY <2>2, <2>3
<1> QED
  BY <1>11, <1>12, <1>18, <1>19, <1>20 DEF RangeInv

\* A page follows the last, or repeats the first and is refused.
LEMMA PageKeeps == ASSUME RangeInv, Page PROVE RangeInv'
<1>1. /\ range.stage = "paging" /\ UNCHANGED <<interval, outages, serverTime, watermark>>
      /\ \E start \in {range.start, NextCandleOpen(range.after)} :
         \E page \in Pages(start, range.end) :
         \E n \in 0..Len(page) : ClosedBy(page, n, range.end) /\ Answered(page, n)
  BY DEF Page
<1>2. CASE \E page \in Pages(range.start, range.end) :
           \E n \in 0..Len(page) : ClosedBy(page, n, range.end) /\ Answered(page, n)
  BY <1>1, <1>2, NextPageKeeps
<1>3. CASE /\ range.start # NextCandleOpen(range.after)
           /\ \E page \in Pages(NextCandleOpen(range.after), range.end) :
              \E n \in 0..Len(page) : ClosedBy(page, n, range.end) /\ Answered(page, n)
  <2>1. range' = NoRange
    BY <1>1, <1>3, RepeatedPage
  <2>2. watermark' \in Available
    BY <1>1 DEF RangeInv, RangeTyped
  <2> QED
    BY <1>1, <2>1, <2>2, GivenUp
<1> QED
  BY <1>1, <1>2, <1>3

\* The newest candle of a repair is one the exchange has.
LEMMA RangeStoredKeeps == ASSUME RangeInv, RangeStored PROVE RangeInv'
<1>1. range.stage = "returned" /\ range.fetched # <<>> /\ range' = NoRange
      /\ watermark' = range.fetched[Len(range.fetched)] /\ UNCHANGED <<interval, outages, serverTime>>
  BY DEF RangeStored
<1>2. range.fetched \in Seq(Nat)
  BY DEF RangeInv, RangeTyped
<1>3. Len(range.fetched) \in DOMAIN range.fetched
  BY <1>1, <1>2
<1>4. watermark' \in Fetched
  BY <1>1, <1>3 DEF Fetched
<1>5. watermark' \in Available
  BY <1>4 DEF RangeInv, FetchedIsClosed, ClosedAfter
<1> QED
  BY <1>1, <1>5, GivenUp

\* A candle that opens now was not closed when the repair asked.
LEMMA ServerTickKeeps == ASSUME RangeInv, ServerTick PROVE RangeInv'
<1>1. serverTime' = serverTime + 1 /\ UNCHANGED <<interval, outages, watermark, range>>
  BY DEF ServerTick
<1>2. serverTime \in Nat /\ interval \in Intervals
  BY DEF RangeInv, RangeTyped
<1>3. \A t : NextCandleOpen(t)' = NextCandleOpen(t)
  BY <1>1 DEF NextCandleOpen
<1>4. \A t : LatestClosedBoundary(t)' = LatestClosedBoundary(t)
  BY <1>1 DEF LatestClosedBoundary
<1>5. /\ Available \subseteq Available'
      /\ \A t \in Available' : t \in Nat /\ (t <= serverTime => t \in Available)
                               /\ t < NextCandleOpen(t) /\ NextCandleOpen(t) \in Nat
  <2>1. \A t : OnGrid(t)' <=> OnGrid(t)
    BY <1>1 DEF OnGrid
  <2>2. Available' = {t \in 0..(serverTime + 1) : OnGrid(t)} \ outages
    BY <1>1, <2>1 DEF Available
  <2>3. \A t \in Nat : OnGrid(t) => t < NextCandleOpen(t) /\ NextCandleOpen(t) \in Nat
    BY <1>2, GridIsApart
  <2>4. ASSUME NEW t \in Available'
        PROVE  t \in Nat /\ (t <= serverTime => t \in Available)
    BY <1>2, <2>2 DEF Available
  <2>5. Available \subseteq Available'
    BY <1>2, <2>2 DEF Available
  <2> QED
    BY <2>2, <2>3, <2>4, <2>5
<1>6. RangeTyped'
  BY <1>1, <1>2, <1>5 DEF RangeInv, RangeTyped
<1>7. CASE range.stage = "idle"
  <2>1. RangeIsBounded' /\ FetchedIsComplete' /\ FirstPageIsPast'
    BY <1>1, <1>7 DEF RangeIsBounded, FetchedIsComplete, FirstPageIsPast
  <2>2. Fetched' = Fetched /\ Ascending(range.fetched)' /\ range.stage' # "paging"
    BY <1>1, <1>7 DEF Fetched, Ascending, RangeInv, FetchedIsClosed
  <2>3. ClosedAfter(range.end) \subseteq ClosedAfter(range.end)'
    BY <1>1, <1>3, <1>5 DEF ClosedAfter
  <2>4. FetchedIsClosed'
    BY <1>1, <2>2, <2>3 DEF RangeInv, FetchedIsClosed
  <2> QED
    BY <1>6, <2>1, <2>4 DEF RangeInv
<1>8. CASE range.stage # "idle"
  <2>1. /\ range.end \in Nat /\ range.asked \in Nat /\ range.after \in Available /\ range.asked <= serverTime
        /\ range.end = LatestClosedBoundary(range.asked)
    BY <1>8 DEF RangeInv, RangeTyped, RangeIsBounded
  <2>2. range.end <= serverTime
    <3>1. range.end <= range.asked
      BY <1>2, <2>1, BoundaryIsClosed
    <3> QED
      BY <1>2, <2>1, <3>1
  <2>3. RangeIsBounded'
    <3>1. range.asked <= serverTime + 1
      BY <1>2, <2>1
    <3> QED
      BY <1>1, <1>4, <1>5, <2>1, <3>1 DEF RangeIsBounded
  <2>4. ClosedAfter(range.end)' = ClosedAfter(range.end)
    <3>1. ASSUME NEW t \in Available', NextCandleOpen(t) <= range.end PROVE t \in Available
      BY <1>2, <1>5, <2>1, <2>2, <3>1
    <3> QED
      BY <1>1, <1>3, <1>5, <3>1 DEF ClosedAfter
  <2>5. Fetched' = Fetched /\ (Ascending(range.fetched)' <=> Ascending(range.fetched))
    BY <1>1 DEF Fetched, Ascending
  <2>6. FetchedIsClosed' /\ FetchedIsComplete'
    BY <1>1, <1>3, <2>4, <2>5 DEF RangeInv, FetchedIsClosed, FetchedIsComplete
  <2>7. FirstPageIsPast'
    <3>1. \A start : Candidates(start, range.end)' = Candidates(start, range.end)
      <4> SUFFICES ASSUME NEW start, NEW t
                   PROVE  t \in Candidates(start, range.end)' <=> t \in Candidates(start, range.end)
        BY DEF Candidates
      <4>1. t \in Candidates(start, range.end)' <=> t \in Available' /\ start <= t /\ t < range.end
        BY <1>1 DEF Candidates
      <4>2. t \in Available' /\ t < range.end => t \in Available
        BY <1>2, <1>5, <2>1, <2>2
      <4> QED
        BY <1>5, <4>1, <4>2 DEF Candidates
    <3>2. \A start : Pages(start, range.end)' = Pages(start, range.end)
      BY <3>1 DEF Pages
    <3>3. \A first, n : IsPast(first, n)' <=> IsPast(first, n)
      BY <1>1, <1>3 DEF IsPast, ClosedBy
    <3> QED
      BY <1>1, <1>3, <3>2, <3>3 DEF RangeInv, FirstPageIsPast
  <2> QED
    BY <1>6, <2>3, <2>6, <2>7 DEF RangeInv
<1> QED
  BY <1>7, <1>8

\* The invariant holds in every state of a repair.
THEOREM RangeInvariance == RangeSpec => []RangeInv
<1>1. ASSUME RangeInv, RangeNext PROVE RangeInv'
  <2>1. ASSUME PageRaises PROVE RangeInv'
    <3>1. range' = NoRange /\ UNCHANGED <<interval, outages, serverTime, watermark>>
      BY <2>1 DEF PageRaises
    <3>2. watermark' \in Available
      BY <1>1, <3>1 DEF RangeInv, RangeTyped
    <3> QED
      BY <1>1, <3>1, <3>2, GivenUp
  <2> QED
    BY <1>1, <2>1, AskKeeps, PageKeeps, RangeStoredKeeps, ServerTickKeeps DEF RangeNext
<1>2. ASSUME RangeInv, UNCHANGED rangeVars PROVE RangeInv'
  <2>1. UNCHANGED <<interval, outages, serverTime, watermark, range>>
    BY <1>2 DEF rangeVars
  <2>2. /\ Available' = Available
        /\ \A t : NextCandleOpen(t)' = NextCandleOpen(t)
        /\ \A t : LatestClosedBoundary(t)' = LatestClosedBoundary(t)
        /\ \A start, end : Pages(start, end)' = Pages(start, end)
    BY <2>1, SameExchange
  <2>3. RangeTyped' /\ RangeIsBounded'
    BY <1>2, <2>1, <2>2 DEF RangeInv, RangeTyped, RangeIsBounded
  <2>4. Fetched' = Fetched /\ ClosedAfter(range.end)' = ClosedAfter(range.end)
        /\ (Ascending(range.fetched)' <=> Ascending(range.fetched))
    BY <2>1, <2>2 DEF Fetched, ClosedAfter, Ascending
  <2>5. FetchedIsClosed' /\ FetchedIsComplete'
    BY <1>2, <2>1, <2>2, <2>4 DEF RangeInv, FetchedIsClosed, FetchedIsComplete
  <2>6. \A first, n : IsPast(first, n)' <=> IsPast(first, n)
    BY <2>1, <2>2 DEF IsPast, ClosedBy
  <2>7. Pages(NextCandleOpen(range.after), range.end)' = Pages(NextCandleOpen(range.after), range.end)
    <3>1. Candidates(NextCandleOpen(range.after), range.end)' = Candidates(NextCandleOpen(range.after), range.end)
      BY <2>1, <2>2 DEF Candidates
    <3> QED
      BY <3>1 DEF Pages
  <2>8. FirstPageIsPast'
    BY <1>2, <2>1, <2>2, <2>6, <2>7 DEF RangeInv, FirstPageIsPast
  <2> QED
    BY <2>3, <2>5, <2>8 DEF RangeInv
<1> QED
  BY <1>1, <1>2, RangeStart, PTL DEF RangeSpec

\* For every fixed interval and every number of months, every size of a page,
\* and whatever candles the exchange lacks: a repair that returns has brought
\* each candle between the watermark and the boundary once and in order
\* (GapRecoveryService.recover with get_closed_klines).
THEOREM RangesAreRepaired == RangeSpec => []RangeIsRepaired
<1>1. ASSUME RangeInv PROVE RangeIsRepaired
  <2> SUFFICES ASSUME range.stage = "returned"
               PROVE  /\ Ascending(range.fetched) /\ Fetched = ClosedAfter(range.end)
                      /\ interval.phase = 0 => Fetched = ClosedAfter(range.asked)
    BY DEF RangeIsRepaired
  <2>1. Ascending(range.fetched) /\ Fetched \subseteq ClosedAfter(range.end)
    BY <1>1 DEF RangeInv, FetchedIsClosed
  <2>2. Fetched = ClosedAfter(range.end)
    BY <1>1, <2>1 DEF RangeInv, FetchedIsComplete
  <2>3. interval \in Intervals /\ range.asked \in Nat /\ range.end \in Nat
        /\ range.end = LatestClosedBoundary(range.asked)
    BY <1>1 DEF RangeInv, RangeTyped, RangeIsBounded
  <2>4. /\ range.end <= range.asked
        /\ \A t \in Nat : interval.phase = 0 /\ OnGrid(t) /\ NextCandleOpen(t) <= range.asked
                            => NextCandleOpen(t) <= range.end
    BY <2>3, BoundaryIsClosed
  <2>5. ASSUME interval.phase = 0 PROVE ClosedAfter(range.end) = ClosedAfter(range.asked)
    <3>1. \A t \in Available : t \in Nat /\ OnGrid(t) /\ NextCandleOpen(t) \in Nat
      BY <1>1, AvailableHolds, CandleHolds
    <3>2. ASSUME NEW t \in Available
          PROVE  NextCandleOpen(t) <= range.end <=> NextCandleOpen(t) <= range.asked
      BY <2>3, <2>4, <2>5, <3>1
    <3> QED
      BY <3>2 DEF ClosedAfter
  <2> QED
    BY <2>1, <2>2, <2>5
<1> QED
  BY <1>1, RangeInvariance, PTL

-----------------------------------------------------------------------------
(* GapRecovery *)

\* A drop belongs to a frame that has arrived, a pass began with no more drops
\* than there are now, a batch that is being drained is not empty, and none is
\* larger than the buffer.
Counted ==
    /\ \A r \in Repairs : Len(repair[r].frames) <= Capacity
    /\ dropped <= arrived
    /\ \A r \in Repairs : repair[r].stage \in {"history", "drain"} =>
          repair[r].before <= dropped
    /\ \A r \in Repairs : repair[r].stage = "drain" => repair[r].frames # <<>>

IInv == TypeOK /\ Counted /\ DropsReported

USE GapAssumption

\* The history of incidents is bounded, and its newest incident is the last.
LEMMA RecentKeepsNewest ==
    ASSUME NEW s \in Seq(1..MaxFrames), Len(s) <= MaxIncidents, NEW d \in 1..MaxFrames
    PROVE  LET h == Recent(Append(s, d))
           IN  /\ h \in Seq(1..MaxFrames) /\ Len(h) <= MaxIncidents
               /\ h # <<>> /\ h[Len(h)] = d
<1> DEFINE a == Append(s, d)
<1>1. /\ a \in Seq(1..MaxFrames) /\ Len(a) = Len(s) + 1 /\ a[Len(a)] = d /\ a # <<>>
  BY AppendProperties
<1> HIDE DEF a
<1>2. CASE Len(a) > MaxIncidents
  <2>1. /\ Tail(a) \in Seq(1..MaxFrames) /\ Len(Tail(a)) = Len(a) - 1
        /\ \A i \in 1..Len(Tail(a)) : Tail(a)[i] = a[i + 1]
    BY <1>1, HeadTailProperties
  <2>2. Recent(a) = Tail(a)
    BY <1>2 DEF Recent
  <2>3. Len(Tail(a)) \in 1..Len(Tail(a)) /\ Len(Tail(a)) + 1 = Len(a)
    BY <1>1, <1>2, <2>1
  <2> QED
    BY <1>1, <2>1, <2>2, <2>3 DEF a
<1>3. CASE ~(Len(a) > MaxIncidents)
  BY <1>1, <1>3 DEF Recent, a
<1> QED
  BY <1>2, <1>3

\* The record of a call that has not begun has the type of calls.
LEMMA IdleType == Idle \in Calls
<1>1. <<>> \in Seq(Frames) /\ 0 \in 0..MaxFrames
  OBVIOUS
<1> QED
  BY <1>1 DEF Idle, Calls

LEMMA InitIInv == Init => IInv
<1> SUFFICES ASSUME Init PROVE IInv
  OBVIOUS
<1>1. TypeOK
  <2>1. <<>> \in Seq(Frames) /\ <<>> \in Seq(1..MaxFrames) /\ Len(<<>>) = 0
    OBVIOUS
  <2>2. repair \in [Repairs -> Calls]
    BY IdleType DEF Init
  <2>3. /\ recovering = FALSE /\ buffer = <<>> /\ dropped = 0 /\ incidents = <<>>
        /\ live = <<>> /\ arrived = 0 /\ processed = <<>> /\ told = 0 /\ recoveries = 0
    BY DEF Init
  <2>4. recovering \in BOOLEAN
    BY <2>3
  <2>5. /\ buffer \in Seq(Frames) /\ Len(buffer) <= Capacity
        /\ incidents \in Seq(1..MaxFrames) /\ Len(incidents) <= MaxIncidents
        /\ live \in Seq(Frames) /\ Len(live) <= 1 /\ processed \in Seq(Frames)
    BY <2>1, <2>3
  <2>6. /\ dropped \in 0..MaxFrames /\ told \in 0..MaxFrames
        /\ arrived \in 0..MaxFrames /\ recoveries \in 0..MaxRecoveries
    BY <2>3
  <2>7. abandoned \subseteq SUBSET Frames
    BY DEF Init
  <2> QED
    BY <2>2, <2>4, <2>5, <2>6, <2>7 DEF TypeOK
<1>2. Counted
  <2>1. Len(<<>>) = 0 /\ 0 <= Capacity
    OBVIOUS
  <2> QED
    BY <2>1 DEF Init, Counted, Idle
<1> QED
  BY <1>1, <1>2 DEF Init, IInv, DropsReported

LEMMA ArriveIInv ==
    ASSUME IInv, Arrive
    PROVE  IInv'
<1> DEFINE f == arrived + 1
<1>1. /\ f \in Frames /\ arrived' = f /\ f \in 0..MaxFrames
      /\ repair' = repair /\ told' = told /\ recoveries' = recoveries
      /\ abandoned' = abandoned
  BY DEF Arrive, IInv, TypeOK, Frames
<1> HIDE DEF f
<1>2. CASE Forward(f)
  <2>1. /\ processed' \in Seq(Frames) /\ live' \in Seq(Frames) /\ Len(live') <= 1
    <3>1. <<f>> \in Seq(Frames) /\ Len(<<f>>) = 1
      BY <1>1
    <3>2. Append(processed, f) \in Seq(Frames)
      BY <1>1, AppendProperties DEF IInv, TypeOK
    <3>3. processed \in Seq(Frames) /\ live \in Seq(Frames) /\ Len(live) <= 1
      BY DEF IInv, TypeOK
    <3>4. CASE CaptureSuspends
      <4>1. live' = <<f>> /\ processed' = processed
        BY <1>2, <3>4 DEF Forward
      <4> QED
        BY <3>1, <3>3, <4>1
    <3>5. CASE ~CaptureSuspends
      <4>1. live' = live /\ processed' = Append(processed, f)
        BY <1>2, <3>5 DEF Forward
      <4> QED
        BY <3>2, <3>3, <4>1
    <3> QED
      BY <3>4, <3>5
  <2>2. UNCHANGED <<recovering, buffer, dropped, incidents>>
    BY <1>2 DEF Forward, gate
  <2>3. TypeOK'
    BY <1>1, <2>1, <2>2 DEF IInv, TypeOK
  <2>4. Counted'
    <3>1. arrived \in Nat /\ dropped \in Nat /\ arrived' = arrived + 1
      BY <1>1 DEF IInv, TypeOK, f
    <3>2. dropped' <= arrived'
      BY <2>2, <3>1 DEF IInv, Counted
    <3> QED
      BY <1>1, <2>2, <3>2 DEF IInv, Counted
  <2>5. DropsReported'
    BY <1>1, <2>2 DEF IInv, DropsReported
  <2> QED
    BY <2>3, <2>4, <2>5 DEF IInv
<1>3. CASE Hold(f)
  <2>1. buffer' \in Seq(Frames) /\ Len(buffer') <= Capacity
    BY <1>1, <1>3, AppendProperties DEF Hold, IInv, TypeOK
  <2> QED
    BY <1>1, <1>3, <2>1 DEF Hold, IInv, TypeOK, Counted, DropsReported, f
<1>4. CASE Drop
  <2>1. dropped + 1 \in 1..MaxFrames /\ dropped' = dropped + 1 /\ dropped' <= arrived'
    BY <1>1, <1>4 DEF Drop, IInv, TypeOK, Counted, f, Frames
  <2>2. /\ incidents' \in Seq(1..MaxFrames) /\ Len(incidents') <= MaxIncidents
        /\ incidents' # <<>> /\ incidents'[Len(incidents')] = dropped'
    BY <1>4, <2>1, RecentKeepsNewest DEF Drop, IInv, TypeOK
  <2>3. TypeOK'
    BY <1>1, <1>4, <2>1, <2>2 DEF Drop, IInv, TypeOK
  <2>4. Counted'
    BY <1>1, <1>4, <2>1 DEF Drop, IInv, TypeOK, Counted, Calls
  <2> QED
    BY <2>2, <2>3, <2>4 DEF IInv, DropsReported
<1> QED
  BY <1>2, <1>3, <1>4 DEF Arrive, f

LEMMA RecoverIInv ==
    ASSUME IInv, NEW r \in Repairs, Recover(r)
    PROVE  IInv'
<1> DEFINE new == [stage |-> "history", frames |-> <<>>, before |-> dropped,
                   overflowed |-> FALSE]
<1>1. repair' \in [Repairs -> Calls]
  <2>1. new \in Calls
    BY IdleType DEF IInv, TypeOK, Calls, Idle
  <2>2. repair' = [repair EXCEPT ![r] = new]
    BY DEF Recover
  <2> HIDE DEF new
  <2> QED
    BY <2>1, <2>2 DEF IInv, TypeOK
<1>2. \A q \in Repairs \ {r} : repair'[q] = repair[q]
  BY DEF Recover, IInv, TypeOK
<1>3. /\ repair'[r].stage = "history" /\ repair'[r].before = dropped
      /\ Len(repair'[r].frames) <= Capacity
  BY DEF Recover, IInv, TypeOK, Idle
<1>4. TypeOK'
  BY <1>1 DEF Recover, IInv, TypeOK
<1>5. Counted'
  BY <1>2, <1>3 DEF Recover, IInv, TypeOK, Counted
<1> QED
  BY <1>4, <1>5 DEF Recover, IInv, DropsReported

\* The end of a pass disturbs only the gate and the call that ends.
LEMMA ReturnKeeps ==
    ASSUME IInv, NEW r \in Repairs, Return(r), repair[r].stage \in {"history", "drain"}
    PROVE  /\ recovering' \in BOOLEAN /\ repair' \in [Repairs -> Calls]
           /\ repair'[r].stage = "returned" /\ Len(repair'[r].frames) <= Capacity
           /\ \A q \in Repairs \ {r} : repair'[q] = repair[q]
<1>1. dropped - repair[r].before \in 0..MaxFrames
  BY DEF IInv, TypeOK, Counted, Calls
<1> DEFINE new == [stage |-> "returned", frames |-> <<>>,
                   before |-> dropped - repair[r].before, overflowed |-> dropped > 0]
<1>2. new \in Calls /\ new.stage = "returned" /\ Len(new.frames) <= Capacity
  BY <1>1, IdleType DEF Calls, Idle
<1>3. repair' = [repair EXCEPT ![r] = new] /\ recovering' = FALSE
  BY DEF Return
<1> HIDE DEF new
<1> QED
  BY <1>2, <1>3 DEF IInv, TypeOK

LEMMA HistoryAnswersIInv ==
    ASSUME IInv, NEW r \in Repairs, HistoryAnswers(r)
    PROVE  IInv'
<1>1. CASE CaptureSuspends /\ buffer # <<>>
  <2>1. repair' = [repair EXCEPT ![r].stage = "drain", ![r].frames = buffer]
    BY <1>1 DEF HistoryAnswers
  <2>2. repair' \in [Repairs -> Calls]
    BY <2>1 DEF IInv, TypeOK, Calls
  <2>3. /\ repair'[r].frames = buffer /\ repair'[r].before = repair[r].before
        /\ \A q \in Repairs \ {r} : repair'[q] = repair[q]
    BY <2>1 DEF IInv, TypeOK, Calls
  <2>4. TypeOK'
    BY <1>1, <2>2 DEF HistoryAnswers, IInv, TypeOK
  <2>5. Counted'
    BY <1>1, <2>3 DEF HistoryAnswers, IInv, TypeOK, Counted
  <2> QED
    BY <2>4, <2>5 DEF HistoryAnswers, IInv, DropsReported
<1>2. CASE ~(CaptureSuspends /\ buffer # <<>>)
  <2>1. Return(r) /\ processed' = processed \o buffer
    BY <1>2 DEF HistoryAnswers
  <2>2. processed' \in Seq(Frames)
    BY <2>1, ConcatProperties DEF IInv, TypeOK
  <2>3. TypeOK'
    BY <2>1, <2>2, ReturnKeeps DEF HistoryAnswers, IInv, TypeOK
  <2>4. Counted'
    BY <2>1, ReturnKeeps DEF HistoryAnswers, IInv, Counted
  <2> QED
    BY <2>3, <2>4 DEF HistoryAnswers, IInv, DropsReported
<1> QED
  BY <1>1, <1>2

LEMMA DrainedProcessedIInv ==
    ASSUME IInv, NEW r \in Repairs, DrainedProcessed(r)
    PROVE  IInv'
<1> DEFINE batch == repair[r].frames
<1>1. batch \in Seq(Frames) /\ batch # <<>>
  BY DEF DrainedProcessed, IInv, TypeOK, Counted, Calls
<1>2. processed' \in Seq(Frames)
  BY <1>1, HeadTailProperties, AppendProperties DEF DrainedProcessed, IInv, TypeOK
<1>3. CASE Len(batch) > 1
  <2>1. repair' = [repair EXCEPT ![r].frames = Tail(@)] /\ recovering' = recovering
    BY <1>3 DEF DrainedProcessed
  <2>2. Tail(batch) \in Seq(Frames) /\ Tail(batch) # <<>>
    BY <1>1, <1>3, HeadTailProperties
  <2>3. repair' \in [Repairs -> Calls]
    BY <2>1, <2>2 DEF IInv, TypeOK, Calls
  <2>4. /\ repair'[r].frames # <<>> /\ repair'[r].before = repair[r].before
        /\ \A q \in Repairs \ {r} : repair'[q] = repair[q]
    BY <2>1, <2>2 DEF IInv, TypeOK, Calls
  <2>7. Len(repair'[r].frames) <= Capacity
    <3>1. Len(batch) \in Nat /\ Len(Tail(batch)) = Len(batch) - 1 /\ Len(batch) <= Capacity
      BY <1>1, HeadTailProperties DEF IInv, Counted
    <3>2. repair'[r].frames = Tail(batch)
      BY <2>1 DEF IInv, TypeOK, Calls
    <3> QED
      BY <3>1, <3>2
  <2>5. TypeOK'
    BY <1>2, <2>1, <2>3 DEF DrainedProcessed, IInv, TypeOK
  <2>6. Counted'
    BY <2>4, <2>7 DEF DrainedProcessed, IInv, Counted
  <2> QED
    BY <2>5, <2>6 DEF DrainedProcessed, IInv, DropsReported
<1>4. CASE ~(Len(batch) > 1)
  <2>1. Return(r)
    BY <1>4 DEF DrainedProcessed
  <2>2. TypeOK'
    BY <1>2, <2>1, ReturnKeeps DEF DrainedProcessed, IInv, TypeOK
  <2>3. Counted'
    BY <2>1, ReturnKeeps DEF DrainedProcessed, IInv, Counted
  <2> QED
    BY <2>2, <2>3 DEF DrainedProcessed, IInv, DropsReported
<1> QED
  BY <1>3, <1>4

\* What an exception abandons are frames.
LEMMA AbandonedTyped ==
    ASSUME abandoned \subseteq SUBSET Frames, NEW s \in Seq(Frames)
    PROVE  abandoned \union {FramesIn(s)} \subseteq SUBSET Frames
<1>1. \A i \in DOMAIN s : s[i] \in Frames
  OBVIOUS
<1> QED
  BY <1>1 DEF FramesIn

LEMMA RaisesIInv ==
    ASSUME IInv, NEW r \in Repairs, HistoryRaises(r) \/ DrainedRaises(r)
    PROVE  IInv'
<1>1. repair' \in [Repairs -> Calls]
  BY IdleType DEF HistoryRaises, DrainedRaises, IInv, TypeOK
<1>2. /\ repair'[r].stage = "idle" /\ Len(repair'[r].frames) <= Capacity
      /\ \A q \in Repairs \ {r} : repair'[q] = repair[q]
  BY DEF HistoryRaises, DrainedRaises, IInv, TypeOK, Idle
<1>5. abandoned' \subseteq SUBSET Frames
  <2>1. repair[r].frames \in Seq(Frames) /\ abandoned \subseteq SUBSET Frames
    BY DEF IInv, TypeOK, Calls
  <2> QED
    BY <2>1, AbandonedTyped DEF HistoryRaises, DrainedRaises
<1>3. TypeOK'
  BY <1>1, <1>5 DEF HistoryRaises, DrainedRaises, IInv, TypeOK
<1>4. Counted'
  BY <1>2 DEF HistoryRaises, DrainedRaises, IInv, Counted
<1> QED
  BY <1>3, <1>4 DEF HistoryRaises, DrainedRaises, IInv, DropsReported

LEMMA OthersIInv ==
    ASSUME IInv, LiveProcessed \/ LiveRaises \/ DrainIncidents \/ UNCHANGED vars
    PROVE  IInv'
<1>1. CASE LiveProcessed
  <2>1. processed' \in Seq(Frames)
    BY <1>1, ConcatProperties DEF LiveProcessed, IInv, TypeOK
  <2> QED
    BY <1>1, <2>1 DEF LiveProcessed, gate, IInv, TypeOK, Counted, DropsReported
<1>4. CASE LiveRaises
  <2>1. abandoned' \subseteq SUBSET Frames
    BY <1>4, AbandonedTyped DEF LiveRaises, IInv, TypeOK
  <2>2. live' \in Seq(Frames) /\ Len(live') <= 1
    BY <1>4 DEF LiveRaises
  <2> QED
    BY <1>4, <2>1, <2>2 DEF LiveRaises, gate, IInv, TypeOK, Counted, DropsReported
<1>2. CASE DrainIncidents
  <2>1. incidents[Len(incidents)] \in 1..MaxFrames
    BY <1>2 DEF DrainIncidents, IInv, TypeOK
  <2> QED
    BY <1>2, <2>1 DEF DrainIncidents, IInv, TypeOK, Counted, DropsReported
<1>3. CASE UNCHANGED vars
  BY <1>3 DEF vars, IInv, TypeOK, Counted, DropsReported
<1> QED
  BY <1>1, <1>2, <1>3, <1>4

THEOREM Invariance == Spec => []IInv
<1>1. IInv /\ [Next]_vars => IInv'
  BY ArriveIInv, RecoverIInv, HistoryAnswersIInv, DrainedProcessedIInv,
     RaisesIInv, OthersIInv
     DEF Next, System
<1> QED
  BY <1>1, InitIInv, PTL DEF Spec

\* The buffer stays within its capacity and every part of the state keeps its type.
THEOREM TypeCorrect == Spec => []TypeOK
<1>1. IInv => TypeOK
  BY DEF IInv
<1> QED
  BY Invariance, <1>1, PTL

\* However many frames are dropped, the newest incident tells how many: also
\* when requests fail, the sink suspends and the history of incidents is full.
THEOREM DropsAreReported == Spec => []DropsReported
<1>1. IInv => DropsReported
  BY DEF IInv
<1> QED
  BY Invariance, <1>1, PTL

-----------------------------------------------------------------------------
(* Every frame is in one place *)

Batch(r) == repair[r].frames
Held == UNION {Range(Batch(r)) : r \in Repairs}
Gone == UNION abandoned
Outside == Range(buffer) \cup Range(live) \cup Range(processed) \cup Gone

\* The buffer, the receive loop, the batches, what is processed and what is
\* abandoned share no frame, and only a call that is draining has a batch.
Apart ==
    /\ Gone \cap (Range(buffer) \cup Range(live) \cup Range(processed)) = {}
    /\ IsInjective(processed) /\ IsInjective(buffer)
    /\ Range(buffer) \cap Range(live) = {}
    /\ Range(processed) \cap (Range(buffer) \cup Range(live)) = {}
    /\ \A r \in Repairs : IsInjective(Batch(r)) /\ Range(Batch(r)) \cap Outside = {}
    /\ \A r, q \in Repairs : r # q => Range(Batch(r)) \cap Range(Batch(q)) = {}
    /\ \A r \in Repairs : repair[r].stage # "drain" => Batch(r) = <<>>

AllCounted ==
    /\ Held \cup Outside \subseteq 1..arrived
    /\ Cardinality(Held \cup Outside) + dropped = arrived

AbandonedFits == \A batch \in abandoned : Cardinality(batch) <= Capacity

LostInv == Apart /\ AllCounted /\ AbandonedFits

\* Appending a frame that is new.
LEMMA Appended ==
    ASSUME NEW S, NEW s \in Seq(S), NEW x \in S
    PROVE  /\ Range(Append(s, x)) = Range(s) \cup {x}
           /\ IsInjective(s) /\ x \notin Range(s) => IsInjective(Append(s, x))
<1> DEFINE a == Append(s, x)
<1>1. /\ Len(s) \in Nat /\ DOMAIN s = 1..Len(s) /\ DOMAIN a = 1..(Len(s) + 1)
      /\ \A i \in 1..Len(s) : a[i] = s[i]
      /\ a[Len(s) + 1] = x
  BY AppendProperties
<1> HIDE DEF a
<1>2. ASSUME NEW i \in DOMAIN a
      PROVE  \/ i = Len(s) + 1 /\ a[i] = x
             \/ i \in DOMAIN s /\ a[i] = s[i]
  BY <1>1
<1>3. Range(a) = Range(s) \cup {x}
  <2>1. Len(s) + 1 \in DOMAIN a /\ DOMAIN s \subseteq DOMAIN a
    BY <1>1
  <2> QED
    BY <1>1, <1>2, <2>1 DEF Range
<1>4. ASSUME IsInjective(s), x \notin Range(s) PROVE IsInjective(a)
  BY <1>2, <1>4 DEF IsInjective, Range
<1> QED
  BY <1>3, <1>4 DEF a

\* Joining sequences that share nothing.
LEMMA Joined ==
    ASSUME NEW S, NEW s \in Seq(S), NEW t \in Seq(S)
    PROVE  /\ Range(s \o t) = Range(s) \cup Range(t)
           /\ IsInjective(s) /\ IsInjective(t) /\ Range(s) \cap Range(t) = {}
                 => IsInjective(s \o t)
<1> DEFINE j == s \o t
<1>1. /\ Len(s) \in Nat /\ DOMAIN s = 1..Len(s) /\ Len(t) \in Nat /\ DOMAIN t = 1..Len(t)
      /\ DOMAIN j = 1..(Len(s) + Len(t))
      /\ \A i \in 1..Len(s) : j[i] = s[i]
      /\ \A i \in (Len(s) + 1)..(Len(s) + Len(t)) : j[i] = t[i - Len(s)]
  <2>1. /\ j \in Seq(S) /\ Len(j) = Len(s) + Len(t)
        /\ \A i \in 1..Len(j) : j[i] = IF i <= Len(s) THEN s[i] ELSE t[i - Len(s)]
    BY ConcatProperties
  <2>2. Len(s) \in Nat /\ DOMAIN s = 1..Len(s) /\ Len(t) \in Nat /\ DOMAIN t = 1..Len(t)
    OBVIOUS
  <2> HIDE DEF j
  <2> QED
    BY <2>1, <2>2
<1>2. Range(j) = Range(s) \cup Range(t)
  BY RangeConcatenation
<1> HIDE DEF j
<1>3. ASSUME NEW i \in DOMAIN j
      PROVE  \/ i \in DOMAIN s /\ j[i] = s[i]
             \/ i - Len(s) \in DOMAIN t /\ j[i] = t[i - Len(s)] /\ i \notin DOMAIN s /\ i \in Nat
  <2>1. CASE i \in 1..Len(s)
    BY <1>1, <2>1
  <2>2. CASE i \notin 1..Len(s)
    BY <1>1, <2>2
  <2> QED
    BY <2>1, <2>2
<1>4. ASSUME IsInjective(s), IsInjective(t), Range(s) \cap Range(t) = {},
             NEW i \in DOMAIN j, NEW k \in DOMAIN j, j[i] = j[k]
      PROVE  i = k
  <2>1. CASE i \in DOMAIN s /\ k \in DOMAIN s
    BY <1>3, <1>4, <2>1 DEF IsInjective
  <2>2. CASE i \notin DOMAIN s /\ k \notin DOMAIN s
    <3>1. /\ i - Len(s) \in DOMAIN t /\ k - Len(s) \in DOMAIN t /\ i \in Nat /\ k \in Nat
          /\ t[i - Len(s)] = t[k - Len(s)]
      BY <1>3, <1>4, <2>2
    <3>2. i - Len(s) = k - Len(s)
      BY <1>4, <3>1 DEF IsInjective
    <3> QED
      BY <1>1, <3>1, <3>2
  <2>3. CASE ~(i \in DOMAIN s <=> k \in DOMAIN s)
    <3>1. j[i] \in Range(s) /\ j[i] \in Range(t)
      BY <1>3, <1>4, <2>3 DEF Range
    <3> QED
      BY <1>4, <3>1
  <2> QED
    BY <2>1, <2>2, <2>3
<1> QED
  BY <1>2, <1>4 DEF IsInjective, j

\* Taking the first frame of a batch.
LEMMA Taken ==
    ASSUME NEW S, NEW s \in Seq(S), s # <<>>, IsInjective(s)
    PROVE  /\ Range(s) = {Head(s)} \cup Range(Tail(s))
           /\ Head(s) \notin Range(Tail(s)) /\ IsInjective(Tail(s))
<1> DEFINE t == Tail(s)
           h == Head(s)
<1>1. /\ Len(s) \in Nat \ {0} /\ DOMAIN s = 1..Len(s) /\ DOMAIN t = 1..(Len(s) - 1)
      /\ \A i \in 1..(Len(s) - 1) : t[i] = s[i + 1]
      /\ h = s[1]
  BY HeadTailProperties
<1> HIDE DEF t, h
<1>2. ASSUME NEW i \in DOMAIN t
      PROVE  i \in Nat /\ i + 1 \in DOMAIN s /\ t[i] = s[i + 1] /\ i + 1 # 1
  BY <1>1
<1>3. ASSUME NEW k \in DOMAIN s
      PROVE  \/ k = 1
             \/ k - 1 \in DOMAIN t /\ t[k - 1] = s[k]
  BY <1>1
<1>4. 1 \in DOMAIN s
  BY <1>1
<1>5. Range(s) = {h} \cup Range(t)
  <2>1. ASSUME NEW k \in DOMAIN s PROVE s[k] \in {h} \cup Range(t)
    BY <1>1, <1>3 DEF Range
  <2>2. ASSUME NEW i \in DOMAIN t PROVE t[i] \in Range(s)
    BY <1>2 DEF Range
  <2>3. h \in Range(s)
    BY <1>1, <1>4 DEF Range
  <2> QED
    BY <2>1, <2>2, <2>3 DEF Range
<1>6. h \notin Range(t)
  BY <1>1, <1>2, <1>4 DEF Range, IsInjective
<1>7. ASSUME NEW i \in DOMAIN t, NEW k \in DOMAIN t, t[i] = t[k] PROVE i = k
  <2>1. i + 1 = k + 1
    BY <1>2, <1>7 DEF IsInjective
  <2> QED
    BY <1>2, <2>1
<1> QED
  BY <1>5, <1>6, <1>7 DEF IsInjective, t, h

\* A sequence without repetitions has as many elements as members.
LEMMA AsManyAsLong ==
    ASSUME NEW S, NEW s \in Seq(S), IsInjective(s)
    PROVE  Cardinality(Range(s)) = Len(s)
<1>1. Len(s) \in Nat /\ DOMAIN s = 1..Len(s) /\ s \in [1..Len(s) -> Range(s)]
  BY SeqOfRange
<1>2. s \in Bijection(1..Len(s), Range(s))
  BY <1>1 DEF Bijection, Injection, Surjection, Range
<1> QED
  BY <1>1, <1>2, FS_CountingElements DEF ExistsBijection

LEMMA NothingIn == Range(<<>>) = {} /\ IsInjective(<<>>)
BY DEF Range, IsInjective

LEMMA PlacesAreFinite ==
    ASSUME IInv, AllCounted
    PROVE  IsFiniteSet(Held \cup Outside) /\ Cardinality(Held \cup Outside) \in Nat
<1>1. IsFiniteSet(1..arrived)
  BY FS_Interval DEF IInv, TypeOK
<1>2. IsFiniteSet(Held \cup Outside)
  BY <1>1, FS_Subset DEF AllCounted
<1> QED
  BY <1>2, FS_CardinalityType

\* What has arrived is counted, and a frame that arrives is new.
LEMMA NewIsCounted ==
    ASSUME IInv, AllCounted, arrived' = arrived + 1, dropped' = dropped,
           (Held \cup Outside)' = (Held \cup Outside) \cup {arrived + 1}
    PROVE  AllCounted'
<1> DEFINE all == Held \cup Outside
<1>1. arrived \in Nat /\ dropped \in Nat /\ all \subseteq 1..arrived
  BY DEF IInv, TypeOK, AllCounted
<1>2. IsFiniteSet(all) /\ arrived + 1 \notin all
  BY <1>1, PlacesAreFinite
<1> HIDE DEF all
<1>3. Cardinality(all \cup {arrived + 1}) = Cardinality(all) + 1
  BY <1>2, FS_AddElement
<1>4. Cardinality(all) \in Nat
  BY <1>2, FS_CardinalityType
<1>5. Cardinality(all) + dropped = arrived
  BY DEF AllCounted, all
<1>6. all \cup {arrived + 1} \subseteq 1..(arrived + 1)
  BY <1>1
<1>7. (Held \cup Outside)' = all \cup {arrived + 1}
  BY DEF all
<1>8. (Held \cup Outside)' \subseteq 1..arrived'
  BY <1>6, <1>7
<1>9. Cardinality((Held \cup Outside)') + dropped' = arrived'
  BY <1>1, <1>3, <1>4, <1>5, <1>7
<1> QED
  BY <1>8, <1>9 DEF AllCounted

\* Frames that change their place are counted as before.
LEMMA MovedIsCounted ==
    ASSUME AllCounted, UNCHANGED <<arrived, dropped>>,
           (Held \cup Outside)' = Held \cup Outside
    PROVE  AllCounted'
BY DEF AllCounted

\* A frame that arrives takes one place or is dropped.
LEMMA ArriveLost ==
    ASSUME IInv, LostInv, Arrive
    PROVE  LostInv'
<1>1. PICK f \in Frames : f = arrived + 1
  BY DEF Arrive, IInv, TypeOK, Frames
<1>2. /\ arrived' = f /\ repair' = repair /\ live = <<>> /\ abandoned' = abandoned
      /\ Forward(f) \/ Hold(f) \/ Drop
  BY <1>1 DEF Arrive
<1>3. /\ buffer \in Seq(Frames) /\ live \in Seq(Frames) /\ processed \in Seq(Frames)
      /\ arrived \in Nat /\ dropped \in Nat
  BY DEF IInv, TypeOK
<1>4. f \notin Held /\ f \notin Outside
  BY <1>1, <1>3 DEF LostInv, AllCounted
<1>5. \A r \in Repairs : f \notin Range(Batch(r))
  BY <1>4 DEF Held
<1>6. Held' = Held /\ \A r \in Repairs : Batch(r)' = Batch(r)
  BY <1>2 DEF Held, Batch
<1>7. ASSUME Outside' = Outside \cup {f}
      PROVE  /\ \A r \in Repairs : IsInjective(Batch(r))' /\ (Range(Batch(r)) \cap Outside)' = {}
             /\ \A r, q \in Repairs : r # q => (Range(Batch(r)) \cap Range(Batch(q)))' = {}
             /\ \A r \in Repairs : repair'[r].stage # "drain" => Batch(r)' = <<>>
  BY <1>2, <1>5, <1>6, <1>7 DEF LostInv, Apart
<1>8. ASSUME Outside' = Outside \cup {f}, dropped' = dropped PROVE AllCounted'
  BY <1>1, <1>2, <1>6, <1>8, NewIsCounted DEF LostInv
<1>9. Range(<<f>>) = {f}
  BY DEF Range
<1>14. Gone' = Gone /\ AbandonedFits'
  BY <1>2 DEF Gone, LostInv, AbandonedFits
<1>10. CASE Hold(f)
  <2>1. buffer' = Append(buffer, f) /\ UNCHANGED <<live, processed, dropped>>
    BY <1>10 DEF Hold
  <2>2. Range(buffer') = Range(buffer) \cup {f} /\ IsInjective(buffer')
    BY <1>3, <1>4, <2>1, Appended DEF LostInv, Apart, Outside
  <2>3. Outside' = Outside \cup {f}
    BY <1>14, <2>1, <2>2 DEF Outside
  <2> QED
    BY <1>4, <1>7, <1>8, <1>14, <2>1, <2>2, <2>3 DEF LostInv, Apart, Outside
<1>11. CASE Forward(f) /\ CaptureSuspends
  <2>1. live' = <<f>> /\ UNCHANGED <<buffer, processed, dropped>>
    BY <1>11 DEF Forward, gate
  <2>2. Outside' = Outside \cup {f}
    BY <1>2, <1>9, <1>14, <2>1, NothingIn DEF Outside
  <2> QED
    BY <1>4, <1>7, <1>8, <1>9, <1>14, <2>1, <2>2 DEF LostInv, Apart, Outside
<1>12. CASE Forward(f) /\ ~CaptureSuspends
  <2>1. processed' = Append(processed, f) /\ UNCHANGED <<buffer, live, dropped>>
    BY <1>12 DEF Forward, gate
  <2>2. Range(processed') = Range(processed) \cup {f} /\ IsInjective(processed')
    BY <1>3, <1>4, <2>1, Appended DEF LostInv, Apart, Outside
  <2>3. Outside' = Outside \cup {f}
    BY <1>14, <2>1, <2>2 DEF Outside
  <2> QED
    BY <1>4, <1>7, <1>8, <1>14, <2>1, <2>2, <2>3 DEF LostInv, Apart, Outside
<1>13. CASE Drop
  <2>1. UNCHANGED <<buffer, live, processed>> /\ dropped' = dropped + 1
    BY <1>13 DEF Drop
  <2>2. Outside' = Outside
    BY <1>14, <2>1 DEF Outside
  <2>3. Apart'
    BY <1>2, <1>6, <1>14, <2>1, <2>2 DEF LostInv, Apart
  <2>4. Cardinality(Held \cup Outside) \in Nat
    BY PlacesAreFinite DEF LostInv
  <2>5. AllCounted'
    <3>1. 1..arrived \subseteq 1..(arrived + 1)
      BY <1>3
    <3> QED
      BY <1>1, <1>2, <1>3, <1>6, <2>1, <2>2, <2>4, <3>1 DEF LostInv, AllCounted
  <2> QED
    BY <1>14, <2>3, <2>5 DEF LostInv
<1> QED
  BY <1>2, <1>10, <1>11, <1>12, <1>13

\* The end of a pass leaves no batch.
LEMMA ReturnEmpties ==
    ASSUME IInv, NEW r \in Repairs, Return(r)
    PROVE  /\ Batch(r)' = <<>> /\ \A q \in Repairs \ {r} : repair'[q] = repair[q]
           /\ repair'[r].stage = "returned"
BY DEF Return, Batch, IInv, TypeOK

\* A step of one repair that moves frames between its batch and the other
\* places disturbs no other repair.
LEMMA OneRepairMoves ==
    ASSUME IInv, LostInv, NEW r \in Repairs,
           \A q \in Repairs \ {r} : repair'[q] = repair[q],
           IsInjective(Batch(r)'),
           repair'[r].stage # "drain" => Batch(r)' = <<>>,
           Range(Batch(r)') \cap Outside' = {},
           Range(Batch(r)') \cup Outside' = Range(Batch(r)) \cup Outside,
           IsInjective(processed'), IsInjective(buffer'),
           Range(buffer') \cap Range(live') = {},
           Range(processed') \cap (Range(buffer') \cup Range(live')) = {},
           Gone' \cap (Range(buffer') \cup Range(live') \cup Range(processed')) = {},
           AbandonedFits', UNCHANGED <<arrived, dropped>>
    PROVE  LostInv'
<1>1. \A q \in Repairs \ {r} : Batch(q)' = Batch(q)
  BY DEF Batch
<1>2. \A x : x \in Held <=> x \in Range(Batch(r)) \/ \E q \in Repairs \ {r} : x \in Range(Batch(q))
  BY DEF Held
<1>3. \A x : x \in Held' <=> x \in Range(Batch(r)') \/ \E q \in Repairs \ {r} : x \in Range(Batch(q))
  BY <1>1 DEF Held
<1>4. (Held \cup Outside)' = Held \cup Outside
  BY <1>2, <1>3
<1>5. ASSUME NEW q \in Repairs \ {r}
      PROVE  /\ IsInjective(Batch(q))' /\ Range(Batch(q)') \cap Outside' = {}
             /\ Range(Batch(q)') \cap Range(Batch(r)') = {}
             /\ repair'[q].stage # "drain" => Batch(q)' = <<>>
  BY <1>1 DEF LostInv, Apart
<1>6. \A q, p \in Repairs \ {r} : q # p => Range(Batch(q)') \cap Range(Batch(p)') = {}
  BY <1>1 DEF LostInv, Apart
<1>7. Apart'
  BY <1>5, <1>6 DEF Apart
<1>8. AllCounted'
  BY <1>4, MovedIsCounted DEF LostInv
<1> QED
  BY <1>7, <1>8 DEF LostInv

\* What is abandoned stays abandoned, and nothing that was is processed.
LEMMA GoneStays ==
    ASSUME LostInv, abandoned' = abandoned,
           Range(buffer') \cup Range(live') \cup Range(processed')
              \subseteq Held \cup Range(buffer) \cup Range(live) \cup Range(processed)
    PROVE  /\ AbandonedFits' /\ Gone' = Gone
           /\ Gone' \cap (Range(buffer') \cup Range(live') \cup Range(processed')) = {}
<1>1. Gone' = Gone
  BY DEF Gone
<1>2. Gone \cap Held = {}
  BY DEF LostInv, Apart, Held, Outside
<1> QED
  BY <1>1, <1>2 DEF LostInv, Apart, AbandonedFits

\* The frames of the buffer go to a batch or straight through the pipeline.
LEMMA HistoryAnswersLost ==
    ASSUME IInv, LostInv, NEW r \in Repairs, HistoryAnswers(r)
    PROVE  LostInv'
<1>1. /\ buffer' = <<>> /\ Batch(r) = <<>> /\ buffer \in Seq(Frames)
      /\ processed \in Seq(Frames) /\ UNCHANGED <<live, arrived, dropped, abandoned>>
  BY DEF HistoryAnswers, LostInv, Apart, IInv, TypeOK
<1>2. CASE CaptureSuspends /\ buffer # <<>>
  <2>1. repair' = [repair EXCEPT ![r].stage = "drain", ![r].frames = buffer]
        /\ processed' = processed
    BY <1>2 DEF HistoryAnswers
  <2>2. /\ Batch(r)' = buffer /\ repair'[r].stage = "drain"
        /\ \A q \in Repairs \ {r} : repair'[q] = repair[q]
    BY <2>1 DEF Batch, IInv, TypeOK, Calls
  <2>7. Gone' = Gone /\ Gone \cap Range(buffer) = {}
    BY <1>1 DEF Gone, LostInv, Apart
  <2>3. Outside' = Range(live) \cup Range(processed) \cup Gone
    BY <1>1, <2>1, <2>7, NothingIn DEF Outside
  <2>4. Range(Batch(r)') \cap Outside' = {}
    BY <2>2, <2>3, <2>7 DEF LostInv, Apart
  <2>5. Range(Batch(r)') \cup Outside' = Range(Batch(r)) \cup Outside
    BY <1>1, <2>2, <2>3, NothingIn DEF Outside
  <2>6. /\ IsInjective(Batch(r)') /\ IsInjective(processed') /\ IsInjective(buffer')
        /\ Range(buffer') \cap Range(live') = {}
        /\ Range(processed') \cap (Range(buffer') \cup Range(live')) = {}
    BY <1>1, <2>1, <2>2, NothingIn DEF LostInv, Apart
  <2> QED
    BY <1>1, <2>1, <2>2, <2>4, <2>5, <2>6, NothingIn, GoneStays, OneRepairMoves
<1>3. CASE ~(CaptureSuspends /\ buffer # <<>>)
  <2>1. Return(r) /\ processed' = processed \o buffer
    BY <1>3 DEF HistoryAnswers
  <2>2. /\ Batch(r)' = <<>> /\ \A q \in Repairs \ {r} : repair'[q] = repair[q]
    BY <2>1, ReturnEmpties
  <2>3. Range(processed') = Range(processed) \cup Range(buffer) /\ IsInjective(processed')
    BY <1>1, <2>1, Joined DEF LostInv, Apart
  <2>6. Gone' = Gone
    BY <1>1 DEF Gone
  <2>4. Outside' = Outside
    BY <1>1, <2>3, <2>6, NothingIn DEF Outside
  <2>5. Range(processed') \cap Range(live') = {}
    BY <1>1, <2>3 DEF LostInv, Apart
  <2> QED
    BY <1>1, <2>2, <2>3, <2>4, <2>5, NothingIn, GoneStays, OneRepairMoves
<1> QED
  BY <1>2, <1>3

\* The first frame of a batch goes through the pipeline.
LEMMA DrainedProcessedLost ==
    ASSUME IInv, LostInv, NEW r \in Repairs, DrainedProcessed(r)
    PROVE  LostInv'
<1>1. PICK batch \in Seq(Frames), f \in Frames : batch = Batch(r) /\ batch # <<>> /\ f = Head(batch)
  <2>1. Batch(r) \in Seq(Frames) /\ Batch(r) # <<>>
    BY DEF DrainedProcessed, IInv, TypeOK, Counted, Calls, Batch
  <2>2. Head(Batch(r)) \in Frames
    BY <2>1
  <2> QED
    BY <2>1, <2>2
<1>2. /\ processed' = Append(processed, f) /\ processed \in Seq(Frames)
      /\ UNCHANGED <<buffer, live, arrived, dropped, abandoned>>
  BY <1>1 DEF DrainedProcessed, Batch, IInv, TypeOK
<1>3. /\ Range(batch) = {f} \cup Range(Tail(batch)) /\ f \notin Range(Tail(batch))
      /\ IsInjective(Tail(batch)) /\ Range(batch) \cap Outside = {}
  BY <1>1, Taken DEF LostInv, Apart
<1>4. f \notin Outside
  BY <1>3
<1>5. Range(processed') = Range(processed) \cup {f} /\ IsInjective(processed')
  BY <1>2, <1>4, Appended DEF LostInv, Apart, Outside
<1>12. f \in Held
  BY <1>1, <1>3 DEF Held
<1>13. AbandonedFits' /\ Gone' = Gone
       /\ Gone' \cap (Range(buffer') \cup Range(live') \cup Range(processed')) = {}
  BY <1>2, <1>5, <1>12, GoneStays
<1>6. Outside' = Outside \cup {f}
  BY <1>2, <1>5, <1>13 DEF Outside
<1>7. /\ Batch(r)' = Tail(batch) /\ \A q \in Repairs \ {r} : repair'[q] = repair[q]
      /\ repair'[r].stage # "drain" => Batch(r)' = <<>>
  <2>1. CASE Len(batch) > 1
    <3>1. repair' = [repair EXCEPT ![r].frames = Tail(@)]
      BY <1>1, <2>1 DEF DrainedProcessed, Batch
    <3>2. repair'[r].stage = "drain"
      BY <3>1 DEF DrainedProcessed, IInv, TypeOK, Calls
    <3> QED
      BY <1>1, <3>1, <3>2 DEF Batch, IInv, TypeOK, Calls
  <2>2. CASE ~(Len(batch) > 1)
    <3>1. Return(r)
      BY <1>1, <2>2 DEF DrainedProcessed, Batch
    <3>2. Tail(batch) = <<>>
      BY <1>1, <2>2, HeadTailProperties, EmptySeq
    <3> QED
      BY <3>1, <3>2, ReturnEmpties
  <2> QED
    BY <2>1, <2>2
<1>8. Range(Batch(r)') \cap Outside' = {}
  BY <1>3, <1>6, <1>7
<1>9. Range(Batch(r)') \cup Outside' = Range(Batch(r)) \cup Outside
  BY <1>1, <1>3, <1>6, <1>7
<1>10. Range(processed') \cap (Range(buffer') \cup Range(live')) = {}
  BY <1>2, <1>4, <1>5 DEF LostInv, Apart, Outside
<1>11. IsInjective(Batch(r)') /\ IsInjective(buffer') /\ Range(buffer') \cap Range(live') = {}
  BY <1>2, <1>3, <1>7 DEF LostInv, Apart
<1> QED
  BY <1>2, <1>5, <1>7, <1>8, <1>9, <1>10, <1>11, <1>13, OneRepairMoves

\* A call that begins, or fails before it has drained, has no batch.
LEMMA NoBatchLost ==
    ASSUME IInv, LostInv, NEW r \in Repairs, Recover(r) \/ HistoryRaises(r)
    PROVE  LostInv'
<1>1. /\ Batch(r) = <<>> /\ Batch(r)' = <<>> /\ \A q \in Repairs \ {r} : repair'[q] = repair[q]
      /\ UNCHANGED <<buffer, live, processed, arrived, dropped, abandoned>>
  BY DEF Recover, HistoryRaises, LostInv, Apart, Batch, Idle, IInv, TypeOK
<1>6. Gone' = Gone
  BY <1>1 DEF Gone
<1>2. Outside' = Outside
  BY <1>1, <1>6 DEF Outside
<1>3. Range(Batch(r)') \cap Outside' = {} /\ IsInjective(Batch(r)')
  BY <1>1, NothingIn
<1>4. Range(Batch(r)') \cup Outside' = Range(Batch(r)) \cup Outside
  BY <1>1, <1>2
<1>5. /\ IsInjective(processed') /\ IsInjective(buffer') /\ Range(buffer') \cap Range(live') = {}
      /\ Range(processed') \cap (Range(buffer') \cup Range(live')) = {}
  BY <1>1 DEF LostInv, Apart
<1> QED
  BY <1>1, <1>3, <1>4, <1>5, GoneStays, OneRepairMoves

\* The forwarded frame leaves the receive loop for the pipeline.
LEMMA LiveProcessedLost ==
    ASSUME IInv, LostInv, LiveProcessed
    PROVE  LostInv'
<1>1. /\ processed' = processed \o live /\ live' = <<>>
      /\ processed \in Seq(Frames) /\ live \in Seq(Frames) /\ Len(live) <= 1
      /\ UNCHANGED <<buffer, repair, arrived, dropped, abandoned>>
  BY DEF LiveProcessed, gate, IInv, TypeOK
<1>2. IsInjective(live)
  BY <1>1 DEF IsInjective
<1>3. /\ Range(processed') = Range(processed) \cup Range(live) /\ IsInjective(processed')
  BY <1>1, <1>2, Joined DEF LostInv, Apart
<1>7. /\ AbandonedFits' /\ Gone' = Gone
      /\ Gone' \cap (Range(buffer') \cup Range(live') \cup Range(processed')) = {}
  BY <1>1, <1>3, NothingIn, GoneStays
<1>4. Outside' = Outside /\ Held' = Held /\ \A r \in Repairs : Batch(r)' = Batch(r)
  BY <1>1, <1>3, <1>7, NothingIn DEF Outside, Held, Batch
<1>5. Range(processed') \cap Range(buffer') = {} /\ Range(live') = {}
  BY <1>1, <1>3, NothingIn DEF LostInv, Apart
<1>6. Apart'
  BY <1>1, <1>3, <1>4, <1>5, <1>7 DEF LostInv, Apart
<1> QED
  BY <1>1, <1>4, <1>6, <1>7, MovedIsCounted DEF LostInv

\* An exception out of the receive loop abandons the one frame there.
LEMMA LiveRaisesLost ==
    ASSUME IInv, LostInv, LiveRaises
    PROVE  LostInv'
<1>1. /\ abandoned' = abandoned \cup {Range(live)} /\ live' = <<>> /\ live \in Seq(Frames)
      /\ Len(live) <= 1 /\ UNCHANGED <<buffer, repair, arrived, dropped, processed>>
  BY DEF LiveRaises, gate, FramesIn, Range, IInv, TypeOK
<1>2. IsInjective(live)
  BY <1>1 DEF IsInjective
<1>3. AbandonedFits'
  <2>1. Cardinality(Range(live)) = Len(live) /\ Len(live) \in Nat /\ 1 <= Capacity
    BY <1>1, <1>2, AsManyAsLong
  <2>2. Cardinality(Range(live)) <= Capacity
    BY <1>1, <2>1
  <2> QED
    BY <1>1, <2>2 DEF LostInv, AbandonedFits
<1>4. Gone' = Gone \cup Range(live)
  BY <1>1 DEF Gone
<1>5. Outside' = Outside /\ Held' = Held /\ \A r \in Repairs : Batch(r)' = Batch(r)
  BY <1>1, <1>4, NothingIn DEF Outside, Held, Batch
<1>6. Apart'
  BY <1>1, <1>4, <1>5, NothingIn DEF LostInv, Apart
<1> QED
  BY <1>1, <1>3, <1>5, <1>6, MovedIsCounted DEF LostInv

\* An exception out of a drain abandons the rest of its batch.
LEMMA DrainedRaisesLost ==
    ASSUME IInv, LostInv, NEW r \in Repairs, DrainedRaises(r)
    PROVE  LostInv'
<1>1. /\ abandoned' = abandoned \cup {Range(Batch(r))}
      /\ UNCHANGED <<buffer, live, processed, arrived, dropped>>
  BY DEF DrainedRaises, FramesIn, Range, Batch
<1>2. /\ Batch(r)' = <<>> /\ \A q \in Repairs \ {r} : repair'[q] = repair[q]
  BY DEF DrainedRaises, Batch, Idle, IInv, TypeOK
<1>3. AbandonedFits'
  <2>1. Batch(r) \in Seq(Frames) /\ IsInjective(Batch(r)) /\ Len(Batch(r)) <= Capacity
    BY DEF IInv, TypeOK, Counted, Calls, Batch, LostInv, Apart
  <2>2. Cardinality(Range(Batch(r))) <= Capacity
    BY <2>1, AsManyAsLong
  <2> QED
    BY <1>1, <2>2 DEF LostInv, AbandonedFits
<1>4. Gone' = Gone \cup Range(Batch(r))
  BY <1>1 DEF Gone
<1>5. Outside' = Outside \cup Range(Batch(r))
  BY <1>1, <1>4 DEF Outside
<1>6. Range(Batch(r)') = {} /\ IsInjective(Batch(r)')
  BY <1>2, NothingIn
<1>7. Range(Batch(r)) \cap Outside = {}
  BY DEF LostInv, Apart
<1>8. /\ IsInjective(processed') /\ IsInjective(buffer') /\ Range(buffer') \cap Range(live') = {}
      /\ Range(processed') \cap (Range(buffer') \cup Range(live')) = {}
      /\ Gone' \cap (Range(buffer') \cup Range(live') \cup Range(processed')) = {}
  BY <1>1, <1>4, <1>7 DEF LostInv, Apart, Outside
<1> QED
  BY <1>1, <1>2, <1>3, <1>5, <1>6, <1>8, OneRepairMoves

\* Every step keeps each frame in one place.
LEMMA StepLost == IInv /\ LostInv /\ [Next]_vars => LostInv'
<1>1. ASSUME LostInv, UNCHANGED <<buffer, live, processed, repair, arrived, dropped, abandoned>>
      PROVE  LostInv'
  <2>1. /\ Outside' = Outside /\ Held' = Held /\ Gone' = Gone
        /\ \A r \in Repairs : Batch(r)' = Batch(r)
    BY <1>1 DEF Held, Outside, Gone, Batch
  <2>2. Apart'
    BY <1>1, <2>1 DEF LostInv, Apart
  <2>3. AbandonedFits'
    BY <1>1 DEF LostInv, AbandonedFits
  <2> QED
    BY <1>1, <2>1, <2>2, <2>3 DEF LostInv, AllCounted
<1>2. ASSUME LostInv, DrainIncidents \/ UNCHANGED vars PROVE LostInv'
  BY <1>1, <1>2 DEF DrainIncidents, vars
<1> QED
  BY <1>2, ArriveLost, LiveProcessedLost, NoBatchLost, HistoryAnswersLost,
     DrainedProcessedLost, LiveRaisesLost, DrainedRaisesLost DEF Next, System

\* No frame is processed twice, and none disappears but by an exception out of
\* process(), which costs no more than one buffer: for any number of repairs at
\* once, any capacity, any sink and any history that fails or answers.
THEOREM NoFrameIsLost == Spec => []NothingLost
<1>1. Init => LostInv
  <2>1. SUFFICES ASSUME Init PROVE LostInv
    OBVIOUS
  <2>2. /\ buffer = <<>> /\ live = <<>> /\ processed = <<>> /\ arrived = 0 /\ dropped = 0
        /\ \A r \in Repairs : Batch(r) = <<>>
    BY <2>1 DEF Init, Batch, Idle
  <2>6. Gone = {} /\ AbandonedFits
    BY <2>1 DEF Init, Gone, AbandonedFits
  <2>3. Outside = {} /\ Held = {}
    BY <2>2, <2>6, NothingIn DEF Outside, Held
  <2>4. AllCounted
    BY <2>2, <2>3, FS_EmptySet DEF AllCounted
  <2>5. Apart
    BY <2>2, <2>3, <2>6, NothingIn DEF Apart
  <2> QED
    BY <2>4, <2>5, <2>6 DEF LostInv
<1>2. IInv /\ LostInv => NothingLost
  <2>1. SUFFICES ASSUME IInv, LostInv PROVE NothingLost
    OBVIOUS
  <2>2. Cardinality(Range(processed)) = Len(processed)
    BY <2>1, AsManyAsLong DEF LostInv, Apart, IInv, TypeOK
  <2>3. /\ Held \cap ((Range(buffer) \cup Range(live)) \cup Range(processed) \cup Gone) = {}
        /\ (Range(buffer) \cup Range(live)) \cap (Range(processed) \cup Gone) = {}
        /\ Range(processed) \cap Gone = {}
    BY <2>1 DEF LostInv, Apart, Held, Outside
  <2>4. Cardinality(Held \cup (Range(buffer) \cup Range(live)) \cup Range(processed) \cup Gone)
           + dropped = arrived
    <3>1. Held \cup (Range(buffer) \cup Range(live)) \cup Range(processed) \cup Gone
             = Held \cup Outside
      BY DEF Outside
    <3> QED
      BY <2>1, <3>1 DEF LostInv, AllCounted
  <2>5. \A s : FramesIn(s) = Range(s)
    BY DEF FramesIn, Range
  <2>6. Held = UNION {FramesIn(repair[r].frames) : r \in Repairs}
    BY <2>5 DEF Held, Batch
  <2> HIDE DEF Held
  <2> QED
    BY <2>1, <2>2, <2>3, <2>4, <2>5, <2>6 DEF NothingLost, Gone, LostInv, AbandonedFits
<1> QED
  BY <1>1, <1>2, StepLost, Invariance, PTL DEF Spec

-----------------------------------------------------------------------------
(* With a history that answers and a sink that does not suspend *)

\* No frame waits outside the buffer, and the buffer holds frames only while
\* the gate is shut, which a repair that has yet to drain it will open.
Undisturbed ==
    /\ live = <<>>
    /\ \A r \in Repairs : repair[r].stage # "drain"
    /\ ~recovering => buffer = <<>>
    /\ recovering => \E r \in Repairs : repair[r].stage = "history"

LEMMA UndisturbedStep ==
    ASSUME ~HistoryFails, ~CaptureSuspends, IInv, Undisturbed, [Next]_vars
    PROVE  Undisturbed'
<1>1. CASE Arrive
  <2>1. repair' = repair /\ recovering' = recovering
    BY <1>1 DEF Arrive, Forward, Hold, Drop, gate
  <2>2. live' = <<>>
    BY <1>1 DEF Arrive, Forward, Hold, Drop, Undisturbed
  <2>3. ~recovering => buffer' = buffer
    BY <1>1 DEF Arrive, Forward, Hold, Drop, gate
  <2> QED
    BY <2>1, <2>2, <2>3 DEF Undisturbed
<1>2. CASE LiveProcessed \/ LiveRaises
  BY <1>2 DEF LiveProcessed, LiveRaises, Undisturbed
<1>3. CASE DrainIncidents
  BY <1>3 DEF DrainIncidents, Undisturbed
<1>4. ASSUME NEW r \in Repairs, Recover(r) PROVE Undisturbed'
  <2>1. /\ repair'[r].stage = "history" /\ recovering' = TRUE /\ live' = live
        /\ \A q \in Repairs \ {r} : repair'[q] = repair[q]
    BY <1>4 DEF Recover, IInv, TypeOK
  <2> QED
    BY <2>1 DEF Undisturbed
<1>5. ASSUME NEW r \in Repairs, HistoryAnswers(r) PROVE Undisturbed'
  <2>1. Return(r) /\ buffer' = <<>> /\ live' = live /\ repair[r].stage = "history"
    BY <1>5 DEF HistoryAnswers
  <2>2. recovering' = FALSE
    BY <2>1 DEF Return
  <2> QED
    BY <2>1, <2>2, ReturnKeeps DEF Undisturbed
<1>6. ASSUME NEW r \in Repairs, DrainedProcessed(r) \/ DrainedRaises(r) \/ HistoryRaises(r)
      PROVE  Undisturbed'
  BY <1>6 DEF DrainedProcessed, DrainedRaises, HistoryRaises, Undisturbed
<1>7. CASE UNCHANGED vars
  BY <1>7 DEF vars, Undisturbed
<1> QED
  BY <1>1, <1>2, <1>3, <1>4, <1>5, <1>6, <1>7 DEF Next, System

LEMMA UndisturbedInvariance ==
    ASSUME ~HistoryFails, ~CaptureSuspends
    PROVE  Spec => [](IInv /\ Undisturbed)
<1>1. Init => Undisturbed
  BY DEF Init, Undisturbed, Idle
<1>2. IInv /\ Undisturbed /\ [Next]_vars => Undisturbed'
  BY UndisturbedStep
<1> QED
  BY <1>1, <1>2, Invariance, PTL DEF Spec

\* A buffered frame is never left behind by a repair that ends.
THEOREM NoFrameIsStranded ==
    ASSUME ~HistoryFails, ~CaptureSuspends
    PROVE  Spec => []NoneStranded
<1>1. IInv /\ Undisturbed => NoneStranded
  BY DEF IInv, TypeOK, Undisturbed, NoneStranded
<1> QED
  BY <1>1, UndisturbedInvariance, PTL

\* Every step of recovery is a step of the ordered ingress, or changes nothing
\* its consumers can see.
LEMMA IngressStep ==
    ASSUME ~HistoryFails, ~CaptureSuspends, IInv, Undisturbed, [Next]_vars
    PROVE  [Promise!Next]_(Promise!ingress)
<1> USE DEF Promise!Next, Promise!ingress
<1>1. CASE Arrive
  <2>1. CASE Forward(arrived + 1)
    <3>1. /\ buffer = <<>> /\ buffer' = buffer /\ dropped' = dropped
          /\ processed' = Append(processed, arrived + 1) /\ arrived' = arrived + 1
      BY <1>1, <2>1 DEF Arrive, Forward, gate, Undisturbed
    <3> QED
      BY <3>1 DEF Promise!PassOn
  <2>2. CASE Hold(arrived + 1)
    BY <1>1, <2>2 DEF Arrive, Hold, Promise!Hold
  <2>3. CASE Drop
    BY <1>1, <2>3 DEF Arrive, Drop, Promise!Lose
  <2> QED
    BY <1>1, <2>1, <2>2, <2>3 DEF Arrive
<1>2. CASE LiveProcessed \/ LiveRaises
  BY <1>2 DEF LiveProcessed, LiveRaises, Undisturbed
<1>3. CASE DrainIncidents
  BY <1>3 DEF DrainIncidents
<1>4. ASSUME NEW r \in Repairs, Recover(r) PROVE UNCHANGED Promise!ingress
  BY <1>4 DEF Recover
<1>5. ASSUME NEW r \in Repairs, HistoryAnswers(r) PROVE [Promise!Next]_(Promise!ingress)
  <2>1. /\ buffer' = <<>> /\ processed' = processed \o buffer
        /\ arrived' = arrived /\ dropped' = dropped
    BY <1>5 DEF HistoryAnswers
  <2>2. CASE buffer = <<>>
    <3>1. processed' = processed
      BY <2>1, <2>2, ConcatEmptySeq DEF IInv, TypeOK
    <3> QED
      BY <2>1, <2>2, <3>1
  <2>3. CASE buffer # <<>>
    BY <2>1, <2>3 DEF Promise!Release
  <2> QED
    BY <2>2, <2>3
<1>6. ASSUME NEW r \in Repairs, DrainedProcessed(r) \/ DrainedRaises(r) \/ HistoryRaises(r)
      PROVE  UNCHANGED Promise!ingress
  BY <1>6 DEF DrainedProcessed, DrainedRaises, HistoryRaises, Undisturbed
<1>7. CASE UNCHANGED vars
  BY <1>7 DEF vars
<1> QED
  BY <1>1, <1>2, <1>3, <1>4, <1>5, <1>6, <1>7 DEF Next, System

\* Recovery implements the ordered ingress: frames that take the two ways of
\* the gate come out in the order they came in, once each, or are counted lost.
THEOREM RecoveryKeepsOrder ==
    ASSUME ~HistoryFails, ~CaptureSuspends
    PROVE  Spec => ImplementsOrderedIngress
<1>1. Init => Promise!Init
  BY DEF Init, Promise!Init
<1>2. IInv /\ Undisturbed /\ [Next]_vars => [Promise!Next]_(Promise!ingress)
  BY IngressStep
<1> QED
  BY <1>1, <1>2, UndisturbedInvariance, PTL
     DEF Spec, ImplementsOrderedIngress, Promise!Ordered
=============================================================================
