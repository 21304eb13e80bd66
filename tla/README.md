# Formal model of the trading bot

TLA+ modules for `src/packages/` and the command-line applications over them,
TLC configurations that check them on small instances, and TLAPS proofs for
every value of their constants. Line numbers refer to files under `src/`.

* Model-check a module: `tlc -config X.cfg M`, with the pairs listed under
  [Runs](#runs). `PROJECT.json` lists runs, mutants, theorems, hazards, and the
  source lines of every definition.
* Check a proof: `tlapm M_proofs.tla`.
* Definitions whose comment begins with *Mutant of* are not used by any
  specification: each one is a plausible bug, and putting it in the place of the
  definition it names makes the property listed with it in `PROJECT.json` fail.

## Inventory of the system

The repository is a Python 3.12 monorepo. Its one large subsystem is
`packages/market_data`: a public Binance feed over WebSocket with REST repair, a
normalization pipeline, a SQLite store with an outbox, and an offline part that
downloads, verifies, converts and publishes historical archives. Around it are
smaller packages for orders, portfolio, strategies and back-testing. All live
code runs in one asyncio event loop; the unit of atomicity is the code between
two awaits that really suspend. The offline part is made of processes that share
a file system; there it is one call of the operating system.

| Component | State | Operations | Talks to | Hard part | Correct means |
| --- | --- | --- | --- | --- | --- |
| `CircuitBreaker` (`connection_supervisor.py:31`) | state, failures, successes, probe slot, time opened | `allow_request`, `record_success`, `record_failure` | every attempt of the supervisor | reports that arrive after the circuit has changed state, or never | one probe at a time; closing is earned by that many successes; refusals end, or the probe is one that can no longer report |
| `ConnectionSupervisor` (`:108`) | state, retry count, four tasks, closing flag | `start`, `stop`, receive loop, heartbeat, rotation, backoff chain, sparse probe | breaker, adapter, coordinator | tasks that cancel each other, `stop()` during a connect, a chain that ends with nobody left to retry | one reader, one chain, somebody always retries, `stop()` returns and leaves no socket |
| `BinanceWebSocketAdapter` (`binance_ws.py`) | connection state, lock, socket, active and pending streams, requests by id | `connect`, `close`, `raw_messages`, `subscribe`, `unsubscribe`, answers | provider, rate budget, observer in the coordinator | batches interrupted by a budget or a lost connection; answers out of step with the sets | active mirrors the provider; the stream limit holds on every connection |
| `SubscriptionCoordinator` | desired, active, pending unsubscribes, last frame times | `add/remove_subscription`, `sync_with_adapter`, `reconcile_confirmed`, stale detection | adapter | sets computed before an await and used after it | the provider ends up with the desired set |
| Rate limits (`services/rate_limit.py`) | cooldown end and status; two deques of attempt times | `acquire`, `observe_response`; `reserve_*` | REST adapter, WebSocket adapter, downloader | answers of overlapping requests; window boundaries | nothing is sent in a pause; no window is overfilled |
| Freshness (`services/freshness.py`) | per subscription: registered, last valid frame, episode, last alert, reminders | `register`, `unregister`, `record_valid`, `evaluate` | supervisor, consumers of alerts | a frame between two evaluations, thresholds crossed long ago | what is stale has been said, at the promised intervals and not more often |
| Gap recovery (`services/gap_recovery.py`) | gate flag, bounded buffer, drop count, incidents | `ingest_websocket`, `recover`, `drain_overflow_incidents` | REST history, pipeline, receive loop | frames that arrive during a repair, failures, overlapping repairs, overflow | order of arrival; nothing lost unreported but by an exception out of `process()` |
| Normalizer and event contracts (`binance_normalizer.py`, `contracts/events.py`) | none | one payload to one event, nothing, or a refusal | pipeline | two sources with different fields and times | only sound payloads become events |
| `NormalizationPipeline` | two bounded dedupe maps, last candle, latest ticker | `process` | raw capture, gap recovery, store | eviction, repaired candles behind live ones, late tickers | a candle is accepted once, a gap is reported once, the latest ticker is the latest |
| SQLite store and outbox | candles, watermarks, gaps, outbox, raw records, tickers | `persist_closed_candle_and_outbox`, `create_or_update_gap`, `mark_gap_recovery`, `capture`, `set_ticker_cache`, outbox relay | pipeline, consumers | crash between transactions and between publish and mark | candle, watermark and event together or not at all |
| REST history (`binance_rest.py`) | message sequence | `get_server_time`, `get_closed_klines`, ticker snapshots | coordinator, gap recovery | paging | each closed candle of the range once |
| Downloader (`datasets/downloader.py`) | one file per slice, manifest | `download`, with or without `resume` | REST, limiter, file system | failure and restart between file and manifest | a manifest that says complete is exact |
| Verification (`datasets/checksum.py`) | none | `verify_file_checksum`, `verify_dataset_directory` | file system | files replaced while they are verified | no verdict that was never true |
| Conversion (`datasets/conversion_stream.py`, `converter.py`, `conversion_manifest.py`) | counters, coverage, previous open | one pass over a raw file; research manifest | downloader's files | lines too long, cut off, damaged, out of order | every line is a candle or a recorded failure |
| Publication (`datasets/_publication_*.py`) | directory tree, staged, final entries | preflight, stage, convert, sync, promote a pair | file system, other publishers | crash between renames, races, a raw file that changes | a published pair is whole, its contents durable and of one version |
| Order execution (`application/services/order_service.py`, `execution/`, `risk/`) | orders table, the exchange's book | place, execute, cancel | exchange, database, bus | one step of several failing, read then overwrite | what the exchange accepted is recorded, what is announced is true |
| Portfolio (`application/services/portfolio_service.py`) | positions, portfolios | open, close, update price | database, bus | two calls at once | portfolio and positions agree |
| Message bus (`messaging/bus.py`) | handlers by type | publish, subscribe, unsubscribe | all services | the handler list changes as it is used | each object subscribed is called once per event |
| Strategies, back-test, workers | registry; bars; nothing | enable, evaluate; `run`; a loop | - | - | not modelled, see below |
| Settings, metrics, logging, shared helpers | - | parsing and formatting | all | - | not modelled: no protocol |

Interaction of the live part:

```
 provider  <--frames, answers / requests-->  adapter <--lock, state--> supervisor --> circuit breaker
                                               |  \                      | sync
                                      budgets <+   +--observer--> coordinator
                                               |
                                          receive loop --> recovery gate --> pipeline --> store/outbox
                                                               ^                |
                                       REST history --> cooldown coordinator    +--> ticker cache, freshness
```

and of the offline part:

```
 exchange --> downloader --> raw files + manifest --> conversion --> staged pair --> published pair
                                   |                                                    |
                              verification                                      research manifest
```

## Modules

| Module | Models | Reads as |
| --- | --- | --- |
| `BreakerOps` | the fields and methods of `CircuitBreaker` as operators on a record | `Admits`/`Admitted` are the two outcomes of `allow_request`, `RecordSuccess`, `RecordFailure` the reports; `Cool` is the passing of time |
| `CircuitBreaker` | the breaker driven by any set of attempts | `phase[a]` is an attempt between its request and its report, `silent` from the opened socket to the first frame; the history variables count reports independently of the breaker |
| `ConnectionSupervisor` | supervisor, connection half of the adapter, breaker and socket, composed | `pc[a]` is the await at which a coroutine is suspended; one action per resumption |
| `SubscriptionSync` | coordinator and sending half of the adapter, with the provider and the two directions of the connection | `call[c]` is how far a call of `sync_with_adapter` has come; `leftover` is history: the streams that were pending when a connection was lost and wait for nothing since |
| `Clock` | the time the rate limits and the monitor read | |
| `AttemptBudget` | `WebSocketRateBudget._reserve`, used for control messages and for connection attempts | `granted` is history |
| `RestCooldown` | the REST coordinator and the requests made through it | `owed` is history: the latest end of a pause ever asked for |
| `Freshness` | `FreshnessMonitor` | `tracked` is `_states`; `alerts` is history: the alerts of a subscription since it was last heard |
| `MCGuards` | the breaker, a budget, the cooldown and the monitor for one run | `guard` is chosen once |
| `OrderedIngress` | abstract specification: each frame delivered once and in order, or counted lost | |
| `GapRecovery` | gate, buffer and service | `repair[r]` is how far a call of `recover` has come; `abandoned` is history: the batches that exceptions out of `process()` have cost |
| `Payload` | what the normalizer and the event contracts make of a trade, a ticker and a kline | `TradeIsSound`, `TickerIsSound`, `KlineIsSound`; `Raises` is the time out of range that escapes as an `OverflowError` |
| `Normalization` | the path of the closed candles of one stream through the pipeline | `seen` is the ordered dict, `last` the slot of the last candle; `Emitted` is what `_detect_gap` and `_deduplicate` yield; `Readings` is what a payload for a slot can be read as |
| `CandleStore` | the transactions of `SqliteMarketDataStore` on one stream, and the relay of its outbox | one action per transaction; a gap row holds its state and the open times it names as recovered; `listed` and `published` are the relay's memory |
| `AtLeastOnce` | abstract specification of the outbox: committed once, then delivered in commit order, at least once | |
| `HistoryRange` | `_latest_closed_boundary`, `_next_candle_open` and the pages of `get_closed_klines` | `range` is one call of `recover` for one subscription; `interval.phase` is where the exchange's grid begins |
| `CandleIngest` | receive loop, gate, repair, pipeline and store composed, with crashes | `repair.phase` is how far `recover` and its caller have come; `emitted[who]` are the events its caller has still to persist; `forgotten` is history: the slots of events that an exception out of `recover` has discarded |
| `Quotes` | trades and tickers of one symbol from two feeds through the pipeline to the ticker cache | `unsaved[feed]` is what a caller holds between `process()` and the store |
| `Verification` | one file or a directory verified chunk by chunk | `reading` is the next step of `_verify_one`; `held` is history |
| `MCParts` | `GapRecovery` without faults, `HistoryRange`, `Quotes` and `Verification` for one run | `part` is chosen once |
| `KlineRow` | which rows the downloader and which lines the conversion accept | `Bounded` is the first, `Convertible` and `Failure` the second |
| `Downloader` | runs of `download()` in one directory | `at` is the next step, `run` the locals, `file[s]` and `manifest` the disk |
| `ConversionStream` | `convert_raw_archive_stream` | `step`, `offset` and `pending` are the position in a line and in a write |
| `ResearchManifest` | the contracts between raw manifest, artifacts and research manifest | operators only |
| `Archive` | downloader, conversion and manifest composed | `work` is how far the dataset has come |
| `MCArchive` | the constants of the archive runs | |
| `PairPublication` | abstract specification: the sidecar appears, then the research file, and only a power failure takes one away | |
| `Publication` | publishers of one artifact over one directory tree | `at[p]` is the next call of a publisher; an entry carries who made it and from what; `undone[k]` is history: whose renames a power failure has taken back |
| `EventBus` | `InMemoryEventBus` | a handler is a function, which is one object, or a bound method, which is as many as were made of it (`Objects`); `registered` counts how often an object is listed; `subscribed` is what the handlers believe |
| `OrderDesk` | order service, order executor, risk policies, fake exchange, orders table | `at[c]` is how far a call has come; `copy` the row a cancellation has read |
| `PositionDesk` | portfolio service, positions and portfolios | `draft[c]` is what a transaction has read or will write |
| `Trading` | the two desks over one bus | `scene` is chosen once |
| `Guards_proofs` | theorems about `CircuitBreaker`, `AttemptBudget`, `RestCooldown`, `Freshness` | |
| `Parts_proofs` | theorems about `Quotes`, `Verification`, `HistoryRange`, `GapRecovery` | |
| `Archive_proofs` | theorems about `Archive`, with `Downloader`, `ConversionStream`, `ResearchManifest` and `KlineRow` | |
| `Trading_proofs` | theorems about `Trading`, with `OrderDesk`, `PositionDesk` and `EventBus` | |
| `ConnectionSupervisor_proofs`, `SubscriptionSync_proofs`, `CandleIngest_proofs`, `Publication_proofs` | theorems about the module each is named for | |

Composition. `ConnectionSupervisor` extends `BreakerOps`, so the breaker it
drives is the one `CircuitBreaker` checks alone with more attempts than the
supervisor has. `SubscriptionSync` refines the one subscription that
`ConnectionSupervisor` carries into sets, batches and answers, on a connection
whose loss is one action. `CandleIngest` extends `CandleStore`, which extends
`Normalization` and `Payload`; `Quotes` extends `Payload`. `Archive` composes
`Downloader`, `ConversionStream` and `ResearchManifest`: what the one writes is
what the other reads, and the contracts of the third decide. Three refinements
are checked: `GapRecovery` implements `OrderedIngress`, `CandleIngest` implements
`AtLeastOnce` with the outbox as the committed events, and `Publication`
implements `PairPublication`.

`MCGuards`, `MCParts` and `Trading` put parts that share nothing but a clock or
the bus under one next-state relation, of which each behaviour uses one part,
chosen in its initial state. That is the union of the parts' behaviours, not
their product, and loses nothing as long as the parts do not meet.

### Abstractions

*Everywhere.* Identifiers, logging, metrics and durations are left out; a sleep
may end at any time unless a property is about its length. A coroutine that is
ready may be delayed for as long as others run, which is more than asyncio's
FIFO ready queue allows: what holds here holds there. The clocks are taken not
to go back, also the wall clock of the breaker, the cooldown and the monitor.

*ConnectionSupervisor.* The coordinator wants one subscription. The budgets'
refusals are nondeterministic, chosen by `Refusals`. Task objects come from a
pool of `Gen` per kind; with `Gen = 3` the runs have the same number of states,
so the pool never runs dry. The coordinator's stale-detection task only reports
and is left out, as are the queues of status and potential-gap events. The first
segment of a new receive loop, up to its first await, is merged with the step
that creates it. The breaker's failure count is not counted further while the
circuit is open, where nothing reads it.

*SubscriptionSync.* Streams are numbers in the order of their names. The
coordinator's and the adapter's active sets are one variable, because the
supervisor installs `reconcile_confirmed` as the adapter's observer
(`connection_supervisor.py:182`). The connection is FIFO in each direction and
the provider serves one request at a time. With `SendSuspends = FALSE` a call
of `sync_with_adapter()` is atomic, as it is while the socket's write buffer has
room.

*Freshness.* `evaluate()` does not suspend. The frames of a subscription are
recorded in the order of their times, each up to `MaxLag` ticks late. An episode
ends with a valid frame only, not with a reconnection.

*GapRecovery.* The requests of one repair and the candles they bring touch
neither gate nor buffer and are one wait. The receive loop belongs to the
composition root; following `tests/soak/market_data_soak.py` it ingests one
frame at a time. `CaptureSuspends` says whether `process()` may suspend, which is up
to the raw-capture sink, and may raise or be cancelled there. Neither sink in the
repository (`BoundedRawCapture`, the SQLite store) suspends, but the protocol allows
it; a sink's error and the `OverflowError` of a time out of range do happen. An
exception out of a drain costs the rest of its batch, one out of the receive loop
the frame in hand; both go into `abandoned`.

*HistoryRange.* A candle is the tick at which it opens; what a row of the answer
holds is the subject of `Payload`. The exchange lists every candle of its grid
that has opened, except `outages`, and answers with the oldest of the range (`Pages`); an
answer may repeat the first page of the range, as a cache on the way would. The
months of the model are 2 and 3 ticks long by turns; only their unevenness
matters. Unsupported intervals, refused requests and malformed rows are
`PageRaises`. Which watermark a caller passes is the caller's; here it is a
candle the exchange has, and after a pass that was stored its newest one.

*Payload.* A number is what its text stands for; `Unreadable` is everything that
is not of the type asked for. A faulty payload differs from a sound one in one
field, one for each check the code makes. A kline's times are the numbered
boundaries of its interval, whatever the interval. An open kline gives no event,
a faulty one is quarantined, and neither leaves a trace in the pipeline. A time that is
an integer but no moment of the clock (`OutOfRange`) is not quarantined: `_timestamp`
raises an `OverflowError` (`binance_normalizer.py:384`), which `process()` does not catch
(`normalization.py:109-116`).

*CandleIngest.* One kline stream, whose open times are numbered: slot `s` opens
at the `s`-th interval. Two candles of a slot differ only if the provider revised
it between the stream and the REST answer (`Revised`). Which candle a payload
gives is `Readings`, evaluated from `Payload`; of an unusable one, and of one on which
`process()` raises, the slot is not told apart. An exception in the receive loop leaves
everything as an unusable frame does. Out of `recover()` (`RepairRaises`) it takes with
it the rest of the rows, the drained frames and the results the caller has not seen,
while the pipeline keeps remembering them. A repair is judged as in
`market_data_soak.py:645-657`: the gap row is marked recovered if its first slot was
accepted from REST, and names every slot that was. The receive loop is the composition root's; as in
`tests/soak/market_data_soak.py` it persists what a frame emits before it takes
the next one, and the events of a repair are persisted after `recover()` has
returned. A frame may be for any slot that has closed, so frames are missed,
repeated and late. The gate's overflow is the subject of `GapRecovery` and does
not happen here. A REST answer may stop anywhere before the last slot, which
covers a page limit and an exchange that lags. A crash comes between two
transactions: memory is lost, the tables are not; `delivered` belongs to the
consumers. The relay that lists, publishes and marks is not in `src/` beyond
the store's methods for it, and is modelled from their documented use.

*Quotes.* The stream and the snapshots are two callers of `process()`, each of
which saves what it got before it takes the next message. A reconnection starts
the stream's numbering anew. The store has no order of its own but the one
`set_ticker_cache` checks.

*Verification.* A chunk is as the checksum wants it or not. Any name of the
directory may become any entry between two calls, which includes the atomic
replacement the downloader does. A missing entry opens to a read failure. The path is
looked up again by `open()`: a link made after `resolve()` is followed.

*Downloader, ConversionStream, Archive.* Rows are the times at which they open.
Times are days; two months and the days between them stand for the calendar. The
exchange has any klines for a slice of which no two overlap (`Histories`); a page
has the oldest `PageLimit` of those asked for. A file remembers, as history, the requests that put klines into it. Between download
and conversion a raw file may be damaged once, in any of the ways of `Damaged`;
the manifest has no checksum that would tell. A line is up to four chunks long and
may lack its end; each output line takes `OutputUnits` units, of which a stream
accepts some at a time. A failed conversion is cleared away and repeated.

*Publication.* An inspection is a step of its own and out of date at once. Renames
are those of Windows, which the code requires: they never replace and fail on an
open entry. An outsider may write the raw file over, turn a directory into a
link, cut the power or kill a process. A power failure tears the content of entries
that were not synchronised. It may also take back any of the renames, and let any staged
entry vanish, because the code never synchronises a directory after `os.rename`
(`_publication_promotion.py:695`); an entry taken back is either staged again or gone.
One rename is done or not done, and directories stay. Faults an inspection can report besides the presence of entries
are one action, `Refuse`.

*Trading.* The repositories of `packages/persistence` are placeholders and no
composition root wires the services, so a transaction is what the unit of work's
interface promises: it reads committed rows and writes whole rows at its commit,
or nothing. A bound method is a new object each time it is taken from its owner, equal to
all the others: `publish()` drops repetitions by `id()`, `unsubscribe()` removes by `==`.
`serial` says whether the database besides runs one at a time. A
call may be given up at each of its waits. Quantities matter only to the risk
policies.

*RestCooldown.* A request leaves in the step that acquires it; a full worker
pool could delay it further. Weights and counters are observed only.

## Runs

`pass` runs must finish without an error; a `violation` run checks one sentence
of the documentation that the code does not satisfy, and its counterexample is
the finding recorded in `PROJECT.json`.

| Run (module, configuration) | Shows | Bounds, and why they are enough |
| --- | --- | --- |
| `guards` (`MCGuards`, `Guards.cfg`) | breaker: one probe at a time (`ProbeExclusive`), closing and opening earned by the reports of their own phase (`RecoveryEarned`), refusals end unless the probe was cancelled or its open stream stays silent (`RefusalsEnd`); budget: no window overfilled (`WindowRespected`); cooldown: no request inside a ban (`BanRespected`); monitor: what is stale has been said, and not too often (`StaleIsHeard`) | 3 attempts, one of which may be cancelled: the probe, a late report and a bystander; thresholds 2, so that one report is not enough. Two windows and a tick. 3 overlapping requests; a Retry-After below 0, of 0, and between the two defaults. One subscription with a threshold and one without; time for three reminders |
| `supervisor_steady` (`ConnectionSupervisor`, `SupervisorSteady.cfg`) | while it retries exactly one chain does, one reader, no socket being opened in an open circuit (`OneConnector`), retry budget returned by frames only (`AttemptsResetByFrame`), and attempts that never cease (`NeverGivesUp`) | retry budget 2 and threshold 3: both the sparse probe and the open circuit are reached |
| `supervisor_restart` (`SupervisorRestart.cfg`) | `connect()` and `close()` never overlap (`AdapterExclusive`), from the end of `stop()` to the next `start()` no socket, and none on its way (`StoppedClosesSocket`), `stop()` returns (`StopReturns`) | two overlapping starts and one stop; budget 1 and threshold 2 keep it at a few minutes |
| `subscription_sync` (`SubscriptionSync`, `SubscriptionSync.cfg`) | the active set mirrors the provider up to what is in flight (`ActiveTracksProvider`); on every connection the stream limit holds, and no place is taken by a stream that waits for nothing, but for what a lost connection left over (`PlacesAccounted`) | 3 streams, limit 2, batches of 1, two connection losses, so that what is left over can be asked for, answered and lost again: several batches per call; budget and rejection in between |
| `gap_recovery` (`GapRecovery`, `GapRecovery.cfg`) | with requests that fail and a `process()` that suspends and raises, nothing processed twice, nothing lost but the batch that an exception discards (`NothingLost`), and every drop reported (`DropsReported`) | two repairs that overlap, 4 in all, 7 frames, capacity 2, history of 2 incidents: overflow of both |
| `parts` (`MCParts`, `Parts.cfg`) | while requests answer and `process()` neither suspends nor raises, the gate keeps order and accounting (`ImplementsOrderedIngress`) and strands no frame (`NoneStranded`); a repair brings each closed candle of its range once and in order (`RangeIsRepaired`); no remembered trade emitted twice (`TradesOnce`); the ticker cache never falls behind (`TickerCurrent`); verdicts were true, and what was hashed was not all along a link out of the directory (`VerdictsWereTrue`) | the gate as in `gap_recovery`; intervals of 1 and 3 ticks on each grid, of 1 and 2 months, 8 ticks, pages of 2 candles, one candle missing: up to 4 pages; a memory of 2 trades of 3, 2 moments, 4 messages, 1 restart; 2 files of 2 chunks, 2 changes |
| `candle_ingest` (`CandleIngest`, `CandleIngest.cfg`) | the tables agree (`TablesAgree`), no slot is forgotten but by an exception out of `recover()` (`MissingIsRecorded`), what the row of a recovered gap names is stored, its first missing slot included (`RecoveredIsStored`), the archive replays to the stored series (`ReplayReproduces`), publication as `AtLeastOnce` (`ImplementsAtLeastOnce`) | 4 slots, a memory of 3 candles so that one is evicted, slot 2 revised, room for 5 raw messages so that some are refused; 2 frames, 2 repairs and a crash anywhere. One unusable kline is archived before no more come (`MaxUnusable`), from the stream or as the first row of an answer: a hole on either way. A time out of range comes from the stream only (`Mistimed`), which raises in the receive loop and in a drain; from REST it raises in the same place |
| `archive` (`MCArchive`, `Archive.cfg`) | a complete manifest is exact (`CompleteIsExact`), its dataset converts (`CompleteIsConvertible`), the conversion does what it is defined to (`ConvertedAsDefined`), and the work ends (`EventuallyDecided`) | a daily and a monthly slice, a horizon of two days, pages of one row, 2 attempts, 2 faults: a fault in a run and one in its successor. Lines up to four chunks; one odd row |
| `publication` (`Publication`, `Publication.cfg`) | no published entry is ever torn, by a power failure either (`PublishedIsDurable`), each is of one version of the raw file (`PublishedIsOfOneVersion`); success means the whole pair, of which only a power failure takes a part (`SuccessIsWhole`); staged entries are exclusive (`PairIsExclusive`); readers see `PairPublication` | two publishers, a raw file of 2 chunks, one rewrite, 2 mishaps: both renames and the time between them can be hit |
| `trading` (`Trading`, `Trading.cfg`) | accepted orders are recorded (`AcceptedIsRecorded`), announcements are true (`AnnouncedIsRecorded`), each subscriber hears an event once (`SubscriberHearsOnce`), portfolio and positions agree (`PortfolioAgrees`) | a service order and an executor order under two cancellations; two opens, a close and a price update over two symbols and one portfolio; three publications with three changes of the handlers, a function and a bound method of two objects |
| `supervisor_default_budget` (violation, `SupervisorDefaultBudget.cfg`) | `RetryAttended` fails | threshold below budget, as in the defaults |
| `archive_resume` (violation, `ArchiveResume.cfg`) | `OnlyClosedInRange` fails | as `archive` |

`CHECK_DEADLOCK FALSE` stands where the system stops: a supervisor whose
application has used up its calls of `start()` and `stop()`, a circuit wedged by
a cancelled or silent probe, a recovery whose frames have all arrived, an ingest whose
frames, repairs and crashes are used up and whose outbox is relayed, a published
or refused dataset, publishers that have ended, and services without callers.

### Fairness

* `MCGuards!Spec`, for the breaker: time passes, and an attempt that was admitted
  opens its socket or fails, because opening one has a timeout (`open_timeout`).
  Nothing is assumed of it from then on: the heartbeat skips a connection while
  `_last_frame_time is None` (`connection_supervisor.py:319`), a stream that its peer
  closes without an error ends the receive loop without a report, and the rotation,
  which would end both, may be off. Nothing makes anybody ask; the property is about
  being admitted when one asks.
* `ConnectionSupervisor!FairSpec`: weak fairness of the reconnect chains, of
  cancellation and `stop()`, and of the cooldown: the loop runs what is ready,
  timers fire, opening and closing have timeouts. Nothing is assumed of the
  peer: frames, answers and closes may never come.
* `CandleIngest!FairSpec`: weak fairness of the relay alone, the one thing that
  has to go on for an event to reach consumers. Crashes are bounded: a process
  that crashes in every pass would never publish.
* `Archive!Spec`: weak fairness of the download, which includes starting it again
  after it has failed, as its operator does, and of the conversion. Faults are
  bounded: if every run failed, nothing would be decided.

### Findings

Each of the first two is a violation run; `PROJECT.json` quotes the sentence it
contradicts.

| Run | What the code does |
| --- | --- |
| `supervisor_default_budget` | with the default settings (5 failures, 10 attempts) the circuit opens while retry budget is left; the chain ends and nobody retries |
| `archive_resume` | a resumed run takes over the rows of any file it finds under the name; the request's identity is compared with the manifest only, which may be missing or of a later run |

The next five are definitions with a counterexample that any TLC user can
reproduce by naming them as the INVARIANT of the configuration in parentheses:

| Definition | What the code does |
| --- | --- |
| `SubscriptionsSubmitted` (`SupervisorSteady.cfg`) | acknowledgements of the old socket still count after a reconnect; nothing is subscribed on the new one |
| `ClosedIsRepaired` (`Parts.cfg`) | the last closed boundary is counted from the epoch, a Thursday (`gap_recovery.py:156`); a week that closed since then on a Monday is fetched only by a repair after the next Thursday |
| `InOrder` (`GapRecovery.cfg`) | a failed repair leaves its frames in the buffer and later frames overtake them |
| `StoredIsArchived` (`CandleIngest.cfg`) | REST messages are numbered from 1 again after a restart, and the archive accepts them without storing them, as repetitions |
| `CancelledIsDead` (`Trading.cfg`) | `cancel_order()` hands the exchange the key of the orders table where the adapter's contract (`packages/domain/interfaces/exchange.py:112`) wants the exchange's identifier; `FakeExchange` answers with success, the row says CANCELLED, and the order stays live |

Seen while modelling, and kept out of the runs by their bounds or the form of a
property; the hazards of `PROJECT.json` give the lines:

* connection: rotation and heartbeat reconnect without closing the adapter, whose
  `connect()` refuses from `streaming` (`MonitorCanReconnect`); a sparse probe that
  wakes after recovery takes a healthy stream to `backing_off`
  (`StreamKeptWhileHealthy`); `stop()` during `start()` leaves the monitor tasks that
  are created afterwards (`StopLeavesNoMonitor`); a cancelled probe keeps the probe
  slot for ever, and so does one whose socket is open and silent, or closed without an
  error before its first frame: the first-frame timeout of
  `docs/architecture/market-data-layer.md:466` does not exist (`RefusalsEnd` excludes the
  three); a late success is taken for the probe's; and with more than one success to
  close the circuit nobody asks for the second probe (`SuccessThreshold = 1` in the
  supervisor runs);
* subscriptions: a rejected UNSUBSCRIBE is never sent again; an acknowledgement that
  overtakes the return of `send()` leaves a stale pending entry; two interleaved
  syncs exceed the stream limit together; streams requested on a lost connection
  stay pending on the next until they are asked for again (the exception of
  `PlacesAccounted`), and keep a place of it;
* repair: every recovery after an overflow reports one, because the drop count is
  cumulative (`OverflowIsOfThisPass`); of two overlapping repairs the first to end
  opens the gate under the other; an exception out of `process()` while the buffer is
  drained, or a cancellation there, loses the rest of the batch and counts none of it
  (`gap_recovery.py:131-133`, the exception of `NothingLost`); one out of `recover()`
  also loses the results of the candles before it, which the pipeline remembers and
  will not accept again (the exception of `MissingIsRecorded`);
* store: the row of a gap of several slots is marked recovered, with nothing
  unresolved, when only its first slot was restored (`market_data_soak.py:650`), so
  `RecoveredIsStored` speaks of the slots the row names; the watermark is the newest
  stored slot, not the end of a contiguous series (`TablesAgree` does not say it
  is), and a slot missed around a restart is in no gap row: `MissingIsRecorded`
  speaks of the slots since the first one this process saw;
* quotes: an empty set of subscriptions switches the identity check off, so that
  after unsubscribing from everything late frames are accepted again; a ticker
  of the same event time is dropped when its number is lower, which the number is
  after a reconnection; the time of a snapshot is `closeTime`, that of a frame `E`;
* archives: `1m` and `1M` give file names that differ in case only; a complete
  manifest of a range that ends in the future holds the klines closed at the
  server's time, and is returned unchanged ever after; its actual range is that
  of the first and the last file; attempts the limiter blocks count as attempts;
  the downloader looks only at the times of a row, the conversion at all fields,
  so a row may be downloaded and then quarantined; the open of a fixed interval
  is not checked for alignment; the downloader does not synchronise its files;
* publication: no directory is synchronised after a rename, so a pair whose publisher
  has returned may be gone, or be one entry, after a power failure (the exception of
  `SuccessIsWhole` and of `PairPublication`; `docs/operations/PHASE-3-execution-handoff.md:566`
  names the missing guarantee);
* verification: files the checksum file does not name do not change the status; a
  file verified alone may be a link to anywhere, and in a directory a link out of it
  that is made between `resolve()` and `open()` is followed and hashed, where
  `checksum.py:26-29` says never (`WasInside` asks that it was inside at some moment);
* trading: `OrderExecutor` writes whole rows, and so does a cancellation, so an
  executor's order cancelled in between is either revived or loses the exchange's
  identifier; after a publication `unsubscribe()` leaves the handler listed
  (so `SubscriberHearsOnce` speaks of those subscribed); a bound method that was
  subscribed twice is called twice by one publication, since repetitions are dropped by
  `id()` (so it speaks of objects); what the exchange accepted is in no row when the
  write fails (`AcceptedIsRecorded` exempts it); the risk metrics are
  constants and a market order's notional is 0; a closed position stays in the
  portfolio's listing and its symbol cannot be opened there again; without
  isolation two opens succeed together, and a price update reopens what was closed;
  `MarketDataAggregator.add_trade` fails on its `defaultdict()` without a factory.

## Proofs

All assumptions are the named `ASSUME`s of the modules. They say that thresholds,
capacities, windows, lengths and page sizes are positive, defaults natural
numbers and Retry-After an integer; that the sets of the trading services
(calls, handlers, symbols) do not overlap and that what stands for no value is
not one (`OrdersAssumption`, `PositionsAssumption`, `TradingAssumption`), nor is what
stands for an unreadable field or row (`PayloadAssumption`, `NaNAssumption`). The
bounds on faults, calls and time are constants like the others: what is proved
holds for each of their values. A theorem that needs more says so in its
statement.

* `Guards_proofs`. The breaker: `BreakerTyped`, `ProbeIsExclusive`,
  `FailuresAreCounted`, `RecoveryIsEarned`. The inductive invariant adds
  `SuccessesCounted` - the success counter of a half-open circuit equals the
  successes since it opened - without which a close could not be traced back to
  the reports that earned it. The budget: `BudgetTyped`, `NoWindowIsOverfilled`,
  `HeadroomIsUsed`. `WindowRespected` speaks about the history only; the
  invariant ties the deque to it (`Remembers`: the deque is the history without
  an expired beginning) and orders it (`Chronological`). `LoopStops` says where
  the `while` loop of `_reserve` stops; it needs that a nonempty set of numbers
  has a least one (`LeastElement`), and `SuffixOf` says what is left behind it. A
  grant finds fewer than `Maximum` attempts in the deque, so the attempt
  `Maximum` places back lies in the expired part. The cooldown: `CooldownTyped`,
  `BlockEndsWithThePause`, `BansAreRespected`. The invariant is stronger than
  `BlockIsOwed`: a block, also one that has run out and was not yet cleared, ends
  at `owed`, and without a block `owed` is past. The monitor: `FreshnessTyped`,
  `FreshnessStaleIsHeard`. The property speaks about the alerts, which are
  history; the invariant ties what the monitor keeps to them (`Follows`): no alert
  has been given exactly when there is neither an episode nor a last alert, and
  then no reminder has been counted either, or the first would carry a number
  that was used. That alerts are a reminder apart (`Apart`) needs that none is in
  the future.
* `ConnectionSupervisor_proofs`. `SupervisorTyped`, `AdapterIsExclusive`,
  `StopClosesTheSocket`, for any size of the task pools, any budget, thresholds and
  number of starts and stops. The adapter's lock is a queue, and who is in it is
  written down a second time in the places of the coroutines: `QueueInv` says
  that the two agree, each coroutine once, and that whoever uses the socket is at
  the head; so `connect()` and `close()` exclude each other. For the second
  property `StopInv` is needed: from the moment `stop()` sets the closing flag
  nobody queues up behind it, because it has cancelled, or waits for, all who
  could; so its `close()` is the last of the queue, and when it has returned the
  queue is empty and stays so. The other theorems are about the time before
  `stop()` is called: `RetriesAreAlone` (one chain of attempts, one reader, no
  socket opened in an open circuit) for any thresholds, and the rest of
  `OneConnector`, that somebody will retry, in `OneConnectorBeforeStop`, for a
  circuit whose threshold exceeds the retry budget and which one success closes.
  Both hypotheses are necessary: TLC refutes `RetryAttended` without the first
  (`supervisor_default_budget`) and with two successes asked for. The invariant
  `Lone` has a part on places and one on data. Places: the supervisor refers to every
  task that is alive, so `_cancel_tasks()` misses none (`PlacesInv`); whoever cancels
  waits for all who are alive (`CancelInv`); whoever retries is alone, but for the
  sparse probe, which does not look before it tries and may find the others at
  work (`ChainInv`). That it does no harm is the first of the data: while a task
  works, the adapter is in no state from which it would connect (`AdapterInv`).
  The others: an opening socket has an admitted attempt (`StateInv`), a frame was
  heard before the state says so (`HeardInv`, which also gives
  `FramesResetAttempts`), and the circuit never has more failures than the budget has
  attempts, with the one that a cancelling task has still to count (`BudgetInv`).
  So when the circuit refuses, the budget is exhausted and a probe is there.
* `SubscriptionSync_proofs`. `SyncTyped`, `PendingIsAnswered`, `ActiveIsMirrored`
  without further hypotheses: any number of callers, rejections and lost
  connections. What is pending is under way or left over on every connection
  (`PendingIsAnswered`), because a request names what it makes pending and what is
  left over leaves that set by a request or an answer only. Requests and their answers are read as one queue (`Flight`), the
  answers in front, because the provider only moves the boundary.
  `PlacesAreAccounted`, the limit of the streams, assumes that one coroutine calls
  `sync_with_adapter()` - the supervisor's chain, `connection_supervisor.py:249` -
  and that the provider refuses no SUBSCRIBE. Both are necessary: TLC finds the
  limit exceeded with two callers, and with refused requests. Its invariant is
  about the order in which the queue names a stream: an active stream is not
  unsubscribed before it is subscribed again (`OrderInv`), what the provider
  sends or is asked for has a place (`PlaceInv`), what it still sends after an
  UNSUBSCRIBE was asked for again (`ServedInv`), and a call that is suspended acts
  on differences that still hold (`CallInv`). The number of places taken or spoken
  for never exceeds the limit.
* `CandleIngest_proofs`. For any number of slots, size of the memory and set of
  revised slots, and any number of unusable klines: `TypeCorrect`,
  `TablesAlwaysAgree`, `RecoveredGapsAreStored`, `NoSlotIsForgotten`,
  `PublicationIsSafe`. Only one transaction writes candles, watermark and outbox
  (`OnlyPersistCandleStores`), which makes `TablesAgree` inductive. The others need
  more. A repair reports slots as accepted before its caller has stored them:
  `AcceptedIsComing` says each is stored or in the caller's queue, which is empty
  when the gap row is settled and names them. Only `RepairRaises` empties it otherwise,
  and then no row is settled and the slots are `forgotten` (`RaisingForgets`). A process that has seen no candle must remember
  none (`StartsEmpty`), or its first candle could open a range it never recorded;
  with that, `EmittedCovers` shows that what the pipeline emits covers every slot
  it moves over, and events leave a queue only into the tables. `PublishInv` says
  that a relayed row has reached the consumers and that a pass leaves no
  unrelayed row before those it has listed, so the first listed row is always the
  next one due; this is the safety half of `AtLeastOnce`. `ArchiveReplays` is the
  equality of the replay of the archive with the tables. What a candle is compared
  with when it is accepted is the pipeline's memory, when it is replayed the archive:
  `ArchivedIsSeen` ties the two, fresh message ids (`IdsAreFresh`) keep a later
  message from taking the place of an earlier one, and then the first archived
  message of a slot is the one that is emitted and stored (`EmittedIsFirst`,
  `StoredIsFirst`).
* `Parts_proofs`. Quotes: `QuotesTyped`, `QuotesTickerCurrent`, `QuotesTradesOnce`, for
  any size of the memory and any number of messages and restarts. For the ticker:
  being newer is an order (`NewerOrders`), so that the cache, whichever of two
  tickers it keeps, is behind neither, and the property is inductive as it stands.
  For the trades: the remembered ones are the end of the emitted ones, and fewer
  are remembered than fit only when none has been forgotten (`MemoryIsLatest`).
  Verification: `VerdictsAreTrue`, for any number of files, chunks and changes of the
  directory. The digest is the beginning of one content the file had since the
  verification began (`ReadsWhatItOpened`), because chunks are read from the handle
  and not from the name; and beyond `resolve()` the file of a directory has been
  something else than a link out of it (`InsideInv`). Ranges: `RangesAreRepaired`, for every fixed interval,
  number of months, size of a page and set of missing candles. Between two pages
  what was fetched is what closes before the end of the range and opens before
  the next page (`FetchedIsClosed`, `FetchedIsComplete`). A page is known to be the
  continuation only because a repeated first page is refused: the exchange gives
  one answer to one question if the page is full (`PagesAgree`), the first page
  was full when a second is asked for, and it ended before that one's start
  (`FirstPageIsPast`). The arithmetic is that numbers of one remainder are the
  divisor apart (`AlikeAreApart`), for ticks and for months. The calendar stays the
  one of the model. Gap recovery, for every configuration: `TypeCorrect` and
  `DropsAreReported`; the invariant adds that a pass began with no more drops
  than there are now, and that a batch being drained is not empty. Assuming a
  history that answers and a sink that does not suspend: `NoFrameIsStranded` and
  `RecoveryKeepsOrder`, the refinement of `OrderedIngress`. Its invariant
  `Undisturbed` says that frames wait in the buffer only while the gate is shut,
  and that a shut gate has a repair that will drain the buffer; so a forwarded
  frame finds the buffer empty and is the abstract `PassOn`. `NoFrameIsLost` (`NothingLost`) again
  holds for every configuration, with failing histories and a sink that suspends and
  raises: no two places hold the same frame, the batches that went with an exception
  among them, and only a call that drains has a batch (`Apart`), so each step moves
  frames between disjoint sets, and their number with the dropped ones stays what has
  arrived (`AllCounted`).
* `Publication_proofs`. For any number of publishers, chunks, rewrites and mishaps:
  `PublicationTyped`, `PublishedStaysDurable`, `PublishedMatchesItsDigest`,
  `SuccessMeansBoth`, `StagedPairIsExclusive`, `OutputIsClear`, and
  `PublicationIsOrdered`, the refinement of `PairPublication`. What a publisher owns of the directory tree is a
  function of its stage, so the invariant has one conjunct for each group of
  stages: which staged entries are its own (`BothHeld` and the groups that follow
  it), and in which of them an entry of it may be under its final name (`Renamed`),
  of the version that the publisher has digested. A rename never replaces, so an
  entry under a final name stays the one that was put there until a power failure takes
  it back, which ends all publishers and is remembered in `undone`. That no sidecar is
  then added to a research file without one needs `ClearInv`: from the check of its
  staged pair to the rename of its sidecar, a publisher has an empty output directory,
  for nobody else holds staged entries to rename.
* `Trading_proofs`. `EventsAreHeardOnce`, `AcceptedOrdersAreRecorded`,
  `AnnouncedOrdersAreRecorded`, `PortfoliosAgree`, for any sets of calls, handlers,
  symbols and portfolios, with and without a database that runs transactions one
  at a time where the property does not need it. The bus: the lists hold every
  object that is subscribed, whatever the lists of a type and of `DomainEvent` are extended
  with (`Covered`), and a subscriber of a publication is either called already or
  still in the copy (`Delivered`). Orders: the exchange's identifiers are numbers of
  one order each (`NamesInv`), what is live there is known by its name (`BookInv`),
  and a row appears when its call records it (`RowsInv`). Positions: a draft of a
  suspended transaction was true when it was read and still is where it will be
  written (`DraftsInv`), which is what isolation gives.

* `Archive_proofs`. `CompleteArchiveIsExact`, `ConversionIsAsDefined`,
  `CompleteArchiveConverts`, for any number of slices, range, page and history, any
  number of failures, crashes and resumed runs, and any raw file. The invariant
  has three parts. The downloader's (`DownloaderInvariance`): a file whose rows are
  of one request holds a beginning of the closed klines of that request
  (`SoundFile`), the rows in memory are all that open before the cursor (`SoundRows`),
  the slices a run has left behind hold everything that had closed when it
  began (`SoundRun`), and a complete manifest describes the files that are there
  (`SoundArchive`). A run writes a file when its slice is fetched, with
  what had closed when the run began; a later one resumes at the file's watermark.
  Since klines of a slice do not overlap (`Histories`), a beginning has no holes, and
  the resume leaves nothing out. The
  conversion's (`StreamInv`): after `n` lines the two outputs are those of the
  first `n` lines but for one record, of which a part may still be unwritten, and
  the report's two times are those of its first and last candle. The work's
  (`WorkInv`): while nothing has damaged the files, every artifact counts the
  klines of its file (`SoundArtifact`) and its times lie in the range that was asked
  for; so no contract of `ResearchManifest` can refuse it. Two facts here look like
  induction over data and are proved by the smallest counterexample, since the
  sizes of finite sets are numbers: that every set of times can be listed in
  ascending order (`OrderExists`), in one way (`OrderIsOne`); and that a raw file of
  lines of one unit each has as many units as lines (`SizeOfLines`), which is all
  that is needed of the fold `RawSize`.

Only model-checked: liveness (`RefusalsEnd`, `StopReturns`, `NeverGivesUp`,
`EventuallyDecided`, the fairness half of `ImplementsAtLeastOnce`), which is beyond
the prover. Every safety property of a passing run is stated by a theorem, for some under a
hypothesis: `OneConnector` and `AttemptsResetByFrame` (before `stop()`),
`PlacesAccounted`, `NoneStranded` and `ImplementsOrderedIngress`; the bullets above
say which and why. The properties of the two runs that expect a violation are false.

## Not modelled, and the plan

Left out for good:

* strategies, registry and back-testing: `BacktestEngine.run()` is a stub that returns
  zeros, and a strategy is an object with one flag and one list, changed by one
  caller; the workers of `src/apps/` are loops that wait;
* `OrderStateMachine` and `packages/execution/policies.py`: no caller in `src/packages`,
  so there is no sequence of calls to model;
* the two older services `data_normalizer.py` and `data_aggregator.py` and the
  validators, which the live path does not use;
* settings, logging, metrics, health, dashboards, scripts; symbol mapping and the
  syntax of JSON and CSV (pure formatting);
* the inspections of `_publication_fs.py` beyond their outcome: links, junctions,
  devices, volumes; they are `Refuse`.

Not modelled yet, and worth it:

* the supervisor's queues of status and potential-gap events;
* fills and reconciliation, once the repository connects them to the services.

What the two runs that expect a violation refute has a weaker form that is proved:
`OneConnectorBeforeStop` for `RetryAttended`, `CompleteArchiveIsExact` for
`OnlyClosedInRange`. Theorems worth proving next: which faults of a row each side
lets pass, as lemmas on `Bounded` and `Convertible` (`KlineRow`) and on
`TradeIsSound`, `TickerIsSound` and `KlineIsSound` (`Payload`).
