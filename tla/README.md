# Verification of pwmk, the Polymarket market and weather research service

This directory holds TLA+ models of the service under `src/src/pwmk`, the TLC
configurations that check them on small instances, and proofs checked by TLAPS.
Paths below are relative to `src/src/pwmk` unless they start with `src/`.

## 1. The system

One asyncio process, `pwmk serve`, answers the read API and the dashboard and may
run a scheduler with two loops, one that polls the provider's markets and one that
streams trades. Three POST routes start a poll, a backfill or a maintenance pass in
the same process, and every command of the `pwmk` CLI is a process of its own.
They share one SQLite database in WAL mode and nothing else: a Repository method
opens a connection, runs one transaction and closes it, so between two calls of a
coroutine any other coroutine or process may commit.

| component | state | operations | talks to |
|---|---|---|---|
| Market ingestion, `ingestion/pipeline.py` | tables `ingestion_runs`, `markets`, `events`, `market_tokens`, `market_outcomes`, `market_snapshots`, `event_volume_snapshots`, `data_quality_issues` | `poll_once`, `poll_loop`, `backfill_markets` | Gamma keyset listing, Data API live volume, store, maintenance |
| Trade stream, `ingestion/pipeline.py`, `clients/polymarket.py` | table `trades`, the socket | `stream_trades`, `stream_loop` | market socket, poll (bootstrap), store, maintenance |
| Volume aggregates, `db/repository.py` | table `market_volume_aggregates` | `refresh_volume_aggregates` | snapshots and trades |
| Alerts, `ingestion/alerts.py` | table `alerts` | `create_volume_spike_alerts`, `create_stale_ingestion_alert`, `deliver_pending_alerts` | snapshots, webhook |
| Scheduler, `ingestion/scheduler.py`, `api/app.py` | tasks, started_at | `start`, `stop`, `status`, POST routes | the two loops |
| Weather paper trading, `cli/main.py` | tables `weather_*`, `market_settlements` | `weather scan`, `sync-settlements`, `calibration` | Gamma, CLOB, Open-Meteo, store |
| Signal and stake arithmetic, `trading/` | none | `build_signal`, `stake_for_kelly`, `paper_order_quantity`, `infer_market_settlement` | |
| Weather title parser, `parsing/` | none | `parse_with_reason` | |
| Collectors, read API, exports, dashboard, settings, models | none of their own | queries and presentation | |
| Legacy weather database, `db/sqlite.py` | | unused | |

What is hard here: coroutines and processes that interleave at every transaction;
data stamped before a slow fetch and stored after it; unique keys of one-second
resolution; requests that fail half way through a job; cancellation and the end of
the process; a webhook delivered by several workers; a rebuild of a window of
aggregates while rows arrive; money rounded in decimal steps.

What makes each part correct:

* Ingestion: the ledger tells which runs ended and how; a row's time stamps never
  promise more than the row holds; a job that reports success has stored what it
  fetched; history tables are only added to.
* Alerts: an alert is marked delivered only when the webhook took it, is repeated
  only for an overlap or a loss, is handled in the end; a stale store is warned about (it is not, see `alerts_outage`).
* Aggregates: nothing is counted twice, a rebuild is exact inside its window (but for the
  trades of one second), overlapping rebuilds do not collide.
* Paper trading: an order is scored with its own signal and with an outcome that the
  market was priced to; a decided market gets its settlement; the report of a scan
  accounts for every market it looked at.
* Trade stream: a trade that the socket repeats is stored once, the window ends.
* Scheduler: one task per loop, a stop that ends, and a start after it works.
* Arithmetic: stakes stay within their limits after rounding, and an order is placed
  only where it gains on average.
* Title parser: a question put the usual way is forecast as it was asked.

## 2. Plan

| step | modules | state |
|---|---|---|
| 1 | `Tables`, `Ingestion`, `IngestionProofs` | modelled, checked, proved |
| 2 | `PaperTrading`, `PaperTradingProofs` | modelled, checked, proved |
| 3 | `Alerts`, `AlertsProofs` | modelled, checked, proved |
| 4 | `VolumeAggregates`, `VolumeAggregatesProofs` | modelled, checked, proved |
| 5 | `TradeStream`, with the scheduler's start and stop, `TradeStreamProofs` | modelled, checked, proved |
| 6 | `SignalMath`, `WeatherTitles` and `WeatherScan`, the scan in full, which implements the scan of `PaperTrading`; `WeatherScanProofs` | modelled, checked, proved |
| 7 | the abstract `RunLedger` (implemented by `Ingestion` and `TradeStream`) and `Outbox` (implemented by `Alerts`); `RunLedgerProofs` | modelled, checked, proved |
| 8 | `SumTheorems`: sums over finite sets | proved |

The order follows the damage a mistake would do: the ingestion jobs fill every table
the rest reads; paper trading is what the research result is computed from; alerts and
aggregates follow. `Tables` holds the two SQL idioms (INSERT OR IGNORE, upsert) that
`Ingestion` composes; the others share the store by the tables they name, each module
with the tables its code reads and writes.

## 3. The modules

**`Tables`**: a table with a unique key as a function from keys to rows;
`Inserted` (INSERT OR IGNORE) and `Upsert` (ON CONFLICT DO UPDATE) as the bundle
transaction uses them.

**`RunLedger`** and **`Outbox`** are abstract: what `ingestion_runs` and `alerts` promise
whoever reads them, without saying which jobs or workers write them. In `RunLedger` a writer
begins one row, and ends that row or is lost with it; in `Outbox` a row is delivered only
after a post, withdrawn only while it is pending, and never pending again. `Ingestion` and
`TradeStream` implement the first (`status` is the column, `holds` the run id a live job
keeps), `Alerts` the second.

**`Ingestion`**: `ingestion/pipeline.py`, `clients/polymarket.py`,
`Repository.start_run`, `finish_run`, `save_market_bundle`, `save_event_volume`.
A *job* is one activation of `poll_once` or `backfill_markets`; `job[j]` holds its
locals (`at` is `observed_at`, `copies` the payloads fetched, `fetches` the calls of
`fetch_markets` left). One action per awaited request or transaction: `Start` (start_run),
`Page` (one keyset request), `Save` (the bundle, events and markets and snapshots in one
transaction), `LiveVolume` (one event of `live_events`), `Maintain` (succeeds or raises),
`FinishOk`, `Raise` then `FinishError` (the except clause), `Stop` (a cancellation or
a killed process, which the except clause does not see). The environment is the clock
and the provider's listing, whose ranking may move between two pages. `lost` and `past`
are history variables.

**`PaperTrading`**: `cli/main.py` (weather scan, sync-settlements), the repository
methods they call, `trading/settlement.py`. A scan is `StartScan`, `FetchKeyword` and
`FetchTagged` by source, then per market `TakeUp`, `NoSignal` or `SaveSignal`, `SaveOrder`.
A sync is `StartSync` or `StartRecent`, the requests, and one `Settle` per answer, all
answers being fetched before the first is saved.

**`Alerts`**: `ingestion/alerts.py` and the repository methods it calls. A worker is one
`run_maintenance`; `ReadMomentum`, `SaveSpike`, `ReadLatest`, `Act` are the checks,
`Pick`, `Post`, `Mark` the delivery; `SavePoll` is the part of `poll_once` that matters
here. `posts` counts what the webhook took.

**`WeatherTitles`**: `parse_with_reason`. A title is a sequence of words, a word the phrases,
numbers, date and place that the regular expressions and substring tests find in it. `Parse`
goes through the attempts in the order of the code and returns a spec or the first obstacle;
`Decide` reads the tables of phrases for metric and comparator (`MetricRows`, `ComparatorRows`, the
first row met decides), `Threshold` is the choice of the number among its `Matches`, `Reach` standing for the 30 characters around it. `Written` makes a title of a question in
three word orders, with the phrases that words contain by accident ("overnight" has "over").

**`SignalMath`**: `trading/probability.py`, `risk.py`, `signals.py`, `settlement.py` and the methods
of `models/domain.py` they use. Prices are hundredths of a dollar, stakes cents, quantities
ten-thousandths, all else exact fractions; `Quantize` rounds, half to even, where the code
quantizes, and nowhere else.

**`WeatherScan`**: one `weather scan` or `weather audit-titles` process from the list of markets to the
report. `FetchKeyword`, `FetchTagged` fill the list (`Dedupe` keeps a market's first entry),
`TakeUp` begins a market, `RaiseOnDate`, `AuditTitle`, `SkipTitle`, `AskForecast` are what the
parser's result leads to, `NoForecast`, `Forecast`, `NoBooks`, `NoSignal`, `SaveSignal`,
`SaveOrder` the rest of the loop's body; each skip has its reason and its counter. `Paper` maps it
to `PaperTrading`: a market whose title is being parsed is still to be taken up there, forecast and
books are its quote, and an audit, an end or an abort is its idle scan. So `PaperTrading` can leave the
parser and the arithmetic to a free choice of outcomes, and what it shows of overlapping scans holds
of the detailed one.

**`VolumeAggregates`**: `Repository.refresh_volume_aggregates` as `run_maintenance` calls it:
`Begin` (the cutoff), `ReadSnapshots`, `ReadTrades` (two SELECTs outside a transaction),
`Write` (DELETE and INSERTs in one). `SaveSnapshot` and `SaveTrade` store rows, late ones too.
A tick is a second, the unit of every time stamp but a trade's: `timestamp_to_iso` gives it
milliseconds, unless the event had no time stamp and gets `observed_at`. Time stamps are compared as
strings, in which "12:00:00.500Z" comes before "12:00:00Z", so `TradesFrom` leaves out the trades of the
cutoff's own second that have milliseconds (`millis`). `NoCutoff` is a rebuild without a WHERE clause,
and stands as well for a window that reaches back beyond the first tick.

**`TradeStream`**: `stream_trades`, `stream_loop`, `stream_market_events`,
`Repository.list_token_map`, `save_trade`, and `IngestionScheduler.start` and `stop` as the
server's lifespan calls them. A streamer is a server's stream loop or a stream command:
`ReadMap`, `Bootstrap`, `Begin` (start_run), `Connect`, `Receive` (one message and its
transaction), `Elapse` (the window's clock), `Finish` at the deadline, `FinishError` in the
except clause, `Resume` for the loop's next round. `Message` puts a print into the socket of
every subscribed window (`Receivers`), without a bound on how often. `StopBegins`, `Cancelled`, `StopEnds`
are the cancellation of a task, `Killed` the end of a process.

Operators that a comment calls a *broken variant* are not used by the model: each is a
plausible bug, and replacing the operator below it by the variant breaks a property.
`PROJECT.json` (mutants) lists the pairs.

## 4. What each run checks

| run | instance | shows |
|---|---|---|
| `ingest_concurrent` | two jobs, one market of one event, two ticks, one stop | the ledger (also as an implementation of `RunLedger`), the stamps, the links between tables, the snapshot counts and the history in every interleaving of two jobs of either mode; a backfill misses no market though one closes between its fetches |
| `ingest_serial` | one job at a time, a market and a payload without conditionId, pages of one | a ranking that moves may deliver a market twice or not at all: the row is the newest view all the same, and every run ends |
| `ingest_overlap` (violation) | two jobs, one market | `last_seen_at` moves back before `first_seen_at` |
| `paper_concurrent` | two scans, one sync, one market, one reversed price, one failed request | signals, orders and settlements agree in every overlap; a decided market with an order is settled |
| `paper_starved` (violation) | two markets, limit one | an undecidable market starves the next one |
| `alerts_concurrent` | two workers, one market, limit one, one fault | the alerts are an `Outbox`; repeats are bounded by overlaps and losses; every pending alert is handled |
| `alerts_outage` (violation) | one poll loop, one market, no other fault than polls without an answer | an outage of the provider is not warned about |
| `aggregates_concurrent` | two rebuilds of the hours, three rows with two trades at most, four ticks | no double count, no key collision, exactness inside the window up to the cutoff's second, deltas within growth |
| `aggregates_truncated` (violation) | one rebuild of hours and days | the oldest bucket is rebuilt from its tail |
| `stream_windows` | a server's loop and a command, one token, one print that comes again and again, windows of two ticks, one fault | windows keep their rows as `RunLedger` has it, one count per trade, windows that end, a loop that returns and a stop that ends |
| `weather_scan` | one command, three listed markets, one of them without conditionId, 280 titles, nine order books, three bankrolls | the scan implements `PaperTrading`'s; its report adds up; titles are read as asked; stakes keep their limits after rounding and orders gain on average |
| `weather_number` (violation) | the same | the day of a date is taken for the number the title asks about |

Bounds. Two concurrent activities are enough for the races here: every hazard is a pair
(a read and an intervening commit), and no operation waits for a third. One market
suffices where rows are keyed by market and no statement joins two of them; the runs
about limits and lists (`ingest_serial`, `paper_starved`) have two. Clocks of two to four
ticks let a stamp be taken in one tick, the data in another and the save fall in a third,
or a bucket begin, be cut and age out. A day is the same arithmetic as an hour with another
length, so `aggregates_concurrent` takes the hours only. `MaxRuns`, `MaxSignals`, `MaxRows`, `MaxTrades`
and the fault counters bound tables and failures; `MaxInbox` bounds what a socket holds, not what it
delivers. Two trades are one in the cutoff's second and one beside it. A window of two ticks is the least in which
a clock that starts again with each message differs from one that does not. In `weather_scan` the list holds at most one market
by keyword and two by tag, which may share one; only the first market has the full set of inputs, as
no step of the loop looks at two markets and only the list and the counters outlive one. Its titles are every
subject with every comparator, every place, date and word order, and every unit with and
without a number; its books are tight, wide, crossed, one-sided, empty, cheap and dear; its
bankrolls make both limits bite and a stake round to nothing. CHECK_DEADLOCK is off in all runs: with
the clock and the tables at their bounds the model stops.

Fairness. `Ingestion!FairSpec`: a job that has begun goes on, since each request has a
20 s timeout and each transaction a busy timeout; nothing forces a job to start.
`PaperTrading!FairSpec`: somebody runs sync-settlements again and again (strong fairness,
as the other form of the command may be running at any time) and its steps end; at most
`MaxFailures` requests fail. `Alerts!FairSpec`: the clock runs, workers go on, polls are
repeated but may all fail; no maintenance is forced to start outside a poll, since nothing in the code
schedules one. Under it `alerts_outage` refutes `StaleStoreIsWarned`. `Alerts!AnsweredSpec`
adds that the provider answers a poll again and again (strong fairness: a worker may also be busy with a
command), on which `PendingGetsHandled` in `alerts_concurrent` rests: the delivery is part of the
maintenance, and with the provider away for good nothing is delivered either.
`TradeStream!FairSpec`: what a streamer can do it does, and the window's clock runs besides, however many
messages there are to receive. Starting a server or a command is never forced, nor is a stop. A stop that
has begun goes on: `Cancelled` is strongly fair, because the cancellation waits for the task to be
suspended and every round of the loop suspends it, in the bootstrap poll's request, the
connection or the wait for a message (given a window of a second at least: with none the loop
would go round without ever being suspended). That the cancellation is then raised is asyncio's part;
the Dockerfile and the CI run Python 3.13, whose `wait_for` passes it on.

## 5. What is proved

TLAPS proves the theorems listed in `PROJECT.json` for every value of the constants, from
the named assumptions of the modules (`JobsAssumption`, `SizesAssumption` and so on: sets are finite,
limits are natural numbers, what the code's types say) and nothing else, with a few exceptions stated in the
theorems themselves: `BackfillComplete`, `RowsLead`, `SeenOrdered`, `OrdersGain` and `OneGuess`, below. Each argument has the same shape: an
inductive invariant, one lemma per action or per group of actions that touch the same tables, and a short temporal
step at the end.

**`SumTheorems`**: the ledgers' properties are about sums over finite sets, which the community
modules define by a recursive function that picks elements in an order of its own. That the function
exists is proved by stages of cardinality, and that the sum does not depend on the order
(`SumAdd`, `SumRemove`, `SumChange`) by a counterexample of least cardinality: induction over
data is not available as such, the existence of a least element is.

**`IngestionProofs`**, any finite sets of jobs, markets and events, any limits and page size:

* `TypeCorrect`, `LedgerCorrect`: `TypeOK` needs the ledger (a job's run id is a row) and the
  ledger needs the types, so `TypeOK /\ LedgerInv` is inductive. `LedgerInv`
  adds to `RunningRowsAccounted` that a live job's run is a row that was not lost; without it
  a step could finish somebody else's row.
* `HistoryKept`: the action property, from the effect of `Save` on each table (`SaveEffect`),
  the only step that writes them.
* `StampsCorrect`: by `StampInv`. A row's data comes from a page fetched after the job read its
  clock, and the provider's listings only become more recent; so the invariant relates the
  provider to all its past, every fetched copy to the job's stamp, and then the tables.
* `SeenCorrect`, `FetchedStored`: by `StoredInv`, from what the bundle transaction writes together.
* `CountedOnce`: by `CountInv`. A job's count is in its locals until its last UPDATE puts it
  in its row, so the two sums together grow by exactly what an INSERT OR IGNORE adds. The count
  of a lost job, and of one that ends in error, is the only one to disappear.
* `BackfillComplete`: by `BackfillInv`, under the condition that the page size and both limits hold all
  records of the provider, without which a page boundary may lose a market. A market listed when the job
  began is fetched by the first request or has closed when the second is made, and a closed market stays closed.
* `RowsLead`, `SeenOrdered`: by `LeadInv` and `OrderInv`, for jobs that do not overlap, as those of one
  scheduler do; `ingest_overlap` shows that the second is false of two. The listings a job
  fetched are no older than the tables', and each copy of a market no older than the one before.
* `IngestionImplementsLedger`, the refinement of `RunLedger`. `Status` and `Holds` name the mapping;
  `StartMaps`, `FinishMaps`, `StopMaps` and `WorkMaps` take each step of a job to the ledger's
  Begin, End, Lose or to no step of it. `TypeOK /\ LedgerInv` is needed again: only with it
  is the row that a job ends the one its own Begin appended.

**`RunLedgerProofs`**: `LedgerAccounted`, about the abstract ledger alone. `TradeStreamProofs`
instantiates it, so that what the ledger promises holds of the stream without a second proof.

**`TradeStreamProofs`**, any number of servers, commands, tokens and prints:

* `TypeCorrect`: inductive together with `DownIsOff`, that a server which is down has no task left, so
  that a start never replaces a task in its window.
* `StreamImplementsLedger`, and `StreamAccounted` from `RunLedgerProofs`.
* `CountedOnce`: by `CountInv`, as in ingestion; here the row of an open window holds no count yet
  (`SeenInv`) and no two windows share one, or the last UPDATE would erase a count.

**`AlertsProofs`**, any number of workers, markets and faults, any thresholds:

* `TypeCorrect` with `WorkInv`: a queue names rows of the table, each once, and a worker is
  about to mark only what the webhook took. That the queue, the newest rows first, names each
  once is about the choice by rank (`RankTaken`, `NewestFirstRows`).
* `RepeatsAccounted`: by `CountInv`. While a row is pending each of its posts is in the hands
  of a worker or was lost; and the posts of a row with the workers that still have it in their queue never exceed
  workers plus faults. The bound alone is not inductive: it says nothing of the posts to come.
* `AlertsImplementOutbox`, and `DeliveredWasPosted` from it and `WorkInv`.

**`VolumeAggregatesProofs`**, any bucket lengths that the assumption admits, any rebuilds: `Inv`
is inductive. `ReadInv` says that what a rebuild has read is still there and, as long as no row
came after it, complete from its cutoff on. `NoOvercount` then follows from `CountsGrow` (the
counts of a bucket grow with the rows), `ExactWindow` from `RebuildComplete` (a bucket that begins
at the cutoff or later is computed from all its snapshots and all its trades but those of the cutoff's second
with milliseconds), `FreeKeys` from `KeysFrom` (the
keys of what was read are among those the DELETE covers). `DeltasBound` is by `SpanInv` (open and close of a
row are volumes of two snapshots of its bucket, whichever rebuild wrote it) and a counterexample of least
bucket (`DeltasAddUp`): the deltas before a bucket add up to at most the growth until any
later snapshot. `WholeComplete` is the counterpart of the violation in `aggregates_truncated`: of a size without
`since_hours` (the default of the method, and how its test calls it) there is never a cutoff (`WholeInv`), so by
`ExactWindow` an undisturbed rebuild leaves all its buckets complete. It is the window that leaves them cut.

**`PaperTradingProofs`**, any number of scans and syncs: `TypeOK`, `ScanInv`, `ListInv` and
`PriceInv` are inductive together. `ScanInv` is what makes `OrdersMatch` true: between
its two transactions a scan holds the id of its own signal, which no order and no other scan
has. `PriceInv` says that an answer kept by a sync was true when it came and that a closed market stays closed;
from it follow `SettledWereDecided` and, with the step that places an order, `StatusFollows`. `NeverRepeats`
is from `ListInv` (`DedupedOnce`). `LimitTaken` and `OldestKeep` explain the violation in
`paper_starved`: a sync takes every waiting market when the limit covers them, so only more of them can starve; and
the oldest waiting markets keep their places whatever is ordered or settled besides, so as long
as none of them is decided nobody asks for the others.

**`WeatherScanProofs`**, any titles, forecasts, books and bankrolls: the arithmetic and the parser are
proved as lemmas about operators, then carried to the state machine by three invariants.

* `QuantizeNear` (a rounding moves a number by half a step at most), `KellyBounds`,
  `StakeBounds`, `BestPrice`, `OffersSound`, `SignalSound`, `QuantityGains`.
* `ParseVerdict` (what `Parse` returns, with which notes, and where each field of the spec comes from),
  `ConfidenceIs`, `TwoGuesses`.
* `ReadAsAsked`, without a hypothesis: for any number, date, unit and `Reach`. A question put the usual way makes a
  title of six words (`PlainTitle`), whose phrases are those of its words (`SpokenSays`). The first row of
  each table that has one of them is the row that was meant, although phrases of other rows are there too
  (`MetricRead`, `ComparatorRead`). The number is the first match because it stands before the date, and the one
  near a comparator if any is, because it stands beside it (`ThresholdRead`); and the only date is the one
  that was asked for (`DateRead`; without one the title is not parsed, `UndatedTitle`). `SpecIsRead`
  carries it to the states: the spec of a forecast is what the parser makes of the title at hand. In the word
  orders left out a number of the date can win, as `weather_number` shows.
* `ControlInv` is the place and the locals; `RowsInv` that every stored signal is
  sound for the bankroll of its command and every order a copy of its signal;
  `CountInv` that every market of the list is yet to come, at hand, or counted once.
* `StakesLimited`, `ReportCorrect`, `TypeCorrect` follow without a hypothesis. `OrdersGain` assumes
  `MinEdge >= 1`, an edge of a cent or more, as the default of PWMK_MIN_EDGE (0.08) and any sensible
  setting has: below it the rounding of the quantity may cost more than the edge gains. `OneGuess` assumes
  `MinConfidence >= 70`, the default of `--min-confidence`: below it a title with two guesses is let through.
* `ScanImplementsPaper`: the scan in full is a scan of `PaperTrading`. The invariant it needs is
  `PlaceInv`: the list holds each market once and none that was taken up, the market at hand has no signal
  yet, and a signal is of a market that was taken up. From it come that the deduplicated list is
  `PaperTrading`'s set without the second listing of a market (`DedupeFirsts`, `PairsDeduped`), that taking a
  title up is not yet seen while letting go of it is (`TitleIs`), and that the signals stay fewer
  than the markets with a conditionId (`SignalsFew`), the bound `MaxSignals` of the abstract scan. `MapNext`
  has one case per action.
* `ScanKeepsPromises` draws the conclusion: with `PaperTradingProofs` instantiated by the same mapping, and
  its assumptions proved of the constants it gets (`PromiseAssumptions`), `OrdersMatch` and
  `NeverRepeats` hold of the scan in full without a second proof.

Every invariant and action property that a passing run checks is stated by a theorem, and so are the four
refinements. Only model-checked are the liveness properties, fairness and ENABLED being out of TLAPS's
reach: `EveryRunEnds`, `DecidedGetsSettled`, `PendingGetsHandled`, `WindowsEnd`, `StreamReturns` and
`StopReturns`.

## 6. Disagreements found

Five runs end in a violation that shows where code and documentation differ: `last_seen_at`
may precede `first_seen_at` (`ingest_overlap`); undecided markets starve the settlement sync
(`paper_starved`); an outage of the provider is never warned about, since the stale check waits for a poll to
succeed (`alerts_outage`); an hour or a day that ages out of the window keeps only its tail
(`aggregates_truncated`); a number of the date
is taken for the one a title asks about (`weather_number`). The entries under "findings" in
`PROJECT.json` quote the lines. Without a run: `serve --stream` alone
streams nothing, since `IngestionScheduler.start` returns unless the scheduler is enabled too
(`ServerStarts`), while the flag's help text, `cli/main.py:53`, says "Run the CLOB stream inside the
API process". More things a reader should know, which no document denies: a rebuild's window leaves out the
trades of the cutoff's own second (`TradesFrom`), so an hour or a day that begins exactly at a cutoff lacks them;
`max_market_usd` bounds one order, not the orders that repeated scans place on a market; a connection that times out
ends its window as ok (`ConnectTimesOut`); an "overnight low ... below 40" is read as above 40, since "overnight" contains "over", and a title
with an impossible date raises ValueError, which ends the command with the markets that are left.

## 7. What is left out

* Ingestion: token, outcome and data-quality rows, which are written with the market row by
  the same transaction; the event's display flags; the contents of live volume.
* Paper trading: the queries `signals`, `settlements` and `calibration`; the market, spec, forecast
  and book rows of a scan (no command reads them back; the bundles are those of `Ingestion`); the
  list of examples that an audit prints; the skip `normalize_failed`, which no market reaches that
  has a conditionId; the URLs and payload shapes of the collectors.
* Titles: how characters match, the table of places, and ordinals in numbers other than a date's.
* Arithmetic: the 28 digits of Decimal, which are taken for exact.
* Alerts: `volume_momentum`'s LIMIT of 100 markets; messages.
* Aggregates: NULL volumes, the last-value columns, notional (each trade counts one).
* Trade stream: messages that are no trades, the heartbeat, the length of the restart delay. A print
  stands for its trade key, so two fills with equal fields and no transaction hash are one.
* Scheduler: the poll loop's task (its jobs are those of `Ingestion`, which may be stopped at any
  step), `status`.
* Not to be modelled: the read API, dashboard and exports (queries that change nothing),
  settings, types and the dispatch of commands, and `db/sqlite.py`, which nothing imports.
