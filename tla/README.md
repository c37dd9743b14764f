# TLA+ models of orderbookC20

A verification project for the limit order book and the live paper trader of this
repository. `X.tla` models component X, `MCX.tla` and the `.cfg` files make it small
enough for TLC, and the `...Proofs.tla` hold theorems that TLAPS checks for every value of
the constants, on the lemmas of `ArithmeticLemmas`. Run `tlc -config MCOrderBook.cfg MCOrderBook` and
`tlapm OrderBookProofs.tla` in this directory; `PROJECT.json` lists the runs, the lines each definition models, the
hazards and the findings. Operators whose comment begins "Mutant of" are never used by
a specification: each is a plausible mistake in the code, kept to show that a property
notices it.

## 1. The system

```
 feed thread --MarketEvent--> SPSCQueue --> engine thread (TradingEngine::run)
   (per symbol)                               |  observe_equity   RiskManager
                                              |  cancel / submit  OrderBook
                                              |  on_tick          MeanReversion
                                              |  gate, IOC submit
                                              +-- on_fill --> LatencyHistogram, TelemetryPublisher
 main thread: start all | every 2 s position()/equity_at() --> TelemetryPublisher | stop all
 publisher thread: deque --> FileSink, WsSink --> browser dashboard (web/app.js)
```

| Component | State | Operations | What makes it correct |
|---|---|---|---|
| OrderBook (`order_book.cpp`, `order_book.hpp`, `price_level.hpp`, `pool_allocator.hpp`) | slot pool with free list, two sorted vectors of levels, an intrusive list per level, id index | `submit` (limit, market, IOC, FOK), `cancel`, the `on_trade` callback | never crossed; price-time priority; fill-or-kill all or nothing; lists, vectors, index and pool agree |
| SPSCQueue (`spsc_queue.hpp`) | `head_`, `tail_`, a cached copy of each, slots | `try_push`, `try_pop` | no slot read while written; first in, first out across the wrap of `size_t`; nothing stays inside for ever |
| TelemetryPublisher (`telemetry.hpp`) | `running_`, `queue_`, mutex, condition variable, worker, sinks | `publish`, `start`, `stop` | every record written once and in order, by one thread at a time; `stop` delivers and returns |
| TradingEngine (`trading_engine.cpp`) | own OrderBook, live flags, cached quotes, `pos_` | `run`, `refresh_quotes`, `apply_action`, `position`, `equity_at` | flags match the book; account exact; limits kept |
| RiskManager (`risk.hpp`) | config, peak equity, halt | `observe_equity`, `gate` | limits hold under any history; nothing cut needlessly; halt exactly on drawdown |
| MeanReversion (`strategy.hpp`, `trading_engine.cpp`) | window, running sum, counter | `on_tick` | answers are those of the tick history |
| Feeds (`feed.cpp`) | `running_`, thread, a tick in hand; a stream's callback thread | `start`, `stop`, push with retry | ticks neither lost, doubled nor reordered while running; `stop` ends a retry and the callback |
| live_trade (`live_trade.cpp`) | `g_stop`, the pipelines | start, status loop, shutdown | every thread ends before what it uses is gone; each fill is reported; a status record adds up |
| LatencyHistogram (`latency_hist.hpp`) | 64 buckets, count, sum, min, max | `reset`, `add`, `percentile_ns` | accumulators exact; a percentile is the bucket edge of a sample of nearest rank |
| WsSink (`telemetry_ws.cpp`) | `listening_`, an external server | constructor, `write_line`, destructor | a client that is connected gets every record from then on |
| Dashboard (`web/app.js`) | `state`, panels, snapshot, socket | record handlers, save, restore, replay, reconnect | state and panels agree with the records shown; a refresh loses at most a second; it connects again; a replay is complete |

The hard behaviours are the two lock-free counters with cached copies; a condition
variable whose predicate has an atomic that the mutex does not guard; plain fields
read by another thread; linked lists with three owners; a book kept in step with flags;
truncating arithmetic with signs; the order in which threads are stopped, one of them
joining a callback that may be waiting; and a page that is rebuilt from an old snapshot
while its connection comes and goes.

## 2. Modules

**OrderBook** keeps the slots, links, vectors and index literally. `submit()` is cut
where the caller can look in: `Submit` admits the taker (or returns), `Match` is one
fill up to its callback, `Finish` rests or discards the remainder. `Cancel` is one
step. The FOK look-ahead is a sum of level totals as in the code, and totals are taken
modulo the width of `Quantity`. Timestamps are echoed only and left out.
`AllowDuplicateIds` says whether clients may submit the id of a resting order.

**PriceTimeBook** is what such a book promises, with a queue per side and price and
nothing else. **OrderBookRefinement** maps each linked list to its queue.

**SPSCQueue** cuts both operations at their shared accesses. A load of the other side's
counter may return any value that counter has had since the last load (`Loads`): more
than an acquire load can do, so what holds here holds in C++. **BoundedFifo** is the promise: a queue whose
sides learn late of each other's progress, `freed` and `fresh` being what they have not seen.

**TelemetryPublisher** holds the mutex across steps only where the worker found its
predicate false and is about to block: everywhere else a critical section is one step.
**RecordLog** is the promise to readers of the log.

**RiskManager** has the gate as operators and the halt as state, and no `Next`:
**GuardedAccount** drives it with any equities, actions, prices and partial fills, and
**TradingEngine** uses it inside the engine.

**TradingEngine** is `run()` with a program counter. Its book is PriceTimeBook, which the detailed book is shown to implement:
every `book_.submit` is `Submit`, then the book's own steps, then the engine reads the
answer. The strategy may answer anything, so what is shown does not rest on
MeanReversion; no risk manager is one with all limits zero. **PaperAccount** is the
account seen from outside: one trade a tick, at a shown price, within the shown
quantity, booked exactly.

**MeanReversion** is `on_tick`; the comparison of doubles is multiplied out. `seen` is the
ghost of all ticks and answers.

**Pipeline** composes feeds, queues (bounded FIFOs), engines and `main()`. All feeds of a
run are of one kind: a thread that polls (`BinanceFeed`, `SyntheticFeed`), or a stream
(`WebSocketBinanceFeed`) with a callback thread that pushes, whatever `running_` was when
the message came, and a `run()` that waits for `stop()` and then for the callback. Of a
position it keeps how many fills each field includes, since the fields are read without
synchronisation; `told` counts the fills that `on_fill` has put into the histogram and
handed to `publish()`. Two pipelines for one symbol are two members of `Symbols`. A failed push or pop is a turn of its loop.

**LatencyHistogram** has the code's buckets and accumulators over words of `kBuckets`
bits (`Pow2` is the code's shift), and a ghost that counts the samples. A percentile is a fraction; where `p * count`
is an exact half, the double may fall on either side, and the property allows both.

**DashboardView** is the page's seven-field `state`, four panels and the record handlers,
as operators from page to page, and what a page should hold computed from records alone.
A record is its id: two panels show the same iff they show the same ids. **Dashboard** runs it: a trader with its WsSink, a connection, the
session storage and a clock in live mode; a file and `runLoop` in replay mode. `shown` is
the history the state is meant to summarise, restored and wiped together with it.

## 3. What is model-checked

| Run | Bounds | Shows |
|---|---|---|
| `book` | 4 slots, 1 id, 3 prices, quantities 1..2, totals modulo 4 | uncrossed; lists, pool and index sound; FOK all or nothing, and killed only when short; in every state, callbacks, reused ids and wrapped totals included |
| `price_time` | 3 slots, 3 ids (symmetric), 3 prices, quantities 0..2 | unique ids: sorted, exact index, and the book implements PriceTimeBook |
| `ring` | capacity 4, counters modulo 8, 2 values | types, counters in order, no race, refinement, every push is popped |
| `telemetry` | 2 producers, 2 records each, 2 starts | one writer, delivery by stop, liveness of delivery, refinement |
| `stop_returns` | as above | finding 1 |
| `risk` | 5 limit configs, 3 equities observed, position up to 6 | the gate's limits, both ways, and the halt |
| `engine` | 6 kinds of tick, 3 prices, 4 limit configs, 3 fills | flags, limits, money, and the account refinement |
| `strategy` | window 3, cool-down 2, 9 mids of 3 values, empty ticks | the answers are those of the history, at the thresholds too |
| `pipeline` | 2 symbols, queue of 1, 2 and 1 ticks, either kind of feed | order of ticks, every fill reported, shutdown, liveness |
| `status_adds_up` | 1 symbol, 3 ticks | finding 2 |
| `dashboard` | 2 symbols; live: 3 records, the first meta among them, 2 starts, 1 broken connection, 4 instants, snapshots 2 apart; replay: files of 3 lines of 8 kinds | state and panels consistent, little lost by a reload, reconnection, complete replay |
| `latency` | 4-bit samples, up to 5 of them, 10 fractions | accumulators and percentiles |

*Why the bounds are enough.* Three orders at one price are needed to unlink from the
middle, one more to trade with them: four slots. Three prices give a level between
two others. The index has an entry per id and no operation looks at two entries, so one
id that is always reused reaches what reused ids can do (an entry that is missing, old or
of another order), and its orders may still be cancelled, one at a time; the third and
fourth order get lost in the index on purpose. Unique ids need as many ids as orders:
that is `price_time`. Two orders of two units wrap a total modulo 4.
Modulo 8 with four slots wraps the counters twice round the ring. Two
producers and two starts are needed to mix batches with a drain and a restart. A full
queue needs one slot and a second tick; a second symbol is needed for one engine to
publish while another is stopped. Six kinds of tick are the two-sided (two of them), locked,
crossed, one-sided and one without quantity on a side. A price buffer of one overflows live and in
replay; fills and latencies, of two, show their order live and overflow with the three
records of a file; the theorems hold for every size; a snapshot, records after it and
a reload need two saves, and a trader that comes back needs two starts. Five samples
among sixteen values put several into one bucket and leave others empty, and 0 and 15
are the values `max_` and `min_` start from. The mids 9, 10, 11 have windows in which the last is
exactly 1000 bps above or below the mean. `MaxFills`, `MaxTicks`,
`MaxRecords`, `MaxStarts`, `MaxFaults`, `MaxTime`, `MaxLines`, `MaxSamples`,
`MaxObservations` and `MaxTraded` cut behaviours only; they
are guards of the environment's actions, and `MaxFills` of the strategy's.

*Deadlock.* It is checked where the system cannot stop (book, ring, risk, engine,
histogram). Telemetry, pipeline, strategy and page may end: the program was stopped, the
replay is complete, or the bound is reached.

*Fairness.* The consumer
polls for ever, and a store does not stay invisible for ever: `SF` of the load that
sees something new, as C++ asks that atomic stores become visible in a finite time.
Publisher threads that can run do (`WF` of the worker, of `stop` once begun, of a
`notify` after its push); no spurious wakeup is assumed, and nobody has to publish or
stop. In the pipeline each thread runs (`WF`), but no feed has to make a tick, nobody has
to stop the program, and the publisher's `stop()` need not return (finding 1):
`ShutdownCompletes` ends where `main()` calls it. In the browser a connection to a
server that listens opens, the end of a closed one is reported, and timers fire; the
trader need not start and nobody has to reload.

*Reading two of them.* `NothingTakenForNothing` counts the notional exactly: the gate
truncates when it tests the limit, so it may allow slightly more, never less, than
the exact limit. `ImplementsPriceTime` does not tell a killed FOK order from
an ignored one, as both return true; `FokKilledOnlyWhenShort` does.

## 4. What is proved

`OrderBookProofs` proves for every capacity, id set, price set and quantity width: types,
uncrossed book, sorted vectors, exact index (ids unique), live index (any ids) and intact
lists. None of these is inductive alone. An index
entry is safe only if links and levels are, since a maker is found through its level and erased through its id; so
`IInv` has the types, the free list without repetition, the list structure (neighbours
point at each other inside one level, a level's ends have no neighbour, every resting
order has a level, and a rank rises along `next`, so there is no cycle), the sorted
vectors, the index and the uncrossed book together. That nothing crosses after
`Finish` follows from the failed loop condition at the best level and sortedness. Its
lemmas say what sorted vectors do under search, insertion and erasure, and what sums over
finite sets are. `SumFunctionOnSet` is a fold, and no induction theorem can be applied to
it; its recursion equation is proved instead (in `ArithmeticLemmas`) by way of functions that add a set up element
by element, and wherever an induction would do, a smallest number or smallest set that
fails is shown not to exist.

`OrderBookRefinementProofs` goes on in three parts.

- *Lists and pool.* `ChainFrom` walks `next` for at most `Capacity` steps. From `IInv` the
  walk from a level's head stays in the level, never meets a slot twice (the rank rises), so it ends (there
  are `Capacity` slots), and reaches every order of the level (the first it missed, by rank, has
  a predecessor it reached). Hence `SlotsPartitioned`, without a further invariant.
- *Totals.* `TInv` adds to `IInv` that every level's total is the sum over its
  orders modulo the width, that only limit orders with something left rest, and
  `FokPromise`: run again in the middle of matching, with what is left of the taker, the scan would still
  let it in. The last is what makes `FokAllOrNothing` inductive: a fill takes the same
  from the taker and from the best total, and a level is erased only when its total is the
  last maker's. No assumption on quantities is needed: where totals wrapped, the scan
  promises too little. `LevelsWellFormed` and `FokKilledOnlyWhenShort` follow from `TInv`.
- *Refinement.* `Implements`: the book implements PriceTimeBook, under the two hypotheses
  the abstract book needs. One is that clients keep ids unique (`~AllowDuplicateIds`), as
  `Cancel` of an abstract queue names an order by its id. The other is `TotalsFit`:
  `Capacity` orders of the largest quantity fit the width of `Quantity`, as a
  wrapped total kills orders that PriceTimeBook fills. In the code that is 2^64 units over
  the slots of the pool; the run `price_time` has 3 slots of 2 units under 8. `RInv` adds
  to `TInv` that no order is larger than what was submitted, so that the sums fit, and
  `ListsAt`: each walk is *the* sequence of its level's orders that `prev` leads back
  through. There is only one (`ListUnique`), so what a step does to a queue follows from
  what it does to `prev` and to the set of resting orders: an unlinked order leaves its
  place, an appended one comes last, all else stays. The rest is one lemma for each
  action (`SubmitMaps` to `HitMaps`), and that `Room`, `Unknown`, `Available` and the
  best price mean the free list, the index, the scan and the last level.

`SPSCQueueProofs` proves, for every capacity that divides the modulus of the counters,
types, the counters' order through every wrap, absence of the race, and
the refinement of BoundedFifo. Its `IInv` adds to these what each side may
rely on at its place: room at "write", something stored at "read", the value in the
slot already the pushed one at "publish". The refinement needs it because the slot
the producer overwrites must lie outside the content.

`PipelineProofs` proves, for any number of pipelines, any capacity, any numbers of ticks
and either kind of feed, that ticks stay in order, that every thread has ended when the
publisher stops, and that every fill has been reported by then. Its `IInv` says where
everybody can be: what place of `main()` leaves which thread unborn or ended, that
`run()` of a stream ends after its callback, that the queue goes on where the engine is
and ends where the tick in the feed's hand begins, and that the fills told lag behind
the fills exactly at the engine's places inside a fill. An engine that is "done" has
told all of them, and `main()` past its joins has only such engines: neither half
suffices without the other.

`TelemetryProofs` proves, for any producers and any numbers of records and restarts,
that the sinks have one writer at a time, that a `stop()` that returns has written and
flushed what was published before it began, and that the publisher implements RecordLog.
Its `IInv` says which places of `stop()` and values of `running_` allow a worker at all,
that a thread that is not writing holds no batch, and that every published record is in
the log, in a batch or in the queue. The log's pending records are the worker's batch,
then that of `stop()`, then the queue: since never both batches are in use, a swap and a
drain move nothing in this sequence, and a write takes its head.

`TradingProofs` proves the gate and the halt, then the engine. For every configuration,
quantity, position and price, any part of what the gate allows keeps the position limit,
and keeps the notional limit or shrinks the position; and the gate allows every quantity
that keeps both. The halt speaks of all pairs of equities while the code keeps one number:
`GuardedInv` says that this number is the greatest so far, the zero at the start included,
so a new drop below any earlier equity is one below the peak.

Of the engine, for every configuration, any ticks and any strategy: flags
match the book, the position limit, the conditions of every fill, that a fill makes no
money (but a unit of truncation), and that the engine implements PaperAccount. Its `IInv` knows the book at each
place of `run()`: a side is empty or holds its quote alone, as the flag says; a quote under
way finds nobody, because the other one rests only if bid is below ask; a taker trades
once, after which it is filled or the quote is gone. It knows that the flags are down
after the cancels, that quotes are those of the tick in hand, and that any part of the
action that passed the gate is within the limits, on an equity that is. That last one
must be carried from the gate to the fill, several calls later, which may fill a part
only. `FillsMakeNoMoney` then takes that the mid lies between the quotes and that two
truncations towards zero gain at most one unit, whatever the signs.

`HistoryProofs` proves of three components that what they keep is a summary of all they
were told: nobody can see that the history was thrown away.

- *Strategy.* `AnswersFollowHistory` says of each answer, the latest and all before, that
  window and counter gave what the whole history gives. `StrategyInv` adds what makes the
  next one right: the window is the last mids seen, the running sum is their sum, and the
  counter is `Waited`, the number of ticks with a full window since the last action, which
  the history alone determines. `SignalOpposes` shows that the code's test of the deviation is a
  comparison of the mid with the two thresholds, in which `Reference` is written. The sum slides because the stretch of `Window` mids loses its
  first and gains one: two facts about sums over intervals.
- *Histogram.* `HistogramInv` says that each bucket counts the samples of its band, and that
  `sum_` is the weighted sum modulo the word. The bands divide the words, because the powers of two
  rise strictly (proved from the equation of `Pow2`: a smallest exponent where it fails
  does not exist), so the running sum over buckets `0..b` is the number of samples below the
  edge of `b + 1`; the bucket where it reaches the rank is then that of the sample of this rank. That
  the code's rounding is nearest follows from the quotient's bounds.
- *Page.* `HistoryInv` says how far the snapshot is behind what was shown (the last saved
  record came at `lastSave`, the others less than `SaveInterval` later), and that the
  replay has shown its sorted file up to its place. That `Sorted` has a value at all, and
  that it holds every line once, is proved too. `StateInv` says that page and stored
  snapshot, if there is one, are both `Good`: symbols, index and buffers are those of the
  records. It is inductive only with both halves, because a reload puts the stored state in
  place of the shown one, and only beside `HistoryInv`, which has the types. `Fits` adds the panels; each handler has a
  lemma that takes a page that fits a history to one that fits it with the record appended, and a
  restored page gets its panels from `rebuildFromState`. The reference definitions
  (`IdsAt`, `Joined`, `Named`) and `handleMeta` are recursive functions local to their operators, so that
  what they return on one more record is an equation; an existence lemma by smallest counterexample (`Recursion`)
  shows that they satisfy theirs.

Assumptions are those named `...Assumption` in the modules; TLC evaluates them in each run.
Every invariant that a run checks is a theorem, and so are the action properties and
refinements. What is only model-checked is liveness, which these provers cannot treat:
`EveryPushIsPopped`, `RecordsReachSinks`, `EveryTickHandled`, `ShutdownCompletes` and
`Reconnects`. The theorems about the engine rest on PriceTimeBook;
`Implements` ties that to the detailed book: the engine cancels a quote before it submits
its id again and draws the ids of takers from a counter, so that no resting id is reused.

## 5. Findings

1. `stop()` of the publisher changes `running_` and notifies without the mutex. If both
   fall between the worker's look at the predicate and its wait, the wakeup is lost and
   `join()` waits for ever, unless a publish or a spurious wakeup comes. (`stop_returns`)
2. The status loop reads the plain fields of the position, twice, while the engine
   writes them: cash, position and equity of one record need not belong together.
   (`status_adds_up`)

Seen on the way, without a run of its own:

- When the price has moved against a position that is above the notional limit, the gate
  lets a reducing action pass although what it leaves is still above; `LimitsHold` states
  this exactly. And `observe_equity` sees ticks that `refresh_quotes` skips: one zero or
  crossed price can end trading for good.
- `publish()` queues the record when the publisher is not running, where its comment
  (`telemetry.hpp:150`) calls it a cheap no-op.
- With a level total that wrapped, a fill-or-kill order that could be filled is killed;
  it takes 2^64 units at one price. `FokKilledOnlyWhenShort` excepts just this.
- `latency_hist.hpp:96` says "Use ceil"; the code rounds to the nearest rank, so that
  p = 0.25 of five samples is the first, not the second.
- `strategy.hpp:33` says that the strategy acts when the mid deviates "by more than
  `entry_bps`"; the code (`trading_engine.cpp:26,30`) acts at exactly `entry_bps` too. With
  window 3 and 1000 bps, the mids 9, 10, 11 (mean 10) are a sell. `AnswersFollowHistory`
  states what the code does, from a definition of its own (`Opposing`).
- `web/README.md:113` says that the latency histogram is "bucketed over all fills in
  session"; the page keeps the last `MAX_LAT_SAMPLES` (1000, `app.js:281`), and the labels and
  the histogram show these. `StateFollowsRecords` states the cap.
- The percentiles are monotonic among themselves, but not with the exact extremes, as
  `test_latency_hist.cpp:130` has it: a single sample of 1500 has minimum 1500 and
  median 1024.
- A page that is reloaded misses the records since the last snapshot, as no save follows
  the last record (`app.js:36` says that a refresh restores the session); if `Date.now()`
  goes back, no snapshot is taken until it has caught up. `SnapshotAlmostCurrent` bounds
  the loss while the clock runs forward. A page that connects after the trader started
  gets no meta record at all.
- The "clean slate" of `?loop=1` (`app.js:486`) leaves the latency figures and chart of
  the round before, until the first fill; `Wipe` models it.

## 6. Not modelled

Re-entrant `on_trade` callbacks; signed 64-bit overflow in risk and account; JSON,
HTTP, WebSocket and command-line parsing, price and quantity conversion; the random
walk of SyntheticFeed; several clients of a WsSink, each of which is served like the one
modelled; the doubles of MeanReversion near a threshold, of a percentile beyond
2^53 samples and of a replayed `ts_ns` (JSON.parse keeps its leading 53 bits, and records that
then have the same number stay in file order); `mean_ns`; a page without Chart.js, an invalid `?ws=` address, colours,
formatting and chart options; the exits of `main()` before its threads start;
benchmarks, `main.cpp`, build files. Pipeline has its own abstraction of the queue and
of the publisher: the whole program with the detailed modules in place of these would
be beyond TLC, which is why each of them is checked against its promise instead.

## 7. Plan

Done, in this order: book and its abstract specification, ring, telemetry (the parts everything
rests on), then risk, engine, strategy, the pipeline that joins them with streams and
polling feeds, the latency histogram, and the dashboard with its WsSink. The theorems of
the plan are proved: every invariant of every module that a run checks, and the four
refinements. What remains is what stays with TLC: the five liveness properties.
