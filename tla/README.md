# Verification of the algorithmic trading platform

TLA+ models of the parts of this platform that have to be right about money,
about stopping, and about what an operator is told. TLC checks them on small
instances; TLAPS proves the results of section 5 for every value of the
constants.

Paths: `core` is `src/libs/core/src/atp_core`, `worker` is
`src/apps/worker/src/atp_worker`, `api` is `src/apps/api/src/atp_api`, `web` is
`src/apps/web/src`.

## 1. The system

A **worker** process runs one strategy. Its supervisor (`worker/main.py`) starts
a data stream, the strategy runner, a consumer of the venue's trade updates and
a scheduler, as tasks of one event loop; if any of them ends, trading halts and
the process exits to be restarted. An **API** process serves the operators' web
client, and can halt, resume, cancel, close and flatten. A **queue worker** runs
backtests. Redis holds halts, announcements and the job queue, Postgres holds
orders, books, fees, bars, configurations and backtest runs, and the **venue**
(Alpaca) is the truth about what was executed.

| Component | State | Operations | Interacts with | Hard behaviour | What makes it correct |
|---|---|---|---|---|---|
| Kill switch, `core/risk/killswitch.py` | one record per halt key in Redis | `engage` (SET NX, else GET, merge, compare-and-set, three rounds), `clear`, `active_halts` | every process | races on a key, lost replies, a clear between two rounds | a halt somebody was told of stands with all its evidence until cleared |
| Session rollover, `worker/scheduler.py` | none | reads the halts, clears yesterday's daily-loss halts | kill switch | reads and clears are separate commands | releases only what it judged |
| Order state, `core/execution/state.py`, `trade_updates.py` | an order's status and fills | `transition`, `apply_trade_update` | runner, store | duplicates, events out of order | each execution counts once |
| Trade updates, catch-up, reconciliation, `worker/trading.py`, `core/execution/recovery.py`, `reconciliation.py` | the socket, a queue, a REST reading | deliver, recover, compare, re-read, halt | runner, venue, kill switch | gaps are not replayed, readings overlap the stream | the book equals what the venue executed, or trading halts |
| Fee settlement, `core/execution/fees.py` | ledger of charges, `fees_settled` | read feed, record, correct cash | reconciliation | several settlers, crashes, a lookback window | each charge is taken once |
| Order router, `core/execution/router.py` | protective stops, covered ranges | submit, close, place, release, await, re-arm, adopt | runner, risk chain, venue | a working stop reserves the shares a close needs; cancels race fills; others cancel too | no share is left without a stop unknowingly, as far as the code can know it |
| Risk chain and sizing, `core/risk/engine.py`, `rules.py`, `limits.py` | rate window, session anchor, refusals | `validate`, `anchor_session`, `position_size` | router, runner | orders in flight together, submissions without an answer, restarts | no outcome of approved orders exceeds a ceiling; exits get through |
| Market data, `core/data/stream.py`, `gaps.py`, `backfill.py`, `providers/alpaca.py` | bars, last-seen times, retry state | connect, ingest, backfill, watch, sweep | runner, kill switch | reconnects, silent feeds, restarts in silence | silence halts, holes are known |
| Scheduler, calendar, runner's day, `worker/scheduler.py`, `core/clock.py`, `worker/runner.py` | due times, decision session, held bar | jobs, warmup, evaluate, stamp | bars, venue | late jobs, restarts, a session's unfinished bar | no lookahead, one order per decision, nothing missed silently |
| Backtest queue, `core/persistence/jobs.py`, `backtests.py`, `worker/queue.py`, `tasks.py` | job rows, arq queue | validate, create, enqueue, claim, finish, cancel, sweep | API, queue worker | two stores, deadlines, crashes | a run ends in one final state |
| Backtest engine, `core/backtest/engine.py` and its helpers | portfolio, orders, levels | one bar; one signal | strategy, risk chain | fills and levels of one bar | books balance, no fill uses the future |
| Simulated broker, `core/brokers/simulated.py` | cash, positions, orders by client id | submit, meet a bar, expire | paper trading | re-sent orders, partial fills | paper fills what the backtest fills |
| Strategies and indicators, `core/strategy/rules.py`, `core/indicators` | counters of bars since entry and exit | `on_bar` | engine, runner | warmup boundaries; fills it never sees | rules are decided; counters follow the book |
| Analytics, `core/analytics/performance.py` | none | `build_trades` | results | two fills of one bar | trades account for the book |
| Configuration and operator controls, `api/routers/worker.py`, `risk.py`, `orders.py`, `worker/main.py`, `scripts/halt.py` | configuration row, worker status | save, arm, start, die, halt, resume, cancel, close, flatten | everything | two operators, restarts, partial failures, three books (venue, worker, stored) | the screen is true; death halts; flat stays flat |
| Live view, `api/ws.py`, `routers/dashboard.py`, `web/hooks/useLiveDashboard.ts` | subscriptions, sockets, one read | announce, fan out, invalidate, read | kill switch, worker | pub/sub without replay, half-open sockets | a halt comes to be shown; nothing unsaved is |
| Sessions and step-up, `api/auth.py`, `stepup.py`, `ratelimit.py` | sessions, attempts | login, step-up | API | expiry | only a proved operator releases |
| Scripts, metrics, logging, alerts | none the platform decides on | | | | |

What can go wrong in each, line by line, is the `hazards` list of
`PROJECT.json`.

## 2. Modules

| Module | Models | Reads as |
|---|---|---|
| `HaltLatch` | what the kill switch promises | abstract specification: halted, unproven symbols, acknowledged symbols |
| `KillSwitch` | `RedisKillSwitch`, its callers, operators, the rollover | one action per Redis command; a reply may be lost after the command took effect |
| `OrderState` | transition table, folding updates into an order, storing and loading it | operators only |
| `OrderSync`, `OrderSyncProofs` | stream, gaps, catch-up, fill handler and its writes, warmup, reconcile, crashes | extends `OrderState`; one action per await |
| `FeeSettlement` | `settle_broker_fees`, the ledger, the stored book | one action per await |
| `Protection`, `ProtectionProofs` | the router's stops and closes, the runner's record of missing stops, its page, a restart | one action per request to the venue |
| `RiskChain`, `RiskChainProofs` | `validate` and every rule, sizing, the anchor of the loss limit | one action per decision, venue event or restart |
| `MarketFeed`, `MarketFeedProofs` | reconnect loop, ingestor, gap backfill, staleness monitor, nightly sweep | a clock of ticks, `Step` to a bar |
| `TradingDay`, `TradingDayProofs` | calendar, schedule, jobs that touch bars, the runner's loop | an instant is a day and a slot |
| `BacktestQueue` | request, row, job, task, sweep | one action per statement or queue call |
| `ControlPlane` | configuration, start and death of the worker, operators' requests | one action per request, the read and the save of the row apart |
| `LiveView` | publishers, bridge, socket, browser | one action per message or read |
| `BacktestEngine` | one bar of the engine: levels, stops, pending fills; signals; costs; positions; round trips | one action per bar or signal |
| `SimulatedBroker` | the paper venue | operators over `venue`; extends `BacktestEngine` |
| `PaperRun` | engine and simulated broker in lockstep | composition: `PaperBar`, `PaperSignal` |
| `RuleStrategy` | rule sets: trees, warmup, counters, indicators | recursive operators over trees |
| `StrategyRun` | a paper run whose signals a rule set or an open strategy sends | composition: `RunBar`, `OpenSignal`, `RuleSignal` |
| `OperationsProofs` | | proofs about `KillSwitch`, `FeeSettlement`, `ControlPlane` and `LiveView` |
| `BacktestProofs` | | proofs about `BacktestQueue`, `BacktestEngine` and `PaperRun` |
| `FoldTheorems` | | lemmas about the library's sums over sets and folds over sequences |
| `MC*` | | values of the constants for TLC |

Definitions called a fault in their comment are wrong on purpose. Nothing uses
them: each stands for a plausible bug of the definition after it, and shows that
the property it is paired with in `PROJECT.json` would notice.

### KillSwitch

`store[k]` is the record at key `k`. An engager goes through `SET NX`, `GET`,
and a compare-and-set of the merged record, for `MaxAttempts` rounds, and then
raises. `raw[e]` is what its `GET` returned; two encodings written at different
times never have the same bytes, so the compare-and-set succeeds exactly when
nobody wrote the key since, which `fresh` records. `owed` and `told` are
auxiliary: what callers have been told stands. A lost reply applies the command
and fails the caller. `clear` deletes the key at any time. The rollover reads
all halts in one step and clears the ones it judged in later ones.

### OrderState and OrderSync

An order is a status and a sequence of fills with ids; a fill is one unit or
the remainder a catch-up reconstructs. `venue[o]` is the truth, `mem[o]` the
runner's object, `disk[o]` the stored row, `book[o]` what the portfolio holds of
it, `diskBook` the stored book. The lock is held by a fill handler across its
writes (completed order, then all orders, then the book). Reading the venue,
loading rows and reconciling take place outside it, as in the code, and every
one of these is a step of its own. A crash loses everything but `venue`, `disk`
and `diskBook`. A responsibility that ends (`Die`) halts and takes the process
down.

The environment is spared nothing: the venue executes, the stream drops and
sessions open at any time. `Overlap` names the one thing that goes wrong then: a
REST reading takes in units of an order that are on their way to the book by
another road (on the stream, in another catch-up, or booked since the order
object was loaded), or warmup installs a row over an order that has other fills.
The code does book executions twice after that (section 6). `overlapped`
remembers that it has happened, and the safety properties promise nothing from
then on.

### FeeSettlement

`Total` is an arbitrary monotone function on sets of charges, so amounts are
not fixed. Settlers read the feed (charges within the window), record and are
told the ledger's total, then correct the book; the book is stored by a
separate step. `Adopt`, the operator's script that takes over the venue's book,
is only in `AdoptingSpec`.

### Protection

One symbol, long. `venue` holds our orders as the venue has them: a working sell
reserves shares, and one that asks for more than is free is refused as *held*.
`protective`, `covered` and `cover` are the router's, `tracked`, `unprotected`,
`asking` and `paged` the runner's `_open_orders`, `_unprotected`,
`_unprotected_entries` and `_alerted_unprotected`. `closing` says which request
of an operation under the lock is next: the venue may fill or cancel anything
between two of them. The key of a stop is the parent, the range it covers and
how often that cover was released, as in `protective_client_order_id`. `Restart`
forgets what the process kept in memory and adopts the stops among the stored
orders; `forgotten` says that a gap was forgotten with it. When the fill of an
order that is not tracked is dropped, `missed` is set and the runner decides
nothing further: putting the book right is reconciliation's part.
`CancelledByOthers` is the cancel of a working stop or close that is not ours
(an operator's `DELETE /orders/{id}` or cancel-all, or the venue's own); `taken`
remembers one as long as the position lasts.

### RiskChain

Every entry, exit and flatten goes through `Validate`, which is the chain of
rules in its order and returns the name of the first that refuses. The rules
read three books, as `RiskBooks` does: settled, committed (entries in flight
filled), and the quantities the orders in flight can still produce. A submission
without an answer counts as in flight. The session anchor of the daily loss
limit is stored once a day, and read back after a restart. Prices and limits are
small integers and percentages.

### MarketFeed

`feed` is the retry state of the stream generator, `stats` what the ingestor
remembers, `repair` the window a reconnect asks for. A bar of a slot is due some
time after the slot has ended. `good`, `origin`, `trouble` and `known` are
history: when data last arrived for any process, from when on this process
answers for the history, since when no connection has held, and which bars the
code has said it gave up on.

### TradingDay

The slots of a day stand for the instants the schedule names. The vendor serves
a session's bar from the open on, so a bar stored during the session is of a
session in progress. The scheduler's jobs run one at a time, in the order that
breaks a tie; a delay (`Tick` while something is due), a failed job or pass, a
restart and a backfill by hand are the faults. `fate` records, for each
decision, whether it was taken, warned of, or failed.

### BacktestQueue, ControlPlane, LiveView

`BacktestQueue`: the API's handler, the task and the sweep go statement by
statement; a specification is the set of its defects, of which the request and
the engine refuse different ones. `ControlPlane`: a save is a read of the row
and a later write; a worker reads the row once, when it starts. Trading is one
unit of one symbol in three books: `pos` is the venue's, `ownPos` the worker's,
`storedPos` the row the dashboard reads. The worker enters, protects, exits,
covers a short, reconciles and is quarantined; what reduces its own position
passes a halt that does not name the symbol, as in `KillSwitchRule`. `closing` is
what the operators' market closes have yet to sell: their fills come later, and
move the venue's book only, since the worker drops them. `LiveView`: a halt and a book are
version numbers, a message is its kind; what is published while nobody listens
is gone, and `missed` records where the code owes no read for it.

### BacktestEngine, SimulatedBroker, PaperRun, RuleStrategy, StrategyRun

`BacktestEngine` takes one bar in one step, in the code's order: trailing
levels, stops, targets and time exits, then the orders of the bar before. It
keeps `book`: position, cash, the orders with their fills, and the engine's own
trade statistics. Money is integral and `Unit` divisible by every quantity.
`SimulatedBroker` is a second implementation of the same fill rules, with its
own rest, volume cap and expiry. `PaperRun` lets both meet the same bars: every
order the engine queues is sent to the simulated broker too, perhaps twice.
`RuleStrategy` evaluates condition trees with the third value of a bar that is
missing. `StrategyRun` is a paper run whose strategy is one of the rule sets or
open.

## 3. What is checked

Each run's properties hold, and each property has a mutant of a mapped
definition that TLC finds to break it.

| Run | Instance | Shows |
|---|---|---|
| `kill_switch_races` | two engagers, operators, rollover, lost replies on the global key | evidence stands, the halt is a one-way latch, `HaltLatch` is implemented |
| `order_sync` | one order of three units, three upsets, up to an overlap | no double booking; stored book never ahead of stored orders; a trading runner's book agrees with its orders |
| `divergence_ends` | one order, two upsets, overlaps included | a divergence from the venue is repaired or trading halts |
| `fee_settlement` | two settlers, ageing charges, two crashes | no charge twice; the book is brought level |
| `protection` | one entry in two pieces, two refusals, failures or cancels by others, a market that comes and goes, one restart | shares without a stop are known, or paged at least, pages are true, a breached stop is honoured |
| `risk_chain` | two holdings, three kinds of entry with two in flight, two events | no outcome of the orders in flight exceeds a ceiling, the rate holds, exits get through, a restart renews no allowance |
| `market_feed` | a session of four bars, three faults | holes are known, silence halts across restarts, a flapping feed is given up on |
| `trading_day` | two sessions after a holiday, two faults | no lookahead, one order per decision, a missing decision is announced, no cold strategy by mistake, every edge is served |
| `backtest_queue` | three requests, two workers, one fault | verdicts stand, nothing alive is swept, every job is taken |
| `control_plane` | two operators, three configurations, one unit in three books | the settings screen is true, arming is proved, death halts, a flattened book stays flat once every book knows |
| `live_view` | one halt, one fill, two faults | a halt comes to be shown; the book shown is saved |
| `strategy_run` | three rule sets over six bars, an open strategy with three signals over four; gaps, wide and thin bars; four stop configurations | books and trades balance, fills are honest, paper fills what the backtest fills, counters follow the book, rules are decided |

### Bounds

`MaxUpsets`, `MaxFaults` and `MaxEvents` bound everything an environment does
wrong together, so every mixture up to the bound is explored; the hazards listed
need at most three (a failed write, a crash and a gap).

* `OrderSync`: three units let an order be partly filled twice, which is what
  separates running totals from increments. The constraint `Apart` stops the
  search at an overlap: the invariants say nothing behind it and nothing undoes
  `overlapped`, so no violation is lost. `Bounded` spares the third upset for an
  order with one unit filled; all three units fill among any two. The proofs have
  neither bound, and `divergence_ends` no constraint.
* `KillSwitch`: two engagers and two rounds are enough to lose every
  compare-and-set once and to raise; the proofs remove the bound.
* `Protection`: two units make a stop cover a part of an entry. `MaxOverdue`
  bounds the closes tried while a trade update is on its way: without it the
  runner could release and re-place a stop for ever on a book that is one update
  behind, under ever new keys. One restart comes at every point of a gap's life.
* `RiskChain`: two orders in flight with an existing holding reach every sign of
  a reversal; `MaxTicks = 1` with a window of one tick has both sides of the
  window's edge; the limits are chosen so that each rule refuses something.
* `MarketFeed`: two ticks to a bar let a drop fall inside a bar or on its edge;
  budget, silence and backfill window are each shorter than the session.
* `TradingDay`: a day of no session between two sessions, so that "yesterday" and
  "the previous session" differ; one warmup bar needed, with the decision bar
  withheld, is the boundary case.
* `BacktestQueue`: with one job per worker, three requests leave one waiting
  behind two that hang or die.
* `ControlPlane`: three saves. `Bounded` lets saves race, and a worker start,
  while nothing trades; once something is ordered or halted one configuration is
  saved, none is under way and one operator is signed in. The configuration is
  read at a start only and no order touches it, and requests of two operators
  about orders differ in nothing from two of one. A book goes from one unit long
  to one short, which is where selling twice ends.
* `LiveView`: one halt and one fill, each of which any two faults may hit.
* `StrategyRun`: six bars are a warmup, an entry, a holding limit, a cool-down
  and a re-entry; the bars include a gap up, a gap down, one that spans stop and
  target, and one without enough volume.

Deadlock is not checked where a finished instance has nothing left to do.

### Fairness

Weak fairness is given only to tasks the supervisor and the event loops keep
running: in `OrderSync` the consumer, warmup, writes, catch-ups, the five-minute
reconcile, reconnecting, restarting; in `BacktestQueue` the handlers, the tasks,
the boot of a worker and the clock, but not the engine's run itself; in
`LiveView` announcing, subscribing, the bridge's timeouts, reconnects and reads.
Upsets are finite. In `Protection` the fill handler and the evaluate pass get
strong fairness because they compete for an `asyncio.Lock`, which is granted
first come, first served, and because bars keep closing; the venue works orders
it accepted and completes cancels. Entries, exits, operators and the market are
never obliged to act.

## 4. How the parts meet

* `PaperRun` composes engine and paper venue; it is where two implementations of
  one fill rule are compared step by step. `StrategyRun` adds the strategy.
* `KillSwitch` implements `HaltLatch`; the other modules use the halt as the
  latch that refinement allows them to assume.
* `OrderSync` and `Protection` split the runner's fill handler: the first keeps
  its books and writes, the second its stops. `TradingDay` has the same runner's
  loop around them, `RiskChain` the judgement of what it submits, and
  `ControlPlane` the process it runs in.
* `MarketFeed` and `TradingDay` share the bar table: the first fills it live, the
  second reads it once a day.

## 5. What is proved

For any sets of engagers, keys, symbols, requests and any number of rounds
(`KillSwitch`, in `OperationsProofs`):

* `SafetyInvariant`: `EvidenceStands`. It is not inductive alone, for a
  compare-and-set could write back less than the store holds. The inductive
  invariant adds the type invariant and `FreshMatches`: an engager whose read is
  still fresh has exactly the stored record in hand. With it, a successful
  compare-and-set writes a merge of the stored record, which keeps its symbols.
* `LatchIsOneWay`: `OneWayLatch`, an action property, from the same invariant.
* `LatchImplemented`: every step is a step of `HaltLatch` or changes nothing it
  sees.

For any charges, monotone totals, settlers and number of crashes
(`FeeSettlement`, in `OperationsProofs`):

* `FeesSettledOnce`: `NeverOvercharged`, from the inductive invariant made of the
  type invariant, `SettledIsReflected` and `WithinLedger` (no total anybody was
  told, and no stored `fees_settled`, exceeds what the ledger comes to). Adoption
  is excluded, as it has to be.

For any runs, workers, specifications, timeout and number of faults
(`BacktestQueue`, in `BacktestProofs`), both from one inductive invariant, `QueueInv`:

* It says that a run is in one place, nowhere, once on the queue or with one
  worker (`OnePlace`); that nothing of a run but a queued row exists before its
  job is sent (`NotYetSent`); that the job of a running row has been taken and
  its task has marked it, and a swept run is with nobody (`Taken`); and that a
  task executes no longer than the queue lets it (`InTime`). The steps that
  leave the queue alone and start nothing share the lemma `QuietStep`.
* `SweepSparesTheLiving`: `NoLiveRunSwept`. It needs all four: a row older than
  twice the timeout is running, so its job is off the queue, and a worker that
  still had it would be executing, for longer than it can.
* `VerdictsStand`: `VerdictsAreFinal`, an action property. Verdicts are updates
  of rows in flight only, and `NotYetSent` shows that the insert, which is not
  limited to them, meets no row.

For any operators and configurations (`ControlPlane`, in `OperationsProofs`):

* `DeathLeavesAHalt`: `DeathHalts`, from `DeathIsLatched`: the halt a death leaves
  is not the daily one, which is why the rollover cannot release it.
* `FlatStaysFlat`: `FlattenSticks`. `flat` is reached when the closes of a flatten
  under a halt have filled and either the halt names the symbol or the worker's
  and the stored book agree that it is gone. `FlattenedIsQuiet` says that until
  then, unless the worker sends an exit again, none of its orders works or is on
  its way; `FlatIsKnown` says the same of a flat book, and that nothing is left to
  close and either the halt names the symbol or every book is flat. `FlatIsQuiet` is
  both: no exit of the worker, close of an operator or entry reaches a flat book.
* `ScreenTellsTheTruth`: `NoPendingMeansSaved`, and `ArmingIsProved`:
  `ArmedIsProved`, from `ConfigInv`: a save in progress and the worker that is
  up have each read a row no newer than the stored one, and the same row if the
  revision is the same; the status names no later revision than the worker's.

For any symbols, kinds of entry, holdings, prices, limits that the settings
accept, and any number of orders in flight (`RiskChainProofs`):

* `CeilingsHold`: `ReachableWithinCeilings`, for an account that starts within
  its ceilings, while no price has moved and limits are at the market (a ceiling
  is a share of equity at today's prices, so no rule can hold it under a price
  that moves). The inductive invariant `WithinInv` is about worth: every fill
  is at the one price there is, so equity never changes; and `Bounded` says of
  each symbol, and of their sum, that the furthest position any subset of the
  fills still open can reach is within the ceiling. An approval adds an order
  that `MaxPositionSizeRule` and `MaxExposureRule` have judged on exactly that
  furthest position, and a fill or a cancel moves none further.
* `RateIsHeld`: `RateHeld`, from `RateInv`: since no instant of the last window has
  more been sent than the rule remembers.
* `ExitsAreNeverTrapped`: `ExitsAreNotTrapped`, which is about the chain in every
  well-typed state, reachable or not: each rule of size, loss and exposure is
  shown to let a closing order through.
* `AllowanceIsNotRenewed`: `AllowanceNotRenewed`, from `AnchorInv`: every
  anchor a process has used is the one the store has.

For any session, bar length, budgets and number of faults (`MarketFeedProofs`):

* `NoSilentHole`: `HolesAreKnown`. `HoleInv` follows a bar that is lost, printed,
  not stored, not on its way and not given up on, through the worker's phases: a
  live process has none; one that backfills has it in the window it asks for; one
  that connects has it no earlier than the start of the window it will ask for.
* `SilenceIsNoticed`: `SilenceHalts`, from `SilenceInv` (a stale poll has alerted, an
  alert has halted) and `FeedInv`, which ties the table to the data that came: a
  restarted process measures from the watermark it reads there, so what a monitor
  measures starts no later than the last data any process had.
* `OutageEnds`: `OutageIsBounded`: the generator's first failure is the start of
  the trouble, since a connection that flaps does not reset it.

For any calendar, warmup and number of faults (`TradingDayProofs`):

* `NothingIsSeenEarly`: `NoLookahead`, from `TableInv`: a bar that a pull fetched is
  of a closed session and whole, and no job at work has begun before that close.
* `OrderedOnce`: `OneOrderPerDecision`: every order the venue has carries the stamp
  of its decision, so the second of a kind is refused, whichever process sends it.
* `HistoryIsEnough`: `WarmAtTheDecision`, from `WarmInv`, by the lemma
  `NewestAreEnough`: a warmup reads one row more than it needs, so with the
  decision's own bar withheld enough are left.
* `AbsenceIsAnnounced`: `MissingIsLoud`, provided `NotHeldOverNight`: a process is
  not held up from one session into the next. One that is (suspended over a
  night, say) comes back to a decision that is no longer among the rows it reads,
  and neither takes nor announces it; with more faults than the run has, TLC
  finds this.
* `EveryEdgeIsServed`: `NoEdgeMissed`, provided `NotHeldUpForADay`: no job is late
  for an edge, or at work on it, for a day. Its next edge comes in that time, and
  `next_due` is asked only when the job is done. Again TLC finds it with more
  faults; the run's two delays cannot reach either case.

For any orders, order size and number of upsets, and without an assumption about
the environment (`OrderSyncProofs`). The inductive invariant `SafeInv` says that the
types hold and that, until two readings overlap, the worker is in step (`InStep`):

* `RowsInv`: a stored row holds a beginning of the fills that are known of its
  order. So `OrderRepository.save`, which leaves the fills it has alone, stores
  them all; a completed order that waits to be saved has the fills it had when it
  completed.
* `BookInv`: stored book <= stored fills <= executed, and in a living process
  stored book <= book <= fills in memory <= executed.
* `FlightInv`: of what is on its way, a fill on the stream is one its order has
  seen or lies beyond what it has filled, and those of one order come in their
  order; a fill a catch-up has made up is the only such fill of its order, what the
  stream has of that order lies beyond it or has been seen, and applying it comes to
  no more than what was executed.

`FlightInv` is why booking keeps `BookInv`, and `Overlap` is what would break it: each
of its disjuncts is needed, for TLC finds a violation when one is dropped. The
theorems are `BookedOnce` (`NoDoubleBooking`), `RowsComeFirst` (`BookNotAheadOfRows`) and `TradesInStep`
(`TradesOnAConsistentBook`): a warmup that finds no difference leaves
book = executed, and `BookInv` squeezes the filled quantity in between; after that
`OnFillEvent` moves both together. What fills add up to is a fold, and the lemmas
`FilledIsTally` to `FilledAppend` say of it what the others need: none come to
zero, and one more adds its quantity.

For any number of halts, fills and faults (`LiveView`, in `OperationsProofs`):

* `ScreenIsStored`: `ShownIsStored`, from `StoredFirst`: what the snapshot and the
  screen show is no newer than the stored book, and the stored book no newer than
  the worker's; a pass that has saved has stored all the worker has.

For any entries, order size and number of upsets, overdue closes and restarts
(`ProtectionProofs`):

* `BaseIsInvariant`: our orders are the venue's but for the updates on their way,
  in their order; the position is what our orders have traded; the stops the
  router lists are stops; and the venue never has less free than nothing, so no
  two sells are promised the same share. What an operation under the lock has
  still to do is fixed by the orders it waits for (`ClosingOf`, `AskingOf`).
* `PagesTrue`: `PagesAreTrue`, an action property. The router counts the stops
  that work by its own orders; with no update on its way those are the venue's.
* `NakedKnown`: `NakedIsKnown`, for one entry (with two it is false, section 6).
  `GapInv` says when there is no gap: everything held is being sold by stops that
  no one is canceling, or by a close that is out and covers the position; and
  otherwise that the gap is recorded, was forgotten by a restart, or was made by
  somebody else's cancel (`Excused`). The
  position and the stops are sums over the orders, so each step is shown by what
  it changes in one term.

For any bars, costs, stop configuration and order size (`BacktestEngine`, in
`BacktestProofs`). `EngineInv` says that cash, position and fees are what the
orders made (`Ledger`), that completed trades sum to what was realized (`Trips`),
that each fill of the bar in hand is honest (`HonestAt`), and that what waits was
decided at this bar, each order once (`Waiting`):

* `FillsHonest`: `FillsAreHonest`. A level fills at no better than itself, because
  a bar that opened through it fills at the open; every intended price is within
  the bar.
* `FeesAndTripsBalance`: the fee part and the trade part of `BooksBalance`. The third,
  about the profit of a position whose basis is an average, is rounded in general
  and exact only for the instance's `Unit`: it stays with TLC.
* `TradesAccount`: `TradesAccountForTheBook`. A fill adds its cash flow to the trades
  and the open episode together, whether it opens, adds, closes in part or turns
  through zero, and its fee is split whole (`AddFillKeeps`); the fills of one
  instant add up to the same in the analytics' order and the engine's, and the
  instants to the whole.

For any signals, and bars that traded (`PaperRun`, in `BacktestProofs`):

* `PaperFillsTheSame`: `SameFills`. `PaperInv` says, until a protective level is hit,
  that the two are in step (`InStep`): order by order the same terms and the same
  fill or none, no order at the venue from after this bar, the same cash and
  quantity; and that what is open at the venue is what waits in the engine, the
  last orders of both. The engine folds over its list of waiting orders and the
  venue over all it ever accepted, so the proof follows the two folds together
  (`BarInStep`): the venue's skips what is not open, and then each of its orders
  meets the bar as its twin does (`MeetInStep`). That an order sent twice is
  accepted once is where client ids come in (`PaperQueuedInv`).

`QueuedKeeps` and `PaperQueuedInv` are about any order a signal may queue, of any
side, quantity, limit and levels: the signals of a rule set are among those.

`FoldTheorems` has what these need about the library's `SumFunctionOnSet` and
`FoldLeft`: a changed term, a larger set, a prefix of a sequence. The library's
induction theorems take an operator and cannot be used, so a fact is proved of
all prefixes, or subsets, by looking at the set of those it holds for.

`TypesHold`, `Typed` and `EngineTypes` are the type invariants of these modules, on
which the others rest.

The assumptions used are those stated with the constants: `MaxAttempts` is
positive, requests are well formed, an order's size is positive, `Total` is a
monotone function into the naturals with `Total[{}] = 0`, `JobTimeout` is
positive, limits are legal and prices positive, a session's slots are whole
bars, there is a session before the first day, a bar's open and close lie
between its low and its high and `Unit` is positive.

Only model-checked are:

* all liveness, and `ENABLED`, which are beyond the prover: `HaltIsShown`, and what
  the other runs show to happen in the end;
* the profit part of `BooksBalance`, see above;
* `CountsMatchTheBook` and `VerdictsAreDecided`. A rule is a tree, and what is needed
  to evaluate one is a recursive operator over trees: the prover takes neither
  `RuleStrategy`, which has them, nor `StrategyRun`, which extends it.

## 6. Where code, documents and expectations part

What the models show of the code as it is. The properties above are stated so
that they hold; each of these says what they had to leave out, or what a reading
of the code for the model turned up.

Halts:

* The rollover judges a reading and clears by key: evidence merged in between is
  released unseen (`worker/scheduler.py:1001` against `:972` and
  `docs/RISK.md:384`).
* `engage` reports `halt_stands=True` after its compare-and-set failed because
  the key was cleared (`core/risk/killswitch.py:597-649`, against
  `core/errors.py:155`).
* A halt about no symbol, engaged over a standing daily-loss halt, is absorbed by
  `_merge` and released by the rollover with it (`core/risk/killswitch.py:151`,
  `worker/scheduler.py:953`); a worker's death in such a session is released the
  same way.
* If the store cannot be reached when a responsibility ends, `_halt` raises and
  the death is not announced (`worker/main.py:615-616`).

Orders and books:

* An execution recovered over REST has an id made from a running total; the
  stream's copy of it is not recognised, and it is booked twice
  (`core/execution/recovery.py:248` against `:246`): a fill arrives while the
  catch-up reads, the reading has it, and the stream delivers it after that. The
  properties of `order_sync` hold up to that reading (`ReadsOver`).
* `pending_cancel` after a partial fill is an illegal transition: the consumer
  dies and the worker halts over books that agree (`core/brokers/alpaca.py:239`,
  `core/execution/trade_updates.py:153` against `worker/runner.py:2401`).
* Warmup at a session open installs stored rows over an order whose checkpoint
  failed (`worker/runner.py:775`), although the comment at `:1392` counts on the
  next pass to write it. The properties end there too (`InstallsOver`).
* The reconcile after a reconnect runs inside the consumer, so a fill waiting in
  its queue is still missing at the re-read that was to forgive it
  (`worker/trading.py:476`, `core/execution/reconciliation.py:325`).
* An adopted book has the fees in its cash and `fees_settled = 0`, so the next
  settlement takes them again (`core/execution/reconciliation.py:616` against
  `core/domain/position.py:201`).
* Two overlapping settlers can show a credit for a moment
  (`core/execution/fees.py:151`).
* `_request` repeats `POST /v2/orders` after a timeout, against the docstring of
  `submit_order` (`core/brokers/alpaca.py:409-471`, `645-679`); it is safe as
  long as the venue answers a reused `client_order_id` with the old order.
* An exit by limit order releases the stop when it is acknowledged, although it
  may never fill (`core/execution/router.py:548-554`).
* Covering a second entry clears the symbol's record of missing stops although
  the first entry has none (`worker/runner.py:2660` against `:1926`); the
  `protection` run has one entry.
* A stop put back after a failed close is in no list of the runner
  (`core/execution/router.py:1525`, `worker/runner.py:478-480`): its fill is
  dropped, and a later warmup refuses to start.
* A restart forgets the recorded gaps, by design; only the page tells
  (`worker/runner.py:1942`).
* A working stop or close that an operator cancels (`api/routers/orders.py:247-302`,
  `:369-371`), or that the venue cancels by itself, is never put on record:
  `_unprotected` is about refusals, so `_stop_is_missing` stays False and the engine
  does not watch the level, although the docstring of `_stop_is_missing` says that
  a cancelled stop changes the answer (`worker/runner.py:1926-1942`; the case is
  described at `:1429-1434`). The position is naked, and only the page tells;
  `NakedIsKnown` and `StopIsHonoured` except it as `taken`.
* If that stop is one `_rearm` put back, its update is dropped as of an unknown order
  (`worker/runner.py:2491-2502`), the router goes on counting the stop as
  protection (`core/execution/router.py:1525`), and not even the page comes:
  `NakedIsPaged` excepts it as `CountedInVain`.
* An anchor store that cannot be read leaves the loss limit unanchored only in a
  process that has just started: one that has run since the session before keeps
  that session's anchor (`worker/runner.py:1744` against `:1720` and `:1759`).

Market data and the trading day:

* A restart that connects at once emits no `FeedReconnected`, so the gap of the
  restart waits for the nightly sweep (`docs/DATA.md:120-131`); a bar that had
  ended but was unsent at a drop is not fetched again until then; a stored
  partial bar is never overwritten by the sweep.
* A decision whose pass fails is lost for good once `_refresh_bars` has taken the
  bar as seen (`worker/runner.py:1630` against `:1674`).
* `refresh_session_bars` alerts only when a symbol has no bar in its whole window
  (`worker/scheduler.py:389-397`), not when the newest is missing.
* The warmup is one bar short when the bar of the session in progress is already
  in the table (`worker/runner.py:714-738`); `WarmAtTheDecision` says "unless".
* A job whose edge passes while the worker is down is not made up for at boot; one
  that is at work for a whole day skips the edge that passes meanwhile
  (`worker/scheduler.py:1362-1382`, `next_due` at `:1238`).
* A worker that is held up from one session into the next (a suspended host)
  neither takes the decision it was up for nor says that it did not
  (`worker/runner.py:1609-1623`).

Backtests and paper:

* A job that reaches its deadline leaves its row `running` until a worker boots
  (`worker/tasks.py:58-59`, `worker/queue.py:107-110`).
* A stop and an exit that was already pending fill on the same bar and leave a
  reversed position (`core/backtest/engine.py:983`); the levels of the old side
  stay on it (`core/domain/position.py:178`), and the trade count takes such a
  flip for one trade against the analytics' two.
* On a bar without volume the engine expires a DAY order while the simulated
  broker lets it rest (`core/brokers/simulated.py:284-288`,
  `core/backtest/engine.py:996-1001`, against ADR 0006 and
  `docs/ROADMAP.md:1803`); `SameFills` is about bars that traded. The simulator
  has no one-cancels-other and no levels of its own.
* Two symbols that enter on one bar can exceed `max_concurrent_positions`
  (`core/strategy/rules.py:645`).

Operators and screens:

* Of two saves of the configuration that overlap, one can re-arm live orders
  without a password (`api/routers/worker.py:545`);
  `ArmedIsProved` says so. The `from` of the audit entry is then stale.
* The encoded worker status drops `timeframe`
  (`core/persistence/worker_status.py`).
* If the sign-in limiter's `INCR` succeeds and its `EXPIRE` fails, the lock-out
  has no end (`api/ratelimit.py`).
* The closes of `flatten_all` (`api/routers/risk.py:911`) are orders the worker does
  not know: it drops their fills (`worker/runner.py:2491-2502`) and its book stays
  long until the venue's is adopted. Its own exits pass the halt (`worker/runner.py:1848`, `:2139`,
  `core/risk/rules.py:401-460`), so in that time it can sell the position once more,
  into a short under the standing halt. The reconcile that finds the difference
  names the symbol, which stops that; it need not come first, and while the closes
  are unfilled it finds an unknown order only and names nothing. `FlattenSticks`
  promises flatness from the point where every book knows, or the halt says so.
* `close_position` sells the stored book's quantity, which may no longer be held
  (`api/routers/positions.py:203`): the same, by hand.
* A fill is announced before the snapshot a reader will be given is published by
  the next pass (`worker/runner.py:2523`), so the screen is stale until something
  else is announced.
* Announcements can be lost where nothing owes a read: while the stream is
  remounted (`web/hooks/useLiveDashboard.ts:183-206`), between the first read and
  the first open, before the bridge's first subscribe (`api/ws.py:440-449`), and
  on a socket whose hang-up failed (`api/ws.py:350-356`). `HaltIsShown` names
  this case `missed`.

## 7. Abstractions and what is left out

* Texts, metrics, log lines and the audit trail. Prices and times are as coarse
  as the properties allow: "through the stop" in `Protection`, slots in
  `TradingDay`, ticks in `MarketFeed`, small integers in `RiskChain` and the
  backtest modules.
* `OrderSync` takes one reading of the reconciler as one step, starts from a
  stored book (the first boot, which adopts the venue's, is left out), and has
  an order per symbol, none of them protective.
* `Protection`: limit exits, stops cut down by the risk chain, short positions.
* `ControlPlane`: one unit of one symbol, at most one order of a kind from the
  worker, fills of its own orders at once in its book (catching up is
  `OrderSync`'s), `adopt_broker_state` only while the worker is stopped.
* `RiskChain`: fractions of shares, halts of one strategy or symbol.
* `MarketFeed`, `TradingDay`, `BacktestEngine`, `RuleStrategy`: one symbol.
* `BacktestEngine`: the equity curve, progress callbacks, holes in the
  history.
* `SimulatedBroker`: quotes, cancellation, stop and GTC orders, none of which
  the engine sends.
* Strategies written in Python are the open strategy of `StrategyRun`; `stddev`
  is not modelled.
* Not modelled: the sign-in limiter, the halt after consecutive errors, the
  ratios and curves of the analytics (formulas over floats), the backup scripts
  (calls of `pg_dump` and an object store), metrics, logging and alert sinks
  (nothing is decided on them), and the other screens of the web client, which
  render what the API returns.

## 8. Plan

What is next, in this order:

1. Model: split the reconciler's reading, add the first boot, and let a restart of
   `OrderSync` adopt the stops of `Protection`; a second symbol in `RuleStrategy`.
