# Verification of the funding-arbitrage bot

TLA+ models, TLC runs and TLAPS proofs for the bot in `src/` (`core/`, `state/`,
`gateways/`, `loop/`, `diagnostics/`, `web/`) and for the live cycle of its
retired version 1.3 (`archive/v1.3-legacy/app/`), which its README keeps as the
version to roll back to. Paths below are relative to `src/`; SYSTEM.md is
`docs/SYSTEM.md`, and in the parts about version 1.3 `bot.py`, `exchange.py`,
`main.py` and `finance.py` are those of the archive.

The bot holds pairs of a long spot leg and a short perpetual of the same size,
for the funding payments. Its state is in two places that no transaction spans,
the SQLite rows of `positions` and the legs at the venue. Most of what can go
wrong is a disagreement between the two.

## 1. The system

| Component | State | Operations | Interacts with |
|---|---|---|---|
| Position lifecycle (`core/lifecycle.py`) | none | `initial_status`, `transition` | the cycle, for every status it writes |
| Entry executor (`loop/executor.py`) | per call: two futures, the fills | `parallel_market_fok_entry` | the cycle (caller), the gateway (two pool threads) |
| Trading cycle (`loop/cycle.py`) | none between cycles; rows of its session | `run_cycle`: Phase A (stale, integrity, recovery), maintenance, Phase B (exits), Phase C (entry) | gateway, session, executor |
| Sessions, repository (`state/`) | the SQLite tables | `session_scope`, queries, inserts, migrations | every worker and the dashboard |
| Runner (`loop/runner.py`) | worker handles, heartbeat and ingest clocks | boot, worker loop, ingest, balance snapshot, stop | one thread per (mode, venue) |
| Gateways (`gateways/`) | live: a ccxt client; paper: books, wallets, seen ids | orders, reads, transfers, flow history | the venue |
| Sizing, math (`core/sizing.py`, `core/math.py`) | none | closed-form size, gates, basis | Phases A, B and C |
| Switches (`web/routes/safety.py`) | `mode_state`, `venue_state` | two forms | read by cycle and boot |
| Dashboard, configuration, diagnostics (`web/`, `diagnostics/`) | none | pages, JSON, the configuration form | read the tables |
| Version 1.3 (`archive/v1.3-legacy/app/`) | rows, `ModeState`, `StrategyState`, a balance cache, the venue's wallets | the live cycle, restart, the operator's pages, the capital-flow ingests | one venue per cycle |

What makes each hard, and what would make it correct:

- **Executor.** Two threads and a timeout against one caller; an order can fill
  although its call raised. Correct when the report is true about every answer
  that was heard, when nothing of the call is in flight after it but orders whose call
  raised, and when it returns.
- **Cycle.** Many kinds of partial failure (a half entry, a half close, a failed
  rollback, a leg that is liquidated), each left to the *next* cycle, against an
  operator who flips switches, reads that fail or lie, and a session that may be
  rolled back after its orders have been sent. Correct when every held leg has a
  row, no leg is opened twice, a naked row names the leg that is left, a row is
  closed only when its legs are flat, naked rows are resolved, and maintenance
  empties the book.
- **Sessions.** One writer at a time, held from a session's first flush to its
  commit, with venue calls in between; the cap on positions is read in one
  session and used in another's time.
- **Runner.** A one-shot override that is applied on every boot; an account probe
  that fails open; a throttle that is stamped before the commit. Correct when a
  live worker trades the expected account, no venue is left behind, and no flow
  and no heartbeat is lost for longer than the clocks explain.
- **Gateways.** Every exception becomes an ordinary answer.
- **Sizing and paper wallet.** Floors, clamps and boundaries. Correct when a size
  that is returned fills and is paid for, and when the gate sees prices no better
  than the orders then get.
- **Version 1.3.** Balances from a cache that orders do not invalidate, against
  perps read from the venue; a session that does not flush before it queries;
  sizes from a copy of the balances that the transfers update and the cache does
  not; three wallets per currency and two sessions that ingest the same history.
  Correct when books and legs agree between the cycles, nothing is bought twice,
  what is naked or unknown is dealt with in the end, orders are funded, transfers
  settle, and a movement of capital counts once.

`PROJECT.json` lists the hazards at their lines.

## 2. The modules

| Module | Models | Role |
|---|---|---|
| `Lifecycle` | `core/lifecycle.py` | pure: statuses, events, the partial function `Transition` |
| `EntryReport` | `EntryResult` and what may be held behind it | pure, shared by the next three |
| `EntryContract` | what an entry promises its caller, in one step | abstract specification |
| `EntryExecutor` | `parallel_market_fok_entry` | detailed specification, refines `EntryContract` |
| `TradingCycle` | `run_cycle` of one live worker, its session, the venue, the operator | uses `Lifecycle` and the reports of `EntryReport` |
| `WorkerAlone` | what a worker's cycle may take for granted of its session | abstract specification |
| `SharedStore` | the cycles of several workers over one SQLite file | abstracts a cycle to its flushes, implements `WorkerAlone` once for each worker |
| `Runner` | boot, activation, account check, workers, ingest and heartbeat | `loop/runner.py`, `state/db.py`, `web/routes/safety.py` |
| `Sizing` | `core/sizing.py`, the gate and the exit figures of `core/math.py` | pure, over integers |
| `PaperTrading` | one paper worker with books, sizes, gates and wallets | uses `Sizing`; `gateways/paper.py` and Phases B and C |
| `LegacyBot` | the live cycle of version 1.3, its gateway, the operator | rows, legs, recoveries |
| `LegacyCapital` | the capital-flow rows of version 1.3 | two ingests over one table |
| `LegacyFunds` | the money of a version 1.3 cycle | extends `LegacyCapital`, whose steps are steps of its cycle |
| `MCTradingCycle`, `MCRunner`, `MCPaperTrading`, `MCLegacyFunds` | | constant values and symmetry for TLC |
| `EntryExecutorProofs`, `TradingCycleProofs`, `SharedStoreProofs`, `RunnerProofs`, `PaperTradingProofs`, `LegacyBotProofs`, `LegacyFundsProofs` | | theorems |
| `SumProofs` | | lemmas on sums and finite sets, used by the paper and the funds proofs |

The cycle does not compose with the executor's threads: it takes an entry as the
one step that `EntryContract` describes (`EntryMade`, over the same `Reports`,
`Unheards` and `Leftovers`), and `EntryExecutor` is proved to implement that
contract. Nothing else of the cycle runs between the two halves of an entry,
since the calling thread waits. In the same way `SharedStore` takes over from
`TradingCycle` where several cycles meet: what it keeps of a cycle are the
statements that need the write lock and the orders between them.

### EntryExecutor

`future[l]` is the pool's future of a leg, `order[l]` what the venue made of its
order, `fills` the local dictionary, `report` the returned `EntryResult`.

- `Start`, `Answer`, `Raise` are steps of a pool thread in `_place`; `Decide` is
  the venue filling or killing the FOK order. `Raise` is a call that raises at any
  moment, before or after the venue has decided: `_place` and the gateways turn it
  into `accepted=False`, and the order may fill then or later, even when the entry
  has returned. `DecideReverse` is the same for a rollback order.
- `Collect` is one turn of the `as_completed` loop; `LegTimeout` is its
  `TimeoutError` (a synthetic fill per missing leg; `cancel()` stops only a leg no
  thread has taken); `Classify` is the exit of the `with` block, which waits for
  both threads, and the classification; `Rollback` is the reverse order.
- `raised` is a ghost: the legs about which a call raised.

What the contract promises is one step, `Enter`, with a report that is true about
every leg that was heard of; for the others `Settle` says that the venue may go on
to fill or reverse what was ordered.

### TradingCycle

The code handles one row at a time in a `for` loop per pass. A step of the model
is one row in one pass (`StaleReconcile`, `CheckHedgeIntegrity`, `RecoverNaked`,
`MaintenanceClose`, `EvaluateExit`), with every read and order the code makes for
it; `todo` holds the rows the pass has still to visit, in any order. `Pass`
actions go from pass to pass in the order of `run_cycle`, `ReadModeState` where
`mode_state` is read. `EnterPosition` is Phase C, `NoEntry` every way through it
that sends no order.

- `rows` is the session's view, `db` the committed table: `Commit` copies one to
  the other, `LoseSession` the reverse. The venue's `hold` is not rolled back.
- `hold[b][l]` counts units, a short being negative. `Qty` is the size of a
  position. A long perp is possible, since no order is sent with reduceOnly; it
  saturates at `MaxUnits`, so that the bound stops no buy.
- The size of a leg is computed as in the code: `free + total` is twice an
  unlocked spot balance, `abs(contracts)` ignores the sign (`TrueSize`).
- `seen` are the client order ids that repeat over cycles, and only matters when
  `Dedup` is TRUE (a venue, such as `InMemoryGateway`, that refuses an id it has
  seen, filled or not). Ids hashed from the cycle id never repeat.
- `touched` are the bases traded since the last commit. `misled` is a ghost: the
  bases about which an answer or a read was false, or whose fills a lost session
  forgot. The code cannot know it; the invariants about holdings speak of the
  other bases.
- `LateFill` is an order whose call raised and which fills afterwards, the `Settle`
  of the contract. The model does not keep which bases have such an order: any misled
  one may see a leg opened or closed, more often than the venue can.
- `Faults` selects what can happen: `lost_answer`, `bad_read` (a failed read is
  answered as zero, as all three gateways do), `read_error` (a read raises and
  `run_cycle` ends), `lost_session` (a crash, or a failed flush after which the
  session is unusable). `LossSizes` are the units a leg can lose by itself.

The market is a choice: the base of an entry, whether a gate passes, whether an
exit triggers, whether an order finds its depth. Prices, fees, funding figures,
`trades` and event rows, and paper mode are left out.

### SharedStore

SQLAlchemy opens SQLite's transaction at the first statement that writes. Until
then a session reads what is committed (`db`); from then on it holds the one
write lock (`lock`) and sees its own rows (`view`), with its venue calls in
between, until `session_scope` commits. `pc[w]` is where the cycle of worker `w`
is: every action that flushes goes through `Write`, which needs the lock, and
`LockedOut` is the `busy_timeout` of five seconds running out: the flush raises,
the handler's own `log_event` raises after it, and the session rolls back.
`SendClose` and `SendEntry` send orders (`target` until they are recorded);
`Restart` is a process that dies. `forgotten` is a ghost, the positions whose
orders were sent by a session that was rolled back; `underLock` marks a worker
that held the lock when it compared the number of positions with the cap.

`WorkerAlone` is what a cycle relies on and `session_scope` promises: it decides by
the rows of its session, and what it has written is committed as a whole or lost as
a whole. `Alone(w)` maps `SharedStore` to it for a worker: its own rows of `db` and
of what it sees (`Sees`), its `legs` and `target`, its part of `forgotten`. The
lock, the other workers' rows and the place in the cycle are gone; a step of another
worker is a stutter, `LockedOut` and `Restart` are `RollBack`. It is checked of all
workers together (`WorkersAreIsolated`), since TLC does not take a quantified
specification for a property.

### Runner

`Start`, `StartWorker`, `EndBoot` are `start_runner`: seeding, the override
`ACTIVE_EXCHANGES` (`Mirrored`, written through on every boot that sets it), then
the turns of its two loops, venue by venue and mode by mode: the worker starts
(`Starts`, for a live one if `AccountPasses`: an unanswered probe passes), is
`Refused` by `_assert_account_id`, or something raises on the way (`StartRaises`: the
gateway, the read of its row, the thread), which the `except` around one turn
catches. `failed` is a ghost, the workers whose start raised; nothing tries them again
before the next boot. The extra `continue` for Hyperliquid (`loop/runner.py:431`) is
never reached: `_has_credentials` has asked for the same key, so that an activated
venue has it. `Die` is any end of the process, `Deploy` a new
environment, `EditVenue` the form of `POST /safety/venue`, which takes effect at
the next boot. `excused` is a ghost: venues whose account was not read at the
boot, or edited since.

Of one live worker, `Watched`, a turn of `_worker_loop` is modelled: its cycle
with the ingest (`SkipIngest`, `IngestFails`, `Ingest`, `IngestLost`,
`CycleLost`), `Heartbeat`, `WakeUp`. Time is discrete and every clock saturates
at its bound, so that nothing ends. `smooth` is a ghost: ticks since something of
the housekeeping failed. `PAPER_MODE_ONLY` is loaded and read by no code, so that
nothing in the model depends on it.

### Sizing and PaperTrading

`Sizing` has the closed form of `size_entry` over integers: grains, lots, money
in units of 1 / `One`^2, so that slippage and fees are exact and the only rounding is the
floor that the code makes as well. A book is a sequence of levels; what is cumulated
over its levels is a sum over a set of indices, so that it can be reasoned about.
`size_sell_spot_flat_cap`, which only tests call, is left out.
`PaperTrading` runs the paper cycle on it: the
gateway has a wallet, the ids it has `seen`, and a ghost `ledger`, the wallet
without the clamp `max(0.0, ...)`. `Quote` moves the market between two cycles,
`ClosePosition`, `Keep` and `SkipSkewedExit` are Phase B for a row, `Enter`,
`Reject` and `NoEntry` are Phase C. The gateway lives as long as the process, and so
does a behaviour of the model: a restart begins with another gateway, and what the
rows of the earlier process meet there is left out. The two legs of an
entry run on two threads but change different wallets, so that one order of them
stands for both. Annual thresholds are given per funding window.

### LegacyBot

One variable per copy of the world: `row` are the session's objects, `table`
their status as last flushed, which is all a query finds (`autoflush=False`), `db`
the committed rows; `spot` and `short` what the venue holds, `cache` the balances
last fetched. The passes are those of `run_cycle`: `Rehydrate`, `Reconcile`,
maintenance or exit-all (`CloseBoth`), Phase A (`CheckHedge`, `CloseNaked`),
`recover_phantom_spot` (`SkipPhantom`, `RecordDust`, `HedgePhantom`, `SellPhantom`,
`ConvertDust`), Phase B, the entry in two steps (`BuySpot` or `BuySpotRaises`, then
`ShortPerp` or `RollbackSpot`, with `hedge` between them), `Sweep`. `Abort` is an exception,
`Restart` a new process with its `reconcile_positions`, `OutsideTrade` a
liquidation or a trade by hand, `ManualClose`, the six flag actions and `SetHedgeCheck` are the
pages. `misled` is a ghost as in `TradingCycle`, and a base leaves it again when
a commit finds its books right.

Branches that are easily overlooked are steps of their own, or conditions in one:

- the bot takes `filled or amount` for what a spot order bought (`bot.py:2118`): a
  fill of zero counts as no statement, and the amount ordered, if the answer has it,
  for the fill (`Taken`, over every combination of the two fields); an order that
  raises is judged by the difference of two fetched balances (`BuySpotRaises`);
- the recovery makes no row for coins without a price in USDT, be it for good
  (`Priced` are the bases with such a pair; entries may buy against USDC) or because
  the read failed, nor for coins worth less than 0.10 USDT (`SkipPhantom`);
- `CheckHedge` passes a row when the operator has switched the check off
  (`hedgeCheck`), or when no balances have been fetched since the process started
  (`unread`). A row passed over although it is not hedged makes its base `misled`;
- a rehydrated row carries the default trade type, Binance's (`own`, `DefaultIsOwn`),
  so that exit-all passes over it at KuCoin. The rows of `reconcile_positions` carry
  the venue's.

The pseudo-assets of Binance Earn, which the recovery filters by prefix, are left out:
they are no bases.

The operator acts between two cycles; a `/run-once` concurrent with the loop is
not modelled.

### LegacyCapital and LegacyFunds

`rows` counts the committed rows of an external id, `pending` those the cycle's
session has flushed, `asked` those the request of the re-ingest button is about
to store. `Records` is what the endpoints that answer list, `NewRows` what an
ingest makes of it. `raced` is a ghost: ids that one session stored while the
other held them for missing; `external_id` is an index and no unique key.

`LegacyFunds` is one cycle from its money's side: `wallet[q]` are main, trade and
contract of a quote currency, `cache` the balances read, `local` the copy that
sizing uses. `Consolidate`, `Rebalance`, `Swap`, `Approve`, `Enter`, `Drain` are
the steps that move money or believe something of it; `ToFutures` and `ToSpot`
are the transfers with every outcome the gateways allow, KuCoin's second hop that
fails and is answered as good enough included. `surprised` is a ghost: the
currencies a failed transfer or a movement has touched in this cycle.

Abstractions: fees and prices are left out and a margin is the notional
(leverage 1); each cycle starts with fresh balances and with rows and legs that
agree (`LegacyBot` has the rest); the throttle and the lookback of the ingest are
free choices; the button acts between two cycles or while a cycle's rows are
uncommitted, which is where the two can meet. Unified accounts are skipped by the
code's transfers and left out; margin and isolated sub-wallets stand under main.

## 3. The runs

| Run | Question | Bounds |
|---|---|---|
| `entry_executor` | `TypeOK`, `SettledOnReturn`, `HonestAboutHeard`, `ImplementsContract`, `CallReturns` | one call, all interleavings (588 states); nothing is bounded |
| `executor_hangs` | is `leg_timeout_s` a bound on the call? **no** | venue calls may never end |
| `cycle_safety` | `TypeOK`, `HeldLegsTracked`, `NeverDoubled`, `NakedLegIsAlone`, `OneRowPerBase` | 1 base, 3 rows ever, all faults, vanishing legs, entry and maintenance toggled (33 thousand states) |
| `cycle_hedged` | `PhaseAHedges`, `ClosedIsFlat` | 2 bases, 2 rows, 2 open at once, read errors and lost sessions, no vanishing legs, no maintenance (170 thousand states) |
| `cycle_liveness` | `NakedResolved`, `MaintenanceDrains` | 1 base, 3 rows, no faults |
| `cycle_exit_ids` | is a failed exit retried? **no** | `Dedup` |
| `cycle_maintenance_naked` | is a row closed only when both legs are flat? **not by maintenance** | maintenance toggled |
| `shared_store` | `CapExceededByOthersOnly`, `RecordsMatchLegs`, `WorkersAreIsolated`, `LockedCheckIsExact`, `CyclesEnd` | 2 workers, 2 bases each, a cap of 2 (221 thousand states) |
| `runner` | `LiveAccountsExpected`, `NoVenueLeftBehind`, `BootKeepsVenues`, `FlowsIngested`, `NotSilent` | 2 venues, 2 accounts, 2 environments, any start may raise, 1 flow, an hour of 2 ticks, a turn of 1, a lookback of 4 (3.3 million states) |
| `paper` | `SizedEntriesFill`, `SpotSizeIsLargest`, `ForecastIsConservative`, `SpotIsLedger`, `FuturesIsLedger`, `CoinsMatchRows`, `NoChurn` | 2 bases, 11 quotes, books of 2 levels (514 thousand states) |
| `legacy` | `BooksMatchLegs`, `NoSecondEntry`, `NakedShortsEnd`, `PhantomsAreRecorded`, `ExitAllIsServed` | 1 base with a price in USDT, at KuCoin (rehydrated rows of another trade type), entries of 3 lots, at most 3 coins and 4 short, 1 fault (661 thousand states) |
| `legacy_funds` | `InjectionsOnce`, `SizedIsFunded`, `TransfersSettle` | both venues, 2 currencies, 1 movement of 2 dimes, 12 dimes in all, 1 fault (179 thousand states) |

Why the bounds suffice:

- *The cycle.* Bases do not interact except through the cap on open positions, so
  that one base shows every history of a position; three rows let a base be
  entered, closed and entered again while an earlier row's orders are still felt.
  `MaxLegs = 2` lets a leg be doubled, which `NeverDoubled` must be able to see.
  `cycle_hedged` takes two bases for the order of rows within a pass.
- *The store.* Two workers are enough for one to be overtaken between its check
  and its insert; each has two bases, so that together they can go beyond the
  cap, and it is worked out for any number in the theorems.
- *The runner.* An hour that is longer than a turn is what the clocks need; the
  flow outlives `Patience` and leaves the lookback. The two environments differ
  in what `_assert_account_id` and the override read: the account the credentials
  open, the one that is pinned, a venue without credentials. Two venues let one fail
  before the other, and each have two workers. The theorems have no bounds.
- *Paper.* Each quote is there for one decision, named after it (`MCPaperTrading`):
  an entry, a smaller one, one below a lot, one in backwardation and one in contango,
  where the forecast shows less basis than the mid prices, an exit by yield, by
  dislocation and by stop, a deferral, an exit whose perp or spot leg finds no depth.
  That the settings fit each other and these quotes, as some theorems ask
  (`SafetyCovers`, `MarginCovers`, `ThresholdsApart`), is an assumption that TLC
  evaluates (`MCSettings`).
- *Version 1.3.* A lot above `SpotMin` and one below it distinguish what can be
  sold from dust; the bounds on coins and shorts let a base have a whole entry and a
  short beyond it. A single
  fault can hit any call of any pass, and faults do not pile up on a base that is
  not misled. A second base would add the cap only, which is
  `SharedStore`'s subject. In `legacy_funds` 12 dimes are enough for a swap, a
  rebalance and a drain all to happen.

`TypeOK` of the cycle says more than types: `Transition` is applied only where the
table has a rule, so that no handler runs into `IllegalTransition`. The type
invariants of `SharedStore`, `Runner`, `PaperTrading`, `LegacyBot` and `LegacyFunds` are
conjuncts of `RecordsMatchLegs`, `LiveAccountsExpected`, `SpotIsLedger`,
`BooksMatchLegs` and `SizedIsFunded`.

### What is not true of the code

`ClosedIsFlat` and `PhaseAHedges` are *not* true of all of the code. The run that
checks them leaves out what breaks them, and four things do, each seen with TLC:
maintenance on a naked row (it has a run), and, without a run of their own, failed
reads, a leg that vanishes between Phase A and the close (the buy opens a long
perp), and a leg that loses a part of its size. `PhaseAHedged` and `ClosedFlat`
(section 4) show that nothing else does. Also seen to fail, or plain from the code, without a run:

- `exit_enabled` (SYSTEM.md:413, 1131) stops nothing: no code of the loop reads it;
- a partial loss of spot with `Qty = 2`: `free + total` hides it, recovery asks
  for more than there is, and legs end up without a row (`HeldLegsTracked`);
- `NakedResolved` with `Dedup`: the ids of a recovery do not change either;
- the tracking of *every* base, the misled ones included: after a lost session or
  a lost answer the venue holds legs that no row knows, and no sweep looks for
  them (SYSTEM.md:1592 asks for one);
- a cycle without a "database is locked" error: the timeout of `state/db.py:42-44`
  bounds the wait, but the lock is held over venue calls that may take longer;
- the cap on positions itself: each other worker can add one (`shared_store`);
- the override `ACTIVE_EXCHANGES` is applied on each boot that sets it, although
  `loop/runner.py:74-77` says once (`BootKeepsVenues` excepts it);
- the silence rule of `diagnostics/anomalies.py:20-29` fires after an hour, and a
  healthy worker may be silent for an hour and the turns around it (`NotSilent`);
- the recovery of version 1.3 sells a perp short for coins that only the stale
  cache shows, so that a naked short comes of it, against `exchange.py:194-198`;
  `NakedShortsEnd` says that it does not stay, provided that the hedge check is on:
  with `enforce_hedge_check` off (`bot.py:1414`) nothing looks for it;
- exit-all of version 1.3 passes over rehydrated rows at KuCoin (`bot.py:1345`,
  1391-1396) and counts as served all the same (`ExitAllIsServed` is about the flag);
- churn: the gate reads its basis off the walk of the books and the exit its own off
  the mid prices, and the difference, the spread in contango, is multiplied by the
  buffer on the exit's side alone. `NoChurn` needs thresholds further apart than that
  (`ThresholdsApart`), which the defaults are for tight books only: 20 % and 5 % a year
  are 1.2 basis points apart in a window of eight hours, a third of which is 0.4. With
  an exit threshold of 850 instead of 10 the run finds a pair that the gate approves at
  900 and the exit would close in the same market. SYSTEM.md:584 has the exit ask
  whether "my entry-style gate" would "approve it at the more lenient exit threshold"
  and calls the thresholds "directly comparable";
- the perp of version 1.3 is sold for coins nobody bought, when the spot order filled
  nothing and its answer states the amount ordered (`bot.py:2118`), although
  `bot.py:2147` says "for the EXACT spot-filled qty" (`BooksMatchLegs` excepts it);
- coins of a base without a pair against USDT get no row from the recovery and no
  sale from the sweep, ever (`bot.py:738-750`), although `bot.py:794-796` says that
  "the portfolio view must always be complete" (with `Priced` empty
  `PhantomsAreRecorded`, asked of `Bases`, is violated);
- the safety factor of 0.99 in `size_entry` covers slippage and fee together up to
  about 1 % (`SafetyCovers`). Both are parameters of `InMemoryGateway`; with larger
  ones a size that is returned costs more than the wallet holds, which
  `max(0.0, ...)` in `gateways/paper.py` hides;
- `paper_slippage_bps`, `paper_fee_bps` and `paper_starting_equity` (SYSTEM.md:1023-1025)
  are loaded (`loop/runner.py:234-236`) and reach no code: the runner builds its paper
  gateways with the defaults and without books or balances (`loop/runner.py:204`), so
  that its paper workers find nothing to trade. What `PaperTrading` models is the
  gateway with books and a wallet, as the tests set it up;
- the paper futures wallet is a ledger only under `MarginCovers`. With a second
  position (`max_open_positions` is 1 by default) the margin of one is not kept apart,
  and a buy that costs more than the wallet holds, in a market that has risen far
  enough, is cut off at zero;
- two overlapping ingests of version 1.3 store a movement twice (`InjectionsOnce`
  excepts it through `raced`).

### Fairness

- `EntryExecutor`: weak fairness of the caller's steps (its thread is scheduled)
  and of the venue's (`FairSpec`: every call returns or raises). `HangingSpec`
  drops the venue's: ccxt's own timeout is what stands between the two.
- `TradingCycle`: weak fairness of `Worker`, because `_worker_loop` is an endless
  loop whose crashes are caught. Strong fairness of `RecoverNaked` changing its
  row and of `MaintenanceClose` closing it: an order that can fill each time it is
  sent fills in the end. This says nothing of *when* the bot sends one. Nothing
  makes the bot enter, and only `ExitingSpec` (the run about exit ids) has a
  market that calls for an exit again and again. The operator, lost legs and
  faults have no fairness.
- `SharedStore`: weak fairness of each worker's cycle going on: its flush gets the
  lock, or its five seconds pass. Restarts have none.
- `LegacyBot`: weak fairness of `Pass`, the loop, and strong fairness of a cycle
  that starts with balances fetched anew: the cache lasts 30 seconds and a failing
  call does not fail for ever. What the operator leaves alone is the premise of the
  properties (`Attended`), not an assumption about him. `PhantomsAreRecorded` also
  asks for a strategy that has stopped entering, since a rollback of an entry that
  sells nothing can put back what the recovery has just sold.
- `LegacyFunds`: weak fairness of the cycle's steps. `TransfersSettle` is about the
  time after the last candidate that passes the screen.
- `Runner` needs none: its bounds are in ticks, and a turn takes at most `Loop`.

## 4. The theorems

All hold for every value of the constants that the named assumption of the module
(`ExecutorAssumption`, `CycleAssumption`, `StoreAssumption`, `RunnerAssumption`,
`PaperAssumption`, `LegacyAssumption`, `FundsAssumption` with `CapitalAssumption`)
allows, and those that need more say so in their statement.

**EntryExecutorProofs.** `TypeCorrect`, `Settled` (a property of the steps after the
return, about every leg but those whose call raised), `Honest` and `Refinement`
(`Spec => ImplementsContract`). The invariant is
`TypeOK /\ FuturesAgree /\ CallerAgrees /\ ReportAgrees`: a future's result agrees
with the order unless its call raised; the caller's dictionary agrees with the
futures and with where the caller is; the report agrees with both and with the
rollback. None of the properties is inductive without these, since they speak of
the return only. For the refinement every step before the return maps to a
stutter (`SameReports`), the step that returns to `Enter` (`ReturnEnters`), and an
order that is decided after it to `Settle` (`ReturnSettles`).

**TradingCycleProofs.** `TypeCorrect` and `OneRow` hold under every fault and any
loss. `Tracking`, `NotDoubled` and `NakedAlone` assume `WholeLosses`
(`LossSizes \subseteq {Qty}`: a leg is only ever lost whole), which is needed: see
the partial loss above. The invariant is
`TypeOK /\ VisitOK /\ OneRowPerBase /\ (WholeLosses => HoldOK)`:

- `VisitOK`: the rows a pass has still to visit have the status it is for, so that
  every event has a rule;
- `HoldOK`: for a base that is not misled, the legs are whole (`Sized`), the
  session's row fits them (`Covered(rows, b)`: no row means no legs, `naked_spot`
  means no short, `naked_perp` means no spot), and so does the *committed* row
  unless the cycle has traded the base. The last part is what makes a lost session
  preserve the rest, and is why the properties alone are not inductive.

Every handler is shown to have one shape (`Handled`: it changes one row and one
base and leaves a row that fits), once per handler, and the invariant is shown to
follow from that shape once (`HandledInductive`). `OneRowPerBase` is what lets a
handler that closes a row conclude that the base has no other. Legs are multiples
of `Qty`, which is all the arithmetic there is (`WholeLegs`).

`PhaseAHedged` and `ClosedFlat`, in the same module, assume `Steady` (no leg is
lost, the integrity check is on, maintenance is never switched on) and the second
also `Truthful` (no lost answers, no failed reads). Their invariant adds, with
`Handled` for each step,
`NoLongs` (no base the bot knows the truth about has a long perp: this is what
maintenance and a vanishing leg break), `HedgedSoFar` (after pass 2 every open row
it has visited is hedged, pass 3 makes rows open only by hedging them, an exit
takes its own base's legs only) and `ClosedStays` (what the database has closed
the session has too, so that a lost session closes nothing).

**SharedStoreProofs.** `RecordsAgree` (with the types), `CapExceeded`, `LockedExact`,
`Isolation` and `ImplementsAlone`, for any number of workers and bases and any cap.
Rows and legs agree because `OthersAgree`: a session changes the rows of its own worker only, so
that what another worker sees of *its* rows is the same in both tables; with
`TargetsAgree` and `SentAgree` for the orders that are out. For the cap it is
counted which workers have passed the check and not yet inserted: a session's table
and these workers together stay within the bound (`Room`), and a check made under
the lock stays true until the position is in (`LockedRoom`).

`ImplementsAlone` (`Spec => Alone(w)!Spec` for each worker `w`, and `Isolation`, the
same of all of them as the run checks it) takes every step to a step of `WorkerAlone`
or a stutter, one lemma per kind of step: the orders that go out (`SendIsolated`), the
flush that records them (`RecordIsolated`), the commit, the two ways of losing a
session (`LockedOutIsolated`, `RestartIsolated`), and the steps in which no row of any
worker changes (`QuietIsolated`). Its invariant adds `TargetsFit` to the above: the
orders of a close are out for a position the session has, those of an entry for one
it has not, so that recording them changes exactly the rows of `target`.

**RunnerProofs.** `LiveAccounts` and `NoneLeftBehind` from `BootInv` (while it
boots, each worker of an activated venue is still to come, runs, has raised, or was
refused for its account; a start that raises changes nothing for any other), `VenuesKept` as a
property of the step, `Ingested` and `HeardOf` from `ClockInv`: a flow that is
missing has been so for no longer than the last ingest is ago, or, once the
throttle is over, than it takes the worker to come to its next ingest, unless
something has failed since; the same for the heartbeat, one step later in the
turn. The properties are not inductive: they bound the time at the end of a wait,
the invariant at each of its points.

**PaperTradingProofs.** Three theorems about sizes, for books of any length:

- `SizeIsLargest`: the maximum over the levels, as `size_entry` takes it, is the
  largest quantity that the book fills and the wallet funds at the price of the last
  level it reaches. That the code looks at one candidate per level loses nothing:
  between two cumulated depths the price is constant (`ReachedLevel`, `TakenTotal`).
- `ForecastHolds`: what an entry pays for its coins and gets for its perps is worse
  than the forecast by the slippage at most (`gateways/paper.py:190-192`), since the
  forecast is the average at the bindings, and averages over a sorted book only get
  worse with size (`TakenBeyond`, `TimesThrough`).
- `SizesFill`: what is returned is filled by both books and paid for by the spot
  wallet, under `SafetyCovers`: the safety factor times slippage and fee is
  at most one. It holds for the defaults (5 and 4 basis points against 0.99).

`CoinsOfRows` and `SpotLedger` (the second also under `SafetyCovers`) are about the
wallet over any history. The invariant is `WorkerInv`: the types, `CoinsMatchRows`,
and coins that are those of the ledger. The coins are never clamped, whatever the
margin, because `CoinsMatchRows` says that what a close sells is there or the sale is
a duplicate. The quote may be, at an entry, and there `SizesFill` bounds the cost.

`FuturesLedger` (`FuturesIsLedger`, under `MarginCovers`: one position at a time, and
no bid and later ask so far apart that the difference, slippage and fees included,
exceeds the margin of a position) has the invariant `Solvent`: the wallet agrees with
the ledger, and for the position that is held it has what buying it back at any quote
can cost, unless its exit id is spent. The property alone is not inductive, since it
does not say what is left when the market has moved. An entry establishes the rest:
the sizing has left the margin of the position in the wallet (`MarginOfPosition`,
`EnterSolvent`). A close, filled or refused, spends the id (`CloseSolvent`).

`NoChurning` (`NoChurn`, under `ThresholdsApart`: for every quote, the entry threshold
exceeds the exit's by the multiple of what the basis gains from any ask and bid of its
books to its mid prices, and the quote is neither at the stop nor dislocated by its own
spread, slippage included) takes the triggers of the exit one by one, for pairs in
contango and in backwardation. The forecast is an average over the levels taken, and so no
better than the worst and no worse than the best of them (`SpentBeside`, `CrossBelow`,
`CrossAbove`, `ForecastIs`), and the basis is monotone in both prices (`BasisMonotone`): what
the exit charges above the gate is what `ThresholdsApart` bounds (`GateImpliesHold`). For
the stop and the dislocation, the entry prices lie beside some level in the same way
(`SpentAtLevel`, `EntryPrices`, `EntryIsInside`).

**LegacyBotProofs.** `BooksAgree` (`BooksMatchLegs`) and `NoReentry`
(`NoSecondEntry`), for any bases, lots and limits, any number of faults, outside
trades, manual closes and restarts. The properties speak of the moment between two
cycles, `BotInv` of every pass:

- `RowOK`: how the three copies of a row relate. Naked rows are flushed at once;
  what a query finds open is open or has been closed since in memory; between
  cycles all three are equal;
- `PairOK`: of the rows of a base at most one is naked, and at most one is open
  without a query finding it. The unflushed row is why: a query does not find what
  the session has just opened;
- `RoomOK` and `HedgeOK`: an unused row for what the recovery or the entries have
  still to do, and what holds between the two orders of an entry;
- `Trusted(b)`, for a base that nothing has misled: its rows and legs agree, a pass
  meets no row of it but its open one, and a base still to be recovered, entered or
  swept has none, so that the recovery hedges and the entry buys only where no short
  is. The clauses are what each pass hands on to the next.

`BotInv` was found to hold by TLC first, exhaustively for one base and one fault
(661 thousand states). A spot answer taken for another amount than it bought, and an
unhedged position that is passed over unchecked, make their base `misled`; for the
others `Taken` is what was bought, and coins that get no row are no disagreement, since
`Agree` asks for at least the coins of the short. The proof has one lemma per action,
and the base a step does not touch is dealt with once (`UntouchedTrusted`, `KeptIs`).

**LegacyFundsProofs.** `Injections` (`InjectionsOnce`), for any movements. The
invariant says what each of the two sessions may still store, given what the other
has committed (`SessionsAgree`), and that the bot's own transfers are in neither.
`Funded` (`SizedIsFunded`) has the invariant `FundsInv`: for a currency that nothing
surprised, what was read before trading covers what comes, main is empty once it has
been swept, and the copy that sizing uses is covered by the wallets, *while the cache
it was copied from need not be* (`Backed`); and an order is no larger than that copy
(`OrderSized`). What the transfers do to the three wallets is stated once per outcome
(`HopsAre`, `ToFuturesIs`, `ToSpotIs`, `SweptIs`), for both venues.

**SumProofs.** A sum over a finite set, as the community modules fold it, can be
taken by any of its elements, is monotone, additive, and bounded by a factor term
by term; a nonempty finite set of integers has a maximum. These facts are not in the
library, and its induction theorems cannot be used, so `SumProofs` takes least
counterexamples among the subsets of a finite set (`LeastSet`): induction over a set of
*sets* needs no operator as a parameter.

Every invariant and every action property of the passing runs is thus a theorem. Only
model-checked is what is temporal beyond these: `CallReturns`, `CyclesEnd`,
`NakedResolved`, `MaintenanceDrains`, `NakedShortsEnd`, `PhantomsAreRecorded`,
`ExitAllIsServed` and `TransfersSettle`. Liveness under fairness is out of the
prover's reach. What the runs that find a violation ask is not provable, being
false.

## 5. Not modelled

Page rendering, authentication, the configuration form, diagnostics and the parity
script, repository automation (`.github/`) and payload parsing in the gateways have
no protocol of their own. Floating point is left out: sizes and money are integers,
yields are sums per funding window. Left out of modelled components:

- `TradingCycle`: `trades` and event rows, the ranking of candidates, margin calls
  at an entry other than as a refusal; `PaperTrading` has the ranking;
- `Runner`: the balance snapshot, signal handlers, and the transaction ids that
  Hyperliquid repeats for two flows of one transaction
  (`gateways/hyperliquid.py:305`), since a flow is its id here;
- `state/db.py`: the column migrations; `_copy_legacy_hedge_column` (186-203) copies
  the retired switch again at each boot;
- the transfers of the live gateways, which no code under `loop/` calls, and
  `size_sell_spot_flat_cap` of `core/sizing.py`, which only tests call;
- version 1.3: paper mode, unified accounts, the cross-venue trade types, the pseudo-assets of Binance
  Earn, the pages other than the buttons that change rows or flags, `trades`, events and fees.

## 6. Plan

What is left, in this order:

1. `LegacyCapital` on its own: the two ingests over one table as an abstract
   specification of a set of movements, each counted once.
2. The operator's `/run-once` of version 1.3 concurrent with the loop.
