# NeuraTrade: TLA+ specifications

Specifications of the trading core of this repository, the TLC runs that check
them on small instances, and the theorems TLAPS proves about them for every
value of their constants. The code is the reference: every definition is a
translation of the lines `PROJECT.json` ("map") names for it.

Paths below without a directory prefix are under
`src/services/neuratrade-cli-ts/src/`.

## 1. The system

The CLI (`cli/scalp.ts`) runs trading loops. A loop iterates over one symbol
or, as a *watchlist sweep*, over many symbols in up to sixteen concurrent
fibers; several such processes may share one SQLite database and one exchange
account. An iteration loads a row, asks the gates (kill switch, circuit
breaker, risk guard), talks to the exchange, and saves the row. Every `yield*`
that waits and every commit is a point at which other fibers and processes
move, or at which the process dies.

### Components

| Component | State it keeps | Operations | Interacts with |
|---|---|---|---|
| Kill switch `risk/kill-switch.ts` | row `risk_kill_switch(1)`; one in-memory mirror per process | constructor, `engage`, `disengage`, `isEngaged` | asked by the spot, futures, flow, live grid and live ladder engines; engaged by them on a mismatch and by the operator |
| Circuit breaker `risk/circuit-breaker.ts` | one row per UTC date: summed loss and latch | `recordTradeResult`, `isOpen`, `reset` | told by every engine after a close, asked before an entry |
| Risk guards `risk/guards.ts` | none | `check` | called with what the iteration read at its start |
| Spot engine `paper-trading/engine.ts` | `paper_portfolio`, `paper_positions`, `paper_trades` | one iteration: exit, scale-out, entry or hold | repository, adapter, gates |
| Futures engine `paper-trading/futures-engine.ts` | the same rows, shared with spot | the same | the same |
| Grid engine `paper-trading/grid-engine.ts`, reconciliation `live-position-reconciliation.ts` | one grid row per symbol, grid trades | reconcile, adopt, latch, open, close, finalize | futures adapter, gates |
| Ladder engine `paper-trading/ladder-engine.ts` | one ladder row per symbol: rungs of both sides, pause, drawdown | load or reseed, guard, replay of missed bars, the bars' orders, rollback, save | futures adapter, gates |
| Ladder portfolio `paper-trading/ladder-portfolio.ts` | member rows, their sum; in memory the members' reported capital and their shares | report, add up, re-derive the shares | the sweep, repository |
| Flow engine `scalping/flow-trade.ts` | one `flow_trade_state` row per symbol | enter, guard, trail, close, clear | futures adapter, gates |
| Repository `paper-trading/repository.ts` | the SQLite tables above | upserts and three transactions | all engines |
| Adapters `exchange/adapters/*` | orders and positions at an exchange | `placeOrder`, `closePosition`, `getPosition`, cancel | exchange |
| Loops and sweep `cli/scalp.ts` | remaining iterations, last error | start, run the watchlist, skip, count, abort | everything above |
| Gateway `cli/gateway.ts`, `services/gateway-orchestrator.ts`, `process-manager.ts`, `pid.ts`, `gateway-state.ts`, `utils/signal.ts` | PID files, state file, child processes | start, stop, status | operating system, the services' health endpoints |
| Rate limiter `services/rate-limiter.ts` | two token buckets | `acquire` | REST clients |
| Knob search `autoresearch/loop.ts`, `lock.ts`, `mutate.ts` | `champion.json`, `claimed.json`, a lock file | trial, keep or discard, claim; acquire, take over, release | its parallel workers, started by pm2 |
| Telegram service `src/services/telegram-service/` | sessions | send with retry, handlers | backend API |
| Market data, flow recorder, indicators, backtests, readiness reports | caches, or nothing | | |

### What is hard

* **The window between a gate and an order.** The switch, the breaker and the
  account are asked; then the code waits for a market or an exchange.
* **Effects without a row.** An order can fill while its answer is lost, its
  poll is early, its save fails, or the process dies.
* **Two writers of one row.** Portfolio and breaker rows are shared by all
  symbols of all processes. The breaker accumulates in one SQL statement; the
  portfolio is read, worked on across network waits, and overwritten.
* **Latches with release rules.** A killed row, an engaged switch and an open
  breaker each have their own conditions of release, and they interact.
* **A ledger of rungs against one net position.** The ladder keeps long and
  short rungs; a one-way account nets them. Bars are advanced in memory, their
  orders sent afterwards, and the row saved last.
* **Commands without a server.** Two gateway commands share PID files and a
  state file, identifiers are reused, services die, stay deaf or ignore
  SIGTERM.
* **A lock told by its age.** The search's workers take a lock file for
  abandoned after thirty seconds, whoever holds it.
* **Several commits in one operation.** Close, book, tell the breaker, save the
  capital, save the position: any prefix may be all that happens.

### What makes each component correct

* Kill switch: once a stop is persisted nobody is cleared until it is lifted.
* Circuit breaker: the row is the fold of the day's results, the latch never
  opens by itself, entries after the halt are only those already cleared.
* Portfolio: the capital is the deposits and results in the ledger; a blown
  account stays blown; every lot is traded once.
* Flow and grid: what can be held at the exchange is bounded by what a row
  knows and by the number of lost effects; a stop lets one order through at
  most; a difference is settled in the end; a killed position is left alone.
* Ladder: what the exchange can hold is bounded by the open rungs and the
  failures; rungs leave only with their orders; a position the ledger does not
  know of is closed; a drawdown pauses, it does not end the ladder.
* Sweep and portfolio: a bounded run ends, close to its limit; the portfolio is
  the sum of its members; shares come from capital that members have.
* Gateway: stop finds what start spawned and signals nothing else; a failed
  start leaves nothing; every command ends.
* Rate limiter: no window sees more than its bucket and its refill, and no
  request waits for ever.
* Knob search: whatever the workers' order, the champion only gets better, a
  claim is made once, and a dead worker's lock does not block the others.

## 2. Modules

| Module | Models | Runs |
|---|---|---|
| `KillSwitch` | the row, the mirrors, several processes with several fibers | `killswitch` |
| `CircuitBreaker` | the breaker's rows and the loop around them | `breaker` |
| `PaperPortfolio` | spot and futures iterations on the shared portfolio row | `paper_portfolio`, `paper_portfolio_blown` |
| `PositionRow` | abstract: what an engine promises about the row of a symbol | refined in `flow` and `grid` |
| `FlowTrade` | one flow symbol and its Bybit position | `flow` |
| `Grid` | one grid symbol, live (Bitget) or simulated | `grid`, `grid_live_liquidation` |
| `Ladder` | one live ladder symbol, both sides on a netting account | `ladder`, `ladder_targets` |
| `Sweep` | the watchlist sweep of a process and the ladder portfolio | `runtime`, `sweep_plan` |
| `RateLimiter` | the limiter in front of an exchange's REST interface | `runtime` |
| `Research` | the parallel workers of the knob search over their lock file | `runtime` |
| `Gateway` | start and stop of the services | `gateway` |

`MCx` gives module `x` its values for TLC; `xProofs` holds its theorems.
`MCGrid` runs two instances of `Grid`, live and simulated, and chooses one at
the start (`mode`); `Runtime` does the same with `Sweep`, `RateLimiter` and
`Research`, three parts that share nothing (`part`). A
definition under a comment "Mutant: ..." is not part of the specification: it
is a plausible bug in the code, and `PROJECT.json` ("mutants") names the
definition it replaces and the property that then fails.

**Abstraction.** Prices, fees, signals and exit reasons are choices: every
decision that depends on them may go either way. Sizes are whole lots, capital
and results small integers. A row keeps the fields a decision reads. Text,
logging and time of day are left out, except where the code's day boundary
matters (`CircuitBreaker`).

**Steps.** An action is the code from one wait or commit to the next. `pc` (or
`phase`, `answer`) says where an iteration is; `st` or `copy` is what it read.
History variables (listed apart in each module) are read by properties only.

### KillSwitch

`Engage` sets the mirror, then updates the row; the update may throw or hit no
row. `Disengage` does the reverse. `IsEngaged` reads the row and falls back on
the mirror only when the read throws; a missing row is an error. `Start` is the
constructor, which inserts a disengaged row when there is none. `Exit` is a
crash, or the end of the loop on a `KillSwitchError`.

### CircuitBreaker

`Accumulate` is the SQL upsert that adds and latches in one statement.
`ReadDay`, `Book`, `Record`, `CheckOpen` and `Enter` are the iteration around
it: the realized PnL of the day is read at its start, used by the guard at its
end. A close is booked under the candle's date and recorded under the clock's,
which differ around midnight (`candleDay`, `today`).

### PaperPortfolio

`Read` loads the row and the position; `Market` is the wait for candles and
order book; then an iteration holds, saves what it read (`Save`), enters
(`PlaceOrder`, `Open`, `SettleEntry`), closes (`Close`, `Book`, `SettleClose`,
`Record`) or scales out (`ScaleOut`, `SettleScaleOut`, `Resave`, `Record`).
`Book` and `ScaleOut` are the repository's transactions. `Die` is any error or
crash: these two loops catch nothing. `fresh[s]` says whether the row is still
worth what `s` read; `torn` that an iteration saved over another's change, or
died between its ledger entry and its save.

### FlowTrade

The loop of the `flow-trade` command: `Load`, `CheckSwitch`, `CheckBreaker`,
`LoadMarket`, then `Enter`/`RecordEntry`, or `Guard` and
`EngageSwitch`/`Latch`, `Hold`, or `Close`/`Clear`. `Skip` is an error the loop
survives, `Fatal` one that ends the process. `Enter` covers every outcome of
`placeOrder` with its polls and its cancel; what keeps working at the exchange
is `loose`, filled or cancelled by the exchange.

### Grid

The same for `runGridPaperTradingIteration`: `Load`, `Gate` (killed row), `Candles`,
then for a live symbol `Reconcile` with its outcomes (adopt, dump an unusable
position, engage-cancel-latch), the switch and the breaker; `Bar` with pause,
entry and exit; `Book`, `Account`, `Finalize`. `SaveOrStop` is the save with
retries that engages the switch when it gives up. A process may be started
again with other options than the row's (`cfg`): `Load` then rewrites a flat row
(`Reseed`, which also drops its latch and its pause), takes new limits into an
open one (`Refit`), or holds a live one entered under another capital (`Held`,
`gridProvenanceMismatch`), every iteration, before anything is compared with the
exchange. The code holds likewise a live open row without a live or adopted entry
or without a fingerprint; such rows are left by a simulated run or an old version,
which a symbol that is live throughout never meets. `CancelOrders` may do
nothing without a fault (`cancelOpenOrders` is optional, and Bitget's adapter
has none); an order that does not fill is an ordinary outcome of `Enter` and
`Close`, and a fault is charged only when the answer says less than what was
done. With `Live = FALSE` the same
module is the simulated grid, which asks neither switch nor breaker. The
exchange nets the two sides, and reduce-only orders shrink with the position.

### PositionRow

The abstract row: opened flat to a side with a quantity, closed or latched as a
whole, never changed or turned while open; a latch on a position is final, one
on a flat row may be released. `FlowTrade` and `Grid` implement it by the
mapping `side <- row.side`, `qty <- row.qty`, `killed <- row.killed`
(`KeepsPositionRow`), checked and proved: whatever dies, fails or is saved
late, a reader of the database sees only these steps.

### Ladder

`Reload` and `Reseed` are the load of a row whose configuration differs: a flat
one starts anew, an open one is closed on the ledger only under `force-reseed`
and holds for good under `hold`, the default (`configMismatchAction`, the value
of `edited`). `Fetch` needs a new candle; `Guard` asks switch, breaker and agreement block once and, on a flat
ledger, looks for a position to close (`Reconcile`). `Advance` is
`advanceLadderBar` on the working copy, once per missed bar: re-anchoring,
seeding, and per side the fills, the stop or liquidation, the position's and
the account's drawdown, the targets and the age limit. Then the events are
executed, all entries before all closes (`PlaceFill`, `ShutClose`); an entry
that is not confirmed may be unsent, filled, or working. `Rollback` keeps the
rungs of the row and consumes the bars; `Record`, `Tell`, `Save` commit them.
`Abort` is an error or crash, after which the same bars are replayed: a bar is
a *fact* (how deep it touches, stops, kills, expires and reaches targets, and
whether it ends at the drawdown limit), chosen when it closes and not when it
is read; the newest candle alone may be seen while it forms (`Form`). The window
slides: when `MaxBars` have come since the row was saved, the oldest drops out
unread (`NewBar`). A bar at the window's start may be skipped because its trend is
not known yet; `Seen` bars at its end never are. The agreement block follows a
refused entry or close that names it. The rungs of a side lie one step apart and fill in order, so prices
reduce to depths: a bar touches, kills and expires the first rungs up to one of
them and reaches the targets from one of them on. A side is a function from the
indices of its rungs to `Armed` or the bar's place in its window, which the code
stores as an index and the model counts from the window's end.

### Sweep

`Begin`, the iteration, `SaveMember` and `Count` are one entry's way through
`runWatchlistEntry`, `Width` entries at a time in the watchlist's order.
`Refresh` re-derives the members' shares at the start of a sweep, `Summarize`
adds the member rows up at its end. `LadderIteration` turns every error into a
hold with the capital it finds, 0 without a row, the initial one when the row was
saved just before; a grid error that is no network error, and a failed save of a member, end
the process (`Abort`). An entry that the cohort excludes has no member row, since
every start has the same options, so leaving it out does not unbalance a sweep
(`clean`); one left out because the iterations are used up may. What an iteration does to its symbol is the matter of
`Ladder` and `Grid`.

### Gateway

A command is a process with its own record (`cmd`): `BeginStart`, `Spawn`,
`WritePid`, `Healthy` or `Unhealthy` for each service, `Started`; `BeginStop`,
`ReadPid`, `CheckProcess`, `Signal`, `Await`, `RemovePid` for each service,
`Stopped`. A PID file that cannot be read counts as missing, and a `ps` that
fails as a foreign process: `stop` then forgets a service that lives
(`pid.ts:114`, `80`; `process-manager.ts:292-301`), each a fault. `Signal`/`Await` are `signalAndWait`, also used by a start that
gives up. Around them services `Boot` (a second instance finds the port taken
and exits), `Exit` after SIGTERM if they like, `Die`; identifiers still named
by a file are given to other programs (`Reuse`); commands are killed.
`rash` counts the commands issued beside another and the starts issued while a
service runs.

### RateLimiter

`Ask` is the call of `acquire`, `Try` its `Ref.modify`: refill both buckets,
take from both or compute a sleep. One tick is the time of one token; both
shipped configurations fill the two buckets at the same rate. `SetClock` moves
the wall clock under the limiter.

### Research

A worker (`worker`) is somewhere in a section of `withFileLock` or between two
of them; `job` says which section it wants or is in (seed, trial, claim) and
`draft` what it would write. `Acquire`, `Check`, `Unlink`, `Release` and `Drop`
are the lock's file accesses one by one: `Check` and `Unlink` are the two
halves of `tryRecoverStaleLock`, `Release` and `Drop` of `releaseOwnLock`, and
between them others move. `ReadSeed`, `Evaluate`, `ReadTrial`, `Truncate`,
`Write`, `ReadClaim` and `Claim` are the sections; `writeFileSync` empties the
file before it fills it. Evaluations have any outcome, and a claim candidate
may fail its holdout. `Age` makes a lock old when its owner is gone, or
evaluates under it; any other owner grows old by `HoldUp` only, which counts as
a mishap like `Crash` and `Throw`. `spoiled` records that a living worker lost its
lock or a write was cut off: the two safety properties are about the time
before that, the rest is described below.

## 3. Runs

| Run | Instance and bounds | States | Shows |
|---|---|---|---|
| `killswitch` | 2 processes, 3 fibers; unbounded failures and restarts | 10,375 | a stop holds for everybody; one order may follow it; a stop never lifted ends all trading |
| `breaker` | 2 callers, results -3, -2, 1, limit 2, 2 days, 3 trades | 264,941 | no result lost, one entry each after the halt |
| `paper_portfolio` | one spot and one futures symbol, capital 2, fee 1, results -2, 1, 6 iterations | 256,589 | capital matches ledger unless torn; blown is never fresh; one entry each on a blown account; lots traded once |
| `flow` | entries of 2 lots, 3 faults, 1 stop | 123,950 | exposure, stop, abstract row; a position is closed or latched |
| `grid` | entries of 2 lots, pause 1, 2 faults, 1 stray order, 1 stop; live or simulated | 543,988 | exposure, stop, accounting, abstract row; a live difference is settled |
| `ladder` | 1 rung a side, 3 kinds of bars, windows of 2 new bars, 1 fault, 1 change of configuration, 1 stop | 288,628 | exposure, stop, rungs leave with their orders; orphans are closed; a drawdown ends |
| `gateway` | 2 commands, 2 services, 3 identifiers, 1 fault, 1 rash command; both services are started, or telegram alone | 417,124 | no foreign program signalled; orphans are owed; the mode is true; a failed start leaves nothing; commands end |
| `runtime` | sweep: 2 ladder members and a grid symbol, 2 at a time, up to 2 iterations, 2 faults; limiter: 2 callers, buckets of 2 and 4, 2 requests each, 1 set clock; search: 2 workers, scores 0 to 2, 1 mishap | 397,864 | overrun, portfolio, end of a bounded run; bursts, service; champion, claim, abandoned lock |

**Why the bounds suffice.** Two lots are the fewest for which a partial fill
exists. Two processes with two fibers in one of them are the fewest with both
kinds of sharing (mirror and row). Two symbols are the fewest writers of one
portfolio; six iterations let each read, be overtaken and read again after
the account blew. A breaker limit of 2 with results -3, -2 and 1 is passed by
one result, met exactly by one, or passed after a profit. Three faults of the
flow allow a lost effect, a failure while dealing with it and a crash; two of
the grid, beside an order left working, a failure and a crash, or a restart with
other options. A ladder of one rung
a side has both sides to net, and two bars at once make a replay with an older
and a newest bar, and a third makes the window slide; the three kinds of bars
between them fill both sides, reach a target, expire and kill, with and without
a drawdown (with one rung a kill and the stop boundary do the same). `Seen` is 1,
which lets every bar but the newest be skipped, more than the code's
window, two bars longer than the trend's period, allows; it is 2 in
`ladder_targets`, so that no bar is skipped there. With one fault
there are a rolled-back bar with a stray order and an orphan. Two gateway
commands are the fewest that interleave, and three identifiers one more than a
start needs, so that one can go to a second start. Three entries, two at a
time, make one wait for another in a sweep; capital up to 3 with weights 1 and
2 lets every share change. Two callers race for a bucket of two tokens, and
four ticks cover the large bucket's window. Starting telegram alone reaches the
orders that starting both does not: a start that fails on its first service.
Two workers of the search race for the lock, scores up to 2 leave one to
improve on, and a champion without a score is evaluated under the lock, so that
a lock grows old under a living owner without any mishap. `mishaps`, `faults`,
`strays`, `stops`, `edits`, `rash`, `sets`, `asks`, `runs`, `trades`, `MaxBars`
and `MaxCapital` are the only
bounds on behaviours; the theorems below hold for any values of them
(`Research` has none).

Deadlock is checked except in the two `PaperPortfolio` runs, where the bound on
iterations ends every behaviour, and in `runtime` and `sweep_plan`, where a
bounded sweep ends.

**Fairness.** `KillSwitch`: a fiber that was cleared sends its order or loses
its process; nothing else has to happen. `FlowTrade` and `Grid`: the process is
restarted, and a running loop takes its next step (the loops run until they are
stopped and every awaited call ends with a result, an error or a timeout);
`FlowTrade` also needs the hold time to pass. Faults are finitely many, so
fairness of an iteration means it succeeds in the end. Nobody is assumed to
disengage a switch, fill or cancel an order, or liquidate. `Ladder`: the loop
takes its next step, the market closes bars, and the agreement block, a period
of time, ends. `Sweep`: the process is restarted and every iteration ends.
`Gateway`: a command takes its next step, since its probes and waits have
timeouts; nothing is assumed of the services. `RateLimiter`: time passes and an
awake fiber runs. `Research`: a worker takes its next step and is restarted when
it ends (pm2, `ecosystem.autoresearch.config.cjs`, at most a hundred times in a
row), and a lock that may grow old does.

### Disagreements between code and text

| Run | Text | What the code does |
|---|---|---|
| `paper_portfolio_blown` | a blown account "must stay terminal" (`paper-trading/repository.ts:1318-1320`) | an iteration that read the row before the loss saves the old capital over it |
| `grid_live_liquidation` | a live liquidation closes at the exchange "before clearing local state and activating the kill switch" (`docs/superpowers/specs/2026-07-18-readiness-results.md:193-195`) | only the row's flag is set, and lifted on the next bar; the process-wide switch stays off |
| `ladder_targets` | the engine "mirrors the backtest's per-bar state machine" with its per-rung take profit (`paper-trading/ladder-engine.ts:5-11`) | `rung.entryBar < ctx.barIndex` (line 825) compares indices into a window of constant length: with one new bar at a time it is never true, and no target closes |
| `sweep_plan` | "a member that errored all cycle ... so the plan no-ops" (`cli/scalp.ts:4418-4421`) | the error becomes a hold with the row's capital, or 0, which is reported like any other (`cli/scalp.ts:4795`, `4878`) |

Each run checks one property, named for the sentence it states, and TLC shows
the shortest behaviour against it. The sentence behind `grid_live_liquidation`
can be read more weakly: the grid calls its row's flag "kill switch" in its notes
(`grid-engine.ts:584`, `1714`), and `grid-engine.test.ts:1447-1518` asserts that
flag; the run takes the words for the switch of `risk/kill-switch.ts`, which the
same engine engages on a mismatch. It has no fault, stray order or stop: none is
needed. Four more were met in these modules and
have no run:

* "a failed persist still blocks this process" (`risk/kill-switch.ts:50-52`):
  it blocks until the next readable row, which overwrites the mirror
  (line 121).
* "a restart resumes the open position instead of double-entering"
  (`scalping/flow-trade.ts:20-21`): a death between the fill and the save
  (line 437) leaves a flat row, and a flat row enters. `ExposureBounded` counts
  it as a lost effect.
* "stop trading when drawdown exceeds this percent"
  (`paper-trading/grid-engine.ts:68-69`): a flat row killed by the drawdown is
  released by line 580 and opens again on the next bar.
* "Exclusive file lock for shared champion.json" (`autoresearch/lock.ts:2`) and
  "Release only our own lock so we never delete a fresh lock that a racing
  worker (or a stale-recovery) installed" (line 92): a seed evaluation holds
  the lock for up to 225 seconds (`loop.ts:317-318`, budgets at 49 and 51) and
  counts as abandoned after 30, so two workers are in their sections; and both
  the recovery (lines 61-62) and the release (lines 162-164) read the file,
  then unlink whatever is there by then. In `Research` these are the
  behaviours in which `spoiled` becomes true.

### Observations

Met while modelling; each follows from the models or from the lines given.

* The release of a killed, flat flow row (`scalping/flow-trade.ts:230-235`) is
  dead code: a row is latched with its position only (`LatchHasPosition`).
* `guardFlowPosition` compares side and presence, not the quantity.
* A grid row killed with a position is held forever
  (`paper-trading/grid-engine.ts:578-585`): somebody has to edit the row.
* A flat grid row of another configuration is rewritten without its latch and its
  pause, also while the switch is engaged (`paper-trading/grid-engine.ts:525-544`).
* A live grid position whose row was entered under another initial capital is
  never compared with the exchange again until the options are set back: a
  difference stays as it is (`paper-trading/grid-engine.ts:511-517`, and the tests
  at `grid-engine.test.ts:553-587` and `753-800`). `LiveDivergenceIsResolved`
  excepts it.
* An adopted position is not managed while the grid pauses; with the switch on
  or the breaker open the grid and flow engines do not manage exits either.
* Any fill of a dump counts as done, so a rest may stay at the exchange until
  the next bar adopts it.
* A deleted switch row stops what runs (`kill-switch.ts:121`), but the next
  process that starts inserts a disengaged one (`kill-switch.ts:45-47`, `61`).
* Around midnight a close is booked on the candle's day and recorded on the
  clock's, so breaker and realized PnL of a day may differ.
* A sweep whose symbols all belong to the cohort, on a watchlist that does not
  own them, never decrements `remaining` (`cli/scalp.ts:4899` before `4922`): a
  bounded run of it does not end.
* `--iterations n` counts entries, not sweeps, and up to `n + 15` of them are
  begun: the count is tested before the work and taken after it.
* The ladder's loop turns a `KillSwitchError` or `CircuitBreakerError` into a
  hold (`cli/scalp.ts:4787`); the other engines' loops end the process.
* A ladder reseed records closes the exchange was not told of; the position
  goes when a flat ledger reconciles, and grows into the rungs of a ledger that
  opens first.
* The minute bucket of the limiter never binds with the shipped
  configurations: it refills as fast as the second's. A second can see nearly
  twice its limit, a minute its limit and one second's.
* A gateway `start` beside a running gateway overwrites the PID files with
  processes that then exit because the ports are taken
  (`process-manager.ts:249`, `src/services/telegram-service/index.ts:143`); stop
  no longer finds the first instance.
* When Telegram cannot be spawned, `start` fails with the backend running and
  the mode "starting"; a failed start leaves its PID files behind.
* `cleanupStale` of the process manager is called by no command.
* On a fresh directory one search worker evaluates the seed under the lock for
  minutes; the others give up after 200 tries 25 ms apart, end with "timeout
  acquiring lock" and are started again by pm2.
* A champion file cut off by a death in `writeFileSync` reads as none: the next
  worker seeds the search anew from `knobs.ts`.
* A spot or futures error ends the sweep; a grid error that is no safety error,
  and every ladder error, skips the symbol (`cli/scalp.ts:4716-4790`).

## 4. Proofs

The theorems hold for any processes, callers, symbols, results, sizes and
bounds, under the assumptions on constants that each module names (for
example: an entry has at least one lot, the initial capital is positive, fees
are not negative, results are integers, a weight that is not positive counts as
one, the buckets of a limiter hold at least one token, the process table and
the gateway commands that run at once are finite).

**Shape.** Each proof module first proves its type invariant, then one or more
inductive invariants, each with a step lemma that has one case per action, and
draws the listed theorems from them by temporal logic. Sums over sets and
sequences are taken by recursive functions (`MapThenSumSet` of the library,
`Sent` of the limiter, `Totals` of the breaker); that these functions exist,
and what they are bounded by, is shown by induction over sets of numbers (`SetOfNumbers`: a set that has 0
and with each number the next has them all), because the induction theorems of
the library take an operator, which no installed prover instantiates.

* `KillSwitchProofs`. While a stop stands the row is `on`, so no answer can
  become clear; and a caller that still holds an old clear answer has sent
  nothing since. That is `StopInv`; `OneOrderAfterStop` and `StopSticky`
  follow. `MissingRowStops` needs the types only.
* `CircuitBreakerProofs`. `HaltInv`: a caller that can still enter (`MayEnter`:
  cleared, or about to find the latch unset, with a loss the guard accepts) has
  not entered since the halt. The count alone is not inductive.
  `RowIsTheDaysResults` is inductive by itself, once `OneMoreResult` says what
  a further result does to the running totals of a list (`Totals`).
* `PaperPortfolioProofs`. `PositionInv`: from its read to its commit an
  iteration's copy of the position is the position row, which needs that only
  one iteration works on a symbol; `LotsOnce` follows. `AccountInv`: the row is
  absent or its peak covers the deposit and the capital; the same holds of every
  copy; a fresh copy is worth the row. Each save is then one lemma
  (`SaveAccount`) whatever is saved. `LateInv`: a symbol that has entered on
  the blown account has since read that it is blown.
* `FlowTradeProofs`. `ControlInv` ties `pc` to row and copy: when the two
  agree, that an entry starts flat, that a managed row has a side. `SentInv`
  and `ExposureInv` rest on it. The latter charges every lot at the exchange to
  the recorded position (`Vouched`) or to a lost effect.
* `GridProofs`. `ControlInv` (`Synced`, `Released`, `BranchSide`), `SentInv`,
  `OwedInv` (a close the breaker was not told of keeps the row open),
  `LedgerInv` (with the trade `Pending` between booking and saving) and
  `ExposureInv` (what the exchange can hold fits in one entry plus one for
  every stray order).
* Refinement. In `FlowTradeProofs` and `GridProofs` one lemma per action maps
  it to a step of `PositionRow` or a stutter; `ControlInv` supplies that a save
  starts from the row that was read and never from a killed one.
* `LadderProofs`. `IInv` is `Stages` (what is still empty at which `pc`),
  `Accounts` (rungs stored and rungs of the working copy differ by the bars'
  events, and no bar fills more than `N` of a side; orders executed never exceed
  events),
  `Exposure` (the bound with the batch of a fault or a reseed already paid for)
  and `Lateness` (entries since the stop, by the orders still to come). The
  exposure alone is not inductive: a rollback gives its claims back, and only
  its fault pays for them.
* `RuntimeProofs`. Sweep: `Counts`: while iterations are left, those begun are
  the ones counted off and the ones that run, which needs the cardinality of
  the running set. `Tallied`: in a sweep without errors the members that
  reported have their own capital in the row, so when all have, the two sums
  are equal. Limiter: what any window of ticks has let through and what the
  refilled small bucket still holds stay together within the bound
  (`Windows`), which a token spent now leaves as it is. Search: before anything is spoiled
  only the owner that the lock file names is inside a section, and it is where
  the champion it read still stands. A step of the composition is a step of
  one part and a stutter of the others (`PartsOfTheRuntime`), which carries the
  parts' invariants over to `RuntimeSpec`.
* `GatewayProofs`. Four invariants, each on top of the one before.
  - `Safe` (types and `Sparing`): an identifier that a command checked, or
    spawned, and is about to signal belongs to a service or to nobody, because
    an identifier that a command holds is not reused.
  - `Ordered`, of each command by itself: which points a start and a stop pass
    (`Shape`); what a start owns is its service or gone (`Owned`); a start that
    gives up stops the failing service first and the backend last, so when the
    backend is its victim the other is gone (`Doomed`). `FailedStart` follows
    at its last step.
  - `Sequential`, while nothing was rash and nothing failed: one command at
    most is running; what lives is named by its file or is about to be; a start
    owns all that lives, and what it has passed answers or has set the warm
    flag; a stop has left nothing of the services behind it. `ModeTrue` reads
    the mode off it when the command has ended.
  - `Owes`, of each service: its processes and the starts that have yet to
    spawn it (`Count`) are at most one more than the rash commands. That alone
    bounds the processes and not the orphans. So when the one more is there and
    nothing has failed, one of them is no orphan (`Backed`): a start is on its
    way to spawn or to write the file, or the file names one that lives. The
    second half is inductive by `Tight` only: a stop that removes the file has
    seen its process go, which left room that nobody may use up but a start
    that finds nothing running, or a rash one. `OrphansOwed` follows.

| Theorem | Property of a run |
|---|---|
| `PaperPortfolioProofs`, `GatewayProofs`: `TypeCorrect` | `TypeOK` |
| `KillSwitchProofs`: `OneOrderAfterStop`, `StopSticky` | `AtMostOneOrderAfterStop`, `StopIsSticky` |
| `CircuitBreakerProofs`: `OneEntryOnceHalted`, `NoResultLost` | `AtMostOneEntryOnceHalted`, `RowIsTheDaysResults` |
| `PaperPortfolioProofs`: `AccountMatches`, `NeverFreshAgain`, `OneEntryOnBlown`, `LotsOnce` | `AccountMatchesLedger`, `BlownIsNotFresh`, `AtMostOneEntryOnBlown`, `LotsTradedOnce` |
| `FlowTradeProofs`: `ExposureStaysBounded`, `OneOrderAfterStop`, `ImplementsPositionRow` | `ExposureBounded`, `AtMostOneOrderAfterStop`, `KeepsPositionRow` |
| `GridProofs`: `ExposureStaysBounded`, `OneEntryAfterStop`, `ExitBeforeEntry`, `LedgerCovers`, `ImplementsPositionRow` | `ExposureBounded`, `AtMostOneEntryAfterStop`, `ExitAccountedBeforeEntry`, `LedgerCoversCapital`, `KeepsPositionRow` |
| `LadderProofs`: `Exposed`, `Stopped`, `Leaves` | `ExposureBounded`, `OneBatchAfterStop`, `RungLeavesWithItsOrder` |
| `RuntimeProofs`: `Overrun`, `AddingUp`, `Bursts`, `RuntimeTypes`, `Improving`, `Claiming` | `OverrunBounded`, `CleanSweepAddsUp`, `BurstBounded`, `RuntimeTypeOK`, `ChampionOnlyImproves`, `ClaimStands` |
| `GatewayProofs`: `Spared`, `OrphansOwed`, `ModeTrue`, `FailedStart` | `ForeignSpared`, `OrphansAreOwed`, `ModeIsTrue`, `FailedStartLeavesNothing` |

Proved without a run of their own, since TLC adds nothing to them: the types of
the other modules (`TypeCorrect`),
`MissingRowStops` (nobody is cleared while the row is missing), `LatchSticky`
(a breaker's latch is only deleted), `LatchNeedsPosition` (a flow row is
latched with its position only) and `Excluding` (while nothing is spoiled, never
two workers are between acquiring and releasing the research lock).

**Only model-checked.** Every safety property of a passing run is stated by a
theorem above. What TLC alone checks are the liveness properties
(`StopQuietsEveryCaller`, `PositionIsResolved`, `LiveDivergenceIsResolved`,
`OrphanIsClosed`, `DrawdownEnds`, `CommandsEnd`, `SweepEnds`,
`EveryRequestIsServed`, `AbandonedLockEnds`): liveness under fairness and
ENABLED are beyond the prover. The three inductive invariants of
the gateway above its types were checked by TLC before they were proved, on the
run's instance and with three commands, two of them rash, and no faults.

## 5. Not modelled

* Indicators, signal composition, backtests, sweeps, walk-forward validation,
  readiness and soak reports: deterministic numerical code without state that
  survives a call.
* Market-data collector, REST clients, Cloudflare worker, TimesFM worker: I/O
  and wire formats. Adapters are modelled by what they leave at the exchange.
* Live orders of the spot and futures engines (`PaperPortfolio` has the
  simulated adapter), and the start-of-day row: it only scales what the breaker and
  the risk guard compare.
* Ladder: the simulated ladder (the same bars without orders), leverage and
  sizing. The size of an order is one lot, so a size that was rounded or
  recomputed from the capital after the bar (`ladder-engine.ts:1314`) is not seen. The first window of a
  ladder started with `replayBars` is longer than the later ones; the model's is
  of one length throughout.
* Gateway: `status`, which writes nothing; fields of the state file other than
  the mode; two commands writing the state file at once.
* Sweep: unrealized profits, the scan that composes a watchlist, report
  commands.
* Knob search: the candle panel, how knobs mutate, what an evaluation computes,
  the ledger of trials and the goals page, `knobs.ts` as worker 0 writes it.
  The panel stays the same: a champion scored on another dataset is dropped
  when it is loaded (`autoresearch/loop.ts:122-135`), so `ChampionOnlyImproves`
  holds within one dataset only. Scores are exact: two within `SCORE_EPS`
  (`mutate.ts:160-163`) are equal scores of the model, so that what ties let
  drift by less than it is not seen.
* Telegram retry: planned below. `PROJECT.json` lists every component with its
  status.

## 6. Plan

In order of importance:

1. Live orders of the spot and futures engines on `PaperPortfolio`'s row, with
   the start-of-day row.
2. Composition of `Sweep` with `KillSwitch`: one sweep's fibers and the errors
   that end it.
3. `TelegramRetry` (a retry of a delivery that may have happened), small and
   independent of the trading core.

Theorems to follow: those of the modules above, as they are written.
