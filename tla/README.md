# perpbot in TLA+

A verification project for the perpetual-futures bot in `polyperps/` and `scripts/`: TLA+ modules of the
code that decides what is traded, on which data and with which alarms, TLC runs on small instances, and TLAPS
proofs for every instance. `PROJECT.json` maps each definition to the lines it models.

## 1. The system

Four kinds of process share one SQLite database and never talk to each other directly:

* `scripts/run_trader.py`, one asyncio process per instance, running five coroutines until the first of them
  ends: the tick feed, the bar loop, the fast loop (every 20 s), the reconcile loop (every minute) and the event
  pump. They share one `Portfolio`, whose entry points all take one `asyncio.Lock`, and through it one
  `InstrumentRouter` per instrument. A router talks to an executor (paper, shadow or live) and commits what it
  decides row by row. systemd restarts the process whenever it ends; `recover()` then rebuilds the routers from
  the exchange's account and the rows.
* `scripts/run_feed.py`, which stores ticks and book snapshots.
* timers: `backfill.py` (the venue's funding and candles), `backfill_hyperliquid.py` (the same of a reference
  venue), `prune.py` (rollup and retention), `healthcheck.py`; the dashboard reads the same database.
* the operator's commands: `run_backtest.py` (validation runs), approvals, `--clear-halt`, deployments.

| Component | State | Operations | Talks to |
|---|---|---|---|
| `InstrumentRouter` (order_router.py) | state, size, stop, pending id, order counter; its `positions_local` row and `orders` rows | on_bar, on_fast, _send with one retry, check_pending, handle_event, adoption, halt, shutdown, clear_halt | executor, database, strategy, guards |
| `Portfolio` (order_router.py) | the lock, the routers | on_bar, on_fast, dispatch, reconcile_now | routers, executor |
| `diff` (reconciliation.py), `recover` (state_recovery.py) | none of their own | compare or rebuild rows and account | routers, executor, database |
| `SimExecutor` (sim_executor.py) | paper account (saved as JSON), event queue (memory) | submit, place_stop, cancel_stop, check_triggers, snapshot | database |
| `LiveExecutor` (live_executor.py) | stop ids; the venue behind it | submit behind the gate, snapshot in two reads, events, stops | gates, venue |
| `TokenBucket` (rate_limiter.py) | tokens, last refill, a lock | acquire | every REST call of client.py |
| `vet_entry`, `vet_exposure` (risk/) | none; read the account and the pending intents | cap an entry by leverage, gross and cluster | `Portfolio.on_bar` |
| `kill_switch.py`, `Portfolio._shutdown` | none; the equity the run began with | a verdict per bar: run, pause, shutdown of every router | bar loop, routers, alerts |
| `MarketFeed`, `check_tick` (data_ingest/) | the last tick per instrument | accept or reject a tick | venue, bar builder, database |
| `LiveBarBuilder` (live_bars.py) | the open hour, the bar history | on_tick, _close, seed | strategy history of the trader |
| `backfill.py`, `backfill_hyperliquid.py`, `intervals.py` | stored candles and funding; windows that failed | pull a window page by page, retry it, keep closed intervals, insert row by row | database, seeds |
| `gaps.py`, `count_gaps` (dashboard/state.py) | none | find or count the holes in a table | database |
| `rollup_hours`, `prune` (db.py, prune.py) | `hourly_rollup`, the raw tables | roll up closed hours, delete expired rows in batches | `build_bars`, the feed's inserts |
| `run_backtest` (harness.py), strategies | a book; `_position`, `_held` | one bar: stop, gap, guard, decision; on_flatten | bars, validation log |
| gates, `signal/base.py`, validation log | `validation_log.jsonl`, `validated.json`, the verdict taken at import | evaluate_run, load_validated, live_orders_allowed | backtests, live executor |
| `healthcheck.py`, `Alerter` | `health-state.json` | evaluate, emit to each sink, save | systemd, disk, journal, alerts table, Telegram |

What is hard, and where it bites (every item with its line under "hazards" in `PROJECT.json`):

* a handler suspended in an await while the venue moves; a snapshot made of two reads; a fill that arrives after
  the order was given up; a cancel delivered before the fill it follows;
* answers and events lost, late, reordered or delivered to the next process;
* a kill between two commits of one decision, in any loop, and a recovery that is itself killed;
* a halt that only the operator may undo, against everything that adopts, recovers or reconciles;
* two instruments that enter on the same hour, each from an account that does not show the other;
* an account that crosses its loss limit between a bar's verdict and its order, and a shutdown that meets orders in
  flight;
* ticks, candles and rollups written by different processes about the same hour;
* history pulled in windows, pages and single inserts, any of which may fail, be retried or be cut off by a kill;
* one set of trading rules written twice (backtest and router), and evidence that outlives the code it was
  gathered with.

What makes each component correct:

| Component | Correct when |
|---|---|
| router, recovery, reconciliation | no order without its row, no id used twice; router, row and account agree when nothing is in progress; a pending order ends; a venue position does not stay unguarded; a halt lasts; the strategy is on the side the router holds |
| rate limiter | no window sees more than burst plus accrual |
| exposure guards | no entry takes the account past its caps, whatever is pending |
| kill switch | at the pause limit one entry at most slips; a shutdown is raised once and stops every instrument for good |
| feed, bars, seeds | bars in order and one per hour, from their own hours' ticks, gaps flagged, seeds whole |
| history pulls, gap checks | nothing half-built is stored; a run that succeeds has its range but for what it lists; later runs fill in what was missed; gaps are counted right |
| rollup, retention | readers see the same before and after pruning; expired rows go |
| backtest | trades what the router would trade; never holds what it cannot price |
| gates | the code that trades is the code that was tested, on evidence that still stands |
| health check | a lasting problem is told, once, or the failure to look for it is; memory never ahead of what each sink was given |

## 2. Modules

| Module | Models | Built on |
|---|---|---|
| `Router` | `InstrumentRouter`, `Portfolio`, `diff`, `recover`, `load_local`: every handler cut at each await and commit (`pc`, `loc`) | – |
| `SimTrader` | `Router` with `SimExecutor` and the loops of `run_trader`; deaths between any two commits | `Router` |
| `SimHalt` | `SimTrader` with the history of a halt and of refused entries | `SimTrader` |
| `PositionCycle` | abstract: what a paper account sees of its trader; implemented by `SimHalt` | – |
| `LiveTrader` | `Router` with `LiveExecutor`, a network and a venue that match, lose and reorder | `Router` |
| `OrderLedger` | abstract: ids, orders and what the venue has taken; implemented by `LiveTrader` | – |
| `Exposure` | the guards, the loss limit and the shutdown over several instruments, routers reduced to what they see | – |
| `MCExposure` | the instance of `Exposure` that TLC checks, with its symmetry | `Exposure` |
| `TokenBucket` | `rate_limiter.py` and its callers | – |
| `TickFeed` | filter, feed, bar builder, seeding | – |
| `Backfill` | both history pulls, the gap check, the dashboard's count of gaps | – |
| `Retention` | rollup, readers, prune | – |
| `Harness` | `run_backtest` and the router's rules of a bar, fed the same bars | – |
| `Gates` | validation runs, approval, gate, live trader's orders | – |
| `Healthcheck` | `healthcheck.py`, the sinks of `alerts.py` and the machine it watches | – |
| `RouterProofs`, `LiveTraderProofs`, `HarnessProofs`, `BackfillProofs`, `RetentionProofs`, `TickFeedProofs` | theorems and proofs | the module they name |
| `SimProofs` | theorems and proofs about `SimTrader` and `SimHalt` | `SimHalt`, `RouterProofs` |
| `SafeguardProofs` | theorems and proofs about `Gates`, `TokenBucket`, `Healthcheck` and `Exposure`, four components that share nothing | those four |

The definitions whose names begin with `Bug` are mutated forms of the definition below them; `PROJECT.json`
says which property each one breaks. They are not part of any specification.

### The trader (`Router`, `SimTrader`, `SimHalt`, `LiveTrader`)

`rt` is the router object, `row` its `positions_local` row, `orders` its `orders` rows; `pc` and `loc` are the handler
that holds the lock and its locals, `"idle"` when the lock is free and `"down"` between processes. Each action runs to
the next suspension point or to the commit of the next decision, so a death (`Crash`) falls between any two actions
and leaves exactly what was committed. Commits that belong to one decision are one action and no death falls between
them: the order's new status and the router's new state (`ApplyFill`, `OnOrderUpdate`, `SubmitRaised`, `GiveUp`,
`AckRejected`), and the order rows of a recovery (`RecoverOrders`). The sending of an order and the flattening of a
position are decisions whose commits are steps of their own. `SimTrader` adds the paper account and its in-memory
event queue; under Python 3.12 the simulator's calls never suspend, so only the loops' own awaits interleave. It also
carries the strategy's own `side`: `target()` moves it before anything is sent, `on_flatten` clears it, and a restart
sets it from the recovered router. `LiveTrader` adds requests in the network (`net`), the venue's orders, position and
stop, events to be delivered in any order or never, and the half of a snapshot already read (`half`). The venue is
external: it is modelled from how `live_executor.py` uses it.

Abstractions: one instrument; a cancelled, auto-cancelled or rejected update is one kind; updates that only report
progress are not emitted; foreign orders, `stop_drift` alerts and shadow mode (every write refused) are left out; in
these modules the verdict of the kill switch, an expired timeout, a due exit and a strategy's target are inputs, so
every stale verdict is covered (how it is reached is `Exposure`'s); prices, fees, alerts and decision rows are left
out. A stop call has its effect and returns, or the process ends in it, with or without the effect: no handler catches
what such a call raises, so one that raises is a death, and bounded with them. `on_fast` is modelled for an instrument
that has had a tick. In `LiveTrader` the venue moves only while the router waits: a step of the router that calls
nobody commutes with every venue step.

Two abstract specifications say what all this amounts to. `OrderLedger` has a set of ids asked for and a set taken
by the venue: an id is asked for once, for one order, and taken at most once, as it was asked for. In `LiveTrader`,
`asked` is the `orders` table and `taken` what the venue has ever seen (`Asked`, `Taken`); retries, timeouts,
duplicates, deaths and restarts are all stutters. `PositionCycle` has a position that goes from flat to at most the
configured size and back to flat as a whole, and not from flat while it is stopped. In `SimHalt`, `position` is the
account's and `stopped` the history of a halt that no death cut short (section 4).

### The other modules

* `Exposure`: amounts are signed notionals valued at entry; reading the account and sending the order is one
  step, since the lock keeps every router still. `stray` are entries at the venue no guard counts (given up on,
  or adopted by a restart): the properties allow for them, as the code does. `Judge` is the bar loop's verdict from
  a snapshot of its own; the equity may move, and other bars wait, before the order that follows. A shutdown is a
  `sweep`: the alert and the snapshot first (`ShutDown`), then each router in turn, with its exit committed and
  awaited (`SweepExit`) before it halts (`SweepHalt`). The venue goes on meanwhile; a death, or an exception, which
  ends the process, can fall between any two of these steps (`cut` counts them). The order of the routers is left
  open. The mode is paper or shadow: without divergence thresholds a live run is always at `pause`. `LIQUIDATED`
  and `--clear-halt` are left out here.
* `Backfill`: time in slots; a funding rate is stamped `t`, a candle opens at `t` and closes at `t + 1`. A run goes
  through its windows, series and pages; a failing request is retried (the native script its whole window, the
  proxy's the one request), given up on, or ends the run, by its class; every insert is a step and a kill can fall
  after any of them. Time passes between any two steps, so a candle that is open when it is fetched may be closed
  when it is stored. `Holes` are slots a venue has nothing for. The two scripts write different keys, so one runs at
  a time. The dashboard's two SELECTs are two steps (`OpenPage`, and `CountGaps` evaluated when the second would
  run).
* `TokenBucket`: time in units of credit (`Token` units buy one request); `acquire` holds its lock over the
  sleep, which may end early by `Early` units. First-come order of the lock and float rounding are left out.
* `TickFeed`: a tick is a time and a sequence number; prices only decide whether `check_tick` sees a jump. The
  websocket loses, delays, reorders and replays. The backfill runs at any time: by its timer, as a catch-up after a
  boot (`Persistent=true`), or by hand. `started` is when the running trader was started and took its seeds.
* `Retention`: one instrument, `Lag <= Grace` and `Retain` of at least two hours and the grace, as the settings
  have it; that a book is inserted within the lag is the feed's timing and nothing in `insert_book` enforces it. Each
  insert and each batch of a `DELETE` is a step; the three `SELECT`s of an hour are one (`ReadHour`). Several runs
  overlap, `--vacuum` is left out.
* `Harness`: one step is one bar for both books. Prices are two booleans, shared as long as the books have been
  equal (`apart`), free afterwards. Fills are immediate, the next open is the close, as in
  `tests/test_parity.py`. Refused entries are left out.
* `Gates`: a run has a window, a harness version and a verdict that fails at most one condition; the process
  takes its environment and `SIGNAL_VALIDATED` when it starts. A record's version is that of the process that ran it:
  `HARNESS_VERSION` is a constant of the code, so the model has no other version it could be tagged with. `InAuto` is
  a constant, as `MODES` is empty at this commit. Malformed files are left out.
* `Healthcheck`: `bad` is what is wrong now, `file` the saved memory, `said` what the journal last said, `handed` what
  each other sink was given. An alert goes to the journal, the table and Telegram one after the other; a sink that
  raises is logged and the next one still gets it (`NextSink`), and the table fails on a full disk. A database that
  cannot be opened ends the run in `healthcheck_error` (`CheckFails`).

## 3. Runs

`tlc -workers 2 -config X.cfg M`. Passing runs explore their whole state space.

| Run | Module, cfg | Bounds | States | Shows |
|---|---|---|---|---|
| `sim` | SimHalt, SimHalt.cfg | 3 orders, size 1, 2 deaths, 1 stop firing, all kill verdicts | 610,213 | `NoPhantomHalt`: no halt over a fill on its way; `BooksAgree` and `GuardedWhenQuiet`: with nothing in progress, router, row and account agree and a position has a stop the router knows; `BeliefTrue`: the strategy is on the router's side; `CycleKept`: the paper account implements `PositionCycle`, so a restart never doubles an entry and nothing is opened between a halt and `--clear-halt` |
| `live_orders` | LiveTrader, LiveTrader_orders.cfg | 2 orders (an entry and an exit), size 1 | 230,734 | `PendingEnds`: a pending order ends though request, answer and events are lost; `Converges`: the router ends at the venue's size or frozen |
| `live_faults` | LiveTrader, LiveTrader_faults.cfg | 1 order, 1 death, 1 stop or liquidation, kill switch | 262,389 | `LedgerKept`: the trader, its network and the venue implement `OrderLedger`; `ConsistentWhenFree`: router, row and pending order agree when the lock is free; `IInv`: the invariant of the proofs; `GuardReturns`: an unguarded venue position does not stay so; `Converges` under faults |
| `token_bucket` | TokenBucket, TokenBucket.cfg | 3 callers, burst 2, windows to 8 units | 13,616 | `RateBound` and its invariant `IInv` |
| `exposure` | MCExposure, MCExposure.cfg | 3 instruments, 2 clusters, 2 entries, 1 lost order, 1 restart, also in a shutdown; equity at the start, at the pause limit and at 0 | 3,628,773 | `EntryWithinGross`, `EntryWithinCluster`: no entry past a cap; `LimitBites`; `ShutdownOnce`, `NoEntryAfterShutdown`: a shutdown that is not cut short is raised once and ends all trading |
| `tick_feed` | TickFeed, TickFeed.cfg | 4 hours of 2 slots, 3 ticks, 2 on the wire, 1 restart, backfills at any time | 4,953,048 | `HoursAscend`: in order, one bar per hour but where live bars join seeds; `GapsFlagged`, `OwnTicksOnly`, `SeedsWhole` |
| `gates` | Gates, Gates.cfg | 2 strategies, 2 overlapping runs, 2 versions, 1 hand edit, 1 order | 448,164 | `CodeThatTradesWasTested`, `EvidenceRederived`, `RecheckCloses` |
| `gates_revoked` | Gates, Gates_revoked.cfg | the same | – | violated: `RevokedApprovalStopsOrders` (section 4) |
| `backtest` | Harness, Harness.cfg | all kinds of bar, holding time 4, warm-ups 0 to 2; any number of bars | 10,466 | `SameTrades`, `PricedWhenHeld`, `BeliefMatches` |
| `health` | Healthcheck, Healthcheck.cfg | 2 problems, 1 unit restart, 1 kill, a full disk, an unreadable database, failing sinks | 378,864 | `OnceUnlessLost`, `MemoryTold`, `LastingProblemTold` |
| `retention` | Retention, Retention.cfg | 4 hours of 2 slots, 2 rows, 2 overlapping runs, 1 death | 508,891 | `ReadersExact`, `MarkExact`, `ExpiredGoes` |
| `backfill` | Backfill, Backfill.cfg | ranges of 3 slots in windows of 2, 2 attempts, 3 failing requests, 1 kill, a hole longer than `MaxGap`, one venue that counts a window's end as inside and one that does not | 756,800 | `StoredWhole`, `RunAccounted`, `GapsTrue`, `PageTrue`, `Heals` |

Why the bounds are enough to be interesting: two deaths are a crash and a crash during its recovery; three orders are
an entry, its exit and the entry after a restart; two overlapping runs, two versions or two callers beyond the first
are the least that can interfere; a range of two windows, the last one short, has a window behind, a window in hand
and one to come, and three failing requests exhaust a window's attempts and still hit another run. The bounds of one
run leave out what another has: partial fills and several orders of a live account meet in no run with deaths, but the
safety properties are proved for them in section 6. The liveness properties are not: `GuardReturns` is checked for one
order of size 1, so not for a cancel that overtakes a partial fill, and `Heals` for holes in the first window of a
range and a clock that stops at `MaxClock`, so not for a range that moves on. `Harness` needs no bound on the length
of the data: its state space is finite. `MCExposure` treats the instruments of one cluster as interchangeable, which
is sound as no definition tells them apart and no property is about liveness.

Deadlock is checked in every run but those of `TickFeed`, `Retention` and `Gates`, which stop when their clock or
their runs are used up: that is the bound and not the system.

## 4. Where code and words differ

`gates_revoked`: `live_executor.py:219` says that "a lock that closed mid-run (env flipped, approval revoked) stops
the next order here". The environment and the approval are read once, when `signal/base.py` is imported and the
process starts; TLC shows an order sent after its approval was withdrawn.

Other places where a comment promises more than the code does came up while modelling. The passing properties
leave out exactly these cases, and say so:

* `shutdown()` of a halted router that holds a position commits `EXIT_PENDING` over `HALTED`
  (order_router.py:488); a death there restarts unfrozen, against "Only an operator … leaves these"
  (order_router.py:41). `CycleKept` excepts a death in that order (`cut`).
* An entry that a guard or `kill:pause` lets pass has already moved the strategy's side (order_router.py:168).
  `BeliefTrue` excepts such an entry (`missed`).
* `recover()` adopts any stop the venue still has (state_recovery.py:84), so a position may end recovery under
  the stop of the opposite side. `GuardedWhenQuiet` asks that there is a stop and that the router knows it, not its
  side.
* The first live bar after a restart is complete even if hours are missing before it (live_bars.py:52), against
  the comment at live_bars.py:57. `GapsFlagged` speaks of gaps between two live bars.
* The cluster cap is applied to entries only and nets against positions that may close (portfolio_exposure.py:62);
  line 19 states it as an invariant. `EntryWithinCluster` speaks of the moment of an entry, with nothing pending on
  the other side.
* `_record_passes` takes the holdout verdict and the tested span from `passed` (base.py:44), against "a hand-edited
  or stale `passed` flag cannot open it". `EvidenceRederived` asks for those two only of unedited records.
* The backtest may enter on the bar after a missing hour (harness.py:225); the router never does, and calls that
  the backtest's rule (order_router.py:155). `SameTrades` ends with the first missing hour.
* The backtest first asks the strategy with warmup + 1 bars (harness.py:205), the router with warmup
  (order_router.py:161). `SameTrades` is about strategies without a warm-up. All six of the repository have one of at
  least one bar, so for them it says that the rules of a bar are the same, not that the trades are: the first
  decision is not.
* "always the journal and the alerts table" (healthcheck.py:3) cannot hold on a full disk, and
  an alert whose Telegram post fails is not posted again (alerts.py:103). `MemoryTold` asks that every sink was
  given the alert, not that it took it.
* On a full disk `write_text` truncates the health check's memory and every run raises every problem again
  (healthcheck.py:117), against "alerts once". `OnceUnlessLost` excepts a memory that could not be saved.
* A health check killed between "recovered" and the save takes the problem's return for the old one and is silent.
  `LastingProblemTold` then only asks for the earlier alert.
* `backfill_hyperliquid.py` exits 0 with windows missing, so `OnFailure=` ("A failed backfill is checked (and
  alerted) right away", deploy/polyperps-hl-backfill.service:3) never fires for them. `RunAccounted` asks a
  successful proxy run only to have listed them; `Heals` that later runs fill them in.
* `find_gaps` and `count_gaps` name no source (gaps.py:30, state.py:240): rows of the proxy hide a hole in the
  native data. `GapsTrue` and `PageTrue` are about the table, not about one source.
* `count_gaps` gives the "Same answer as storage.gaps.find_gaps" (state.py:234) only on rows that do not change
  between its two SELECTs: stored in between, they can make it count a gap that has just been filled. `PageTrue`
  asks that a page without gaps is right.
* The verdict of the loss limit is taken before the lock (run_trader.py:242), so an account already at the limit
  may still send the entry of the bar in hand. `LimitBites` allows that one.
* `_shutdown` raises its alert first and then halts the routers one by one, over orders it awaits
  (order_router.py:568-585). A death or an exception in between leaves routers unfrozen that trade on after the restart,
  and the next bar below the limit alerts again, against "A persisting breach alerts once" and "halt EVERY router"
  (order_router.py:566). `ShutdownOnce` allows one more alert for each shutdown so cut short, `NoEntryAfterShutdown`
  speaks of those that were not.
* Nothing compares the seeds with the first live bar (live_bars.py:63, run_trader.py:223). If the backfill ran just
  after an hour (as a catch-up at boot, polyperps-backfill.timer:6, or by hand, bootstrap.sh:99), the trader was started
  right then and a tick of that hour comes within `max_staleness`, the hour is in the history twice. `HoursAscend`
  excepts that hour and no other.
* The gate is about an approved run, and the live trader is not tied to it: `--hypothesis` and the instrument ids
  decide what is traded (run_trader.py:60, 206-211). `CodeThatTradesWasTested` is about the harness version and
  `EvidenceRederived` about the record, not about the strategy that trades.
* `_revokes` takes the newest window, so a replay of an old one (`--end`) should not revoke an approval
  (base.py:89). `RecheckCloses` is about the other direction, and about re-checks on all the data there is.

## 5. Fairness

* `WF(Proceed)` (LiveTrader): the handler that holds the lock is an asyncio task and runs on. Only `submit` has a
  timeout of its own (`ack_timeout_s`); that a snapshot, a cancel or a stop call ends at all is an assumption about the
  HTTP client.
* `SF(FastTick)`, `SF(ReconcileTick)`: both loops wake every few seconds for ever, and `asyncio.Lock` is first
  come, first served, so they get the lock among any other users of it. Strong, since other handlers may hold the
  lock each time they look.
* `SF(PendingExpires)`: wall-clock time passes, so a pending order looked at again and again is found too old.
* `WF(Working)` (Backfill): a run whose requests are answered goes on; errors and deaths are bounded. `SF(Begin(s))`:
  each script's own timer starts it again and again; strong, since the other script may be running whenever it
  looks.
* `WF(HealthStep)` (Healthcheck), `WF(Run(r))` (Retention): systemd timers start the scripts again after every run
  and death; deaths are bounded.

Of orders nothing is assumed of the venue: it need not answer, fill, cancel or report any. Its snapshots and stop
calls do return, as above, and a stop call that fails ends the process. Bars and restarts carry no
fairness beyond `Proceed`, which includes starting up.

## 6. Proofs

TLAPS checks every theorem for all values of the constants that satisfy the named assumptions.

**Router and live trader.** What a run calls `ConsistentWhenFree` speaks of moments when the lock is free, so it is
not inductive. `RouterInv` says the same of every `pc`: `SeqCoversOrders` (the counter is past every row), `RowKnown`
(without a positions row there are no orders rows, and the process is starting), `SendingHasRow` (the order being sent
has its row), `RowSaved` (the row is the router except at the points between an assignment and its commit),
`PendingNamed`, `SizeKnown`, `ErrorHalted` (a send that raised has halted before it adopts). `RouterProofs` shows that
each of the router's actions keeps `RouterTypeOK /\ RouterInv` and every orders row, whoever answers its calls
(`RouterStepPreserves`, `RouterStepKeepsRows`). `LiveTraderProofs` adds `RowsBeforeSends` and the venue's and the
network's steps to get `IInv` (`Invariant`), and from it `TypesHold`, `RowsComeFirst`, `RouterConsistent` and the
action property `RowsStay`.

**The ledger.** `ImplementsLedger` (`Spec => LedgerKept`) is proved for every bound from the same invariant. A step of
the router writes at most one new row and changes none (`RouterStepAddsOneRow`, `RouterStepKeepsRows`): it is an `Ask`
or a stutter. A request that arrives for an id the venue has not seen is a `Take`, as `RowsBeforeSends` gives it the
row it needs; every other step changes neither set.

**Paper trader.** Everything follows from what the event queue owes the router. Between a fill of `SimExecutor` and
its delivery by the pump the account is ahead of the router, and other handlers run in that gap, so `BooksAgree` is
far from inductive. `Books` says how far ahead: by nothing (`NoneDue`), by the one fill in the queue (`OneDue`), or
by two, the exit of a `shutdown()` behind an entry not yet delivered (`TwoDue`); never more. With it go `Reached`
(which `pc` the simulator's immediate answers can lead to at all), `ReadTrue` (a snapshot in hand is still the
account) and `SendTrue` (what is being sent is what the router means). With the router's own invariant they form
`Sound` (`SimInvariant`), and `BooksAlwaysAgree` and `NeverPhantomHalt` follow. Three further invariants are inductive
on top of `Sound`: `Guarded` (where each handler has a stop on the book, and which one the router will know) for
`PositionsGuarded`; `Believed` (the strategy's side against the router's position at every `pc`) for
`BeliefAlwaysTrue`; and `HaltKept` (a halt not cut short holds whatever is in the queue) for the refinement.

**The position's cycle.** `ImplementsCycle` (`HaltSpec => CycleKept`) maps each step that moves the account (a
submitted order, a stop that fires) to `Open` or `Close` of `PositionCycle`, and every other one to a change of
`stopped` or a stutter. The two facts it needs are that an order sent while the account holds something is one that
closes it (from `Sound`), and that no entry is sent between a halt and its clearing (from `HaltKept`).

**Rate limiter.** `RateBound` follows from `CreditBound` (what was handed out plus what is in the bucket never
exceeds the burst plus the age of the window) and `SleepCovers` (one caller sleeps at most, and what is left of its
sleep is what the bucket still lacks), inductive together with the types (`BucketInvariant`, `RateIsBounded`).

**Backtest.** `HarnessInv` adds to `PricedWhenHeld` and `BeliefMatches` that the harness is flat during its warm-up;
without it a position could be carried into a hole by a bar the harness does not look at. `HeldIsPriced` and
`BeliefHolds` follow for every data set, warm-up and holding time. `Parity` (`Spec => []SameTrades`) rests on three
lemmas: the two decision steps are the same function (`DecisionsAgree`), a guard before a forced exit adds no trade
(`FlattenTwice`), and so the two pipelines agree on a priced bar between priced bars (`BarsAgree`).

**Gates.** What a live trader stands on was decided when it started, from a log that goes on changing, so `GatesInv`
speaks of every record: a run has one record (`OneRecord`), its window ended before it began (`WindowsClosed`), a
passed flag nobody edited was earned (`FlagEarned`), and a running trader has a record that bears it
(`TraderBorne`), which no step takes away. `TestedCodeTrades` and `EvidenceStands` follow. `FailedRecheckCloses`
is an action property: the step that starts a trader looks at the newest windows, and a window of all the data
is newer than the approved one because no window outlasts its run.

**Limits.** A shutdown goes from router to router, so `ExposureInv` says at every point of it which ones are halted
already (`SweepHalts`: those it has passed; and no router it means to close a position of has an entry pending), that
one that was raised and not cut short leaves every router halted, which nothing but the operator undoes
(`ShutdownHolds`), and that a late entry has used up the last verdict that would let one out (`VerdictSpent`).
`FlightCounted` says that an entry some router waits for is the one its intent stands for. `ShutdownRaisedOnce`,
`ShutdownEndsTrading` and `OneEntrySlips` hold for any set of instruments, any equities and deaths anywhere. The caps,
`EntriesWithinGross` and `EntriesWithinCluster`, are action properties that compare sums: what the guard added up
before an entry with what is out there after it. A sum is the library's fold, in an order nobody chose. `TotalIs`
unfolds it, `SumsExist` shows that its recursion has a solution (least counterexample over the sizes of sets, as the
prover cannot use induction principles), and `TotalWithout` that any element can be taken out; from then on sums are
added, compared and restricted instrument by instrument (`TotalAdds`, `TotalOrdered`, `TotalPart`). The comparison
itself is that what is in flight elsewhere is what `Pending` counts (`FlightCounted`), and that what is astray is in
`Unseen`. The proof of the cluster cap does not need the cluster to hold nothing on the other side, only that nothing
is pending there, and the property was strengthened accordingly.

**History pulls.** `RunAccounted` speaks of the end of a run and depends on all of it, so `BackfillInv` follows the
run: behind its window every slot is stored or listed and in its window the earlier series are stored (`Ready`), the
present series is stored, in hand or still to be asked for (`InHand`), and what is in hand is whole or will be dropped
by `closed()` (`Honest`). An insert that is ignored loses nothing because the row in its way is whole, which is the
other result: the two are proved together (`NothingHalfBuilt`, `SuccessMeansStored`), for every range, window,
number of attempts, errors and deaths, and any holes. `GapsExact` and `CleanPageIsRight` are about the gap checks:
minima and maxima of a bounded set of stamps exist (`MinFacts`, `MaxFacts`), a silent stretch lies between two
neighbours, which is a gap (`SilenceIsReported`), and a gap is silent (`GapIsSilent`). For the page, `PageInv` keeps
what the first SELECT saw against the rows there are when the second one runs: rows are only ever added, so an end
that was covered stays covered.

**Rollup and retention.** Let the value of an hour be what `rollup_hours` would write had nothing been deleted.
`RetentionInv` says that a rollup row is the value of a closed hour (`RolledExact`), that no hour before a rolled-up
one is missing with a value of its own (`NoHoles`), that a row goes only when the rollup has the value of its hour and,
for a tick, of the next, whose opening mark it may be (`PrunedRolled`), and that a run's unwritten rows and the rollup
together cover every closed hour behind it (`JobOK`), whatever other runs write meanwhile. The grace outlasts the lag
of every insert, so the value of a closed hour is final (`FreshIsOpen`); the retention outlasts two hours and the
grace, so what a run may delete is closed for that run (`ExpiredClosed`); and an hour the rollup lacks has lost nothing,
so a run that reads it late still reads its value (`ReadIsValue`). `ReadsStayExact` and `MarksStayExact` follow for
every hour length, lag, grace and retention so related, any history and any number of overlapping and dying runs.

**Ticks, bars and seeds.** The bars a strategy reads come from two sources with two clocks, and `HoursAscend` says how
far they can overlap. The builder goes by exchange times: the venue numbers its ticks in the order of their times and
the filter accepts rising numbers only (`InOrder`), so the hour under way, that of the last tick accepted
(`HourUnderWay`), is never one gone by. The seeds go by the machine's clock: they are of hours that were over when the
trader started (`Sourced`), whenever the backfill stored them, and a tick that is accepted afterwards is at most
`MaxStale` old. So the first live bar is of a later hour than every seed, or of the last seed's if that had ended less
than `MaxStale` before (`FreshFollows`). The flag is set when the hour after a gap opens, so `GapComing` says of the
hour under way what `GapsFlagged` will say of its bar. With the types these make up `FeedInv` (`FeedInvariant`);
`HoursInOrder`, `GapsAlwaysFlagged`, `BarsOwnTheirTicks` and `SeedsAlwaysWhole` follow for any hour length, number of
ticks, order of delivery, number of restarts and times of the backfill.

**Health check.** The memory is overwritten once, at the end of a run that may be killed between two alerts or
between two sinks of one, so `MemoryTold` needs to know what is still to come: `Awaits(a, i)` says that alert `a` has
not reached the `i`-th sink yet. What the run will save has been given to each sink or awaits it (`Telling`), and no
alert is due twice (`DueOnce`, from `AlertsListed`: what `evaluate()` returns lists each new problem, each recovery and
a restart exactly once, for any set of problems in any order). As long as every run saved, what the journal calls a
problem is in the memory, or will be, or its recovery awaits the journal, and what awaits being raised is no problem
there (`Remembered`). `MemoryNeverAhead` and `RaisedOnce` follow from `HealthInv` (`HealthInvariant`).

Assumptions: `RouterAssumption`, `LiveAssumption`, `SimAssumption`, `BucketAssumption`, `HarnessAssumption`,
`GatesAssumption`, `ExposureAssumption` and `BackfillAssumption` only give the constants their types and rule out
empty windows and ranges longer than the clock; `HealthAssumption` adds that the problems `evaluate()` can name are
finitely many. `FeedAssumption` also states `MaxStale <= HourLen`: `max_staleness` is five seconds.
`RetentionAssumption` also states the two relations of the settings named above (`_ROLLUP_GRACE` is minutes against
the seconds of a late insert, `RETAIN_DAYS` days against hours) and `FillLatency < HourLen`.

Only model-checked: all liveness (`PendingEnds`, `Converges`, `GuardReturns`, `ExpiredGoes`, `Heals`,
`LastingProblemTold`), which this prover cannot do. Of every other invariant and action property of a passing run, and
of both refinements, there is a theorem.

## 7. Not modelled

Key management and configuration (read once at start), the statistics behind a verdict (floating-point resampling;
the verdict is an input of `Gates`), operator scripts such as `live_smoke.py` (run by hand against the venue, not
through the router), and the deployment units, which appear as deaths, timers and restarts. The dashboard but for
its gap count: it is a read-only view, one SELECT per table, and nothing is decided from it.

Of modelled parts: shadow mode (every write is refused and recorded), foreign orders and positions of instruments
without a router (they are cancelled or stopped by the calls the model has for its own), `stop_drift` and the margin,
profit and funding alerts (output only), cash, fees and funding amounts (arithmetic on prices), `--vacuum`, malformed
files.

## 8. Plan

Done: the trader on both executors with the strategy's side, two abstract specifications and their refinements, the
guards and the loss limit, the data path with the history pulls, the backtest, the gates, the health check with its
sinks; the proofs of section 6.

Next: shadow mode and foreign positions in `LiveTrader`, with its invariant extended to them.
