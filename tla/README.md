# TLA+ models of ultimate-trader-for-crypto

The repository is a Python trading research system: programs that keep orders,
positions and limits in files and on an exchange, and engines that turn candles,
trades and order books into scores and verdicts. TLC checks the modules on small
instances, TLAPS proves the theorems for every value of the constants.

```
tlc -workers 2 -config PaperLedger.cfg MCPaperLedger.tla
tlapm PaperLedgerProofs.tla
```

`PROJECT.json` lists the components, the runs, the theorems, the hazards with the
properties about them, and for each definition the lines it models.

## 1. Inventory

### What runs, and what it shares

| part | state it keeps | operations | who touches it |
|---|---|---|---|
| paper execution ledger (`production_replay/paper_execution_ledger.py`) | `paper_portfolio.json`, `paper_trades.jsonl`, `paper_execution_status.json` | one run: expire, invalidate, monitor, open (twice), rewrite | fourth stage of the pipeline; read by rotation engine and validator |
| paper pipeline (`bb_paper_pipeline.py`, dispatcher, `operator.py`) | none; the reports of its stages on disk | five subprocesses in order, each with a timeout, each allowed to fail | `scripts/run_bbv1_live.sh`, for ever |
| rotation engine, watchlist (`paper_rotation_engine.py`, `paper_candidate_watchlist.py`) | reports | select a candidate from watchlist, portfolio and last close | pipeline stages |
| outcome validator (`paper_outcome_validator.py`) | report | count wins and losses of the ledger, decide a verdict | last stage |
| live scanner (`live_scan.py`) | `open_orders.json`, `trade_log.jsonl`, candle cache; the account on the exchange | re-save, sync, scan, place | `run_hourly.sh`, `operator.py`, both for ever |
| manual test order (`place_test_order.py`) | same | place one order through the scanner's function | a person, at any time |
| launch check (`launch_check.py`) | locked configuration, report | edit, renew, check | a person; no order path calls it |
| event bus and store (`ultimate_trader/event_bus`) | subscribers; one JSON file of events | publish, save, get, list, clear | any module in the process |
| paper account and executor (`ultimate_trader/paper_trading`) | account, orders, positions, executed signal ids | evaluate, fill, mark, close, reset | demos and tests |
| BingX stream (`ultimate_trader/bingx/websocket.py`) | socket, thread, running flag, reconnect count | connect, disconnect, callbacks from the socket's thread | two threads |
| drawdown control (`ultimate_trader/drawdown_control`) | trades told, loss counters, equity peak | check, record, reset on a new day | replay loops |
| selectivity engine (`ultimate_trader/selectivity_engine`) | selections, cooldowns, losses of a day | select for a day, record an outcome | replay loops |
| selective replay, historical replay, robustness lab | active and closed simulated trades, rolling windows, candle position | step, enter, exit | command line |
| reports over finished replays (`drawdown_control`, `robustness_lab/edge_stability.py`) | none | curve, episodes, clusters, attribution, verdict | validation scripts |
| smart money detectors, strategy engine, regime filter | windows of candles, swings, pools, gaps, blocks | one candle | the replays |
| signal, belief, memory, order-flow, microstructure, validation packages | beliefs, a case file, windows of trades and books | score, gate, plan, remember | each other, by call |
| reasoner and metacognition, research brain | one chain, a list of hypotheses | reason, criticise, audit; generate, falsify, compete, rank | command line, demos |
| backtest scripts | cached candles | detect, simulate | command line |
| storage (`ultimate_trader/storage`) | SQL tables | one transaction per call | - |

Interactions are files and calls, never messages between live processes. The
paper side is a chain of short processes that communicate through reports; the
live side is one or more processes that share two files and an exchange account
without a lock; the engines call each other within one process.

### Hard behaviours

- A pipeline stage is killed after 30 or 60 seconds; files are written one after
  another and partly in place. (ledger, event store, case library)
- A failed stage leaves its previous report, which the next stage reads. (pipeline)
- Check and act are separate calls to an exchange that other processes, stops and
  targets change in between. (live scanner)
- Answers get lost after the order was accepted; reads fail and are replaced by
  an empty answer. (live scanner)
- Callbacks arrive from a thread of a connection that was already replaced. (stream)
- Limits, counters and cooldowns that the block they cause keeps from being reset.
  (governor, selector)
- Candles in which several levels are touched, entries after their signal. (simulator)
- Positions in a window that moves, kept as if it stood still. (smart money,
  strategy engine)
- Engines that judge the same thing in their own way and hand a verdict on, which
  another overrules. (signal engine, reasoner and its judges, hypotheses)
- Thresholds, clipping and rounding at a boundary. (beliefs, calibrators, validation)

### What makes each component correct

| component | properties |
|---|---|
| ledger | caps on number and notional; no two open trades on one slot; opening line before anything else; no close without a fill; a fill is final; what is written is promoted; a waiting order ends |
| pipeline | a stage acts only on a report of its own round, or on a stale one in a way that opens nothing it would not have opened |
| validator | verdict only from settled trades, each counted once |
| live scanner | entries bounded by processes; one trade; every entry tracked and logged; leverage confirmed (not kept: a finding); an orphan frees its slot |
| launch check | a passing launch is backed by the report (not kept: a finding) |
| event store | what was saved is found again, after a restart too; what is stored was shown to subscribers |
| paper desk | quantity is conserved; a counted position can be closed, and is booked once; a signal is executed once; events tell what happened |
| stream | connections bounded; reconnects limited |
| selector | none is allowed late; cooldowns; limits per day; losses counted are losses |
| governor | limits of day, week, drawdown and streak hold at each entry; its counters are those of its trades |
| simulator | a stop never pays; the entry's candle does not end it |
| detectors, filters | what scores is what was found, and recent is recent |
| reports | two accounts of the same trades agree; better results are never judged worse |
| planners, gates | an approved plan holds at every price it may be filled at; surer trades are not refused; what is admitted earned it |
| memory, beliefs | nothing remembered is lost silently; a loss never helps; the rejected do not come back |
| judges | they agree on what is ready; bad news never helps; the falsified never win |

## 2. Plan

A module named MC... gives the small instance, a module named ...Proofs the
theorems.

1. `PaperBook`, `PaperLedger`, `PaperLedgerProofs` - done.
2. `LiveDesk`, `LiveScan`, `LiveScanProofs` - done.
3. `PaperPipeline`, `PaperPipelineProofs` - done.
4. `BingXStream`, `BingXStreamProofs` - done. One live connection at most, the
   promise planned first, is not what the code keeps; the bound it keeps is one per
   call of `connect`. `MCBingX` checks it beside the scanner of a hedged account.
5. `SelectiveReplay`, `SelectiveReplayProofs` - done.
6. Services, composed in `MCServices`: `EventStore`, `PaperDesk`, `GovernedReplay`;
   `ServicesProofs` - done (section 8).
7. Engines, composed in `MCResearch`: `SmartMoney` and `StrategyEngine`,
   `TradeSimulator` and `RegimeReplay`, `SignalEngine`, `TradeDecision`,
   `Microstructure`, `CaseMemory`, `Beliefs`, `ValidationLab`, `BollingerBacktest`,
   `Cognition`, `HypothesisLab`, `EdgeReport`, `EdgeVerdict` - modelled and checked;
   `ResearchProofs` proves nine of the eleven properties (section 9).
8. Promises of the texts that no part keeps, in `MCPromises`: `LiveGates`,
   `OrderFlow`, `SmartMoney`, `BollingerBacktest` - done (section 10).
9. Left: what section 12 names as model-checked only. Then the sizing arithmetic of
   the live scanner, in integers.

Parameters are constants with named assumptions, and nothing a proof needs is
RECURSIVE. `SumTheorems` holds what several proofs need about folds: the folds of
the community modules over sets and sequences of any length, by which their sums
grow, bound and compare. The library's induction theorems take an operator as
parameter, which no installed prover can instantiate; in their place stands the least
counterexample (`LeastNumber`, `SmallestSet`), which takes a set.

## 3. Paper ledger

### Model

`PaperLedger` is one portfolio rewritten by run after run of
`run_paper_execution`.

| state | code |
|---|---|
| `portfolio` | `runtime_state/paper_portfolio.json`; `<<>>` stands for missing and unreadable as well, for the code reads both as no trades |
| `ledger` | `paper_trades.jsonl`, a sequence of lines |
| `report` | `active_count` of the status report |
| `clock`, `nextId` | time in units of `STALE_TRADE_TIMEOUT_HOURS`; identity of a trade (its `opened_at`) |
| `pc`, `inbox`, `todo`, `kept`, `opened` | the run: phase, reports read, trades to visit, trades kept, trades opened |

| action | code |
|---|---|
| `Begin` | reports and portfolio are read |
| `ExpireOne` | one round of the loop in `_read_portfolio` |
| `InvalidateOne` | one round of the legacy cleanup |
| `MonitorOne` | `_monitor_trade`: fill, then stop before target |
| `TryShadow`, `TryRotation` | `_attempt_add_trade` for the two sources |
| `Truncate`, `Dump` | `_write_portfolio`, which opens the file for writing and then fills it |
| `Finish` | status report, end |
| `Die` | timeout of the pipeline, signal, exception |
| `Tick` | time between runs |

Prices, sizes and reports are inputs, chosen anew at each use. Sizing is any member of
`Sizes` (0 stands for a refusal), because the arithmetic against exchange limits
has no influence on what is checked beyond the number it yields. Left out: message
texts, profit figures in the status report, the creation of directories.

`PaperBook` is what the portfolio promises: a set of slots that one run changes in
one step, opening at most one slot per source and never more than the cap, and
that a death during the rewrite may empty.

### Runs

| run | instance | question |
|---|---|---|
| `ledger` | two markets, one of which is chosen at the start (`market`). In `Moving` two plans on one symbol, two trades, two clock values, four prices; in `Crowded` three plans, caps that both bind, sizes that round. One death in either | what survives a death at any step: `NoDuplicateOpen`, `LedgerSound`, `NotionalWithinCap`, `FillsFinal`, `OnlyPromotedWritten`, `PaperBook` as refinement, `WaitingOrdersEnd`; what holds while no run has died: `SettledOnce`, `Reconciled` |
| `ledger_new` | the same; expected violation of `OneNewTradePerRun` | each of the two sources opens a trade in one run |

`LedgerSound` is `OpenInLedger` (each stored position has its opening line) and
`OnlyFilledTradesClose` (settling lines come after their opening, and closes are of
filled trades beyond the level they name). `TypeOK` and `PortfolioBounded` are
theorems and no run repeats them.

`PAPER_MAX_NEW_TRADES_PER_RUN = 1`, "max 1 new trade per run"
(`paper_execution_ledger.py:39`), is read by no code: two trades, one from each source,
may open in one run. That is a finding (`ledger_new`); `PaperBook` states what does
hold, at most one opening of each source, and is instantiated with two.

Bounds. Two trades are the fewest that can collide and three the fewest that
exceed a cap of two; nothing but the openings matters to the caps, so `Crowded`
has one price and no time. One death suffices for the safety properties, since a run
starts from files only, and two runs with a death between them are covered; the
theorems drop every bound but `MaxTrades`, `MaxClock` and `MaxKills`, which are
arbitrary there. `StaleAfter = 0` makes one tick exceed it.

Fairness. `scripts/run_bbv1_live.sh` starts the pipeline for ever and a run is
finite code, hence weak fairness of a run's steps. Only the model keeps the clock
from moving while a run is under way, so time gets strong fairness. `WaitingOrdersEnd`
(`WaitingEnds` where time passes) is about the trades opened long enough before the clock bound, because time stops
there in the model.

### Proofs

`PaperLedgerProofs` from `PaperLedgerAssumption` (bounds are naturals, plans have
a side and natural prices):

- `TypeCorrect`: `TypeOK`.
- `CountCap`: `PortfolioBounded`. It is not inductive alone: what the run still has
  to visit and what it has kept must be bounded together at each phase, which is `CountInv`.
- `NoDuplicates`: `NoDuplicateOpen`. `SlotInv` says that the trades to visit and the
  trades kept have different slots, within and across the lists.
- `OpeningsRecorded` and `ClosesAreSound`: `OpenInLedger` and
  `OnlyFilledTradesClose`, together `LedgerTellsInOrder`. `LedgerInv` says that each trade anywhere in the run has
  its opening line, and that each line is sound when written.

- `FillsAreFinal`: `FillsFinal`. `FillInv` compares each trade the run carries with the
  one of its id in the file it was read from; ids identify trades by `IdInv`
  (wherever trades are kept, ids are distinct, and below the next one).
- `PromotedIsWritten`: `OnlyPromotedWritten`, from `PromotedInv`: what the second
  loop has seen is promoted, and what opens later is checked when it opens.
- `TradesSettleOnce` and `LedgerReconciles`: `SettledOnce` and `Reconciled`. Both are from
  `StoryInv`: as long as no run has died, the trades a run carries, or between runs the
  file, are those opened and not ended, and no id has ended twice. A death after
  a settling line and before the rewrite is what breaks it.
- `NotionalCap`: `NotionalWithinCap`, for a cap that is a multiple of ten units (the
  shipped one is 10 USDT, a thousand). The ledger tests the size before
  it rounds to cents, so a stored sum could exceed a cap that is not whole cents.
  `NotionalInv` keeps whole cents everywhere, and bounds what is kept and what is to visit together.
- `LedgerImplementsBook`: `PaperBook` as refinement. `BookInv` adds what the book looks
  like while the file is being rewritten; each run is a stutter until `Truncate`,
  which maps to `Settle`, and a death in `dump` maps to `Lose`.

Only model-checked: `WaitingOrdersEnd` (liveness).

## 4. Live scanner

### Model

`LiveScan` is any number of processes on one account: `Loops` run
`live_scan.main` over and over, `Testers` run `place_test_order`. Each call to the
exchange and each access to a file is a step.

| state | code or exchange |
|---|---|
| `tracked` | `open_orders.json` (saved by rename, so never torn) |
| `log` | `trade_log.jsonl`, as the set of its lines; the code's `orphan_cleaned` line names only the symbol, the model keeps the order number with it |
| `positions`, `leverage`, `accepted` | exchange: open entries, leverage per symbol and side, orders accepted |
| `pc`, `snap`, `seen`, `queue`, `current`, `hedged`, `tries`, `mine` | locals of `main`, `place_bracket_order` and the functions they call |

| action | code |
|---|---|
| `StartCycle`, `CancelSave` | `cancel_orphaned_orders`. It looks up stop and target orders by ids that `place_bracket_order` never stores, so what remains of it is that the list is read and written back |
| `Load`, `SyncReads`, `SyncFails`, `Clean`, `SaveSync` | `sync_positions_with_exchange` and the save in `main` |
| `Scan`, `StartTest` | signals found, position mode read |
| `CheckPositions` | `fetch_positions`; a failed read counts as none (where `ReadsFail`; a sync may fail always) |
| `Refuse`, `Admit` | sizing and mode check; tracked orders against the caps |
| `SetLeverage`, `ReadLeverage` | `_ensure_leverage`, three rounds |
| `CreateOrder`, `LogEntry`, `SaveEntry`, `WriteFails` | order, log line, saved list; the answer or a write may be lost |
| `ClosePosition` | the bracket of an entry fills on the exchange |
| `Crash` | a process dies |

The exchange is external: an accepted market order is a position at once; one-way
mode sets both sides' leverage with one call; a side name of the wrong mode is
refused (the comment at line 612 of `live_scan.py` says so). Each symbol of a one-way
instance has one direction, because opposite orders would net out there,
which the model does not do; a hedged account keeps both sides apart. Sizing is part of a signal (`lev`, `notional`).
`close_position_market` is called by nothing and is left out.

`LiveDesk` is the promise: entries come one at a time under fresh numbers, never
more than the capacity, and go one at a time.

### Runs

| run | instance | question |
|---|---|---|
| `live_shared` | a loop and a test order, two symbols, three orders, one fault | `EntryLogged`, `CleanedAreClosed`, and `LiveDesk` with capacity two |
| `bingx`, client `scanner` (section 6) | one loop on a hedged account, position checks may fail, one fault | `SoundUntilFault`, `OrphansEnd` |
| `live_fail_open` | expected violation of `OneTrade` | a lost answer and a failed read: two positions with one process |
| `live_leverage` | one loop on a hedged account, one symbol signalled in both directions, no fault; expected violation of `LeverageHonoured` | an order is placed below the leverage that was read back |

`SoundUntilFault` says that until something is lost there is one trade at most
(`OneTradeUntilFault`) and every position is tracked (`TrackedUntilFault`).

Two loops, which `run_hourly.sh` and `scripts/run_bbv1_live.sh` start independently,
hold two positions as well, by the theorem `EntriesBounded` no more.

`_ensure_leverage` promises to "skip cleanly (never place at the wrong leverage)"
(`live_scan.py:322`), and reads back the larger of both sides (`:337`). Once one side of
a hedged account has the wanted leverage, the other side's is confirmed whether or not
`set_leverage` had an effect on it. `live_leverage` shows the order that follows.

Three orders exceed a capacity of two, so the refinement could fail in
`live_shared`. A fault is a death, a lost answer or a failed write; one of them at
any step together with two processes is what the invariant has to survive.

`OneTrade` rests on two independent guards, the account and the tracked orders:
`bingx` removes the first and shows that the second suffices while nothing is
lost; `live_shared` allows losses and shows that the first suffices up to one
entry per process; `live_fail_open` removes both.

Fairness. The shell loop restarts the scanner for ever and every call it makes
has a timeout: weak fairness of a loop's steps. `OrphansEnd` further assumes that
of infinitely many hourly reads of the positions one succeeds: strong fairness of
`SyncReads`.

### Proofs

`LiveScanProofs` from `LiveScanAssumption`, for any processes, signals and faults:

- `TypeCorrect`: `TypeOK`, together with the fact that a process beyond the scan
  has a signal in hand.
- The `...Provenance` lemmas say where the records of a step come from: a tracked list,
  a snapshot, a queue or a `current` record after a step was one of them before it,
  or is the entry just made. The invariants below use only this.
- `EntriesLogged`: `EntryLogged`. `EntryInv` carries the entry line along with
  each copy of the list a process holds.
- `EntriesBounded`: `PositionsBounded`, where position checks are answered. `BoundInv`
  counts open entries and committed processes together: only a process that saw
  fewer open entries than the cap commits, and it is one process. Its
  instance with one process is `LoneProcessOneTrade`.
- `OrphansAreClosed`: `CleanedAreClosed`. `OrderInv` says that order numbers are never
  used twice and that a record naming a position's order describes it; a close is
  for good, so a trade that was closed when its reader looked stays closed.
- `TrackedOrdersSuffice`: `SoundUntilFault`; until something is lost one process keeps `OneTrade` and
  `PositionsTracked` even if every read fails. `SoloInv` says at each point of the
  cycle which of the file and the process's copy covers the positions.
- `ScanImplementsDesk`: each step is one step of `LiveDesk` or a stutter; room for the
  new entry comes from `BoundInv`.

Only model-checked: `OrphansEnd` (liveness).

## 5. Paper pipeline

### Model

`PaperPipeline` is round after round of `bb_paper_pipeline.run_pipeline`. The five
programs run one after the other and share nothing but files, so a stage is one step;
the exception, the ledger, is taken apart in `PaperLedger`. Each stage has a second
action in which it fails or is killed: its file is then the old one or empty.

| state | file | written by |
|---|---|---|
| `signals` | `bb_all_signals.json` | `Generate` |
| `cands` | `bb_candidates.json` | `Dispatch` |
| `rotation` | `paper_rotation_report.json` | `Rotate` |
| `portfolio`, `lines`, `status` | `paper_portfolio.json`, `paper_trades.jsonl`, `paper_execution_status.json` | `Execute` |
| `verdict` | `paper_outcome_report.json` | `Validate` |

`round` is the clock. All the code compares are the time of a candidate and the
time of a close, and these are ordered as the rounds they belong to: a close in the
round of a candidate comes after it. `clean` is a history variable. Left out: the
order in which equal candidates are sorted (all have the same score and
reward, so any of them is selected), notional limits (section 3 has them; here they are a
refusal that may come at any time), and sources no program writes (the shadow
intent, the trigger watcher's report).

### Runs

| run | instance | question |
|---|---|---|
| `pipeline` | two settings, one of which is chosen at the start (`setting`). `Faulty`: two symbols, two slots, four rounds, two failures; `Patient`: one symbol, one slot, eight rounds, no failure | `OneTradePerSymbol`; `FreshWhenClean`; `CleanReview`: while nothing has failed, the verdict rests on enough different trades (`CleanReviewCounts`), all of them settled (`CleanReviewSettled`) |
| `pipeline_double` | the same; expected violation of `ReviewCountsTrades` | a killed ledger run: one trade counts twice for live review |

The rotation falls back to the unfiltered candidates when its filters leave nothing
(`Pool`), so a candidate it has just reported as blocked may be selected; no property
forbids it.

Four rounds are an opening, a failure, a close and a round that acts on what is
left; two failures let the dispatcher's or the rotation's file be two rounds
old. Eight rounds with one slot allow three closed trades with the verdict
depending on the last.

### Proofs

`PaperPipelineProofs` from `PaperPipelineAssumption`, for any symbols and failures.
`Settled` describes every way a run of the ledger may end; the theorems use
nothing else of it.

- `TypeCorrect`: `TypeOK`.
- `SymbolsAreExclusive`: `OneTradePerSymbol`. It needs `ReportFits`: an open trade
  on the symbol of the report, which may be rounds old, has its very slot.
- `CleanRoundsAreFresh`: `FreshWhenClean`, from `FreshInv`: in a clean round the files
  written so far are of that round, and the ledger's lines lie before it.
- `ReviewsAreEarned`: `CleanReview`. `RecordInv`: until a stage fails, a trade of the
  record is open or settled and not both, closes once, and was opened in an earlier round
  than one that opens now, so that a new trade is none of the old. The validator counts
  closing lines; each then is another trade, and `ReadyIsCounted` says that a verdict just
  reached counted enough of them with none open.

Every property of the passing runs is a theorem.

## 6. BingX stream

### Model

`BingXStream` is one `BingXWebSocket` object, the thread that owns it and one
thread for each connection. They share four fields without a lock, so every
statement of `connect`, `disconnect` and `_on_close` is a step.

| state | code |
|---|---|
| `running`, `ws`, `thread`, `count` | `_running`, `_ws`, `_thread`, `_reconnect_count` |
| `pc` | where the owner is, and where each connection's thread is |
| `closing` | open connections on which `close` was called |
| `up` | whether the server answers |
| `wanted`, `connects` | history: the owner's last call, number of its calls of `connect` |

| action | code |
|---|---|
| `CallConnect`, `Arm`, `Create`, `Target`, `Start` | `connect`, by the owner or by an `_on_close` |
| `CallDisconnect`, `Close`, `Drop`, `Forget` | `disconnect` |
| `Open`, `DialFails`, `End` | `run_forever` of websocket-client, with `_on_open` |
| `OnClose`, `Retry` | `_on_close`: test, count |
| `Toggle` | the server comes and goes |

`Conns` are objects; one that no field and no thread refers to may be used again, as
Python reuses memory. Messages, subscriptions and the callbacks of users are left
out: they do not touch the four fields.

### Runs

| run | instance | question |
|---|---|---|
| `bingx`, client `stream` | two calls of `connect`, one reconnect before an open resets it, five objects | `ConnectionsBounded`, `GivesUp` |

`MCBingX` chooses between the stream and the scanner of section 4 at the start; the two
share nothing, and each is under its own fairness while it is the client.

A `disconnect` between the test of `_on_close` and its call of `connect` is undone:
the stream runs afterwards. No property forbids what the code does there
(`tests/test_bingx_websocket.py:148` tests the two one after the other).

`health_check` reads `_running` and `_ws`, which `_on_close` leaves as they are when
the reconnects are used up: it answers True then without a connection.

Two calls are what it takes for an old connection and a new one to be there
together, and five objects let both be replaced while fields still hold old ones. `disconnect` may
be called without limit. One connection at most does not hold: `_on_close` of a
connection that was disconnected finds `_running` True again after a new `connect`
and reconnects as well.

Fairness. Threads run, a connection on which `close` was called ends, and the owner
finishes a call it has begun. `GivesUp` supposes that the server stays away, and counts an
open connection as quiet: nothing (no ping is configured) makes the library notice
that the server is gone.

### Proofs

`BingXStreamProofs` from `BingXStreamAssumption`, for any number of connections and
attempts: `TypeCorrect` and `NoMoreThanCalled`. `ConnectionsBounded` is not
inductive, since between the call of `connect` and the start of its thread the
call has been counted and the connection has not; `BoundInv` counts such a call
as a connection. Every step then adds none, starts the owner's, replaces one that
ends, or is a call.

Only model-checked: `GivesUp` (liveness).

## 7. Selective replay

### Model

`SelectiveReplay` is the loop of `run_selective` over the candles of one symbol, with
the selector and the simulator it drives. Time is the index of a candle, `DayOf` the
calendar day of each, cooldowns are in candles.

| state | code |
|---|---|
| `cands`, `count`, `losses` | what the selector keeps for the day of the candle (`_daily_...`); other days are never asked for again |
| `lastSym`, `lastDir` | `_last_trade_by_symbol` of the only symbol, `_last_trade_by_direction` |
| `todo`, `allowed` | the loop of `select_for_day`: candidates to visit, results allowed |
| `active`, `completed` | the simulator's trades, with holding time and exit reason |

| action | code |
|---|---|
| `Skip` | warm-up, no direction, or not approved |
| `Register` | a candidate is registered; `select_for_day` begins or answers at once |
| `Allow`, `Reject`, `Selected` | one round of its loop, best rank first; its end |
| `Trade` | plan, `process_candle`, `record_outcome` for each trade returned |
| `Traded` | the next candle |

Inputs, chosen anew at each use: whether a candle has a candidate, its direction
and scores, whether the candle has a range, which levels of each open trade it
touches, and whether an exit other than the stop is a win after fees. The three modes
differ in the direction of the candidate only. `_daily_wins` and `_selected_ids`
are written and never read, and the rejection counters are a report: they are left
out.

### Runs

| run | instance | question |
|---|---|---|
| `services`, service `selective` | eight candles over three days, either direction, a good candidate or one that is better ranked and too risky until there has been a loss; cooldowns of two and three candles | `PlanMatchesCandidate`, `WithinLimits` |
| `replay_losses` | expected violation of `LossesAreLosses` | the first opening already counts as a loss |

`WithinLimits` is `Spaced` (the cooldowns) and `DailyBound` (the limits of a day).

The middle day has five candles, so that three trades would fit between its cooldowns
and only the losses keep it at two. Holding time is two candles, so that trades
end by time within the data. The gates of the instance let a candidate pass after a
loss that did not pass before, which the shipped thresholds cannot; without that
case re-evaluating old candidates would be harmless for a simpler reason.

### Proofs

`SelectiveReplayProofs` from `SelectiveReplayAssumption` (days do not run backwards, the
symbol's cooldown is at least one candle; any gates, any steps): `TypeCorrect`,
`NothingAllowedLate`, `CooldownsKept`, `TradesPerDay`
and, of the last two, `LimitsKept`. The selector re-evaluates every
candidate of the day on every candle, and `PlanMatchesCandidate` says nothing of why
that is harmless. `LateInv` does: each candidate is the current candle's and not
visited yet, or would be refused now. Only an allowed candidate changes anything a
refusal depends on, and once one has been allowed every candidate up to now is
inside the symbol's cooldown, whatever the thresholds have become. `MemoryInv` ties
the selector's memory to the trades, which gives the cooldowns; `CountInv` adds that
each trade of the day has been counted once and recorded as a loss before the next
selection.

## 8. Services

`MCServices` puts four machines into one instance that share nothing a small
instance could show. A behaviour is one of them, chosen at the start, and the others
stay as they began, so that the states of the run add up and do not multiply. The
fourth is `SelectiveReplay` of section 7.

### Event store

`EventStore` is any number of processes that publish through
`publish_system_event`, each with its own bus and store, over one file.

| state | code |
|---|---|
| `file` | the JSON file; `Torn` while it is being rewritten and after a crash in between |
| `mem` | `_events` of each process; a stored value is text until `get_event` or `list_events` parses it in place |
| `pc`, `job` | where a process is in `publish_system_event` or `clear_events` |
| `seen`, `acked` | events shown to subscribers, and those whose publishing returned |
| `shared`, `hurt` | history: two processes were up together, one ended inside a save |

| action | code |
|---|---|
| `Start`, `Stop` | `__init__`: a file that does not parse is read as empty and left; the end of a process, anywhere |
| `Publish`, `ClearEvents` | the bus calls subscribers, then the dictionary changes |
| `Truncate`, `Write`, `SaveFails` | `_save`: opening the file empties it, writing fills it, either may raise |
| `GetEvent`, `ListEvents` | the queries, which change what they return |

`StoreIsFaithful`: the file never holds an event that subscribers have not been
shown, whatever crashes or other processes do; and processes that run one after
another and are not killed inside a save lose no event whose publishing returned.

### Paper desk

`PaperDesk` is `PaperTradeExecutor` over `PaperAccount`. A report, its order and its
position share one index, for a report is executed once; `QuantityConserved` and
`ExecutedOnce` check what that index supposes.

| state | code |
|---|---|
| `report`, `executed` | the reports; `_executed_signals` |
| `order`, `position` | objects the caller keeps, which `reset` leaves alone |
| `orders`, `positions`, `trades`, `realized` | the account's lists and `_realized_pnl` |
| `told`, `silent` | events saved; a save has failed |

| action | code |
|---|---|
| `Evaluate` | rejected, without entry zone, or an order |
| `Submit` | the owner of the order sets `SUBMITTED`; nothing in `src/` does |
| `FillOrder` | `fill_order`, with a quantity or the whole order |
| `UpdatePrice`, `ClosePosition`, `Reset` | the account |

Each operation ends by telling the store, which may raise: `Tell` keeps the
events before the failure and drops the rest of the operation. `close_position`
divides the result by the quantity: where that is zero it raises
`ZeroDivisionError` with nothing done but the new price (`executor.py:138`). So it goes
for a second close, which `is_open` lets through after an exit at price zero, and
for a position of an order of size zero, which nothing refuses.

`DeskIsTrue`: what left a position and what is left is what was filled; a position is booked as
closed once; one the account counts can be closed, unless its order was of size
zero; no report is executed twice; events tell what happened, and all of it unless a save
failed.

### Governed replay

`GovernedReplay` is the replay loop under `RiskGovernor`. Results are whole R; the
trades a candle closes, in the order of their entries, are inputs.

| state | code |
|---|---|
| `open`, `closing`, `log` | the simulator's active trades, those returned and not told yet, `_all_trades` |
| `streak`, `dayStreak`, `lastDay`, `cum`, `peak` | the governor's counters |
| `stats` | `gov_stats`, under the cause the loop's text search finds |

| action | code |
|---|---|
| `Skip`, `Blocked`, `Admitted` | no allowed candidate; `check_state` objects; it agrees, and the simulator sees the candle |
| `Evaluate` | `evaluate` for the next closed trade |

`CountersMatchLog`: the counters kept step by step are those of the trades told, each
told once and after its entry. `GovernorPrevails`: an entry is within the limits of
day, week, streak and drawdown, reckoned from the trades themselves
(`EnteredWithinLimits`); after a full streak, or a drawdown that calls for
preservation, nothing is entered and nothing closed again (`LockedForGood`), because
the simulator sees a candle only if the governor agrees and only a closed trade
could change the governor's mind.

### Run

| run | instance | question |
|---|---|---|
| `services` | two processes, two events and three starts; two reports, prices 0 and 2, sizes 0, 1 and 2, one reset; six candles over three days and two weeks, results -1 and 2, limits that all bind; section 7 | `StoreIsFaithful`, `DeskIsTrue`, `CountersMatchLog`, `GovernorPrevails`, `PlanMatchesCandidate`, `WithinLimits` |

Two processes suffice for any pair of steps of a save to meet; three starts let
one come back after both were up. Two events are the fewest of which a
query can have parsed one. A second close needs a first at price zero, after which the position
counts as open. Six candles are two losses on one day, a third on the next and one candle to
see the block. Processes and reports are interchangeable, hence symmetry, which is sound because no
property is about liveness. Services stop at their bounds: deadlock is not checked.
No property is a temporal one that needs fairness.

### Proofs

`ServicesProofs`, from the limits each service names, for any number of processes, events, reports,
sizes, prices, days and results. `OneServiceSteps` takes a step of the
composition apart: one service moves and the others' variables stay.

- `StoreKeepsItsWord`: `StoreIsFaithful`. `Published` says that what a process remembers or
  the file holds was shown to subscribers, whatever happens. Until two processes are up
  together, `Lone`; and until one also ends inside a save, `Remembered` (who is up knows all
  that was acknowledged, and the event it is saving) and `OnDisk` (between saves the file does too).
- `DeskKeepsBooks`: `DeskIsTrue`, for orders of any size, zero included. `DeskInv`
  is about each report alone: which of order, position and events exist by now (`Lived`), that
  what is open is counted and what is counted was filled with something or with nothing at all
  (`Held`), that fill, close and rest add up (`Conserved`), that at most one trade is booked and
  leaves a quantity of zero, which is what makes a second close raise (`Once`), and that events tell
  what happened (`ToldSo`). `TellOne` and `TellTwo` say what is left when a save raises between
  two events.
- `GovernorCounts`: `CountersMatchLog`. `GovernedInv`: each trade is open, about to be told or
  told; the running sum is the sum of the log and the peak the largest of its beginnings
  (`SumsKept`); the last k told lost and the one before did not (`StreakKept`); the losses of the
  day are at least the day's streak (`DayKept`).
- `GovernorKeepsLimits`: `GovernorPrevails`, an action property, from the same invariant and the
  test each candle begins with.

`GovernedReplay` picks trades from the log by their places instead of filtering it, because
tlapm cannot unfold the library's `SelectSeq` and `SortSeq`.

## 9. Engines

`MCResearch` does for the engines what `MCServices` does for the services: a behaviour
is about one topic. A topic is a machine, with actions, or an algorithm over an input
chosen at the start. Scores are whole numbers in the unit each module's heading
names (points, tenths, hundredths); comparisons of quotients are cross-multiplied, so
that no threshold is moved by rounding, except in `Beliefs`, whose
probabilities are rounded to thousandths.

| topic | module | code | what varies |
|---|---|---|---|
| `strategy` | `SmartMoney`, `StrategyEngine` | `liquidity_smart_money`, `strategy_engine`, the ranker and gate of `selectivity_engine`, as `robustness_lab/replay_runner.py` and `historical_replay/pipeline_runner.py` wire them | one step a candle (`StrategyCandle`), each of which may turn out otherwise; the inverted replay |
| `replays` | `TradeSimulator`, `RegimeReplay` | `historical_replay/trade_simulator.py`, `regime_filter`, the regime replay with its stop and entry methods | any three candles of five, seven stop methods, five entry methods |
| `signal` | `SignalEngine` | planners, quality, gate and size of `signal_engine` | contexts |
| `decision` | `TradeDecision` | calibrator, utility and thresholds of `belief_engine` | a trade, and the same one surer to win |
| `books` | `Microstructure` | `microstructure_engine` | up to five order books in succession |
| `bounce` | `BollingerBacktest` | the Bollinger bounce and its three backtests | seven candles of four |
| `memory` | `CaseMemory` | `memory_engine`: library, similarity, calibrator, regimes | cases added, cleared, a process that dies in a save |
| `beliefs` | `Beliefs` | `belief_engine`: states, updater | evidence and rejections |
| `lab` | `ValidationLab` | `validation_lab` | trades, one at a time |
| `mind` | `Cognition` | `cognitive_engine`, `metacognition_engine` | up to five observations |
| `ideas` | `HypothesisLab` | `research_brain` | which of the generated hypotheses are contradicted, flaws of the first |
| `curve` | `EdgeReport` | `drawdown_control`: equity curve, loss clusters, attribution; `compute_metrics` | results of five trades, in and out of order, of two symbols |
| `edge` | `EdgeVerdict` | `robustness_lab/edge_stability.py` as `run_robustness_validation.py` calls it | replays by period, symbol and window |

### Properties

| property | says |
|---|---|
| `FiltersNeverAgree` | the filter on sweeps never confirms a direction liquidity voted for; once the window has moved no sweep or gap counts as recent; two thresholds of the quality gate are never what refuses |
| `ExitsAreFair` | a stop never pays, for entries at the signal or after the wait that keeps half the risk; the candle of the entry does not end a trade whose stop is made of its range |
| `WorstFillHolds` | an approved plan keeps its ratio and its risk at every price of the entry zone, not only at the preferred one |
| `DecisionsAreEarned` | a trade accepted at one probability is accepted at a higher one, except where the pull to history sets in; what the validation gate admits made a profit in both halves and would have made one with worse luck |
| `BooksCalmDown` | once the order book has stood still for as long as the longest history an analyzer keeps, nothing of before is held against an order: no wall that came and went, no unstable spread |
| `BacktestsBounded` | no backtested trade loses more than its risk or gains more than its target, and one that expires reaches neither; asking either candle for volume takes no fewer trades than asking one, although each trade hides the later ones of its direction and entry |
| `MemoryHolds` | a library that can be opened holds every case whose saving returned; one more loss, of no gain, never raises the confidence, where it displaces no case and is not the first whose R is known; the dominant belief is active as long as one is |
| `EvidenceDecides` | a rejected belief loses weight only to evidence; each finished trade under water is in one episode, the deepest of which is the maximal drawdown, where no signals coincide a recovery takes as many trades as its episode has, clusters hold every streak of losses but its single last one, and the drawdowns of the symbols bound the whole from both sides |
| `VerdictsAreBroad` | an edge called robust has no symbol with most of the profit, no table with a deep drawdown and more windows won than lost; a governed replay of a good profile had no deep drawdown; with two symbols of data no verdict gets worse when a period or a walk-forward window did better |
| `JudgedSoundly` | a trade that is ready for paper is neither rejected, reduced nor thought biased by any judge, and the scenarios agree; a telling word unsaid never makes a trade less ready |
| `FalsifiedNeverWin` | no falsified hypothesis wins; not trading wins only if nothing else is left; no falsified trade outranks one that is not falsified |

`FiltersNeverAgree` states what the code does, not what a reader of it would expect; it
is there because code that no longer did it would change every replay's result. Section 11 lists
what that means. Where a text of the repository says otherwise, section 10 is about it.

### Run

Run `research`. The zigzag of nine candles makes swings, pools, swept and
reclaimed levels, gaps and blocks, and has two candles more than the window of seven. Three candles are a signal, a delayed entry and an exit. Seven candles of
the bounce are the period of three, the slack, a signal, its entry and two of
holding time. Eight trades exceed `MinTrades` of six with two halves. Five
books exceed the `Steady` three and let four that stand still follow another, which is the
longest history. Up to five of
fourteen observations are all types of evidence and most pairs of telling words that conflict; the first one
decides the first template and may be any, the others come in one order. Four updates allow
rejection of one belief after another. Five trades are a streak of three losses and two more; among
their orders are signals that cross and signals that coincide, where neither recoveries nor
attributions are what they are otherwise. Inputs are the products of values at
each side of each threshold. Everything stops at its bound, so deadlock is not
checked; nothing here is concurrent but the death of the process that saves a case,
and no fairness is assumed.

### Proofs

What the engines are given is a constant of `MCResearch` and its assumption says of what
kind: any contexts, any windows of trades, any decisions, any reports of any number of
periods and symbols, whatever hypotheses the generator makes. `InputInv` keeps the input of that
kind; what follows needs no other invariant where the topic is an algorithm.

- `FillsHold`: `WorstFillHolds`. The zone is a tenth of the way to the stop and the target five
  times as far as the stop, so that the worst edge is within both bounds.
- `FlowsNeverBlock` (of section 10): for any windows of trades. What would raise a trap's score
  over the limit that blocks is what no trap is made of, and squeezes, reversals and fake
  breakouts always score less than that there is no edge.
- `ExitsStayFair`: `ExitsAreFair`. `ReplayInv` describes signals, trades and ends: by the
  method of the entry the stop lies behind it, by that of the stop at least three halves
  of the candle's range away, and ends keep both.
- `DecisionsStand`: `DecisionsAreEarned`. Expected value grows with the probability and the
  pull to history takes less than the surer trade is surer by; the gate's grade is from its three tests.
- `NothingIsLost`, `LossesNeverHelp` and `MemoriesHold`: `MemoryHolds`. `MemoryInv`: library, file and
  what was acknowledged agree unless the file is torn. That a loss does not help needs no
  invariant: it is a property of a step. Where fewer cases than the limit are looked at, they are
  all the near ones (the least rank left out would be looked at); after a case is added at
  most that one joins them, for the ranks of the others do not matter any more. A loss among
  them lowers the rate of wins and, being no gain, raises no average R over either of its
  thresholds; so each branch of the adjustment gives at most what it gave. `BeliefInv`: probabilities stay between 0 and 1
  through likelihoods and Bayes' rule, and normalising finds the dominant one among the active.
- `BacktestsStayBounded`: `BacktestsBounded`. A trade that expires closed on the last candle looked at,
  which reached neither stop nor target, so its close is between them. Of the signals
  of one direction and entry only the first trades; the first ones of a smaller set map one to one into
  those of the larger, which orders the numbers of trades for any candles, volumes and parameters.
- `VolumesAlwaysAlike` (of section 10): the filter within the detector and the one on the entry ask
  the same of the same candle, and at a ratio of 0 the detector's own asks nothing,
  volumes being nowhere negative.
- `FalsifiedStayOut`: `FalsifiedNeverWin`. Scores do not depend on the status that falsifying
  writes, and the best that may be traded is above the one about not trading.
- `VerdictsStand`: `VerdictsAreBroad`. The verdict is a chain of tests; each test is shown to move
  one way only as a figure gets better, and the chain follows.

- `BlocksNeverScore` (of section 10) and `PlansOnlyFade`, that the historical pipeline plans
  nothing but to fade the range. `TapeInv`: the candles kept are of the tape, swings are prices of
  candles. `LevelsInv` adds that a plan made of one candle follows the price zone and that every block
  that is no breaker is mitigated. A new block is made from a gap of the window, the candle before
  the gap is in the window and reaches the block's own edge, and breakers are not among what a candle finds;
  mitigated blocks score nothing, so their part of the votes is neutral.
- `FiltersDisagree`: `FiltersNeverAgree`. `FiltersInv` adds the history to `TapeInv`; that what
  the detectors find at a candle lies within the window is a lemma about one candle (`CandlesFind`), and
  the candidate is judged on it. Each new sweep is of a pool some candle
  of the window reached through, or a failed one; the last sweep of the filter and the votes on
  liquidity look at the same set from opposite sides. A place in a window of `Window` candles is less than
  `Window`, so that it is not recent once the history is longer by the age allowed. A bias needs 70 %
  of the votes, and the risk score is 100 less the confluence, so neither threshold refuses.

- `JudgedSoundlyAlways`: `JudgedSoundly`. A trade is called ready only at a confidence of 60 or
  more, so that the uncertainty is 40 or less and no trap risk over 60. A missing kind of order
  flow would be missing for four hypotheses at least, which already raises that risk over 60: none
  is missing. Then six pieces of evidence or more speak for the first hypothesis, eight with price
  action, or the doubt is larger; so no judge finds too little evidence for the confidence, and the
  scenarios are 50, 25, 15 and 10 or 36, 32, 23 and 9. A word unsaid only takes contradictions away, and the
  scores and each answer made of them go one way with the contradictions. For hypotheses of any
  sequence of observations (`InputInv` says they are observations) the list is of known kinds and
  names each once.

The strategy proofs hold for any tape of candles of whole numbers, any hours and any parameters
(windows and periods positive); these are constants of `MCResearch` that the configuration sets.

`EvidenceDecides` and `BooksCalmDown` are only model-checked; section 12 says why.

## 10. Promises

Four things that texts of the repository say and the code does not do. `MCPromises` states
each as its text has it, and `SomePromiseKept` says that at least one holds, wherever
candles and edits have brought the program. The run `promises` is an expected
violation: its counterexample is one state in which all four fail. Each is a
finding in `PROJECT.json`.

| promise | text | what the code does |
|---|---|---|
| `BlocksScore` (`SmartMoney`) | order blocks are detected and score in the confluence (`README.md:47`, `README.md:50`) | a block is looked for in a window that holds the candle it is made of, which reaches its own edge: it is mitigated when it is found (`order_block.py:89`). For every tape: theorem `BlocksNeverScore` |
| `BlocksTrade` (`OrderFlow`) | a trap blocks a trade (`README.md:34`, `README.md:36`) | what a block needs is what no trap is made of (`trap_detector.py:61`); the test at `test_orderflow_intelligence.py:500` builds the trap's result by hand. For every window: theorem `FlowsNeverBlock` |
| `SignalVolume` (`BollingerBacktest`) | one backtest takes signals by the volume of the signal candle (`volume_breakout_backtest.py:4`, `:215`) | it looks at the entry candle (`volume_breakout_backtest.py:50`), so that it trades like the one named after that candle. For every series: theorem `VolumesAlwaysAlike` |
| `LaunchIsBacked` (`LiveGates`) | each allowed pair has a good line in the latest report (`launch_check.py`, gate 5) | `if ok and report` skips the gate for a report that is an empty object (`launch_check.py:178`), and without PyYAML no list is read |

`LiveGates` is the launch check over an edited configuration and a renewed report.

| state | code |
|---|---|
| `config`, `yaml` | `config_locked.yaml`; whether PyYAML can be imported, without which the parser in the file reads flags and no lists |
| `report` | missing or not JSON, an empty object, or lines of some pairs |
| `verdict` | the last launch check, `NotRun` after an edit |

| action | code |
|---|---|
| `Allow`, `Report` | an edit; a report, which is written in place |
| `Check` | `run_launch_check` with a clean tree |

`OrderFlow` is `orderflow_intelligence` as a function of a window of trades and the windows
before it. `SmartMoney` and `BollingerBacktest` are those of section 9.

Bounds. The disjunction is violated only where every part fails, so the inputs must not
be ones that make a part fail trivially: the tape makes a gap and a fresh block above
it, the windows of trades have each side silent, small and large and prints of unknown
aggressor, and the series contain signals whose own candle has the volume and
whose next one has not, and the reverse. Two pairs and two edits are an allowed pair
and a report.

## 11. Observed while modelling

What the code does where a reader might expect otherwise, and no property
forbids. References are to the code under `src/`.

Paper and live trading:
- The rotation falls back to the unfiltered candidates (`paper_rotation_engine.py:253`).
- A passing launch check with a report that is an empty object or without PyYAML
  (section 10); nothing that places orders asks for it. The display's loader always shows its
  fallback without PyYAML: its parser strips lines before it looks for the indentation of
  the second line of an item (`locked_config_loader.py:91`). The safety lock's import check sees
  top-level modules only.
- An order of size zero is filled, and its position stays counted and cannot be closed; a second
  close after an exit at price zero raises (`paper_trading/executor.py:138`).
- `position_size_units` is money and the executor takes it for a quantity.
- Reading an event a second time raises, for `get_event` parses the stored values in place.
- The stream's health check reads flags that nothing resets when reconnects are used up.
- `ultimate_trader/main.py:575` uses `TradeDirection`, which it does not import.

Replays:
- The simulator is called only on candles with an allowed candidate: stops and
  targets in between are not seen and the holding time counts such candles only
  (`README.md:61` promises a maximum). Trades open at the end are in no metric.
- The inverted replay writes its direction into the map the neutral replay reads
  (`scripts/run_selective_replay.py:248`).
- Entries after a confirmation may lie beyond the stop, and trades with a stop of
  average range may be ended by the candle they were entered on.
- The regime replay with `avg5`, `avg10` or `avg20` for stops leaves a
  variable unbound on some candles; `rc_state` does not advance on refused ones.
- In the three backtests of volume (section 10) the entry candle
  is not complete when the trade is entered at its open; its high and low are skipped. The
  backtest with 3 deviations simulates from the last candle whose close is near the entry, which
  may precede the signal, and the walk-forward split follows the order of symbols.

- "Out of sample" is every trade of every table, the full data set included, so that
  one trade may count five times towards the 200 of a robust edge
  (`scripts/run_robustness_validation.py:207`); drawdowns of windows are not looked at.
- A regime-specific edge is said to recover one that "looks overfit"
  (`robustness_lab/edge_stability.py:190`), and is found whether it looks so or not.
  With one symbol of data, better results may turn PROMISING into UNSTABLE: no branch is
  left for what is neither robust nor flawed.
- An episode that is still open has an end, so "ongoing" is never shown, and the trade that
  ends one counts for its win rate only. `max_same_direction_losses` is the last streak,
  not the longest. Two maximal drawdowns of the same trades are reported, one in the order of
  signals and one with the replays in turn (`scripts/run_drawdown_validation.py:147`).

Detectors and filters:
- Order blocks never score (section 10), and shown one candle at a time the historical pipeline
  plans nothing but to fade the range; pools are swept by candles older than they are; the
  middle of the range counts as premium; failed sweeps are recorded again; swing
  places are stale once the window of 100 candles has moved; gaps are never invalidated.
- The weekend filter has no weight, the volume score falls near a ratio of 1.5, and the
  average range weighs the oldest candles most.

Beliefs, memory, validation:
- Rejected beliefs gain weight and count in the probability of not trading, so that
  probabilities may add up to much more than one (`tests/test_bayesian_updater.py:39`,
  `README.md:125`).
- The calibrator's pull sets in with a jump 10 % above history.
- A loss may raise the confidence where it displaces a better case, makes the
  memory large enough, or is the first case whose R is known: until then the mean of R is
  missing and wins count for nothing (`confidence_calibrator.py:82`); a regime whose cases are gone keeps its rates; expectancy charges breakevens the
  average loss.
- The validation gate never says GOOD; the daily drawdown it asks for is never computed;
  shuffled trades end where they ended, so the probability of ruin is all or nothing.

Order flow and books:
- The order-flow report never blocks (section 10); squeezes, reversals and fake
  breakouts never dominate; a trade of unknown aggressor counts as a sale in the
  cumulative delta only. In books of another depth than normal an order that is not
  blocked may exceed a side (`price_impact.py:78`).

Reasoner and hypotheses:
- Every trade the reasoner recommends fails the decision audit, because evidence counts
  once per hypothesis, and the report asks for readiness without the audit's
  verdict: the final action may be a paper trade (`README.md:106`, `README.md:109`).
- Hypotheses never get a confidence, so the first template wins and the bias is never
  SHORT; no evidence against is collected; two of six rules of contradiction never
  apply; human review is unreachable, for two spellings of "decision audit" differ.
- The winner of the competition is not the first of the ranking; a falsified
  hypothesis may outrank one about not trading; the ranker overwrites the status.

## 12. Not modelled

`PROJECT.json` lists every package. Not modelled are: the market brain (tables of
texts looked up by name), directional diagnostics and forensics (counts over finished
replays that nothing reads back), storage (transactions of the database library), the
data engine and candle downloads (before any other component runs), the resolver of
final decisions (no program produces what it resolves), the safety lock (it repeats the
launch check's flags and scans the sources for imports), the one-shot guard (nothing in
the repository reads its file), the loader of the locked configuration (for a display),
data classes and interface
stubs, command line and report scripts. Of the modelled components the texts,
reports and comparisons of finished runs are left out; `PROJECT.json` says what else.
`robustness_lab/replay_runner.py` imports `production_replay.risk_controls`, which the
repository does not contain: whether those controls refuse a candle is an input.
The shadow report the ledger reads (`bingx_order_intent.json`) has no producer in
the repository; its content is an input.

Model-checked and not proved:
- liveness under fairness, which the provers do not do: `WaitingOrdersEnd`, `OrphansEnd`, `GivesUp`;
- `BooksCalmDown`: each analyzer keeps a history of its own length, and what it finds there is
  the result of folds and extrema over it;
- `EvidenceDecides`: the accounts of a curve are folds with a record as their state, which
  takes induction over data; the rejected belief loses to evidence only as far as the
  rounding of the normalised weights lets it, so that its half is no theorem for every constant.
