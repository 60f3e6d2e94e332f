# Verification of the paper forward-shadow bot

TLA+ models, TLC runs and TLAPS proofs about `agi_style_forex_bot_mt5`: a bot
that reads MT5 market data, decides by a shared pipeline, and manages a *paper*
book in SQLite, with an operator, a Telegram channel and a watchdog around it.
Paths below are relative to the repository; `PKG` is
`src/python/agi_style_forex_bot_mt5`.

## 1. The system

| Component | State it keeps | Operations | Talks to |
|---|---|---|---|
| Run loop (`PKG/paper_trading/forward_shadow_bot.py`) | connector, interrupt flag, in-process latch, skip streak | `run`, stop polling, back-off, heartbeat, reports | everything below |
| Paper lifecycle (`lifecycle.py`) | `paper_cycle_in_progress`, `paper_lifecycle_halted`, `paper_audit_complete`, the pause row | `process_paper_cycle`, `skip_paper_cycle`, `halt_paper_cycle`, `_sync_daily_pause` | store, ledger, positions, pipeline |
| Decision ledger (`decision_state.py`) | `paper_decision_state_v1`: capital, daily references, known trades | `build_paper_decision_state`, `capture_paper_daily_reference` | store, positions |
| Positions and fills (`paper_position_manager.py`, `paper_fill_model.py`, `execution_simulation/fill_model.py`, `core/price_grid.py`) | `paper_trades` rows | open, update with a quote, close, managed stop | store |
| Decision pipeline (`core/decision/pipeline.py`) | none | strategy, ML filter, ranker, portfolio, risk, paper limits in order | risk, portfolio, ml |
| Risk and limits (`risk/`, `portfolio/`, `paper_risk_calibration/`) | none (inputs) | sizing, exposure, budgets, kill switch | - |
| Telemetry store (`telemetry/database.py`, `logger_setup.py`, `persistence/`) | the SQLite base and the JSONL audit | event insert, operational row under `BEGIN IMMEDIATE`, outbox rows | - |
| Telegram (`telemetry/telegram_notifier.py`, `persistence/telegram_outbox_worker.py`, `telegram_command_center.py`) | outbox rows, delivery attempts, the update offset | notify, flush, poll commands | Bot API |
| Operator commands (`paper_state.py`) | the same operational row and trade rows | pause, resume, stop request, close-all | store, from other processes |
| Value demo executor (`execution/value_demo_executor.py`) | `demo_state.json` (trade to ticket, first equity of the day), the request journal | reconcile, close, move levels, open | the account of the broker, the record's book |
| Daily-FX forward tracker (`research/daily_fx/forward.py`, `forward_trades.py`, `forward_inflation.py`) | the hash-chained ledger of checkpoints, inflation downloads, swap snapshots | run, report, export, capture, fetch | broker, World Bank |
| Daily-FX forward routine (`forward_routine.py`, `forward_telegram.py`) | `routine.lock`, delivered messages | run every step once, take over a stale lock, deliver | tracker, demo executor, Telegram |
| Research, backtests, ML, strategies, reports, repair tools | files | one-shot computations | the base, offline |

The hard behaviours are all around one fact: **the run, its operators and its
killer share one SQLite base, each access is a transaction of its own, and
everything the code does spans several of them.** Inside a cycle there are some
forty accesses, any of which may fail or be the last one before a kill; pauses,
stop requests and closings arrive between any two; the calendar passes midnight
anywhere. What must hold: no change of the book goes unmarked or unaudited; a
halt, a pause and a halted day are obeyed; a refused restart never launders an
earlier failure; a stop request ends the run; a message channel neither loses
nor, where promised, repeats.

Beside it runs the forward test of the value book: a weekly routine that extends a
ledger nobody may rewrite, applies a rule fixed in advance to it, tells a channel what
it sealed and lets an executor mirror the book on a demo account. Its hazard is the
same in other clothes: files, a lock by name, a ledger and a broker, each written in
a step of its own, by runs that are late, overlap, die and see revised inputs.

## 2. Modules

### PaperLifecycle
`forward_shadow_bot.py` + `lifecycle.py` + the operator's half of
`paper_state.py`, over the durable fields they use. The process has a program
counter `pc`; **one action is at most one storage access and the computation that
follows it**, so that a command, a failure, a kill or midnight can fall between
any two accesses. `StorageFails` raises from whichever access `pc` stands at
into `halt_paper_cycle`, as what it is or, at the three places of `Rewrapped`, as the
`PaperStateError` or the RECOVERY_FAILED the code makes of it (`decision_state.py:226`
and 275, `db_health.py:55`), which the halt takes for no storage failure; `HaltFails` is
a failing access inside the halt, which loses the rest of it; `Crash` forgets the
process and keeps the base. With a BALANCED_STABLE* profile (`StableProfile`) a new entry
is written twice: `Fill` inserts the row, `Decorate` rewrites it from memory before
`OpenAudited` reports it.

| Variables | Code |
|---|---|
| `book` | `paper_trades.status` per closed-bar identity (`manual`: closed by `paper-close-all`) |
| `latched`, `intent`, `auditMark` | `paper_lifecycle_halted`, `paper_cycle_in_progress`, `paper_audit_complete` |
| `pause` | `shadow_paused` with reason and author, as `none`, `operator`, `daily` (its own drawdown pause), `halt` |
| `haltDay`, `dayHalted` | `paper_daily_halt_day`; the ledger's `daily_references[day].halted` |
| `stopReq` | `forward_shadow_stop_requested`, `fresh` or `stale` relative to the live process's start |
| `decided`, `reported` | `PAPER_DECISION_COMPLETED` (accepted) and `PAPER_TRADE_OPENED` events that are durable |
| `todo`, `cands`, `sig`, `sawPause`, `kill`, `sDay`, `final`, `cause`, `certain`, `consume`, `interrupted` | local variables of the Python functions |
| `opResume`, `opClose` | what the operator's own process has read and not yet written |
| `dirty`, `orphan`, `doubt`, `lateOpens`, `resumed` | history, read only by properties: work done since the intent; an unfinished cycle found; a storage error that reached the halt as such; entries under a pause; an operator lifted the pause and no automatic one followed |

Data is abstracted to what the properties tell apart: prices, quotes and budgets
are nondeterministic verdicts (a trade may stay open or close; a candidate may be
rejected or, unless paused or halted, accepted; the ledger may reject; drawdown
may latch whenever there is a book to lose on). At exactly midnight
`process_paper_cycle` captures the boundary reference before it refreshes the ledger:
one more observation, which the refresh repeats, and not an action of its own.

`AuditedBook` is what the lifecycle promises to whoever opens the base: a cycle begins,
enters, reports, manages and settles, or is abandoned for good. `PaperLifecycle`
implements it with `book`, `reported` and a `Phase` read off the base and the process:
settled without an intent, working while the run stands in its own cycle on an unlatched
base, abandoned otherwise (property `BookIsAudited`).

### PaperPosition
`paper_position_manager.py` with the helpers it calls (`price_grid.py`,
`fill_model.py`, `position_sizer.py`, `signal_builder.py`) and the ledger's mark
check, for one position. It is the data that `PaperLifecycle` abstracts into
"a managed trade stays open or closes": `Manage`, `Judge` and `Close` are the parts
of `PaperLifecycle!ManageTrade`, `Open` is the part of `Fill` that computes, `MarkBook`
one cause of `LedgerRejects`, and `Fails` stands for every failure that latches.

Prices are whole **ticks**: the code refuses a price off the grid, rounds fills
against the position and stops away from the market to the grid, so between ticks
nothing can be observed but the trailing stop, whose rounding is `Trail`'s
integer division. `side` is +1 or -1, and `side * price` orders prices by how good
they are for the position, so that BUY and SELL are one set of formulas. One tick is
one unit of account currency per lot, so losses and budgets are integers too; the
code's tolerance of 1e-9 on the budget is not needed and not modelled. Fractions
of the risk (0.6R, 0.8R, 0.5R) are tenths. Three verdicts are left open: whether
the age closes a trade, whether a candidate appears, and what a floating-point
comparison answers on exact equality (`ties`, chosen with the trade because its
prices decide it).

| Variables | Code |
|---|---|
| `row` | the durable `paper_trades` row: entry, initial and current stop, target, `mfe`, lot, approved budget, exit |
| `quote` | the `MarketSnapshot` of the cycle |
| `held`, `exit` | `updated` and `close_reason, base_exit` inside `update_with_snapshot` |
| `exitMark` | history: the closing side of the quote that closed the trade |

Not in it: identities and the replay of an intent (`_existing_intent`), tick age,
the legacy PnL scaling, `mae`, and the broker's `volume_max`. A position is followed
until it is closed; the book of several is `PaperLifecycle`'s.

`ProtectedPosition` is what it promises its holder, in prices counted so that higher is
better: the protection starts below what was paid and only tightens, the terms never
change, the exit gets the market or the target less the slippage, and a closed position
is history. The durable `row` implements it, every price times its `side` (property
`PositionIsProtected`); `held` and `exit`, what an update has computed and not written,
are not part of the promise. It speaks of a position while a run manages it, from its
fill to its close: what another process does to the row (`paper-close-all`, and the copy
written back over it, finding 5) is `PaperLifecycle`'s.

### DemoExecution
`value_demo_executor.py`: one run is `BeginRun`, `Reconcile`, the loop over the open
records (`ManageRecord`), `RememberDay`, the loop over what is missing (`TryOpen`) and
`EndRun`; an order stands at `dpc = "send"` until the broker answers. **The state file
changes at `Reconcile` and at `EndRun` and nowhere else**, as in the code, so that
`DeadRun` forgets everything in between. Positions are closed and opened by others,
and the equity and the date move, between any two steps; the paper book only moves
between runs, because the routine that seals it performs them itself.

| Variables | Code |
|---|---|
| `paper`, `level` | `PaperTrade.closed_on`; the re-anchored stop and target |
| `positions`, `ticket`, `equity` | the account: `positions_get()`, tickets, `account_info().equity` |
| `placed` | openings the broker has accepted and does not show yet |
| `state`, `mem` | `demo_state.json`; `self.journal.state` of the live run |
| `account` | the account the gate returned at the start of `run`, used by `_remember_day` |
| `todo`, `order` | the rest of the current loop; the request between its journal line and its answer |
| `fills`, `lostFill`, `blind`, `unseen`, `firstEquity`, `lostDay` | history, read only by properties (`unseen`: the most openings that were placed when a limit was checked) |

A `positions_get` that fails (None) is read as an empty account both at reconciliation
and for the limits, as `or ()` does. "Done partially" is done. Spread, symbol, levels
and sizing are one verdict that may skip an opening. An accepted opening (`OpenAccepted`)
is shown at once or only placed, since retcode 10008 counts as done and an order nobody
answered may execute later; `PlacedExecutes` and `PlacedFails` are the broker's. The
release gate is one more reason for a request not to leave. Three reads
of the account are taken as one: the equity of `_open` and the positions it counts.

### ForwardRecord, AppendOnlyRecord
`forward.py` and the report of `forward_trades.py`: one run of tracker or report is one
action (`Refuse`, `ReturnFinal`, `Extend`, `NothingNew`, `Report`), in the order of the
code's checks. Around it `DayEnds`, `Export` (complete, or short), `Capture`, `Revise`
(the broker changes a bar), `Fetch` (another inflation file: years appear, are
withdrawn, revised, incomplete). `Capture` stamps the present day, as the capture program
does, so that the rule on admitted snapshots (`Admitted`) has no backdated one to refuse.

| Variables | Code |
|---|---|
| `record.days` | the checkpoints' `days`/`primary`/`broker_swap`/`closes`, flattened: bar version, inflation behind the return, swap covered |
| `record.fixed`, `record.seen`, `record.at`, `record.verdict` | `inflation_fixed`, `swap_snapshots_seen`, `run_at_utc`, `rule` |
| `bars`, `shown`, `supplement`, `snapshots`, `today` | what the broker's history, the exports, the newest download and the captures are when a run starts |
| `market` | what the rule finds in the returns: the day of the breach, where each look's t lies, what the swap leaves of each day. Chosen once: the same sealed days always give the same numbers |

`AppendOnlyRecord` is the abstract specification: entries are only ever added behind the
last one, and nothing once the record is final. `ForwardRecord` implements it with
`entries <- record.days, final <- Closed` (property `RecordIsAppendOnly`).

### ForwardRoutine
`forward_routine.py` from `_acquire` to the `finally`, with the file it appends to
(`trial_registry.py`) and the channel it writes to (`forward_telegram.deliver`,
`TelegramNotifier.send_text`). Several starts interleave at every access of lock,
ledger and channel, and each may be killed anywhere, half a line or a sent and
unrecorded message included. A message takes three steps, as in `send_text`: `ReadRow`
reads whether the row says SENT, `Send` is the call, `RecordSent` or `RecordFailed` the
attempt recorded, whatever the row says by then; an outbox that raises ends the delivery
and not the run (`OutboxRaises`).

| Variables | Code |
|---|---|
| `lock` | `routine.lock`: its creator, and whether it is `STALE_LOCK_SECONDS` old |
| `rpc`, `tries`, `judged` | where a start stands; the two rounds of `_acquire`; the file whose age it has read (history, except that it is `NoOne` away from `unlink`) |
| `chain`, `torn` | the lines of the ledger with the predecessor each names; half a line at its end |
| `base`, `upto`, `head` | what `run_forward` and `append` have read and not yet used |
| `complete` | complete days in the exports |
| `list`, `delivered`, `channel` | the messages still to send, the outbox rows that say SENT, what the channel shows |
| `raced` | history: a start removed a lock file it had neither judged nor created |

The contents of a checkpoint are `ForwardRecord`'s; here it is a range of days, and a
day is a message. A live routine's lock never grows stale: four subprocesses with 1800
seconds each stay below three hours.

`ForwardBulletin` is what its readers may rely on: days complete, are sealed without a
gap, and are announced each after all before it; nothing sealed or announced is ever
withdrawn. `ForwardRoutine` implements it with the days its ledger seals and the messages
its channel has shown (property `BulletinIsKept`), also when two takeovers race, where
the ledger's chain may break but its days do not.

### TelegramOutbox
`telegram_notifier.notify_event`, `telegram_outbox_worker.flush_telegram_outbox` and the
rows they share. `Notify`/`Send`/`Record` is the notifier, `BeginFlush`/`FlushOne`/
`FlushRecord` the worker, with the answer of the Bot API in `answer` or `reply` until it
is recorded; `NotifierDies` and `FlusherDies` lose it.

| Variables | Code |
|---|---|
| `place`, `status`, `due` | `telegram_outbox`: order of insertion, `status`, `next_retry_at_utc` reached |
| `sending`, `answer`; `batch`, `reply` | the locals of `notify_event` and of `flush_telegram_outbox` |
| `enabled` | `telegram_enabled`, read when the bot starts |
| `appearances`, `doubted` | history: how often the channel shows a message (to two); whether some delivery of it was in doubt |

### TelegramCommands
`telegram_command_center.poll_and_process` with `paper_state`'s pause and resume beside
it. `Poll` reads a batch after the offset, `Execute` handles one update, `Confirm` stores
the offset; `Raise`, `Unrecorded` and `PollDies` leave it behind. A rejected or unknown
command is a `report`: it answers and changes nothing.

| Variables | Code |
|---|---|
| `updates` | what was sent to the bot, in order; an update's id is its place |
| `offset`, `paused` | `telegram_update_offset`, `shadow_paused` |
| `next`, `last` | the loop over `payload["result"]` |
| `executed` | history |

### MCForward, MCTelegram
Compositions for TLC. The parts share no variable (they meet in files whose contents each
abstracts for itself: the book of the record is `paper` of the executor, a sealed range
of the routine is a checkpoint of the record), so `service` chooses which one runs while
the others rest in an initial state; the states explored are the sum and not the product.

### Proof modules
`X_proofs` has the theorems about `X` (section 4); `NaturalMinimum` the lemma on `Min`
they share.

## 3. Runs

| Run | Instance | Question and answer |
|---|---|---|
| `lifecycle` (`MCPaperLifecycle`, `PaperLifecycle.cfg`) | 2 identities, 2 days, 2 starts, 1 crash, 1 fault, 2 commands out of pause and close-all; 2.75 million states | Is every change of the book marked and audited, are pauses and halted days obeyed, and does a refusal heal nothing, wherever failures and commands fall? Is a halted day left paused? Holds: five state invariants, two action properties and the refinement of `AuditedBook`. |
| `lifecycle_live` (`PaperLifecycleLive.cfg`) | `FairSpec`, one identity, 2 of the six kinds of command, one fault | Does a stop request end the run, and does every opened cycle complete or end it? Holds. |
| `foreign_pause`, `stale_stop`, `healed_audit`, `lost_latch`, `reopened` | smallest instances that show them | Five promises of the documents that the code breaks (section 5): TLC prints the interleaving. |
| `position` (`MCPaperPosition`, `PaperPosition.cfg`) | bids 12..34, spreads 1 and 3 (limit 2), two geometries, two approved volumes, defaults 0.6R / 0.8R / 0.5R | Whatever the market does and wherever the process dies: is the position a protected one, does the stop follow the excursion, are exits and losses what was promised, can the ledger mark what a cycle leaves open? Holds: five invariants and the refinement of `ProtectedPosition`. |
| `position_trigger` (`PaperPositionTrigger.cfg`) | the same | Is break-even triggered *at* 0.6R? Not always (section 5). |
| `forward` (`MCForward`, `Forward.cfg`) | executor: 2 trades, 2 tickets, 2 days, 3 moves, 1 mishap; record: 4 days, 2 looks, 2 years, 2 revisions; routine: 2 starters, 2 days, 2 failures; 1.35 million states | Is the record append-only and its verdict independent of the schedule, is the ledger whole and everything complete sealed and announced in order, does the demo account stay within its limits, is it touched only as the book says, and does it converge to the book? Holds: ten invariants, two action properties, two liveness properties and the refinements of `AppendOnlyRecord` and `ForwardBulletin`. |
| `telegram` (`MCTelegram`, `Telegram.cfg`) | outbox: 3 keys of which one is always refused, one flusher beside the notifier, limit 2, 2 troubles; commands: 3 updates of four kinds, 2 breaks, 2 orders; 118 thousand states | Is what is recorded as sent shown, repeated only in doubt, nothing starved, no command skipped, and no pause lifted by an old resume unless a batch broke? Holds. |
| `opened_once` (`MCDemoExecution`, `DemoOpenedOnce.cfg`) | the executor alone | Does a rerun never open the same trade twice? It does, after a lost answer or a dead run (section 5). |

Every property of a passing run has a mutant in `PROJECT.json`: an operator of the
module (named after the definition it corrupts, with a comment starting
"Mutant of") under which TLC finds the property violated. The mutants are not
reached from `Next`.

**Deadlock** is not checked: the run really ends, and the budgets (days, starts,
commands, faults) really run out.

**Bounds.** One failing access, one crash, two launches, two operator commands, two
days and two identities: each hazard of the list needs at most one crash or
fault plus one restart, at most two commands (a pause, and a close-all to read
and to write; the liveness run has all six kinds), one midnight, and two candidates
(the halt between them; the one that had already read the pause and the next). The safety
run decorates its entries, the liveness run does not. `Signals` is symmetric in the
safety runs; no liveness run uses symmetry.

For `PaperPosition`: with a stop of 4 or 7 ticks plus one tick of slippage, 23 bids
leave room for a position to open in the middle, reach its target and gap through
either protection in one quote; the risks 5 and 8 make a trigger met exactly
(0.6 x 5 = 3) and missed by a fraction, and a trailing distance on the grid
(0.5 x 8) and off it (0.5 x 5); approved volumes 3 and 5 with step 2 make the budget
cut the volume by a step, or leave nothing. The model assumes (named
`DistanceAssumption`) that the spread limit is below the stop distance: the code keeps
stops at 100 points or more and accepts 25 points of spread by default, but nothing
in the configuration bounds that limit, and `LedgerCanMark` needs it.

For `MCForward`: the second fill of a trade needs one mishap and a second run; the limit
of one position is reached by the first trade and threatened by the second, by a manual
position (with or without a stop) and by a forgotten one; a day's loss of 5 % is above
the daily limit and below the floating one. Two looks with a breach before, between,
after and never, each t above, between and below its boundary, rebalances on day 2 and
4 with years that arrive late, one look whose swap coverage is too low: every clause of
the rule decides in some state. Two starters and two failures are what the takeover of a
stale lock, the race of two takeovers, and a kill while another waits need. For
`MCTelegram`: one always-refused row below a limit of two is the largest number that does
not starve the rest (named `PoisonAssumption`: twenty such rows in the real instance stop
the outbox); a batch of two with a raising command in it replays its head.

**Fairness.** `FairSpec` assumes only `WF_vars(RunStep)`: a live process that can
execute its next statement eventually does. Launches, faults, the calendar and
operators owe nothing. The other liveness properties need somebody to come back, which
the code leaves to a scheduler; each assumption is weak fairness of a step that stays
possible:

- `DemoFairness`: a run is begun again (the weekly task) and a live run goes on.
- `RoutineFairness`: a start is made again, a live routine goes on, the lock of a dead
  routine grows old. Days need not pass (`RecordCatchesUp` speaks of the runs in which the
  last one completes); kills, failing steps and sends are bounded and owe nothing.
- `OutboxFairness`: the notification is a straight call, the operator keeps flushing
  (`telegram-outbox-flush`, or `/outbox`), and clocks reach a retry time. The code itself
  never calls the flush: without the operator a failed row stays.
- `CommandsFairness`: the forward loop polls before each cycle.

## 4. Proofs

`PaperLifecycle_proofs` proves, for any set of identities, any number of days,
crashes, faults, starts and commands, and either resume policy, that the
invariants and action properties of the run `lifecycle` hold of `Spec`. The
assumptions are the three named ones of the module (the bounds are numbers, the
commands are known ones, `None` is not an identity).

None of the properties is inductive alone. `Inv` adds what the control location
implies: `Flags`/`Data` (types, and a program counter in its set), `CycleInv` (past
its intent a cycle has the intent, no latch, and is not orphaned), `BookInv`
(a dirty book has the intent; what is still to be managed was decided),
`PauseInv` (late entries are counted only while the one candidate that had read
an unpaused row is between `decide` and `fill`), `LedgerInv` (the flag in the
process agrees with the latch of the day it was read for, and on which days
the daily pause may be lifted), `HaltedInv` (a halted day is unpaused only between the
observation that halted it and the write of the pause, inside the cycle) and
`AuditInv` (a doubtful run never reaches the write that declares completeness
with `certain`). Each has its step lemma, one case per action that can disturb it.

`ImplementsAuditedBook` maps each step to one of `AuditedBook` or to a stutter. Two facts
about the past carry it (`Traces`): outside an entry under way every trade of the book is
reported (`RowsInv`), so that an entry finds the earlier ones reported and the clearing
of the intent settles a fully reported book; and a live run on a latched base never
stands in a cycle (`LatchInv`). Three theorems bound findings of section 5, of which the
runs only show that they occur: `ReopenedAtMost` (a closed trade comes back only if it
was closed by hand, and only from a run that had its row in memory: in the management
loop, or in the decoration of the entry it just made), `LatchLost`
(a run in doubt ends on a base with neither latch nor intent only when the write of the
latch itself fails, or by a kill) and `StopIsHeard` (past its start-up a run loses no
stop request but to `resume-shadow`).

`PaperPosition_proofs` proves, for any set of quotes, spreads, distances, approved
volumes, costs, lattice and management parameters that satisfy the five named
assumptions of the module, the type invariant and the five other properties of the run
`position`. The last of them is the refinement of `ProtectedPosition`: an entry maps to
`Enter`, a write of `Manage` to `Tighten` or a stutter, a close to `Leave`. The inductive invariant `IInv` says what each promise needs from the
past: `RowSound` (the protections embrace the entry, the stop has not loosened since
the fill, the volume times `RiskPerLot` fits the budget, the stop follows the
excursion), `HeldSound` (the copy in memory during an update is the same trade,
sound, with a stop at least as tight: this is what makes both writes of an update
safe, and a death between them), `ExitSound` (the base of an exit is never better
than the market, and beyond the initial stop only if the market is),
`QuoteOrdered` and `NothingYet`. Each action has a lemma; inequalities multiplied by
`side` are proved by the two cases of the side.

`DemoExecution_proofs` proves the six safety properties of the executor for any book,
limits, equities and number of mishaps. What each needs from the past: the records of
`state` and `mem` name tickets given, each to its trade (`RecordedNeverReopened`); a fill
outside both is in `lostFill`; while nothing was read blindly, an opening is only under
way if the account has room for it but for the `unseen` ones, placed when a limit was
checked; and the equity in memory of a day not lost is
the first one seen. For `AccountFollowsBook` (`FollowsBook`): no record names a ticket
not yet given, and a position only under its own trade (`Names`), whatever fills were
lost; and a close under way is of a trade that has left the book, which does not move
during a run.

`ForwardRecord_proofs` proves, for any calendar, rule, market and download, that the
record is append-only (a refinement: initial states, and every step grows the record or
stutters), that its verdict is that of a reader who ran the rule every day, and that
inflation can never contradict it. The heart is an argument about the rule: a verdict
over `n` sealed days is the first one a daily reader would have met, because a look's
window and the breach before it are sealed when it is due (`Verdict` is stable under
longer records), and coverage of a sealed day never changes, since a snapshot that claims
an earlier date is not admitted.

`ForwardRoutine_proofs` proves types, `LockGuardsLedger`, the order of the channel and the
refinement of `ForwardBulletin` for any set of starters. The first one's invariant says,
as long as no foreign lock was removed: who is past the lock owns it, a lock judged stale
is a dead routine's, what a routine has read of the ledger is still its end. The order
rests on this: the outbox rows that say SENT are among what the channel shows, and a
message waits in a list only behind messages that wait there too or were shown. The
refinement holds without the lock, because what a start knows of the record may be old
but was true once, and the record only grows: the sealed days are always an initial
segment, and what is in a list is sealed (`BulletinOK`). `CopiesBounded` adds what an
outage costs the channel: at most one message more than were acknowledged for each failing
step and kill, as long as one routine at a time is past the lock; two of them may both
read that a message is not sent, and both send it.

`TelegramOutbox_proofs` and `TelegramCommands_proofs` prove the safety properties of run
`telegram` for any number of keys, flushers, updates and breaks; in particular more
flushers than the instance has. The invariant of the first follows a message from its
answer to its row: as long as nobody is in doubt, a row still to be retried was never
shown. `RaisingBlocks` proves that the exception in `CommandsArrive` is a real one: a
command that raises is executed at every poll, and nothing sent after it ever is.

**The safety half of the liveness properties.** A liveness property under fairness needs
ENABLED and stays with TLC; what can be proved of it is that no step undoes the progress
of another. `EveryRoundEnds` ranks the places of a run: every step of it, a failing one
included, lowers the rank (trades to manage, candidates, refreshes, then the location),
nobody raises it, and a new round is begun only by a run that is not asked to stop or
fails to read that. `RunsEnd` does the same for a run of the demo executor,
`EveryStartEnds` for a start of the routine, whoever holds the lock, and `FlushesEnd` for
a flush. `QueueIsFair` (nothing gets ahead of a waiting row) and `FirstIsTaken` (fewer
refused messages than a flush has rows never keep the first of the others out) are the
two facts that `QueuedArrives` needs besides. With weak fairness of the step in question
each rank must run out. The properties of these theorems (`RunAdvances`, `EveryRunEnds`,
`NoStartWaits`, `EveryFlushEnds`, `NobodyOvertakes`, `PoisonKeepsNobodyOut`,
`CopiesCostFailures`, `NothingPastARaisingOne`, and the three that bound findings) stand
in their modules and are proved, not run; so are `MutatesOnlyInItsOwnCycle`,
`StopNeverRetreats` and `ChannelInOrder`, which the three refinements now cover in the
runs.

**Only model-checked:** the liveness properties (`StopEndsRun`, `CycleSettles`,
`BookIsMirrored`, `RecordCatchesUp`, `QueuedArrives`, `CommandsArrive`).

## 5. Disagreements between the code and its documents

Each is a run in which TLC violates a property that states the document's promise.
The traces are the shortest ones.

1. **The daily pause overwrites the operator's** (run `foreign_pause`, property `ForeignPauseKept`, `PKG/paper_trading/lifecycle.py:181`). docs/decisions/2026-10-05-shared-paper-cycle-lifecycle.md:58 says of the daily pause 'Nunca reemplaza ni limpia una pausa ajena.' (it never replaces or clears somebody else's pause), and the comment at lifecycle.py:183 'A manual or unknown pause never expires here'. _sync_daily_pause reads the operational state (lines 178 and 185) and writes it with set_shadow_paused in a later transaction (181 and 191): pause-shadow issued from its own process between the two is replaced by PAPER_DAILY_DRAWDOWN_HALT, or cleared as 'verified next UTC day'. Both writes are unconditional; BEGIN IMMEDIATE protects the row, not the decision.
2. **A fresh stop request is cleared as stale** (run `stale_stop`, property `FreshStopKept`, `PKG/paper_trading/forward_shadow_bot.py:342`). docs/decisions/2026-10-10-declared-mt5-server-time.md:109-112 says 'every read-modify-write of that row runs inside BEGIN IMMEDIATE: no update is lost', and paper_state.py:123-124 that 'The run polls this request before each cycle [...]; resume-shadow clears an unconsumed request.' _clear_stale_stop_request reads the request at 340, judges its date, and at 342 writes '' over whatever is there in a second transaction: a stop-shadow that lands between the two is dropped and the run goes on.
3. **A restart declares a lost audit complete** (run `healed_audit`, property `CompleteMeansCertain`, `PKG/paper_trading/lifecycle.py:390`). docs/decisions/2026-10-05-shared-paper-cycle-lifecycle.md:50-52 says a halt 'solo confirma True después de persistir su auditoría si no había ya una incertidumbre anterior. Auditar el rechazo del reinicio no sanea el fallo previo.' halt_paper_cycle looks for an unfinished cycle only when the code is PAPER_LIFECYCLE_HALTED (390): a run killed between its intent and its audit, whose restart halts for any other code before its first cycle (RECOVERY_FAILED, a real account, an acquisition error), writes paper_audit_complete=True on the base that still holds paper_cycle_in_progress.
4. **A failed audit with a failed latch leaves no trace** (run `lost_latch`, property `LostAuditIsLatched`, `PKG/paper_trading/lifecycle.py:399`). docs/IMPLEMENTATION_STATUS_2026-10-05.md:26-28 says 'Auditoria incompleta deja bloqueo durable que se conserva al reiniciar, incluso si falla el propio evento de bloqueo.' The latch is one more access of the same store (399-401) under an except that only sets process-local flags (406-408): when the audit fails and the latch write fails too, before an intent was written, the process ends and the base holds neither latch nor intent, so the next start finds it clean.
5. **A trade closed by hand comes back open** (run `reopened`, property `ClosedStaysClosed`, `PKG/paper_trading/lifecycle.py:234`). decision_state.py:188-189 asserts of the book that a closed trade stays closed: 'closed paper history changed or reopened' is a failure. process_paper_cycle loads the open trades once (234) and update_with_snapshot rewrites the whole row from that copy (paper_position_manager.py:385 and after), while close_all_paper_trades (paper_state.py:78-93) rewrites its own copies: a paper-close-all between load and rewrite is undone, the closed trade is open again with its manual close lost. The decoration after an open is a second path: with a BALANCED_STABLE* profile `_decorate_stable_trade` writes the whole row of the new trade again (forward_shadow_bot.py:718) from the copy `open_trade` returned, over a close-all that came in between.
6. **Break-even at exactly 0.6R depends on representation** (run `position_trigger`, property `BreakEvenAtTrigger`, `PKG/paper_trading/paper_position_manager.py:464`). docs/PAPER_TRADING_LIFECYCLE.md:55 says 'Break-even is triggered at `0.6R`.' _managed_stop compares mfe >= break_even_trigger_r * risk_distance in binary floating point, with mfe from a decimal subtraction and risk_distance from abs(entry - sl) on floats (paper_position_manager.py:162): with entry 1.10000, sl 1.09900 and a bid of 1.10060 the right-hand side is 0.0006000000000000672 and an excursion of exactly 0.6R does not move the stop, while the same geometry at entry 1.10002 does. The model leaves the outcome of an equality to the trade (t.ties); TLC finds the open position whose stop is still below its entry.

7. **A rerun opens the same trade twice** (run `opened_once`, property `OpenedOnce`, `PKG/execution/value_demo_executor.py:223`). value_demo_executor.py:34-35 says 'The state file maps paper trade ids to tickets, so a rerun never opens the same trade twice.' The fill enters the state in memory (330) and the file only at the end of the run (223), and neither the journal nor the account's positions are consulted for it. A run that dies in between, or an `order_send` that answers None after the broker executed (180), leaves a position no record knows; the next run opens the trade again if the limits have room. What does hold is `SecondFillNeedsALostOne`: without such a loss no trade is filled twice.

Five promises hold only with an exception that the properties name:

- **Late runs choose nothing, but for a breach after the last look.** docs/research/daily-fx-value-forward-v1.md:134 says 'a late run chooses nothing'. If the looks pass undecided and a run seals both the last look and a later breach, `rule_status` answers ABANDONED_DRAWDOWN (forward.py:500) where a run in time would have closed the record with ENDED_WITHOUT_CONFIRMATION (502). `VerdictIndependentOfSchedule` allows exactly this case (`BreachAfterLastLook`).
- **Only one routine runs at a time, but for two takeovers at once.** forward_routine.py:29-30 says 'Only one routine runs at a time [...], so two runs can never append to the ledger together.' `_acquire` reads the age of the lock (189) and unlinks by name (191): two starts that both judged the dead routine's lock can each remove a file, the second one the fresh lock of the first. `LockGuardsLedger` holds until then (`raced`).
- **A message is sent once, but for doubt.** telegram_outbox_worker.py:29 promises to retry 'without duplicating delivered rows', telegram_notifier.py to 'never repeat' a key. `RepeatedOnlyInDoubt` names the doubts: a lost answer, a sender that dies before its record, two senders, a notification that comes again. In the bulletin `send_text` adds two routines past the lock (`CopiesCostFailures`, `raced`).
- **A refusal heals nothing, but for a failure taken for something else.** 2026-10-05-shared-paper-cycle-lifecycle.md:50-52 makes a halt declare its audit complete only without an earlier uncertainty. `halt_paper_cycle` sees one only in the errors of lifecycle.py:387: a failed access that `decision_state.py` (226, 275) has made a `PaperStateError`, or the health check RECOVERY_FAILED (`db_health.py:55`), is followed by `paper_audit_complete=True`. `RefusalDoesNotHeal` speaks of the errors that reach the halt as such.
- **The demo book stays within its limit, but for what the broker does not show.** `_open` counts what `positions_get` shows (value_demo_executor.py:294). `OwnPositionsBounded` adds the openings that were accepted and not shown when a limit was checked (`unseen`), and excepts an account read as empty (`blind`).

## 6. Not modelled, and the plan

**Modelled in part:**

- *telemetry store*. The operational state row, the trade rows and the audit are the durable variables of PaperLifecycle, one action per access; the outbox rows are TelegramOutbox's, the update offset TelegramCommands's. Not modelled: the JSONL-then-SQLite audit pair and its hash, migrations, export.
- *decision ledger*. Its daily latch, its rejections and their place in the cycle are in PaperLifecycle. The daily reference, the known-trades index and the valuation are planned as PaperLedger.
- *paper positions and fills*. PaperPosition models the prices of one position: fills, the managed stop, the judgement of a quote, the close, the volume that fits the budget, and the ledger's mark. PaperLifecycle models the order of loads, writes and closes over the whole book. The replay of an entry intent (_existing_intent) and the legacy PnL scaling are not modelled.
- *telegram channel*. TelegramOutbox, TelegramCommands and, for `send_text`, ForwardRoutine. The message filters and formats, the files a command sends and the Retry-After of the Bot API are not modelled.
- *value demo executor*. DemoExecution. The arithmetic of sizes, levels and spreads is a verdict; the release gate is one more reason for an order not to leave.
- *daily fx forward routine*. ForwardRecord and ForwardRoutine. The arithmetic of the book and of the t statistic (floating point over decades of bars), the wording of messages, and the messages of a run that no later run rebuilds (its alerts, the executor's deeds: deferred behind a failing message they are lost, forward_routine.py:350) are not modelled.
- *predeclared research runner*. Its hash-chained ledger is ForwardRoutine's chain. The claim of the development window and the resumable progress are planned as PredeclaredRunner.
- *decision pipeline*. Accepting or rejecting and the audits around it are in PaperLifecycle; the order of the stages is planned.
- *risk and portfolio limits*. The kill switch of the day is in PaperLifecycle; sizing, budgets and exposure limits are pure algorithms planned for RiskLimits.
- *MT5 connector and time normalizer*. What acquisition may answer is the nondeterminism of Acquire and CycleBegin; the connector is read-only I/O.

**Not modelled:**

- *paper state recovery and backup*. Offline repair run by hand on a stopped base; planned only as far as its guards interact with a live run.
- *stateful replay*. Drives the same process_paper_cycle over recorded events; planned as a second driver of PaperLifecycle.
- *backtesting and validation*. Numeric studies over historical data in floating point: data-bound computation, out of TLC's reach.
- *strategies and market structure*. Indicator arithmetic in floating point; the lifecycle takes its result as a nondeterministic signal.
- *machine-learning filter*. Model training and scoring; the pipeline takes its verdict as nondeterministic.
- *data pipeline*. Reads files or the base and writes a report; it keeps no state of its own between calls, so there is no behaviour to model.
- *run manifest and workspace*. Configuration, identity and validation of inputs; stateless.
- *operational state reports*. Reads files or the base and writes a report; it keeps no state of its own between calls, so there is no behaviour to model.
- *micro profile audits*. The micro_v2_* packages are one-shot audits and guarded repairs of a stopped base; reads files or the base and writes a report; it keeps no state of its own between calls, so there is no behaviour to model.
- *forward evidence and diagnostics*. Reads files or the base and writes a report; it keeps no state of its own between calls, so there is no behaviour to model.
- *command line*. Parses arguments and calls the components above.
- *native MQL5 observer*. An observe-only expert advisor; its risk gate is a candidate for a pure-algorithm module.
- *watchdog scripts*. Supervision of the run by exit code; planned as a component around PaperLifecycle's Start and Exit.

**Correctness properties per component still to model**, with the modules in the
order they will be written:

1. `PaperLedger` (`decision_state.py`): one midnight reference per day, captured
   from the balance before the day; the known-trades index rejects a changed or
   reopened history and nothing else; `halted` latches; equity is the sum over the book.
   Runs: three trades, two days, a capture that may be missed. Then `PaperLedger`
   replaces `Observe`'s verdict in a composition with `PaperLifecycle`.
2. `AuditPair` (JSONL then SQLite) and a `TelemetryStore` with its idempotent inserts,
   on which `PaperLifecycle`'s accesses are refined.
3. `PredeclaredRunner`: one claim of the development window, progress that a restart
   resumes without repeating a trial.
4. `DecisionPipeline` (order of the stages: no volume grows, no rejection is undone)
   and `RiskLimits` (pure operators against reference definitions).
5. A watchdog around `Start` and `Exit` of `PaperLifecycle`.

**Abstract specifications still to state:** a mirrored account that `DemoExecution`
implements while nothing is lost, a mailbox with at-least-once delivery for the two
Telegram modules, and `PaperPosition`'s steps as the refinement of `ManageTrade` and
`Fill` of `PaperLifecycle`.

**Theorems worth proving next:** those refinements; and, for the ledger once it is
modelled, that `halted` is a latch and that the reference of a day never changes once
written.
