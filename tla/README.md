# A verification of the paper desk

The repository trades strategies on paper: a poller reads bars and ticks from a
broker's terminal and posts them to an HTTP desk (`crates/fd-api`), the desk
steps one or more paper books per stream (`crates/fd-backtest`), outside
processes post intents and verdicts, and an executor mirrors a book into a real
account. The claim the whole system rests on is that a live book makes the
trades a backtest of the same bars would make, that it keeps its promises over
restarts, that an advisor can only reduce a risk, and that the account does once
what the book does once. Around it stand the services the claim needs (minute
bars, edits of the guards, sessions, logs, collectors of tapes) and what is
computed from a tape alone (rules, indicators, option levels, price levels, the
parameters a walk-forward chooses, the features a model is fitted on).
These modules state what each part promises, check it with TLC on small
instances and prove parts of it with TLAPS.

## 1. Inventory

| Component | State | Operations | Hard behaviour |
|---|---|---|---|
| Bar engine and guards (`fd-backtest/src/engine.rs`, `guards.rs`) | the simulation of a backtest; `GuardState` (trades closed within a day, last entry) | open, check exit, trail, close, refuse an entry; the loop with its traded window | boundaries of cooldown and day limits, memory pruned lazily, the end of the window |
| Paper book (`fd-backtest/src/paper.rs`) | equity, position, pending intent, resting order, lived range, guard memory, last bar | step (fill, advance, decide), `fill_open`, `fill_order`, order bookkeeping, stop | one bar filled by two different calls; late bars; ticks within the bar |
| Paper run (`fd-api/src/paper.rs`) | book, shadow book, advice, pause; `state.json`, `trades.jsonl` | bar, open, tick, intent, advice, act, pause, start, stop, reload | a kill between two writes, a failed write, a verdict or quote used after it went stale |
| Locks of the desk (`fd-api/src/state.rs`, `paper.rs`) | runs map, forming bars, minute bars, guard edits, each under its own lock | every route | lock order |
| Guard edits (`paper.rs` `guards_set`) | values in memory, `guards.toml`, the record of every guarded book | post, reload | three steps that interleave, fail or are cut off |
| Run logs (`paper.rs`) | append-only files, rolled aside when long | append, read the end backwards | readers beside a writer that is killed |
| Bar poller (`py/live/mt5_bars.py`) | newest stamp sent, stamp opened, two clocks | send closed bars, send an open, send a tick, start-up backfill | lost posts, lost answers, the two clocks racing |
| Minute bars (`fd-api/src/m1.rs`) | one series per market, a ring of minutes | stamp, fold, serve | several pollers for one market, a clock set back |
| Sessions (`fd-api/src/auth.rs`) | verifier in `local.toml`; sessions, failures, lockout in memory | sign in, out, set the password, restart | a password is checked outside the lock |
| Executor (`py/live/mt5_executor.py`) | tickets of an account, the directory it records in | read book, read account, reconcile, open, copy orders, flatten for the weekend | lost answers, outages, restarts, stops hit at the broker |
| Deciders, advisor (`py/live/ai_trader.py`, `advisor.py`) | their own logs | post intents, verdicts | late and repeated posts |
| Strategies and filters (`fd-strategy`), indicators (`fd-indicators`) | none: everything is found again from the tape | series, rule, filters | a value that looks ahead of its bar; the first signal of a day |
| Options engine (`fd-engine`, `fd-backtest/src/timeline.rs`) | flows, big prints, clusters, whale levels that stand between two answers | feed a frame, ask | prints on the boundary of two frames |
| Price levels (`price_levels.rs`, `fd-api/src/levels.rs`, `htf.rs`) | none: computed anew from a file that grows | levels, structure, facts of the higher timeframes | what one answer confirmed the next may deny |
| Store and ingest (`fd-store`, `fd-ingest`) | a tape in parts, one file per day and append; buffers; the set of prints seen | listen, flush, back-fill, poll, merge | reconnects, repeats, kills, pages |
| Clock (`fd-core/src/clock.rs`) | none | civil days, daylight time, sessions, nights counted | the two changes of daylight time |
| Walk-forward (`fd-backtest/src/sweep.rs`), features and folds (`fd-features`, `fd-model`) | none: found again from a tape | choose on one window and measure on the next; build the table of rows; train and test in order of time | a choice, a feature or a fold that looks ahead; windows that meet |
| Live hub, HTTP views, statistics over finished backtests, user interface | none that trading depends on | views | none |

A closed bar travels poller → `POST /api/paper/bar` → every run of the stream
under the `paper` mutex → `PaperRun::accept` → `PaperBook::step` on the book and
on its shadow → `state.json`, `fills.jsonl`, `trades.jsonl`. A tick is stored
under `live_bars` first, folded into the minute under `m1`, and settles resting
orders under `paper` afterwards. An intent or verdict changes a run under
`paper`, is written, and is then answered. The executor asks for the book over
HTTP, then asks the terminal what it holds, and sends orders until they agree.
Collectors write tapes; the options engine, the rules and the levels read them.

What makes each part correct, and the lines where it could fail, are the
`hazards` of `PROJECT.json`.

## 2. Modules

| Module | Models |
|---|---|
| `Engine` | operators only: fills, stops, targets, trailing, costs, guards, sizing, as functions of positions and bars |
| `BookOps` | the operations of `PaperBook` as functions from a book to a book |
| `PaperBook` | one book under the handlers of the desk; an advisor is any cut of the lots |
| `Backtest` | the loop of `run_backtest_guarded`: the abstract specification of live trading |
| `BarFeed` | the poller and the book it feeds; implements `Backtest` |
| `PaperRun` | a run: book, shadow, advice, pause, files, kills, failed writes; its book implements `PaperBook` |
| `DeskLocks` | the order in which the handlers take the four locks |
| `GuardEdits` | a post of guards split at its locks and writes |
| `EventLog` | a log byte by byte: append, roll aside, read backwards |
| `MinuteBars` | quotes of several pollers stamped, folded and served |
| `Sessions` | sign-ins, the lockout, sessions, and the line edit of `local.toml` |
| `Executor` | the executor's loop call by call, the broker and the week going on between any two |
| `AccountDirectory` | whose trades a live directory records, start after start |
| `Arrangement` | operators only: sets put in order, and parts of sequences |
| `Tape` | the store: parts of days, sorted and split when appended, de-duplicated when read |
| `Collector` | the Deribit listener with its buffer and timer, and the backfill, a page at a time |
| `GoldPoll` | the poll of the gold feed, and the file of minute closes |
| `Clock`, `NightCharges` | the New York clock; hours passing over a position and the nights counted afterwards |
| `Indicators`, `Strategies`, `DayStrategies`, `IctSetup`, `Filters` | operators only: every indicator, rule and filter |
| `Signals` | the registry asked as the engine asks, on a tape that grows |
| `OptionsFlow`, `OptionsEngine` | what prints say; the engine fed and asked in turn, and its timeline |
| `WalkForward` | the walk-forward over parameter sets, and the metrics of a record of trades |
| `FeatureRows` | the table of feature rows and labels over a tape of prints and candles, and the chronological test of a model |
| `PriceLevels`, `HtfFacts`, `DeskLevels` | marks and facts of price bars; both routes asked again as their file grows |
| `BookOps_proofs`, `PaperBook_proofs`, `BarFeed_proofs`, `Backtest_proofs` | theorems about the book, its operations, the poller and the backtest |
| `Signals_proofs` | theorems about the clock, its nights, and the rules that take a signal once a day |
| `PaperRun_proofs` | theorems about a run: what was promised survives; what is recorded; how it differs from its shadow |
| `Services_proofs` | theorems about the directory, guard edits, sign-ins and passwords, minute bars, the executor and the locks |
| `Storage_proofs` | theorems about the option store, its two collectors, the gold poll and the logs of a run |
| `MCPaperBook`, `MCBarFeed`, `MCPaperRun`, `MCDeskLocks`, `MCServices`, `MCResearch` | small instances |

`BookOps` EXTENDS `Engine`; `PaperBook`, `BarFeed` and `PaperRun` EXTEND
`BookOps`. `PaperRun` holds an INSTANCE of `PaperBook` over `run.book`, whose
helpers it uses for its own handlers and whose `Spec` it is shown to implement
(`RefinesPaperBook`: a restart of the process is a stutter). `BarFeed` holds an
INSTANCE of `Backtest` over the book as the last accepted bar left it.
`WalkForward` holds an INSTANCE of `Backtest` for each window, and `FeatureRows`
EXTENDS `OptionsEngine`, which its replay feeds and asks. `Collector`
writes what `Tape` defines; `Tape` and `EventLog` EXTEND `Arrangement`. `Signals`, `DeskLevels` and `OptionsEngine`
are the small state machines over the operators below them.

`MCServices` and `MCResearch` hold several machines that share no state.
Both EXTEND those that theorems are about, whose operators are named for
it (`MirrorInit`, `NightsNext`, `SignalsInit`), and hold INSTANCEs of the others; `Copies` is a
second `Executor`, with `--mirror-pending`, over the same variables. A behaviour
belongs to one `part`, chosen at the start, and the variables of the others stay
as they began: the parts are checked side by side, not
interleaved, since no code lets one of them see another.

How state and actions correspond to the code:

- Prices, lots and money are integers; a risk of R dollars is an integer division.
  Commission and swap are left out, spread is `HalfSpread`. Times are bar stamps.
  The calendar guards are the sets `WeekendBars` and `NewsBars`.
- A strategy may answer anything its type allows on each bar (`Decisions`), which
  is weaker than every strategy of the repository, so the properties of a book
  hold whatever rule drives it. The rules themselves are in `Strategies`,
  `DayStrategies` and `IctSetup`. The sizing ATR is a Boolean: known or not.
- Every handler of the desk runs under the `paper` mutex, so `PaperBook` makes it
  one action, but for a tick: its stamp is posted before its quote settles the
  orders (`TickArrives`, then `Tick`), and bars may come between. `PaperRun` splits what the mutex does not make atomic: the change in
  memory is one action, and each write after it another (`writes` is what the
  handler has still to do), since a write may fail and the process may be killed
  between two. A tick, and an act, copy their quote under another mutex first
  (`copies`), and use it in a later action. A quote has both sides or none, and
  whether act finds it too old by the clock is a free choice (`aged`).
- `Saved` and `Reloaded` are what serialisation keeps: everything but the trades,
  which come back from the lines of `trades.jsonl`.
- In `GuardEdits`, `MinuteBars` and `Sessions` a handler is one action per lock it
  holds and per write it makes; `calls`, `posted` and `checking` are what it
  carries from one to the next.
- In `Executor`, `mirror.at` is the next call of the poll, and `mirror.seen`,
  `held`, `waiting` are what it read earlier in the same poll. An order may be
  carried out or not, whatever is answered.
- In `EventLog` a byte names its line and its place in it, so that a window that
  begins inside a line, or a line that was torn, is told from a whole one.
- The rules, levels and option figures are functions of a tape. Numbers are
  integers in units fine enough for the instances; a parameter in tenths or
  hundredths says so where it is read.
- Operators named `Bug...` are not part of a specification: each is a plausible
  mistake in the definition that follows it, with which a run must fail.

## 3. Runs

Each run checks exactly the properties listed in `PROJECT.json`.

| Run | Shows | Bounds |
|---|---|---|
| `book` | the guards bound the whole history of a run; a cut or a trail only reduces a risk; orders, intents, ticks, opens and bars in any order leave no trace of what ended | 5 bars out of order around a weekend bar, flat, gapping or dropping; both sides; a limit and a stop order; day of 3 bars, cooldown of 2; trail, timeout and open-loss limit on |
| `feed_prompt` | the live book implements the backtest with fills on the open, and no exit precedes its entry | tapes of up to 4 bars, lost posts, lost answers, poller restarts |
| `feed_closed` | without opens and without assumptions on the feed the poller catches up, again and again | tapes of up to 4 bars |
| `run_rule` | equity is the record, the shadow differs by advice alone, verdicts reach the entry they were given for; the run's book is a `PaperBook` | 4 bars in 2 shapes, opens, verdicts of none, half and full, restarts between handlers; no ticks (`MayTick`): such a run has no order for one to settle |
| `run_posted` | promises to callers under kills and failed writes; nothing is recorded twice; a stopped run stays stopped | 3 bars in 2 shapes, one intent, one order, no ticks, an id started again |
| `run_restart` | a restart between handlers changes nothing; no entry is made in a bar that was already closed | 3 bars out of order, intents, orders, ticks, opens, acts |
| `services` | no handlers wait for each other for ever, act excepted; every wrong answer costs its wait and a password written is the one loaded; guards survive a restart; a minute that was served stays and holds the quotes of its minute; a reader of a log gets its end; what was flushed, fetched or polled is kept and readable; the account trades each position once, is flat over the weekend and follows the book; a directory records one account | 3 workers and 2 runs; 2 browsers and 4 ticks of time; one client and 3 failures or kills; 2 pollers and 3 quotes; 4 lines rolled at 3; 5 prints in pages of 2, fetched for days that begin in the middle of the store's; 2 contracts; 2 decisions, 2 tickets, 5 moments of a weekend and one outage, restart or STOP; 3 accounts |
| `research` | a backtest holds nothing outside its window; no indicator, rule or filter says something else of a bar once later bars are known; one entry a day; the nights counted are those of the hours between, a weekend's closes besides the Wednesday that carries it (section 4); each print counts once and whale levels stand; levels once confirmed stay; a parameter set is chosen before the window it is measured on, and no two windows share a trade; a row of features is of its moment and stands, and no model is tested on what it saw | 5 bars and a window from 2 to 5; 31 rules on tapes that grow by 3 bars; walks over both changes of daylight time; 9 bars, 2 parameter sets and 2 folds; 6 candles, 2 prints, 2 horizons and a fold; the other bounds are named in `MCResearch` |
| `feed_exit` (violation) | a late closed bar manages a position entered after it | as `feed_prompt`, without the assumptions |
| `run_openexit` (violation) | the trade of an exit filled at an open is lost at the next restart | 3 bars |
| `locks_act` (violation) | act and a status request block each other for ever | 3 workers |
| `copies_expiry` (violation) | the terminal's copy of an order expires a bar before the order does | 2 bars, one order |

Three or four bars are enough for the run properties: one bar to decide, one to
fill, one to close, one more for whatever is late. Six kinds of trouble (a kill,
a failed write, a late bar, a lost answer, a verdict, a pause) can each hit every
step of that life. Where a counter could grow it is bounded by the bars: `Times`
bounds every history. The guards need five: two entries, the day and the
cooldown that separate them. In `services` each bound leaves room for the one
case its property is about: two sign-ins under way when the third is refused, a
post beside a restart, a quote stamped before and folded after the clock is set
back, a page that ends inside a day, a poll that begins before the Friday
backstop and ends after it. `PaperBook!TypeOK` is proved rather than checked by
a run.

Assumptions of the runs, each a named constant or definition:

- `ClosedFirst`, `ShortOutages` (`feed_prompt`): no open is posted while a closed
  bar is undelivered, and a closed bar is delivered before the next one closes.
  The code does not guarantee either: `feed_exit` shows what happens without.
- `WholeFeed` (`run_rule`, `run_posted`): a bar that was posted open is posted
  closed, at the price it was opened with (`OpenOf`), before a newer one. Without
  it a filled bar may never be stepped and the shadow misses its entry, or makes
  it at another price.
- `MayExit = FALSE` where exits at an open would lose a trade (`run_restart`,
  `run_rule`), and `MayRestartId = FALSE` where a stopped id's old trades would
  come back (`run_restart`); both are hazards in `PROJECT.json`.
- `Clients <- Alone` (guards): two clients that post at once leave memory and
  `guards.toml` on different edits.
- `Together = FALSE` (collectors): two processes that append to one day overwrite
  each other's parts, so listener and backfill do not write at the same time.
  Kills happen inside a write too; a part left unclosed makes later reads of its
  day fail, and `FlushedIsReadable` is about stores without one.
- Prints of one millisecond (collectors): a page that ends between them loses the
  rest, so `FetchedWhole` is about times that differ, and about a day whose pages
  did not run out.
- `StampFails = FALSE` (directory): a start whose stamp cannot be written goes on
  trading unstamped.
- `Mirrors` without resting copies (the mirror): with `--mirror-pending` a copy
  that fills between two reads may be doubled.
- A terminal that stopped answering stays silent until the poll ends
  (`Executor!TerminalBack`); were it back within the poll, what was read as an
  empty account could be traded again.

Fairness is stated only in `BarFeed!FairSpec`: the loop never ends
(`while True`), its slow clock falls due again and again, a post tried for ever is
answered in the end, and restarts stop. The desk's handlers are request-driven
and have no fairness; neither have the services, whose properties are of safety.

`RefinesBacktest` compares the book at the accepted bars; a bar the feed skipped
is a gap in both.

## 4. Findings

- **Lock order** (`locks_act`). `act` holds the guard of `live_bars` while
  `stream_key_of` locks `paper`; `status`, `start` and `detail` take them the
  other way. The comment above it says the quote is never read under the lock.
- **Exit at an open** (`run_openexit`). `feed_open` books the trade of an exit and
  persists the equity, but never appends the trade to `trades.jsonl`.
- **Two clocks** (`feed_exit`). With `--fill-on-open` the open of a bar can be
  posted before the closed bar preceding it; that bar then manages the position.
- **Expiry one bar early** (`copies_expiry`). `place_pending` hands the stamp of
  the bar that expires an order, which is that bar's open, to the terminal as the
  moment of expiry. The book may still fill the order during the bar; the copy is
  gone. The file's docstring says it expires "when the book's order does".

Met while modelling. None of these breaks a property as the runs check it; most
are the reason a property is stated as it is.

- Runs. A kill between `state.json` and `trades.jsonl` loses a trade. A paused
  run still fills the entry it accepted before. A verdict on a resting order is
  consumed by the next closed bar; a verdict on an intent is heard by its
  replacement at the same bar. A posted intent never reaches the shadow. A run
  with stored bars skips the calendar on a fill before its first closed bar. The
  validity of an order is counted in bars, so it outlives a gap. A position filled
  at an open and stopped before the close ends at the earlier close. A panic under
  the `paper` mutex poisons it for every later handler.
- Guard edits. Posts that interleave, and a failed write that is retried and
  answered as unchanged, leave memory and `guards.toml` different.
- Logs. A line torn by a kill has no newline: the next line is glued to it and
  does not parse either.
- Executor. `positions()` answers None when the terminal does not answer and is
  read as an empty account. A STOP file closes positions and does not
  withdraw resting copies. A failure to write the stamp of a directory is not
  heeded.
- Collectors. A print is marked as seen before the append that may fail. A part
  cut off by a kill breaks every read of its day. Parts are numbered by counting
  them, so two processes overwrite each other. Prints that share the millisecond
  of a page's last print are lost. `resync_start` in `gap.rs` does not see a single missing
  minute, and only its tests call it.
- Nights. The comment at `fd-core/src/clock.rs:85` says nights are "weighted the
  way brokers charge them": one per 17:00 crossed "and three for the Wednesday one,
  which carries the weekend". `swap_nights` counts the Wednesday threefold and the
  closes of Saturday and Sunday as well: nine for a full week instead of seven, and
  three from Friday to Monday (Friday's, Saturday's and Sunday's) where such a
  broker charges one. The tests of `clock.rs` hold no position over a weekend.
  `close_position` (`fd-backtest/src/engine.rs:902`) multiplies the count by the swap of
  the market, which `config/default.toml` leaves at 0 everywhere, so an amount
  changes only where a market sets one. The model keeps the two apart:
  `charged` is what a broker whose Wednesday carries the weekend charges, `weekends`
  the closes of Saturdays and Sundays, and `NightsAreCounted` says that the count is
  their sum. It is a property of the count from two ends over the changes of
  daylight time, not of its agreement with a broker.
- Levels. A liquidity pool that was swept is a pool again once a new equal high
  joins it. Events and labels of the same bars change when the window slides. The
  comment at `htf.rs:95` says "Trading BELOW this price ends the structure"; the
  label changes only when a later swing or pivot is confirmed.
- Day limits. An entry that is judged for a bar later than the newest one prunes
  the guards' memory by that bar's time; a delayed tick or act then fills an
  earlier bar without what was forgotten. The limits are kept for entries at the
  newest stamp, which is what `DayLimitsHold` says, and where exits are remembered
  in order of time: closed at 6 for nothing, at 5 for a gain and at 7 for a loss,
  a look back of two days from 8 still counts the gain, which is too old, and
  the loss is hidden behind it.
- Research. Selection by profit factor puts a parameter set that never lost,
  whose factor is infinite, below every other. The guards begin each fold with an
  empty memory, so the pooled trades may break the day limits that every fold
  kept. The last window stops before the last bar of the tape. The folds of a
  model are split by row, and the labels of the last rows it is trained on reach
  past the first row it is tested on.
- Rules. `gap-fade` and `volman-box` set their stop and target from the close of
  the signal bar and are filled at the next open, which may lie beyond them.

## 5. Proofs

`tlapm` checks, for every value of the constants under the ASSUMEs of the modules
and the hypotheses each theorem names:

The book (`PaperBook_proofs`, `BookOps_proofs`).

- The inductive invariant `Ind` says the book is `Sound`: it is a book of its
  type, an order and a lived range belong to what they should (`Owned`), entries
  are spaced by the cooldown (`Spaced`) and no position sits on a weekend
  (`OffWeekend`). None of the checked invariants is inductive alone: the cooldown
  of *all* entries follows only from the remembered stamp being the newest one.
  One lemma per operation of `BookOps` shows that it keeps a book sound; one step
  per action of `PaperBook` cites them. From `Ind` follow `TypeCorrect`,
  `OrdersStandAlone`, `RangesAreOfPositions`, `WeekendsAreFlat`, `CooldownsHold`,
  `AdviceShrinksEntries` and the action properties `StopsOnlyTighten` and
  `LateBarsEndNothing`: a tick-filled position is an `external` run's, for which
  no exit can be pending, so only a closed bar ends it, and a bar older than the
  fill is not managed. `WeekendsAreFlat` assumes `Warmup = None`: a run that is
  posted to before its book has a bar skips the calendar.
- `DayLimits`: at most `MaxTradesPerDay` trades and `DailyLossLimit` of loss in
  the day before an entry. The guards see the trades they remember, the property
  counts all of them; `Minded` relates the two: what was pruned left before the
  day of every later entry, what is remembered is the tail of the trades. The
  sums over filtered sequences are recursive functions of the length, and what is
  said of them for every length is shown by taking the least length at which it
  fails (`FirstOf`). Hypothesis `MayExit => External \/ InOrder`: with exits at
  opens and late bars the memory is no longer in order of time (section 4).
- `OpenThenClose`: a bar filled at its open and advanced over at its close ends
  in the book a single step ends in.

The backtest and the poller (`Backtest_proofs`, `BarFeed_proofs`), the clock and
the rules that read it (`Signals_proofs`).

- `NoGhostTrades`: a backtest enters and holds nothing outside its window
  (`NoGhost`: every trade entered inside it, and what is held is held only while
  the tape runs and the window is open).
- `LiveBarIsBacktestBar`: a closed bar steps the book as one iteration of the
  backtest steps its simulation. `LiveImplementsBacktest`: hence
  `Spec => RefinesBacktest`, through an invariant that relates the book, the book
  at the last closed bar and the tape (`SettledOrEarly`: the two are equal, or the
  book is the settled one filled at the forming bar's open). `NoTradeRunsBackwards`
  adds that what a settled book holds was entered by its last bar (`Timely`).
  `FeedTypeCorrect` is the type invariant. All assume `Prompt`: with `FillOnOpen`,
  `ClosedFirst` and `ShortOutages`; `feed_exit` shows what happens without.
- `NightsAlwaysCounted`: whenever a position is opened and however long it is held,
  the nights counted from its two ends are those charged hour by hour with the
  Wednesday threefold, and one more for each close of a Saturday or Sunday, for
  every date and both changes of daylight time. The invariant `NightsInv` says so of the
  session of the entry and that of now, which never runs backwards. It rests on the
  calendar and the clock as `clock.rs` computes them: a day of an era lies in one
  year (`EraYears`, `MarchYears`), so daylight time of a moment is decided by the
  two Sundays of its own year (`Daylight`); from one hour to the next the offset
  stays or turns at its Sunday's 02:00 (`ClockTurns`), so a session begins in the
  hour that shows 17:00, none is skipped and none begins twice (`SessionsTurn`); and
  each adds its own day to those counted (`CountGrows`). Hypothesis: a walk begins
  after the first hour of 1970, 0 being "not entered". Positions are opened on whole
  hours, as the model walks.
- `EntersOnceADay`: `SignalsSpec => []OneEntryADay`, over the growing tape, for every tape in
  order, every bar that may follow and every parameter but the hours. `SignalsInv`
  says that the tape stays in order, that its calendar is read off it and that what
  is said is the rule's answer on each bar of this very tape, so two entries are two
  answers on one tape (`Twice`). From one minute to any later one days and sessions
  do not go back, and the wall goes back only over 06:00 UTC of a Sunday, from 02:00
  to 01:00 (`FallsBack`, `ClockGoesOn`). So the bars of a day are one stretch
  (`BetweenADay`), and each rule finds its first signal by reading them again: the
  opening range is the same set for every later bar and holds the first break
  (`OrbOnce`), the bar before is inside the window or past the minute already
  (`BarBefore`, `WindowOnce`, `TsmomOnce`), yesterday is the same set, hence its
  levels (`YesterdayStays`, `PdhlOnce`), and a session has one first bar
  (`QuietSwingOnce`). Hypothesis `OfOneDay`, which TLC evaluates for the runs: the
  hours of a rule are of one day and begin at 02:00 or later, as the registry's
  defaults do. It is needed: in November the wall shows the hour before 02:00 twice,
  and a window inside it, or one that wraps over midnight, is entered twice on one
  day.

A run (`PaperRun_proofs`). A handler
changes memory first and then writes, and may be killed at any point of it; every
invariant below says what `writes` still owes.

- `PromiseAlwaysSurvives`, `StoppedAlwaysStays`, for every run and every fault. The
  invariant `Faithful` says what was answered (`Answered`: a promise is the entry
  that waits, in memory and on disk; a stopped run has no file), and what the
  handler under way may still answer (`Handing`: the caller of a stop is answered
  after the removal, the caller of an intent after the state was written).
- `RecordedOnceAlways`, for every fault. `Recording` says that the exits of the
  record increase, and that a line owed is later than all of them and of the last
  bar of the book. Hypothesis `RestartsInOrder`: an id that is started again on
  top of an old record has bars in order and none stored; otherwise the new run's
  exits may equal the old one's.
- `EquityAlwaysTheRecord`, `EntriesInUnclosedBars`, `RunRefinesBook` and
  `RestartsChangeNothing`. `Ordered` adds to `Recording` that `state.json` is the
  run's own or owed (`Backed`), `Exact` that record and owed lines together are
  the book's trades and its equity is their sum, `Sound` the same of the whole run
  and its shadow (`Whole`). Each action of the run is one action of `PaperBook`
  on its book, or none. Hypotheses: `Orderly`, no fault and no reused id (a kill
  between `state.json` and `trades.jsonl` really loses a trade, and an id that is
  reused really inherits trades); `NoExitAtOpens`, no strategy exit is filled at
  an open (the trade of such an exit is really lost: `run_openexit`); and for
  `RestartsChangeNothing` `OpensOnlyAfterBars`, an `external` run that fills at
  opens starts without stored bars, since the open of a run that was never
  stepped changes advice and shadow and is not written.
- `VerdictsAreFollowed` and `ShadowsDifferByAdvice`. `Attended` adds that nothing
  rests, that what waits was decided at the last bar, and that the cut to be heard
  is the one the advisor was told (`Heeded`). `Paired` says that, until a cut is
  heard, shadow and run are twins, or the run has filled at the open of the
  forming bar what the shadow will fill when that bar closes (`Ahead`).
  Hypothesis `RuleBased`: the entries are the strategy's. A posted intent is
  replaced by the next and its verdict goes to the replacement, and it never
  reaches the shadow (section 4). The shadow needs `WholeFeed` too where there are
  opens.

The services (`Services_proofs`) and what is stored (`Storage_proofs`).

- `EachPositionOnce`: no position of the book is traded twice. `Traded` says that
  the records are records, that nothing rests in a book or at a broker without
  `--mirror-pending` (`NothingRests`), that an account a poll found flat stays
  flat until that poll opens (`FoundFlat`), and that every trade of the account is
  a position the book has decided, so that the next one is new (`TradesAreKnown`).
- `EmptyOverWeekends`, `PollsFollowTheBook`. `Obeyed` follows what a poll read to
  the end of it: what may still be held is what the poll has still to close
  (`StaysEmpty`, `Following`), whatever the broker closes meanwhile. These three
  assume `NoneIsNothing`: the absent value is no record and no step.
- `OneAccountEach`: whatever is recorded, or may be by the executor that runs, is
  of the account the stamp names (`Stamped`). Hypotheses: stamps are written
  (`~StampFails`), an account has a server (`DistinctAccounts`), and a damaged
  stamp does not change it (`KeepsItsServer`).
- `EditsSurvive`: with one client, memory is ahead of the file only while its post
  is between the comparison and the write (`Ahead`).
- `ServedMinutesStay`: `Kept` says that minutes are in order with the forming one
  last, that the forming one is the minute of the newest quote (`InOrder`), and
  that whatever was served is older than it and as it was (`Stays`). That a quote
  stamped earlier is dropped follows from the stamp kept with the series, not from
  the clock, which may be set back at will. Hypothesis `WholePrices`: prices are
  integers.
- `MinutesAreQuoted`: the invariant `Recounted` says that every held minute is what
  its quotes make it (`Groups`: first, last, extreme and counted quotes, and the
  sum of their spreads) and where every quoted minute is (`Placed`: forming,
  complete, or pushed off a full ring as the oldest). A quote that is folded
  extends the grouping of the newest minute only (`GroupsMore`), the others stay
  (`GroupsStay`), because `Kept` already has the forming minute the newest. Same
  hypothesis.
- `EveryWrongAnswerWaits`: `Priced` says that at most one answer is checked, never
  while a wait runs (`OneAtATime`), and that the wait in force is the one the last
  wrong answer cost (`WaitIsOfLast`). Hypothesis `WholeWaits`: the numbers of the
  schedule are integers.
- `PasswordsAreWritten`: `Filed` says that the file is a sequence of lines it was
  found with or that were written since. A written text `Carries` the old one:
  every line is its old self, rewritten only where it assigns a name of the section,
  the names that were missing are added to `[auth]` once, and the section of a
  line is that of the last header before it, in both texts. Hypotheses:
  `NamesThere`, a name and a value are not the absent one; and what is found
  consists of headers, assignments and other lines. The property is about files that
  are TOML (`Parses`: no section twice, no name twice in it).
- `FlushedAlwaysReadable`: `FlushedKept` says that one process runs at a time
  (`OneAtATime`), that the number it counted is that of the next part until it has
  opened it and of the unclosed last part then (`Counted`), so that a write
  replaces nothing but what it opened itself; and that every print that was
  flushed lies in a part that can be read. `AllIsRead` then says of any store
  whose parts can all be read that `ReadAll` gives back every print in it, once
  and in order of time. It rests on what it is to arrange a finite set
  (`RanksAreOneEach`: in a strict line every member has a number of its own), by
  which `Ascending`, `ByTime`, `Batches` and `ReadRange` are shown to sort and to
  lose nothing. Hypothesis `~Together`, as in the runs.
- `DaysFetchedWhole`: `Paged` says that in the midst of a day what was fetched is
  every print of it up to the cursor, which is just after one of them. The venue
  prints on meanwhile, but never earlier than what it printed, so that nothing
  appears behind the cursor. A page cut by its count ends where the next one
  begins (`FullPage`), and one that is not is the rest of the day (`LastPage`). No
  hypothesis but the ones the property states.
- `PollsKeepAll`: `Gathered` says that what was seen is stored
  or is in hand (`SeenIsKept`), and that an older print the feed still has was seen,
  or its contract is still to be asked in a window that reaches it (`OlderIsSeen`,
  `OnTime`). Hypothesis `WindowsOverlap`: a later poll looks back further than
  polls are apart, as the code's hours and minutes do.
- `TailAlwaysTheEnd`: `ReaderKept` says that a window is what its file held, when it
  was opened, from `pos` to the end (`Ends`), and that an answer was given with the
  window at the start of the file or with enough in it; `LogTyped`, that files are
  bytes and a line under way has a file, so that they only grow (`Grows`). The
  rest is about any bytes: after a newline the lines are the last of the lines of
  the whole (`LinesEnd`: the ends of lines lie as far beyond it, and a line is
  between two newlines), their events are the last events (`EventsEnd`), and of
  enough of them the newest are the newest of all (`NewestEnds`). What is picked
  from the end of a sequence is the end of what is picked from it (`PickedEnds`),
  because counting what comes up to a place counts what comes up to the cut first
  (`AscendingBeyond`). Hypotheses are those of the constants: sizes are numbers and
  a window has at least one byte.
- `DeskNeverLocksUp`: `AllFit` says that a worker that holds one of the three leaf
  locks drops it next, and one that holds `paper` drops it before it asks for it
  again; so of any set of workers that wait for each other one can go on.
  Hypothesis `Handlers \subseteq InOrderHandlers`: `act` is not among them
  (`locks_act`).

Only model-checked: what the research run says of figures that are nested folds over
tapes (`EachPrintCountsOnce`, `AnswersStand`, `NothingAheadIsRead`); and liveness
(`CatchesUp`), which is out of the prover's reach.

## 6. Not modelled, and the plan

- The HTTP views, transfer objects and start-up, the user interface and the
  notifications read state and change none of it.
- The live hub (`live.rs`) shares one upstream connection among viewers of live
  prices. What it computes is `OptionsEngine`; nothing of trading depends on it.
- The deciders' own loops, prompts and logs: `PaperRun` and `PaperBook` let their
  posts arrive at any time and in any order, which is weaker than any loop.
- Scripts that start and stop processes, configuration, the one-shot exporters,
  and the statistics over finished backtests (controls, hypotheses, leaderboard).
- Commission, swap amounts and rounding: money is whole units, and what is
  measured in multiples of the risk is left out of the metrics. A fitted model is
  what it was shown: the descent that fits it is arithmetic.
- Wording, layout and formatting everywhere.

What a next step would add: a proof of `EachPrintCountsOnce` from the engine's invariant that a print is in one
frame; the executor with resting copies; and the decider loop with one decision
per bar over restarts.

## 7. Running

In this directory: `tlc -config X.cfg M` for a run, `tlapm M.tla` for the proofs
of a module.
