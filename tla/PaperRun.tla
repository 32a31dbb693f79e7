------------------------------ MODULE PaperRun ------------------------------
(***************************************************************************)
(* One run of the desk (fd-api/src/paper.rs PaperRun): its book, the       *)
(* shadow book no advisor speaks to, the verdict waiting for an entry, the *)
(* pause switch, and its two files: state.json, written whole after every  *)
(* change, and trades.jsonl, one line per closed trade.                    *)
(*                                                                         *)
(* A handler changes memory under the mutex of the runs map, then writes,  *)
(* then answers, and keeps the mutex throughout.  It is one action for the *)
(* change and one per write, because a write may fail and the process may  *)
(* be killed between two of them.                                          *)
(***************************************************************************)
EXTENDS BookOps

CONSTANTS
  External, InOrder, Times, Warmup, BarShapes, Quotes,   \* as in PaperBook
  EntryForms, OrderForms, MayExit,
  AtrBars,       \* bars at whose close the sizing ATR is known
  MayOpen,       \* the feed posts the opens of forming bars
  MayTick,       \* and ticks
  MayRestartId,  \* a stopped run may be started again under its id
  WholeFeed,     \* assumed: a bar that was posted open is posted closed before a newer,
  OpenOf,        \* and has this open in either post
  Faults         \* "kill": killed inside a handler; "write": a write fails

(* An accepted verdict, and a run. *)
Verdicts == [about: Level, cut: Cuts]
Runs == [book: Books, shadow: Books \cup {None}, advice: Verdicts \cup {None},
         paused: BOOLEAN, live: BOOLEAN]

ASSUME PaperRunAssumption ==
  /\ None \notin Books /\ None \notin Verdicts /\ None \notin Runs
  /\ {External, InOrder, MayExit, MayOpen, MayTick, MayRestartId, WholeFeed} \subseteq BOOLEAN
  /\ Times \subseteq Int /\ Warmup \in Level /\ AtrBars \subseteq Int
  /\ BarShapes \subseteq [open: Price, high: Price, low: Price, close: Price]
  /\ OpenOf \in [Times -> Price]
  /\ Quotes \subseteq [bid: Price, ask: Price]
  /\ EntryForms \subseteq [side: Side, stop: Level, target: Level]
  /\ OrderForms \subseteq [type: {"Limit", "Stop"}, price: Price, side: Side,
                           stop: Int, target: Level, validBars: Nat \ {0},
                           above: Level, below: Level]
  /\ Faults \subseteq {"kill", "write"}

VARIABLES
  run,       \* [book, shadow, advice, paused, live]; live: in the runs map
  disk,      \* [state, history]: state.json or None, the lines of trades.jsonl
  writes,    \* what the handler that holds the mutex has still to do
  quote,     \* the stream's entry in live_bars, or None
  copies,    \* copies of a quote held by handlers that have no mutex:
             \* settle, by tick and not yet shown to the orders; act, by act
  feed,      \* history: the newest stamp posted, as in PaperBook
  promised,  \* history: the waiting entry whose caller was told it was accepted
  verdict,   \* history: the cut an advisor was told is on the waiting entry
  stopped,   \* history: the caller was told the run is stopped
  heard      \* history: a cut has reached a fill of the book

told == <<promised, verdict>>
vars == <<run, disk, writes, quote, copies, feed, told, stopped, heard>>

Book == INSTANCE PaperBook WITH book <- run.book, running <- run.live

-----------------------------------------------------------------------------
NewRun == [book |-> NewBook, shadow |-> None, advice |-> None, paused |-> FALSE,
           live |-> TRUE]
NoCopies == [settle |-> None, act |-> None]

(* The entry a run waits to fill: a resting order, or a pending Enter. *)
Waiting(b) == IF b.order # None THEN [b.order EXCEPT !.waited = 0]
              ELSE IF b.pending # None /\ b.pending.kind = "Enter" THEN b.pending
              ELSE None

(* pending_id and order_id name an entry by the bar that decided it. *)
PendingId == Book!Newest
CurrentId == IF run.book.order # None THEN run.book.order.decided ELSE PendingId

(* The advice is taken by whoever fills, and heard only under its own id. *)
CutFor(id) == IF run.advice # None /\ run.advice.about = id THEN run.advice.cut
              ELSE NoAdvice

(* The sizing ATR of a fill before the next close. *)
Warm == Book!Newest \in AtrBars

(* The shadow is a clone of the book, taken before its first fill. *)
Counterfactual == IF run.shadow = None THEN run.book ELSE run.shadow

-----------------------------------------------------------------------------
(* persist, record, append_history, and the answer. *)
SaveState == [to |-> "state.json", lines |-> << >>]
Row == [to |-> "fills.jsonl", lines |-> << >>]
Lines(book, trades) ==
  IF trades = << >> THEN << >>
  ELSE <<[to |-> "trades.jsonl",
          lines |-> [i \in DOMAIN trades |-> [book |-> book, trade |-> trades[i]]]]>>
RemoveState == [to |-> "removal", lines |-> << >>]
Insert == [to |-> "runs", lines |-> << >>]
Answer(what) == [to |-> what, lines |-> << >>]

BugBarWrites(main, shadow) ==
  Lines("main", main) \o Lines("shadow", shadow) \o <<SaveState, Row>>
BarWrites(main, shadow) ==
  <<SaveState, Row>> \o Lines("main", main) \o Lines("shadow", shadow)
BugIntentWrites == <<Row, Answer("decider"), SaveState>>
IntentWrites == <<Row, SaveState, Answer("decider")>>
BugStopWrites == <<Row, Answer("stopper"), RemoveState>>
StopWrites == <<Row, RemoveState, Answer("stopper")>>

BugSaved(r) == [r EXCEPT !.live = TRUE, !.book.trades = << >>, !.advice = None]
BugSavedIdle(r) == [r EXCEPT !.live = TRUE, !.book.trades = << >>, !.book.pending = None,
                             !.shadow = IF @ = None THEN None
                                        ELSE [@ EXCEPT !.trades = << >>]]
(* What serialising a run keeps of it: everything but the trades. *)
Saved(r) == [r EXCEPT !.live = TRUE, !.book.trades = << >>,
                      !.shadow = IF @ = None THEN None ELSE [@ EXCEPT !.trades = << >>]]

BugTradesOf(book, history) == [i \in DOMAIN history |-> history[i].trade]
TradesOf(book, history) ==
  LET mine[i \in 0..Len(history)] ==
        IF i = 0 THEN << >>
        ELSE IF history[i].book = book THEN Append(mine[i - 1], history[i].trade)
        ELSE mine[i - 1]
  IN  mine[Len(history)]

(* reload and restore_history. *)
Reloaded ==
  IF disk.state = None THEN [run EXCEPT !.live = FALSE]
  ELSE [disk.state EXCEPT
          !.book.trades = TradesOf("main", disk.history),
          !.shadow = IF @ = None THEN None
                     ELSE [@ EXCEPT !.trades = TradesOf("shadow", disk.history)]]

-----------------------------------------------------------------------------
Init ==
  /\ run = NewRun
  /\ disk = [state |-> Saved(NewRun), history |-> << >>]
  /\ writes = << >>
  /\ quote = None /\ copies = NoCopies /\ feed = None
  /\ promised = None /\ verdict = NoAdvice /\ stopped = FALSE /\ heard = FALSE

Idle == run.live /\ writes = << >>

(* A change of the waiting entry ends what was told of the one before. *)
Tell(book) ==
  IF Waiting(book) = Waiting(run.book) THEN UNCHANGED told
  ELSE promised' = None /\ verdict' = NoAdvice

Hears(cut) == heard' = (heard \/ cut # NoAdvice)

Posted(t) ==
  /\ WholeFeed /\ feed # None => t = feed \/ (Book!HasBar /\ feed <= PendingId)
  /\ Book!Posted(t)
PostedAt(t, price) == Posted(t) /\ (WholeFeed => price = OpenOf[t])

(* OpenPosition: the position as a strategy sees it. *)
View(p) == IF p = None THEN None
           ELSE <<p.side, p.entryPrice, p.entryTime, p.stop, p.target>>

(* What on_bar may answer; Halted takes the entries away. *)
Answers(t) == IF run.paused
              THEN {d \in Book!Decisions(t) : d = None \/ d.kind = "Exit"}
              ELSE Book!Decisions(t)

(* feed_run: the book is stepped with the advice, the shadow without, and the
   strategy is asked of each in its own state. *)
Stepped(main, shadow, cut) ==
  LET book == OrderSawBarClose(main.book)
  IN  /\ run' = [run EXCEPT !.book = book, !.shadow = shadow.book, !.advice = None]
      /\ writes' = BarWrites(main.trades, shadow.trades)
      /\ Tell(book) /\ Hears(cut)

BarCloses(t, s, decision, alone) ==
  LET bar == Book!BarAt(t, s)
      cut == CutFor(PendingId)
  IN  /\ Idle /\ Book!Newer(t)
      /\ PostedAt(t, s.open)
      /\ Stepped(Step(run.book, bar, Warm, cut, decision),
                 Step(Counterfactual, bar, Warm, NoAdvice, alone), cut)
      /\ View(run'.book.position) = View(run'.shadow.position) => decision = alone
      /\ UNCHANGED <<disk, quote, copies, stopped>>

(* feed_open.  A book not yet advanced over any bar fills nothing, but its
   advice has been taken and its shadow seeded by then. *)
BarOpens(t, price) ==
  LET cut == CutFor(PendingId)
      filled == FillOpen(run.book, t, price, Warm, cut).book
  IN  /\ MayOpen /\ Idle
      /\ Book!HasBar /\ Book!Newer(t) /\ run.book.pending # None
      /\ PostedAt(t, price)
      /\ run' = [run EXCEPT !.book = filled, !.shadow = Counterfactual, !.advice = None]
      /\ writes' = IF run.book.lastBar = None THEN << >> ELSE <<SaveState>>
      /\ Tell(filled) /\ Hears(cut)
      /\ UNCHANGED <<disk, quote, copies, stopped>>

(* tick: the quote is stored under the mutex of live_bars, and that is released
   before the runs are locked to settle their orders. *)
TickStored(t, s, q) ==
  /\ MayTick /\ run.live /\ copies.settle = None
  /\ quote' = [time |-> t, last |-> s.close, sides |-> q]
  /\ copies' = [copies EXCEPT !.settle = quote']
  /\ Posted(t)
  /\ UNCHANGED <<run, disk, writes, told, stopped, heard>>

OrderFilled(b, tick) ==
  IF b.order = None \/ b.position # None \/ ~Book!Newer(tick.time) THEN FALSE
  ELSE ~InvalidatedBy(b.order, tick.sides) /\ Touched(b.order, tick.sides) # None

TickSettled ==
  LET tick == copies.settle
      seen == ObserveTick(run.book, tick.time, tick.last)
      filling == OrderFilled(seen, tick)
      cut == CutFor(CurrentId)
      after == Book!SettledByTick(seen, tick.time, tick.last, tick.sides, Warm, cut)
  IN  /\ Idle /\ tick # None
      /\ run' = IF filling
                THEN [run EXCEPT !.book = after, !.shadow = Counterfactual, !.advice = None]
                ELSE [run EXCEPT !.book = after]
      /\ writes' = IF after = run.book THEN << >> ELSE <<SaveState>>
      /\ copies' = [copies EXCEPT !.settle = None]
      /\ Tell(after) /\ (IF filling THEN Hears(cut) ELSE UNCHANGED heard)
      /\ UNCHANGED <<disk, quote, feed, stopped>>

(* intent: a market entry or an order, refused while the run is paused.  It
   replaces what rests, and is on disk before the caller hears of it. *)
Post(book) ==
  /\ External /\ Idle /\ Book!HasBar /\ ~run.paused
  /\ run' = [run EXCEPT !.book = book]
  /\ writes' = IntentWrites
  /\ promised' = None /\ verdict' = NoAdvice
  /\ UNCHANGED <<disk, quote, copies, feed, stopped, heard>>

PostIntent(f) == Post(Decide(CancelOrder(run.book), Book!EnterAt(f, PendingId)))
PostOrder(f) == /\ run.book.position = None /\ Book!ValidOrder(f)
                /\ Post(PlaceOrder(run.book, Book!OrderAt(f, PendingId)))

(* advice: kept only when it names the entry that waits now. *)
PostAdvice(cut) ==
  /\ Idle /\ Waiting(run.book) # None
  /\ run' = [run EXCEPT !.advice = [about |-> CurrentId, cut |-> cut]]
  /\ writes' = <<SaveState, Answer("advisor")>>
  /\ UNCHANGED <<disk, quote, copies, feed, told, stopped, heard>>

(* act: the quote is copied from live_bars, which is released before the runs
   are locked; the order is then filled at the copy. *)
ActReads ==
  /\ run.live /\ copies.act = None /\ quote # None
  /\ copies' = [copies EXCEPT !.act = quote]
  /\ UNCHANGED <<run, disk, writes, quote, feed, told, stopped, heard>>

BugRefuses(tick) ==
  \/ run.book.order = None \/ run.book.position # None
  \/ ~Book!HasBar \/ tick.sides = None
Refuses(tick) ==
  \/ run.book.order = None \/ run.book.position # None
  \/ ~Book!HasBar \/ ~Book!Newer(tick.time) \/ tick.sides = None

(* aged: the copy is older than MAX_TRIGGER_TICK_AGE_MS, a clock of its own. *)
ActTrigger(aged) ==
  LET tick == copies.act
      cut == CutFor(CurrentId)
      filled == FillOrder(run.book, tick.time, TriggerSide(run.book.order, tick.sides),
                          tick.last, Warm, cut).book
  IN  /\ Idle /\ tick # None
      /\ copies' = [copies EXCEPT !.act = None]
      /\ IF aged \/ Refuses(tick) THEN UNCHANGED <<run, writes, told, heard>>
         ELSE /\ run' = [run EXCEPT !.book = filled, !.shadow = Counterfactual,
                                    !.advice = None]
              /\ writes' = <<SaveState>>
              /\ Tell(filled) /\ Hears(cut)
      /\ UNCHANGED <<disk, quote, feed, stopped>>

ActCancel ==
  /\ Idle /\ run.book.order # None
  /\ run' = [run EXCEPT !.book = CancelOrder(run.book)]
  /\ writes' = <<SaveState>>
  /\ Tell(CancelOrder(run.book))
  /\ UNCHANGED <<disk, quote, copies, feed, stopped, heard>>

Pause(on) ==
  /\ Idle /\ run.paused # on
  /\ run' = [run EXCEPT !.paused = on]
  /\ writes' = <<SaveState>>
  /\ UNCHANGED <<disk, quote, copies, feed, told, stopped, heard>>

(* stop: the run leaves the map first; state.json goes last, trades.jsonl never. *)
Stop ==
  /\ Idle
  /\ run' = [run EXCEPT !.book = StopBook(run.book).book, !.live = FALSE]
  /\ writes' = StopWrites
  /\ promised' = None /\ verdict' = NoAdvice
  /\ UNCHANGED <<disk, quote, copies, feed, stopped, heard>>

(* start: written first, put into the map last. *)
Start ==
  /\ MayRestartId /\ ~run.live /\ writes = << >>
  /\ run' = [NewRun EXCEPT !.live = FALSE]
  /\ writes' = <<SaveState, Row, Insert>>
  /\ stopped' = FALSE /\ heard' = FALSE
  /\ UNCHANGED <<disk, quote, copies, feed, told>>

-----------------------------------------------------------------------------
(* The writes of the handler in progress, in order.  append_history swallows
   its errors; any other failure ends the handler with an error. *)
Write == writes[1]

WriteState ==
  /\ Write.to = "state.json"
  /\ disk' = [disk EXCEPT !.state = Saved(run)]
  /\ UNCHANGED <<run, told, stopped>>

RemoveFile ==
  /\ Write.to = "removal"
  /\ disk' = [disk EXCEPT !.state = None]
  /\ UNCHANGED <<run, told, stopped>>

AppendHistory ==
  /\ Write.to = "trades.jsonl"
  /\ disk' = [disk EXCEPT !.history = @ \o Write.lines]
  /\ UNCHANGED <<run, told, stopped>>

WriteRow ==
  /\ Write.to = "fills.jsonl"
  /\ UNCHANGED <<run, disk, told, stopped>>

InsertRun ==
  /\ Write.to = "runs"
  /\ run' = [run EXCEPT !.live = TRUE]
  /\ UNCHANGED <<disk, told, stopped>>

AnswerDecider ==
  /\ Write.to = "decider"
  /\ promised' = Waiting(run.book)
  /\ UNCHANGED <<run, disk, verdict, stopped>>

AnswerAdvisor ==
  /\ Write.to = "advisor"
  /\ verdict' = run.advice.cut
  /\ UNCHANGED <<run, disk, promised, stopped>>

AnswerStopper ==
  /\ Write.to = "stopper"
  /\ stopped' = TRUE
  /\ UNCHANGED <<run, disk, told>>

Proceeds ==
  /\ writes # << >>
  /\ \/ WriteState \/ RemoveFile \/ AppendHistory \/ WriteRow
     \/ InsertRun \/ AnswerDecider \/ AnswerAdvisor \/ AnswerStopper
  /\ writes' = Tail(writes)
  /\ UNCHANGED <<quote, copies, feed, heard>>

WriteFails ==
  /\ "write" \in Faults /\ writes # << >>
  /\ Write.to \in {"state.json", "fills.jsonl", "trades.jsonl", "removal"}
  /\ writes' = IF Write.to = "trades.jsonl" THEN Tail(writes) ELSE << >>
  /\ UNCHANGED <<run, disk, quote, copies, feed, told, stopped, heard>>

(* The process ends, between handlers or inside one, and is started again:
   what was in memory only is gone. *)
Restart ==
  /\ writes = << >> \/ "kill" \in Faults
  /\ run' = Reloaded
  /\ writes' = << >> /\ quote' = None /\ copies' = NoCopies
  /\ UNCHANGED <<disk, feed, told, stopped, heard>>

Handles ==
  \/ \E t \in Times, s \in BarShapes :
       \/ \E decision, alone \in Answers(t) : BarCloses(t, s, decision, alone)
       \/ BarOpens(t, s.open)
       \/ \E q \in Quotes \cup {None} : TickStored(t, s, q)
  \/ TickSettled
  \/ \E f \in EntryForms : PostIntent(f)
  \/ \E f \in OrderForms : PostOrder(f)
  \/ \E cut \in Cuts : PostAdvice(cut)
  \/ ActReads \/ ActCancel
  \/ \E aged \in BOOLEAN : ActTrigger(aged)
  \/ \E on \in BOOLEAN : Pause(on)
  \/ Stop
  \/ Start

Next == Handles \/ Proceeds \/ WriteFails \/ Restart

Spec == Init /\ [][Next]_vars

-----------------------------------------------------------------------------
(* "A reload reconstructs exactly what closed" (feed_run), and every other
   thing a run is: between two handlers, stopping the process and starting it
   again changes nothing of the run, be it an accepted entry, a verdict, the
   pause, a shadow or a trade. *)
RestartChangesNothing == Idle => Reloaded = run

(* The two files never drift apart: a run's equity is its starting equity and
   the trades of its record, before and after every restart. *)
EquityIsTheRecord ==
  Idle => run.book.equity = StartingEquity + DayPnl(run.book.trades)

(* No trade is recorded twice, although a bar whose handler was killed is
   posted and stepped again (feed_run's persist before append_history). *)
RecordedOnce ==
  LET main == TradesOf("main", disk.history)
  IN  \A i, j \in DOMAIN main : main[i] = main[j] => i = j

(* "That promise has to survive the fifteen minutes until that bar arrives"
   (intent): an entry whose caller was told it was accepted is still waiting
   after any kill or failed write, until a handler fills, drops or replaces it. *)
PromiseSurvives ==
  Idle /\ promised # None => Waiting(run.book) = promised

(* "A restart does not resurrect a run that was stopped" (stop). *)
StoppedStaysStopped == stopped => ~run.live

(* The position an entry becomes has the lots its own verdict leaves, and a
   vetoed entry becomes none: no verdict is lost on the way to the fill, and
   none is heard by an entry it was not about (PaperRun::advice). *)
FullLots(p, equity) == CappedLots(SizedLots(p.risk, equity), p.entryPrice, equity)
VerdictFollowed ==
  [][run.book.position = None /\ run'.book.position # None =>
       LET p == run'.book.position
       IN  /\ verdict # 0
           /\ p.lots = AdvisedLots(FullLots(p, run.book.equity), verdict)]_vars

(* A fill happens in a bar the run has not closed over, although a quote is
   copied under one mutex and used under another, with bars closing in between:
   no entry is made in the past of its own book (act, settle_orders_on_tick). *)
EntersUnclosedBar ==
  [][run.book.position = None /\ run'.book.position # None /\ run.book.lastBar # None
       => run'.book.position.entryTime > run.book.lastBar.time]_vars

(* "The difference between them from here on is caused by advice and by nothing
   else" (PaperRun::shadow): until a cut is heard, the two books hold and have
   made the same whenever both are at the close of the last bar. *)
AtClose(b) ==
  /\ b.position # None => b.position.entryTime <= b.lastBar.time
  /\ b.trades # << >> => b.trades[Len(b.trades)].exitTime <= b.lastBar.time
ShadowDiffersByAdvice ==
  run.live /\ ~heard /\ run.shadow # None =>
    (run.book.lastBar # None /\ AtClose(run.book) =>
       /\ run.shadow.position = run.book.position
       /\ run.shadow.equity = run.book.equity
       /\ run.shadow.lastEntry = run.book.lastEntry)

(* The book of a run is a PaperBook under PaperBook's handlers, and a restart
   of the process is no event in its life. *)
RefinesPaperBook == Book!Spec
=============================================================================
