------------------------------- MODULE BarFeed ------------------------------
(***************************************************************************)
(* A rule-based paper book and the poller that feeds it.  The poller       *)
(* (py/live/mt5_bars.py) reads the broker's tape, posts each bar once it   *)
(* has closed and, when told to, posts the open of the bar still forming   *)
(* so that the book fills a bar earlier (fd-api feed_run, feed_open).      *)
(* A post may be lost on the way, or be applied and its answer lost.       *)
(*                                                                         *)
(* The question is whether the book still makes the trades of Backtest.    *)
(***************************************************************************)
EXTENDS BookOps

CONSTANTS
  Times, BarShapes, EntryForms, MayExit, AtrBars,   \* as in Backtest
  FillOnOpen,     \* the poller's --fill-on-open
  Recent,         \* closed bars read by one turn of the loop (3)
  ClosedFirst,    \* assumed: no open is posted while a closed bar is undelivered
  ShortOutages    \* assumed: a closed bar is delivered before the next one closes

ASSUME BarFeedAssumption ==
  /\ FillOnOpen \in BOOLEAN /\ ClosedFirst \in BOOLEAN /\ ShortOutages \in BOOLEAN
  /\ Recent \in Nat \ {0}
  /\ Times \subseteq Int /\ AtrBars \subseteq Int /\ MayExit \in BOOLEAN
  /\ BarShapes \subseteq [open: Price, high: Price, low: Price, close: Price]
  /\ EntryForms \subseteq [side: Side, stop: Level, target: Level]

VARIABLES
  tape,    \* the broker's bars; the last one is forming
  poller,  \* [at, rows, sentUpto, openedFor]
  book,    \* the run's PaperBook
  settled  \* history: the book as the last accepted closed bar left it

vars == <<tape, poller, book, settled>>

Stamps == Int \cup {None}
Pollers == [at: {"wait", "bars", "open"}, rows: Seq(Bars), sentUpto: Stamps,
            openedFor: Stamps]

Forming == tape[Len(tape)]
ClosedBars == SubSeq(tape, 1, Len(tape) - 1)
LastClosed == tape[Len(tape) - 1]
LastOf(s, n) == IF Len(s) <= n THEN s ELSE SubSeq(s, Len(s) - n + 1, Len(s))

(* The book has been advanced over every closed bar of the tape's end. *)
CaughtUp == Len(tape) >= 2 => book.lastBar = LastClosed

-----------------------------------------------------------------------------
BarAt(t, s) == [time |-> t, open |-> s.open, high |-> s.high, low |-> s.low,
                close |-> s.close]
EnterAt(f, t) == [kind |-> "Enter", side |-> f.side, stop |-> f.stop,
                  target |-> f.target, decided |-> t]
Decisions(t) == {None} \cup {EnterAt(f, t) : f \in EntryForms}
                  \cup (IF MayExit THEN {[kind |-> "Exit", decided |-> t]} ELSE {})

BugAtrKnown(b) == b.lastBar # None
(* The sizing ATR of a fill after this book's last bar. *)
AtrKnown(b) == b.lastBar # None /\ b.lastBar.time \in AtrBars

Unseen(b, time) == b.lastBar # None => time > b.lastBar.time

BugBarFed(b, bar, decision) ==
  OrderSawBarClose(Step(b, bar, AtrKnown(b), NoAdvice, decision).book)
(* feed_run: a bar already seen, or older, is answered and changes nothing. *)
BarFed(b, bar, decision) ==
  IF Unseen(b, bar.time)
  THEN OrderSawBarClose(Step(b, bar, AtrKnown(b), NoAdvice, decision).book)
  ELSE b

(* feed_open: fills the pending intent and decides nothing. *)
OpenFed(b, time, open) ==
  IF b.lastBar = None \/ ~Unseen(b, time) \/ b.pending = None THEN b
  ELSE FillOpen(b, time, open, AtrKnown(b), NoAdvice).book

-----------------------------------------------------------------------------
Init ==
  /\ \E t \in Times, s \in BarShapes : tape = <<BarAt(t, s)>>
  /\ poller = [at |-> "bars", rows |-> << >>, sentUpto |-> None, openedFor |-> None]
  /\ book = NewBook
  /\ settled = NewBook

(* The market: a bar closes and the next one opens, perhaps after a gap. *)
BarBegins(t, s) ==
  /\ t > Forming.time
  /\ ShortOutages => CaughtUp
  /\ tape' = Append(tape, BarAt(t, s))
  /\ UNCHANGED <<poller, book, settled>>

(* A turn of the loop: on the slow clock it reads the last closed bars, on
   the others it goes straight to the open. *)
TurnSlow ==
  /\ poller.at = "wait"
  /\ poller' = [poller EXCEPT !.at = "bars", !.rows = LastOf(ClosedBars, Recent)]
  /\ UNCHANGED <<tape, book, settled>>

TurnFast ==
  /\ poller.at = "wait"
  /\ poller' = [poller EXCEPT !.at = "open"]
  /\ UNCHANGED <<tape, book, settled>>

Row == poller.rows[1]
Unsent == poller.sentUpto # None => Row.time > poller.sentUpto
Sending == poller.at = "bars" /\ poller.rows # << >>
NextRow(p) == [p EXCEPT !.rows = Tail(@)]

SkipRow ==
  /\ Sending /\ ~Unsent
  /\ poller' = NextRow(poller)
  /\ UNCHANGED <<tape, book, settled>>

BugUnanswered(p, time) == [p EXCEPT !.sentUpto = time]
(* send: the stamp is remembered on a 200 and on nothing else. *)
Answered(p, time) == [p EXCEPT !.sentUpto = time]
Unanswered(p, time) == p

Deliver(decision) ==
  /\ Sending /\ Unsent
  /\ book' = BarFed(book, Row, decision)
  /\ settled' = IF Unseen(book, Row.time) THEN book' ELSE settled
  /\ UNCHANGED tape

PostBar(decision) ==
  /\ Deliver(decision)
  /\ poller' = NextRow(Answered(poller, Row.time))

(* Applied, but the answer never arrives: the row is not marked as sent. *)
PostBarUnanswered(decision) ==
  /\ Deliver(decision)
  /\ poller' = NextRow(Unanswered(poller, Row.time))

LoseBar ==
  /\ Sending /\ Unsent
  /\ poller' = NextRow(Unanswered(poller, Row.time))
  /\ UNCHANGED <<tape, book, settled>>

BarsDone ==
  /\ poller.at = "bars" /\ poller.rows = << >>
  /\ poller' = [poller EXCEPT !.at = "open"]
  /\ UNCHANGED <<tape, book, settled>>

(* send_open: once per stamp, marked only when answered. *)
Opening == poller.at = "open" /\ FillOnOpen /\ poller.openedFor # Forming.time
MayOpen == ClosedFirst => CaughtUp

NoOpen ==
  /\ poller.at = "open" /\ ~Opening
  /\ poller' = [poller EXCEPT !.at = "wait"]
  /\ UNCHANGED <<tape, book, settled>>

PostOpen ==
  /\ Opening /\ MayOpen
  /\ book' = OpenFed(book, Forming.time, Forming.open)
  /\ \E heard \in {Forming.time, poller.openedFor} :
       poller' = [poller EXCEPT !.at = "wait", !.openedFor = heard]
  /\ UNCHANGED <<tape, settled>>

LoseOpen ==
  /\ Opening
  /\ poller' = [poller EXCEPT !.at = "wait"]
  /\ UNCHANGED <<tape, book, settled>>

(* The poller is started again: it forgets what it sent and posts the closed
   bars of the terminal's history before anything else. *)
Restart ==
  /\ poller.at = "wait"
  /\ poller' = [at |-> "bars", rows |-> ClosedBars, sentUpto |-> None,
                openedFor |-> None]
  /\ UNCHANGED <<tape, book, settled>>

Market == \E t \in Times, s \in BarShapes : BarBegins(t, s)
Delivered == Sending /\ \E decision \in Decisions(Row.time) : PostBar(decision)
Turning == TurnSlow \/ TurnFast \/ SkipRow \/ LoseBar \/ BarsDone
             \/ NoOpen \/ PostOpen \/ LoseOpen
Next ==
  \/ Market
  \/ Delivered
  \/ Turning
  \/ Sending /\ \E decision \in Decisions(Row.time) : PostBarUnanswered(decision)
  \/ Restart

Spec == Init /\ [][Next]_vars

(* The loop never ends and its slow clock falls due again and again; a post
   that is tried for ever is answered in the end; restarts stop. *)
Fairness ==
  /\ WF_vars(Turning \/ Delivered)
  /\ SF_vars(TurnSlow)
  /\ SF_vars(Delivered)
FairSpec == Spec /\ Fairness /\ <>[][~Restart]_vars

-----------------------------------------------------------------------------
(* The abstract backtest over the bars the book accepted. *)
SimOf(b) == [equity |-> b.equity, position |-> b.position, trades |-> b.trades,
             pending |-> b.pending, closed |-> b.closed, lastEntry |-> b.lastEntry,
             last |-> b.lastBar, over |-> FALSE]

Reference == INSTANCE Backtest
               WITH sim <- SimOf(settled), RangeFrom <- None, RangeTo <- None

TypeOK ==
  /\ tape \in Seq(Bars) /\ tape # << >>
  /\ poller \in Pollers
  /\ book \in Books /\ settled \in Books

(* "A backtest replaying the same tape produces the same trades": at every bar
   the book accepts, its position, trades, equity and guard memory are those
   of a backtest over the accepted bars, whatever was lost, repeated, filled
   early or resent after a restart (PaperBook::fill_open). *)
RefinesBacktest == Reference!Spec

(* "A bar from BEFORE the fill's bucket, arriving late: the position did not
   exist during it, so there is nothing to manage it against" (advance). *)
NoExitBeforeEntry ==
  \A i \in DOMAIN book.trades : book.trades[i].entryTime <= book.trades[i].exitTime

(* A post that fails is tried again: the book is brought up to the last closed
   bar again and again, and when the market pauses it stays there (send). *)
CatchesUp == []<>CaughtUp
=============================================================================
