------------------------------ MODULE Backtest ------------------------------
(***************************************************************************)
(* The backtest loop (fd-backtest/src/engine.rs run_backtest_guarded): one *)
(* pass over a finished tape, each bar filling what the previous bar       *)
(* decided, managing the open position, then asking the strategy.  It is   *)
(* the reference the live book answers to.                                 *)
(***************************************************************************)
EXTENDS Engine

CONSTANTS
  Times,         \* bar stamps
  BarShapes,     \* [open, high, low, close]
  EntryForms,    \* [side, stop, target]
  MayExit,       \* the strategy issues exits of its own
  AtrBars,       \* bars at whose close the sizing ATR is known
  RangeFrom, RangeTo  \* the traded window: from inclusive, to exclusive, or None

ASSUME BacktestAssumption ==
  /\ Times \subseteq Int /\ AtrBars \subseteq Int
  /\ BarShapes \subseteq [open: Price, high: Price, low: Price, close: Price]
  /\ EntryForms \subseteq [side: Side, stop: Level, target: Level]
  /\ MayExit \in BOOLEAN
  /\ RangeFrom \in Level /\ RangeTo \in Level
  /\ None \notin Bars

VARIABLE sim   \* the locals of the loop
vars == sim

Sims == [equity: Int, position: Positions \cup {None}, trades: Seq(Trades),
         pending: Intents \cup {None}, closed: Seq(Realised), lastEntry: Level,
         last: Bars \cup {None}, over: BOOLEAN]

NewSim == [equity |-> StartingEquity, position |-> None, trades |-> << >>,
           pending |-> None, closed |-> << >>, lastEntry |-> None,
           last |-> None, over |-> FALSE]

Tradable(t) == /\ RangeFrom # None => t >= RangeFrom
               /\ RangeTo # None => t < RangeTo
PastRange(t) == RangeTo # None /\ t >= RangeTo

(* close_position and the four lines that follow it at each of its calls. *)
Settle(s, price, time, kind) ==
  LET trade == Closed(s.position, price, time, kind)
  IN  [s EXCEPT !.position = None, !.equity = @ + trade.pnl,
                !.trades = Append(@, trade),
                !.closed = Append(@, [time |-> time, pnl |-> trade.pnl])]

SettleAt(s, price, time, kind) ==
  Settle(s, ApplyCosts(price, s.position.side, FALSE), time, kind)

BugWindowEnded(s, bar) == s

(* 0. The window has ended: flat at this bar's open. *)
WindowEnded(s, bar) ==
  IF PastRange(bar.time) /\ s.position # None
  THEN SettleAt([s EXCEPT !.pending = None], bar.open, bar.time, "END_OF_DATA")
  ELSE s

(* 1. Fill what the previous bar decided, at this bar's open. *)
Pruned(s, time) ==
  IF Guarded /\ MaxConcurrent > 0 THEN [s EXCEPT !.closed = PrunedDay(@, time)] ELSE s

Barred(s, time) ==
  IF ~Guarded THEN FALSE
  ELSE IF MemoryRefusal(s.closed, s.lastEntry, time) # None THEN TRUE
  ELSE s.last # None /\ CalendarRefusal(s.last.time, time) # None

Enters(s, intent, bar) ==
  LET judged == Pruned(s, bar.time)
      warm == s.last # None /\ s.last.time \in AtrBars
      p == Opened(intent, bar.time, bar.open, warm, s.equity)
  IN  IF Barred(judged, bar.time) \/ p.risk = 0 \/ TooSmall(p.lots) THEN judged
      ELSE [judged EXCEPT !.position = p,
                          !.lastEntry = IF @ = None THEN bar.time ELSE Larger(@, bar.time)]

Filled(s, bar) ==
  LET taken == [s EXCEPT !.pending = None]
  IN  IF ~Tradable(bar.time) \/ s.pending = None THEN s
      ELSE IF s.pending.kind = "Enter" /\ s.position = None
        THEN Enters(taken, s.pending, bar)
      ELSE IF s.pending.kind = "Exit" /\ s.position # None
        THEN SettleAt(taken, bar.open, bar.time, "SIGNAL")
      ELSE taken

(* 2. Manage the open position against this bar's range; ratchet last. *)
Managed(s, bar) ==
  LET exit == BarExit(s.position, bar)
  IN  IF s.position = None THEN s
      ELSE IF exit = None THEN [s EXCEPT !.position = TrailStop(s.position, bar)]
      ELSE Settle(s, exit.price, bar.time, exit.kind)

(* 3. Ask the strategy: no decision leaves what is pending alone.  A strategy
   still warming up is one that decides nothing. *)
Asked(s, bar, decision) ==
  IF Tradable(bar.time) /\ decision # None THEN [s EXCEPT !.pending = decision] ELSE s

Iterated(s, bar, decision) ==
  [Asked(Managed(Filled(WindowEnded(s, bar), bar), bar), bar, decision)
     EXCEPT !.last = bar]

EnterAt(f, t) == [kind |-> "Enter", side |-> f.side, stop |-> f.stop,
                  target |-> f.target, decided |-> t]
Decisions(t) == {None} \cup {EnterAt(f, t) : f \in EntryForms}
                  \cup (IF MayExit THEN {[kind |-> "Exit", decided |-> t]} ELSE {})

BarAt(t, s) == [time |-> t, open |-> s.open, high |-> s.high, low |-> s.low,
                close |-> s.close]

-----------------------------------------------------------------------------
Init == sim = NewSim

Iterate(t, s, decision) ==
  /\ ~sim.over
  /\ sim.last # None => t > sim.last.time
  /\ sim' = Iterated(sim, BarAt(t, s), decision)

(* The tape is over: close anything still open at the last close. *)
Finish ==
  /\ ~sim.over /\ sim.last # None
  /\ sim' = IF sim.position = None THEN [sim EXCEPT !.over = TRUE]
            ELSE [SettleAt(sim, sim.last.close, sim.last.time, "END_OF_DATA")
                    EXCEPT !.over = TRUE]

Next ==
  \/ \E t \in Times, s \in BarShapes : \E decision \in Decisions(t) :
       Iterate(t, s, decision)
  \/ Finish

Spec == Init /\ [][Next]_vars

-----------------------------------------------------------------------------
TypeOK == sim \in Sims

(* No ghost trade: nothing is held past the end of the traded window, nor when
   the tape is over, and what was entered was entered inside the window. *)
FlatOutsideRange ==
  /\ sim.position # None =>
       /\ ~sim.over
       /\ ~PastRange(sim.last.time)
       /\ Tradable(sim.position.entryTime)
  /\ \A i \in DOMAIN sim.trades : Tradable(sim.trades[i].entryTime)
=============================================================================
