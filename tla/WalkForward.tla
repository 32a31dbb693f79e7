----------------------------- MODULE WalkForward -----------------------------
(***************************************************************************)
(* Parameters chosen on one window and measured on the next                *)
(* (fd-backtest/src/sweep.rs walk_forward_guarded, engine.rs metrics_of).  *)
(* A fold is one backtest of every parameter set up to the end of its      *)
(* training window, and one of the best of them over the window after it.  *)
(* Selection is by profit factor; expectancy and total R need the risk of  *)
(* a trade, which its record here leaves out.                              *)
(***************************************************************************)
EXTENDS Engine, SequencesExt

CONSTANTS
  Times, BarShapes, EntryForms, MayExit, AtrBars, \* as in Backtest
  Grid,      \* the parameter sets, in the order they are tried
  Folds,     \* windows measured
  MinTrades, \* trades a set must have made in training to be chosen
  Answers,   \* what the parameter sets may say at a close
  Histories  \* the bars they are tried on

VARIABLES
  tape,  \* the bars
  said,  \* what each set says at each close so far, by the position it holds there
  study  \* the walk-forward over the bars closed so far, None while they are too few
vars == <<tape, said, study>>

Window(from, to) == INSTANCE Backtest WITH RangeFrom <- from, RangeTo <- to, sim <- study

-----------------------------------------------------------------------------
(* What a set decides at bar i of its run. *)
Decided(answers, bars, set, i, position) ==
  LET answer == answers[i][set][IF position = None THEN "None" ELSE position.side]
      time == bars[i].time
  IN  CASE answer.kind = "None" -> None
        [] answer.kind = "Exit" -> [kind |-> "Exit", decided |-> time]
        [] answer.kind = "Enter" -> Window(None, None)!EnterAt(answer.form, time)

(* A bar, with the strategy asked holding what the bar leaves it. *)
Settled(answers, bars, set, f, t, managed, i) ==
  Window(f, t)!Asked(managed, bars[i], Decided(answers, bars, set, i, managed.position))

Closing(bars, f, t, s) ==
  IF s.position = None THEN s
  ELSE Window(f, t)!SettleAt(s, Last(bars).close, Last(bars).time, "END_OF_DATA")

(* The trades of one backtest, over each window. *)
TradesOf(bars, answers, set, from, to) ==
  [f \in Times \cup {None}, t \in Times \cup {None} |->
     Closing(bars, f, t,
             FoldLeft(LAMBDA s, i : Settled(answers, bars, set, f, t, Window(f, t)!Iterated(s, bars[i], None), i),
                      Window(f, t)!NewSim, [i \in DOMAIN bars |-> i])).trades][from, to]

Pnl(trades) == FoldLeft(LAMBDA sum, t : sum + t.pnl, 0, trades)

(* The profit factor in ten-thousandths: None for the infinity of a record
   without losses, as for no record at all, since neither is finite. *)
Metrics(trades) ==
  LET won == Pnl(SelectSeq(trades, LAMBDA t : t.pnl > 0))
      lost == -Pnl(SelectSeq(trades, LAMBDA t : t.pnl <= 0))
      Marked(m, t) == LET equity == m.equity + t.pnl  peak == Larger(m.peak, equity)
                      IN  [equity |-> equity, peak |-> peak, fall |-> Larger(m.fall, peak - equity)]
      marked == FoldLeft(Marked, [equity |-> StartingEquity, peak |-> StartingEquity, fall |-> 0], trades)
  IN  [trades |-> Len(trades), net |-> marked.equity - StartingEquity, drawdown |-> marked.fall,
       profitFactor |-> IF lost > 0 THEN (20000 * won + lost) \div (2 * lost) ELSE None]

(* What a fold selects on: a score that is not finite is below every other. *)
Below(score, other) == other # None /\ (score = None \/ score < other)

(* The best of the sets that traded enough, the last of equals (max_by). *)
BestSet(metrics) ==
  LET Better(best, set) == IF best # None /\ Below(metrics[set].profitFactor, metrics[best].profitFactor)
                           THEN best ELSE set
  IN  FoldLeft(Better, None, SelectSeq(Grid, LAMBDA set : metrics[set].trades >= MinTrades))

Selected(bars, answers, to) ==
  BestSet([set \in Range(Grid) |-> Metrics(TradesOf(bars, answers, set, None, to))])

Measured(bars, answers, set, from, to) ==
  [selected |-> set, from |-> from, to |-> to,
   trades |-> IF set = None THEN << >> ELSE TradesOf(bars, answers, set, from, to)]

(* A window ends before its `to`: training before its own last bar, the last
   window before the last bar of the tape. *)
FoldOf(bars, answers, block, f) ==
  Measured(bars, answers, Selected(bars, answers, bars[block * f].time), bars[block * f + 1].time,
           bars[Smaller(block * (f + 1), Len(bars) - 1) + 1].time)

WalkedForward(bars, answers) ==
  LET block == Len(bars) \div (Folds + 1)
      Study(folds, pooled) == [folds |-> folds, trades |-> pooled, metrics |-> Metrics(pooled)]
      Pooled(folds) == Study(folds, FlattenSeq([f \in 1..Folds |-> folds[f].trades]))
  IN  IF Len(bars) < Folds + 2 THEN None
      ELSE Pooled([f \in 1..Folds |-> FoldOf(bars, answers, block, f)])

-----------------------------------------------------------------------------
Init == tape \in Histories /\ said = << >> /\ study = None

BarCloses(answer) ==
  /\ Len(said) < Len(tape)
  /\ said' = Append(said, answer)
  /\ study' = WalkedForward(SubSeq(tape, 1, Len(said')), said')
  /\ UNCHANGED tape

Next == \E answer \in Answers : BarCloses(answer)

-----------------------------------------------------------------------------
(* Selection sees only the training window: on a tape that ended before the
   measured one the same set would have been chosen.  Measurement sees only the
   window that follows.  Windows that meet in a bar share no trade: each begins
   after the one before it ended (sweep.rs walk_forward_guarded). *)
MeasuredUnseen ==
  study # None =>
    /\ \A f \in DOMAIN study.folds :
         LET fold == study.folds[f]
             known == SelectSeq(tape, LAMBDA b : b.time < fold.from)
         IN  /\ fold.selected = Selected(known, said, Last(known).time)
             /\ \A n \in DOMAIN fold.trades : /\ fold.trades[n].entryTime > fold.from
                                              /\ fold.trades[n].exitTime <= fold.to
    /\ \A m, n \in DOMAIN study.trades :
         m < n => study.trades[m].exitTime < study.trades[n].entryTime
=============================================================================
