--------------------------- MODULE Backtest_proofs ---------------------------
(***************************************************************************)
(* That a backtest makes no ghost trade, for every tape, every strategy,   *)
(* every guard and every traded window: the position and the trades of the *)
(* loop are inside the window through each of the four parts of a bar.     *)
(***************************************************************************)
EXTENDS Backtest, TLAPS

(* A position the loop may hold, and a memory of trades made in the window. *)
Whole(p) ==
  p = [side |-> p.side, entryTime |-> p.entryTime, entryPrice |-> p.entryPrice,
       stop |-> p.stop, target |-> p.target, lots |-> p.lots, risk |-> p.risk,
       decided |-> p.decided]
InWindow(trades) ==
  \E S : trades \in Seq(S) /\ \A t \in S : Tradable(t.entryTime)

Inside(s) ==
  /\ s = [equity |-> s.equity, position |-> s.position, trades |-> s.trades,
          pending |-> s.pending, closed |-> s.closed, lastEntry |-> s.lastEntry,
          last |-> s.last, over |-> s.over]
  /\ InWindow(s.trades)
  /\ s.position # None => Whole(s.position) /\ Tradable(s.position.entryTime)

(* What is held is held while the tape runs and the window is open. *)
Held(s) == s.position # None => ~s.over /\ ~PastRange(s.last.time)
NoGhost == Inside(sim) /\ Held(sim)

LEMMA PastIsOutside ==
  ASSUME NEW t \in Int, PastRange(t)
  PROVE  ~Tradable(t)
<1>1. RangeTo \in Int
  BY BacktestAssumption DEF PastRange, Level
<1> QED BY <1>1 DEF PastRange, Tradable

LEMMA TradeJoins ==
  ASSUME NEW trades, InWindow(trades), NEW trade, Tradable(trade.entryTime)
  PROVE  InWindow(Append(trades, trade))
<1>1. PICK S : trades \in Seq(S) /\ \A t \in S : Tradable(t.entryTime)
  BY DEF InWindow
<1>2. PICK T : T = S \cup {trade}
  OBVIOUS
<1>3. trades \in Seq(T) /\ trade \in T
  BY <1>1, <1>2
<1>4. Append(trades, trade) \in Seq(T)
  BY <1>3
<1>5. \A t \in T : Tradable(t.entryTime)
  BY <1>1, <1>2
<1> QED BY <1>4, <1>5 DEF InWindow

(* A close leaves nothing open and one more trade of the window. *)
LEMMA SettleInside ==
  ASSUME NEW s, Inside(s), s.position # None, NEW price, NEW time, NEW kind
  PROVE  /\ Inside(Settle(s, price, time, kind))
         /\ Settle(s, price, time, kind).position = None
         /\ Settle(s, price, time, kind).over = s.over
         /\ Settle(s, price, time, kind).last = s.last
<1>1. PICK trade : trade = Closed(s.position, price, time, kind)
  OBVIOUS
<1>2. trade.entryTime = s.position.entryTime
  BY <1>1 DEF Closed
<1>3. PICK after : after = Settle(s, price, time, kind)
  OBVIOUS
<1>4. PICK entry : entry = [time |-> time, pnl |-> trade.pnl]
  OBVIOUS
<1>5. after = [s EXCEPT !.position = None, !.equity = @ + trade.pnl,
                        !.trades = Append(@, trade), !.closed = Append(@, entry)]
  BY <1>1, <1>3, <1>4 DEF Settle
<1>6. after = [equity |-> s.equity + trade.pnl, position |-> None,
               trades |-> Append(s.trades, trade), pending |-> s.pending,
               closed |-> Append(s.closed, entry), lastEntry |-> s.lastEntry,
               last |-> s.last, over |-> s.over]
  BY <1>5 DEF Inside
<1>7. InWindow(after.trades)
  BY <1>2, <1>6, TradeJoins DEF Inside
<1>8. Inside(after)
  BY <1>6, <1>7 DEF Inside
<1> QED BY <1>3, <1>6, <1>8

LEMMA WindowEndedInside ==
  ASSUME NEW s, Inside(s), NEW bar, ~s.over
  PROVE  /\ Inside(WindowEnded(s, bar)) /\ ~WindowEnded(s, bar).over
         /\ PastRange(bar.time) => WindowEnded(s, bar).position = None
<1>1. CASE PastRange(bar.time) /\ s.position # None
  <2>1. PICK left : left = [s EXCEPT !.pending = None]
    OBVIOUS
  <2>2. left = [equity |-> s.equity, position |-> s.position, trades |-> s.trades,
                pending |-> None, closed |-> s.closed, lastEntry |-> s.lastEntry,
                last |-> s.last, over |-> s.over]
    BY <2>1 DEF Inside
  <2>3. Inside(left) /\ left.position # None /\ ~left.over
    BY <1>1, <2>2 DEF Inside
  <2>4. \E price : WindowEnded(s, bar) = Settle(left, price, bar.time, "END_OF_DATA")
    BY <1>1, <2>1 DEF WindowEnded, SettleAt
  <2> QED BY <2>3, <2>4, SettleInside
<1>2. CASE ~(PastRange(bar.time) /\ s.position # None)
  BY <1>2 DEF WindowEnded
<1> QED BY <1>1, <1>2

(* An entry is made on a bar of the window, and only there. *)
LEMMA EntersInside ==
  ASSUME NEW s, Inside(s), NEW intent, NEW bar, Tradable(bar.time)
  PROVE  Inside(Enters(s, intent, bar)) /\ Enters(s, intent, bar).over = s.over
<1>1. PICK judged : judged = Pruned(s, bar.time)
  OBVIOUS
<1>2. \E closed : judged = [s EXCEPT !.closed = closed]
  <2>1. CASE Guarded /\ MaxConcurrent > 0
    BY <1>1, <2>1 DEF Pruned
  <2>2. CASE ~(Guarded /\ MaxConcurrent > 0)
    <3>1. s = [s EXCEPT !.closed = s.closed]
      BY DEF Inside
    <3> QED BY <1>1, <2>2, <3>1 DEF Pruned
  <2> QED BY <2>1, <2>2
<1>3. PICK closed : judged = [s EXCEPT !.closed = closed]
  BY <1>2
<1>4. judged = [equity |-> s.equity, position |-> s.position, trades |-> s.trades,
                pending |-> s.pending, closed |-> closed, lastEntry |-> s.lastEntry,
                last |-> s.last, over |-> s.over]
  BY <1>3 DEF Inside
<1>5. Inside(judged) /\ judged.over = s.over
  BY <1>4 DEF Inside
<1>6. PICK warm : warm = (s.last # None /\ s.last.time \in AtrBars)
  OBVIOUS
<1>7. PICK p : p = Opened(intent, bar.time, bar.open, warm, s.equity)
  OBVIOUS
<1>8. Whole(p) /\ p.entryTime = bar.time
  BY <1>7 DEF Opened, Whole
<1>9. \/ Enters(s, intent, bar) = judged
      \/ \E since : Enters(s, intent, bar) =
                        [judged EXCEPT !.position = p, !.lastEntry = since]
  BY <1>1, <1>6, <1>7 DEF Enters
<1>10. ASSUME NEW since,
              Enters(s, intent, bar) = [judged EXCEPT !.position = p, !.lastEntry = since]
       PROVE  Inside(Enters(s, intent, bar)) /\ Enters(s, intent, bar).over = s.over
  <2>1. Enters(s, intent, bar) =
          [equity |-> s.equity, position |-> p, trades |-> s.trades, pending |-> s.pending,
           closed |-> closed, lastEntry |-> since, last |-> s.last, over |-> s.over]
    BY <1>4, <1>10
  <2>2. PICK after : after = Enters(s, intent, bar)
    OBVIOUS
  <2>3. Inside(after) /\ after.over = s.over
    BY <1>8, <2>1, <2>2 DEF Inside
  <2> QED BY <2>2, <2>3
<1> QED BY <1>5, <1>9, <1>10

LEMMA FilledInside ==
  ASSUME NEW s, Inside(s), NEW bar
  PROVE  /\ Inside(Filled(s, bar)) /\ Filled(s, bar).over = s.over
         /\ ~Tradable(bar.time) => Filled(s, bar) = s
<1>1. CASE ~Tradable(bar.time) \/ s.pending = None
  BY <1>1 DEF Filled
<1>2. CASE Tradable(bar.time) /\ s.pending # None
  <2>1. PICK taken : taken = [s EXCEPT !.pending = None]
    OBVIOUS
  <2>2. taken = [equity |-> s.equity, position |-> s.position, trades |-> s.trades,
                 pending |-> None, closed |-> s.closed, lastEntry |-> s.lastEntry,
                 last |-> s.last, over |-> s.over]
    BY <2>1 DEF Inside
  <2>3. Inside(taken) /\ taken.over = s.over /\ taken.position = s.position
    BY <2>2 DEF Inside
  <2>4. \/ Filled(s, bar) = Enters(taken, s.pending, bar)
        \/ /\ s.position # None
           /\ \E price : Filled(s, bar) = Settle(taken, price, bar.time, "SIGNAL")
        \/ Filled(s, bar) = taken
    BY <1>2, <2>1 DEF Filled, SettleAt
  <2>5. Inside(Enters(taken, s.pending, bar)) /\ Enters(taken, s.pending, bar).over = s.over
    BY <1>2, <2>3, EntersInside
  <2>6. ASSUME s.position # None, NEW price
        PROVE  /\ Inside(Settle(taken, price, bar.time, "SIGNAL"))
               /\ Settle(taken, price, bar.time, "SIGNAL").over = s.over
    BY <2>3, <2>6, SettleInside
  <2> QED BY <1>2, <2>3, <2>4, <2>5, <2>6
<1> QED BY <1>1, <1>2

LEMMA ManagedInside ==
  ASSUME NEW s, Inside(s), NEW bar
  PROVE  /\ Inside(Managed(s, bar)) /\ Managed(s, bar).over = s.over
         /\ s.position = None => Managed(s, bar) = s
<1>1. CASE s.position = None
  BY <1>1 DEF Managed
<1>2. CASE s.position # None /\ BarExit(s.position, bar) # None
  <2>1. PICK exit : exit = BarExit(s.position, bar)
    OBVIOUS
  <2>2. Managed(s, bar) = Settle(s, exit.price, bar.time, exit.kind)
    BY <1>2, <2>1 DEF Managed
  <2> QED BY <1>2, <2>2, SettleInside
<1>3. CASE s.position # None /\ BarExit(s.position, bar) = None
  <2>1. PICK p : p = TrailStop(s.position, bar)
    OBVIOUS
  <2>2. p = s.position \/ \E stop : p = [s.position EXCEPT !.stop = stop]
    BY <2>1 DEF TrailStop
  <2>3. Whole(p) /\ p.entryTime = s.position.entryTime
    <3>1. CASE p = s.position
      BY <1>3, <3>1 DEF Inside
    <3>2. ASSUME NEW stop, p = [s.position EXCEPT !.stop = stop]
          PROVE  Whole(p) /\ p.entryTime = s.position.entryTime
      <4>1. p = [side |-> s.position.side, entryTime |-> s.position.entryTime,
                 entryPrice |-> s.position.entryPrice, stop |-> stop,
                 target |-> s.position.target, lots |-> s.position.lots,
                 risk |-> s.position.risk, decided |-> s.position.decided]
        BY <1>3, <3>2 DEF Inside, Whole
      <4> QED BY <4>1 DEF Whole
    <3> QED BY <2>2, <3>1, <3>2
  <2>4. Managed(s, bar) = [s EXCEPT !.position = p]
    BY <1>3, <2>1 DEF Managed
  <2>5. Managed(s, bar) =
          [equity |-> s.equity, position |-> p, trades |-> s.trades, pending |-> s.pending,
           closed |-> s.closed, lastEntry |-> s.lastEntry, last |-> s.last, over |-> s.over]
    BY <2>4 DEF Inside
  <2>6. PICK after : after = Managed(s, bar)
    OBVIOUS
  <2>7. Inside(after) /\ after.over = s.over
    BY <1>3, <2>3, <2>5, <2>6 DEF Inside
  <2> QED BY <1>3, <2>6, <2>7
<1> QED BY <1>1, <1>2, <1>3

(* One bar: flat past the window, and nothing entered outside it. *)
LEMMA IteratedInside ==
  ASSUME NEW s, Inside(s), ~s.over, NEW bar, bar.time \in Int, NEW decision
  PROVE  /\ Inside(Iterated(s, bar, decision)) /\ Held(Iterated(s, bar, decision))
<1>1. PICK ended : ended = WindowEnded(s, bar)
  OBVIOUS
<1>2. /\ Inside(ended) /\ ~ended.over
      /\ PastRange(bar.time) => ended.position = None
  BY <1>1, WindowEndedInside
<1>3. PICK filled : filled = Filled(ended, bar)
  OBVIOUS
<1>4. /\ Inside(filled) /\ ~filled.over
      /\ PastRange(bar.time) => filled.position = None
  BY <1>2, <1>3, FilledInside, PastIsOutside
<1>5. PICK managed : managed = Managed(filled, bar)
  OBVIOUS
<1>6. /\ Inside(managed) /\ ~managed.over
      /\ PastRange(bar.time) => managed.position = None
  BY <1>4, <1>5, ManagedInside
<1>7. PICK asked : asked = Asked(managed, bar, decision)
  OBVIOUS
<1>8. PICK pending : pending = (IF Tradable(bar.time) /\ decision # None THEN decision
                                ELSE managed.pending)
  OBVIOUS
<1>9. asked = [equity |-> managed.equity, position |-> managed.position,
               trades |-> managed.trades, pending |-> pending, closed |-> managed.closed,
               lastEntry |-> managed.lastEntry, last |-> managed.last, over |-> managed.over]
  BY <1>6, <1>7, <1>8 DEF Asked, Inside
<1>10. PICK after : after = [asked EXCEPT !.last = bar]
  OBVIOUS
<1>11. after = [equity |-> managed.equity, position |-> managed.position,
                trades |-> managed.trades, pending |-> pending, closed |-> managed.closed,
                lastEntry |-> managed.lastEntry, last |-> bar, over |-> managed.over]
  BY <1>9, <1>10
<1>12. Inside(after)
  BY <1>6, <1>11 DEF Inside
<1>13. Held(after)
  BY <1>6, <1>11 DEF Held
<1>14. after = Iterated(s, bar, decision)
  BY <1>1, <1>3, <1>5, <1>7, <1>10 DEF Iterated
<1> QED BY <1>12, <1>13, <1>14

LEMMA FinishInside ==
  ASSUME NoGhost, Finish
  PROVE  NoGhost'
<1>1. ~sim.over \/ sim.position = None
  BY DEF NoGhost, Held
<1>2. CASE sim.position = None
  <2>1. sim' = [equity |-> sim.equity, position |-> None, trades |-> sim.trades,
                pending |-> sim.pending, closed |-> sim.closed, lastEntry |-> sim.lastEntry,
                last |-> sim.last, over |-> TRUE]
    BY <1>2 DEF Finish, NoGhost, Inside
  <2> QED BY <2>1 DEF NoGhost, Inside, Held
<1>3. CASE sim.position # None
  <2>1. PICK price : sim' = [Settle(sim, price, sim.last.time, "END_OF_DATA") EXCEPT !.over = TRUE]
    BY <1>3 DEF Finish, SettleAt
  <2>2. PICK left : left = Settle(sim, price, sim.last.time, "END_OF_DATA")
    OBVIOUS
  <2>3. Inside(left) /\ left.position = None
    BY <1>3, <2>2, SettleInside DEF NoGhost
  <2>4. sim' = [equity |-> left.equity, position |-> None, trades |-> left.trades,
                pending |-> left.pending, closed |-> left.closed, lastEntry |-> left.lastEntry,
                last |-> left.last, over |-> TRUE]
    BY <2>1, <2>2, <2>3 DEF Inside
  <2> QED BY <2>3, <2>4 DEF NoGhost, Inside, Held
<1> QED BY <1>2, <1>3

LEMMA BeginsInside == Init => NoGhost
<1> SUFFICES ASSUME Init PROVE NoGhost
  OBVIOUS
<1>1. PICK S : S = {}
  OBVIOUS
<1>2. << >> \in Seq(S) /\ \A t \in S : Tradable(t.entryTime)
  BY <1>1
<1>3. InWindow(<< >>)
  BY <1>2 DEF InWindow
<1>4. sim = [equity |-> StartingEquity, position |-> None, trades |-> << >>,
             pending |-> None, closed |-> << >>, lastEntry |-> None,
             last |-> None, over |-> FALSE]
  BY DEF Init, NewSim
<1> QED BY <1>3, <1>4 DEF NoGhost, Inside, Held

LEMMA StepInside == NoGhost /\ [Next]_vars => NoGhost'
<1> SUFFICES ASSUME NoGhost, [Next]_vars PROVE NoGhost'
  OBVIOUS
<1>1. ASSUME NEW t \in Times, NEW s \in BarShapes, NEW decision, Iterate(t, s, decision), ~sim.over
      PROVE  NoGhost'
  <2>1. BarAt(t, s).time = t /\ t \in Int
    BY BacktestAssumption DEF BarAt
  <2>2. PICK bar : bar = BarAt(t, s)
    OBVIOUS
  <2>3. sim' = Iterated(sim, bar, decision)
    BY <1>1, <2>2 DEF Iterate
  <2> QED BY <1>1, <2>1, <2>2, <2>3, IteratedInside DEF NoGhost
<1>2. CASE Finish
  BY <1>2, FinishInside
<1>3. CASE UNCHANGED vars
  BY <1>3 DEF vars, NoGhost
<1> QED BY <1>1, <1>2, <1>3 DEF Next, Iterate

(* No ghost trade: nothing is held past the traded window or past the tape,  *)
(* and what was traded was entered inside it, for every tape and strategy.   *)
THEOREM NoGhostTrades == Spec => []FlatOutsideRange
<1>1. NoGhost => FlatOutsideRange
  <2> SUFFICES ASSUME NoGhost PROVE FlatOutsideRange
    OBVIOUS
  <2>1. PICK S : sim.trades \in Seq(S) /\ \A t \in S : Tradable(t.entryTime)
    BY DEF NoGhost, Inside, InWindow
  <2>2. \A i \in DOMAIN sim.trades : sim.trades[i] \in S
    BY <2>1
  <2> QED BY <2>1, <2>2 DEF NoGhost, Inside, Held, FlatOutsideRange
<1> QED BY <1>1, BeginsInside, StepInside, PTL DEF Spec
=============================================================================
