----------------------------- MODULE FeatureRows -----------------------------
(***************************************************************************)
(* The rows a model is trained on (fd-features/src/lib.rs, dataset.rs) and  *)
(* its chronological test (fd-model/src/walk_forward.rs, lib.rs): the tape  *)
(* of prints replayed on a grid, a row of features at each moment of it,    *)
(* labelled with the moves that followed.  Prints and candles arrive        *)
(* together and the whole table is built again, as the tool does.  Ratios   *)
(* and distances are in hundredths; a fitted model is what it was shown.    *)
(***************************************************************************)
EXTENDS OptionsEngine

CONSTANTS
  Training,     \* the settings of [ai]
  CandleCloses, \* what a candle may close at
  MaxCandles    \* bound on the candles

VARIABLES
  candles, \* closes of the price, oldest first
  rows     \* the table built over both
rowVars == <<tape, candles, rows>>

-----------------------------------------------------------------------------
(* Closes of fixed-width buckets: ranges are of the closes seen. *)
ResampleCloses(bars, width) ==
  LET Start(bar) == (bar.time \div width) * width
      Joined(s, bar) ==
        IF s # << >> /\ Last(s).time = Start(bar)
        THEN [s EXCEPT ![Len(s)] = [@ EXCEPT !.close = bar.close, !.high = Max({@, bar.close}),
                                             !.low = Min({@, bar.close})]]
        ELSE Append(s, [time |-> Start(bar), high |-> bar.close, low |-> bar.close, close |-> bar.close])
  IN  FoldLeft(Joined, << >>, bars)

Apart(v, w) == Max({v - w, w - v})

AtrFromCloses(bars, period, width) ==
  LET series == ResampleCloses(bars, width)
      from == Max({2, Len(series) - period + 1})
      Range1(i) == Max({series[i].high - series[i].low, Apart(series[i].high, series[i - 1].close),
                        Apart(series[i].low, series[i - 1].close)})
  IN  IF Len(series) < 2 THEN None
      ELSE MapThenSumSet(Range1, from..Len(series)) \div (Len(series) - from + 1)

(* The price at a moment, of nothing after it. *)
PriceContext(bars, now) ==
  LET past == SelectSeq(bars, LAMBDA c : c.time <= now)
      atr == AtrFromCloses(past, Training.atrPeriod, Training.atrBar)
      CloseAt(ago) ==
        LET upto == SelectSeq(past, LAMBDA c : c.time <= now - ago)
        IN  IF past = << >> THEN None ELSE IF upto = << >> THEN past[1].close ELSE Last(upto).close
      today == {past[i].close : i \in {j \in DOMAIN past : past[j].time >= now - DayMinutes}}
  IN  [price |-> IF past = << >> THEN None ELSE Last(past).close,
       atr |-> IF atr = 0 THEN None ELSE atr,
       close15m |-> CloseAt(15), close60m |-> CloseAt(60),
       dayHigh |-> IF today = {} THEN None ELSE Max(today),
       dayLow |-> IF today = {} THEN None ELSE Min(today)]

Within(v, low, high) == Max({low, Min({high, v})})
Magnitude(v) == CHOOSE k \in 0..9 : 10 ^ k <= v /\ v < 10 ^ (k + 1)
DayPosition(spot, low, high) ==
  IF low = None \/ high = None \/ high <= low THEN 50
  ELSE Within((100 * (spot - low)) \div (high - low), 0, 100)

(* The features of a moment, or None where it supports none. *)
Extract(snapshot, price) ==
  LET spot == IF price.price # None THEN price.price ELSE snapshot.spot
      atr == price.atr
      near == snapshot.nearest
      front == snapshot.contexts[1]
      InAtr(v) == (100 * v) \div atr
      Norm(type) == IF front.levels[type] = None THEN 0
                    ELSE Within(InAtr(front.levels[type] - spot), -1000, 1000)
      Return(close) == IF close = None THEN 0 ELSE Within(InAtr(spot - close), -1000, 1000)
      Of(w) == IF w \in DOMAIN snapshot.windows THEN snapshot.windows[w] ELSE snapshot.overall
      total == Max({snapshot.overall.bull + snapshot.overall.bear, 1})
      big == Summarize(SelectSeq(snapshot.bigTrades,
                                 LAMBDA t : t.time >= snapshot.asOf - Settings.bigTradeWindow))
      cluster == IF near = None
                 THEN [inside |-> 0, distance |-> 1000, score |-> 0, types |-> 0, expirations |-> 0, support |-> 0]
                 ELSE [inside |-> IF near.inside THEN 1 ELSE 0, distance |-> Min({1000, InAtr(near.distance)}),
                       score |-> Min({20, near.cluster.score}), types |-> near.cluster.types,
                       expirations |-> near.cluster.expirations,
                       support |-> IF near.cluster.center <= spot THEN 1 ELSE -1]
      flow == [all |-> snapshot.overall.ratio, m15 |-> Of("15m").ratio, m60 |-> Of("60m").ratio,
               velocity |-> Within((100 * snapshot.velocity) \div total, -100, 100),
               imbalance |-> IF big.bull + big.bear > 0 THEN (100 * big.net) \div (big.bull + big.bear) ELSE 0,
               rate |-> Magnitude(Max({Of("15m").bull + Of("15m").bear, 1}))]
      levels == [type \in {"MAX_PAIN", "POC", "WSUP", "WRES", "CALL_BE", "PUT_BE"} |-> Norm(type)]
      expiry == [dte |-> Min({60 * DayMinutes, front.dte}), weight |-> ExpiryWeight(front.dte)]
      moves == [atr |-> (10000 * atr) \div spot, back15m |-> Return(price.close15m),
                back60m |-> Return(price.close60m), day |-> DayPosition(spot, price.dayLow, price.dayHigh)]
  IN  IF spot = None \/ atr = None \/ snapshot.contexts = << >> THEN None
      ELSE [cluster |-> cluster, flow |-> flow, levels |-> levels, expiry |-> expiry, moves |-> moves]

-----------------------------------------------------------------------------
(* One moment of the grid: the prints since the last are fed, and where there
   is a price the engine is asked. *)
Noted(walk, t, asked, price, x) ==
  [engine |-> asked, at |-> t,
   found |-> IF x = None THEN walk.found
             ELSE Append(walk.found, [t |-> t, x |-> x, spot |-> price.price, atr |-> price.atr])]

Priced(walk, t, asked, price) ==
  Noted(walk, t, asked, price, Extract(Snapshot(asked, Contexts(asked), None), price))

Visited(walk, t, shown, price) ==
  IF price.price = None \/ price.atr = None THEN [walk EXCEPT !.engine = shown, !.at = t]
  ELSE Priced(walk, t, Asked(shown), price)

Since(walk, prints, t) ==
  SelectSeq(prints, LAMBDA p : p.time <= t /\ (walk.at = None \/ p.time > walk.at))

Moments(start, until) ==
  [n \in 1..((until - start) \div Training.step + 1) |-> start + (n - 1) * Training.step]

Replayed(prints, bars, until) ==
  IF prints = << >> \/ bars = << >> \/ until < prints[1].time + Training.warmup THEN << >>
  ELSE FoldLeft(LAMBDA walk, t : Visited(walk, t, Ingest(walk.engine, Since(walk, prints, t)),
                                         PriceContext(bars, t)),
                [engine |-> NewEngine, at |-> None, found |-> << >>],
                Moments(prints[1].time + Training.warmup, until)).found

CloseAtOrAfter(bars, time) == SelectSeq(bars, LAMBDA c : c.time >= time)[1].close

(* A row needs every horizon of it to be on the tape. *)
Build(prints, bars) ==
  LET Resolved(row) == \A h \in DOMAIN Training.horizons : row.t + Training.horizons[h] <= Last(bars).time
      Labelled(row) ==
        row @@ [fwd |-> [h \in DOMAIN Training.horizons |->
                  (100 * (CloseAtOrAfter(bars, row.t + Training.horizons[h]) - row.spot)) \div row.atr]]
      Table(found) == [n \in DOMAIN found |-> Labelled(found[n])]
  IN  IF prints = << >> THEN << >>
      ELSE Table(SelectSeq(Replayed(prints, bars, Last(prints).time), Resolved))

-----------------------------------------------------------------------------
LabelOf(row, horizon) ==
  IF row.fwd[horizon] >= Training.band THEN "up"
  ELSE IF row.fwd[horizon] <= -Training.band THEN "down" ELSE None
TrainingSet(table, horizon) == SelectSeq(table, LAMBDA row : LabelOf(row, horizon) # None)

(* Means, deviations and weights are all of the rows it is fitted on. *)
Fitted(sample, horizon) == [rows |-> sample, labels |-> [n \in DOMAIN sample |-> LabelOf(sample[n], horizon)]]

(* Every fold trains from the beginning; one with too few rows to test is left
   out, as is one with none to train on. *)
Tested(sample, horizon) ==
  LET size == Len(sample) \div (Training.folds + 1)
      Fold(f) == [model |-> Fitted(SubSeq(sample, 1, size * f), horizon),
                  tested |-> SubSeq(sample, size * f + 1, Min({size * (f + 1), Len(sample)}))]
  IN  IF Len(sample) < Training.minTrain THEN << >>
      ELSE SelectSeq([f \in 1..Training.folds |-> Fold(f)],
                     LAMBDA fold : Len(fold.tested) >= Training.minTest /\ fold.model.rows # << >>)

-----------------------------------------------------------------------------
RowsInit == Init /\ candles = << >> /\ rows = << >>

(* A minute closes, with a print in it or none. *)
MinutePasses(close, form) ==
  LET now == FirstPrint + Training.step * Len(candles)
  IN  /\ Len(candles) < MaxCandles
      /\ form # None => Len(tape) < MaxPrints
      /\ candles' = Append(candles, [time |-> now, close |-> close])
      /\ tape' = IF form = None THEN tape ELSE Append(tape, [form EXCEPT !.time = now])
      /\ rows' = Build(tape', candles')
      /\ UNCHANGED <<engine, fed, contexts, answer>>

RowsNext == \E close \in CandleCloses, form \in PrintForms \cup {None} : MinutePasses(close, form)

-----------------------------------------------------------------------------
(* A row, once it is in the table, stays as it is however long the tape
   becomes: a tape that ended there would have given the same row. *)
RowsStand == [][\A n \in DOMAIN rows : n \in DOMAIN rows' /\ rows'[n] = rows[n]]_rowVars

(* The features of a row are those of the tape as it was at its moment, though
   its labels read on; and no model is tested on what it saw, nor on anything
   before it (dataset.rs, walk_forward.rs). *)
FeaturesAreOfTheirMoment ==
  LET Upto(s, t) == SelectSeq(s, LAMBDA v : v.time <= t)
  IN  /\ \A n \in DOMAIN rows :
           LET t == rows[n].t
               Alike(then) == then.t = t /\ then.x = rows[n].x
           IN  Alike(Last(Replayed(Upto(tape, t), Upto(candles, t), t)))
      /\ \A horizon \in DOMAIN Training.horizons :
           LET folds == Tested(TrainingSet(rows, horizon), horizon)
           IN  \A f \in DOMAIN folds : \A m \in DOMAIN folds[f].model.rows, n \in DOMAIN folds[f].tested :
                 folds[f].model.rows[m].t < folds[f].tested[n].t
=============================================================================
