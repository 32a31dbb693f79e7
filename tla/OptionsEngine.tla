----------------------------- MODULE OptionsEngine -----------------------------
(***************************************************************************)
(* The engine that turns prints into levels (fd-engine/src/engine.rs,       *)
(* levels.rs) and the timeline of frames a backtest reads it through        *)
(* (fd-backtest/src/timeline.rs, context.rs).  The engine is fed and asked  *)
(* in turn; a whale level stands between two answers, so what it says of   *)
(* the same prints may depend on when it was asked before.                 *)
(***************************************************************************)
EXTENDS OptionsFlow

CONSTANTS
  Settings,   \* the models, thresholds and windows of a market
  FirstPrint, \* the time the tape begins
  PrintForms, \* what a print may be, but for its time
  Waits,      \* minutes from one print to the next
  MaxPrints   \* bound on the tape

VARIABLES
  tape,    \* the prints, oldest first
  engine,  \* the engine that replays them
  fed,     \* the moment it was fed to, None before the first
  contexts,\* the levels of each contract when it was asked last
  answer   \* what it answered then
vars == <<tape, engine, fed, contexts, answer>>

-----------------------------------------------------------------------------
LevelTypes == <<"MAX_PAIN", "POC", "ABOVE_POC", "UNDER_POC", "CALL_BE", "PUT_BE", "WSUP", "WRES",
                "GAMMA_WALL">>
DefaultWeight(type) ==
  CASE type \in {"MAX_PAIN", "POC"} -> 10 [] type \in {"ABOVE_POC", "UNDER_POC"} -> 6
    [] type \in {"CALL_BE", "PUT_BE"} -> 7 [] type \in {"WSUP", "WRES"} -> 9
    [] type = "GAMMA_WALL" -> 8

(* The levels a contract has, each with its weight, heavier near expiry. *)
LevelsFromContext(context, weights) ==
  LET known == SelectSeq(LevelTypes, LAMBDA type : context.levels[type] # None)
      Base(type) == IF type \in DOMAIN weights THEN weights[type] ELSE DefaultWeight(type)
  IN  [n \in DOMAIN known |->
         [price |-> context.levels[known[n]], type |-> known[n], expiration |-> context.expiration,
          weight |-> Base(known[n]) * ExpiryWeight(context.dte)]]

ClusterDistance(floor, fraction, atr) ==
  Max({floor, IF atr = None THEN 0 ELSE (fraction * atr) \div 100})

(* How much a cluster's levels agree: over kinds and over expirations. *)
Scored(members) ==
  LET weight == Sum(members, LAMBDA l : l.weight)
      Distinct(Of(_)) == Cardinality({Of(l) : l \in ToSet(members)})
      types == Distinct(LAMBDA l : l.type)
      expirations == Distinct(LAMBDA l : l.expiration)
      low == members[1].price  high == Last(members).price
  IN  [low |-> low, high |-> high,
       center |-> IF weight > 0 THEN Sum(members, LAMBDA l : l.price * l.weight) \div weight
                  ELSE (low + high) \div 2,
       types |-> types, expirations |-> expirations,
       score |-> (weight * (75 + 25 * types) * (65 + 35 * expirations)) \div 10000]

(* Levels no further apart than the distance, the strongest cluster first. *)
ClusterLevels(levels, distance) ==
  LET sorted == SortSeq(levels, LAMBDA a, b : a.price < b.price)
      Joined(s, l) ==
        IF s # << >> /\ l.price - Last(Last(s)).price <= distance
        THEN [s EXCEPT ![Len(s)] = Append(@, l)] ELSE Append(s, <<l>>)
      groups == FoldLeft(Joined, << >>, sorted)
  IN  SortSeq([n \in DOMAIN groups |-> Scored(groups[n])], LAMBDA a, b : a.score > b.score)

NearestCluster(clusters, price, tolerance) ==
  LET Distance(n) == Positive(clusters[n].low - price) + Positive(price - clusters[n].high)
      near == {n \in DOMAIN clusters : \A m \in DOMAIN clusters : Distance(n) <= Distance(m)}
      n == Min(near)
  IN  IF clusters = << >> THEN None
      ELSE [cluster |-> clusters[n], distance |-> Distance(n), inside |-> Distance(n) <= tolerance]

-----------------------------------------------------------------------------
NewEngine == [all |-> << >>, order |-> << >>, trackers |-> << >>, cursors |-> << >>,
              spot |-> None, lastTime |-> 0]

PrintsOf(e, symbol) == SelectSeq(e.all, LAMBDA t : t.symbol = symbol)

(* The spot is that of the first print of the latest moment. *)
Ingested(e, trade) ==
  [e EXCEPT !.all = Append(@, trade),
            !.order = IF trade.symbol \in ToSet(@) THEN @ ELSE Append(@, trade.symbol),
            !.lastTime = IF trade.time > @ THEN trade.time ELSE @,
            !.spot = IF trade.time > e.lastTime /\ trade.underlying # None THEN trade.underlying
                     ELSE @]
Ingest(e, trades) == FoldLeft(Ingested, e, trades)
SetSpot(e, price) == IF price = None THEN e ELSE [e EXCEPT !.spot = price]

Lookup(f, x, default) == IF x \in DOMAIN f THEN f[x] ELSE default

(* Asked, every tracker is shown the prints of its contract since the last
   time. *)
TrackerOf(e, symbol) ==
  LET trades == PrintsOf(e, symbol)
      cursor == Min({Lookup(e.cursors, symbol, 0), Len(trades)})
  IN  TrackerUpdated(Lookup(e.trackers, symbol, NewTracker),
                     SubSeq(trades, cursor + 1, Len(trades)), Settings.whale,
                     IF e.spot # None THEN e.spot ELSE Last(trades).underlying, Settings.bigTrades)
(* The cursors left where they were. *)
BugAsked(e) == [e EXCEPT !.trackers = [symbol \in ToSet(e.order) |-> TrackerOf(e, symbol)]]

Asked(e) ==
  [e EXCEPT !.trackers = [symbol \in ToSet(e.order) |-> TrackerOf(e, symbol)],
            !.cursors = [symbol \in ToSet(e.order) |-> Len(PrintsOf(e, symbol))]]

LevelsOf(tracker, trades, profile) ==
  LET Even(type) == BreakEven(Settings.breakEven, trades, type, Settings.multiplier)
  IN  [type \in ToSet(LevelTypes) |->
         CASE type = "MAX_PAIN" -> FlowMaxPain(trades, Settings.positioning)
           [] type = "POC" -> profile.poc [] type = "ABOVE_POC" -> profile.above
           [] type = "UNDER_POC" -> profile.under
           [] type = "CALL_BE" -> Even("Call") [] type = "PUT_BE" -> Even("Put")
           [] type = "WSUP" -> tracker.support [] type = "WRES" -> tracker.resistance
           [] type = "GAMMA_WALL" -> None]

ContextFor(e, symbol) ==
  LET trades == PrintsOf(e, symbol)
      profile == BuildProfile(trades, Settings.profileMode, Settings.valueArea)
  IN  [symbol |-> symbol, expiration |-> Last(trades).expiration,
       dte |-> Last(trades).expiration - e.lastTime,
       levels |-> LevelsOf(e.trackers[symbol], trades, profile), flow |-> Summarize(trades)]

(* The contracts, the nearest to expiry first. *)
Contexts(e) ==
  SortSeq([n \in DOMAIN e.order |-> ContextFor(e, e.order[n])], LAMBDA a, b : a.dte < b.dte)

Snapshot(e, known, atr) ==
  LET distance == ClusterDistance(Settings.clusterFloor, Settings.clusterAtr, atr)
      levels == FlattenSeq([n \in DOMAIN known |->
                              LevelsFromContext(known[n], Settings.weights)])
      clusters == ClusterLevels(levels, distance)
      overall == Summarize(e.all)
  IN  [asOf |-> e.lastTime, spot |-> e.spot, contexts |-> known,
       clusters |-> SubSeq(clusters, 1, Min({Settings.maxClusters, Len(clusters)})),
       nearest |-> IF e.spot = None THEN None ELSE NearestCluster(clusters, e.spot, distance),
       overall |-> overall, bias |-> BiasLabel(overall.ratio, Settings.bias),
       windows |-> [w \in DOMAIN Settings.windows |->
                      SummarizeWindow(e.all, e.lastTime, Settings.windows[w])],
       velocity |-> NetFlowVelocity(e.all, e.lastTime, Settings.velocityWindow),
       bigTrades |-> SelectBigTrades(e.all, Settings.bigTrades, Settings.bigTrades.limit)]

-----------------------------------------------------------------------------
Clamp(v) == Max({-100, Min({100, v})})

(* What a strategy may see of a snapshot. *)
FrameFromSnapshot(snapshot) ==
  LET total == Max({snapshot.overall.bull + snapshot.overall.bear, 1})
      recent == SelectSeq(snapshot.bigTrades,
                          LAMBDA t : t.time >= snapshot.asOf - Settings.bigTradeWindow)
      big == Summarize(recent)
      fifteen == IF "15m" \in DOMAIN snapshot.windows THEN snapshot.windows["15m"]
                 ELSE snapshot.overall
  IN  [t |-> snapshot.asOf, spot |-> snapshot.spot, ratio |-> snapshot.overall.ratio,
       ratio15m |-> fifteen.ratio, velocity |-> Clamp((100 * snapshot.velocity) \div total),
       imbalance |-> IF big.bull + big.bear > 0 THEN (100 * big.net) \div (big.bull + big.bear)
                     ELSE 0,
       clusters |-> snapshot.clusters, contexts |-> snapshot.contexts]

(* The frame in force at a moment. *)
ViewAt(timeline, time) ==
  LET past == {n \in DOMAIN timeline : timeline[n].t <= time}
  IN  IF past = {} THEN None ELSE timeline[Max(past)]

-----------------------------------------------------------------------------
Init ==
  /\ tape = << >>
  /\ engine = NewEngine
  /\ fed = None
  /\ contexts = << >>
  /\ answer = None

(* A print is added to the tape, later than what was replayed of it. *)
Traded(form, wait) ==
  LET time == IF tape = << >> THEN FirstPrint ELSE Last(tape).time + wait
  IN  /\ Len(tape) < MaxPrints
      /\ fed # None => time > fed
      /\ tape' = Append(tape, [form EXCEPT !.time = time])
      /\ UNCHANGED <<engine, fed, contexts, answer>>

(* The next point of the grid from the first print, up to the last: feed what
   came by then, ask, keep the frame. *)
Framed ==
  /\ tape # << >>
  /\ fed' = IF fed = None THEN tape[1].time ELSE fed + Settings.step
  /\ fed' <= Last(tape).time
  /\ LET batch == SelectSeq(tape, LAMBDA p : p.time <= fed' /\ (fed = None \/ p.time > fed))
     IN  engine' = Asked(Ingest(engine, batch))
  /\ contexts' = Contexts(engine')
  /\ answer' = Snapshot(engine', contexts', None)
  /\ UNCHANGED tape

Next == Framed \/ \E form \in PrintForms, wait \in Waits : Traded(form, wait)

-----------------------------------------------------------------------------
(* However often the engine was asked, each print it was fed counts once in
   what it says: once in its contract's flow and tracker, once in the flow of
   the market, and in a window exactly when it is inside it (OptionsEngine
   snapshot and whale_cursor, summarize_window). *)
EachPrintCountsOnce ==
  LET In(window) == {k \in DOMAIN engine.all : engine.all[k].time >= engine.lastTime - window}
      Bulls(K) == MapThenSumSet(LAMBDA k : IF IsBull(engine.all[k]) THEN engine.all[k].premium
                                           ELSE 0, K)
  IN  /\ \A symbol \in ToSet(engine.order) : engine.trackers[symbol].seen = PrintsOf(engine, symbol)
      /\ answer # None =>
           /\ Sum(answer.contexts, LAMBDA c : c.flow.bull) = answer.overall.bull
           /\ Sum(answer.contexts, LAMBDA c : c.flow.trades) = Len(engine.all)
           /\ \A w \in DOMAIN answer.windows :
                answer.windows[w].bull = Bulls(In(Settings.windows[w]))
=============================================================================
