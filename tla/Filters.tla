-------------------------------- MODULE Filters --------------------------------
(***************************************************************************)
(* Conditions laid over a rule (fd-strategy/src/filter.rs, news.rs): the    *)
(* New York hour, the weekday, the volatility, the news calendar.  They    *)
(* refuse entries; only the flat window also ends a position.              *)
(***************************************************************************)
EXTENDS IctSetup

(* The condition that no news is near: installed once, sorted by time, and
   in force from `before` its time until `after` it, its end left out. *)
Concerns(event, currencies) ==
  currencies = {} \/ event.currency = "All" \/ event.currency \in currencies
InBlackout(events, t, before, after, impact, currencies) ==
  \E event \in events :
    /\ event.time > t - after /\ event.time - before <= t
    /\ event.impact >= impact /\ Concerns(event, currencies)

NewsInstalled(installed, events) ==
  IF installed = Nothing THEN [installed |-> events, refused |-> FALSE]
  ELSE [installed |-> installed, refused |-> installed # events]

(* A news filter that names no currency takes those of the market. *)
ForMarket(filter, currencies) ==
  IF filter.kind = "news" /\ filter.currencies = {}
  THEN [filter EXCEPT !.currencies = currencies] ELSE filter

OfKind(filters, kind) == SelectSeq(filters, LAMBDA f : f.kind = kind)

(* The slots a filter reads follow those of the rule: every regime's two
   averages first, then every absolute's one. *)
AtrKeys(periods) == [n \in DOMAIN periods |-> Key(Spec1("atr", periods[n]), "")]
RegimePeriods(filters) ==
  LET regimes == OfKind(filters, "vol")
  IN  [n \in 1..(2 * Len(regimes)) |->
         IF n % 2 = 1 THEN regimes[(n + 1) \div 2].fast ELSE regimes[n \div 2].slow]
AbsolutePeriods(filters) ==
  LET absolutes == OfKind(filters, "volabs")
  IN  [n \in DOMAIN absolutes |-> absolutes[n].period]

FilteredNeeds(inner, filters) ==
  LET regimes == RegimePeriods(filters)  absolutes == AbsolutePeriods(filters)
      slow == {f.slow : f \in ToSet(OfKind(filters, "vol"))}
  IN  [inner EXCEPT
         !.indicators = @ \cup {Spec1("atr", n) : n \in ToSet(regimes) \cup ToSet(absolutes)},
         !.series = @ \o AtrKeys(regimes) \o AtrKeys(absolutes),
         !.warmup = Max({@} \cup {n + Slack : n \in slow \cup ToSet(absolutes)})]

(* What one filter says of an entry; the n-th of its kind reads the n-th slots. *)
Allows(filters, f, c, slots, events) ==
  LET filter == filters[f]
      time == Bar(c).time
      minute == MinuteOf(c, c.i)
      nth == Len(OfKind(SubSeq(filters, 1, f), filter.kind))
      regime == slots + 2 * (nth - 1) + 1
      fast == S(c, regime)  slow == S(c, regime + 1)
      atr == S(c, slots + Len(RegimePeriods(filters)) + nth)
      Between(v, of) == v >= filter.min * of /\ v <= filter.max * of
  IN  CASE filter.kind = "hours" -> InWindow(minute, filter.from, filter.to)
        [] filter.kind = "sessions" ->
             \E w \in ToSet(filter.windows) : InWindow(minute, w[1], w[2])
        [] filter.kind = "weekdays" -> WeekdayOfDays(DayOf(c, c.i)) \in filter.days
        [] filter.kind = "flat" -> TRUE
        [] filter.kind = "vol" ->
             Finite({fast, slow}) /\ slow # 0 /\ Between(10 * fast, slow)
        [] filter.kind = "volabs" ->
             atr # Nothing /\ Bar(c).close # 0 /\ Between(100 * atr, Bar(c).close)
        [] filter.kind = "news" ->
             ~InBlackout(events, time, filter.before, filter.after, filter.impact,
                         filter.currencies)

InFlatWindow(filters, c) ==
  \E f \in ToSet(OfKind(filters, "flat")) : InWindow(MinuteOf(c, c.i), f.from, f.to)

(* An exit the rule asks for always passes. *)
Filtered(filters, c, inner, slots, events) ==
  LET allowed == \A f \in DOMAIN filters : Allows(filters, f, c, slots, events)
  IN  IF InFlatWindow(filters, c) THEN IF Flat(c) THEN Nothing ELSE ToExit
      ELSE IF inner = Nothing \/ inner = ToExit THEN inner
      ELSE IF allowed THEN inner ELSE Nothing

=============================================================================
