----------------------------- MODULE MinuteBars -----------------------------
(***************************************************************************)
(* The minute bars of the tick feed (fd-api/src/m1.rs, and the tick        *)
(* handler of paper.rs): every stream's poller posts the market's quote;   *)
(* the handler stamps it, keeps it as the stream's forming bar, and then,  *)
(* under another lock, folds it into the market's one series.              *)
(*                                                                         *)
(* A quote is [bid, ask]; prices are doubled, so that the mid is a whole   *)
(* number, and the spread is kept as its sum.                              *)
(***************************************************************************)
EXTENDS Integers, Sequences, FiniteSets, SequencesExt

CONSTANTS
  Streams, Quotes, NoQuote,
  MinuteLength,   \* MINUTE_MS
  RingMinutes,    \* RING_MINUTES
  MaxClock, MaxPosts   \* bounds of the instance

VARIABLES
  wall,       \* the clock of the process, which may be set back
  posted,     \* posted[s]: the stamped quote of a handler that has not folded
  liveBars,   \* AppState::live_bars: the quote of a stream's forming bar
  minutes,    \* the Aggregator: [done, forming, last, dropped, duplicates]
  quoted,     \* history: the quotes folded, [at, quote]
  served      \* history: the complete minutes the route has answered

minuteVars == <<wall, posted, liveBars, minutes, quoted, served>>

-----------------------------------------------------------------------------
NotYet == [at |-> -1, quote |-> NoQuote]
MinuteOf(at) == (at \div MinuteLength) * MinuteLength
Mid(quote) == quote.bid + quote.ask
SpreadOf(quote) == quote.ask - quote.bid
Larger(a, b) == IF a > b THEN a ELSE b
Smaller(a, b) == IF a < b THEN a ELSE b

(* Minute::start and Minute::fold. *)
StartMinute(time, quote) ==
  [time |-> time, open |-> Mid(quote), high |-> Mid(quote), low |-> Mid(quote),
   close |-> Mid(quote), ticks |-> 1, spread |-> SpreadOf(quote)]
FoldMinute(bar, quote) ==
  [bar EXCEPT !.high = Larger(@, Mid(quote)), !.low = Smaller(@, Mid(quote)),
              !.close = Mid(quote), !.ticks = @ + 1, !.spread = @ + SpreadOf(quote)]

NoMinutes ==
  [done |-> << >>, forming |-> << >>, last |-> NotYet, dropped |-> 0, duplicates |-> 0]

(* A full ring loses its oldest minute. *)
PushDone(done, bar) ==
  Append(IF Len(done) = RingMinutes THEN Tail(done) ELSE done, bar)

(* Aggregator::fold: what becomes of a quote, then of the series. *)
BugVerdict(agg, at, quote) ==
  IF quote = NoQuote THEN "dropped"
  ELSE IF quote = agg.last.quote THEN "duplicate" ELSE "folded"
Verdict(agg, at, quote) ==
  IF quote = NoQuote \/ (agg.last # NotYet /\ at < agg.last.at) THEN "dropped"
  ELSE IF quote = agg.last.quote THEN "duplicate" ELSE "folded"
Fold(agg, at, quote) ==
  LET time == MinuteOf(at)
      accepted == [agg EXCEPT !.last = [at |-> at, quote |-> quote]]
  IN  IF Verdict(agg, at, quote) = "dropped" THEN [agg EXCEPT !.dropped = @ + 1]
      ELSE IF Verdict(agg, at, quote) = "duplicate" THEN [agg EXCEPT !.duplicates = @ + 1]
      ELSE IF agg.forming # << >> /\ agg.forming[1].time = time
        THEN [accepted EXCEPT !.forming[1] = FoldMinute(@, quote)]
      ELSE [accepted EXCEPT
              !.done = IF agg.forming = << >> THEN @ ELSE PushDone(@, agg.forming[1]),
              !.forming = <<StartMinute(time, quote)>>]

(* Aggregator::bars, and M1Hub::snapshot under the hub's lock. *)
NewestBars(agg, n) ==
  LET kept == Len(agg.done)
  IN  SubSeq(agg.done, (IF kept > n THEN kept - n ELSE 0) + 1, kept)
Snapshot(agg, n) ==
  [bars |-> NewestBars(agg, n), forming |-> agg.forming,
   first |-> IF agg.done # << >> THEN agg.done[1].time
             ELSE IF agg.forming # << >> THEN agg.forming[1].time ELSE -1,
   unavailable |-> agg.last = NotYet]

-----------------------------------------------------------------------------
MinutesInit ==
  /\ wall = 0 /\ minutes = NoMinutes
  /\ posted = [s \in Streams |-> NotYet]
  /\ liveBars = [s \in Streams |-> NotYet]
  /\ quoted = << >> /\ served = {}

ClockTurns(to) ==
  /\ to \in {wall - 1, wall + 1} \cap 0..MaxClock
  /\ wall' = to
  /\ UNCHANGED <<posted, liveBars, minutes, quoted, served>>

(* tick, up to the insert under live_bars. *)
TickArrives(s, quote) ==
  LET live == [at |-> wall, quote |-> quote]
  IN  /\ posted[s] = NotYet /\ Len(quoted) + minutes.dropped + minutes.duplicates < MaxPosts
      /\ posted' = [posted EXCEPT ![s] = live]
      /\ liveBars' = [liveBars EXCEPT ![s] = live]
      /\ UNCHANGED <<wall, minutes, quoted, served>>

(* on_tick, under the hub's lock; the rest of the handler is PaperRun's. *)
OnTick(s) ==
  LET live == posted[s]
  IN  /\ live # NotYet
      /\ minutes' = Fold(minutes, live.at, live.quote)
      /\ quoted' = IF Verdict(minutes, live.at, live.quote) = "folded"
                   THEN Append(quoted, live) ELSE quoted
      /\ posted' = [posted EXCEPT ![s] = NotYet]
      /\ UNCHANGED <<wall, liveBars, served>>

(* GET /api/paper/m1: more minutes than the ring keeps are refused. *)
Ask(n) ==
  /\ n <= RingMinutes
  /\ served' = served \cup Range(Snapshot(minutes, n).bars)
  /\ UNCHANGED <<wall, posted, liveBars, minutes, quoted>>

RestartMinutes ==
  /\ posted' = [s \in Streams |-> NotYet] /\ liveBars' = [s \in Streams |-> NotYet]
  /\ minutes' = NoMinutes
  /\ quoted' = << >> /\ served' = {}
  /\ UNCHANGED wall

MinutesNext ==
  \/ \E to \in 0..MaxClock : ClockTurns(to)
  \/ \E s \in Streams : OnTick(s) \/ \E quote \in Quotes \cup {NoQuote} : TickArrives(s, quote)
  \/ \E n \in 1..RingMinutes : Ask(n)
  \/ RestartMinutes

MinutesSpec == MinutesInit /\ [][MinutesNext]_minuteVars

-----------------------------------------------------------------------------
(* "A bar that grows after it has been served is the one thing a trigger cannot
   be given" (Aggregator::fold): while a complete minute is held it is what was
   served, and no minute is held twice, whichever poller's quote comes late and
   however the clock is set. *)
ServedStays ==
  /\ \A b \in served : \A i \in DOMAIN minutes.done :
       minutes.done[i].time = b.time => minutes.done[i] = b
  /\ \A b \in served : minutes.forming # << >> => minutes.forming[1].time > b.time

(* "A minute is a fact about the market, not about the poller": what is held is
   what grouping the quotes by their minute gives, in order, and no minute is
   missing but the oldest once the ring is full; the stream that posted a quote
   leaves no trace. *)
Grouped(quotes, time) ==
  LET at == {i \in DOMAIN quotes : MinuteOf(quotes[i].at) = time}
      mids == {Mid(quotes[i].quote) : i \in at}
      spread[n \in 0..Len(quotes)] ==
        IF n = 0 THEN 0 ELSE spread[n - 1] + (IF n \in at THEN SpreadOf(quotes[n].quote) ELSE 0)
  IN  [time |-> time,
       open |-> Mid(quotes[CHOOSE i \in at : \A j \in at : i <= j].quote),
       high |-> CHOOSE m \in mids : \A n \in mids : n <= m,
       low |-> CHOOSE m \in mids : \A n \in mids : m <= n,
       close |-> Mid(quotes[CHOOSE i \in at : \A j \in at : j <= i].quote),
       ticks |-> Cardinality(at), spread |-> spread[Len(quotes)]]
QuotedMinutes == {MinuteOf(quoted[i].at) : i \in DOMAIN quoted}
MinutesAreTheQuotes ==
  LET held == minutes.done \o minutes.forming
  IN  /\ Len(minutes.done) <= RingMinutes /\ Len(minutes.forming) <= 1
      /\ \A i \in DOMAIN held : held[i] = Grouped(quoted, held[i].time)
      /\ \A i, j \in DOMAIN held : i < j => held[i].time < held[j].time
      /\ {held[i].time : i \in DOMAIN held} \subseteq QuotedMinutes
      /\ \A time \in QuotedMinutes \ {held[i].time : i \in DOMAIN held} :
           Len(minutes.done) = RingMinutes /\ time < held[1].time
=============================================================================
