-------------------------- MODULE PaperBook_proofs --------------------------
(***************************************************************************)
(* The paper book's safety for every value of the constants.  The          *)
(* properties are restated over a book b, because one handler passes the   *)
(* book through several operations: a fill, the management of the bar, a   *)
(* decision.  Each operation keeps them; so does each handler.             *)
(***************************************************************************)
EXTENDS PaperBook, BookOps_proofs, FiniteSetTheorems

(* What a book owes its run: one commitment at a time, a lived range only for
   its own position, and, when nothing was stored to start from, nothing at
   all before the first bar. *)
Owned(b) ==
  /\ b.order # None => b.pending = None /\ b.position = None
  /\ b.since # None => b.position # None /\ b.position.entryTime = b.since.barTime
  /\ b.lastBar = None /\ Warmup = None => b.position = None /\ b.pending = None /\ b.order = None
  /\ External /\ b.pending # None => b.pending.kind = "Enter"
  /\ ~External => b.order = None /\ b.since = None

OffWeekend(b) ==
  Guarded /\ Warmup = None /\ b.position # None =>
    /\ b.position.entryTime \notin WeekendBars
    /\ b.lastBar # None /\ b.lastBar.time \in WeekendBars
         => b.position.entryTime > b.lastBar.time

(* The last entry is remembered as the newest of all entries, which is what
   makes one number enough for the cooldown. *)
Spaced(b) ==
  /\ \A i \in DOMAIN b.trades :
       b.lastEntry # None /\ b.trades[i].entryTime <= b.lastEntry
  /\ b.position # None =>
       /\ b.lastEntry # None /\ b.position.entryTime <= b.lastEntry
       /\ Guarded => \A i \in DOMAIN b.trades :
            b.position.entryTime - b.trades[i].entryTime >= Cooldown

Sound(b) == b \in Books /\ Owned(b) /\ OffWeekend(b) /\ Spaced(b)

-----------------------------------------------------------------------------
(* An exit keeps a book sound: the new trade's entry was the newest. *)
LEMMA ExitedSound ==
  ASSUME NEW b \in Books, NEW c \in Books, NEW price \in Int, NEW time \in Int,
         NEW kind \in ExitKinds, b.position # None,
         Spaced(b), Exited(b, c, price, time, kind)
  PROVE  Spaced(c)
<1> DEFINE t == Closed(b.position, price, time, kind)
<1>1. b.position \in Positions /\ b.trades \in Seq(Trades) /\ b.lastEntry \in Level
  BY DEF Books
<1>2. t.entryTime = b.position.entryTime /\ t \in Trades
  BY DEF Closed, Exited
<1>3. c.trades = Append(b.trades, t) /\ c.lastEntry = b.lastEntry /\ c.position = None
  BY DEF Exited, Books
<1> HIDE DEF t
<1>4. \A i \in DOMAIN c.trades : c.trades[i] = t \/ (i \in DOMAIN b.trades /\ c.trades[i] = b.trades[i])
  <2>1. /\ Len(c.trades) = Len(b.trades) + 1
        /\ \A i \in 1..Len(b.trades) : c.trades[i] = b.trades[i]
        /\ c.trades[Len(b.trades) + 1] = t
    BY <1>1, <1>2, <1>3, AppendProperties
  <2>2. DOMAIN c.trades = 1..Len(c.trades) /\ DOMAIN b.trades = 1..Len(b.trades)
        /\ Len(b.trades) \in Nat
    BY <1>1 DEF Books
  <2>3. \A i \in 1..(Len(b.trades) + 1) : i = Len(b.trades) + 1 \/ i \in 1..Len(b.trades)
    BY <2>2
  <2> SUFFICES ASSUME NEW i \in DOMAIN c.trades
               PROVE  c.trades[i] = t \/ (i \in DOMAIN b.trades /\ c.trades[i] = b.trades[i])
    OBVIOUS
  <2>4. i \in 1..(Len(b.trades) + 1)
    BY <2>1, <2>2
  <2>5. CASE i = Len(b.trades) + 1
    BY <2>1, <2>5
  <2>6. CASE i \in 1..Len(b.trades)
    BY <2>1, <2>2, <2>6
  <2> QED BY <2>3, <2>4, <2>5, <2>6
<1> QED BY <1>2, <1>3, <1>4 DEF Spaced

(* fill_pending keeps a book sound when it fills after the last bar. *)
LEMMA FillSound ==
  ASSUME NEW b, Sound(b), NEW time \in Int, NEW price \in Price,
         NEW warm \in BOOLEAN, NEW cut \in Cuts,
         b.lastBar # None => b.lastBar.time < time
  PROVE  LET c == FillPending(b, time, price, warm, cut).book
         IN  /\ Sound(c)
             /\ c.lastBar = b.lastBar /\ c.order = b.order /\ c.since = b.since
             /\ b.pending = None => c.position = b.position
             /\ b.position # None => c.position = None \/ c.position = b.position
<1> DEFINE c == FillPending(b, time, price, warm, cut).book
<1> SUFFICES /\ Sound(c)
             /\ c.lastBar = b.lastBar /\ c.order = b.order /\ c.since = b.since
             /\ b.pending = None => c.position = b.position
             /\ b.position # None => c.position = None \/ c.position = b.position
  OBVIOUS
<1>1. b \in Books /\ Owned(b) /\ OffWeekend(b) /\ Spaced(b)
  BY DEF Sound
<1>2. c \in Books
  BY <1>1, FillPendingCases
<1>3. Consumed(b, c) \/ OpenedFrom(b, c, time) \/ ClosedFrom(b, c, time)
  BY <1>1, FillPendingCases
<1> HIDE DEF c
<1>4. CASE Consumed(b, c)
  <2>1. /\ c.position = b.position /\ c.order = b.order /\ c.since = b.since /\ c.pending = None
        /\ c.lastBar = b.lastBar /\ c.trades = b.trades /\ c.lastEntry = b.lastEntry
    BY <1>1, <1>4 DEF Consumed, Books
  <2>2. Owned(c) /\ OffWeekend(c) /\ Spaced(c)
    BY <1>1, <2>1 DEF Owned, OffWeekend, Spaced
  <2> QED BY <1>2, <2>1, <2>2 DEF Sound
<1>5. CASE OpenedFrom(b, c, time)
  <2>1. PICK p \in Positions, lastEntry \in Int, closed \in Seq(Realised) :
          /\ p.entryTime = time
          /\ c = [b EXCEPT !.pending = None, !.closed = closed, !.position = p,
                           !.lastEntry = lastEntry]
          /\ lastEntry >= time
          /\ b.lastEntry # None => lastEntry >= b.lastEntry
    BY <1>5 DEF OpenedFrom
  <2>2. /\ c.position = p /\ c.order = b.order /\ c.since = b.since /\ c.pending = None
        /\ c.lastBar = b.lastBar /\ c.trades = b.trades /\ c.lastEntry = lastEntry
    BY <1>1, <2>1 DEF Books
  <2>3. b.position = None /\ b.pending # None /\ p # None
    BY <1>5, NoneAssumption DEF OpenedFrom, NoneAssumption
  <2>4. Owned(c)
    BY <1>1, <2>2, <2>3 DEF Owned
  <2>5. OffWeekend(c)
    BY <1>1, <1>5, <2>1, <2>2, <2>3 DEF Owned, OffWeekend, OpenedFrom
  <2>6. Spaced(c)
    <3>1. b.trades \in Seq(Trades) /\ b.lastEntry \in Level /\ lastEntry # None
      BY <1>1, EngineAssumption DEF Books, EngineAssumption
    <3>2. \A i \in DOMAIN b.trades : b.trades[i].entryTime \in Int
      <4>1. \A i \in DOMAIN b.trades : b.trades[i] \in Trades
        BY <3>1
      <4> QED BY <4>1 DEF Trades
    <3>3. b.lastEntry # None => b.lastEntry \in Int
      BY <3>1 DEF Level
    <3>4. \A i \in DOMAIN b.trades : b.lastEntry # None /\ b.trades[i].entryTime <= b.lastEntry
      BY <1>1 DEF Spaced
    <3>5. \A i \in DOMAIN b.trades : b.trades[i].entryTime <= lastEntry
      BY <2>1, <3>2, <3>3, <3>4
    <3>6. Guarded => \A i \in DOMAIN b.trades : time - b.trades[i].entryTime >= Cooldown
      <4>1. Guarded /\ b.lastEntry # None => time - b.lastEntry >= Cooldown
        BY <1>5 DEF OpenedFrom
      <4>2. Cooldown \in Int
        BY EngineAssumption DEF EngineAssumption
      <4> QED BY <3>2, <3>3, <3>4, <4>1, <4>2
    <3> QED BY <2>1, <2>2, <3>1, <3>5, <3>6 DEF Spaced
  <2> QED BY <1>2, <2>2, <2>3, <2>4, <2>5, <2>6 DEF Sound
<1>6. CASE ClosedFrom(b, c, time)
  <2> DEFINE d == [b EXCEPT !.pending = None]
  <2>1. PICK price2 \in Int : Exited(d, c, price2, time, "SIGNAL")
    BY <1>6 DEF ClosedFrom
  <2>2. /\ d \in Books /\ d.position = b.position /\ d.trades = b.trades
        /\ d.lastEntry = b.lastEntry
    BY <1>1 DEF Books
  <2>3. b.position # None /\ b.pending # None /\ b.pending.kind = "Exit"
    BY <1>6 DEF ClosedFrom
  <2>4. Spaced(d)
    BY <1>1, <2>2 DEF Spaced
  <2>5. "SIGNAL" \in ExitKinds
    BY DEF ExitKinds
  <2>6. /\ c.position = None /\ c.order = b.order /\ c.since = b.since /\ c.pending = None
        /\ c.lastBar = b.lastBar
    BY <1>1, <2>1 DEF Exited, Books
  <2> HIDE DEF d
  <2>7. Spaced(c)
    BY <1>2, <2>1, <2>2, <2>3, <2>4, <2>5, ExitedSound
  <2>8. Owned(c)
    BY <1>1, <2>3, <2>6 DEF Owned
  <2>9. OffWeekend(c)
    BY <2>6 DEF OffWeekend
  <2> QED BY <1>2, <2>3, <2>6, <2>7, <2>8, <2>9 DEF Sound
<1> QED BY <1>3, <1>4, <1>5, <1>6

(* A bar that is still before a position's fill bar was not its bar. *)
LEMMA SeenSound ==
  ASSUME NEW b, Sound(b), NEW bar \in Bars,
         b.lastBar # None => b.lastBar.time < bar.time
  PROVE  LET s == Seen(b, bar)
         IN  /\ s \in Books /\ Spaced(s)
             /\ s.position = b.position /\ s.order = b.order /\ s.pending = b.pending
             /\ s.lastBar = bar /\ s.since = (IF TooLate(b, bar) THEN b.since ELSE None)
<1> DEFINE s == Seen(b, bar)
<1>1. b \in Books /\ Spaced(b)
  BY DEF Sound
<1>2. /\ s \in Books /\ s.position = b.position /\ s.order = b.order /\ s.pending = b.pending
      /\ s.trades = b.trades /\ s.lastEntry = b.lastEntry /\ s.lastBar = bar
      /\ s.since = (IF TooLate(b, bar) THEN b.since ELSE None)
  BY <1>1 DEF Seen, Books
<1> HIDE DEF s
<1>3. Spaced(s)
  BY <1>1, <1>2 DEF Spaced
<1> QED BY <1>2, <1>3 DEF s

(* Managing a position on a bar keeps a book sound. *)
LEMMA ManagedSound ==
  ASSUME NEW b, Sound(b), NEW bar \in Bars, NEW c \in Books, Managed(b, c, bar),
         b.lastBar # None => b.lastBar.time < bar.time
  PROVE  /\ Sound(c) /\ c.lastBar = bar /\ c.order = b.order /\ c.pending = b.pending
         /\ b.position = None => c.position = None
         /\ b.position # None => c.position = None \/ Tightened(b.position, c.position)
<1> DEFINE s == Seen(b, bar)
<1>1. b \in Books /\ Owned(b) /\ OffWeekend(b) /\ Spaced(b)
  BY DEF Sound
<1>2. /\ s \in Books /\ Spaced(s)
      /\ s.position = b.position /\ s.order = b.order /\ s.pending = b.pending
      /\ s.lastBar = bar /\ s.since = (IF TooLate(b, bar) THEN b.since ELSE None)
  BY SeenSound
<1>3. bar # None /\ bar.time \in Int
  BY NoOrderAssumption DEF NoOrderAssumption, Bars
<1> HIDE DEF s
<1>4. CASE Untouched(b, c, bar)
  <2>1. c = s /\ (b.position = None \/ TooLate(b, bar))
    BY <1>4 DEF Untouched, s
  <2>2. Owned(c)
    BY <1>1, <1>2, <1>3, <2>1 DEF Owned
  <2>3. OffWeekend(c)
    BY <1>1, <1>2, <2>1 DEF OffWeekend, Owned, TooLate
  <2>4. b.position # None => Tightened(b.position, b.position)
    BY <1>1 DEF Tightened, Positions, Gain, Level, Books
  <2> QED BY <1>2, <2>1, <2>2, <2>3, <2>4 DEF Sound
<1>5. CASE HeldOver(b, c, bar)
  <2>1. PICK q : Tightened(b.position, q) /\ c = [s EXCEPT !.position = q]
    BY <1>5 DEF HeldOver, s
  <2>2. /\ c.position = q /\ c.order = b.order /\ c.pending = b.pending /\ c.lastBar = bar
        /\ c.since = None /\ c.trades = s.trades /\ c.lastEntry = s.lastEntry
    BY <1>2, <1>5, <2>1 DEF Books, HeldOver
  <2>3. b.position # None /\ (Guarded => bar.time \notin WeekendBars \cup NewsBars)
    BY <1>5 DEF HeldOver
  <2>4. q \in Positions /\ q # None /\ q.entryTime = b.position.entryTime
    BY <1>1, <2>1, <2>3, NoneAssumption DEF Tightened, NoneAssumption, Books, Positions
  <2>5. Owned(c)
    BY <1>1, <1>3, <2>2, <2>3, <2>4 DEF Owned
  <2>6. OffWeekend(c)
    BY <1>1, <2>2, <2>3, <2>4 DEF OffWeekend
  <2>7. Spaced(c)
    BY <1>2, <2>2, <2>3, <2>4 DEF Spaced
  <2> QED BY <2>1, <2>2, <2>3, <2>5, <2>6, <2>7 DEF Sound
<1>6. CASE LeftOn(b, c, bar)
  <2>1. PICK price \in Int, kind \in ExitKinds : Exited(s, c, price, bar.time, kind)
    BY <1>6 DEF LeftOn, s
  <2>2. b.position # None /\ ~TooLate(b, bar)
    BY <1>6 DEF LeftOn
  <2>3. /\ c.position = None /\ c.order = b.order /\ c.pending = b.pending /\ c.lastBar = bar
        /\ c.since = None
    BY <1>2, <2>1, <2>2 DEF Exited, Books
  <2>4. Spaced(c)
    BY <1>2, <1>3, <2>1, <2>2, ExitedSound
  <2>5. Owned(c)
    BY <1>1, <1>3, <2>2, <2>3 DEF Owned
  <2>6. OffWeekend(c)
    BY <2>3 DEF OffWeekend
  <2> QED BY <2>2, <2>3, <2>4, <2>5, <2>6 DEF Sound
<1> QED BY <1>4, <1>5, <1>6 DEF Managed

-----------------------------------------------------------------------------
(* The inductive invariant, and what any step may do to a held position. *)
Ind == Sound(book) /\ running \in BOOLEAN /\ feed \in Level
Continues(b, c) ==
  b.position # None => c.position = None \/ Tightened(b.position, c.position)

LEMMA SamePositionContinues ==
  ASSUME NEW b \in Books, NEW c, c.position = None \/ c.position = b.position
  PROVE  Continues(b, c)
BY DEF Continues, Tightened, Positions, Gain, Level, Books

LEMMA BarAtType ==
  ASSUME NEW t \in Times, NEW s \in BarShapes
  PROVE  /\ BarAt(t, s) \in Bars /\ BarAt(t, s).time = t /\ BarAt(t, s).open = s.open
         /\ t \in Int /\ s.open \in Price /\ s.close \in Price
BY PaperBookAssumption DEF PaperBookAssumption, BarAt, Bars

LEMMA PostedType ==
  ASSUME NEW t \in Times, Posted(t), feed \in Level
  PROVE  feed' \in Level
BY PaperBookAssumption DEF PaperBookAssumption, Posted, Larger, Level

LEMMA FillOpenSound ==
  ASSUME NEW b, Sound(b), NEW time \in Int, NEW price \in Price,
         NEW warm \in BOOLEAN, NEW cut \in Cuts
  PROVE  LET c == FillOpen(b, time, price, warm, cut).book
         IN  Sound(c) /\ Continues(b, c)
<1> DEFINE c == FillOpen(b, time, price, warm, cut).book
           f == FillPending(b, time, price, warm, cut)
<1>1. b \in Books
  BY DEF Sound
<1>2. CASE b.lastBar = None \/ time <= b.lastBar.time
  <2>1. c = b
    BY <1>2 DEF FillOpen, Quiet
  <2> QED BY <1>1, <2>1, SamePositionContinues
<1>3. CASE b.lastBar # None /\ ~(time <= b.lastBar.time)
  <2>1. b.lastBar.time \in Int
    BY <1>1, <1>3 DEF Books, Bars
  <2>2. c = f.book
    BY <1>3 DEF FillOpen
  <2> HIDE DEF c, f
  <2>3. Sound(c) /\ (b.position # None => c.position = None \/ c.position = b.position)
    BY <1>3, <2>1, <2>2, FillSound DEF f
  <2> QED BY <1>1, <2>3, SamePositionContinues DEF Continues, c
<1> QED BY <1>2, <1>3

LEMMA BarClosesSound ==
  ASSUME Ind, NEW t \in Times, NEW s \in BarShapes, NEW warm \in BOOLEAN, NEW cut \in Cuts,
         NEW decision \in Decisions(t), BarCloses(t, s, warm, cut, decision)
  PROVE  Ind' /\ Continues(book, book')
<1> DEFINE bar == BarAt(t, s)
           f == FillPending(book, bar.time, bar.open, warm, cut).book
           a == Advance(book, bar, warm, cut).book
           d == Decide(a, decision)
<1>1. bar \in Bars /\ bar.time \in Int /\ bar.open \in Price /\ bar.time = t
  BY BarAtType
<1>2. Sound(book) /\ book \in Books /\ feed \in Level
  BY DEF Ind, Sound
<1>3. book.lastBar # None => book.lastBar.time < bar.time
  <2>1. book.lastBar # None => book.lastBar.time \in Int
    BY <1>2 DEF Books, Bars
  <2> QED BY <1>1, <2>1, EngineAssumption DEF BarCloses, Newer, HasBar, Newest, EngineAssumption
<1>4. book' = OrderSawBarClose(d) /\ Posted(t) /\ running' = running
  BY DEF BarCloses, Step
<1>5. a \in Books /\ Managed(f, a, bar)
  BY <1>1, <1>2, AdvanceCases
<1> HIDE DEF bar
<1>6. /\ Sound(f) /\ f.lastBar = book.lastBar /\ f.order = book.order
      /\ book.position # None => f.position = None \/ f.position = book.position
  BY <1>1, <1>2, <1>3, FillSound
<1> HIDE DEF f, a
<1>7. /\ Sound(a) /\ a.lastBar = bar /\ a.order = f.order /\ a.pending = f.pending
      /\ f.position = None => a.position = None
      /\ f.position # None => a.position = None \/ Tightened(f.position, a.position)
  BY <1>1, <1>3, <1>5, <1>6, ManagedSound
<1>8. Sound(d) /\ d.position = a.position
  <2>1. decision \in Intents \cup {None}
    BY <1>1, PaperBookAssumption
       DEF PaperBookAssumption, Decisions, Intents, Enter, Exit, EnterAt, ExitAt
  <2>2. a \in Books /\ Owned(a) /\ OffWeekend(a) /\ Spaced(a)
    BY <1>7 DEF Sound
  <2>3. /\ d \in Books /\ d.pending = decision /\ d.position = a.position /\ d.order = a.order
        /\ d.since = a.since /\ d.lastBar = bar /\ d.trades = a.trades
        /\ d.lastEntry = a.lastEntry
    BY <1>7, <2>1, <2>2 DEF Decide, Books
  <2>4. External => decision = None
    BY DEF Decisions
  <2>5. bar # None
    BY <1>1, NoOrderAssumption DEF NoOrderAssumption
  <2>6. Owned(d)
    BY <1>7, <2>2, <2>3, <2>4, <2>5 DEF Owned
  <2>7. OffWeekend(d) /\ Spaced(d)
    BY <1>7, <2>2, <2>3 DEF OffWeekend, Spaced
  <2> QED BY <2>3, <2>6, <2>7 DEF Sound
<1> HIDE DEF d
<1>9. Sound(OrderSawBarClose(d)) /\ OrderSawBarClose(d).position = d.position
  <2> DEFINE o == OrderSawBarClose(d)
  <2>1. d \in Books /\ Owned(d) /\ OffWeekend(d) /\ Spaced(d)
    BY <1>8 DEF Sound
  <2>2. /\ o \in Books /\ (o.order # None => d.order # None) /\ o.position = d.position
        /\ o.pending = d.pending /\ o.since = d.since /\ o.lastBar = d.lastBar
        /\ o.trades = d.trades /\ o.lastEntry = d.lastEntry
    <3> DEFINE w == [d.order EXCEPT !.waited = d.order.waited + 1]
    <3>1. d.order # None => w \in Orders
      <4>1. d.order # None => d.order \in Orders /\ d.order.waited + 1 \in Nat
        BY <2>1 DEF Books, Orders
      <4> QED BY <4>1 DEF Orders
    <3>2. o = d \/ o = [d EXCEPT !.order = None] \/ (d.order # None /\ o = [d EXCEPT !.order = w])
      BY <2>1 DEF OrderSawBarClose, CancelOrder, Books
    <3> HIDE DEF w, o
    <3> QED BY <2>1, <3>1, <3>2 DEF Books
  <2> HIDE DEF o
  <2>3. Owned(o) /\ OffWeekend(o) /\ Spaced(o)
    BY <2>1, <2>2 DEF Owned, OffWeekend, Spaced
  <2> QED BY <2>2, <2>3 DEF Sound, o
<1>10. Continues(book, book')
  BY <1>4, <1>6, <1>7, <1>8, <1>9 DEF Continues
<1>11. feed' \in Level
  BY <1>2, <1>4, PostedType
<1> QED BY <1>4, <1>9, <1>10, <1>11 DEF Ind

LEMMA BarOpensSound ==
  ASSUME Ind, NEW t \in Times, NEW s \in BarShapes, NEW warm \in BOOLEAN, NEW cut \in Cuts,
         BarOpens(t, s.open, warm, cut)
  PROVE  Ind' /\ Continues(book, book')
<1>1. t \in Int /\ s.open \in Price
  BY BarAtType
<1>2. Sound(book) /\ feed \in Level /\ running' = running /\ Posted(t)
      /\ book' = FillOpen(book, t, s.open, warm, cut).book
  BY DEF Ind, BarOpens
<1>3. feed' \in Level
  BY <1>2, PostedType
<1>4. Sound(book') /\ Continues(book, book')
  BY <1>1, <1>2, FillOpenSound
<1> QED BY <1>2, <1>3, <1>4 DEF Ind

(* A book that lost its order, and one whose lived range grew. *)
LEMMA CancelOrderSound ==
  ASSUME NEW b, Sound(b)
  PROVE  Sound(CancelOrder(b)) /\ CancelOrder(b).position = b.position
<1> DEFINE c == CancelOrder(b)
<1>1. b \in Books /\ Owned(b) /\ OffWeekend(b) /\ Spaced(b)
  BY DEF Sound
<1>2. /\ c \in Books /\ c.order = None /\ c.position = b.position /\ c.pending = b.pending
      /\ c.since = b.since /\ c.lastBar = b.lastBar /\ c.trades = b.trades
      /\ c.lastEntry = b.lastEntry
  BY <1>1 DEF CancelOrder, Books
<1> HIDE DEF c
<1>3. Owned(c) /\ OffWeekend(c) /\ Spaced(c)
  BY <1>1, <1>2 DEF Owned, OffWeekend, Spaced
<1> QED BY <1>2, <1>3 DEF Sound, c

LEMMA ObserveTickSound ==
  ASSUME NEW b, Sound(b), NEW time \in Int, NEW last \in Price
  PROVE  LET c == ObserveTick(b, time, last)
         IN  /\ Sound(c) /\ c.position = b.position /\ c.order = b.order
             /\ c.lastBar = b.lastBar
<1> DEFINE c == ObserveTick(b, time, last)
<1>1. b \in Books /\ Owned(b) /\ OffWeekend(b) /\ Spaced(b)
  BY DEF Sound
<1>2. /\ c \in Books /\ c.order = b.order /\ c.position = b.position /\ c.pending = b.pending
      /\ c.lastBar = b.lastBar /\ c.trades = b.trades /\ c.lastEntry = b.lastEntry
      /\ c.since = None <=> b.since = None
      /\ c.since # None => c.since.barTime = b.since.barTime
  <2> DEFINE r == [b.since EXCEPT !.high = Larger(b.since.high, last), !.low = Smaller(b.since.low, last)]
  <2>1. b.since # None => r \in Ranges /\ r.barTime = b.since.barTime
    <3>1. b.since # None => b.since \in Ranges
      BY <1>1 DEF Books
    <3> QED BY <3>1 DEF Ranges, Larger, Smaller, Price
  <2>2. c = b \/ (b.since # None /\ c = [b EXCEPT !.since = r])
    BY <1>1 DEF ObserveTick, Books
  <2> HIDE DEF r, c
  <2> QED BY <1>1, <2>1, <2>2, NoOrderAssumption DEF Books, NoOrderAssumption
<1> HIDE DEF c
<1>3. Owned(c) /\ OffWeekend(c) /\ Spaced(c)
  BY <1>1, <1>2 DEF Owned, OffWeekend, Spaced
<1> QED BY <1>2, <1>3 DEF Sound, c

(* fill_order: the order becomes an intent and is filled at once; a range is
   seeded only for the position that opened. *)
LEMMA FillOrderSound ==
  ASSUME NEW b, Sound(b), b.order # None, b.position = None,
         b.lastBar = None => Warmup # None,
         NEW time \in Int, b.lastBar # None => b.lastBar.time < time, NEW price \in Price, NEW last \in Price,
         NEW warm \in BOOLEAN, NEW cut \in Cuts
  PROVE  Sound(FillOrder(b, time, price, last, warm, cut).book)
<1> DEFINE o == b.order
           intent == [kind |-> "Enter", side |-> o.side, stop |-> o.stop,
                      target |-> o.target, decided |-> o.decided]
           e == [b EXCEPT !.order = None, !.pending = intent]
           r == FillPending(e, time, price, warm, cut)
           range == [barTime |-> time, open |-> last, high |-> last, low |-> last]
           c == FillOrder(b, time, price, last, warm, cut).book
<1>1. b \in Books /\ Owned(b) /\ OffWeekend(b) /\ Spaced(b)
  BY DEF Sound
<1>2. intent \in Intents /\ intent.kind = "Enter"
  <2>1. o \in Orders
    BY <1>1 DEF Books
  <2> QED BY <2>1 DEF Orders, Intents, Enter
<1>3. range \in Ranges
  BY DEF Ranges
<1>4. c = IF r.opened THEN [r.book EXCEPT !.since = range] ELSE r.book
  BY DEF FillOrder
<1> HIDE DEF intent, range, c
<1>5. /\ e \in Books /\ e.order = None /\ e.position = None /\ e.pending = intent
      /\ e.since = b.since /\ e.lastBar = b.lastBar /\ e.trades = b.trades
      /\ e.lastEntry = b.lastEntry
  BY <1>1, <1>2 DEF Books
<1>6. External /\ b.since = None
  BY <1>1 DEF Owned
<1> HIDE DEF e
<1>7. Owned(e) /\ OffWeekend(e) /\ Spaced(e)
  BY <1>1, <1>2, <1>5, <1>6 DEF Owned, OffWeekend, Spaced
<1>8. Sound(e)
  BY <1>5, <1>7 DEF Sound
<1>9. Sound(r.book) /\ r.book.lastBar = b.lastBar /\ r.book.order = None
  BY <1>5, <1>8, FillSound
<1>10. r.opened => OpenedFrom(e, r.book, time)
  BY <1>5, FillPendingCases
<1> HIDE DEF r
<1>11. CASE r.opened
  <2>1. c = [r.book EXCEPT !.since = range]
    BY <1>4, <1>11
  <2>2. r.book.position # None /\ r.book.position.entryTime = time
    <3>1. PICK p \in Positions, le \in Int, closed \in Seq(Realised) :
            /\ p.entryTime = time
            /\ r.book = [e EXCEPT !.pending = None, !.closed = closed, !.position = p,
                                  !.lastEntry = le]
      BY <1>10, <1>11 DEF OpenedFrom
    <3>2. r.book.position = p
      BY <1>5, <3>1 DEF Books
    <3> QED BY <3>1, <3>2, NoneAssumption DEF NoneAssumption
  <2>3. r.book \in Books /\ Owned(r.book) /\ OffWeekend(r.book) /\ Spaced(r.book)
    BY <1>9 DEF Sound
  <2>4. range # None /\ range.barTime = time
    BY <1>3, NoOrderAssumption DEF NoOrderAssumption, range
  <2>5. /\ c \in Books /\ c.since = range /\ c.order = None
        /\ c.position = r.book.position /\ c.pending = r.book.pending
        /\ c.lastBar = r.book.lastBar /\ c.trades = r.book.trades
        /\ c.lastEntry = r.book.lastEntry
    BY <1>3, <1>9, <2>1, <2>3 DEF Books
  <2>6. Owned(c) /\ OffWeekend(c) /\ Spaced(c)
    BY <1>6, <2>2, <2>3, <2>4, <2>5 DEF Owned, OffWeekend, Spaced
  <2> QED BY <2>5, <2>6 DEF Sound, c
<1>12. CASE ~r.opened
  BY <1>4, <1>9, <1>12 DEF c
<1> QED BY <1>11, <1>12

(* The ordering rule in terms of the book's own last bar. *)
LEMMA NewerType ==
  ASSUME book \in Books, HasBar, NEW t \in Int, Newer(t)
  PROVE  /\ book.lastBar = None => Warmup # None
         /\ book.lastBar # None => book.lastBar.time < t
<1>1. book.lastBar # None => book.lastBar.time \in Int
  BY DEF Books, Bars
<1> QED BY <1>1 DEF HasBar, Newer, Newest

LEMMA NewestType ==
  ASSUME book \in Books, HasBar
  PROVE  Newest \in Int /\ (book.lastBar = None => Warmup # None)
BY PaperBookAssumption DEF PaperBookAssumption, HasBar, Newest, Level, Books, Bars

LEMMA TickArrivesSound ==
  ASSUME Ind, NEW t \in Times, TickArrives(t)
  PROVE  Ind' /\ Continues(book, book')
<1>1. book' = book /\ running' = running /\ Posted(t) /\ feed \in Level /\ book \in Books
  BY DEF Ind, Sound, TickArrives
<1>2. feed' \in Level
  BY <1>1, PostedType
<1> QED BY <1>1, <1>2, SamePositionContinues DEF Ind

LEMMA TickSound ==
  ASSUME Ind, NEW t \in Times, NEW s \in BarShapes, NEW quote \in Quotes \cup {None},
         NEW warm \in BOOLEAN, NEW cut \in Cuts, Tick(t, s.close, quote, warm, cut)
  PROVE  Ind' /\ Continues(book, book')
<1> DEFINE b == ObserveTick(book, t, s.close)
           c == SettledByTick(b, t, s.close, quote, warm, cut)
           touch == Touched(b.order, quote)
<1>1. t \in Int /\ s.close \in Price
  BY BarAtType
<1>2. Sound(book) /\ feed \in Level /\ running' = running /\ feed' = feed /\ book' = c
  BY DEF Ind, Tick
<1>3. Sound(b) /\ b.position = book.position /\ b.lastBar = book.lastBar
  BY <1>1, <1>2, ObserveTickSound
<1> HIDE DEF b
<1>4. b \in Books /\ Owned(b)
  BY <1>3 DEF Sound
<1> DEFINE fills == /\ b.order # None /\ HasBar /\ Newer(t)
                    /\ touch # None /\ b.position = None
                    /\ c = FillOrder(b, t, touch, s.close, warm, cut).book
<1>5. c = b \/ c = CancelOrder(b) \/ fills
  <2>1. CASE b.order = None \/ ~HasBar \/ ~Newer(t)
    BY <2>1 DEF SettledByTick
  <2>2. CASE b.order # None /\ HasBar /\ Newer(t)
    <3>1. c = IF InvalidatedBy(b.order, quote) THEN CancelOrder(b)
              ELSE IF touch = None THEN b
              ELSE IF b.position # None THEN CancelOrder(b)
              ELSE FillOrder(b, t, touch, s.close, warm, cut).book
      BY <2>2 DEF SettledByTick
    <3> HIDE DEF c, touch
    <3> QED BY <2>2, <3>1
  <2> QED BY <2>1, <2>2
<1> HIDE DEF c
<1>6. ASSUME fills PROVE Sound(c) /\ book.position = None
  <2>1. touch \in Price
    <3>1. b.order \in Orders
      BY <1>4, <1>6 DEF Books
    <3>2. quote # None
      BY <1>6 DEF Touched
    <3>3. quote.bid \in Price /\ quote.ask \in Price
      BY <3>2, PaperBookAssumption DEF PaperBookAssumption
    <3> QED BY <1>6, <3>1, <3>3 DEF Touched, TriggerSide, Orders
  <2>2. /\ b.lastBar = None => Warmup # None
        /\ b.lastBar # None => b.lastBar.time < t
    <3>1. HasBar /\ Newer(t)
      BY <1>6
    <3>2. book \in Books
      BY <1>2 DEF Sound
    <3>3. /\ book.lastBar = None => Warmup # None
          /\ book.lastBar # None => book.lastBar.time < t
      BY <1>1, <3>1, <3>2, NewerType
    <3> QED BY <1>3, <3>3
  <2> HIDE DEF touch
  <2>3. Sound(c)
    BY <1>1, <1>3, <1>6, <2>1, <2>2, FillOrderSound
  <2> QED BY <1>3, <1>6, <2>3
<1>7. Sound(CancelOrder(b)) /\ CancelOrder(b).position = b.position
  BY <1>3, CancelOrderSound
<1> HIDE DEF fills
<1>9. Sound(c) /\ (book.position = None \/ c.position = book.position)
  BY <1>3, <1>5, <1>6, <1>7
<1>10. Continues(book, c)
  <2>1. book \in Books
    BY <1>2 DEF Sound
  <2>2. book.position = None => Continues(book, c)
    BY DEF Continues
  <2> QED BY <1>9, <2>1, <2>2, SamePositionContinues
<1> QED BY <1>2, <1>9, <1>10 DEF Ind

(* A posted market intent takes the place of a resting order. *)
LEMMA PostIntentSound ==
  ASSUME Ind, NEW f \in EntryForms, PostIntent(f)
  PROVE  Ind' /\ Continues(book, book')
<1> DEFINE b == CancelOrder(book)
           e == EnterAt(f, Newest)
<1>1. Sound(book) /\ book \in Books /\ running' = running /\ feed' = feed /\ External
      /\ HasBar /\ book' = [b EXCEPT !.pending = e]
  BY DEF Ind, Sound, PostIntent, Decide
<1>2. Sound(b) /\ b.position = book.position
  BY <1>1, CancelOrderSound
<1>3. b.order = None /\ b.lastBar = book.lastBar
  BY <1>1 DEF CancelOrder, Books
<1>4. e \in Intents /\ e.kind = "Enter"
  <2>1. Newest \in Int
    BY <1>1, NewestType
  <2> QED BY <2>1, PaperBookAssumption DEF PaperBookAssumption, EnterAt, Intents, Enter
<1> HIDE DEF b, e
<1>5. b \in Books /\ Owned(b) /\ OffWeekend(b) /\ Spaced(b)
  BY <1>2 DEF Sound
<1>6. /\ book' \in Books /\ book'.pending = e /\ book'.order = None /\ book'.since = b.since
      /\ book'.position = b.position /\ book'.lastBar = b.lastBar /\ book'.trades = b.trades
      /\ book'.lastEntry = b.lastEntry
  BY <1>1, <1>3, <1>4, <1>5 DEF Books
<1>7. Owned(book') /\ OffWeekend(book') /\ Spaced(book')
  BY <1>1, NewestType, <1>3, <1>4, <1>5, <1>6 DEF Owned, OffWeekend, Spaced
<1>8. Continues(book, book')
  BY <1>1, <1>2, <1>6, SamePositionContinues
<1> QED BY <1>1, <1>6, <1>7, <1>8 DEF Ind, Sound

LEMMA PostOrderSound ==
  ASSUME Ind, NEW f \in OrderForms, PostOrder(f)
  PROVE  Ind' /\ Continues(book, book')
<1> DEFINE o == OrderAt(f, Newest)
<1>1. /\ Sound(book) /\ book \in Books /\ running' = running /\ feed' = feed /\ External
      /\ HasBar /\ book.position = None
      /\ book' = [book EXCEPT !.pending = None, !.order = o]
  BY DEF Ind, Sound, PostOrder, PlaceOrder
<1>2. o \in Orders
  <2>1. Newest \in Int
    BY <1>1, NewestType
  <2>2. f \in [type: {"Limit", "Stop"}, price: Price, side: Side, stop: Int, target: Level,
               validBars: Nat \ {0}, above: Level, below: Level]
    BY PaperBookAssumption DEF PaperBookAssumption
  <2> QED BY <2>1, <2>2 DEF OrderAt, Orders, Level
<1> HIDE DEF o
<1>3. book \in Books /\ Owned(book) /\ OffWeekend(book) /\ Spaced(book)
  BY <1>1 DEF Sound
<1>4. /\ book' \in Books /\ book'.pending = None /\ book'.order = o /\ book'.since = book.since
      /\ book'.position = None /\ book'.lastBar = book.lastBar
      /\ book'.trades = book.trades /\ book'.lastEntry = book.lastEntry
  BY <1>1, <1>2, <1>3 DEF Books
<1>5. Owned(book') /\ OffWeekend(book') /\ Spaced(book')
  BY <1>1, NewestType, <1>3, <1>4 DEF Owned, OffWeekend, Spaced
<1>6. Continues(book, book')
  BY <1>1 DEF Continues
<1> QED BY <1>1, <1>4, <1>5, <1>6 DEF Ind, Sound

LEMMA ActTriggerSound ==
  ASSUME Ind, NEW t \in Times, NEW s \in BarShapes, NEW quote \in Quotes,
         NEW warm \in BOOLEAN, NEW cut \in Cuts, ActTrigger(t, s.close, quote, warm, cut)
  PROVE  Ind' /\ Continues(book, book')
<1>1. t \in Int /\ s.close \in Price
  BY BarAtType
<1> DEFINE price == TriggerSide(book.order, quote)
<1>2. price \in Price
  BY PaperBookAssumption DEF PaperBookAssumption, TriggerSide
<1>3. /\ Sound(book) /\ book \in Books /\ running' = running /\ feed' = feed
      /\ book.order # None /\ book.position = None /\ HasBar /\ Newer(t)
      /\ book' = FillOrder(book, t, price, s.close, warm, cut).book
  BY DEF Ind, Sound, ActTrigger
<1>4. /\ book.lastBar = None => Warmup # None
      /\ book.lastBar # None => book.lastBar.time < t
  BY <1>1, <1>3, NewerType
<1> HIDE DEF price
<1>5. Sound(book')
  BY <1>1, <1>2, <1>3, <1>4, FillOrderSound
<1> QED BY <1>3, <1>5 DEF Ind, Continues

LEMMA ActCancelSound ==
  ASSUME Ind, ActCancel
  PROVE  Ind' /\ Continues(book, book')
<1>1. Sound(book) /\ book' = CancelOrder(book) /\ running' = running /\ feed' = feed
  BY DEF Ind, ActCancel
<1>2. Sound(book') /\ book'.position = book.position
  BY <1>1, CancelOrderSound
<1>3. book \in Books
  BY <1>1 DEF Sound
<1> QED BY <1>1, <1>2, <1>3, SamePositionContinues DEF Ind

LEMMA StopSound ==
  ASSUME Ind, Stop
  PROVE  Ind' /\ Continues(book, book')
<1> DEFINE c == [book EXCEPT !.pending = None, !.order = None, !.since = None]
           price == ApplyCosts(book.lastBar.close, book.position.side, FALSE)
<1>1. /\ Sound(book) /\ book \in Books /\ running' = FALSE /\ feed' = feed
      /\ book' = StopBook(book).book
  BY DEF Ind, Sound, Stop
<1>2. book \in Books /\ Owned(book) /\ OffWeekend(book) /\ Spaced(book)
  BY <1>1 DEF Sound
<1>3. /\ c \in Books /\ c.pending = None /\ c.order = None /\ c.since = None
      /\ c.position = book.position /\ c.lastBar = book.lastBar
      /\ c.trades = book.trades /\ c.lastEntry = book.lastEntry
  BY <1>2 DEF Books
<1>4. Spaced(c)
  BY <1>2, <1>3 DEF Spaced
<1>5. CASE book.lastBar = None \/ book.position = None
  <2>1. book' = c
    BY <1>1, <1>5 DEF StopBook, Quiet
  <2> HIDE DEF c
  <2>2. book'.position = book.position
    BY <1>3, <2>1
  <2>3. Owned(book') /\ OffWeekend(book')
    BY <1>2, <1>3, <2>1, <2>2 DEF Owned, OffWeekend
  <2>4. Continues(book, book')
    BY <1>2, <2>2, SamePositionContinues
  <2> QED BY <1>1, <1>3, <1>4, <2>1, <2>3, <2>4 DEF Ind, Sound
<1>6. CASE book.lastBar # None /\ book.position # None
  <2>1. book' = Booked(c, price, book.lastBar.time, "STOPPED").book
    BY <1>1, <1>6 DEF StopBook
  <2>2. book.lastBar.time \in Int /\ book.lastBar.close \in Price /\ book.position.side \in Side
    BY <1>2, <1>6 DEF Books, Bars, Positions
  <2>3. price \in Nat \ {0}
    BY <2>2, CostType
  <2> HIDE DEF price, c
  <2>4. price \in Int /\ "STOPPED" \in ExitKinds
    BY <2>3 DEF ExitKinds
  <2>5. book' \in Books /\ Exited(c, book', price, book.lastBar.time, "STOPPED")
    BY <1>3, <1>6, <2>1, <2>2, <2>4, BookedType
  <2>6. Spaced(book')
    BY <1>3, <1>4, <1>6, <2>2, <2>4, <2>5, ExitedSound
  <2>7. /\ book'.position = None /\ book'.pending = None /\ book'.order = None
        /\ book'.since = None /\ book'.lastBar = book.lastBar
    BY <1>3, <2>5 DEF Exited, Books
  <2>8. Owned(book') /\ OffWeekend(book')
    BY <2>7 DEF Owned, OffWeekend
  <2> QED BY <1>1, <2>5, <2>6, <2>7, <2>8 DEF Ind, Sound, Continues
<1> QED BY <1>5, <1>6

-----------------------------------------------------------------------------
LEMMA InitSound == Init => Ind
<1> SUFFICES ASSUME Init PROVE Ind
  OBVIOUS
<1>1. NewBook \in Books
  <2>1. << >> \in Seq(Trades) /\ << >> \in Seq(Realised)
    BY EmptySeq
  <2>2. StartingEquity \in Int
    BY EngineAssumption DEF EngineAssumption
  <2> QED BY <2>1, <2>2 DEF NewBook, Books, Level
<1>2. Owned(NewBook) /\ OffWeekend(NewBook) /\ Spaced(NewBook)
  BY DEF NewBook, Owned, OffWeekend, Spaced
<1> QED BY <1>1, <1>2 DEF Init, Ind, Sound, Level

LEMMA NextSound == Ind /\ [Next]_vars => Ind' /\ Continues(book, book')
<1> SUFFICES ASSUME Ind, [Next]_vars PROVE Ind' /\ Continues(book, book')
  OBVIOUS
<1>1. ASSUME NEW t \in Times, NEW s \in BarShapes, NEW warm \in BOOLEAN, NEW cut \in Cuts,
             NEW decision \in Decisions(t), BarCloses(t, s, warm, cut, decision)
      PROVE  Ind' /\ Continues(book, book')
  BY <1>1, BarClosesSound
<1>2. ASSUME NEW t \in Times, NEW s \in BarShapes, NEW warm \in BOOLEAN, NEW cut \in Cuts,
             BarOpens(t, s.open, warm, cut)
      PROVE  Ind' /\ Continues(book, book')
  BY <1>2, BarOpensSound
<1>3. ASSUME NEW t \in Times, NEW s \in BarShapes, NEW quote \in Quotes \cup {None},
             NEW warm \in BOOLEAN, NEW cut \in Cuts, Tick(t, s.close, quote, warm, cut)
      PROVE  Ind' /\ Continues(book, book')
  BY <1>3, TickSound
<1>10. ASSUME NEW t \in Times, TickArrives(t)
      PROVE  Ind' /\ Continues(book, book')
  BY <1>10, TickArrivesSound
<1>4. ASSUME NEW f \in EntryForms, PostIntent(f)
      PROVE  Ind' /\ Continues(book, book')
  BY <1>4, PostIntentSound
<1>5. ASSUME NEW f \in OrderForms, PostOrder(f)
      PROVE  Ind' /\ Continues(book, book')
  BY <1>5, PostOrderSound
<1>6. ASSUME NEW t \in Times, NEW s \in BarShapes, NEW quote \in Quotes,
             NEW warm \in BOOLEAN, NEW cut \in Cuts, ActTrigger(t, s.close, quote, warm, cut)
      PROVE  Ind' /\ Continues(book, book')
  BY <1>6, ActTriggerSound
<1>7. ASSUME ActCancel
      PROVE  Ind' /\ Continues(book, book')
  BY <1>7, ActCancelSound
<1>8. ASSUME Stop
      PROVE  Ind' /\ Continues(book, book')
  BY <1>8, StopSound
<1>9. ASSUME UNCHANGED vars
      PROVE  Ind' /\ Continues(book, book')
  <2>1. book' = book /\ running' = running /\ feed' = feed
    BY <1>9 DEF vars
  <2>2. book \in Books
    BY DEF Ind, Sound
  <2> QED BY <2>1, <2>2, SamePositionContinues DEF Ind
<1> QED BY <1>1, <1>2, <1>3, <1>4, <1>5, <1>6, <1>7, <1>8, <1>9, <1>10 DEF Next

(* Every reachable book is sound. *)
THEOREM Soundness == Spec => []Ind
BY InitSound, NextSound, PTL DEF Spec

(* TypeOK: every book the handlers can build is a book, with at least one lot
   and a positive risk unit in every position. *)
THEOREM TypeCorrect == Spec => []TypeOK
<1>1. Ind => TypeOK
  BY DEF Ind, Sound, TypeOK
<1> QED BY <1>1, Soundness, PTL

(* OrderStandsAlone, for every mix of posts, bars, opens and ticks. *)
THEOREM OrdersStandAlone == Spec => []OrderStandsAlone
<1>1. Ind => OrderStandsAlone
  BY DEF Ind, Sound, Owned, OrderStandsAlone
<1> QED BY <1>1, Soundness, PTL

(* RangeIsOfPosition, for every order of ticks and bars. *)
THEOREM RangesAreOfPositions == Spec => []RangeIsOfPosition
<1>1. Ind => RangeIsOfPosition
  BY DEF Ind, Sound, Owned, RangeIsOfPosition
<1> QED BY <1>1, Soundness, PTL

(* FlatAcrossWeekend, for every calendar and every order of the feed, in a run
   that starts with no stored bars.  The assumption is needed: a run that is
   posted to before its book has a bar skips the calendar. *)
THEOREM WeekendsAreFlat == ASSUME Warmup = None PROVE Spec => []FlatAcrossWeekend
<1>1. Ind => FlatAcrossWeekend
  BY DEF Ind, Sound, OffWeekend, FlatAcrossWeekend
<1> QED BY <1>1, Soundness, PTL

(* CooldownHolds, for every cooldown and any number of trades: remembering
   only the newest entry is enough. *)
THEOREM CooldownsHold == Spec => []CooldownHolds
<1>1. Ind => CooldownHolds
  BY DEF Ind, Sound, Spaced, CooldownHolds
<1> QED BY <1>1, Soundness, PTL

(* AdviceOnlyShrinks, for every book and every verdict. *)
THEOREM AdviceShrinksEntries == Spec => []AdviceOnlyShrinks
<1>1. Ind => AdviceOnlyShrinks
  <2> SUFFICES ASSUME Ind, NEW t \in Times, NEW s \in BarShapes, NEW warm \in BOOLEAN,
                      NEW cut \in Cuts, FillPending(book, t, s.open, warm, cut).opened
               PROVE  LET alone == FillPending(book, t, s.open, warm, NoAdvice)
                          p == FillPending(book, t, s.open, warm, cut).book.position
                      IN  /\ alone.opened
                          /\ p = [alone.book.position EXCEPT !.lots = p.lots]
                          /\ p.lots <= alone.book.position.lots
    BY DEF AdviceOnlyShrinks
  <2>1. book \in Books /\ t \in Int /\ s.open \in Price
    BY BarAtType DEF Ind, Sound
  <2> QED BY <2>1, AdviceShrinks
<1> QED BY <1>1, Soundness, PTL

(* StopOnlyTightens, for every trailing rule and every step. *)
THEOREM StopsOnlyTighten == Spec => StopOnlyTightens
<1> DEFINE Tightens == SamePosition(book.position, book'.position) =>
             LET p == book.position
                 q == book'.position
             IN  /\ q = [p EXCEPT !.stop = q.stop]
                 /\ p.stop = None <=> q.stop = None
                 /\ p.stop # None => Gain(p.side, p.stop, q.stop) >= 0
<1>1. Ind /\ [Next]_vars => [Tightens]_vars
  BY NextSound DEF Continues, Tightened, SamePosition
<1> QED BY <1>1, Soundness, PTL DEF Spec, StopOnlyTightens

-----------------------------------------------------------------------------
(* A tick-filled position is External's, so no exit of its strategy waits: a
   fill leaves position and lived range alone. *)
LEMMA FillLeavesTickFilled ==
  ASSUME NEW b, Sound(b), b.since # None, NEW time, NEW price, NEW warm, NEW cut
  PROVE  LET f == FillPending(b, time, price, warm, cut).book
         IN  f.position = b.position /\ f.since = b.since /\ f.position # None
<1>1. b \in Books /\ b.position # None /\ (b.pending # None => b.pending.kind = "Enter")
  BY DEF Sound, Owned
<1>2. \/ FillPending(b, time, price, warm, cut) = Quiet(b)
      \/ FillPending(b, time, price, warm, cut) = Quiet([b EXCEPT !.pending = None])
  BY <1>1 DEF FillPending
<1> QED BY <1>1, <1>2 DEF Quiet, Books

(* Only a closed bar that is not older than the fill bar ends a tick-filled
   position of a running book. *)
LEMMA TickFilledEnds ==
  ASSUME Ind, Next, book.since # None, book'.position = None, running'
  PROVE  book'.lastBar.time >= book.since.barTime
<1>1. Sound(book) /\ book \in Books /\ book.position # None /\ book.order = None
  BY DEF Ind, Sound, Owned
<1>2. book.since.barTime \in Int
  BY <1>1 DEF Books, Ranges
<1>3. CASE \E t \in Times, s \in BarShapes, warm \in BOOLEAN, cut \in Cuts :
             \E decision \in Decisions(t) : BarCloses(t, s, warm, cut, decision)
  <2>1. PICK t \in Times, s \in BarShapes, warm \in BOOLEAN, cut \in Cuts :
               \E decision \in Decisions(t) : BarCloses(t, s, warm, cut, decision)
    BY <1>3
  <2>2. PICK decision \in Decisions(t) : BarCloses(t, s, warm, cut, decision)
    BY <2>1
  <2> DEFINE bar == BarAt(t, s)
             f == FillPending(book, bar.time, bar.open, warm, cut).book
             a == Advance(book, bar, warm, cut).book
  <2>3. bar \in Bars /\ bar.time \in Int
    BY BarAtType
  <2>4. a \in Books /\ Managed(f, a, bar)
    BY <1>1, <2>3, AdvanceCases
  <2>5. book' = OrderSawBarClose(Decide(a, decision))
    BY <2>2 DEF BarCloses, Step
  <2> HIDE DEF bar
  <2>6. f.position = book.position /\ f.since = book.since
    BY <1>1, FillLeavesTickFilled
  <2>7. f \in Books
    BY <1>1, <2>3, FillPendingCases DEF Bars
  <2> HIDE DEF f, a
  <2>8. book'.position = a.position /\ book'.lastBar = a.lastBar
    BY <2>4, <2>5 DEF OrderSawBarClose, Decide, CancelOrder, Books
  <2>9. ~TooLate(f, bar) /\ a.lastBar = bar
    BY <1>1, <2>4, <2>6, <2>7, <2>8
       DEF Managed, Untouched, HeldOver, LeftOn, Seen, Exited, Tightened, Books
  <2> QED BY <1>2, <2>3, <2>6, <2>8, <2>9 DEF TooLate
<1>4. ASSUME NEW t \in Times, NEW s \in BarShapes, NEW warm \in BOOLEAN, NEW cut \in Cuts,
             BarOpens(t, s.open, warm, cut)
      PROVE  FALSE
  BY <1>1, <1>4, FillLeavesTickFilled DEF BarOpens, FillOpen, Quiet
<1>5. ASSUME NEW t \in Times, NEW s \in BarShapes, NEW quote \in Quotes \cup {None},
             NEW warm \in BOOLEAN, NEW cut \in Cuts, Tick(t, s.close, quote, warm, cut)
      PROVE  FALSE
  <2>1. s.close \in Price /\ t \in Int
    BY BarAtType
  <2> DEFINE o == ObserveTick(book, t, s.close)
  <2>2. o.order = None /\ o.position = book.position
    BY <1>1, <2>1, ObserveTickSound
  <2> HIDE DEF o
  <2>3. book' = o
    BY <1>5, <2>2 DEF Tick, SettledByTick, o
  <2> QED BY <1>1, <2>2, <2>3
<1>6. ASSUME NEW f \in EntryForms, PostIntent(f)
      PROVE  FALSE
  BY <1>1, <1>6 DEF PostIntent, Decide, CancelOrder, Books
<1> QED
  BY <1>1, <1>3, <1>4, <1>5, <1>6 DEF Next, TickArrives, PostOrder, ActTrigger, ActCancel, Stop

(* A late closed bar ends no tick-filled position, whatever is posted and in
   whatever order. *)
THEOREM LateBarsEndNothing == Spec => LateBarEndsNothing
<1> DEFINE Late == book.since # None /\ book.position # None /\ book'.position = None /\ running'
                     => book'.lastBar.time >= book.since.barTime
<1>1. Ind /\ [Next]_vars => [Late]_vars
  BY TickFilledEnds
<1> QED BY <1>1, Soundness, PTL DEF Spec, LateBarEndsNothing

-----------------------------------------------------------------------------
(* The guards' memory is the end of the list of trades.                    *)

(* A sum whose first k items are nothing is the sum of the rest. *)
EndsWith(m, u, k, n) ==
  /\ Len(m) = k + n /\ Len(u) = n
  /\ \A i \in 1..k : m[i].pnl = 0
  /\ \A i \in 1..n : m[k + i].pnl = u[i].pnl
LEMMA SumOfTail ==
  ASSUME NEW k \in Nat, NEW n \in Nat, NEW m, NEW u, EndsWith(m, u, k, n)
  PROVE  DayPnl(m) = DayPnl(u)
<1>0. /\ Len(m) = k + n /\ Len(u) = n
      /\ \A i \in 1..k : m[i].pnl = 0
      /\ \A i \in 1..n : m[k + i].pnl = u[i].pnl
  BY DEF EndsWith
<1>1. PICK f : RunningSum(f, m, k + n) /\ DayPnl(m) = f[k + n]
  <2>1. Len(m) \in Nat
    BY <1>0
  <2> QED BY <1>0, <2>1, DayPnlIsASum
<1>2. PICK g : RunningSum(g, u, n) /\ DayPnl(u) = g[n]
  <2>1. Len(u) \in Nat
    BY <1>0
  <2> QED BY <1>0, <2>1, DayPnlIsASum
<1>3. /\ \A i \in 0..(k + n) : f[i] = IF i = 0 THEN 0 ELSE f[i - 1] + m[i].pnl
      /\ \A i \in 0..n : g[i] = IF i = 0 THEN 0 ELSE g[i - 1] + u[i].pnl
  BY <1>1, <1>2 DEF RunningSum
<1> DEFINE Z == {i \in 0..k : f[i] # 0}
           T == {i \in 0..n : f[k + i] # g[i]}
<1>4. Z = {}
  <2> SUFFICES ASSUME Z # {} PROVE FALSE
    OBVIOUS
  <2>1. PICK i \in Z : \A j \in Z : i <= j
    <3>1. Z \subseteq Nat
      OBVIOUS
    <3> HIDE DEF Z
    <3> QED BY <3>1, FirstOf
  <2>2. f[i] = IF i = 0 THEN 0 ELSE f[i - 1] + m[i].pnl
    BY <1>3, <2>1
  <2>3. i # 0 => i - 1 \in 0..k /\ ~(i <= i - 1) /\ m[i].pnl = 0
    BY <1>0, <2>1
  <2>4. i # 0 => f[i - 1] = 0
    BY <2>1, <2>3
  <2> QED BY <2>1, <2>2, <2>3, <2>4
<1>5. T = {}
  <2> SUFFICES ASSUME T # {} PROVE FALSE
    OBVIOUS
  <2>1. PICK i \in T : \A j \in T : i <= j
    <3>1. T \subseteq Nat
      OBVIOUS
    <3> HIDE DEF T
    <3> QED BY <3>1, FirstOf
  <2>2. CASE i = 0
    <3>1. k \in 0..k /\ 0 \in 0..n
      OBVIOUS
    <3>2. f[k] = 0 /\ g[0] = 0
      BY <1>3, <1>4, <3>1
    <3> QED BY <2>1, <2>2, <3>2
  <2>3. CASE i # 0
    <3>1. i \in 1..n /\ i - 1 \in 0..n /\ ~(i <= i - 1) /\ k + i \in 0..(k + n) /\ k + i # 0
          /\ (k + i) - 1 = k + (i - 1)
      BY <2>1, <2>3
    <3>2. f[k + i] = f[k + (i - 1)] + m[k + i].pnl /\ g[i] = g[i - 1] + u[i].pnl
      BY <1>3, <2>3, <3>1
    <3>3. f[k + (i - 1)] = g[i - 1] /\ m[k + i].pnl = u[i].pnl
      BY <1>0, <2>1, <3>1
    <3> QED BY <2>1, <3>2, <3>3
  <2> QED BY <2>2, <2>3
<1>6. n \in 0..n
  OBVIOUS
<1> QED BY <1>1, <1>2, <1>5, <1>6

(* What the guards still remember is the end of the list, and what they forgot
   of it was a day old when they did. *)
Forgot(trades, closed, k, f) ==
  /\ k \in 0..Len(trades) /\ Len(closed) = Len(trades) - k
  /\ \A i \in 1..(Len(trades) - k) :
       closed[i].time = trades[k + i].exitTime /\ closed[i].pnl = trades[k + i].pnl
  /\ \A i \in 1..k : f # None /\ trades[i].exitTime < f - Day
Recalls(trades, closed, f) == \E k \in Nat : Forgot(trades, closed, k, f)

(* Pruning drops a prefix, old enough to drop, up to the first close that is
   not. *)
Dropped(closed, pruned, d, now) ==
  /\ d \in 0..Len(closed) /\ Len(pruned) = Len(closed) - d
  /\ \A i \in 1..(Len(closed) - d) : pruned[i] = closed[d + i]
  /\ \A i \in 1..d : closed[i].time < now - Day
  /\ d < Len(closed) => closed[d + 1].time >= now - Day

LEMMA PruningDrops ==
  ASSUME NEW closed \in Seq(Realised), NEW now \in Int
  PROVE  \E d \in Nat : Dropped(closed, PrunedDay(closed, now), d, now)
<1> DEFINE young == {i \in DOMAIN closed : closed[i].time >= now - Day}
           front == CHOOSE i \in young : \A j \in young : i <= j
           P == PrunedDay(closed, now)
<1>1. PICK n : n = Len(closed)
  OBVIOUS
<1>2. n \in Nat /\ DOMAIN closed = 1..n /\ \A i \in 1..n : closed[i] \in Realised
  BY <1>1
<1>3. (\A i \in 1..n : closed[i].time \in Int) /\ Day \in Int
  BY <1>2, EngineAssumption DEF Realised, EngineAssumption
<1>4. CASE young = {}
  <2>1. P = << >>
    BY <1>4 DEF PrunedDay
  <2>2. Len(P) = 0
    BY <2>1
  <2>3. \A i \in 1..n : closed[i].time < now - Day
    BY <1>2, <1>3, <1>4
  <2> HIDE DEF P, young
  <2>4. Dropped(closed, P, n, now)
    BY <1>1, <1>2, <2>2, <2>3 DEF Dropped
  <2> QED BY <1>2, <2>4 DEF P
<1>5. CASE young # {}
  <2>1. young \subseteq Nat
    BY <1>2
  <2>2. front \in young /\ \A j \in young : front <= j
    BY <1>5, <2>1, FirstOf
  <2>3. P = SubSeq(closed, front, n)
    BY <1>1, <1>5 DEF PrunedDay
  <2>4. PICK d : d = front - 1
    OBVIOUS
  <2>5. front \in 1..n /\ closed[front].time >= now - Day
    BY <1>2, <2>2
  <2>6. \A i \in 1..n : i < front => closed[i].time < now - Day
    BY <1>2, <1>3, <2>2
  <2> HIDE DEF P, young, front
  <2>7. d \in 0..n /\ d < n /\ front = d + 1
    BY <1>2, <2>4, <2>5
  <2>8. /\ Len(P) = n - d
        /\ \A i \in 1..(n - d) : P[i] = closed[d + i]
    <3>1. \A i \in front..n : closed[i] \in Realised
      BY <1>2, <2>5
    <3>2. front \in Int /\ n \in Int
      BY <1>2, <2>5
    <3>3. /\ Len(P) = IF front <= n THEN n - front + 1 ELSE 0
          /\ \A i \in 1..(n - front + 1) : P[i] = closed[front + i - 1]
      BY <2>3, <3>1, <3>2, SubSeqProperties
    <3>4. front <= n /\ n - front + 1 = n - d /\ \A i \in 1..(n - d) : front + i - 1 = d + i
      BY <1>2, <2>5, <2>7
    <3> QED BY <3>3, <3>4
  <2>9. \A i \in 1..d : closed[i].time < now - Day
    BY <1>2, <2>6, <2>7
  <2>10. Dropped(closed, P, d, now)
    BY <1>1, <2>5, <2>7, <2>8, <2>9 DEF Dropped
  <2>11. d \in Nat
    BY <2>7
  <2> QED BY <2>10, <2>11 DEF P
<1> QED BY <1>4, <1>5

(* Forgetting twice is forgetting more. *)
LEMMA ForgotMore ==
  ASSUME NEW trades \in Seq(Trades), NEW closed \in Seq(Realised), NEW pruned,
         NEW k \in Nat, NEW d \in Nat, NEW f \in Int, NEW now \in Int, now <= f,
         Forgot(trades, closed, k, f), Dropped(closed, pruned, d, now)
  PROVE  Forgot(trades, pruned, k + d, f)
<1>1. PICK n : n = Len(trades)
  OBVIOUS
<1>2. PICK m : m = Len(closed)
  OBVIOUS
<1>3. n \in Nat /\ \A i \in 1..n : trades[i] \in Trades
  BY <1>1
<1>4. (\A i \in 1..n : trades[i].exitTime \in Int) /\ Day \in Int
  BY <1>3, EngineAssumption DEF Trades, EngineAssumption
<1>5. /\ k \in 0..n /\ m = n - k
      /\ \A i \in 1..(n - k) :
           closed[i].time = trades[k + i].exitTime /\ closed[i].pnl = trades[k + i].pnl
      /\ \A i \in 1..k : f # None /\ trades[i].exitTime < f - Day
  BY <1>1, <1>2 DEF Forgot
<1>6. /\ d \in 0..m /\ Len(pruned) = m - d
      /\ \A i \in 1..(m - d) : pruned[i] = closed[d + i]
      /\ \A i \in 1..d : closed[i].time < now - Day
  BY <1>2 DEF Dropped
<1>7. k + d \in 0..n /\ Len(pruned) = n - (k + d)
  BY <1>3, <1>5, <1>6
<1>8. \A i \in 1..(n - (k + d)) : /\ pruned[i].time = trades[(k + d) + i].exitTime
                                  /\ pruned[i].pnl = trades[(k + d) + i].pnl
  <2> SUFFICES ASSUME NEW i \in 1..(n - (k + d))
               PROVE  /\ pruned[i].time = trades[(k + d) + i].exitTime
                      /\ pruned[i].pnl = trades[(k + d) + i].pnl
    OBVIOUS
  <2>1. i \in 1..(m - d) /\ d + i \in 1..(n - k) /\ k + (d + i) = (k + d) + i
    BY <1>3, <1>5, <1>6
  <2>2. pruned[i] = closed[d + i]
    BY <1>6, <2>1
  <2>3. closed[d + i].time = trades[k + (d + i)].exitTime /\ closed[d + i].pnl = trades[k + (d + i)].pnl
    BY <1>5, <2>1
  <2> QED BY <2>1, <2>2, <2>3
<1>9. f # None
  BY EngineAssumption DEF EngineAssumption
<1>10. \A i \in 1..(k + d) : f # None /\ trades[i].exitTime < f - Day
  <2> SUFFICES ASSUME NEW i \in 1..(k + d) PROVE trades[i].exitTime < f - Day
    BY <1>9
  <2>1. CASE i \in 1..k
    BY <1>5, <2>1
  <2>2. CASE ~(i \in 1..k)
    <3>1. PICK j \in 1..d : i = k + j
      <4>1. i - k \in 1..d /\ i = k + (i - k)
        BY <2>2
      <4> QED BY <4>1
    <3>2. j \in 1..(n - k) /\ i \in 1..n
      BY <1>3, <1>5, <1>6, <3>1
    <3>3. closed[j].time = trades[k + j].exitTime /\ closed[j].time < now - Day
      BY <1>5, <1>6, <3>1, <3>2
    <3>4. trades[i].exitTime < now - Day /\ trades[i].exitTime \in Int
      BY <1>4, <3>1, <3>2, <3>3
    <3> QED BY <1>4, <3>4
  <2> QED BY <2>1, <2>2
<1> QED BY <1>1, <1>7, <1>8, <1>10 DEF Forgot

(* When exactly the forgotten trades no longer count, the guards judge by what
   the list of trades says. *)
LEMMA MemoryIsTheDay ==
  ASSUME NEW trades \in Seq(Trades), NEW closed \in Seq(Realised), NEW q \in Nat, NEW f \in Int,
         Forgot(trades, closed, q, f), \A i \in DOMAIN trades : Counts(trades[i], f) <=> i > q
  PROVE  /\ TradesOfDay(trades, f) = Len(closed)
         /\ PnlOfDay(trades, f) = DayPnl(closed)
<1>1. PICK n : n = Len(trades)
  OBVIOUS
<1>2. n \in Nat /\ DOMAIN trades = 1..n /\ \A i \in 1..n : trades[i] \in Trades
  BY <1>1
<1>3. /\ q \in 0..n /\ Len(closed) = n - q
      /\ \A i \in 1..(n - q) : closed[i].pnl = trades[q + i].pnl
  BY <1>1 DEF Forgot
<1>4. TradesOfDay(trades, f) = Len(closed)
  <2>1. {i \in DOMAIN trades : Counts(trades[i], f)} = (q + 1)..n
    BY <1>2, <1>3
  <2>2. Cardinality((q + 1)..n) = IF q + 1 > n THEN 0 ELSE n - (q + 1) + 1
    <3>1. q + 1 \in Int /\ n \in Int
      BY <1>2
    <3> QED BY <3>1, FS_Interval
  <2>3. (IF q + 1 > n THEN 0 ELSE n - (q + 1) + 1) = n - q
    BY <1>2, <1>3
  <2> QED BY <1>3, <2>1, <2>2, <2>3 DEF TradesOfDay
<1> DEFINE m == [i \in DOMAIN trades |->
                   [pnl |-> IF Counts(trades[i], f) THEN trades[i].pnl ELSE 0]]
<1>5. \A i \in 1..n : m[i].pnl = IF i > q THEN trades[i].pnl ELSE 0
  BY <1>2
<1>6. Len(m) = n
  <2>1. \A i \in 1..n : m[i] \in [pnl : Int]
    BY <1>2 DEF Trades
  <2>2. PICK S : S = [pnl : Int]
    OBVIOUS
  <2>4. m \in [1..n -> S]
    BY <1>2, <2>1, <2>2
  <2> HIDE DEF m
  <2>3. m \in Seq(S) /\ DOMAIN m = 1..n
    BY <1>2, <2>4
  <2> QED BY <1>2, <2>3
<1> HIDE DEF m
<1>7. DayPnl(m) = DayPnl(closed)
  <2>1. n - q \in Nat /\ q + (n - q) = n
    BY <1>2, <1>3
  <2>2. \A i \in 1..q : m[i].pnl = 0
    BY <1>2, <1>3, <1>5
  <2>3. \A i \in 1..(n - q) : m[q + i].pnl = closed[i].pnl
    BY <1>2, <1>3, <1>5
  <2>4. PICK d \in Nat : d = n - q
    BY <2>1
  <2>5. Len(m) = q + d
    BY <1>6, <2>1, <2>4
  <2>6. Len(closed) = d
    BY <1>3, <2>4
  <2>7. \A i \in 1..d : m[q + i].pnl = closed[i].pnl
    BY <2>3, <2>4
  <2>8. EndsWith(m, closed, q, d)
    BY <2>2, <2>5, <2>6, <2>7 DEF EndsWith
  <2> QED BY <2>8, SumOfTail
<1> QED BY <1>4, <1>7 DEF m, PnlOfDay

-----------------------------------------------------------------------------
(* What the list of trades, the memory and the position owe each other when
   the newest posted stamp is f. *)
InOrderOfExit(trades) ==
  \A i, j \in DOMAIN trades : i <= j => trades[i].exitTime <= trades[j].exitTime
Until(trades, now) == \A i \in DOMAIN trades : trades[i].exitTime <= now
Remembered(b, f) ==
  /\ Recalls(b.trades, b.closed, f)
  /\ InOrderOfExit(b.trades)
  /\ \A i \in DOMAIN b.trades : f # None /\ b.trades[i].exitTime <= f
  /\ b.position # None => f # None /\ b.position.entryTime <= f
Limited(b, f) ==
  Guarded /\ b.position # None /\ f = b.position.entryTime =>
    /\ TradesOfDay(b.trades, f) < MaxTradesPerDay
    /\ PnlOfDay(b.trades, f) > -DailyLossLimit

LEMMA LaterRemembered ==
  ASSUME NEW b \in Books, NEW f \in Level, NEW g \in Int, f # None => f <= g,
         Remembered(b, f), Limited(b, f)
  PROVE  Remembered(b, g) /\ Limited(b, g)
<1>1. b.trades \in Seq(Trades) /\ b.position \in Positions \cup {None}
  BY DEF Books
<1>2. \A i \in DOMAIN b.trades : b.trades[i].exitTime \in Int
  <2>1. \A i \in DOMAIN b.trades : b.trades[i] \in Trades
    BY <1>1
  <2> QED BY <2>1 DEF Trades
<1>3. Day \in Int /\ g # None /\ (f # None => f \in Int)
  BY EngineAssumption DEF EngineAssumption, Level
<1>4. PICK k \in Nat : Forgot(b.trades, b.closed, k, f)
  BY DEF Remembered, Recalls
<1>5. Forgot(b.trades, b.closed, k, g)
  <2>1. \A i \in 1..k : i \in DOMAIN b.trades
    <3>1. DOMAIN b.trades = 1..Len(b.trades) /\ Len(b.trades) \in Nat
      BY <1>1
    <3> QED BY <1>4, <3>1 DEF Forgot
  <2>2. \A i \in 1..k : f # None /\ b.trades[i].exitTime < f - Day
    BY <1>4 DEF Forgot
  <2>3. \A i \in 1..k : g # None /\ b.trades[i].exitTime < g - Day
    BY <1>2, <1>3, <2>1, <2>2
  <2> QED BY <1>4, <2>3 DEF Forgot
<1>6. b.position # None => b.position.entryTime \in Int
  BY <1>1 DEF Positions
<1>7. Remembered(b, g)
  <2>1. Recalls(b.trades, b.closed, g)
    BY <1>5 DEF Recalls
  <2>2. \A i \in DOMAIN b.trades : g # None /\ b.trades[i].exitTime <= g
    BY <1>2, <1>3 DEF Remembered
  <2>3. b.position # None => g # None /\ b.position.entryTime <= g
    BY <1>3, <1>6 DEF Remembered
  <2> QED BY <2>1, <2>2, <2>3 DEF Remembered
<1>8. b.position # None /\ g = b.position.entryTime => f = g
  BY <1>3, <1>6 DEF Remembered
<1> QED BY <1>7, <1>8 DEF Limited

(* What one operation may do to the memory at a time. *)
SamePlace(b, c) ==
  /\ c.trades = b.trades
  /\ c.position # None => b.position # None /\ c.position.entryTime = b.position.entryTime
Silent(b, c) == SamePlace(b, c) /\ c.closed = b.closed
Prunes(b, c, now) == SamePlace(b, c) /\ c.closed = PrunedDay(b.closed, now)
Enters(b, c, now) ==
  /\ c.trades = b.trades
  /\ c.position # None /\ c.position.entryTime = now
  /\ ~Guarded => c.closed = b.closed
  /\ Guarded => /\ c.closed = PrunedDay(b.closed, now)
                /\ Len(c.closed) < MaxTradesPerDay
                /\ DayPnl(c.closed) > -DailyLossLimit
Leaves(b, c, now) ==
  /\ c.position = None
  /\ \E t \in Trades : /\ t.exitTime = now
                       /\ c.trades = Append(b.trades, t)
                       /\ c.closed = Append(b.closed, [time |-> now, pnl |-> t.pnl])
Turn(b, c, now) == Silent(b, c) \/ Prunes(b, c, now) \/ Enters(b, c, now) \/ Leaves(b, c, now)

LEMMA PrunedRecalls ==
  ASSUME NEW b \in Books, NEW f \in Int, NEW now \in Int, now <= f,
         Recalls(b.trades, b.closed, f)
  PROVE  Recalls(b.trades, PrunedDay(b.closed, now), f)
<1>1. b.trades \in Seq(Trades) /\ b.closed \in Seq(Realised)
  BY DEF Books
<1>2. PICK k \in Nat : Forgot(b.trades, b.closed, k, f)
  BY DEF Recalls
<1>3. PICK d \in Nat : Dropped(b.closed, PrunedDay(b.closed, now), d, now)
  BY <1>1, PruningDrops
<1>4. Forgot(b.trades, PrunedDay(b.closed, now), k + d, f)
  BY <1>1, <1>2, <1>3, ForgotMore
<1>5. k + d \in Nat
  OBVIOUS
<1> QED BY <1>4, <1>5 DEF Recalls

(* Judged at the newest stamp, the pruned memory is the day. *)
LEMMA JudgedByTheDay ==
  ASSUME NEW b \in Books, NEW f \in Int, Remembered(b, f)
  PROVE  LET P == PrunedDay(b.closed, f)
         IN  /\ TradesOfDay(b.trades, f) = Len(P)
             /\ PnlOfDay(b.trades, f) = DayPnl(P)
<1>1. b.trades \in Seq(Trades) /\ b.closed \in Seq(Realised)
  BY DEF Books
<1>2. PICK k \in Nat : Forgot(b.trades, b.closed, k, f)
  BY DEF Remembered, Recalls
<1>3. PICK P : P = PrunedDay(b.closed, f)
  OBVIOUS
<1>4. P \in Seq(Realised)
  BY <1>1, <1>3, PrunedDayType
<1>5. PICK d \in Nat : Dropped(b.closed, P, d, f)
  BY <1>1, <1>3, PruningDrops
<1>6. Forgot(b.trades, P, k + d, f)
  <2>1. f <= f
    OBVIOUS
  <2> QED BY <1>1, <1>2, <1>5, <2>1, ForgotMore
<1>7. PICK n : n = Len(b.trades)
  OBVIOUS
<1>8. n \in Nat /\ DOMAIN b.trades = 1..n /\ \A i \in 1..n : b.trades[i] \in Trades
  BY <1>1, <1>7
<1>9. (\A i \in 1..n : b.trades[i].exitTime \in Int) /\ Day \in Int
  BY <1>8, EngineAssumption DEF Trades, EngineAssumption
<1>10. \A i \in 1..n : Counts(b.trades[i], f) <=> i > k + d
  <2>1. \A i \in 1..(k + d) : b.trades[i].exitTime < f - Day
    BY <1>6 DEF Forgot
  <2>2. k + d < n => b.trades[(k + d) + 1].exitTime >= f - Day
    <3> HAVE k + d < n
    <3>1. k \in 0..n /\ Len(b.closed) = n - k
          /\ \A i \in 1..(n - k) : b.closed[i].time = b.trades[k + i].exitTime
      BY <1>2, <1>7 DEF Forgot
    <3>2. d < n - k /\ d + 1 \in 1..(n - k) /\ k + (d + 1) = (k + d) + 1
      BY <1>8, <3>1
    <3>3. b.closed[d + 1].time >= f - Day
      BY <1>5, <3>1, <3>2 DEF Dropped
    <3>4. b.closed[d + 1].time = b.trades[k + (d + 1)].exitTime
      BY <3>1, <3>2
    <3> QED BY <3>2, <3>3, <3>4
  <2>3. \A i \in 1..n : i > k + d => b.trades[(k + d) + 1].exitTime <= b.trades[i].exitTime
    <3> SUFFICES ASSUME NEW i \in 1..n, i > k + d
                 PROVE  b.trades[(k + d) + 1].exitTime <= b.trades[i].exitTime
      OBVIOUS
    <3>1. (k + d) + 1 \in 1..n /\ (k + d) + 1 <= i
      BY <1>8
    <3> QED BY <1>8, <3>1 DEF Remembered, InOrderOfExit
  <2>4. PICK q \in Nat : q = k + d
    OBVIOUS
  <2>5. q < n => q + 1 \in 1..n
    BY <1>8
  <2> QED BY <1>8, <1>9, <2>1, <2>2, <2>3, <2>4, <2>5 DEF Counts
<1>11. k + d \in Nat
  OBVIOUS
<1>12. /\ TradesOfDay(b.trades, f) = Len(P)
       /\ PnlOfDay(b.trades, f) = DayPnl(P)
  <2>1. PICK q \in Nat : q = k + d
    BY <1>11
  <2>2. Forgot(b.trades, P, q, f) /\ \A i \in DOMAIN b.trades : Counts(b.trades[i], f) <=> i > q
    BY <1>6, <1>8, <1>10, <2>1
  <2> QED BY <1>1, <1>4, <2>2, MemoryIsTheDay
<1> QED BY <1>3, <1>12

LEMMA SilentRemembered ==
  ASSUME NEW b, NEW c, NEW f, Silent(b, c), Remembered(b, f), Limited(b, f)
  PROVE  Remembered(c, f) /\ Limited(c, f)
BY DEF Silent, SamePlace, Remembered, Limited

(* An exit not before the others is remembered after the others. *)
LEMMA LeavingRemembered ==
  ASSUME NEW b \in Books, NEW c \in Books, NEW now \in Int, NEW f \in Int, now <= f,
         Remembered(b, f), Until(b.trades, now), Leaves(b, c, now)
  PROVE  Remembered(c, f) /\ Until(c.trades, now)
<1>1. b.trades \in Seq(Trades) /\ b.closed \in Seq(Realised)
  BY DEF Books
<1>2. PICK t \in Trades : /\ t.exitTime = now
                          /\ c.trades = Append(b.trades, t)
                          /\ c.closed = Append(b.closed, [time |-> now, pnl |-> t.pnl])
  BY DEF Leaves
<1>3. PICK e : e = [time |-> now, pnl |-> t.pnl]
  OBVIOUS
<1>4. e \in Realised /\ e.time = now /\ e.pnl = t.pnl
  BY <1>2, <1>3 DEF Realised, Trades
<1>5. PICK n : n = Len(b.trades)
  OBVIOUS
<1>6. PICK m : m = Len(b.closed)
  OBVIOUS
<1>7. /\ n \in Nat /\ m \in Nat /\ DOMAIN b.trades = 1..n
      /\ DOMAIN c.trades = 1..(n + 1) /\ Len(c.trades) = n + 1 /\ Len(c.closed) = m + 1
  BY <1>1, <1>2, <1>3, <1>4, <1>5, <1>6
<1>8. /\ \A i \in 1..n : c.trades[i] = b.trades[i]
      /\ c.trades[n + 1] = t
  BY <1>1, <1>2, <1>5, AppendProperties
<1>9. /\ \A i \in 1..m : c.closed[i] = b.closed[i]
      /\ c.closed[m + 1] = e
  BY <1>1, <1>2, <1>3, <1>4, <1>6, AppendProperties
<1>10. PICK k \in Nat : Forgot(b.trades, b.closed, k, f)
  BY DEF Remembered, Recalls
<1>11. /\ k \in 0..n /\ m = n - k
       /\ \A i \in 1..(n - k) :
            b.closed[i].time = b.trades[k + i].exitTime /\ b.closed[i].pnl = b.trades[k + i].pnl
       /\ \A i \in 1..k : f # None /\ b.trades[i].exitTime < f - Day
  BY <1>5, <1>6, <1>10 DEF Forgot
<1>12. Forgot(c.trades, c.closed, k, f)
  <2>1. k \in 0..(n + 1) /\ m + 1 = (n + 1) - k
    BY <1>7, <1>11
  <2>2. ASSUME NEW i \in 1..((n + 1) - k)
        PROVE  c.closed[i].time = c.trades[k + i].exitTime /\ c.closed[i].pnl = c.trades[k + i].pnl
    <3>1. CASE i \in 1..(n - k)
      <4>1. i \in 1..m /\ k + i \in 1..n
        BY <1>7, <1>11, <3>1
      <4>2. c.closed[i] = b.closed[i] /\ c.trades[k + i] = b.trades[k + i]
        BY <1>8, <1>9, <4>1
      <4> QED BY <1>11, <3>1, <4>2
    <3>2. CASE ~(i \in 1..(n - k))
      <4>1. i = m + 1 /\ k + i = n + 1
        BY <1>7, <1>11, <3>2
      <4> QED BY <1>2, <1>4, <1>8, <1>9, <4>1
    <3> QED BY <3>1, <3>2
  <2>3. \A i \in 1..k : f # None /\ c.trades[i].exitTime < f - Day
    <3>1. \A i \in 1..k : i \in 1..n
      BY <1>7, <1>11
    <3> QED BY <1>8, <1>11, <3>1
  <2> QED BY <1>7, <2>1, <2>2, <2>3 DEF Forgot
<1>13. (\A i \in 1..n : b.trades[i].exitTime \in Int /\ b.trades[i].exitTime <= now) /\ f # None
  <2>1. \A i \in 1..n : b.trades[i] \in Trades
    BY <1>1, <1>7
  <2> QED BY <1>7, <2>1, EngineAssumption DEF Trades, Until, EngineAssumption
<1>14. \A i \in 1..(n + 1) : i = n + 1 \/ i \in 1..n
  BY <1>7
<1>15. Until(c.trades, now)
  BY <1>2, <1>7, <1>8, <1>13, <1>14 DEF Until
<1>16. \A i \in 1..n : \A j \in 1..n : i <= j => b.trades[i].exitTime <= b.trades[j].exitTime
  BY <1>7 DEF Remembered, InOrderOfExit
<1>17. InOrderOfExit(c.trades)
  <2> SUFFICES ASSUME NEW i \in 1..(n + 1), NEW j \in 1..(n + 1), i <= j
               PROVE  c.trades[i].exitTime <= c.trades[j].exitTime
    BY <1>7 DEF InOrderOfExit
  <2>1. CASE j \in 1..n
    <3>1. i \in 1..n
      BY <1>7, <2>1
    <3> QED BY <1>8, <1>16, <2>1, <3>1
  <2>2. CASE j = n + 1
    <3>1. c.trades[j].exitTime = now
      BY <1>2, <1>8, <2>2
    <3>2. i = n + 1 => c.trades[i].exitTime = now
      BY <1>2, <1>8
    <3>3. i \in 1..n => c.trades[i].exitTime <= now
      BY <1>8, <1>13
    <3>4. now <= now
      OBVIOUS
    <3> QED BY <1>14, <3>1, <3>2, <3>3, <3>4
  <2> QED BY <1>14, <2>1, <2>2
<1>18. \A i \in DOMAIN c.trades : f # None /\ c.trades[i].exitTime <= f
  <2>1. \A i \in 1..(n + 1) : c.trades[i].exitTime <= now
    BY <1>7, <1>15 DEF Until
  <2>2. \A i \in 1..(n + 1) : c.trades[i].exitTime \in Int
    BY <1>2, <1>8, <1>13, <1>14
  <2> QED BY <1>7, <1>13, <2>1, <2>2
<1> QED BY <1>12, <1>15, <1>17, <1>18 DEF Remembered, Recalls, Leaves

(* PaperBook::book is such a turn. *)
LEMMA ExitedLeaves ==
  ASSUME NEW b \in Books, NEW c, NEW price \in Int, NEW time \in Int, NEW kind,
         Exited(b, c, price, time, kind)
  PROVE  Leaves(b, c, time) /\ c.pending = b.pending
<1> DEFINE t == Closed(b.position, price, time, kind)
<1>1. t \in Trades /\ t.exitTime = time
  BY DEF Exited, Closed
<1>2. c = [b EXCEPT !.position = None, !.equity = b.equity + t.pnl,
                    !.trades = Append(b.trades, t),
                    !.closed = Append(b.closed, [time |-> time, pnl |-> t.pnl])]
  BY DEF Exited
<1> HIDE DEF t
<1>3. /\ c.position = None /\ c.trades = Append(b.trades, t)
      /\ c.closed = Append(b.closed, [time |-> time, pnl |-> t.pnl])
      /\ c.pending = b.pending
  BY <1>2 DEF Books
<1> QED BY <1>1, <1>3 DEF Leaves

(* A turn not before the exits keeps the memory. *)
LEMMA TurnRemembered ==
  ASSUME NEW b \in Books, NEW c \in Books, NEW now \in Int, NEW f \in Int, now <= f,
         Remembered(b, f), Limited(b, f), Until(b.trades, now), Turn(b, c, now)
  PROVE  Remembered(c, f) /\ Limited(c, f) /\ Until(c.trades, now)
<1>1. CASE Silent(b, c)
  BY <1>1, SilentRemembered DEF Silent, SamePlace
<1>2. CASE Prunes(b, c, now)
  <2>1. Recalls(c.trades, c.closed, f)
    BY <1>2, PrunedRecalls DEF Prunes, SamePlace, Remembered
  <2> QED BY <1>2, <2>1 DEF Prunes, SamePlace, Remembered, Limited
<1>3. CASE Enters(b, c, now)
  <2>1. Recalls(c.trades, c.closed, f)
    BY <1>3, PrunedRecalls DEF Enters, Remembered
  <2>2. f # None
    BY EngineAssumption DEF EngineAssumption
  <2>3. Remembered(c, f)
    BY <1>3, <2>1, <2>2 DEF Enters, Remembered
  <2>4. Limited(c, f)
    <3>1. SUFFICES ASSUME Guarded, f = c.position.entryTime
                   PROVE  TradesOfDay(c.trades, f) < MaxTradesPerDay
                          /\ PnlOfDay(c.trades, f) > -DailyLossLimit
      BY DEF Limited
    <3>2. c.closed = PrunedDay(b.closed, f) /\ c.trades = b.trades
          /\ Len(c.closed) < MaxTradesPerDay /\ DayPnl(c.closed) > -DailyLossLimit
      BY <1>3, <3>1 DEF Enters
    <3>3. TradesOfDay(b.trades, f) = Len(PrunedDay(b.closed, f))
          /\ PnlOfDay(b.trades, f) = DayPnl(PrunedDay(b.closed, f))
      BY JudgedByTheDay
    <3> QED BY <3>2, <3>3
  <2> QED BY <1>3, <2>3, <2>4 DEF Enters
<1>4. CASE Leaves(b, c, now)
  <2>1. Remembered(c, f) /\ Until(c.trades, now)
    BY <1>4, LeavingRemembered
  <2> QED BY <1>4, <2>1 DEF Leaves, Limited
<1> QED BY <1>1, <1>2, <1>3, <1>4 DEF Turn

(* fill_pending takes one such turn; only an exit lengthens the list. *)
LEMMA FillTurns ==
  ASSUME NEW b \in Books, NEW time \in Int, NEW price \in Price,
         NEW warm \in BOOLEAN, NEW cut \in Cuts
  PROVE  LET c == FillPending(b, time, price, warm, cut).book
         IN  /\ c \in Books /\ Turn(b, c, time) /\ c.pending = None
             /\ (b.pending # None => b.pending.kind = "Enter") => c.trades = b.trades
<1> DEFINE r == FillPending(b, time, price, warm, cut)
<1> SUFFICES /\ r.book \in Books /\ Turn(b, r.book, time) /\ r.book.pending = None
             /\ (b.pending # None => b.pending.kind = "Enter") => r.book.trades = b.trades
  OBVIOUS
<1>1. /\ r.book \in Books /\ r.opened \in BOOLEAN
      /\ \/ ~r.opened /\ Consumed(b, r.book)
         \/ r.opened /\ OpenedFrom(b, r.book, time)
         \/ ~r.opened /\ ClosedFrom(b, r.book, time)
  BY FillPendingCases
<1> DEFINE j == Judging(b, time)
           pruned == IF Guarded /\ MaxConcurrent > 0 THEN PrunedDay(b.closed, time) ELSE b.closed
<1>2. j.closed = pruned
  BY DEF Judging, Books
<1>3. \/ r.book.closed = b.closed /\ ~r.opened
      \/ r.book.closed = pruned /\ (r.opened => EntryRefusal(j, time) = None)
      \/ ClosedFrom(b, r.book, time)
  <2>1. CASE b.pending # None /\ b.pending.kind = "Enter" /\ b.position = None
    <3> DEFINE p == Opened(b.pending, time, price, warm, b.equity)
               lots == AdvisedLots(p.lots, cut)
               entered == IF b.lastEntry = None THEN time ELSE Larger(b.lastEntry, time)
               q == [p EXCEPT !.lots = lots]
    <3>1. r = EnterPending(b, time, price, warm, cut)
      BY <2>1 DEF FillPending
    <3>2. EnterPending(b, time, price, warm, cut) =
            IF cut = 0 THEN Refused(j, "ADVISOR")
            ELSE IF EntryRefusal(j, time) # None THEN Refused(j, EntryRefusal(j, time))
            ELSE IF p.risk = 0 THEN Refused(j, "NO_RISK_UNIT")
            ELSE IF TooSmall(p.lots) THEN Refused(j, "NOTIONAL_CAP")
            ELSE IF TooSmall(lots) THEN Refused(j, "ADVISOR")
            ELSE [Quiet([j EXCEPT !.position = q, !.lastEntry = entered]) EXCEPT !.opened = TRUE]
      BY Zenon DEF EnterPending
    <3>3. \A why : Refused(j, why).book = j /\ Refused(j, why).opened = FALSE
      BY DEF Refused, Quiet
    <3>4. j \in Books
      <4>1. PrunedDay(b.closed, time) \in Seq(Realised)
        BY PrunedDayType DEF Books
      <4>2. b.closed \in Seq(Realised)
        BY DEF Books
      <4> QED BY <4>1, <4>2 DEF Judging, Books
    <3> HIDE DEF j, p, lots, entered, q, r
    <3>5. LET d == [Quiet([j EXCEPT !.position = q, !.lastEntry = entered]) EXCEPT !.opened = TRUE].book
          IN  d.closed = j.closed
      BY <3>4 DEF Quiet, Books
    <3> QED BY <1>2, <3>1, <3>2, <3>3, <3>5
  <2>2. CASE b.pending # None /\ b.pending.kind = "Exit" /\ b.position # None
    <3>1. ~OpenedFrom(b, r.book, time)
      BY <2>2 DEF OpenedFrom
    <3>2. r = Booked([b EXCEPT !.pending = None],
                     ApplyCosts(price, b.position.side, FALSE), time, "SIGNAL")
      BY <2>2 DEF FillPending
    <3>3. b.position.side \in Side /\ "SIGNAL" \in ExitKinds
      BY <2>2 DEF Books, Positions, ExitKinds
    <3>4. PICK cost \in Int : cost = ApplyCosts(price, b.position.side, FALSE)
      <4>1. ApplyCosts(price, b.position.side, FALSE) \in Nat \ {0}
        BY <3>3, CostType
      <4>2. \A x \in Nat \ {0} : x \in Int
        OBVIOUS
      <4> QED BY <4>1, <4>2, Zenon
    <3>5. [b EXCEPT !.pending = None] \in Books /\ [b EXCEPT !.pending = None].position # None
      BY <2>2 DEF Books
    <3> HIDE DEF r
    <3>6. Exited([b EXCEPT !.pending = None], r.book, cost, time, "SIGNAL")
      BY <3>2, <3>3, <3>4, <3>5, BookedType
    <3> QED BY <2>2, <3>6 DEF ClosedFrom
  <2>3. CASE b.pending = None
    BY <2>3 DEF FillPending, Quiet
  <2>4. CASE b.pending # None /\ ~(b.pending.kind = "Enter" /\ b.position = None)
             /\ ~(b.pending.kind = "Exit" /\ b.position # None)
    <3>1. r = Quiet([b EXCEPT !.pending = None])
      BY <2>4 DEF FillPending
    <3>2. [b EXCEPT !.pending = None].closed = b.closed
      BY DEF Books
    <3> HIDE DEF r
    <3> QED BY <3>1, <3>2 DEF Quiet
  <2> QED BY <2>1, <2>2, <2>3, <2>4
<1>4. b.closed \in Seq(Realised)
  BY DEF Books
<1> HIDE DEF r
<1>5. CASE ClosedFrom(b, r.book, time)
  <2> DEFINE d == [b EXCEPT !.pending = None]
  <2>1. PICK cost \in Int : Exited(d, r.book, cost, time, "SIGNAL")
    BY <1>5 DEF ClosedFrom
  <2>2. d \in Books /\ d.trades = b.trades /\ d.closed = b.closed /\ d.pending = None
    BY DEF Books
  <2> HIDE DEF d
  <2>3. Leaves(d, r.book, time) /\ r.book.pending = None
    BY <2>1, <2>2, ExitedLeaves
  <2>4. Leaves(b, r.book, time)
    BY <2>2, <2>3 DEF Leaves
  <2>5. ~(b.pending # None => b.pending.kind = "Enter")
    BY <1>5 DEF ClosedFrom
  <2> QED BY <1>1, <2>3, <2>4, <2>5 DEF Turn
<1>6. CASE Consumed(b, r.book) /\ ~ClosedFrom(b, r.book, time)
  <2>1. r.book.trades = b.trades /\ r.book.position = b.position /\ r.book.pending = None
    BY <1>6 DEF Consumed, Books
  <2>2. r.book.closed = b.closed \/ r.book.closed = PrunedDay(b.closed, time)
    BY <1>3, <1>6
  <2> QED BY <1>1, <2>1, <2>2 DEF Turn, Silent, Prunes, SamePlace
<1>7. CASE r.opened /\ OpenedFrom(b, r.book, time) /\ ~ClosedFrom(b, r.book, time)
  <2>1. /\ r.book.trades = b.trades /\ r.book.pending = None
        /\ r.book.position \in Positions /\ r.book.position.entryTime = time
    BY <1>7 DEF OpenedFrom, Books
  <2>2. r.book.closed = pruned /\ EntryRefusal(j, time) = None
    BY <1>3, <1>7
  <2>3. ASSUME Guarded
        PROVE  MaxConcurrent > 0 /\ ~(DayPnl(pruned) <= -DailyLossLimit)
               /\ ~(Len(pruned) >= MaxTradesPerDay)
    <3> HIDE DEF pruned, j
    <3>1. MemoryRefusal(pruned, j.lastEntry, time) = None
      BY <1>2, <2>2, <2>3 DEF EntryRefusal
    <3>2. MaxConcurrent # 0
      BY <3>1, NoneAssumption DEF MemoryRefusal, NoneAssumption, Refusals
    <3>3. ~(DayPnl(pruned) <= -DailyLossLimit)
      BY <3>1, NoneAssumption DEF MemoryRefusal, NoneAssumption, Refusals
    <3>4. ~(Len(pruned) >= MaxTradesPerDay)
      BY <3>1, NoneAssumption DEF MemoryRefusal, NoneAssumption, Refusals
    <3> QED BY <3>2, <3>3, <3>4, EngineAssumption DEF EngineAssumption
  <2>4. ASSUME Guarded
        PROVE  /\ r.book.closed = PrunedDay(b.closed, time)
               /\ Len(r.book.closed) < MaxTradesPerDay
               /\ DayPnl(r.book.closed) > -DailyLossLimit
    <3>1. r.book.closed = PrunedDay(b.closed, time)
      BY <2>2, <2>3, <2>4
    <3>2. PICK P \in Seq(Realised) : P = r.book.closed
      BY <1>4, <3>1, PrunedDayType
    <3>3. DayPnl(P) \in Int /\ Len(P) \in Nat
      BY MemoryPnlType
    <3>4. DailyLossLimit \in Int /\ MaxTradesPerDay \in Int
      BY EngineAssumption DEF EngineAssumption
    <3>5. P = pruned
      BY <2>2, <3>2
    <3> HIDE DEF pruned
    <3>6. ~(DayPnl(P) <= -DailyLossLimit) /\ ~(Len(P) >= MaxTradesPerDay)
      BY <2>3, <2>4, <3>5
    <3>7. DayPnl(P) > -DailyLossLimit /\ Len(P) < MaxTradesPerDay
      BY <3>3, <3>4, <3>6
    <3> QED BY <3>1, <3>2, <3>7
  <2>5. ~Guarded => r.book.closed = b.closed
    BY <2>2
  <2>6. Enters(b, r.book, time)
    BY <2>1, <2>4, <2>5, NoneAssumption DEF Enters, NoneAssumption
  <2> QED BY <1>1, <2>1, <2>6 DEF Turn
<1> QED BY <1>1, <1>5, <1>6, <1>7

-----------------------------------------------------------------------------
(* A turn reads three fields of the book and sets three. *)
SameMemory(b, c) == c.trades = b.trades /\ c.closed = b.closed /\ c.position = b.position

LEMMA TurnOfSame ==
  ASSUME NEW b, NEW c, NEW b2, NEW c2, NEW now,
         Turn(b, c, now), SameMemory(b, b2), SameMemory(c, c2)
  PROVE  Turn(b2, c2, now)
<1>1. CASE Silent(b, c)
  BY <1>1 DEF Silent, SamePlace, SameMemory, Turn
<1>2. CASE Prunes(b, c, now)
  BY <1>2 DEF Prunes, SamePlace, SameMemory, Turn
<1>3. CASE Enters(b, c, now)
  BY <1>3 DEF Enters, SameMemory, Turn
<1>4. CASE Leaves(b, c, now)
  BY <1>4 DEF Leaves, SameMemory, Turn
<1> QED BY <1>1, <1>2, <1>3, <1>4 DEF Turn

LEMMA ManagedTurns ==
  ASSUME NEW b \in Books, NEW bar \in Bars, NEW c, Managed(b, c, bar)
  PROVE  Turn(b, c, bar.time) /\ c.lastBar = bar
<1> DEFINE s == Seen(b, bar)
<1>1. s \in Books /\ SameMemory(b, s) /\ s.lastBar = bar
  BY DEF Seen, Books, SameMemory
<1>2. bar.time \in Int
  BY DEF Bars
<1> HIDE DEF s
<1>3. CASE Untouched(b, c, bar)
  BY <1>1, <1>3 DEF Untouched, s, SameMemory, Turn, Silent, SamePlace
<1>4. CASE HeldOver(b, c, bar)
  <2>1. PICK q : Tightened(b.position, q) /\ c = [s EXCEPT !.position = q]
    BY <1>4 DEF HeldOver, s
  <2>2. c.position = q /\ c.trades = s.trades /\ c.closed = s.closed /\ c.lastBar = bar
    BY <1>1, <2>1 DEF Books
  <2>3. b.position # None /\ b.position \in Positions
    BY <1>4 DEF HeldOver, Books
  <2>4. q.entryTime = b.position.entryTime
    BY <2>1, <2>3 DEF Tightened, Positions
  <2> QED BY <1>1, <2>2, <2>3, <2>4 DEF SameMemory, Turn, Silent, SamePlace
<1>5. CASE LeftOn(b, c, bar)
  <2>1. PICK price \in Int, kind \in ExitKinds : Exited(s, c, price, bar.time, kind)
    BY <1>5 DEF LeftOn, s
  <2>2. Turn(s, c, bar.time)
    BY <1>1, <1>2, <2>1, ExitedLeaves DEF Turn
  <2>3. SameMemory(s, b) /\ SameMemory(c, c)
    BY <1>1 DEF SameMemory
  <2>4. Turn(b, c, bar.time)
    BY <2>2, <2>3, TurnOfSame
  <2>5. c.lastBar = bar
    BY <1>1, <2>1 DEF Exited, Books
  <2> QED BY <2>4, <2>5
<1> QED BY <1>3, <1>4, <1>5 DEF Managed

LEMMA FillOrderTurns ==
  ASSUME NEW b \in Books, b.order # None, b.position = None,
         NEW time \in Int, NEW price \in Price, NEW last \in Price,
         NEW warm \in BOOLEAN, NEW cut \in Cuts
  PROVE  Turn(b, FillOrder(b, time, price, last, warm, cut).book, time)
<1> DEFINE o == b.order
           intent == [kind |-> "Enter", side |-> o.side, stop |-> o.stop,
                      target |-> o.target, decided |-> o.decided]
           e == [b EXCEPT !.order = None, !.pending = intent]
           r == FillPending(e, time, price, warm, cut)
           range == [barTime |-> time, open |-> last, high |-> last, low |-> last]
           c == FillOrder(b, time, price, last, warm, cut).book
<1>1. intent \in Intents
  <2>1. o \in Orders
    BY DEF Books
  <2> QED BY <2>1 DEF Orders, Intents, Enter
<1>2. c = IF r.opened THEN [r.book EXCEPT !.since = range] ELSE r.book
  BY DEF FillOrder
<1> HIDE DEF intent, range, c
<1>3. e \in Books /\ SameMemory(e, b)
  BY <1>1 DEF Books, SameMemory
<1> HIDE DEF e
<1>4. r.book \in Books /\ Turn(e, r.book, time)
  BY <1>3, FillTurns
<1> HIDE DEF r
<1>5. SameMemory(r.book, c)
  BY <1>2, <1>4 DEF SameMemory, Books
<1> QED BY <1>3, <1>4, <1>5, TurnOfSame DEF c

-----------------------------------------------------------------------------
(* Where a run's exits are those of its closed bars, none waits for an open,
   and every exit is at or before the last bar. *)
AtBars(b) ==
  ~MayExit \/ External =>
    \A i \in DOMAIN b.trades : b.lastBar # None /\ b.trades[i].exitTime <= b.lastBar.time
NoExitWaits(b) == ~MayExit \/ External => (b.pending # None => b.pending.kind = "Enter")

Minded(b, f) == Remembered(b, f) /\ Limited(b, f) /\ AtBars(b) /\ NoExitWaits(b)

(* A stop may book an exit before others, so the memory is minded of a running
   book; the limits hold of any. *)
DayInd == Limited(book, feed) /\ (running => Minded(book, feed))

LEMMA KeptMinded ==
  ASSUME NEW b, NEW c, NEW f, Kept(b, c), NoExitWaits(c), Minded(b, f)
  PROVE  Minded(c, f)
<1>1. Silent(b, c)
  BY DEF Kept, Silent, SamePlace
<1>2. Remembered(c, f) /\ Limited(c, f)
  BY <1>1, SilentRemembered DEF Minded
<1>3. AtBars(c)
  BY DEF Kept, Minded, AtBars
<1> QED BY <1>2, <1>3 DEF Minded

(* A stamp a run accepts is not before any of its exits. *)
LEMMA NewerUntil ==
  ASSUME Ind, Minded(book, feed), NEW t \in Int, Newer(t),
         \/ ~MayExit \/ External
         \/ feed # None => t >= feed
  PROVE  Until(book.trades, t)
<1>1. book \in Books /\ feed \in Level
  BY DEF Ind, Sound
<1>2. \A i \in DOMAIN book.trades : book.trades[i].exitTime \in Int
  <2>1. book.trades \in Seq(Trades)
    BY <1>1 DEF Books
  <2>2. \A i \in DOMAIN book.trades : book.trades[i] \in Trades
    BY <2>1
  <2> QED BY <2>2 DEF Trades
<1>3. CASE ~MayExit \/ External
  <2>1. \A i \in DOMAIN book.trades : book.lastBar # None /\ book.trades[i].exitTime <= book.lastBar.time
    BY <1>3 DEF Minded, AtBars
  <2>2. book.lastBar # None => book.lastBar.time \in Int /\ book.lastBar.time < t
    BY <1>1, EngineAssumption DEF Newer, HasBar, Newest, Books, Bars, EngineAssumption
  <2> QED BY <1>2, <2>1, <2>2 DEF Until
<1>4. CASE feed # None => t >= feed
  <2>1. \A i \in DOMAIN book.trades : feed # None /\ book.trades[i].exitTime <= feed
    BY DEF Minded, Remembered
  <2>2. feed # None => feed \in Int
    BY <1>1 DEF Level
  <2> QED BY <1>2, <1>4, <2>1, <2>2 DEF Until
<1> QED BY <1>3, <1>4

LEMMA PostedLater ==
  ASSUME NEW t \in Int, feed \in Level, Posted(t)
  PROVE  /\ feed' \in Int /\ t <= feed'
         /\ feed # None => feed <= feed'
         /\ InOrder => (feed # None => t >= feed)
BY DEF Posted, Larger, Level

LEMMA BarClosesMinded ==
  ASSUME MayExit => External \/ InOrder, Ind, Minded(book, feed),
         NEW t \in Times, NEW s \in BarShapes, NEW warm \in BOOLEAN, NEW cut \in Cuts,
         NEW decision \in Decisions(t), BarCloses(t, s, warm, cut, decision)
  PROVE  Minded(book', feed')
<1> DEFINE bar == BarAt(t, s)
           f == FillPending(book, bar.time, bar.open, warm, cut).book
           a == Advance(book, bar, warm, cut).book
           d == Decide(a, decision)
<1>1. bar \in Bars /\ bar.time \in Int /\ bar.open \in Price /\ bar.time = t /\ bar # None
  BY BarAtType, NoOrderAssumption DEF NoOrderAssumption
<1>2. book \in Books /\ feed \in Level
  BY DEF Ind, Sound
<1>3. book' = OrderSawBarClose(d) /\ Posted(t) /\ Newer(t)
  BY DEF BarCloses, Step
<1>4. a \in Books /\ Managed(f, a, bar)
  BY <1>1, <1>2, AdvanceCases
<1> HIDE DEF bar
<1>5. f \in Books /\ Turn(book, f, t)
  BY <1>1, <1>2, FillTurns
<1> HIDE DEF f, a
<1>6. feed' \in Int /\ t <= feed' /\ (feed # None => feed <= feed')
      /\ (InOrder => (feed # None => t >= feed))
  BY <1>1, <1>2, <1>3, PostedLater
<1>7. Until(book.trades, t)
  BY <1>1, <1>3, <1>6, NewerUntil
<1>8. Remembered(book, feed') /\ Limited(book, feed')
  BY <1>2, <1>6, LaterRemembered DEF Minded
<1>9. Remembered(f, feed') /\ Limited(f, feed') /\ Until(f.trades, t)
  BY <1>1, <1>2, <1>5, <1>6, <1>7, <1>8, TurnRemembered
<1>10. Turn(f, a, t) /\ a.lastBar = bar
  BY <1>1, <1>4, <1>5, ManagedTurns
<1>11. Remembered(a, feed') /\ Limited(a, feed') /\ Until(a.trades, t)
  BY <1>1, <1>4, <1>5, <1>6, <1>9, <1>10, TurnRemembered
<1>12. decision \in Intents \cup {None}
       /\ (~MayExit \/ External => (decision # None => decision.kind = "Enter"))
  BY <1>1, PaperBookAssumption
     DEF PaperBookAssumption, Decisions, Intents, Enter, Exit, EnterAt, ExitAt
<1>13. Kept(a, d) /\ d.pending = decision
  BY <1>4, <1>12, DecideKeeps
<1>14. d \in Books
  BY <1>13 DEF Kept
<1> HIDE DEF d
<1>15. Kept(d, book') /\ book'.pending = decision
  BY <1>3, <1>13, <1>14, OrderSawBarCloseKeeps
<1>16. Silent(a, book') /\ book'.lastBar = bar /\ book'.trades = a.trades
  BY <1>10, <1>13, <1>15 DEF Kept, Silent, SamePlace
<1>17. Remembered(book', feed') /\ Limited(book', feed')
  BY <1>11, <1>16, SilentRemembered
<1>18. AtBars(book')
  BY <1>1, <1>11, <1>16 DEF AtBars, Until
<1>19. NoExitWaits(book')
  BY <1>12, <1>15 DEF NoExitWaits
<1> QED BY <1>17, <1>18, <1>19 DEF Minded

LEMMA BarOpensMinded ==
  ASSUME MayExit => External \/ InOrder, Ind, Minded(book, feed),
         NEW t \in Times, NEW s \in BarShapes, NEW warm \in BOOLEAN, NEW cut \in Cuts,
         BarOpens(t, s.open, warm, cut)
  PROVE  Minded(book', feed')
<1> DEFINE f == FillPending(book, t, s.open, warm, cut).book
<1>1. t \in Int /\ s.open \in Price
  BY BarAtType
<1>2. book \in Books /\ feed \in Level /\ Posted(t) /\ Newer(t)
      /\ book' = FillOpen(book, t, s.open, warm, cut).book
  BY DEF Ind, Sound, BarOpens
<1>3. f \in Books /\ Turn(book, f, t) /\ f.pending = None
      /\ ((book.pending # None => book.pending.kind = "Enter") => f.trades = book.trades)
  BY <1>1, <1>2, FillTurns
<1>4. book' = book \/ book' = f
  BY <1>2 DEF FillOpen, Quiet
<1>5. book'.lastBar = book.lastBar
  <2> DEFINE c == FillOpen(book, t, s.open, warm, cut).book
  <2>1. /\ c \in Books /\ c.lastBar = book.lastBar /\ c.order = book.order
        /\ c.pending \in {None, book.pending}
        /\ book.lastBar = None => c = book
        /\ (book.pending # None => book.pending.kind = "Enter")
             => c.trades = book.trades /\ c.equity = book.equity
        /\ book.position = None /\ c.position # None
             => c.position.entryTime = t /\ book.lastBar # None /\ t > book.lastBar.time
    BY <1>1, <1>2, FillOpenKeeps
  <2> QED BY <1>2, <2>1
<1> HIDE DEF f
<1>6. feed' \in Int /\ t <= feed' /\ (feed # None => feed <= feed')
      /\ (InOrder => (feed # None => t >= feed))
  BY <1>1, <1>2, PostedLater
<1>7. Until(book.trades, t)
  BY <1>1, <1>2, <1>6, NewerUntil
<1>8. Remembered(book, feed') /\ Limited(book, feed')
  BY <1>2, <1>6, LaterRemembered DEF Minded
<1>9. CASE book' = book
  BY <1>8, <1>9 DEF Minded
<1>10. CASE book' = f
  <2>1. Remembered(f, feed') /\ Limited(f, feed')
    BY <1>1, <1>2, <1>3, <1>6, <1>7, <1>8, TurnRemembered
  <2>2. AtBars(f)
    BY <1>3, <1>5, <1>10 DEF AtBars, Minded, NoExitWaits
  <2>3. NoExitWaits(f)
    BY <1>3 DEF NoExitWaits
  <2> QED BY <1>10, <2>1, <2>2, <2>3 DEF Minded
<1> QED BY <1>4, <1>9, <1>10

LEMMA TickArrivesMinded ==
  ASSUME Ind, Minded(book, feed), NEW t \in Times, TickArrives(t)
  PROVE  Minded(book', feed')
<1>1. t \in Int
  BY PaperBookAssumption DEF PaperBookAssumption
<1>2. book \in Books /\ feed \in Level /\ Posted(t) /\ book' = book
  BY DEF Ind, Sound, TickArrives
<1>3. feed' \in Int /\ (feed # None => feed <= feed')
  BY <1>1, <1>2, PostedLater
<1>4. Remembered(book, feed') /\ Limited(book, feed')
  BY <1>2, <1>3, LaterRemembered DEF Minded
<1> QED BY <1>2, <1>4 DEF Minded

(* An order fills for an External run only, at a stamp the run accepts. *)
LEMMA FillMinded ==
  ASSUME NEW b, Sound(b), NEW f \in Int, Minded(b, f), b.order # None, b.position = None,
         NEW t \in Int, t <= f, Until(b.trades, t),
         NEW price \in Price, NEW last \in Price, NEW warm \in BOOLEAN, NEW cut \in Cuts
  PROVE  Minded(FillOrder(b, t, price, last, warm, cut).book, f)
<1> DEFINE c == FillOrder(b, t, price, last, warm, cut).book
<1>1. b \in Books
  BY DEF Sound
<1>2. Turn(b, c, t)
  BY <1>1, FillOrderTurns
<1>3. c \in Books /\ c.trades = b.trades /\ c.lastBar = b.lastBar /\ c.pending = None
  BY <1>1, FillOrderKeeps
<1> HIDE DEF c
<1>4. Remembered(c, f) /\ Limited(c, f)
  BY <1>1, <1>2, <1>3, TurnRemembered DEF Minded
<1>5. AtBars(c) /\ NoExitWaits(c)
  BY <1>3 DEF AtBars, NoExitWaits, Minded
<1>6. Minded(c, f)
  BY <1>4, <1>5 DEF Minded
<1> QED BY <1>6 DEF c

LEMMA TickMinded ==
  ASSUME Ind, Minded(book, feed),
         NEW t \in Times, NEW s \in BarShapes, NEW quote \in Quotes \cup {None},
         NEW warm \in BOOLEAN, NEW cut \in Cuts, Tick(t, s.close, quote, warm, cut)
  PROVE  Minded(book', feed')
<1> DEFINE b == ObserveTick(book, t, s.close)
           c == SettledByTick(b, t, s.close, quote, warm, cut)
           touch == Touched(b.order, quote)
<1>1. t \in Int /\ s.close \in Price
  BY BarAtType
<1>2. Sound(book) /\ book \in Books /\ feed \in Level /\ feed # None /\ t <= feed
      /\ feed' = feed /\ book' = c
  BY DEF Ind, Sound, Tick
<1>3. feed \in Int
  BY <1>2 DEF Level
<1>4. Kept(book, b) /\ b.pending = book.pending
  BY <1>1, <1>2, ObserveTickKeeps
<1>5. Sound(b)
  BY <1>1, <1>2, ObserveTickSound
<1> HIDE DEF b
<1>6. b \in Books /\ Owned(b)
  BY <1>5 DEF Sound
<1>7. Minded(b, feed)
  <2>1. NoExitWaits(b)
    BY <1>4 DEF NoExitWaits, Minded
  <2> QED BY <1>4, <2>1, KeptMinded
<1> DEFINE fills == /\ b.order # None /\ HasBar /\ Newer(t) /\ touch # None /\ b.position = None
                    /\ c = FillOrder(b, t, touch, s.close, warm, cut).book
<1>8. c = b \/ c = CancelOrder(b) \/ fills
  <2>1. CASE b.order = None \/ ~HasBar \/ ~Newer(t)
    BY <2>1 DEF SettledByTick
  <2>2. CASE b.order # None /\ HasBar /\ Newer(t)
    <3>1. c = IF InvalidatedBy(b.order, quote) THEN CancelOrder(b)
              ELSE IF touch = None THEN b
              ELSE IF b.position # None THEN CancelOrder(b)
              ELSE FillOrder(b, t, touch, s.close, warm, cut).book
      BY <2>2 DEF SettledByTick
    <3> HIDE DEF c, touch
    <3> QED BY <2>2, <3>1
  <2> QED BY <2>1, <2>2
<1> HIDE DEF c
<1>9. CASE c = b
  BY <1>2, <1>7, <1>9
<1>10. CASE c = CancelOrder(b)
  <2>1. Kept(b, c) /\ c.pending = b.pending
    BY <1>6, <1>10, CancelOrderKeeps
  <2>2. NoExitWaits(c)
    BY <1>7, <2>1 DEF NoExitWaits, Minded
  <2> QED BY <1>2, <1>7, <2>1, <2>2, KeptMinded
<1>11. CASE fills
  <2>1. touch \in Price
    <3>1. b.order \in Orders
      BY <1>6, <1>11 DEF Books
    <3>2. quote # None
      BY <1>11 DEF Touched
    <3>3. quote.bid \in Price /\ quote.ask \in Price
      BY <3>2, PaperBookAssumption DEF PaperBookAssumption
    <3> QED BY <1>11, <3>1, <3>3 DEF Touched, TriggerSide, Orders
  <2>2. External
    BY <1>6, <1>11 DEF Owned
  <2>3. Until(book.trades, t)
    BY <1>1, <1>11, <2>2, NewerUntil
  <2>4. Until(b.trades, t)
    BY <1>4, <2>3 DEF Kept
  <2> HIDE DEF touch
  <2>5. Minded(c, feed)
    BY <1>1, <1>2, <1>3, <1>5, <1>7, <1>11, <2>1, <2>4, FillMinded
  <2> QED BY <1>2, <2>5
<1> HIDE DEF fills
<1> QED BY <1>8, <1>9, <1>10, <1>11

LEMMA PostIntentMinded ==
  ASSUME Ind, Minded(book, feed), NEW f \in EntryForms, PostIntent(f)
  PROVE  Minded(book', feed')
<1> DEFINE b == CancelOrder(book)
           e == EnterAt(f, Newest)
<1>1. book \in Books /\ HasBar /\ book' = Decide(b, e) /\ feed' = feed
  BY DEF Ind, Sound, PostIntent
<1>2. Kept(book, b)
  BY <1>1, CancelOrderKeeps
<1>3. e \in Intents /\ e.kind = "Enter"
  <2>1. Newest \in Int
    BY <1>1, NewestType
  <2> QED BY <2>1, PaperBookAssumption DEF PaperBookAssumption, EnterAt, Intents, Enter
<1> HIDE DEF b, e
<1>4. Kept(b, book') /\ book'.pending = e
  BY <1>1, <1>2, <1>3, DecideKeeps DEF Kept
<1>5. Kept(book, book') /\ NoExitWaits(book')
  BY <1>2, <1>3, <1>4 DEF Kept, NoExitWaits
<1> QED BY <1>1, <1>5, KeptMinded

LEMMA PostOrderMinded ==
  ASSUME Ind, Minded(book, feed), NEW f \in OrderForms, PostOrder(f)
  PROVE  Minded(book', feed')
<1> DEFINE o == OrderAt(f, Newest)
<1>1. book \in Books /\ HasBar /\ book' = PlaceOrder(book, o) /\ feed' = feed
  BY DEF Ind, Sound, PostOrder
<1>2. o \in Orders
  <2>1. Newest \in Int
    BY <1>1, NewestType
  <2>2. f \in [type: {"Limit", "Stop"}, price: Price, side: Side, stop: Int, target: Level,
               validBars: Nat \ {0}, above: Level, below: Level]
    BY PaperBookAssumption DEF PaperBookAssumption
  <2> QED BY <2>1, <2>2 DEF OrderAt, Orders, Level
<1> HIDE DEF o
<1>3. Kept(book, book') /\ book'.pending = None
  BY <1>1, <1>2, PlaceOrderKeeps
<1> QED BY <1>1, <1>3, KeptMinded DEF NoExitWaits

LEMMA ActTriggerMinded ==
  ASSUME Ind, Minded(book, feed), NEW t \in Times, NEW s \in BarShapes, NEW quote \in Quotes,
         NEW warm \in BOOLEAN, NEW cut \in Cuts, ActTrigger(t, s.close, quote, warm, cut)
  PROVE  Minded(book', feed')
<1>1. t \in Int /\ s.close \in Price
  BY BarAtType
<1>2. TriggerSide(book.order, quote) \in Price
  BY PaperBookAssumption DEF PaperBookAssumption, TriggerSide
<1>3. /\ Sound(book) /\ Owned(book) /\ feed \in Level /\ feed # None /\ t <= feed
      /\ feed' = feed /\ book.order # None /\ book.position = None /\ Newer(t)
      /\ book' = FillOrder(book, t, TriggerSide(book.order, quote), s.close, warm, cut).book
  <2>1. feed \in Level /\ feed # None /\ feed >= t
    BY DEF Ind, ActTrigger
  <2>2. feed \in Int
    BY <2>1 DEF Level
  <2> QED BY <1>1, <2>1, <2>2 DEF Ind, Sound, ActTrigger
<1>4. External /\ feed \in Int
  BY <1>3 DEF Owned, Level
<1>5. Until(book.trades, t)
  BY <1>1, <1>3, <1>4, NewerUntil
<1>6. PICK price \in Price : price = TriggerSide(book.order, quote)
  BY <1>2
<1>7. Minded(FillOrder(book, t, price, s.close, warm, cut).book, feed)
  BY <1>1, <1>3, <1>4, <1>5, FillMinded
<1> QED BY <1>3, <1>6, <1>7

LEMMA ActCancelMinded ==
  ASSUME Ind, Minded(book, feed), ActCancel
  PROVE  Minded(book', feed')
<1>1. book \in Books /\ book' = CancelOrder(book) /\ feed' = feed
  BY DEF Ind, Sound, ActCancel
<1>2. Kept(book, book') /\ book'.pending = book.pending
  BY <1>1, CancelOrderKeeps
<1>3. NoExitWaits(book')
  BY <1>2 DEF Minded, NoExitWaits
<1> QED BY <1>1, <1>2, <1>3, KeptMinded

(* A stop keeps a position, with the trades it has, or closes it. *)
LEMMA StopLimited ==
  ASSUME Ind, Limited(book, feed), Stop
  PROVE  Limited(book', feed')
<1> DEFINE c == [book EXCEPT !.pending = None, !.order = None, !.since = None]
           price == ApplyCosts(book.lastBar.close, book.position.side, FALSE)
<1>1. book \in Books /\ feed' = feed /\ book' = StopBook(book).book
  BY DEF Ind, Sound, Stop
<1>2. c \in Books /\ c.position = book.position /\ c.trades = book.trades
  BY <1>1 DEF Books
<1>3. CASE book.lastBar = None \/ book.position = None
  <2>1. book' = c
    BY <1>1, <1>3 DEF StopBook, Quiet
  <2> HIDE DEF c
  <2> QED BY <1>1, <1>2, <2>1 DEF Limited
<1>4. CASE book.lastBar # None /\ book.position # None
  <2>1. book' = Booked(c, price, book.lastBar.time, "STOPPED").book
    BY <1>1, <1>4 DEF StopBook
  <2>2. book.lastBar.time \in Int /\ book.lastBar.close \in Price /\ book.position.side \in Side
    BY <1>1, <1>4 DEF Books, Bars, Positions
  <2>3. price \in Nat \ {0}
    BY <2>2, CostType
  <2> HIDE DEF price, c
  <2>4. price \in Int /\ "STOPPED" \in ExitKinds
    BY <2>3 DEF ExitKinds
  <2>5. Exited(c, book', price, book.lastBar.time, "STOPPED")
    BY <1>2, <1>4, <2>1, <2>2, <2>4, BookedType
  <2>6. book'.position = None
    BY <1>2, <2>5 DEF Exited, Books
  <2> QED BY <2>6 DEF Limited
<1> QED BY <1>3, <1>4

LEMMA InitMinded == Init => DayInd
<1> SUFFICES ASSUME Init PROVE DayInd
  OBVIOUS
<1>1. book.trades = << >> /\ book.closed = << >> /\ book.position = None /\ book.pending = None
  BY DEF Init, NewBook
<1>2. PICK empty : empty = << >>
  OBVIOUS
<1>3. Len(empty) = 0 /\ DOMAIN empty = {}
  BY <1>2
<1>4. Forgot(empty, empty, 0, feed)
  BY <1>3 DEF Forgot
<1>5. Remembered(book, feed)
  BY <1>1, <1>2, <1>3, <1>4 DEF Remembered, Recalls, InOrderOfExit
<1> QED BY <1>1, <1>2, <1>3, <1>5 DEF DayInd, Minded, Limited, AtBars, NoExitWaits

LEMMA NextMinded ==
  ASSUME MayExit => External \/ InOrder, Ind, DayInd, [Next]_vars
  PROVE  DayInd'
<1>1. Limited(book, feed)
  BY DEF DayInd
<1>2. CASE UNCHANGED vars
  BY <1>2 DEF vars, DayInd
<1>3. CASE Stop
  <2>1. Limited(book', feed')
    BY <1>1, <1>3, StopLimited
  <2>2. ~running'
    BY <1>3 DEF Stop
  <2> QED BY <2>1, <2>2 DEF DayInd
<1>4. CASE Next /\ ~Stop
  <2>1. Minded(book, feed)
    BY <1>4 DEF DayInd, Next
  <2>2. Minded(book', feed')
    <3>1. ASSUME NEW t \in Times, NEW s \in BarShapes, NEW warm \in BOOLEAN, NEW cut \in Cuts,
                 NEW decision \in Decisions(t), BarCloses(t, s, warm, cut, decision)
          PROVE  Minded(book', feed')
      BY <2>1, <3>1, BarClosesMinded
    <3>2. ASSUME NEW t \in Times, NEW s \in BarShapes, NEW warm \in BOOLEAN, NEW cut \in Cuts,
                 BarOpens(t, s.open, warm, cut)
          PROVE  Minded(book', feed')
      BY <2>1, <3>2, BarOpensMinded
    <3>3. ASSUME NEW t \in Times, TickArrives(t)
          PROVE  Minded(book', feed')
      BY <2>1, <3>3, TickArrivesMinded
    <3>4. ASSUME NEW t \in Times, NEW s \in BarShapes, NEW quote \in Quotes \cup {None},
                 NEW warm \in BOOLEAN, NEW cut \in Cuts, Tick(t, s.close, quote, warm, cut)
          PROVE  Minded(book', feed')
      BY <2>1, <3>4, TickMinded
    <3>5. ASSUME NEW f \in EntryForms, PostIntent(f)
          PROVE  Minded(book', feed')
      BY <2>1, <3>5, PostIntentMinded
    <3>6. ASSUME NEW f \in OrderForms, PostOrder(f)
          PROVE  Minded(book', feed')
      BY <2>1, <3>6, PostOrderMinded
    <3>7. ASSUME NEW t \in Times, NEW s \in BarShapes, NEW quote \in Quotes,
                 NEW warm \in BOOLEAN, NEW cut \in Cuts, ActTrigger(t, s.close, quote, warm, cut)
          PROVE  Minded(book', feed')
      BY <2>1, <3>7, ActTriggerMinded
    <3>8. ASSUME ActCancel
          PROVE  Minded(book', feed')
      BY <2>1, <3>8, ActCancelMinded
    <3> QED BY <1>4, <3>1, <3>2, <3>3, <3>4, <3>5, <3>6, <3>7, <3>8 DEF Next
  <2> QED BY <2>2 DEF DayInd, Minded
<1> QED BY <1>2, <1>3, <1>4

(* DayLimitsHold, for every cap, limit and length of the day: what the guards
   still remember of the exits is enough to count those of the last day.  The
   assumption is needed: an exit of the strategy's own, filled at the open of a
   bar, and then an exit on an older bar that closes late, are remembered out of
   the order of their times; the guards stop forgetting at the first close that
   is young, and a profit older than a day behind it hides a loss. *)
THEOREM DayLimits ==
  ASSUME MayExit => External \/ InOrder
  PROVE  Spec => []DayLimitsHold
<1>1. Ind /\ DayInd /\ [Next]_vars => DayInd'
  BY NextMinded
<1>2. DayInd => DayLimitsHold
  BY DEF DayInd, Limited, DayLimitsHold
<1> QED BY <1>1, <1>2, InitMinded, Soundness, PTL DEF Spec
=============================================================================
